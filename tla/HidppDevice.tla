----------------------------- MODULE HidppDevice -----------------------------
(***************************************************************************)
(* hidpp_device over one Ledger: threads that open, close, read and write  *)
(* one device object under its mutex m_dev_lock, and the error text that   *)
(* each backend keeps beside the handle.                                   *)
(*                                                                         *)
(* What the backend does with input reports is taken from HidReports,      *)
(* which HidLibusb and HidMac implement; the reads of linux/hid.c and      *)
(* windows/hid.c are one blocking system call each, kept apart by what     *)
(* they do with the text.  hidpp_device opens its handles in blocking mode *)
(* (hidpp_device.cpp:77), so that the polling and timed branches are not   *)
(* reached from here; HidLibusb and HidMac have them.                      *)
(*                                                                         *)
(* A call is numbered when it begins, and a text is known by the call      *)
(* whose failure it tells.                                                 *)
(***************************************************************************)
EXTENDS Integers, Sequences, FiniteSets

CONSTANTS
    Threads, NoThread,
    Backends,     \* the backends looked at
    Relock,       \* what locking a std::mutex twice may do
    Disciplined,  \* does no call begin beside a close, and no close beside
                  \* a call that has not got the lock?
    MaxCalls,     \* bound: calls
    MaxReports,   \* bound: reports that arrive
    MaxUnplugs,   \* bound: times the device is unplugged
    Cap           \* bound: reports a handle keeps

ASSUME DeviceAssumption ==
    /\ NoThread \notin Threads
    /\ Backends \subseteq {"linux", "windows", "libusb", "mac"}
    /\ Relock \subseteq {"blocks", "passes"} /\ Relock # {}
    /\ Disciplined \in BOOLEAN
    /\ MaxCalls \in Nat /\ MaxReports \in Nat /\ MaxUnplugs \in Nat /\ Cap \in Nat

VARIABLES
    backend,
    \* hidpp_device
    m_dev,        \* "null" or "open"
    holder,       \* the thread that holds m_dev_lock
    \* the backend's handle: the queue as in HidReports, and the text
    queue, arrived, gone, reader, mode, result,
    text,         \* last_error_str: the call that set it, or NoText
    \* the callers
    calls, pc, op, call,
    buf,          \* the local buffer: what hid_read gave
    returned,     \* what the last call of a thread returned
    last,         \* the newest report any call returned
    before,       \* history: last, as the running call of a thread began
    \* the bus
    plugged, unplugs

reportVars == <<queue, arrived, gone, reader, mode, result>>
callerVars == <<calls, pc, op, call, buf, returned, last, before>>
vars == <<backend, m_dev, holder, reportVars, text, callerVars, plugged, unplugs>>

Handle == INSTANCE HidReports WITH FailsEarly <- TRUE

Nothing == Handle!Nothing
Error   == Handle!Error
Zeros   == -2      \* a buffer nobody filled, returned as a report
NoText  == 0

Reads == {"read", "read_back", "raw_read"}
Ops   == Reads \cup {"open", "close", "write", "getError"}

Init ==
    /\ backend \in Backends
    /\ m_dev = "null" /\ holder = NoThread /\ Handle!Init /\ text = NoText
    /\ calls = 0 /\ pc = [t \in Threads |-> "idle"]
    /\ op = [t \in Threads |-> "open"] /\ call = [t \in Threads |-> 0]
    /\ buf = [t \in Threads |-> Nothing]
    /\ returned = [t \in Threads |-> Nothing] /\ last = 0
    /\ before = [t \in Threads |-> 0]
    /\ plugged = TRUE /\ unplugs = 0

(***************************************************************************)
(* The text of a backend.  libusb/hid.c and mac/hid.c keep none.           *)
(***************************************************************************)
\* register_device_error(dev, NULL) at the head of a read.  (Slip: left to
\* the next call that fails.)
TextAtRead_Kept == text
TextAtRead == IF backend = "linux" THEN NoText ELSE text

\* hid_error of the other two is always NULL.
Unchanged == text

\* The failure of a read, and of a write on windows: register_error.
TextOnFailure(t) == IF backend \in {"linux", "windows"} THEN call[t] ELSE Unchanged

LinuxTextAfterWrite(t, written) == IF written THEN NoText ELSE call[t]

\* Nothing in windows/hid.c sets the text back to NULL.
WindowsTextAfterWrite(t, written) == IF written THEN text ELSE TextOnFailure(t)

TextAfterWrite(t, written) ==
    CASE backend = "linux"   -> LinuxTextAfterWrite(t, written)
      [] backend = "windows" -> WindowsTextAfterWrite(t, written)
      [] OTHER               -> Unchanged

\* hid_open_path on linux returns a handle although an ioctl failed, with the
\* text of that.
TextsAtOpen(t) == {NoText} \cup (IF backend = "linux" THEN {call[t]} ELSE {})

(***************************************************************************)
(* Calls.                                                                  *)
(***************************************************************************)
Busy(t) == pc[t] # "idle"

\* The callers that hidpp_device is written for: a handle is there when it is
\* read or written, open follows a close, and see Disciplined.
Legal(o) ==
    /\ o = "open" => m_dev = "null" /\ \A s \in Threads : ~Busy(s)
    /\ o \in Reads \cup {"write"} => m_dev = "open"
    /\ Disciplined => /\ \A s \in Threads : Busy(s) => op[s] # "close"
                      /\ o = "close" => \A s \in Threads : pc[s] # "called"

Call(t, o) ==
    /\ pc[t] = "idle" /\ calls < MaxCalls /\ Legal(o)
    /\ calls' = calls + 1
    /\ pc' = [pc EXCEPT ![t] = "called"]
    /\ op' = [op EXCEPT ![t] = o]
    /\ call' = [call EXCEPT ![t] = calls']
    /\ buf' = [buf EXCEPT ![t] = Nothing]
    /\ before' = [before EXCEPT ![t] = last]
    /\ UNCHANGED <<backend, m_dev, holder, reportVars, text, returned, last,
                   plugged, unplugs>>

Return(t, value) ==
    /\ pc' = [pc EXCEPT ![t] = "idle"]
    /\ returned' = [returned EXCEPT ![t] = value]
    /\ last' = IF value > last THEN value ELSE last
    /\ UNCHANGED <<calls, op, call, buf, before>>

\* std::lock_guard<std::mutex> lock(m_dev_lock).  (Slip: close() locks after
\* it has looked at m_dev only.)
MayEnter_CloseToo(t) == holder = NoThread \/ op[t] = "close"
MayEnter(t) == holder = NoThread

Enter(t, o) == pc[t] = "called" /\ op[t] = o /\ MayEnter(t)

\* The operations that hold the lock over calls that do not wait.
Open(t) ==
    /\ Enter(t, "open")
    /\ \/ plugged /\ m_dev' = "open" /\ text' \in TextsAtOpen(t)
       \/ m_dev' = "null" /\ text' = NoText
    /\ queue' = <<>> /\ gone' = FALSE
    /\ Return(t, Nothing)
    /\ UNCHANGED <<backend, holder, arrived, reader, mode, result, plugged, unplugs>>

\* hid_close frees the handle, its reports and its text.
Close(t) ==
    /\ Enter(t, "close")
    /\ m_dev' = "null" /\ queue' = <<>> /\ text' = NoText
    /\ Return(t, Nothing)
    /\ UNCHANGED <<backend, holder, arrived, gone, reader, mode, result, plugged, unplugs>>

\* A device that is gone is not written to; one that is there may fail.
MayWrite == ~gone

Write(t) ==
    /\ Enter(t, "write") /\ m_dev = "open"
    /\ \E written \in BOOLEAN :
         /\ written => MayWrite
         /\ text' = TextAfterWrite(t, written)
         /\ Return(t, IF written THEN Nothing ELSE Error)
    /\ UNCHANGED <<backend, m_dev, holder, reportVars, plugged, unplugs>>

GetError(t) ==
    /\ Enter(t, "getError")
    /\ Return(t, Nothing)
    /\ UNCHANGED <<backend, m_dev, holder, reportVars, text, plugged, unplugs>>

(***************************************************************************)
(* read, read_back and the raw read: hid_read under the lock, then, but    *)
(* not in the raw read, hid_error.                                         *)
(***************************************************************************)
ReadBegins(t) ==
    /\ \E o \in Reads : Enter(t, o)
    /\ m_dev = "open" /\ Handle!Call /\ mode' = "block"
    /\ holder' = t /\ text' = TextAtRead
    /\ pc' = [pc EXCEPT ![t] = "reading"]
    /\ UNCHANGED <<backend, m_dev, calls, op, call, buf, returned, last, before,
                   plugged, unplugs>>

\* The lock lasts until hid_error was asked.  (Slip: it guards hid_read alone.)
HolderAfterRead_None(t) == NoThread
HolderAfterRead(t) == holder

ReadEnds(t) ==
    /\ pc[t] = "reading"
    /\ \/ Handle!Take /\ text' = text
       \/ Handle!Fail /\ text' = TextOnFailure(t)
    /\ buf' = [buf EXCEPT ![t] = result']
    /\ holder' = HolderAfterRead(t)
    /\ pc' = [pc EXCEPT ![t] = "read"]
    /\ UNCHANGED <<backend, m_dev, calls, op, call, returned, last, before,
                   plugged, unplugs>>

\* if (err).
HasText(t) == op[t] # "raw_read" /\ text # NoText

\* ~lock_guard.  (Slip: the way out of a failed read forgets it.)
Released_NotOnError(t) == IF buf[t] = Error THEN t ELSE NoThread
Released(t) == NoThread

\* Without a text read() writes what hid_read gave to out and returns, under
\* the lock.
ReadReturns(t) ==
    /\ pc[t] = "read" /\ ~HasText(t) /\ op[t] # "read_back"
    /\ Return(t, buf[t]) /\ holder' = Released(t)
    /\ UNCHANGED <<backend, m_dev, reportVars, text, plugged, unplugs>>

\* read_back() has its lock in a block that ends before out is written.
Unlocks(t) ==
    /\ pc[t] = "read" /\ ~HasText(t) /\ op[t] = "read_back"
    /\ pc' = [pc EXCEPT ![t] = "unlocked"] /\ holder' = Released(t)
    /\ UNCHANGED <<backend, m_dev, reportVars, text, calls, op, call, buf,
                   returned, last, before, plugged, unplugs>>

\* What hid_read returned was not kept: a failure leaves the zeros of the buffer.
Value(t) == IF buf[t] = Error THEN Zeros ELSE buf[t]

ReadBackReturns(t) ==
    /\ pc[t] = "unlocked" /\ Return(t, Value(t))
    /\ UNCHANGED <<backend, m_dev, holder, reportVars, text, plugged, unplugs>>

\* get_dev_error locks m_dev_lock, which this thread holds.
Relocks(t) ==
    /\ pc[t] = "read" /\ HasText(t)
    /\ \/ "passes" \in Relock /\ Return(t, Nothing) /\ holder' = Released(t)
       \/ /\ "blocks" \in Relock /\ pc' = [pc EXCEPT ![t] = "stuck"] /\ holder' = t
          /\ UNCHANGED <<calls, op, call, buf, returned, last, before>>
    /\ UNCHANGED <<backend, m_dev, reportVars, text, plugged, unplugs>>

Step(t) ==
    \/ Open(t) \/ Close(t) \/ Write(t) \/ GetError(t)
    \/ ReadBegins(t) \/ ReadEnds(t) \/ ReadReturns(t) \/ Relocks(t)
    \/ Unlocks(t) \/ ReadBackReturns(t)

(***************************************************************************)
(* The device and the bus (external).                                      *)
(***************************************************************************)
Arrive ==
    /\ plugged /\ m_dev = "open" /\ ~gone /\ arrived < MaxReports
    /\ Handle!Arrive
    /\ UNCHANGED <<backend, m_dev, holder, text, callerVars, plugged, unplugs>>

Unplug ==
    /\ plugged /\ unplugs < MaxUnplugs
    /\ plugged' = FALSE /\ unplugs' = unplugs + 1
    /\ IF m_dev = "open" THEN Handle!Lose ELSE UNCHANGED reportVars
    /\ UNCHANGED <<backend, m_dev, holder, text, callerVars>>

Plug ==
    /\ ~plugged /\ plugged' = TRUE
    /\ UNCHANGED <<backend, m_dev, holder, reportVars, text, callerVars, unplugs>>

Next ==
    \/ \E t \in Threads : Step(t) \/ \E o \in Ops : Call(t, o)
    \/ Arrive \/ Unplug \/ Plug

Spec == Init /\ [][Next]_vars

\* A running thread runs on, and a mutex that is free is given to one that
\* waits (the calls are finitely many, so that nobody is overtaken for ever).
FairSpec == Spec /\ \A t \in Threads : WF_vars(Step(t))
-----------------------------------------------------------------------------
(***************************************************************************)
(* Properties                                                              *)
(***************************************************************************)
DeviceType ==
    /\ backend \in Backends /\ m_dev \in {"null", "open"}
    /\ holder \in Threads \cup {NoThread}
    /\ m_dev = "null" => queue = <<>> /\ text = NoText
ReportType ==
    /\ arrived \in 0 .. MaxReports /\ queue \in Seq(1 .. MaxReports)
    /\ result \in {Nothing, Error} \cup 1 .. MaxReports
    /\ text \in 0 .. MaxCalls /\ last \in 0 .. MaxReports
GoneType == gone \in BOOLEAN
CallerType ==
    /\ pc \in [Threads -> {"idle", "called", "reading", "read", "unlocked", "stuck"}]
    /\ before \in [Threads -> 0 .. MaxReports]
    /\ op \in [Threads -> Ops] /\ call \in [Threads -> 0 .. MaxCalls]
ReaderType == reader = "reading" <=> \E t \in Threads : pc[t] = "reading"

\* The types; a handle that is closed has no reports and no text (hid_close
\* frees both), and the reader of the backend is the thread inside hid_read.
TypeOK == DeviceType /\ ReportType /\ GoneType /\ CallerType /\ ReaderType

\* One thread at a time is inside the backend (libusb's condition variable
\* wakes one reader for a list that was empty, libusb/hid.c:751), and the
\* handle it works with is not closed meanwhile, nor NULL when its turn comes:
\* hid_read and hid_write do not look.
OneInBackend ==
    /\ Cardinality({t \in Threads : pc[t] \in {"reading", "read"}}) <= 1
    /\ \A t \in Threads : pc[t] \in {"reading", "read"} => m_dev = "open"
    /\ \A t \in Threads :
         pc[t] = "called" /\ op[t] \in Reads \cup {"write"} => m_dev = "open"

\* A report that hid_read took is what the call returns, unless hid_error gives
\* a text that is older than the call, which only windows/hid.c keeps: then
\* the call returns nothing, or never, and the report is lost.
ReportKept ==
    [][\A t \in Threads :
         pc[t] \in {"read", "unlocked"} /\ pc'[t] # pc[t] /\ buf[t] > 0 =>
            \/ pc[t] = "read" /\ pc'[t] = "unlocked" /\ buf'[t] = buf[t]
            \/ pc'[t] = "idle" /\ returned'[t] = buf[t]
            \/ pc[t] = "read" /\ backend = "windows" /\ text \notin {NoText, call[t]}]_vars

\* The order of the device survives the threads as far as m_dev_lock carries
\* it: a report that a call returns was sent after every report that had been
\* returned when the call began; and read() and the raw read, which fill out
\* under the lock, return one that was sent after every report returned so
\* far.  A read_back() may be overtaken between its unlock and its return.
ReturnedInOrder ==
    [][\A t \in Threads :
         Busy(t) /\ pc'[t] = "idle" /\ returned'[t] > 0 =>
            /\ returned'[t] > before[t]
            /\ op[t] \in {"read", "raw_read"} => returned'[t] > last]_vars

\* A failed read of a backend with texts is told by its own text, whatever
\* failed before and whatever other threads do.
FailureToldByItsText ==
    \A t \in Threads :
        pc[t] = "read" /\ buf[t] = Error /\ backend \in {"linux", "windows"} =>
            text = call[t]

\* When the device is gone, every call that waits comes back (a close or a
\* write behind a read that blocks, too), unless a thread is stuck at its own
\* lock.
GoneEndsCalls ==
    gone ~> \/ ~gone
            \/ \A t \in Threads : ~Busy(t)
            \/ \E t \in Threads : pc[t] = "stuck"
=============================================================================
