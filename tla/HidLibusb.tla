------------------------------ MODULE HidLibusb ------------------------------
(***************************************************************************)
(* One handle of the libusb backend from hid_open_path to hid_close: the   *)
(* thread of the caller, which reads and closes, and the read thread,      *)
(* which submits one interrupt transfer over and over and queues what its  *)
(* callback is given.  hidpp_device's mutex lets one caller in at a time.  *)
(*                                                                         *)
(* The two share the queue under a mutex with a condition variable, and    *)
(* the flags shutdown_thread and cancelled under none.  libusb, the bus    *)
(* and pthreads are external: a submitted transfer completes with data,    *)
(* times out, fails, is cancelled, or finds the device gone, and then its  *)
(* callback runs inside the next libusb_handle_events.                     *)
(***************************************************************************)
EXTENDS Integers, Sequences

CONSTANTS
    MaxReports,       \* bound: reports the device sends
    QueueLimit,       \* 30 in read_callback
    FirstSubmitFails, \* may the first libusb_submit_transfer fail?
    LateCancel,       \* is a transfer that is done but not yet called back past cancelling?
    EventErrors       \* may libusb_handle_events fail for good?

ASSUME LibusbAssumption ==
    /\ MaxReports \in Nat /\ QueueLimit \in Nat
    /\ {FirstSubmitFails, LateCancel, EventErrors} \subseteq BOOLEAN

VARIABLES
    host, mode, result,    \* the caller: where, argument, bytes_read
    rt, stopping,          \* the read thread: where; past its event loop?
    mutex, waiting,        \* dev->mutex; is the caller asleep on dev->condition?
    shutdown_thread, cancelled,
    transfer,
    input_reports, received,
    plugged, freed

hostVars  == <<host, mode, result>>
flagVars  == <<shutdown_thread, cancelled>>
queueVars == <<input_reports, received>>
rtVars    == <<rt, stopping>>
lockVars  == <<mutex, waiting>>
vars == <<hostVars, rtVars, lockVars, flagVars, transfer, queueVars, plugged, freed>>

\* bytes_read: a report, known by its number, nothing, or an error.
Nothing == 0
Error   == -1

\* What a transfer can have come to, for the callback to see.
Outcomes == {"completed", "timed_out", "error", "cancelled", "no_device"}

Init ==
    /\ host = "barrier" /\ mode = "block" /\ result = Nothing
    /\ rt = "submit" /\ stopping = FALSE
    /\ mutex = "free" /\ waiting = FALSE
    /\ shutdown_thread = FALSE /\ cancelled = FALSE
    /\ transfer = "none" /\ input_reports = <<>> /\ received = 0
    /\ plugged = TRUE /\ freed = FALSE

(***************************************************************************)
(* read_thread                                                             *)
(***************************************************************************)
\* What libusb_submit_transfer returns is not looked at.
FirstSubmit ==
    /\ rt = "submit" /\ rt' = "barrier"
    /\ \/ transfer' = "submitted"
       \/ FirstSubmitFails /\ UNCHANGED transfer
    /\ UNCHANGED <<hostVars, stopping, lockVars, flagVars, queueVars, plugged, freed>>

\* pthread_barrier_wait, on both sides.
Barrier ==
    /\ rt = "barrier" /\ host = "barrier"
    /\ rt' = "loop" /\ host' = "idle"
    /\ UNCHANGED <<mode, result, stopping, lockVars, flagVars, transfer, queueVars,
                   plugged, freed>>

LoopTest ==
    /\ rt = "loop"
    /\ rt' = IF shutdown_thread THEN "cancel" ELSE "events"
    /\ UNCHANGED <<hostVars, stopping, lockVars, flagVars, transfer, queueVars,
                   plugged, freed>>

\* libusb_handle_events runs a callback that is due, or comes back without.
HandleEvents ==
    /\ rt \in {"events", "drain"}
    /\ \/ transfer \in Outcomes /\ rt' = "callback"
       \/ rt = "events" /\ transfer \notin Outcomes /\ rt' = "loop"
       \/ rt = "events" /\ EventErrors /\ rt' = "cancel"
    /\ UNCHANGED <<hostVars, stopping, lockVars, flagVars, transfer, queueVars,
                   plugged, freed>>

\* libusb_cancel_transfer: fails when no transfer is in flight, its callback
\* being run included.
InFlight ==
    \/ transfer = "submitted"
    \/ transfer \in Outcomes /\ ~LateCancel /\ rt \notin {"callback", "resubmit"}

CancelTransfer == transfer' = IF InFlight THEN "cancelled" ELSE transfer

CancelOwn ==
    /\ rt = "cancel" /\ rt' = "drain" /\ stopping' = TRUE
    /\ CancelTransfer
    /\ UNCHANGED <<hostVars, lockVars, flagVars, queueVars, plugged, freed>>

\* pthread_cond_broadcast.  (Slip: nobody is woken.)
AfterBroadcast_Asleep == waiting
AfterBroadcast == FALSE

\* Past `while (!dev->cancelled)': wake the caller, under the mutex, and end.
WakeReaders ==
    /\ rt = "drain" /\ cancelled /\ mutex = "free"
    /\ waiting' = AfterBroadcast
    /\ rt' = "ended"
    /\ UNCHANGED <<hostVars, stopping, mutex, flagVars, transfer, queueVars, plugged, freed>>

(***************************************************************************)
(* read_callback                                                           *)
(***************************************************************************)
\* num_queued counts the reports behind the first, before the new one.  (Slip:
\* one report more is let in.)
DropsOldest_Later(num_queued) == num_queued > QueueLimit + 1
DropsOldest(num_queued) == num_queued > QueueLimit

\* The signal is given only when the list was empty.
QueueReport ==
    /\ rt = "callback" /\ transfer = "completed" /\ mutex = "free"
    /\ received' = received + 1
    /\ LET q == Append(input_reports, received')
       IN  input_reports' = IF DropsOldest(Len(input_reports) - 1) THEN Tail(q) ELSE q
    /\ waiting' = (waiting /\ input_reports # <<>>)
    /\ rt' = "resubmit"
    /\ UNCHANGED <<hostVars, stopping, mutex, flagVars, transfer, plugged, freed>>

NothingQueued ==
    /\ rt = "callback" /\ transfer \in {"timed_out", "error"}
    /\ rt' = "resubmit"
    /\ UNCHANGED <<hostVars, stopping, lockVars, flagVars, transfer, queueVars,
                   plugged, freed>>

CallbackReturns == rt' = IF stopping THEN "drain" ELSE "loop"

\* dev->cancelled = 1.  (Slip: only the other flag is set.)
CancelSeen_Missing == cancelled
CancelSeen == TRUE

TransferEnds ==
    /\ rt = "callback" /\ transfer \in {"cancelled", "no_device"}
    /\ shutdown_thread' = TRUE /\ cancelled' = CancelSeen
    /\ transfer' = "none"
    /\ CallbackReturns
    /\ UNCHANGED <<hostVars, stopping, lockVars, queueVars, plugged, freed>>

Resubmit ==
    /\ rt = "resubmit"
    /\ IF plugged
       THEN transfer' = "submitted" /\ UNCHANGED flagVars
       ELSE transfer' = "none" /\ shutdown_thread' = TRUE /\ cancelled' = TRUE
    /\ CallbackReturns
    /\ UNCHANGED <<hostVars, stopping, lockVars, queueVars, plugged, freed>>

(***************************************************************************)
(* hid_read_timeout and hid_close                                          *)
(***************************************************************************)
ReadCall(m) ==
    /\ host = "idle" /\ host' = "lock"
    /\ mode' = m /\ result' = Nothing
    /\ UNCHANGED <<rtVars, lockVars, flagVars, transfer, queueVars, plugged, freed>>

\* At the start, and when pthread_cond_wait comes back.
ReadLock ==
    /\ host = "lock" \/ (host = "asleep" /\ ~waiting)
    /\ mutex = "free"
    /\ mutex' = "host" /\ host' = "check"
    /\ UNCHANGED <<mode, result, rtVars, waiting, flagVars, transfer, queueVars,
                   plugged, freed>>

ReadReturns(r) == host' = "idle" /\ result' = r /\ mutex' = "free"

ReadCheck ==
    /\ host = "check"
    /\ \/ /\ input_reports # <<>>
          /\ ReadReturns(Head(input_reports)) /\ input_reports' = Tail(input_reports)
       \/ /\ input_reports = <<>> /\ shutdown_thread
          /\ ReadReturns(Error) /\ UNCHANGED input_reports
       \/ /\ input_reports = <<>> /\ ~shutdown_thread /\ mode = "poll"
          /\ ReadReturns(Nothing) /\ UNCHANGED input_reports
       \/ /\ input_reports = <<>> /\ ~shutdown_thread /\ mode # "poll"
          /\ host' = "sleep" /\ UNCHANGED <<result, mutex, input_reports>>
    /\ UNCHANGED <<mode, rtVars, waiting, flagVars, transfer, received, plugged, freed>>

\* pthread_cond_wait, pthread_cond_timedwait: lets the mutex go.
ReadSleep ==
    /\ host = "sleep" /\ host' = "asleep"
    /\ waiting' = TRUE /\ mutex' = "free"
    /\ UNCHANGED <<mode, result, rtVars, flagVars, transfer, queueVars, plugged, freed>>

\* ETIMEDOUT is looked at before the queue.
ReadTimesOut ==
    /\ host = "asleep" /\ mode = "timed" /\ mutex = "free"
    /\ waiting' = FALSE
    /\ host' = "idle" /\ result' = Nothing
    /\ UNCHANGED <<mode, rtVars, mutex, flagVars, transfer, queueVars, plugged, freed>>

CloseBegins ==
    /\ host = "idle" /\ host' = "cancel"
    /\ shutdown_thread' = TRUE
    /\ UNCHANGED <<mode, result, rtVars, lockVars, cancelled, transfer, queueVars,
                   plugged, freed>>

CloseCancels ==
    /\ host = "cancel" /\ host' = "join"
    /\ CancelTransfer
    /\ UNCHANGED <<mode, result, rtVars, lockVars, flagVars, queueVars, plugged, freed>>

\* pthread_join.  (Slip: it is not waited for.)
Joined_AtOnce == TRUE
Joined == rt = "ended"

CloseFrees ==
    /\ host = "join" /\ Joined
    /\ host' = "closed" /\ freed' = TRUE /\ input_reports' = <<>>
    /\ UNCHANGED <<mode, result, rtVars, lockVars, flagVars, transfer, received, plugged>>

(***************************************************************************)
(* libusb, the bus and the device (external)                               *)
(***************************************************************************)
TransferOutcome(o) ==
    /\ transfer = "submitted" /\ transfer' = o
    /\ CASE o = "completed" -> plugged /\ received < MaxReports
         [] o = "timed_out" -> plugged
         [] o = "error"     -> plugged
         [] o = "no_device" -> ~plugged
    /\ UNCHANGED <<hostVars, rtVars, lockVars, flagVars, queueVars, plugged, freed>>

Unplug ==
    /\ plugged /\ plugged' = FALSE
    /\ UNCHANGED <<hostVars, rtVars, lockVars, flagVars, transfer, queueVars, freed>>

SpuriousWakeup ==
    /\ waiting /\ waiting' = FALSE
    /\ UNCHANGED <<hostVars, rtVars, mutex, flagVars, transfer, queueVars, plugged, freed>>

ReadThread ==
    \/ FirstSubmit \/ Barrier \/ LoopTest \/ HandleEvents \/ CancelOwn \/ WakeReaders
    \/ QueueReport \/ NothingQueued \/ TransferEnds \/ Resubmit

HostThread ==
    \/ ReadLock \/ ReadCheck \/ ReadSleep
    \/ CloseCancels \/ CloseFrees

Next ==
    \/ ReadThread \/ HostThread
    \/ \E m \in {"block", "timed", "poll"} : ReadCall(m)
    \/ ReadTimesOut \/ CloseBegins
    \/ \E o \in Outcomes \ {"cancelled"} : TransferOutcome(o)
    \/ Unplug \/ SpuriousWakeup

Spec == Init /\ [][Next]_vars

\* The threads run on.  Each holds the mutex for a few lines only, and gets it
\* in the end; a timed wait has an absolute deadline and ends, spurious wakeups
\* or not; a transfer to a device that is gone comes back.
FairSpec ==
    /\ Spec /\ WF_vars(ReadThread) /\ WF_vars(HostThread)
    /\ SF_vars(QueueReport) /\ SF_vars(WakeReaders) /\ SF_vars(ReadTimesOut)
    /\ WF_vars(TransferOutcome("no_device"))
-----------------------------------------------------------------------------
(***************************************************************************)
(* Properties                                                              *)
(***************************************************************************)
PlaceType ==
    /\ host \in {"barrier", "idle", "lock", "check", "sleep", "asleep", "cancel",
                 "join", "closed"}
    /\ mode \in {"block", "timed", "poll"} /\ result \in Nat \cup {Error}
    /\ rt \in {"submit", "barrier", "loop", "events", "callback", "resubmit",
               "cancel", "drain", "ended"}
    /\ transfer \in Outcomes \cup {"none", "submitted"}
FlagType ==
    /\ stopping \in BOOLEAN /\ waiting \in BOOLEAN
    /\ shutdown_thread \in BOOLEAN /\ cancelled \in BOOLEAN
    /\ plugged \in BOOLEAN /\ freed \in BOOLEAN
LockType ==
    /\ mutex = IF host \in {"check", "sleep"} THEN "host" ELSE "free"
    /\ waiting => host = "asleep"
ListType ==
    /\ input_reports \in Seq(Nat) /\ Len(input_reports) <= QueueLimit + 2
    /\ received \in Nat

\* The types; the mutex is held where the code holds it; and the list stays
\* two reports above its limit at most.
TypeOK == PlaceType /\ FlagType /\ LockType /\ ListType

\* hid_close frees the transfer, its buffer and the handle only when the read
\* thread has ended and no transfer can call back any more, whichever of the
\* two cancelled it and whether or not the device was gone before.
SafeFree == freed => rt = "ended" /\ transfer = "none"

\* The first libusb_submit_transfer failed: there is nothing to call back, and
\* nobody else sets cancelled.
NeverSubmitted == rt # "submit" /\ transfer = "none" /\ ~cancelled

\* hid_close comes back at the latest when the device is gone, although the
\* cancelled transfer may have been done already and submitted again; not if
\* the first submission failed, for read_thread then waits for a callback
\* ("This call will fail if no transfers are pending, but that's OK",
\* hid.c:842).
CloseEnds ==
    (host \in {"cancel", "join"} /\ ~plugged /\ ~NeverSubmitted) ~> host = "closed"

\* The backend keeps the promise of HidReports: order, no loss below the
\* limit, no error while reports wait, and no wakeup lost between the signal of
\* the callback, the broadcast of an ending read thread and the caller that is
\* about to sleep.
Reports == INSTANCE HidReports WITH
    Cap <- QueueLimit + 2, FailsEarly <- FALSE,
    queue <- input_reports, arrived <- received, gone <- shutdown_thread,
    reader <- IF host \in {"lock", "check", "sleep", "asleep"} THEN "reading" ELSE "idle"

ReportsSafety == Reports!Init /\ [][Reports!Next]_Reports!vars
ReportsSpec == Reports!Spec
=============================================================================
