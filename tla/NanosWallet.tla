---------------------------- MODULE NanosWallet ----------------------------
(***************************************************************************)
(* The sessions of a nanos_wallet: which operation opens, closes, replaces *)
(* or uses the HID handle, under which of its two mutexes, while threads   *)
(* of the caller share the wallet and the Ledger goes from its dashboard   *)
(* (product id Root) to an application (another product id), away and      *)
(* back.  Each such change re-enumerates the device on the bus, so that    *)
(* every handle open before it is dead.                                    *)
(*                                                                         *)
(* m_devLock is nanos_wallet's mutex, held by a whole operation, but not   *)
(* by close() and the polling of run_app.  m_dev_lock is hidpp_device's,   *)
(* held during one HID call; it is a variable here because a blocking read *)
(* holds it for as long as the user thinks.  An exchange is reduced to its *)
(* outcome; ApduExchange has its bytes.  hid_error() gives no text (mac,   *)
(* libusb): with a text a failed read never returns, see ReadError there.  *)
(* There is one Ledger.                                                    *)
(***************************************************************************)
EXTENDS Naturals

CONSTANTS
    Threads, NoThread,
    Apps,          \* product ids of applications
    MaxHandles,    \* bound: handles open at once
    MaxOps,        \* bound: operations begun
    MaxSwitches,   \* bound: changes of the device's mode
    MaxStrange,    \* bound: answers with a wrong sequence number
    MaxTries,      \* max_wait_tries of run_app, 300 in the code
    Denied,        \* may opening a device fail for want of permission?
    Disciplined    \* do callers use what takes no lock only when alone?

Root == "root"
Absent == "absent"

ASSUME WalletAssumption ==
    /\ NoThread \notin Threads
    /\ Root \notin Apps /\ Absent \notin Apps
    /\ MaxHandles \in Nat /\ MaxTries \in Nat \ {0}
    /\ Denied \in BOOLEAN /\ Disciplined \in BOOLEAN

VARIABLES
    m_valid, m_dev, m_productId,   \* nanos_wallet, and its hidpp_device
    m_devLock, m_dev_lock,         \* who holds them
    pc, call, ret,                 \* of each thread
    open, pid,                     \* hidapi's open handles, and of what
    mode,                          \* what the bus shows of the Ledger
    ops, switches, strange

walletVars == <<m_valid, m_dev, m_productId>>
lockVars   == <<m_devLock, m_dev_lock>>
threadVars == <<pc, call, ret>>
hidVars    == <<open, pid>>
envVars    == <<mode, ops, switches, strange>>
vars       == <<walletVars, lockVars, threadVars, hidVars, envVars>>

NULL    == 0
Handles == 1 .. MaxHandles
Modes   == Apps \cup {Root, Absent}

Operations == {"close", "reopen_with_app", "init_ext", "init_ext_root", "init",
               "init_root", "exchange", "run_app", "get_opened_app_pid"}
TakesProductId == {"reopen_with_app", "init_ext", "init"}
NoCall == [op |-> "none", arg |-> Root, seen |-> FALSE, tries |-> 0]

Init ==
    /\ m_valid = FALSE /\ m_dev = NULL /\ m_productId = Absent
    /\ m_devLock = NoThread /\ m_dev_lock = NoThread
    /\ pc = [t \in Threads |-> "idle"]
    /\ call = [t \in Threads |-> NoCall]
    /\ ret = [t \in Threads |-> "none"]
    /\ open = {} /\ pid = [h \in Handles |-> Root]
    /\ mode \in Modes
    /\ ops = 0 /\ switches = 0 /\ strange = 0

Goto(t, l) == pc' = [pc EXCEPT ![t] = l] /\ UNCHANGED ret
Return(t, r) == pc' = [pc EXCEPT ![t] = "idle"] /\ ret' = [ret EXCEPT ![t] = r]

Lock(t) == m_devLock = NoThread /\ m_devLock' = t
Unlock  == m_devLock' = NoThread

(***************************************************************************)
(* hidpp_device                                                            *)
(***************************************************************************)
\* open(): hid_open of product id p; what m_dev held is overwritten.
OpenDevice(p) ==
    \/ /\ mode = p /\ open # Handles
       /\ LET h == CHOOSE h \in Handles : h \notin open
          IN  /\ m_dev' = h /\ open' = open \cup {h}
              /\ pid' = [pid EXCEPT ![h] = p]
    \/ /\ mode # p \/ Denied
       /\ m_dev' = NULL /\ UNCHANGED hidVars

\* close(): waits for the mutex.  (Slip: close() takes m_devLock as well.)
MayClose_TakesDevLock(t) == m_dev_lock = NoThread /\ m_devLock = NoThread
MayClose(t) == m_dev_lock = NoThread

CloseDevice(t) ==
    /\ MayClose(t)
    /\ m_dev' = NULL
    /\ open' = open \ {m_dev} /\ UNCHANGED pid

KeepDevice == UNCHANGED <<m_dev, hidVars>>

(***************************************************************************)
(* Operations                                                              *)
(***************************************************************************)
\* Takes no lock (close), or replaces the handle unseen (init, init_root).
Alone == {"close", "reopen_with_app", "init", "init_root"}

\* main.cpp calls init() once, on a new wallet; a caller with threads has to
\* see to it that nothing runs beside close() or reopen_with_app().
Allowed(o) ==
    Disciplined =>
        /\ o \in Alone => \A t \in Threads : pc[t] = "idle"
        /\ \A t \in Threads : pc[t] # "idle" => call[t].op \notin Alone
        /\ o \in {"init", "init_root"} => m_dev = NULL

\* The first step of each operation.  (Slip: reopen_with_app forgets close().)
Start_NoClose(o) ==
    CASE o \in {"init_ext", "reopen_with_app"} -> "ext" [] o = "close" -> "close"
      [] o = "run_app" -> "exchange" [] OTHER -> o
Start(o) ==
    CASE o \in {"close", "reopen_with_app"} -> "close" [] o = "init_ext" -> "ext"
      [] o = "run_app" -> "exchange" [] OTHER -> o

Begin(t, o, p) ==
    /\ pc[t] = "idle" /\ ops < MaxOps /\ Allowed(o)
    /\ p = Root <=> o \notin TakesProductId
    /\ call' = [call EXCEPT ![t] = [op |-> o, arg |-> p, seen |-> FALSE, tries |-> 0]]
    /\ pc' = [pc EXCEPT ![t] = Start(o)] /\ ret' = [ret EXCEPT ![t] = "none"]
    /\ ops' = ops + 1
    /\ UNCHANGED <<walletVars, lockVars, hidVars, mode, switches, strange>>

\* close() and the first half of reopen_with_app: no m_devLock.
CloseHandle(t) ==
    /\ pc[t] = "close"
    /\ IF m_dev # NULL THEN CloseDevice(t) ELSE KeepDevice
    /\ Goto(t, "clearValid")
    /\ UNCHANGED <<m_valid, m_productId, lockVars, call, envVars>>

ClearValid(t) ==
    /\ pc[t] = "clearValid"
    /\ m_valid' = FALSE
    /\ IF call[t].op = "close" THEN Return(t, "closed") ELSE Goto(t, "ext")
    /\ UNCHANGED <<m_dev, m_productId, lockVars, call, hidVars, envVars>>

\* init_ext: the look for the application, and what follows from m_valid.
\* (Slip: the old handle is not closed.)
ClosesOld_Never == FALSE
ClosesOld == m_valid

ExtLook(t) ==
    /\ pc[t] = "ext"
    /\ call' = [call EXCEPT ![t].seen = (mode = call[t].arg)]
    /\ \/ /\ m_valid /\ mode = call[t].arg
          /\ m_devLock = NoThread
          /\ Return(t, "APP_OPENED") /\ KeepDevice
          /\ UNCHANGED <<m_valid, m_devLock>>
       \/ /\ ~(m_valid /\ mode = call[t].arg)
          /\ Lock(t)
          /\ IF ClosesOld /\ m_dev # NULL THEN CloseDevice(t) ELSE KeepDevice
          /\ m_valid' = FALSE
          /\ Goto(t, "extRoot")
    /\ UNCHANGED <<m_productId, m_dev_lock, envVars>>

\* The look for the dashboard.
ExtRoot(t) ==
    /\ pc[t] = "extRoot"
    /\ IF mode = Root THEN Return(t, "APP_NOT_OPENED") /\ Unlock
       ELSE IF call[t].seen THEN Goto(t, "extOpen") /\ UNCHANGED m_devLock
       ELSE Return(t, "DISCONNECTED") /\ Unlock
    /\ UNCHANGED <<walletVars, m_dev_lock, call, hidVars, envVars>>

\* m_framer = hidpp_device(...), open(), m_valid = valid().
OpenAs(t, p, ok, failed) ==
    /\ m_productId' = p
    /\ OpenDevice(p)
    /\ m_valid' = IF m_dev' # NULL THEN TRUE ELSE m_valid
    /\ Return(t, IF m_dev' # NULL THEN ok ELSE failed) /\ Unlock
    /\ UNCHANGED <<m_dev_lock, call, envVars>>

ExtOpen(t) == pc[t] = "extOpen" /\ OpenAs(t, call[t].arg, "APP_OPENED", "PERMISSION_ERROR")

\* init_ext_root: the look for the dashboard decides, together with m_valid.
RootKnown(t) ==
    /\ pc[t] = "init_ext_root" /\ m_devLock = NoThread
    /\ m_valid = (mode = Root)
    /\ Return(t, IF m_valid THEN "APP_NOT_OPENED" ELSE "DISCONNECTED")
    /\ UNCHANGED <<walletVars, lockVars, call, hidVars, envVars>>

RootLook(t) ==
    /\ pc[t] = "init_ext_root"
    /\ m_valid # (mode = Root)
    /\ Lock(t) /\ Goto(t, IF m_valid THEN "rootClose" ELSE "rootOpen")
    /\ UNCHANGED <<walletVars, m_dev_lock, call, hidVars, envVars>>

\* Its close() is nanos_wallet::close, called under m_devLock.
RootClose(t) ==
    /\ pc[t] = "rootClose"
    /\ IF m_dev # NULL THEN CloseDevice(t) ELSE KeepDevice
    /\ m_valid' = FALSE
    /\ Return(t, "DISCONNECTED") /\ Unlock
    /\ UNCHANGED <<m_productId, m_dev_lock, call, envVars>>

RootOpen(t) == pc[t] = "rootOpen" /\ OpenAs(t, Root, "APP_NOT_OPENED", "PERMISSION_ERROR")

\* init and init_root: m_valid is not looked at, and stays when they fail.
InitLook(t) ==
    /\ pc[t] = "init" /\ mode # Root
    /\ Lock(t) /\ Goto(t, "initApp")
    /\ UNCHANGED <<walletVars, m_dev_lock, call, hidVars, envVars>>

InitRefused(t) ==
    /\ \/ pc[t] = "init" /\ mode = Root /\ m_devLock = NoThread
       \/ pc[t] = "initApp" /\ mode # call[t].arg
       \/ pc[t] = "init_root" /\ mode # Root /\ m_devLock = NoThread
    /\ Return(t, "false") /\ Unlock
    /\ UNCHANGED <<walletVars, m_dev_lock, call, hidVars, envVars>>

InitApp(t) ==
    /\ pc[t] = "initApp" /\ mode = call[t].arg
    /\ Goto(t, "initOpen")
    /\ UNCHANGED <<walletVars, lockVars, call, hidVars, envVars>>

InitRootLook(t) ==
    /\ pc[t] = "init_root" /\ mode = Root
    /\ Lock(t) /\ Goto(t, "initOpen")
    /\ UNCHANGED <<walletVars, m_dev_lock, call, hidVars, envVars>>

InitOpen(t) ==
    /\ pc[t] = "initOpen"
    /\ OpenAs(t, IF call[t].op = "init" THEN call[t].arg ELSE Root, "true", "false")

(***************************************************************************)
(* exchange, alone or as the first part of run_app                         *)
(***************************************************************************)
ExchangeBegin(t) ==
    /\ pc[t] = "exchange"
    /\ IF m_valid THEN Lock(t) /\ Goto(t, "attempt")
       ELSE m_devLock = NoThread /\ UNCHANGED m_devLock /\ Return(t, "throw")
    /\ UNCHANGED <<walletVars, m_dev_lock, call, hidVars, envVars>>

\* An exchange that comes back under CODE_SUCCESS: run_app begins to poll.
Exchanged(t, r) ==
    IF call[t].op = "run_app" THEN Goto(t, "poll") ELSE Return(t, r)

\* m_framer.io().get().  (Slip: the flag is trusted instead.)
HasHandle_ByFlag == m_valid
HasHandle == m_dev # NULL

\* m_valid = false.  (Slip: the flag is left.)
ValidWithoutHandle_Kept == m_valid
ValidWithoutHandle == FALSE

NoHandle(t) ==
    /\ pc[t] = "attempt" /\ ~HasHandle
    /\ m_valid' = ValidWithoutHandle
    /\ Exchanged(t, "empty") /\ Unlock
    /\ UNCHANGED <<m_dev, m_productId, m_dev_lock, call, hidVars, envVars>>

Attempt(t) ==
    /\ pc[t] = "attempt" /\ HasHandle
    /\ Goto(t, "write")
    /\ UNCHANGED <<walletVars, lockVars, call, hidVars, envVars>>

Write(t) ==
    /\ pc[t] = "write" /\ m_dev_lock = NoThread
    /\ Goto(t, "readWait")
    /\ UNCHANGED <<walletVars, lockVars, call, hidVars, envVars>>

\* hid_read begins, with m_dev_lock held until it returns.
ReadBegins(t) ==
    /\ pc[t] = "readWait" /\ m_dev_lock = NoThread
    /\ m_dev_lock' = t
    /\ Goto(t, "read")
    /\ UNCHANGED <<walletVars, m_devLock, call, hidVars, envVars>>

\* The answer, or on a dead handle nothing: the exchange ends either way, with
\* a status or an exception.
ReadEnds(t) ==
    /\ pc[t] = "read"
    /\ m_dev_lock' = NoThread
    /\ \/ Exchanged(t, "reply") \/ Return(t, "throw")
    /\ Unlock
    /\ UNCHANGED <<walletVars, call, hidVars, envVars>>

WrongSeqno(t) ==
    /\ pc[t] = "read" /\ strange < MaxStrange
    /\ strange' = strange + 1
    /\ m_dev_lock' = NoThread
    /\ Goto(t, "retryClose")
    /\ UNCHANGED <<walletVars, m_devLock, call, hidVars, mode, ops, switches>>

RetryClose(t) ==
    /\ pc[t] = "retryClose"
    /\ CloseDevice(t)
    /\ Goto(t, "retryOpen")
    /\ UNCHANGED <<m_valid, m_productId, lockVars, call, envVars>>

RetryOpen(t) ==
    /\ pc[t] = "retryOpen"
    /\ OpenDevice(m_productId)
    /\ Goto(t, "attempt")
    /\ UNCHANGED <<m_valid, m_productId, lockVars, call, envVars>>

\* run_app asks for the product id every 200 ms, without m_devLock.  (Slip:
\* one try too many.)
TriesOver_OneMore(n) == n > MaxTries
TriesOver(n) == n >= MaxTries

Poll(t) ==
    /\ pc[t] = "poll"
    /\ LET n == call[t].tries + 1
       IN  /\ call' = [call EXCEPT ![t].tries = n]
           /\ IF mode \in Apps THEN Return(t, mode)
              ELSE IF TriesOver(n) THEN Return(t, "none")
              ELSE Goto(t, "poll")
    /\ UNCHANGED <<walletVars, lockVars, hidVars, envVars>>

GetOpenedAppPid(t) ==
    /\ pc[t] = "get_opened_app_pid" /\ m_devLock = NoThread
    /\ Return(t, IF mode \in Apps THEN mode ELSE "none")
    /\ UNCHANGED <<walletVars, lockVars, call, hidVars, envVars>>

\* The user opens or quits an application, unplugs or plugs in (external).
Switch(m) ==
    /\ mode # m /\ switches < MaxSwitches
    /\ mode' = m /\ switches' = switches + 1
    /\ UNCHANGED <<walletVars, lockVars, threadVars, hidVars, ops, strange>>

Step(t) ==
    \/ CloseHandle(t) \/ ClearValid(t)
    \/ ExtLook(t) \/ ExtRoot(t) \/ ExtOpen(t)
    \/ RootKnown(t) \/ RootLook(t) \/ RootClose(t) \/ RootOpen(t)
    \/ InitLook(t) \/ InitRefused(t) \/ InitApp(t) \/ InitRootLook(t) \/ InitOpen(t)
    \/ ExchangeBegin(t) \/ NoHandle(t) \/ Attempt(t) \/ Write(t) \/ ReadBegins(t)
    \/ ReadEnds(t) \/ WrongSeqno(t) \/ RetryClose(t) \/ RetryOpen(t)
    \/ Poll(t) \/ GetOpenedAppPid(t)

Next ==
    \/ \E t \in Threads : Step(t)
    \/ \E t \in Threads, o \in Operations, p \in Apps \cup {Root} : Begin(t, o, p)
    \/ \E m \in Modes : Switch(m)

Spec == Init /\ [][Next]_vars

\* A thread runs on when it can; the user decides, so that a read ends.
FairSpec == Spec /\ \A t \in Threads : WF_vars(Step(t))
-----------------------------------------------------------------------------
(***************************************************************************)
(* Properties                                                              *)
(***************************************************************************)
\* Steps taken with m_devLock held, by its owner.
Locked == {"extRoot", "extOpen", "rootClose", "rootOpen", "initApp", "initOpen",
           "attempt", "write", "readWait", "read", "retryClose", "retryOpen"}
Unlocked == {"idle", "close", "clearValid", "ext", "init_ext_root", "init",
             "init_root", "exchange", "poll", "get_opened_app_pid"}

Results == Apps \cup {"none", "closed", "APP_OPENED", "APP_NOT_OPENED",
                      "DISCONNECTED", "PERMISSION_ERROR", "true", "false",
                      "reply", "empty", "throw"}

WalletType ==
    /\ m_valid \in BOOLEAN /\ m_dev \in Handles \cup {NULL}
    /\ m_productId \in Modes
CallType == [op : Operations \cup {"none"}, arg : Apps \cup {Root},
             seen : BOOLEAN, tries : 0 .. MaxTries]
ThreadType ==
    /\ pc \in [Threads -> Locked \cup Unlocked]
    /\ call \in [Threads -> CallType]
    /\ ret \in [Threads -> Results]
HidType == open \subseteq Handles /\ pid \in [Handles -> Apps \cup {Root}]
EnvType == mode \in Modes /\ ops \in Nat /\ switches \in Nat /\ strange \in Nat
LockType ==
    /\ m_devLock \in Threads \cup {NoThread} /\ m_dev_lock \in Threads \cup {NoThread}
    /\ \A t \in Threads : pc[t] \in Locked <=> m_devLock = t
    /\ \A t \in Threads : pc[t] = "read" <=> m_dev_lock = t

\* The types; and each mutex is held exactly by the thread at a step under it,
\* and run_app asks no more often than it may.
TypeOK == WalletType /\ ThreadType /\ HidType /\ EnvType /\ LockType

\* No handle leaks and none is used after hid_close: what hidapi holds open is
\* what m_dev points to.  hidpp_device's assignment and open() overwrite m_dev
\* without closing it (hidpp_device.cpp:52-58, 68-81), so this rests on what
\* every path into them did before.
HandleOwned == open = {m_dev} \ {NULL}

\* Whenever no operation runs that could change them, m_valid says whether
\* there is a handle.  init_ext and init_ext_root close a handle only if
\* m_valid says so.
ValidMeansHandle ==
    m_devLock = NoThread /\ (\A t \in Threads : pc[t] # "clearValid") =>
        (m_valid <=> m_dev # NULL)

\* hid_write and hid_read get a handle hid_open returned and nobody closed,
\* though threads share the wallet and a retry may fail to reopen it.
IoOnOpenHandle ==
    \A t \in Threads : pc[t] \in {"write", "readWait", "read"} => m_dev \in open

Returns(t, o, r) ==
    /\ pc[t] # "idle" /\ pc'[t] = "idle"
    /\ call[t].op = o /\ ret'[t] = r

\* reopen_with_app that reports APP_OPENED has a handle on that application,
\* also after run_app, which leaves a handle on the dashboard.
AppReopened ==
    [][\A t \in Threads : Returns(t, "reopen_with_app", "APP_OPENED") =>
         m_dev' # NULL /\ pid'[m_dev'] = call[t].arg]_vars

\* No operation blocks for ever, on a mutex or elsewhere.
EveryOpReturns == \A t \in Threads : pc[t] # "idle" ~> pc[t] = "idle"
=============================================================================
