------------------------------- MODULE HidMac -------------------------------
(***************************************************************************)
(* One handle of the mac backend from hid_open_path to hid_close: the      *)
(* thread of the caller, and the read thread, whose run loop dispatches    *)
(* input reports and the removal of the device to callbacks, and is        *)
(* stopped by hid_close through a source of its own.  Two barriers, made   *)
(* of a mutex, a condition variable and a count, keep the run loop from    *)
(* being used before it is there and after it is gone.                     *)
(*                                                                         *)
(* IOKit, CoreFoundation and pthreads are external.                        *)
(***************************************************************************)
EXTENDS Integers, Sequences

CONSTANTS
    MaxReports,   \* bound: reports the device sends
    QueueLimit,   \* 30 in hid_report_callback
    BarrierWakes  \* may pthread_cond_wait wake a thread at a barrier unasked?

ASSUME MacAssumption ==
    /\ MaxReports \in Nat /\ QueueLimit \in Nat /\ BarrierWakes \in BOOLEAN

VARIABLES
    host, mode, result,   \* the caller: where, argument, bytes_read
    rt,                   \* the read thread: where
    mutex, asleep,        \* dev->mutex; threads asleep on a condition variable
    count,                \* of dev->barrier and dev->shutdown_barrier
    run_loop,             \* does dev->run_loop point to a run loop?
    signaled, stopped,    \* dev->source; has somebody called CFRunLoopStop?
    shutdown_thread, disconnected,
    callbacks,            \* are the report and removal callbacks registered?
    input_reports, received,
    plugged

callVars  == <<mode, result>>
syncVars  == <<mutex, asleep, count>>
loopVars  == <<run_loop, signaled, stopped>>
flagVars  == <<shutdown_thread, disconnected>>
queueVars == <<input_reports, received>>
devVars   == <<callbacks, plugged>>
vars == <<host, callVars, rt, syncVars, loopVars, flagVars, queueVars, devVars>>

Nothing == 0
Error   == -1

Barriers == {"barrier", "shutdown_barrier"}

Init ==
    /\ host = "started" /\ mode = "block" /\ result = Nothing
    /\ rt = "setup"
    /\ mutex = "free" /\ asleep = {} /\ count = [b \in Barriers |-> 0]
    /\ run_loop = FALSE /\ signaled = FALSE /\ stopped = FALSE
    /\ shutdown_thread = FALSE /\ disconnected = FALSE
    /\ callbacks = TRUE /\ input_reports = <<>> /\ received = 0
    /\ plugged = TRUE

(***************************************************************************)
(* pthread_barrier_wait.  A thread is at a barrier with pc `at', asleep at *)
(* it with pc `wait', and past it with pc `past'.                          *)
(***************************************************************************)
\* The last of trip_count threads wakes the others.  (Slip: one is enough.)
Trips_AtOnce(n) == n >= 1
Trips(n) == n >= 2

Arrive(t, b) ==
    IF Trips(count[b] + 1)
    THEN /\ count' = [count EXCEPT ![b] = 0]
         /\ asleep' = {s \in asleep : s = "host" /\ host = "asleep"}
    ELSE /\ count' = [count EXCEPT ![b] = @ + 1]
         /\ asleep' = asleep \cup {t}

Passes(t, pc, at, wait, past, b) ==
    \/ pc = at /\ Arrive(t, b) /\ pc' = IF t \in asleep' THEN wait ELSE past
    \/ pc = wait /\ t \notin asleep /\ pc' = past /\ UNCHANGED <<asleep, count>>

HostBarrier ==
    /\ \/ Passes("host", host, "started", "startedWait", "idle", "barrier")
       \/ Passes("host", host, "down", "downWait", "join", "shutdown_barrier")
    /\ UNCHANGED <<callVars, rt, mutex, loopVars, flagVars, queueVars, devVars>>

ReadBarrier ==
    /\ \/ Passes("read", rt, "started", "startedWait", "loop", "barrier")
       \/ Passes("read", rt, "down", "downWait", "ended", "shutdown_barrier")
    /\ UNCHANGED <<host, callVars, mutex, loopVars, flagVars, queueVars, devVars>>

(***************************************************************************)
(* read_thread and its callbacks                                           *)
(***************************************************************************)
Setup ==
    /\ rt = "setup" /\ rt' = "started" /\ run_loop' = TRUE
    /\ UNCHANGED <<host, callVars, syncVars, signaled, stopped, flagVars, queueVars, devVars>>

LoopTest ==
    /\ rt = "loop"
    /\ rt' = IF shutdown_thread \/ disconnected THEN "wake" ELSE "run"
    /\ UNCHANGED <<host, callVars, syncVars, loopVars, flagVars, queueVars, devVars>>

\* hid_report_callback.  num_queued counts the reports behind the first, before
\* the new one.  (Slip: one report more is let in.)
DropsOldest_Later(num_queued) == num_queued > QueueLimit + 1
DropsOldest(num_queued) == num_queued > QueueLimit

ReportDispatched ==
    /\ rt = "run" /\ callbacks /\ plugged /\ received < MaxReports
    /\ rt' = "report"
    /\ UNCHANGED <<host, callVars, syncVars, loopVars, flagVars, queueVars, devVars>>

QueueReport ==
    /\ rt = "report" /\ mutex = "free"
    /\ received' = received + 1
    /\ LET q == Append(input_reports, received')
       IN  input_reports' = IF DropsOldest(Len(input_reports) - 1) THEN Tail(q) ELSE q
    /\ asleep' = IF host = "asleep" THEN asleep \ {"host"} ELSE asleep
    /\ rt' = "run"
    /\ UNCHANGED <<host, callVars, mutex, count, loopVars, flagVars, devVars>>

\* hid_device_removal_callback.
Removal ==
    /\ rt = "run" /\ callbacks /\ ~plugged /\ ~disconnected
    /\ disconnected' = TRUE /\ stopped' = TRUE
    /\ UNCHANGED <<host, callVars, rt, syncVars, run_loop, signaled, shutdown_thread,
                   queueVars, devVars>>

\* perform_signal_callback.
PerformSignal ==
    /\ rt = "run" /\ signaled
    /\ signaled' = FALSE /\ stopped' = TRUE
    /\ UNCHANGED <<host, callVars, rt, syncVars, run_loop, flagVars, queueVars, devVars>>

\* After 1000 seconds with nothing to do the run loop is run again.  (Slip: a
\* return that finds nothing handled is an error too.)
TimedOut_Fails == rt' = "wake" /\ shutdown_thread' = TRUE
TimedOut == rt' = "loop" /\ UNCHANGED shutdown_thread

\* CFRunLoopRunInMode comes back: stopped, finished, or after 1000 seconds.
RunReturns ==
    /\ rt = "run"
    /\ \/ /\ stopped /\ stopped' = FALSE
          /\ shutdown_thread' = TRUE /\ rt' = "wake" /\ UNCHANGED disconnected
       \/ /\ ~plugged
          /\ disconnected' = TRUE /\ rt' = "wake" /\ UNCHANGED <<stopped, shutdown_thread>>
       \/ TimedOut /\ ~stopped /\ UNCHANGED <<stopped, disconnected>>
    /\ UNCHANGED <<host, callVars, syncVars, run_loop, signaled, queueVars, devVars>>

\* pthread_cond_broadcast.  (Slip: nobody is woken.)
AfterBroadcast_Asleep == asleep
AfterBroadcast == asleep \ {"host"}

WakeReaders ==
    /\ rt = "wake" /\ mutex = "free"
    /\ asleep' = IF host = "asleep" THEN AfterBroadcast ELSE asleep
    /\ rt' = "down"
    /\ UNCHANGED <<host, callVars, mutex, count, loopVars, flagVars, queueVars, devVars>>

(***************************************************************************)
(* hid_read_timeout, with cond_wait and cond_timedwait                     *)
(***************************************************************************)
ReadCall(m) ==
    /\ host = "idle" /\ host' = "lock"
    /\ mode' = m /\ result' = Nothing
    /\ UNCHANGED <<rt, syncVars, loopVars, flagVars, queueVars, devVars>>

\* Also when a wait comes back.
ReadLock ==
    /\ mutex = "free"
    /\ \/ host = "lock" /\ host' = "check"
       \/ host = "asleep" /\ "host" \notin asleep /\ host' = "woken"
    /\ mutex' = "host"
    /\ UNCHANGED <<callVars, rt, asleep, count, loopVars, flagVars, queueVars, devVars>>

ReadReturns(r) == host' = "idle" /\ result' = r /\ mutex' = "free"
Down == disconnected \/ shutdown_thread

ReadCheck ==
    /\ host = "check"
    /\ \/ /\ input_reports # <<>>
          /\ ReadReturns(Head(input_reports)) /\ input_reports' = Tail(input_reports)
       \/ /\ input_reports = <<>> /\ Down
          /\ ReadReturns(Error) /\ UNCHANGED input_reports
       \/ /\ input_reports = <<>> /\ ~Down /\ mode = "poll"
          /\ ReadReturns(Nothing) /\ UNCHANGED input_reports
       \/ /\ input_reports = <<>> /\ ~Down /\ mode # "poll"
          /\ host' = "sleep" /\ UNCHANGED <<result, mutex, input_reports>>
    /\ UNCHANGED <<mode, rt, asleep, count, loopVars, flagVars, received, devVars>>

\* After a wait the flags are looked at before the queue.
ReadWoken ==
    /\ host = "woken"
    /\ \/ /\ Down
          /\ ReadReturns(Error) /\ UNCHANGED input_reports
       \/ /\ ~Down /\ input_reports # <<>>
          /\ ReadReturns(Head(input_reports)) /\ input_reports' = Tail(input_reports)
       \/ /\ ~Down /\ input_reports = <<>>
          /\ host' = "sleep" /\ UNCHANGED <<result, mutex, input_reports>>
    /\ UNCHANGED <<mode, rt, asleep, count, loopVars, flagVars, received, devVars>>

ReadSleep ==
    /\ host = "sleep" /\ host' = "asleep"
    /\ asleep' = asleep \cup {"host"} /\ mutex' = "free"
    /\ UNCHANGED <<callVars, rt, count, loopVars, flagVars, queueVars, devVars>>

ReadTimesOut ==
    /\ host = "asleep" /\ mode = "timed" /\ mutex = "free"
    /\ asleep' = asleep \ {"host"}
    /\ host' = "idle" /\ result' = Nothing
    /\ UNCHANGED <<mode, rt, mutex, count, loopVars, flagVars, queueVars, devVars>>

(***************************************************************************)
(* hid_close                                                               *)
(***************************************************************************)
\* The callbacks go, unless the device has gone.
CloseDetaches ==
    /\ host = "idle" /\ host' = "stop"
    /\ callbacks' = (callbacks /\ disconnected)
    /\ UNCHANGED <<callVars, rt, syncVars, loopVars, flagVars, queueVars, plugged>>

CloseStops ==
    /\ host = "stop" /\ host' = "signal"
    /\ shutdown_thread' = TRUE
    /\ UNCHANGED <<callVars, rt, syncVars, loopVars, disconnected, queueVars, devVars>>

\* CFRunLoopSourceSignal, CFRunLoopWakeUp; then to shutdown_barrier.  (Slip:
\* to pthread_join at once.)
AfterWakeUp_Join == "join"
AfterWakeUp == "down"

CloseWakes ==
    /\ host = "signal" /\ host' = AfterWakeUp
    /\ signaled' = TRUE
    /\ UNCHANGED <<callVars, rt, syncVars, run_loop, stopped, flagVars, queueVars, devVars>>

\* pthread_join, and free_hid_device.
CloseFrees ==
    /\ host = "join" /\ rt = "ended"
    /\ host' = "closed" /\ input_reports' = <<>>
    /\ UNCHANGED <<callVars, rt, syncVars, loopVars, flagVars, received, callbacks, plugged>>

(***************************************************************************)
(* The device and pthreads (external)                                      *)
(***************************************************************************)
Unplug ==
    /\ plugged /\ plugged' = FALSE
    /\ UNCHANGED <<host, callVars, rt, syncVars, loopVars, flagVars, queueVars, callbacks>>

SpuriousWakeup(t) ==
    /\ t \in asleep /\ asleep' = asleep \ {t}
    /\ BarrierWakes \/ (t = "host" /\ host = "asleep")
    /\ UNCHANGED <<host, callVars, rt, mutex, count, loopVars, flagVars, queueVars, devVars>>

ReadThread ==
    \/ Setup \/ ReadBarrier \/ LoopTest \/ ReportDispatched \/ QueueReport
    \/ Removal \/ RunReturns \/ WakeReaders
HostThread ==
    \/ HostBarrier \/ ReadLock \/ ReadCheck \/ ReadWoken \/ ReadSleep
    \/ CloseStops \/ CloseWakes \/ CloseFrees

Next ==
    \/ ReadThread \/ PerformSignal \/ HostThread
    \/ \E m \in {"block", "timed", "poll"} : ReadCall(m)
    \/ ReadTimesOut \/ CloseDetaches
    \/ Unplug \/ \E t \in {"host", "read"} : SpuriousWakeup(t)

Spec == Init /\ [][Next]_vars

\* The threads run on.  Each holds the mutex for a few lines only, and gets it
\* in the end; the run loop serves a signaled source and a removed device
\* before it comes back for ever; a timed wait has an absolute deadline.
FairSpec ==
    /\ Spec /\ WF_vars(ReadThread) /\ WF_vars(HostThread)
    /\ SF_vars(QueueReport) /\ SF_vars(WakeReaders) /\ SF_vars(ReadTimesOut)
    /\ SF_vars(PerformSignal) /\ SF_vars(Removal)
-----------------------------------------------------------------------------
(***************************************************************************)
(* Properties                                                              *)
(***************************************************************************)
PlaceType ==
    /\ host \in {"started", "startedWait", "idle", "lock", "check", "sleep", "asleep",
                 "woken", "stop", "signal", "down", "downWait", "join", "closed"}
    /\ mode \in {"block", "timed", "poll"} /\ result \in Nat \cup {Error}
    /\ rt \in {"setup", "started", "startedWait", "loop", "run", "report", "wake",
               "down", "downWait", "ended"}
FlagType ==
    /\ run_loop \in BOOLEAN /\ signaled \in BOOLEAN /\ stopped \in BOOLEAN
    /\ shutdown_thread \in BOOLEAN /\ disconnected \in BOOLEAN
    /\ callbacks \in BOOLEAN /\ plugged \in BOOLEAN
SyncType ==
    /\ mutex = IF host \in {"check", "woken", "sleep"} THEN "host" ELSE "free"
    /\ asleep \subseteq {"host", "read"} /\ count \in [Barriers -> 0 .. 1]
ListType ==
    /\ input_reports \in Seq(Nat) /\ Len(input_reports) <= QueueLimit + 2
    /\ received \in Nat

\* The types; the mutex is held where the code holds it; and the list stays
\* two reports above its limit at most.
TypeOK == PlaceType /\ FlagType /\ SyncType /\ ListType

\* "This thread still needs to be valid when that function is called on the
\* other thread" (hid.c:669-670): hid_close wakes the run loop of a thread that
\* has one and has not ended, also when the device went first.
RunLoopValid == [][CloseWakes => run_loop /\ rt # "ended"]_vars

\* hid_read fails of a device that has gone, and of no other: whatever the run
\* loop comes back for, and in whatever order its thread sets the flags, a read
\* that looks at them under the mutex finds one set only after the removal.
ErrorMeansGone == result = Error => ~plugged

\* hid_close comes back, whether the read thread is in its run loop, in a
\* callback, on its way out after a removal, or at the shutdown barrier.
CloseReturns == host = "stop" ~> host = "closed"

\* The backend keeps the promise of HidReports, but a reader that slept fails
\* as soon as the device is gone, although a report may be waiting.
Reports == INSTANCE HidReports WITH
    Cap <- QueueLimit + 2, FailsEarly <- TRUE,
    queue <- input_reports, arrived <- received, gone <- Down,
    reader <- IF host \in {"lock", "check", "sleep", "asleep", "woken"}
              THEN "reading" ELSE "idle"

ReportsSafety == Reports!Init /\ [][Reports!Next]_Reports!vars
ReportsSpec == Reports!Spec
=============================================================================
