---------------------------- MODULE HidMacProofs ----------------------------
(***************************************************************************)
(* For every number of reports and every limit of the list: a read of the  *)
(* mac backend fails only when the device has gone, hid_close wakes the    *)
(* run loop of a thread that is there, and callers see of the list of      *)
(* reports what HidReports promises.                                       *)
(***************************************************************************)
EXTENDS HidMac, SequenceTheorems, TLAPS

-----------------------------------------------------------------------------
(***************************************************************************)
(* The inductive invariants                                                *)
(***************************************************************************)
\* Where hid_close is under way.
Closing == {"stop", "signal", "down", "downWait", "join", "closed"}

\* hid_close has told the read thread before it wakes it.
CloseInv ==
    host \in {"signal", "down", "downWait", "join", "closed"} => shutdown_thread

\* Before hid_close, only the removal of the device stops the run loop.
GoneInv ==
    /\ result = Error => ~plugged
    /\ disconnected => ~plugged
    /\ host \notin Closing => ~signaled /\ (stopped \/ shutdown_thread => ~plugged)

MacInv == TypeOK /\ CloseInv /\ GoneInv

\* Who is asleep at a barrier, and who is through.
HostWaits(w) == host = w /\ "host" \in asleep
ReadWaits(w) == rt = w /\ "read" \in asleep

HostStarted == host # "started" /\ ~HostWaits("startedWait")
ReadStarted == rt \notin {"setup", "started"} /\ ~ReadWaits("startedWait")
HostDown == host \in {"downWait", "join", "closed"} /\ ~HostWaits("downWait")
ReadDown == rt \in {"downWait", "ended"} /\ ~ReadWaits("downWait")

\* The two threads get through a barrier in one step, and its count says
\* whether one of them waits there.
BarrierInv ==
    /\ HostStarted <=> ReadStarted
    /\ HostDown <=> ReadDown
    /\ "host" \in asleep => host \in {"startedWait", "downWait", "asleep"}
    /\ "read" \in asleep => rt \in {"startedWait", "downWait"}
    /\ count["barrier"] = 1 <=> HostWaits("startedWait") \/ ReadWaits("startedWait")
    /\ count["shutdown_barrier"] = 1 <=> HostWaits("downWait") \/ ReadWaits("downWait")
    /\ rt # "setup" => run_loop

-----------------------------------------------------------------------------
\* hid_open_path has started no thread yet.
LEMMA MacInit == Init => MacInv
<1> SUFFICES ASSUME Init PROVE MacInv
  OBVIOUS
<1>1. FlagType
  BY Zenon DEF Init, FlagType
<1>2. count \in [Barriers -> 0 .. 1]
  BY DEF Init
<1>3. PlaceType /\ SyncType /\ ListType
  BY <1>2, MacAssumption DEF Init, PlaceType, SyncType, ListType, Nothing
<1>4. CloseInv /\ GoneInv
  BY DEF Init, CloseInv, GoneInv, Nothing, Error
<1> QED
  BY <1>1, <1>3, <1>4 DEF MacInv, TypeOK

\* The flags stay flags.
LEMMA FlagStep == FlagType /\ [Next]_vars => FlagType'
<1> SUFFICES ASSUME FlagType, [Next]_vars PROVE FlagType'
  OBVIOUS
<1> USE DEF FlagType, loopVars, flagVars, devVars
<1>1. CASE Setup \/ ReadBarrier \/ LoopTest \/ ReportDispatched \/ QueueReport
  <2>1. CASE Setup
    BY <2>1, Zenon DEF Setup
  <2>2. CASE ReadBarrier
    BY <2>2, Zenon DEF ReadBarrier
  <2>3. CASE LoopTest
    BY <2>3, Zenon DEF LoopTest
  <2>4. CASE ReportDispatched
    BY <2>4, Zenon DEF ReportDispatched
  <2>5. CASE QueueReport
    BY <2>5, Zenon DEF QueueReport
  <2> QED
    BY <1>1, <2>1, <2>2, <2>3, <2>4, <2>5
<1>2. CASE Removal \/ RunReturns \/ WakeReaders \/ PerformSignal
  <2>1. CASE Removal
    BY <2>1, Zenon DEF Removal
  <2>2. CASE RunReturns
    BY <2>2, Zenon DEF RunReturns, TimedOut
  <2>3. CASE WakeReaders
    BY <2>3, Zenon DEF WakeReaders
  <2>4. CASE PerformSignal
    BY <2>4, Zenon DEF PerformSignal
  <2> QED
    BY <1>2, <2>1, <2>2, <2>3, <2>4
<1>3. CASE HostBarrier \/ ReadLock \/ ReadCheck \/ ReadWoken \/ ReadSleep \/ ReadTimesOut
  <2>1. CASE HostBarrier
    BY <2>1, Zenon DEF HostBarrier
  <2>2. CASE ReadLock
    BY <2>2, Zenon DEF ReadLock
  <2>3. CASE ReadCheck
    BY <2>3, Zenon DEF ReadCheck
  <2>4. CASE ReadWoken
    BY <2>4, Zenon DEF ReadWoken
  <2>5. CASE ReadSleep
    BY <2>5, Zenon DEF ReadSleep
  <2>6. CASE ReadTimesOut
    BY <2>6, Zenon DEF ReadTimesOut
  <2> QED
    BY <1>3, <2>1, <2>2, <2>3, <2>4, <2>5, <2>6
<1>4. CASE CloseStops \/ CloseWakes \/ CloseFrees \/ CloseDetaches
  <2>1. CASE CloseStops
    BY <2>1, Zenon DEF CloseStops
  <2>2. CASE CloseWakes
    BY <2>2, Zenon DEF CloseWakes
  <2>3. CASE CloseFrees
    BY <2>3, Zenon DEF CloseFrees
  <2>4. CASE CloseDetaches
    BY <2>4, Zenon DEF CloseDetaches
  <2> QED
    BY <1>4, <2>1, <2>2, <2>3, <2>4
<1>5. ASSUME NEW m \in {"block", "timed", "poll"}, ReadCall(m) PROVE FlagType'
  BY <1>5, Zenon DEF ReadCall
<1>6. CASE Unplug
  BY <1>6, Zenon DEF Unplug
<1>7. ASSUME NEW t \in {"host", "read"}, SpuriousWakeup(t) PROVE FlagType'
  BY <1>7, Zenon DEF SpuriousWakeup
<1>8. CASE UNCHANGED vars
  BY <1>8, Zenon DEF vars
<1> QED
  BY <1>1, <1>2, <1>3, <1>4, <1>5, <1>6, <1>7, <1>8 DEF Next, ReadThread, HostThread

\* A thread that comes to a barrier is counted, or wakes the other.
LEMMA ArriveType ==
    ASSUME SyncType, NEW t \in {"host", "read"}, NEW b \in Barriers, Arrive(t, b)
    PROVE  asleep' \subseteq {"host", "read"} /\ count' \in [Barriers -> 0 .. 1]
<1>1. CASE Trips(count[b] + 1)
  BY <1>1 DEF Arrive, SyncType
<1>2. CASE ~Trips(count[b] + 1)
  <2>1. count[b] + 1 \in 0 .. 1
    BY <1>2 DEF Trips, SyncType
  <2> QED
    BY <1>2, <2>1 DEF Arrive, SyncType
<1> QED
  BY <1>1, <1>2

\* However a thread comes to a barrier, sleeps there or goes on.
LEMMA PassesType ==
    ASSUME SyncType, NEW t \in {"host", "read"}, NEW b \in Barriers,
           NEW pc, NEW pcNext, NEW at, NEW wait, NEW past,
           \/ pc = at /\ Arrive(t, b) /\ pcNext = IF t \in asleep' THEN wait ELSE past
           \/ pc = wait /\ t \notin asleep /\ pcNext = past /\ UNCHANGED <<asleep, count>>
    PROVE  /\ asleep' \subseteq {"host", "read"} /\ count' \in [Barriers -> 0 .. 1]
           /\ pc \in {at, wait} /\ pcNext \in {wait, past}
BY ArriveType DEF SyncType

\* Every step keeps the types, the places where the mutex is held, and the
\* bound of the list.
LEMMA TypeStep == TypeOK /\ [Next]_vars => TypeOK'
<1> SUFFICES ASSUME TypeOK, [Next]_vars PROVE (PlaceType /\ SyncType /\ ListType)'
  BY FlagStep DEF TypeOK
<1> DEFINE Goal == PlaceType /\ SyncType /\ ListType
<1> USE MacAssumption
    DEF TypeOK, PlaceType, SyncType, ListType, callVars, syncVars, loopVars, flagVars,
        queueVars, devVars
<1>1. CASE HostBarrier
  <2>1. /\ asleep' \subseteq {"host", "read"} /\ count' \in [Barriers -> 0 .. 1]
        /\ host \in {"started", "startedWait", "down", "downWait"}
        /\ host' \in {"startedWait", "idle", "downWait", "join"}
    BY <1>1, PassesType DEF HostBarrier, Passes, Barriers
  <2> QED
    BY <1>1, <2>1 DEF HostBarrier
<1>2. CASE ReadBarrier
  <2>1. /\ asleep' \subseteq {"host", "read"} /\ count' \in [Barriers -> 0 .. 1]
        /\ rt' \in {"startedWait", "loop", "downWait", "ended"}
    BY <1>2, PassesType DEF ReadBarrier, Passes, Barriers
  <2> QED
    BY <1>2, <2>1 DEF ReadBarrier
<1>3. CASE Setup \/ LoopTest \/ ReportDispatched
  BY <1>3 DEF Setup, LoopTest, ReportDispatched
<1>4. CASE QueueReport
  <2>1. PICK q \in Seq(Nat) : q = Append(input_reports, received + 1)
                             /\ Len(q) = Len(input_reports) + 1
    <3>1. received + 1 \in Nat /\ input_reports \in Seq(Nat)
      OBVIOUS
    <3>2. /\ Append(input_reports, received + 1) \in Seq(Nat)
          /\ Len(Append(input_reports, received + 1)) = Len(input_reports) + 1
      BY <3>1, AppendProperties
    <3> QED
      BY <3>2, Zenon
  <2>2. input_reports' = IF DropsOldest(Len(input_reports) - 1) THEN Tail(q) ELSE q
    BY <1>4, <2>1 DEF QueueReport
  <2>3. Tail(q) \in Seq(Nat) /\ Len(Tail(q)) = Len(input_reports)
    BY <2>1
  <2>4. ListType'
    BY <1>4, <2>1, <2>2, <2>3 DEF QueueReport, DropsOldest
  <2> QED
    BY <1>4, <2>4 DEF QueueReport
<1>5. CASE Removal \/ RunReturns \/ WakeReaders \/ PerformSignal
  BY <1>5 DEF Removal, RunReturns, TimedOut, WakeReaders, AfterBroadcast, PerformSignal
<1>6. CASE ReadLock \/ ReadSleep \/ ReadTimesOut
  <2>1. CASE ReadLock
    BY <2>1 DEF ReadLock
  <2>2. CASE ReadSleep
    BY <2>2 DEF ReadSleep
  <2>3. CASE ReadTimesOut
    BY <2>3 DEF ReadTimesOut, Nothing
  <2> QED
    BY <1>6, <2>1, <2>2, <2>3
<1>7. CASE ReadCheck \/ ReadWoken
  <2>1. input_reports # <<>> =>
          /\ Head(input_reports) \in Nat /\ Tail(input_reports) \in Seq(Nat)
          /\ Len(Tail(input_reports)) = Len(input_reports) - 1
    OBVIOUS
  <2>2. ListType'
    <3>1. \/ input_reports # <<>> /\ input_reports' = Tail(input_reports)
          \/ UNCHANGED input_reports
      BY <1>7, Zenon DEF ReadCheck, ReadWoken
    <3>2. UNCHANGED received
      BY <1>7, Zenon DEF ReadCheck, ReadWoken
    <3>3. CASE input_reports # <<>> /\ input_reports' = Tail(input_reports)
      <4>1. /\ Len(input_reports) \in Nat /\ Len(input_reports') = Len(input_reports) - 1
            /\ Len(input_reports) <= QueueLimit + 2
        BY <2>1, <3>3
      <4>2. Len(input_reports') <= QueueLimit + 2
        BY <4>1
      <4> QED
        BY <2>1, <3>2, <3>3, <4>2, Zenon
    <3>4. CASE UNCHANGED input_reports
      BY <3>2, <3>4, Zenon
    <3> QED
      BY <3>1, <3>3, <3>4, Zenon
  <2>3. PlaceType'
    BY <1>7, <2>1 DEF ReadCheck, ReadWoken, ReadReturns, Nothing
  <2>4. SyncType'
    BY <1>7 DEF ReadCheck, ReadWoken, ReadReturns
  <2> QED
    BY <2>2, <2>3, <2>4
<1>8. CASE CloseStops \/ CloseWakes \/ CloseDetaches
  BY <1>8 DEF CloseStops, CloseWakes, AfterWakeUp, CloseDetaches
<1>9. CASE CloseFrees
  BY <1>9 DEF CloseFrees
<1>10. ASSUME NEW m \in {"block", "timed", "poll"}, ReadCall(m) PROVE Goal'
  BY <1>10 DEF ReadCall, Nothing
<1>11. CASE Unplug
  BY <1>11 DEF Unplug
<1>12. ASSUME NEW t \in {"host", "read"}, SpuriousWakeup(t) PROVE Goal'
  BY <1>12 DEF SpuriousWakeup
<1>13. CASE UNCHANGED vars
  BY <1>13 DEF vars
<1> QED
  BY <1>1, <1>2, <1>3, <1>4, <1>5, <1>6, <1>7, <1>8, <1>9, <1>10, <1>11, <1>12, <1>13
     DEF Next, ReadThread, HostThread

\* hid_close sets shutdown_thread first.
LEMMA CloseStep == MacInv /\ [Next]_vars => CloseInv'
<1> SUFFICES ASSUME TypeOK, CloseInv, [Next]_vars PROVE CloseInv'
  BY DEF MacInv
<1> USE DEF TypeOK, PlaceType, CloseInv, callVars, syncVars, loopVars, flagVars, queueVars,
        devVars
<1>1. CASE HostBarrier
  BY <1>1 DEF HostBarrier, Passes
<1>2. CASE ReadBarrier
  BY <1>2 DEF ReadBarrier, Passes
<1>3. CASE Setup \/ LoopTest \/ ReportDispatched \/ QueueReport
  BY <1>3 DEF Setup, LoopTest, ReportDispatched, QueueReport
<1>4. CASE Removal \/ RunReturns \/ WakeReaders \/ PerformSignal
  BY <1>4 DEF Removal, RunReturns, TimedOut, WakeReaders, PerformSignal
<1>5. CASE ReadLock \/ ReadCheck \/ ReadWoken \/ ReadSleep \/ ReadTimesOut
  BY <1>5 DEF ReadLock, ReadCheck, ReadWoken, ReadReturns, ReadSleep, ReadTimesOut
<1>6. CASE CloseStops \/ CloseWakes \/ CloseDetaches
  BY <1>6 DEF CloseStops, CloseWakes, AfterWakeUp, CloseDetaches
<1>7. CASE CloseFrees
  BY <1>7 DEF CloseFrees
<1>8. ASSUME NEW m \in {"block", "timed", "poll"}, ReadCall(m) PROVE CloseInv'
  BY <1>8 DEF ReadCall
<1>9. CASE Unplug
  BY <1>9 DEF Unplug
<1>10. ASSUME NEW t \in {"host", "read"}, SpuriousWakeup(t) PROVE CloseInv'
  BY <1>10 DEF SpuriousWakeup
<1>11. CASE UNCHANGED vars
  BY <1>11 DEF vars
<1> QED
  BY <1>1, <1>2, <1>3, <1>4, <1>5, <1>6, <1>7, <1>8, <1>9, <1>10, <1>11
     DEF Next, ReadThread, HostThread

\* A read that returns an error has found one of the flags set.
LEMMA ReadFails ==
    ASSUME TypeOK, ReadCheck \/ ReadWoken, result' = Error
    PROVE  Down \/ result = Error
<1>1. input_reports # <<>> => Head(input_reports) # Error
  BY DEF TypeOK, ListType, Error
<1>2. Nothing # Error
  BY DEF Error, Nothing
<1>3. CASE ReadCheck
  BY <1>1, <1>2, <1>3, Zenon DEF ReadCheck, ReadReturns
<1>4. CASE ReadWoken
  BY <1>1, <1>2, <1>4, Zenon DEF ReadWoken, ReadReturns
<1> QED
  BY <1>3, <1>4

\* Until hid_close begins, the flags are set by the removal of the device alone.
LEMMA GoneStep == MacInv /\ [Next]_vars => GoneInv'
<1> SUFFICES ASSUME TypeOK, GoneInv, [Next]_vars PROVE GoneInv'
  BY DEF MacInv
<1> USE DEF GoneInv, Closing, callVars, syncVars, loopVars, flagVars, queueVars, devVars
<1>1. CASE HostBarrier
  BY <1>1 DEF HostBarrier, Passes
<1>2. CASE ReadBarrier
  BY <1>2 DEF ReadBarrier, Passes
<1>3. CASE Setup \/ LoopTest \/ ReportDispatched \/ QueueReport
  BY <1>3 DEF Setup, LoopTest, ReportDispatched, QueueReport
<1>4. CASE Removal
  BY <1>4 DEF Removal
<1>5. CASE RunReturns
  BY <1>5 DEF RunReturns, TimedOut
<1>6. CASE PerformSignal \/ WakeReaders
  BY <1>6 DEF PerformSignal, WakeReaders
<1>7. CASE ReadCheck \/ ReadWoken
  <2>1. /\ host \notin Closing /\ host' \notin Closing
        /\ UNCHANGED <<loopVars, flagVars, plugged>>
    BY <1>7 DEF ReadCheck, ReadWoken, ReadReturns
  <2>2. result' = Error => ~plugged
    BY <1>7, <2>1, ReadFails DEF Down
  <2> QED
    BY <2>1, <2>2
<1>8. CASE ReadLock \/ ReadSleep \/ ReadTimesOut
  BY <1>8 DEF ReadLock, ReadSleep, ReadTimesOut, Nothing, Error
<1>9. CASE CloseDetaches \/ CloseStops
  BY <1>9 DEF CloseDetaches, CloseStops
<1>10. CASE CloseWakes \/ CloseFrees
  BY <1>10 DEF CloseWakes, AfterWakeUp, CloseFrees
<1>11. ASSUME NEW m \in {"block", "timed", "poll"}, ReadCall(m) PROVE GoneInv'
  BY <1>11 DEF ReadCall, Nothing, Error
<1>12. CASE Unplug
  BY <1>12 DEF Unplug
<1>13. ASSUME NEW t \in {"host", "read"}, SpuriousWakeup(t) PROVE GoneInv'
  BY <1>13 DEF SpuriousWakeup
<1>14. CASE UNCHANGED vars
  BY <1>14 DEF vars
<1> QED
  BY <1>1, <1>2, <1>3, <1>4, <1>5, <1>6, <1>7, <1>8, <1>9, <1>10, <1>11, <1>12, <1>13, <1>14
     DEF Next, ReadThread, HostThread

\* Read thread, run loop and callers keep the places of a close that is under
\* way, in whatever order they run, also if a barrier wakes for no reason.
THEOREM MacInvariant == Spec => []MacInv
<1>1. MacInv /\ [Next]_vars => MacInv'
  BY TypeStep, CloseStep, GoneStep DEF MacInv
<1> QED
  BY MacInit, <1>1, PTL DEF Spec

\* Every variable keeps its type, the mutex is held where the code holds it, and
\* the list never grows beyond two reports above its limit.
THEOREM MacTypeCorrect == Spec => []TypeOK
<1>1. MacInv => TypeOK
  BY DEF MacInv
<1> QED
  BY <1>1, MacInvariant, PTL

\* A read fails only of a device that has gone: not because the run loop came
\* back, and not because a barrier let a thread through too early.
THEOREM MacErrorMeansGone == Spec => []ErrorMeansGone
<1>1. MacInv => ErrorMeansGone
  BY DEF MacInv, GoneInv, ErrorMeansGone
<1> QED
  BY <1>1, MacInvariant, PTL

-----------------------------------------------------------------------------
(***************************************************************************)
(* The barriers, when no thread at them is woken unasked                   *)
(***************************************************************************)
LEMMA BarrierInit == Init => BarrierInv
BY DEF Init, BarrierInv, HostWaits, ReadWaits, HostStarted, ReadStarted, HostDown, ReadDown,
   Barriers

\* The caller comes to a barrier, waits at it, or leaves it.
LEMMA HostBarrierStep ==
    ASSUME TypeOK, BarrierInv, HostBarrier
    PROVE  BarrierInv'
<1> USE DEF TypeOK, PlaceType, SyncType, BarrierInv, HostWaits, ReadWaits, HostStarted,
        ReadStarted, HostDown, ReadDown, HostBarrier, Passes, Arrive, Trips, Barriers, loopVars
<1>1. CASE host = "started"
  <2>1. CASE count["barrier"] = 1
    BY <1>1, <2>1
  <2>2. CASE count["barrier"] = 0
    BY <1>1, <2>2
  <2> QED
    BY <2>1, <2>2
<1>2. CASE host = "startedWait"
  BY <1>2
<1>3. CASE host = "down"
  <2>1. CASE count["shutdown_barrier"] = 1
    BY <1>3, <2>1
  <2>2. CASE count["shutdown_barrier"] = 0
    BY <1>3, <2>2
  <2> QED
    BY <2>1, <2>2
<1>4. CASE host = "downWait"
  BY <1>4
<1> QED
  BY <1>1, <1>2, <1>3, <1>4

\* The read thread does.
LEMMA ReadBarrierStep ==
    ASSUME TypeOK, BarrierInv, ReadBarrier
    PROVE  BarrierInv'
<1> USE DEF TypeOK, PlaceType, SyncType, BarrierInv, HostWaits, ReadWaits, HostStarted,
        ReadStarted, HostDown, ReadDown, ReadBarrier, Passes, Arrive, Trips, Barriers, loopVars
<1>1. CASE rt = "started"
  <2>1. CASE count["barrier"] = 1
    BY <1>1, <2>1
  <2>2. CASE count["barrier"] = 0
    BY <1>1, <2>2
  <2> QED
    BY <2>1, <2>2
<1>2. CASE rt = "startedWait"
  BY <1>2
<1>3. CASE rt = "down"
  <2>1. CASE count["shutdown_barrier"] = 1
    BY <1>3, <2>1
  <2>2. CASE count["shutdown_barrier"] = 0
    BY <1>3, <2>2
  <2> QED
    BY <2>1, <2>2
<1>4. CASE rt = "downWait"
  BY <1>4
<1> QED
  BY <1>1, <1>2, <1>3, <1>4

\* Without such wake-ups the two barriers keep the threads in step.
LEMMA BarrierStep ==
    ASSUME ~BarrierWakes, TypeOK, BarrierInv, [Next]_vars
    PROVE  BarrierInv'
<1> USE DEF TypeOK, PlaceType, SyncType, BarrierInv, HostWaits, ReadWaits, HostStarted,
        ReadStarted, HostDown, ReadDown, callVars, syncVars, loopVars, flagVars, queueVars,
        devVars
<1>1. CASE HostBarrier
  BY <1>1, HostBarrierStep
<1>2. CASE ReadBarrier
  BY <1>2, ReadBarrierStep
<1>3. CASE Setup \/ LoopTest \/ ReportDispatched
  BY <1>3 DEF Setup, LoopTest, ReportDispatched
<1>4. CASE QueueReport
  BY <1>4 DEF QueueReport
<1>5. CASE Removal \/ RunReturns \/ PerformSignal
  BY <1>5 DEF Removal, RunReturns, TimedOut, PerformSignal
<1>6. CASE WakeReaders
  BY <1>6 DEF WakeReaders, AfterBroadcast
<1>7. CASE ReadLock \/ ReadSleep \/ ReadTimesOut
  BY <1>7 DEF ReadLock, ReadSleep, ReadTimesOut
<1>8. CASE ReadCheck \/ ReadWoken
  BY <1>8 DEF ReadCheck, ReadWoken, ReadReturns
<1>9. CASE CloseStops \/ CloseWakes \/ CloseDetaches \/ CloseFrees
  BY <1>9 DEF CloseStops, CloseWakes, AfterWakeUp, CloseDetaches, CloseFrees
<1>10. ASSUME NEW m \in {"block", "timed", "poll"}, ReadCall(m) PROVE BarrierInv'
  BY <1>10 DEF ReadCall
<1>11. CASE Unplug
  BY <1>11 DEF Unplug
<1>12. ASSUME NEW t \in {"host", "read"}, SpuriousWakeup(t) PROVE BarrierInv'
  BY <1>12 DEF SpuriousWakeup
<1>13. CASE UNCHANGED vars
  BY <1>13 DEF vars
<1> QED
  BY <1>1, <1>2, <1>3, <1>4, <1>5, <1>6, <1>7, <1>8, <1>9, <1>10, <1>11, <1>12, <1>13
     DEF Next, ReadThread, HostThread

\* hid_close wakes the run loop of a thread that has one and has not ended, if
\* pthread_cond_wait wakes nobody at a barrier unasked: until hid_close comes
\* to the shutdown barrier, the read thread stays on this side of it.
THEOREM MacRunLoopValid ==
    ASSUME ~BarrierWakes
    PROVE  Spec => RunLoopValid
<1>1. BarrierInv /\ TypeOK /\ [Next]_vars => BarrierInv'
  BY BarrierStep
<1>2. BarrierInv /\ [Next]_vars => [CloseWakes => run_loop /\ rt # "ended"]_vars
  BY DEF BarrierInv, HostStarted, ReadStarted, HostDown, ReadDown, HostWaits, ReadWaits,
     CloseWakes
<1> QED
  BY BarrierInit, <1>1, <1>2, MacTypeCorrect, PTL DEF Spec, RunLoopValid

-----------------------------------------------------------------------------
(***************************************************************************)
(* HidReports is implemented                                               *)
(***************************************************************************)
LEMMA ReportsInit == Init => Reports!Init
BY DEF Init, Reports!Init, Nothing, Reports!Nothing, Down

\* A report that the callback queues arrives, and the oldest goes at the limit.
LEMMA QueueReportArrives ==
    ASSUME TypeOK, QueueReport
    PROVE  Reports!Arrive
<1>1. Len(Append(input_reports, received + 1)) = Len(input_reports) + 1
  BY DEF TypeOK, ListType
<1>2. DropsOldest(Len(input_reports) - 1)
        <=> Len(Append(input_reports, received + 1)) > QueueLimit + 2
  BY <1>1, MacAssumption DEF TypeOK, ListType, DropsOldest
<1> QED
  BY <1>2 DEF QueueReport, Reports!Arrive, callVars, flagVars, Down

\* A read that looks at the list takes the oldest report, fails when the device
\* or the thread is down, or goes on.
LEMMA ReadReports ==
    ASSUME ReadCheck \/ ReadWoken
    PROVE  Reports!Take \/ Reports!Fail \/ Reports!GiveUp \/ UNCHANGED Reports!vars
<1> USE DEF ReadCheck, ReadWoken, ReadReturns, flagVars, Nothing, Error, Reports!Nothing,
        Reports!Error, Down
<1>1. CASE host' = "idle" /\ result' = Head(input_reports) /\ input_reports # <<>>
           /\ input_reports' = Tail(input_reports)
  BY <1>1 DEF Reports!Take
<1>2. CASE host' = "idle" /\ Down /\ result' = Error /\ UNCHANGED input_reports
  BY <1>2 DEF Reports!Fail
<1>3. CASE host' = "idle" /\ mode = "poll" /\ result' = Nothing /\ UNCHANGED input_reports
  BY <1>3 DEF Reports!GiveUp
<1>4. CASE host' = "sleep"
  BY <1>4 DEF Reports!vars
<1> QED
  BY <1>1, <1>2, <1>3, <1>4

\* Every step of the backend is one of HidReports, or nothing a caller sees.
LEMMA ReportsStep == MacInv /\ [Next]_vars => [Reports!Next]_Reports!vars
<1> SUFFICES ASSUME MacInv, [Next]_vars
             PROVE  Reports!Next \/ UNCHANGED Reports!vars
  OBVIOUS
<1> USE DEF Reports!vars, Down, callVars, syncVars, loopVars, flagVars, queueVars, devVars
<1>1. CASE HostBarrier
  BY <1>1 DEF HostBarrier, Passes
<1>2. CASE ReadBarrier
  BY <1>2 DEF ReadBarrier
<1>3. CASE Setup \/ LoopTest \/ ReportDispatched \/ WakeReaders \/ PerformSignal
  BY <1>3 DEF Setup, LoopTest, ReportDispatched, WakeReaders, PerformSignal
<1>4. CASE QueueReport
  BY <1>4, QueueReportArrives DEF MacInv, Reports!Next
<1>5. CASE Removal \/ RunReturns
  BY <1>5 DEF Removal, RunReturns, TimedOut, Reports!Next, Reports!Lose
<1>6. ASSUME NEW m \in {"block", "timed", "poll"}, ReadCall(m) PROVE Reports!Next
  BY <1>6 DEF ReadCall, Reports!Next, Reports!Call, Nothing, Reports!Nothing
<1>7. CASE ReadLock \/ ReadSleep
  BY <1>7 DEF ReadLock, ReadSleep
<1>8. CASE ReadCheck \/ ReadWoken
  BY <1>8, ReadReports DEF Reports!Next
<1>9. CASE ReadTimesOut
  BY <1>9 DEF ReadTimesOut, Reports!Next, Reports!GiveUp, Nothing, Reports!Nothing
<1>10. CASE CloseStops
  BY <1>10 DEF CloseStops, Reports!Next, Reports!Lose
<1>11. CASE CloseWakes \/ CloseDetaches
  BY <1>11 DEF CloseWakes, AfterWakeUp, CloseDetaches
<1>12. CASE CloseFrees
  BY <1>12 DEF CloseFrees, MacInv, CloseInv, Reports!Next, Reports!Close
<1>13. CASE Unplug
  BY <1>13 DEF Unplug
<1>14. ASSUME NEW t \in {"host", "read"}, SpuriousWakeup(t) PROVE UNCHANGED Reports!vars
  BY <1>14 DEF SpuriousWakeup
<1>15. CASE UNCHANGED vars
  BY <1>15 DEF vars
<1> QED
  BY <1>1, <1>2, <1>3, <1>4, <1>5, <1>6, <1>7, <1>8, <1>9, <1>10, <1>11, <1>12,
     <1>13, <1>14, <1>15 DEF Next, ReadThread, HostThread

\* What a caller sees of the list of reports is what HidReports promises, but
\* that a read may fail while a report waits.
THEOREM MacImplementsReports == Spec => ReportsSafety
<1> QED
  BY MacInvariant, ReportsInit, ReportsStep, PTL DEF Spec, ReportsSafety
=============================================================================
