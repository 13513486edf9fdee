--------------------------- MODULE HidLibusbProofs ---------------------------
(***************************************************************************)
(* For every number of reports, every limit of the list and whatever       *)
(* libusb does with a transfer: the handle of the libusb backend is freed  *)
(* only when nothing can call back, and what callers see of the list of    *)
(* reports is what HidReports promises.                                    *)
(***************************************************************************)
EXTENDS HidLibusb, SequenceTheorems, TLAPS

-----------------------------------------------------------------------------
(***************************************************************************)
(* The inductive invariant                                                 *)
(***************************************************************************)
\* A callback runs for a transfer that has an outcome; and `cancelled', which
\* ends the read thread, is set only with the transfer gone for good.
TransferInv ==
    /\ rt \in {"callback", "resubmit"} => transfer \in Outcomes
    /\ rt = "submit" => transfer = "none" /\ ~cancelled
    /\ cancelled => transfer = "none"
    /\ rt = "ended" => transfer = "none"

\* hid_close has told the read thread before it frees anything.
CloseInv ==
    /\ host \in {"cancel", "join", "closed"} => shutdown_thread
    /\ freed => host = "closed"
    /\ host = "closed" => rt = "ended"

LibusbInv == TypeOK /\ TransferInv /\ CloseInv

-----------------------------------------------------------------------------
\* hid_open_path has started no thread and no transfer yet.
LEMMA LibusbInit == Init => LibusbInv
<1> SUFFICES ASSUME Init PROVE LibusbInv
  OBVIOUS
<1>1. FlagType
  BY Zenon DEF Init, FlagType
<1>2. PlaceType /\ LockType /\ ListType
  BY LibusbAssumption DEF Init, PlaceType, LockType, ListType, Nothing, Outcomes
<1>3. TransferInv /\ CloseInv
  BY DEF Init, TransferInv, CloseInv
<1> QED
  BY <1>1, <1>2, <1>3 DEF LibusbInv, TypeOK

\* The flags stay flags.
LEMMA FlagStep == FlagType /\ [Next]_vars => FlagType'
<1> SUFFICES ASSUME FlagType, [Next]_vars PROVE FlagType'
  OBVIOUS
<1> USE DEF FlagType, flagVars, rtVars, lockVars
<1>1. CASE FirstSubmit \/ Barrier \/ LoopTest \/ HandleEvents
  BY <1>1, Zenon DEF FirstSubmit, Barrier, LoopTest, HandleEvents
<1>2. CASE CancelOwn \/ WakeReaders
  BY <1>2, Zenon DEF CancelOwn, WakeReaders, AfterBroadcast
<1>3. CASE QueueReport \/ NothingQueued
  BY <1>3, Zenon DEF QueueReport, NothingQueued
<1>4. CASE TransferEnds \/ Resubmit
  BY <1>4, Zenon DEF TransferEnds, Resubmit, CancelSeen
<1>5. ASSUME NEW m \in {"block", "timed", "poll"}, ReadCall(m) PROVE FlagType'
  BY <1>5, Zenon DEF ReadCall
<1>6. CASE ReadLock \/ ReadCheck \/ ReadSleep \/ ReadTimesOut
  BY <1>6, Zenon DEF ReadLock, ReadCheck, ReadSleep, ReadTimesOut
<1>7. CASE CloseBegins \/ CloseCancels \/ CloseFrees
  BY <1>7, Zenon DEF CloseBegins, CloseCancels, CloseFrees
<1>8. ASSUME NEW o \in Outcomes \ {"cancelled"}, TransferOutcome(o) PROVE FlagType'
  BY <1>8, Zenon DEF TransferOutcome
<1>9. CASE Unplug \/ SpuriousWakeup
  BY <1>9, Zenon DEF Unplug, SpuriousWakeup
<1>10. CASE UNCHANGED vars
  BY <1>10, Zenon DEF vars
<1> QED
  BY <1>1, <1>2, <1>3, <1>4, <1>5, <1>6, <1>7, <1>8, <1>9, <1>10
     DEF Next, ReadThread, HostThread

\* Every step keeps the types, the places where the mutex is held, and the
\* bound of the list.
LEMMA TypeStep == TypeOK /\ [Next]_vars => TypeOK'
<1> SUFFICES ASSUME TypeOK, [Next]_vars PROVE (PlaceType /\ LockType /\ ListType)'
  BY FlagStep DEF TypeOK
<1> USE LibusbAssumption
    DEF TypeOK, PlaceType, LockType, ListType, Outcomes, hostVars, flagVars, queueVars,
        rtVars, lockVars
<1> DEFINE Goal == PlaceType /\ LockType /\ ListType
<1>1. CASE FirstSubmit \/ Barrier \/ LoopTest \/ HandleEvents
  BY <1>1 DEF FirstSubmit, Barrier, LoopTest, HandleEvents
<1>2. CASE CancelOwn \/ WakeReaders
  BY <1>2 DEF CancelOwn, CancelTransfer, WakeReaders, AfterBroadcast
<1>3. CASE QueueReport
  <2>1. PICK q \in Seq(Nat) : q = Append(input_reports, received + 1)
                             /\ Len(q) = Len(input_reports) + 1
    <3>1. received + 1 \in Nat /\ input_reports \in Seq(Nat)
      OBVIOUS
    <3>2. /\ Append(input_reports, received + 1) \in Seq(Nat)
          /\ Len(Append(input_reports, received + 1)) = Len(input_reports) + 1
      BY <3>1, AppendProperties
    <3> QED
      BY <3>2, Zenon
  <2>2. input_reports' = IF DropsOldest(Len(input_reports) - 1) THEN Tail(q) ELSE q
    BY <1>3, <2>1 DEF QueueReport
  <2>3. Tail(q) \in Seq(Nat) /\ Len(Tail(q)) = Len(input_reports)
    BY <2>1
  <2>4. ListType'
    BY <1>3, <2>1, <2>2, <2>3 DEF QueueReport, DropsOldest
  <2> QED
    BY <1>3, <2>4 DEF QueueReport
<1>4. CASE NothingQueued \/ TransferEnds \/ Resubmit
  BY <1>4 DEF NothingQueued, TransferEnds, Resubmit, CallbackReturns
<1>5. ASSUME NEW m \in {"block", "timed", "poll"}, ReadCall(m) PROVE Goal'
  BY <1>5 DEF ReadCall, Nothing
<1>6. CASE ReadLock \/ ReadSleep \/ ReadTimesOut
  BY <1>6 DEF ReadLock, ReadSleep, ReadTimesOut, Nothing
<1>7. CASE ReadCheck
  BY <1>7 DEF ReadCheck, ReadReturns, Nothing, Error
<1>8. CASE CloseBegins \/ CloseCancels
  BY <1>8 DEF CloseBegins, CloseCancels, CancelTransfer, InFlight
<1>9. CASE CloseFrees
  BY <1>9 DEF CloseFrees
<1>10. ASSUME NEW o \in Outcomes \ {"cancelled"}, TransferOutcome(o) PROVE Goal'
  BY <1>10 DEF TransferOutcome
<1>11. CASE Unplug \/ SpuriousWakeup
  BY <1>11 DEF Unplug, SpuriousWakeup
<1>12. CASE UNCHANGED vars
  BY <1>12 DEF vars
<1> QED
  BY <1>1, <1>2, <1>3, <1>4, <1>5, <1>6, <1>7, <1>8, <1>9, <1>10, <1>11, <1>12
     DEF Next, ReadThread, HostThread

\* Whoever cancels a transfer, and whenever, the read thread sees the end of
\* it before it ends itself.
LEMMA TransferStep == LibusbInv /\ [Next]_vars => TransferInv' /\ CloseInv'
<1> SUFFICES ASSUME TypeOK, TransferInv, CloseInv, [Next]_vars
             PROVE  TransferInv' /\ CloseInv'
  BY DEF LibusbInv
<1> USE DEF TypeOK, PlaceType, TransferInv, CloseInv, Outcomes, hostVars, flagVars,
        queueVars, rtVars, lockVars
<1>1. CASE FirstSubmit \/ Barrier \/ LoopTest \/ HandleEvents
  BY <1>1 DEF FirstSubmit, Barrier, LoopTest, HandleEvents
<1>2. CASE CancelOwn \/ WakeReaders
  BY <1>2 DEF CancelOwn, CancelTransfer, InFlight, WakeReaders
<1>3. CASE QueueReport \/ NothingQueued
  BY <1>3 DEF QueueReport, NothingQueued
<1>4. CASE TransferEnds \/ Resubmit
  BY <1>4 DEF TransferEnds, Resubmit, CallbackReturns, CancelSeen
<1>5. ASSUME NEW m \in {"block", "timed", "poll"}, ReadCall(m)
      PROVE  TransferInv' /\ CloseInv'
  BY <1>5 DEF ReadCall
<1>6. CASE ReadLock \/ ReadCheck \/ ReadSleep \/ ReadTimesOut
  BY <1>6 DEF ReadLock, ReadCheck, ReadReturns, ReadSleep, ReadTimesOut
<1>7. CASE CloseBegins \/ CloseCancels \/ CloseFrees
  BY <1>7 DEF CloseBegins, CloseCancels, CancelTransfer, InFlight, CloseFrees, Joined
<1>8. ASSUME NEW o \in Outcomes \ {"cancelled"}, TransferOutcome(o)
      PROVE  TransferInv' /\ CloseInv'
  BY <1>8 DEF TransferOutcome
<1>9. CASE Unplug \/ SpuriousWakeup
  BY <1>9 DEF Unplug, SpuriousWakeup
<1>10. CASE UNCHANGED vars
  BY <1>10 DEF vars
<1> QED
  BY <1>1, <1>2, <1>3, <1>4, <1>5, <1>6, <1>7, <1>8, <1>9, <1>10
     DEF Next, ReadThread, HostThread

\* Read thread, USB events and callers keep the places of the transfer and of a
\* close that is under way, in whatever order they run.
THEOREM LibusbInvariant == Spec => []LibusbInv
<1>1. LibusbInv /\ [Next]_vars => LibusbInv'
  BY TypeStep, TransferStep DEF LibusbInv
<1> QED
  BY LibusbInit, <1>1, PTL DEF Spec

\* Every variable keeps its type, the mutex is held where the code holds it, and
\* the list never grows beyond two reports above its limit.
THEOREM LibusbTypeCorrect == Spec => []TypeOK
<1>1. LibusbInv => TypeOK
  BY DEF LibusbInv
<1> QED
  BY <1>1, LibusbInvariant, PTL

\* hid_close frees the transfer and the handle only when the read thread has
\* ended and no transfer can call back, whoever cancelled it, whatever
\* libusb_cancel_transfer does with a transfer that is done already, and also
\* if the first submission failed.
THEOREM LibusbSafeFree == Spec => []SafeFree
<1>1. LibusbInv => SafeFree
  BY DEF LibusbInv, TransferInv, CloseInv, SafeFree
<1> QED
  BY <1>1, LibusbInvariant, PTL

-----------------------------------------------------------------------------
(***************************************************************************)
(* HidReports is implemented                                               *)
(***************************************************************************)
LEMMA ReportsInit == Init => Reports!Init
BY DEF Init, Reports!Init, Nothing, Reports!Nothing

\* A report that the callback queues arrives, and the oldest goes at the limit.
LEMMA QueueReportArrives ==
    ASSUME TypeOK, QueueReport
    PROVE  Reports!Arrive
<1>1. Len(Append(input_reports, received + 1)) = Len(input_reports) + 1
  BY DEF TypeOK, ListType
<1>2. DropsOldest(Len(input_reports) - 1)
        <=> Len(Append(input_reports, received + 1)) > QueueLimit + 2
  BY <1>1, LibusbAssumption DEF TypeOK, ListType, DropsOldest
<1> QED
  BY <1>2 DEF QueueReport, Reports!Arrive, hostVars, flagVars

\* A read that looks at the list takes the oldest report, fails only when there
\* is none and the thread is shut down, or goes on.
LEMMA ReadCheckReports ==
    ASSUME TypeOK, ReadCheck
    PROVE  Reports!Take \/ Reports!Fail \/ Reports!GiveUp \/ UNCHANGED Reports!vars
<1> USE DEF ReadCheck, ReadReturns, flagVars, Nothing, Error, Reports!Nothing, Reports!Error
<1>1. CASE input_reports # <<>>
  BY <1>1 DEF Reports!Take
<1>2. CASE input_reports = <<>> /\ shutdown_thread
  BY <1>2 DEF Reports!Fail
<1>3. CASE input_reports = <<>> /\ ~shutdown_thread /\ mode = "poll"
  BY <1>3 DEF Reports!GiveUp
<1>4. CASE input_reports = <<>> /\ ~shutdown_thread /\ mode # "poll"
  BY <1>4 DEF Reports!vars
<1> QED
  BY <1>1, <1>2, <1>3, <1>4

\* Every step of the backend is one of HidReports, or nothing a caller sees.
LEMMA ReportsStep == LibusbInv /\ [Next]_vars => [Reports!Next]_Reports!vars
<1> SUFFICES ASSUME LibusbInv, [Next]_vars
             PROVE  Reports!Next \/ UNCHANGED Reports!vars
  OBVIOUS
<1> USE DEF Reports!vars, hostVars, flagVars, queueVars, rtVars, lockVars
<1>1. CASE FirstSubmit \/ LoopTest \/ HandleEvents \/ CancelOwn \/ WakeReaders \/ NothingQueued
  BY <1>1 DEF FirstSubmit, LoopTest, HandleEvents, CancelOwn, WakeReaders, NothingQueued
<1>2. CASE Barrier
  BY <1>2 DEF Barrier
<1>3. CASE QueueReport
  BY <1>3, QueueReportArrives DEF LibusbInv, Reports!Next
<1>4. CASE TransferEnds \/ Resubmit
  BY <1>4 DEF TransferEnds, Resubmit, Reports!Next, Reports!Lose
<1>5. ASSUME NEW m \in {"block", "timed", "poll"}, ReadCall(m)
      PROVE  Reports!Next
  BY <1>5 DEF ReadCall, Reports!Next, Reports!Call, Nothing, Reports!Nothing
<1>6. CASE ReadLock \/ ReadSleep
  BY <1>6 DEF ReadLock, ReadSleep
<1>7. CASE ReadCheck
  BY <1>7, ReadCheckReports DEF LibusbInv, Reports!Next
<1>8. CASE ReadTimesOut
  BY <1>8 DEF ReadTimesOut, Reports!Next, Reports!GiveUp, Nothing, Reports!Nothing
<1>9. CASE CloseBegins
  BY <1>9 DEF CloseBegins, Reports!Next, Reports!Lose
<1>10. CASE CloseCancels
  BY <1>10 DEF CloseCancels
<1>11. CASE CloseFrees
  BY <1>11 DEF CloseFrees, LibusbInv, CloseInv, Reports!Next, Reports!Close
<1>12. ASSUME NEW o \in Outcomes \ {"cancelled"}, TransferOutcome(o)
       PROVE  UNCHANGED Reports!vars
  BY <1>12 DEF TransferOutcome
<1>13. CASE Unplug \/ SpuriousWakeup
  BY <1>13 DEF Unplug, SpuriousWakeup
<1>14. CASE UNCHANGED vars
  BY <1>14 DEF vars
<1> QED
  BY <1>1, <1>2, <1>3, <1>4, <1>5, <1>6, <1>7, <1>8, <1>9, <1>10, <1>11, <1>12,
     <1>13, <1>14 DEF Next, ReadThread, HostThread

\* What a caller sees of the list of reports is what HidReports promises: their
\* order, no loss below the limit, no error while a report waits.
THEOREM LibusbImplementsReports == Spec => ReportsSafety
<1>1. Spec => []LibusbInv
  BY LibusbInvariant
<1> QED
  BY <1>1, ReportsInit, ReportsStep, PTL DEF Spec, ReportsSafety
=============================================================================
