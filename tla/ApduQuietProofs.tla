-------------------------- MODULE ApduQuietProofs --------------------------
(***************************************************************************)
(* What ApduExchange promises over a quiet line: the device sends nothing  *)
(* but the frames of its answers, and a report written to a device that is *)
(* there arrives.  It may still be unplugged at any moment, on a backend   *)
(* with error texts or without.  Then the only thing that can go wrong is  *)
(* the count: frame_io_apdu::exchange counts 64 bytes a report against an  *)
(* answer that came in pieces of 59.  Where the two counts agree on the    *)
(* number of reports no exchange is ever retried, so that each request is  *)
(* executed once and its answer is read to the end by the call it belongs  *)
(* to, whatever the commands and however many calls follow one another.    *)
(***************************************************************************)
EXTENDS ApduExchangeProofs

Quiet == MaxJunk = 0 /\ ~LossyWrites

\* The loop of frame_io_apdu.cpp:50 reads as many reports of an answer of t
\* bytes as the device cut it into.
CountsAgree(t) == (t + FrameSize - 1) \div FrameSize = (t + DataSize - 1) \div DataSize

LengthsAgree == \A c \in Cmds : CountsAgree(Len(Payload[c]) + 4)
TwoFrames    == \A c \in Cmds : Len(Payload[c]) + 4 <= 2 * DataSize

-----------------------------------------------------------------------------
(***************************************************************************)
(* The invariant.                                                          *)
(***************************************************************************)
Nothing == rx = <<>> /\ emit = <<>> /\ pending = <<>>

\* A handle that is dead stays so: without a retry nothing opens another.
LineInv ==
    /\ m_valid /\ m_dev \in {"open", "dead"}
    /\ m_dev = "open" => plugged
    /\ m_dev = "dead" => pending = <<>> /\ emit = <<>> /\ MaxUnplugs # 0
    /\ pc \in {"idle", "attempt", "write", "read", "stuck"}
    /\ out.kind # "none" => pc = "idle"
    /\ pc = "write" /\ m_dev = "open" => delivered
    /\ pc = "stuck" => m_dev = "dead"

\* While a call is read the device holds its request;
Waiting ==
    /\ m_dev = "open" /\ pending = <<Request(call, cmd)>> /\ rx = <<>> /\ emit = <<>>
    /\ buffer = <<>> /\ respLen = NotRead /\ m_offset = 0 /\ rn = 0

\* or its answer is cut into the buffer, the queue and what the device has yet
\* to send, in this order; the end is missing if the device is gone;
WritePos(i) == IF i = 1 THEN 0 ELSE FrameSize * (i - 1) - HeaderSize

FramesFrom(q, a, k) ==
    \A i \in 1 .. Len(q) : q[i] = [kind |-> "answer", ans |-> a, seq |-> k + i - 1]

Written(a) ==
    \A i \in 1 .. Len(buffer) :
        buffer[i] = [pos |-> WritePos(i), ans |-> a, seq |-> i - 1]

Counted(a) ==
    /\ rn = FrameSize * Len(buffer) /\ m_offset = FrameSize * Len(buffer)
    /\ respLen = IF buffer = <<>> THEN NotRead ELSE AnswerTotal(a)

Complete(a) ==
    LET n == Len(buffer) + Len(rx) + Len(emit)
    IN  n <= FrameCount(a) /\ (m_dev = "open" => n = FrameCount(a))

Arriving(a) ==
    /\ a.call = call /\ a.cmd = cmd /\ pending = <<>>
    /\ Complete(a) /\ Written(a) /\ Counted(a)
    /\ FramesFrom(rx, a, Len(buffer))
    /\ FramesFrom(emit, a, Len(buffer) + Len(rx))

\* or the device is gone, and what came before is all there will be.
Partly(a) ==
    /\ a.call = call /\ a.cmd = cmd
    /\ Written(a) /\ Len(buffer) <= FrameCount(a) /\ respLen = AnswerTotal(a)

Lost ==
    /\ m_dev = "dead" /\ Nothing
    /\ buffer = <<>> \/ \E a \in served : Partly(a)

TransferInv ==
    /\ pc \notin {"read", "stuck"} =>
         /\ Nothing /\ buffer = <<>> /\ respLen = NotRead
         /\ m_dev = "open" => m_offset = 0 /\ rn = 0
    /\ pc = "read" => Waiting \/ Lost \/ \E a \in served : Arriving(a)

\* A request the device has not executed is executed for the first time.
ServedInv ==
    /\ \A a \in served : a.call <= call
    /\ pc \in {"attempt", "write"} \/ pending # <<>> => \A a \in served : a.call # call

QuietInv == LineInv /\ TransferInv /\ ServedInv

-----------------------------------------------------------------------------
(***************************************************************************)
(* Lemmas about lengths and the buffer.                                    *)
(***************************************************************************)
\* When the reports counted reach the length, they are all the device sent.
LEMMA AllReportsRead ==
    ASSUME LengthsAgree, NEW a \in AnswerType, NEW n \in Nat,
           FrameSize * n >= AnswerTotal(a)
    PROVE  n >= FrameCount(a)
<1>1. PICK t \in Nat : t = AnswerTotal(a) /\ t >= 4 /\ t <= 260
  BY AnswerLengths
<1>2. CountsAgree(t)
  <2>1. CASE a.ok
    <3>1. a.cmd \in Cmds /\ Len(Payload[a.cmd]) = t - 4
      BY <1>1, <2>1, AnswerLengths DEF AnswerType, AnswerPayload
    <3>2. Len(Payload[a.cmd]) + 4 = t
      BY <1>1, <3>1
    <3> QED
      BY <3>1, <3>2 DEF LengthsAgree
  <2>2. CASE ~a.ok
    <3>1. t = 4
      BY <1>1, <2>2, AnswerLengths
    <3> QED
      BY <3>1 DEF CountsAgree, FrameSize, DataSize, HeaderSize
  <2> QED
    BY <2>1, <2>2
<1>3. FrameCount(a) = (t + 58) \div 59 /\ (t + 58) \div 59 = (t + 63) \div 64 /\ 64 * n >= t
  BY <1>1, <1>2 DEF FrameCount, CountsAgree, FrameSize, DataSize, HeaderSize
<1> QED
  BY <1>1, <1>3

\* A buffer that holds all the frames is as long as the answer says: what
\* take_range asks for is there.
LEMMA BufferLongEnough ==
    ASSUME NEW a \in AnswerType, buffer \in Seq(WriteType),
           Written(a), Len(buffer) = FrameCount(a)
    PROVE  BufferSize(buffer) \in Nat /\ AnswerTotal(a) <= BufferSize(buffer)
<1>1. PICK t \in Nat : t = AnswerTotal(a) /\ t >= 4 /\ t <= 260
  BY AnswerLengths
<1>2. PICK n \in Nat : n = Len(buffer) /\ n >= 1
  BY AnswerLengths
<1>3. t <= 59 * n
  BY <1>1, <1>2 DEF FrameCount, FrameSize, DataSize, HeaderSize
<1>4. \A i \in 1 .. n : buffer[i].pos = IF i = 1 THEN 0 ELSE 64 * (i - 1) - 5
  BY <1>2 DEF Written, WritePos, FrameSize, HeaderSize
<1> DEFINE ends == {255} \cup {buffer[i].pos + DataSize : i \in DOMAIN buffer}
<1>5. DOMAIN buffer = 1 .. n
  BY <1>2
<1>6. \A f \in ends : f = 255 \/ f = 59 \/ \E i \in 2 .. n : f = 64 * i - 10
  <2>1. ASSUME NEW i \in 1 .. n
        PROVE  LET f == buffer[i].pos + DataSize
               IN  f = 59 \/ \E j \in 2 .. n : f = 64 * j - 10
    BY <1>4 DEF DataSize, FrameSize, HeaderSize
  <2> QED
    BY <1>5, <2>1
<1>7. ASSUME NEW i \in 1 .. n, i >= 2 PROVE 64 * i - 10 \in ends
  <2>1. buffer[i].pos + DataSize = 64 * i - 10
    BY <1>4, <1>7 DEF DataSize, FrameSize, HeaderSize
  <2> QED
    BY <1>5, <2>1
<1>8. \E e \in ends : \A f \in ends : f <= e
  <2>1. CASE n >= 5
    <3>1. 64 * n - 10 \in ends
      BY <1>2, <1>7, <2>1
    <3>2. \A f \in ends : f <= 64 * n - 10
      BY <1>2, <1>6, <2>1
    <3> QED
      BY <3>1, <3>2
  <2>2. CASE n < 5
    <3>1. \A f \in ends : f <= 255
      BY <1>2, <1>6, <2>2
    <3> QED
      BY <3>1
  <2> QED
    BY <1>2, <2>1, <2>2
<1>9. BufferSize(buffer) \in ends /\ \A f \in ends : f <= BufferSize(buffer)
  BY <1>8 DEF BufferSize
<1>10. 255 \in ends
  OBVIOUS
<1> HIDE DEF ends
<1>11. PICK b \in Nat : b = BufferSize(buffer) /\ \A f \in ends : f <= b
  <2>1. BufferSize(buffer) \in Nat
    BY <1>6, <1>9
  <2> QED
    BY <1>9, <2>1
<1>12. CASE n >= 2
  <2>1. 64 * n - 10 <= b
    BY <1>2, <1>7, <1>11, <1>12
  <2> QED
    BY <1>1, <1>2, <1>3, <1>11, <1>12, <2>1
<1>13. CASE n = 1
  <2>1. 255 <= b
    BY <1>10, <1>11
  <2> QED
    BY <1>1, <1>3, <1>11, <1>13, <2>1
<1> QED
  BY <1>1, <1>2, <1>12, <1>13

-----------------------------------------------------------------------------
(***************************************************************************)
(* The steps.                                                              *)
(***************************************************************************)
-----------------------------------------------------------------------------
(***************************************************************************)
(* The steps.                                                              *)
(***************************************************************************)
\* Over a quiet line what is in the queue is the next frame of the answer.
LEMMA NextIsExpected ==
    ASSUME TypeOK, BufferInv, QuietInv, WantsFrame, rx # <<>>
    PROVE  \E a \in served :
               Arriving(a) /\ Head(rx) = [kind |-> "answer", ans |-> a, seq |-> m_seq]
<1>1. pc = "read" /\ m_seq = Len(buffer)
  BY DEF WantsFrame, BufferInv
<1>2. PICK a \in served : Arriving(a)
  BY <1>1 DEF QuietInv, TransferInv, Waiting, Lost, Nothing
<1>3. rx \in Reports
  BY DEF TypeOK, QueueType, Reports
<1>4. Head(rx) = rx[1] /\ 1 \in 1 .. Len(rx)
  <2>1. Head(rx) = rx[1] /\ Len(rx) \in Nat
    BY <1>3, TailReports
  <2>2. Len(rx) # 0
    BY <1>3, EmptySeq DEF Reports
  <2> QED
    BY <2>1, <2>2
<1>5. Len(buffer) \in Nat
  BY DEF TypeOK, BufferType
<1>6. rx[1] = [kind |-> "answer", ans |-> a, seq |-> Len(buffer) + 1 - 1]
  BY <1>2, <1>4 DEF Arriving, FramesFrom
<1>7. Len(buffer) + 1 - 1 = m_seq
  BY <1>1, <1>5
<1> QED
  BY <1>2, <1>4, <1>6, <1>7

\* So that no exchange is given up.
LEMMA NoRetry ==
    ASSUME TypeOK, BufferInv, QuietInv
    PROVE  ~(ShortReport \/ RejectHeader \/ WrongSeqno)
<1>1. ASSUME NextReport PROVE Head(rx).kind = "answer" /\ Head(rx).seq = m_seq
  <2>1. PICK a \in served : Head(rx) = [kind |-> "answer", ans |-> a, seq |-> m_seq]
    BY <1>1, NextIsExpected DEF NextReport
  <2> QED
    BY <2>1
<1> QED
  BY <1>1 DEF ShortReport, RejectHeader, WrongSeqno

\* The loop of frame_io_apdu.cpp:50 ends with the last frame of the answer.
LEMMA FinishHasAll ==
    ASSUME LengthsAgree, TypeOK, Finish, NEW a \in served, Arriving(a)
    PROVE  /\ Len(buffer) = FrameCount(a) /\ respLen = AnswerTotal(a) /\ Nothing
           /\ Return("reply", Num16(buffer, respLen - 2), respLen, buffer)
           /\ m_offset' = 0 /\ rn' = 0
<1>1. pc = "read" /\ respLen # NotRead /\ ~WantsMore
  BY DEF Finish
<1>2. a \in AnswerType
  BY DEF TypeOK, DeviceType
<1>3. PICK t \in Nat : t = AnswerTotal(a) /\ t >= 4 /\ respLen = t
  BY <1>1, <1>2, AnswerLengths DEF Arriving, Counted
<1>4. PICK n \in Nat : n = Len(buffer) /\ rn = FrameSize * n
  BY DEF TypeOK, BufferType, Arriving, Counted
<1>5. PICK l \in Nat : l = Len(rx)
  BY DEF TypeOK, QueueType
<1>6. PICK e \in Nat : e = Len(emit)
  BY DEF TypeOK, QueueType
<1>7. FrameSize * n >= t
  BY <1>1, <1>3, <1>4 DEF WantsMore, FrameSize
<1>8. n >= FrameCount(a)
  BY <1>2, <1>3, <1>7, AllReportsRead
<1>9. n = FrameCount(a) /\ l = 0 /\ e = 0
  BY <1>2, <1>4, <1>5, <1>6, <1>8, AnswerLengths DEF Arriving, Complete
<1>10. rx = <<>> /\ emit = <<>> /\ pending = <<>>
  BY <1>5, <1>6, <1>9, EmptySeq DEF TypeOK, QueueType, Arriving
<1>11. PICK b \in Nat : b = BufferSize(buffer) /\ t <= b
  <2>1. buffer \in Seq(WriteType) /\ Written(a)
    BY DEF TypeOK, BufferType, Arriving
  <2> QED
    BY <1>2, <1>3, <1>4, <1>9, <2>1, BufferLongEnough
<1>12. ~(respLen < 4)
  BY <1>3
<1>13. ~(respLen > BufferSize(buffer))
  BY <1>3, <1>11
<1> QED
  BY <1>3, <1>4, <1>9, <1>10, <1>12, <1>13 DEF Finish, Nothing

\* The line stays what it is; a read that fails finds the device gone.
LEMMA LineStep ==
    ASSUME ~LossyWrites, LengthsAgree, TypeOK, BufferInv, QuietInv, [Next]_vars
    PROVE  LineInv'
<1> USE DEF LineInv
<1>0. LineInv /\ ~(ShortReport \/ RejectHeader \/ WrongSeqno)
  BY NoRetry DEF QuietInv
<1>1. ASSUME NEW c \in Cmds, BeginCall(c) PROVE LineInv'
  BY <1>0, <1>1 DEF BeginCall, NoOut, localVars, deviceVars
<1>2. CASE NoHandle \/ CloseForRetry \/ ReopenForRetry
  BY <1>0, <1>2 DEF NoHandle, HasHandle, CloseForRetry, ReopenForRetry
<1>3. CASE Attempt
  BY <1>0, <1>3 DEF Attempt, deviceVars
<1>4. CASE WriteFrame
  <2>1. m_dev = "dead" => pending' = pending
    <3>1. m_dev = "dead" => ~delivered'
      BY <1>4 DEF WriteFrame
    <3> QED
      BY <1>4, <3>1 DEF WriteFrame
  <2>2. m_dev = "open" => delivered'
    BY <1>0, <1>4 DEF WriteFrame
  <2>3. pc' \in {"write", "read"} /\ pc = "write"
    BY <1>4 DEF WriteFrame
  <2> QED
    BY <1>0, <1>4, <2>1, <2>2, <2>3 DEF WriteFrame
<1>5. CASE AcceptFrame
  BY <1>0, <1>5 DEF AcceptFrame, NextReport, WantsFrame, deviceVars
<1>6. CASE ReadError
  BY <1>0, <1>6 DEF ReadError, WantsFrame, deviceVars
<1>7. CASE Finish
  BY <1>0, <1>7 DEF Finish, Return, deviceVars
<1>8. ASSUME NEW ok \in BOOLEAN, Execute(ok) PROVE LineInv'
  BY <1>0, <1>8 DEF Execute, hostVars, localVars
<1>9. CASE EmitFrame
  BY <1>0, <1>9 DEF EmitFrame, hostVars, localVars
<1>10. ASSUME NEW k \in JunkKinds, StrangeData(k) PROVE LineInv'
  BY <1>0, <1>10 DEF StrangeData, hostVars, localVars
<1>11. CASE Unplug
  <2>1. MaxUnplugs # 0
    BY <1>11 DEF Unplug, TypeOK, DeviceType
  <2> QED
    BY <1>0, <1>11, <2>1 DEF Unplug, localVars
<1>12. CASE Plug
  BY <1>0, <1>12 DEF Plug, hostVars, localVars
<1>13. CASE UNCHANGED vars
  BY <1>0, <1>13 DEF vars, hostVars, localVars, deviceVars
<1> QED
  BY <1>0, <1>1, <1>2, <1>3, <1>4, <1>5, <1>6, <1>7, <1>8, <1>9, <1>10, <1>11, <1>12, <1>13
     DEF Next, HostStep, DeviceStep

\* A frame accepted moves from the queue to the buffer.
LEMMA ArrivingAccept ==
    ASSUME TypeOK, BufferInv, QuietInv, AcceptFrame
    PROVE  \E a \in served : Arriving(a)'
<1>1. WantsFrame /\ rx # <<>> /\ rx' = Tail(rx) /\ rx \in Reports
  BY DEF AcceptFrame, NextReport, TypeOK, QueueType, Reports
<1>2. PICK a \in served :
        Arriving(a) /\ Head(rx) = [kind |-> "answer", ans |-> a, seq |-> m_seq]
  BY <1>1, NextIsExpected
<1>3. a \in AnswerType
  BY DEF TypeOK, DeviceType
<1>4. PICK n \in Nat : n = Len(buffer) /\ buffer \in Seq(WriteType) /\ m_seq = n
  BY <1>1 DEF TypeOK, BufferType, WantsFrame, BufferInv
<1>5. PICK l \in Nat : /\ l = Len(rx) /\ l >= 1 /\ Len(rx') = l - 1
                       /\ \A i \in 1 .. l - 1 : rx'[i] = rx[i + 1]
  <2>1. Len(rx) \in Nat /\ Len(rx) # 0
    BY <1>1, EmptySeq DEF Reports
  <2> QED
    BY <1>1, <2>1, TailReports
<1>6. PICK e \in Nat : e = Len(emit)
  BY DEF TypeOK, QueueType
<1> DEFINE w == [pos |-> NextPos, ans |-> a, seq |-> n]
<1>7. buffer' = Append(buffer, w)
  BY <1>2, <1>4 DEF AcceptFrame
<1>8. /\ call' = call /\ cmd' = cmd /\ pending' = pending /\ emit' = emit
      /\ m_offset' = m_offset + 64 /\ rn' = rn + 59 + 5 /\ CountRead(DataSize)
  BY DEF AcceptFrame, NextOffset, CountRead, FrameSize, DataSize, HeaderSize, deviceVars
<1>9. m_offset = 64 * n /\ rn = 64 * n
  BY <1>2, <1>4 DEF Arriving, Counted, FrameSize
<1>10. NextPos = WritePos(n + 1) /\ NextPos \in Nat
  <2>1. CASE n = 0
    BY <1>4, <2>1 DEF NextPos, WritePos
  <2>2. CASE n # 0
    BY <1>4, <1>9, <2>2 DEF NextPos, WritePos, FrameSize, HeaderSize
  <2> QED
    BY <2>1, <2>2
<1>11. w \in WriteType
  BY <1>3, <1>4, <1>10 DEF WriteType
<1>12. w = [pos |-> WritePos(n + 1), ans |-> a, seq |-> (n + 1) - 1]
  BY <1>4, <1>10
<1>13. w.pos = NextPos /\ w.ans = a /\ w.seq = n
  OBVIOUS
<1> HIDE DEF w
<1>14. /\ Len(buffer') = n + 1 /\ buffer'[n + 1] = w /\ buffer' \in Seq(WriteType)
       /\ \A i \in 1 .. n : buffer'[i] = buffer[i]
  BY <1>4, <1>7, <1>11, AppendProperties
<1>15. Written(a)'
  <2> SUFFICES ASSUME NEW i \in 1 .. n + 1
               PROVE  buffer'[i] = [pos |-> WritePos(i), ans |-> a, seq |-> i - 1]
    BY <1>4, <1>14 DEF Written, WritePos
  <2>1. CASE i = n + 1
    BY <1>12, <1>14, <2>1
  <2>2. CASE i # n + 1
    <3>1. i \in 1 .. n
      BY <2>2
    <3> QED
      BY <1>2, <1>4, <1>14, <3>1 DEF Arriving, Written
  <2> QED
    BY <2>1, <2>2
<1>16. buffer' # <<>>
  BY <1>14
<1>17. respLen' = AnswerTotal(a)
  <2>1. CASE n = 0
    <3>1. buffer = <<>> /\ respLen = NotRead
      <4>1. buffer = <<>>
        BY <1>4, <2>1, EmptySeq
      <4> QED
        BY <1>2, <4>1 DEF Arriving, Counted
    <3>2. buffer' = <<w>>
      BY <1>7, <3>1
    <3>3. w.pos = 0 /\ w.seq = 0
      BY <1>10, <1>13, <2>1 DEF WritePos
    <3> QED
      BY <1>8, <1>11, <1>13, <3>1, <3>2, <3>3, LengthPrefix DEF CountRead
  <2>2. CASE n # 0
    <3>1. buffer # <<>>
      BY <1>4, <2>2
    <3>2. respLen = AnswerTotal(a) /\ respLen # NotRead
      BY <1>2, <1>3, <3>1, AnswerLengths DEF Arriving, Counted, NotRead
    <3> QED
      BY <1>8, <3>2 DEF CountRead
  <2> QED
    BY <2>1, <2>2
<1>18. Counted(a)'
  <2>1. rn' = 64 * (n + 1) /\ m_offset' = 64 * (n + 1)
    BY <1>8, <1>9
  <2> QED
    BY <1>14, <1>16, <1>17, <2>1 DEF Counted, FrameSize, AnswerTotal, AnswerLength, AnswerPayload
<1>19. FramesFrom(rx', a, n + 1)
  <2> SUFFICES ASSUME NEW i \in 1 .. l - 1
               PROVE  rx'[i] = [kind |-> "answer", ans |-> a, seq |-> n + 1 + i - 1]
    BY <1>5 DEF FramesFrom
  <2>1. i + 1 \in 1 .. Len(rx)
    BY <1>5
  <2>2. rx[i + 1] = [kind |-> "answer", ans |-> a, seq |-> n + (i + 1) - 1]
    BY <1>2, <1>4, <2>1 DEF Arriving, FramesFrom
  <2>3. n + (i + 1) - 1 = n + 1 + i - 1
    OBVIOUS
  <2> QED
    BY <1>5, <2>2, <2>3
<1>20. FramesFrom(emit', a, (n + 1) + (l - 1))
  <2>1. FramesFrom(emit, a, n + l)
    BY <1>2, <1>4, <1>5 DEF Arriving
  <2>2. (n + 1) + (l - 1) = n + l
    OBVIOUS
  <2> QED
    BY <1>8, <2>1, <2>2
<1>21. Complete(a)'
  <2>1. (n + 1) + (l - 1) + e = n + l + e
    OBVIOUS
  <2>2. m_dev' = m_dev
    BY DEF AcceptFrame
  <2>3. Complete(a) /\ Len(buffer') + Len(rx') + Len(emit') = n + l + e
    BY <1>2, <1>5, <1>6, <1>8, <1>14, <2>1 DEF Arriving
  <2> QED
    BY <1>4, <1>5, <1>6, <2>2, <2>3 DEF Complete, FrameCount, AnswerTotal, AnswerLength,
       AnswerPayload
<1> QED
  BY <1>2, <1>5, <1>8, <1>14, <1>15, <1>18, <1>19, <1>20, <1>21 DEF Arriving, FramesFrom

\* The device cuts the answer to the request it holds into its frames.
LEMMA ArrivingExecute ==
    ASSUME TypeOK, NEW ok \in BOOLEAN, Execute(ok), Waiting
    PROVE  \E a \in served' : Arriving(a)'
<1>0. PICK a : a = Answer(Head(pending), ok)
  OBVIOUS
<1>1. a.call = call /\ a.cmd = cmd /\ a \in AnswerType
  <2>1. Head(pending) = Request(call, cmd) /\ Head(pending) \in RequestType
    BY DEF Waiting, Execute, TypeOK, DeviceType
  <2> QED
    BY <1>0, <2>1 DEF Answer, Request, AnswerType, RequestType
<1>2. pending' = <<>>
  BY DEF Execute, Waiting
<1>3. /\ emit' = Frames(a) /\ a \in served' /\ rx' = <<>>
      /\ call' = call /\ cmd' = cmd /\ buffer' = <<>> /\ respLen' = NotRead
      /\ rn' = 0 /\ m_offset' = 0
  BY <1>0 DEF Execute, Waiting, hostVars, framerVars, localVars
<1>4. FramesFrom(emit', a, 0)
  BY <1>1, <1>3, FramesType DEF FramesFrom
<1>5. Len(emit') = FrameCount(a) /\ Len(buffer') = 0 /\ Len(rx') = 0
  <2>1. FrameCount(a) \in Nat
    BY <1>1, AnswerLengths
  <2> QED
    BY <1>3, <2>1 DEF Frames
<1>6. Counted(a)' /\ Written(a)' /\ FramesFrom(rx', a, 0)
  BY <1>3, <1>5 DEF Counted, Written, FramesFrom, FrameSize
<1>7. Complete(a)'
  <2>1. FrameCount(a) \in Nat
    BY <1>1, AnswerLengths
  <2> QED
    BY <1>5, <2>1 DEF Complete, FrameCount, AnswerTotal, AnswerLength, AnswerPayload
<1> QED
  BY <1>1, <1>2, <1>3, <1>4, <1>5, <1>6, <1>7 DEF Arriving

\* A frame sent moves from the device to the queue.
LEMMA ArrivingEmit ==
    ASSUME TypeOK, m_dev = "open", EmitFrame, NEW a \in served, Arriving(a)
    PROVE  Arriving(a)'
<1>1. /\ rx' = Append(rx, Head(emit)) /\ emit' = Tail(emit) /\ emit # <<>>
      /\ rx \in Reports /\ emit \in Seq(FrameType)
  BY DEF EmitFrame, TypeOK, QueueType, Reports
<1>2. PICK l \in Nat : l = Len(rx)
  BY <1>1 DEF Reports
<1>3. PICK e \in Nat : /\ e = Len(emit) /\ e >= 1 /\ Len(emit') = e - 1 /\ Head(emit) = emit[1]
                       /\ \A i \in 1 .. e - 1 : emit'[i] = emit[i + 1]
  <2>1. Len(emit) \in Nat /\ Len(emit) # 0
    BY <1>1, EmptySeq
  <2> QED
    BY <1>1, <2>1, HeadTailProperties
<1>4. Head(emit) \in FrameType \cup JunkType
  BY <1>1
<1>5. /\ Len(rx') = l + 1 /\ rx'[l + 1] = emit[1]
      /\ \A i \in 1 .. l : rx'[i] = rx[i]
  BY <1>1, <1>2, <1>3, <1>4, AppendReports
<1>6. PICK n \in Nat : n = Len(buffer)
  BY DEF TypeOK, BufferType
<1>7. \A i \in 1 .. e : emit[i] = [kind |-> "answer", ans |-> a, seq |-> n + l + i - 1]
  BY <1>2, <1>3, <1>6 DEF Arriving, FramesFrom
<1>8. FramesFrom(rx', a, n)
  <2> SUFFICES ASSUME NEW i \in 1 .. l + 1
               PROVE  rx'[i] = [kind |-> "answer", ans |-> a, seq |-> n + i - 1]
    BY <1>5 DEF FramesFrom
  <2>1. CASE i = l + 1
    <3>1. emit[1] = [kind |-> "answer", ans |-> a, seq |-> n + l + 1 - 1]
      BY <1>3, <1>7
    <3>2. n + l + 1 - 1 = n + i - 1
      BY <2>1
    <3> QED
      BY <1>5, <2>1, <3>1, <3>2
  <2>2. CASE i # l + 1
    <3>1. i \in 1 .. Len(rx)
      BY <1>2, <2>2
    <3> QED
      BY <1>2, <1>5, <1>6, <3>1 DEF Arriving, FramesFrom
  <2> QED
    BY <2>1, <2>2
<1>9. FramesFrom(emit', a, n + (l + 1))
  <2> SUFFICES ASSUME NEW i \in 1 .. e - 1
               PROVE  emit'[i] = [kind |-> "answer", ans |-> a, seq |-> n + (l + 1) + i - 1]
    BY <1>3 DEF FramesFrom
  <2>1. emit[i + 1] = [kind |-> "answer", ans |-> a, seq |-> n + l + (i + 1) - 1]
    BY <1>3, <1>7
  <2>2. n + l + (i + 1) - 1 = n + (l + 1) + i - 1
    OBVIOUS
  <2> QED
    BY <1>3, <2>1, <2>2
<1>10. n + (l + 1) + (e - 1) = n + l + e /\ Complete(a)
  BY DEF Arriving
<1>11. UNCHANGED <<call, cmd, buffer, respLen, rn, m_offset, pending, m_dev>>
  BY DEF EmitFrame, hostVars, framerVars, localVars
<1>12. Complete(a)'
  BY <1>2, <1>3, <1>5, <1>6, <1>10, <1>11 DEF Complete, FrameCount, AnswerTotal, AnswerLength,
     AnswerPayload
<1> QED
  BY <1>3, <1>5, <1>6, <1>8, <1>9, <1>11, <1>12 DEF Arriving, Written, Counted, WritePos,
     FrameCount, AnswerTotal, AnswerLength, AnswerPayload

\* A read that fails gives up what has not come.
LEMMA ReadErrorStep ==
    ASSUME TypeOK, QuietInv, ReadError
    PROVE  TransferInv'
<1> USE DEF TransferInv
<1>1. /\ pc = "read" /\ rx = <<>> /\ m_dev = "dead" /\ pending = <<>> /\ emit = <<>>
      /\ TransferInv
  BY DEF ReadError, WantsFrame, QuietInv, LineInv
<1>2. UNCHANGED <<call, cmd, buffer, rx, emit, pending, served, m_dev>>
  BY DEF ReadError, deviceVars
<1>3. pc' \in {"read", "stuck"} /\ (respLen # NotRead => respLen' = respLen)
  BY <1>1 DEF ReadError, CountRead
<1>4. buffer # <<>> => \E a \in served : Partly(a)
  <2>1. ASSUME NEW a \in served, Arriving(a), buffer # <<>> PROVE Partly(a)
    <3>1. PICK n \in Nat : n = Len(buffer)
      BY DEF TypeOK, BufferType
    <3>2. n + 0 + 0 <= FrameCount(a)
      BY <1>1, <2>1, <3>1 DEF Arriving, Complete
    <3>3. n <= FrameCount(a)
      BY <3>1, <3>2
    <3> QED
      BY <2>1, <3>1, <3>3 DEF Arriving, Counted, Partly
  <2> QED
    BY <1>1, <2>1 DEF Waiting, Lost
<1>5. buffer # <<>> => \E a \in served : Partly(a)'
  <2>1. ASSUME NEW a \in served, Partly(a) PROVE Partly(a)'
    <3>1. a \in AnswerType
      BY DEF TypeOK, DeviceType
    <3>2. respLen # NotRead
      BY <2>1, <3>1, AnswerLengths DEF Partly, NotRead
    <3> QED
      BY <1>2, <1>3, <2>1, <3>2 DEF Partly, Written, WritePos, FrameCount, AnswerTotal,
         AnswerLength, AnswerPayload
  <2> QED
    BY <1>4, <2>1
<1> QED
  BY <1>1, <1>2, <1>3, <1>5 DEF Lost, Nothing

\* The device takes what it holds with it; what arrived can still be read.
LEMMA UnplugStep ==
    ASSUME TypeOK, QuietInv, Unplug
    PROVE  TransferInv'
<1> USE DEF TransferInv
<1>1. LineInv /\ TransferInv
  BY DEF QuietInv
<1>2. /\ m_dev' = "dead" /\ pending' = <<>> /\ emit' = <<>>
      /\ UNCHANGED <<pc, call, cmd, buffer, respLen, m_offset, rn, rx, served>>
  BY <1>1 DEF Unplug, LineInv, framerVars, localVars
<1>3. CASE pc # "read"
  BY <1>1, <1>2, <1>3 DEF Nothing
<1>4. CASE pc = "read" /\ Waiting
  BY <1>2, <1>4 DEF Waiting, Lost, Nothing
<1>5. CASE pc = "read" /\ Lost
  <2>1. ASSUME NEW a \in served, Partly(a) PROVE Partly(a)'
    BY <1>2, <2>1 DEF Partly, Written, WritePos, FrameCount, AnswerTotal, AnswerLength,
       AnswerPayload
  <2> QED
    BY <1>2, <1>5, <2>1 DEF Lost, Nothing
<1>6. ASSUME pc = "read", NEW a \in served, Arriving(a) PROVE Arriving(a)'
  <2>1. PICK n \in Nat : n = Len(buffer)
    BY DEF TypeOK, BufferType
  <2>2. PICK l \in Nat : l = Len(rx)
    BY DEF TypeOK, QueueType
  <2>3. PICK e \in Nat : e = Len(emit)
    BY DEF TypeOK, QueueType
  <2>4. a \in AnswerType /\ FrameCount(a) \in Nat
    BY AnswerLengths DEF TypeOK, DeviceType
  <2>5. n + l + e <= FrameCount(a)
    BY <1>6, <2>1, <2>2, <2>3 DEF Arriving, Complete
  <2>6. n + l + 0 <= FrameCount(a)
    BY <2>4, <2>5
  <2>7. Complete(a)'
    BY <1>2, <2>1, <2>2, <2>6 DEF Complete, FrameCount, AnswerTotal, AnswerLength,
       AnswerPayload
  <2>8. FramesFrom(emit', a, n + l) /\ FramesFrom(rx', a, n)
    BY <1>2, <1>6, <2>1 DEF FramesFrom, Arriving
  <2> QED
    BY <1>2, <1>6, <2>1, <2>2, <2>7, <2>8 DEF Arriving, Written, WritePos, Counted,
       AnswerTotal, AnswerLength, AnswerPayload
<1> QED
  BY <1>1, <1>2, <1>3, <1>4, <1>5, <1>6

\* A step that leaves the transfer alone.
LEMMA TransferKept ==
    ASSUME TransferInv, UNCHANGED <<pc, call, cmd, rx, emit, pending, buffer, respLen,
                                    m_offset, rn, served, m_dev>>
    PROVE  TransferInv'
<1> USE DEF TransferInv
<1>1. ASSUME NEW a \in served, Arriving(a) PROVE Arriving(a)'
  BY <1>1 DEF Arriving, Complete, Written, Counted, FramesFrom, WritePos, FrameCount,
     AnswerTotal, AnswerLength, AnswerPayload
<1>2. ASSUME NEW a \in served, Partly(a) PROVE Partly(a)'
  BY <1>2 DEF Partly, Written, WritePos, FrameCount, AnswerTotal, AnswerLength, AnswerPayload
<1>3. Waiting => Waiting'
  BY DEF Waiting, Request
<1>4. Lost => Lost'
  BY <1>2 DEF Lost, Nothing
<1> QED
  BY <1>1, <1>3, <1>4 DEF Nothing

\* Nothing is lost on the way from the request to the reply, unless the device
\* goes; and nothing is left behind.
LEMMA TransferStep ==
    ASSUME ~LossyWrites, LengthsAgree, TypeOK, BufferInv, QuietInv, [Next]_vars,
           ~\E k \in JunkKinds : StrangeData(k)
    PROVE  TransferInv'
<1> USE DEF TransferInv
<1>0. LineInv /\ TransferInv /\ ~(ShortReport \/ RejectHeader \/ WrongSeqno)
  BY NoRetry DEF QuietInv
<1>1. ASSUME NEW c \in Cmds, BeginCall(c) PROVE TransferInv'
  <2>1. pc' = "attempt" /\ pc = "idle"
    BY <1>0, <1>1 DEF BeginCall, LineInv
  <2> QED
    BY <1>0, <1>1, <2>1 DEF BeginCall, Nothing, framerVars, localVars, deviceVars
<1>2. CASE NoHandle \/ CloseForRetry \/ ReopenForRetry
  BY <1>0, <1>2 DEF NoHandle, HasHandle, CloseForRetry, ReopenForRetry, LineInv
<1>3. CASE Attempt
  BY <1>0, <1>3 DEF Attempt, Nothing, deviceVars
<1>4. CASE WriteFrame
  <2>1. /\ Nothing /\ buffer = <<>> /\ respLen = NotRead
        /\ m_dev = "open" => m_offset = 0 /\ rn = 0 /\ delivered
    BY <1>0, <1>4 DEF WriteFrame, LineInv
  <2>2. (m_dev = "open" => delivered') /\ (m_dev # "open" => ~delivered')
    BY <1>4, <2>1 DEF WriteFrame
  <2>3. UNCHANGED <<call, cmd, buffer, respLen, m_dev, m_offset, rn, rx, emit>>
    BY <1>4 DEF WriteFrame, framerVars
  <2>4. CASE cseq' < RequestChunks(cmd)
    <3>1. pc' = "write" /\ pending' = pending
      BY <1>4, <2>4 DEF WriteFrame
    <3> QED
      BY <2>1, <2>3, <3>1 DEF Nothing
  <2>5. CASE ~(cseq' < RequestChunks(cmd)) /\ m_dev = "open"
    <3>1. pc' = "read" /\ pending' = Append(pending, Request(call, cmd))
      BY <1>4, <2>2, <2>5 DEF WriteFrame
    <3>2. pending' = <<Request(call, cmd)>>
      BY <2>1, <3>1 DEF Nothing
    <3> QED
      BY <2>1, <2>3, <2>5, <3>1, <3>2 DEF Nothing, Waiting, Request
  <2>6. CASE ~(cseq' < RequestChunks(cmd)) /\ m_dev = "dead"
    <3>1. pc' = "read" /\ pending' = pending
      BY <1>4, <2>2, <2>6 DEF WriteFrame
    <3> QED
      BY <2>1, <2>3, <2>6, <3>1 DEF Nothing, Lost
  <2> QED
    BY <1>0, <2>4, <2>5, <2>6 DEF LineInv
<1>5. CASE AcceptFrame
  <2>1. pc' = "read" /\ served' = served
    BY <1>5 DEF AcceptFrame, NextReport, WantsFrame, deviceVars
  <2>2. PICK a \in served : Arriving(a)'
    BY <1>5, ArrivingAccept
  <2> QED
    BY <2>1, <2>2
<1>6. CASE ReadError
  BY <1>6, ReadErrorStep
<1>7. CASE Finish
  <2>1. /\ pc = "read" /\ respLen # NotRead /\ pc' = "idle"
        /\ buffer' = <<>> /\ respLen' = NotRead /\ UNCHANGED <<rx, emit, pending, m_dev>>
    BY <1>7 DEF Finish, Return, deviceVars
  <2>2. ASSUME NEW a \in served, Arriving(a) PROVE TransferInv'
    BY <1>7, <2>1, <2>2, FinishHasAll DEF Nothing
  <2>3. CASE Lost
    BY <2>1, <2>3 DEF Lost, Nothing
  <2> QED
    BY <1>0, <2>1, <2>2, <2>3 DEF Waiting
<1>8. ASSUME NEW ok \in BOOLEAN, Execute(ok) PROVE TransferInv'
  <2>1. pc = "read" /\ Waiting /\ pc' = pc
    BY <1>0, <1>8 DEF Execute, Nothing, Arriving, Lost, LineInv, hostVars
  <2> QED
    BY <1>8, <2>1, ArrivingExecute
<1>9. CASE EmitFrame
  <2>1. pc = "read" /\ m_dev = "open" /\ pc' = pc /\ served' = served /\ emit # <<>>
    BY <1>0, <1>9 DEF EmitFrame, Nothing, LineInv, hostVars
  <2>2. PICK a \in served : Arriving(a)
    BY <1>0, <2>1 DEF Waiting, Lost
  <2>3. Arriving(a)'
    BY <1>9, <2>1, <2>2, ArrivingEmit
  <2> QED
    BY <2>1, <2>3
<1>10. ~\E k \in JunkKinds : StrangeData(k)
  OBVIOUS
<1>11. CASE Unplug
  BY <1>11, UnplugStep
<1>12. CASE Plug \/ UNCHANGED vars
  BY <1>0, <1>12, TransferKept DEF Plug, vars, hostVars, framerVars, localVars, deviceVars
<1> QED
  BY <1>0, <1>1, <1>2, <1>3, <1>4, <1>5, <1>6, <1>7, <1>8, <1>9, <1>10, <1>11, <1>12
     DEF Next, HostStep, DeviceStep

\* Every request is executed once: none is sent again.
LEMMA ServedStep ==
    ASSUME LengthsAgree, TypeOK, BufferInv, QuietInv, [Next]_vars
    PROVE  ServedInv'
<1> USE DEF ServedInv
<1>0. LineInv /\ TransferInv /\ ServedInv /\ ~(ShortReport \/ RejectHeader \/ WrongSeqno)
  BY NoRetry DEF QuietInv
<1>1. call \in Nat /\ \A a \in served : a.call \in Nat
  BY ExchangeAssumption DEF TypeOK, CallType, DeviceType, AnswerType
<1>2. ASSUME NEW c \in Cmds, BeginCall(c) PROVE ServedInv'
  BY <1>0, <1>1, <1>2 DEF BeginCall, deviceVars
<1>3. CASE NoHandle \/ CloseForRetry \/ ReopenForRetry
  BY <1>0, <1>3 DEF NoHandle, HasHandle, CloseForRetry, ReopenForRetry, LineInv
<1>4. CASE Attempt
  BY <1>0, <1>4 DEF Attempt, deviceVars
<1>5. CASE WriteFrame
  BY <1>0, <1>5 DEF WriteFrame
<1>6. CASE AcceptFrame \/ ReadError
  BY <1>0, <1>6 DEF AcceptFrame, NextReport, ReadError, WantsFrame, deviceVars
<1>7. CASE Finish
  BY <1>0, <1>7 DEF Finish, Return, deviceVars
<1>8. ASSUME NEW ok \in BOOLEAN, Execute(ok) PROVE ServedInv'
  <2>1. pc = "read" /\ Waiting
    BY <1>0, <1>8 DEF Execute, Nothing, TransferInv, Arriving, Lost, LineInv
  <2>2. Head(pending) = Request(call, cmd) /\ pending' = <<>> /\ UNCHANGED <<pc, call>>
    BY <1>8, <2>1 DEF Waiting, Execute, hostVars
  <2>3. served' = served \cup {Answer(Request(call, cmd), ok)}
    BY <1>8, <2>2 DEF Execute
  <2>4. Answer(Request(call, cmd), ok).call = call
    BY DEF Answer, Request
  <2> QED
    BY <1>0, <1>1, <2>1, <2>2, <2>3, <2>4
<1>9. CASE EmitFrame
  BY <1>0, <1>9 DEF EmitFrame, hostVars
<1>10. ASSUME NEW k \in JunkKinds, StrangeData(k) PROVE ServedInv'
  BY <1>0, <1>10 DEF StrangeData, hostVars
<1>11. CASE Unplug \/ Plug \/ UNCHANGED vars
  BY <1>0, <1>11 DEF Unplug, Plug, vars, hostVars, deviceVars
<1> QED
  BY <1>0, <1>2, <1>3, <1>4, <1>5, <1>6, <1>7, <1>8, <1>9, <1>10, <1>11
     DEF Next, HostStep, DeviceStep

-----------------------------------------------------------------------------
(***************************************************************************)
(* What a call returns.                                                    *)
(***************************************************************************)
\* A buffer that holds the one or two frames of an answer holds its payload,
\* and its status word at the end.
LEMMA BufferIsAnswer ==
    ASSUME NEW a \in AnswerType, AnswerTotal(a) <= 2 * DataSize,
           buffer \in Seq(WriteType), Written(a), Len(buffer) = FrameCount(a)
    PROVE  /\ HoldsPayloadOf(buffer, AnswerTotal(a), a)
           /\ Origin(buffer, 0).ans = a
           /\ Num16(buffer, AnswerTotal(a) - 2) = StatusWord(a)
<1>1. PICK t \in Nat : t = AnswerTotal(a) /\ t >= 4 /\ t <= 118
  BY AnswerLengths DEF DataSize, FrameSize, HeaderSize
<1>2. PICK n \in Nat : n = Len(buffer) /\ n = (t + 58) \div 59
  BY <1>1 DEF FrameCount, DataSize, FrameSize, HeaderSize
<1>3. n \in {1, 2} /\ t <= 59 * n
  BY <1>1, <1>2
<1>4. buffer[1].pos = 0 /\ buffer[1].seq = 0 /\ buffer[1].ans = a
  BY <1>2, <1>3 DEF Written, WritePos
<1>5. n = 2 => buffer[2].pos = DataSize /\ buffer[2].seq = 1 /\ buffer[2].ans = a
  <2>1. WritePos(2) = DataSize
    BY DEF WritePos, DataSize, FrameSize, HeaderSize
  <2>2. ASSUME n = 2 PROVE buffer[2] = [pos |-> WritePos(2), ans |-> a, seq |-> 1]
    <3>1. 2 \in 1 .. Len(buffer) /\ 2 - 1 = 1
      BY <1>2, <2>2
    <3> QED
      BY <3>1 DEF Written
  <2> QED
    BY <2>1, <2>2
<1>6. ASSUME NEW p \in Nat, p < t PROVE Origin(buffer, p) = [ans |-> a, at |-> p]
  <2>1. /\ Len(buffer) >= 1 /\ Len(buffer) <= 2
        /\ buffer[1].pos = 0 /\ buffer[1].seq = 0
        /\ Len(buffer) = 2 => buffer[2].pos >= DataSize
    BY <1>2, <1>3, <1>4, <1>5 DEF DataSize, FrameSize, HeaderSize
  <2>2. buffer \in Seq(WriteType)
    OBVIOUS
  <2>3. \A k \in Nat : k < DataSize => Origin(buffer, k) = [ans |-> buffer[1].ans, at |-> k]
    BY <2>1, <2>2, FirstFrameBytes
  <2>4. CASE p < DataSize
    BY <1>4, <2>3, <2>4
  <2>5. CASE ~(p < DataSize)
    <3>1. n = 2 /\ p >= DataSize /\ p < 2 * DataSize
      BY <1>1, <1>3, <1>6, <2>5 DEF DataSize, FrameSize, HeaderSize
    <3> QED
      BY <1>2, <1>4, <1>5, <3>1, SecondFrameBytes
  <2> QED
    BY <2>4, <2>5
<1>7. HoldsPayloadOf(buffer, t, a)
  BY <1>1, <1>6 DEF HoldsPayloadOf
<1>8. a # NoAnswer
  BY AnswerIsSome
<1>9. ByteAt(buffer, t - 2) = StatusWord(a) \div 256
  <2>1. t - 2 \in Nat /\ t - 2 # 0 /\ t - 2 # 1 /\ t - 2 < t
    BY <1>1
  <2>2. Origin(buffer, t - 2) = [ans |-> a, at |-> t - 2]
    BY <1>6, <2>1
  <2>3. AnswerByte(a, t - 2) = StatusWord(a) \div 256
    BY <1>1, <2>1 DEF AnswerByte
  <2> QED
    BY <1>8, <2>2, <2>3 DEF ByteAt
<1>10. ByteAt(buffer, t - 1) = StatusWord(a) % 256
  <2>1. t - 1 \in Nat /\ t - 1 # 0 /\ t - 1 # 1 /\ t - 1 < t /\ t - 1 # t - 2
    BY <1>1
  <2>2. Origin(buffer, t - 1) = [ans |-> a, at |-> t - 1]
    BY <1>6, <2>1
  <2>3. AnswerByte(a, t - 1) = StatusWord(a) % 256
    BY <1>1, <2>1 DEF AnswerByte
  <2> QED
    BY <1>8, <2>2, <2>3 DEF ByteAt
<1>11. Num16(buffer, t - 2) = StatusWord(a)
  <2>1. (t - 2) + 1 = t - 1
    BY <1>1
  <2>2. StatusWord(a) \in {CODE_SUCCESS, CODE_USER_REJECTED}
    BY DEF StatusWord
  <2> QED
    BY <1>9, <1>10, <2>1, <2>2 DEF Num16, CODE_SUCCESS, CODE_USER_REJECTED
<1>12. Origin(buffer, 0).ans = a
  BY <1>1, <1>6
<1> QED
  BY <1>1, <1>7, <1>11, <1>12

\* If its end is missing, so is its status word: the buffer is zero there.
LEMMA BufferIsCut ==
    ASSUME LengthsAgree, NEW a \in AnswerType, AnswerTotal(a) <= 2 * DataSize,
           buffer \in Seq(WriteType), Written(a), buffer # <<>>, Len(buffer) < FrameCount(a)
    PROVE  Num16(buffer, AnswerTotal(a) - 2) = 0
<1>1. PICK t \in Nat : t = AnswerTotal(a) /\ t >= 4 /\ t <= 118
  BY AnswerLengths DEF DataSize, FrameSize, HeaderSize
<1>2. PICK n \in Nat : n = Len(buffer) /\ n >= 1
  BY EmptySeq
<1>3. FrameCount(a) = (t + 58) \div 59
  BY <1>1 DEF FrameCount, DataSize, FrameSize, HeaderSize
<1>4. n = 1
  BY <1>1, <1>2, <1>3
<1>5. ~(FrameSize * 1 >= t)
  BY <1>1, <1>2, <1>3, <1>4, AllReportsRead
<1>6. t - 2 >= 59 /\ t - 2 < 118 /\ t - 1 >= 59 /\ t - 1 < 118 /\ t - 2 \in Nat /\ t - 1 \in Nat
  BY <1>1, <1>5 DEF FrameSize
<1>7. Len(buffer) >= 1 /\ Len(buffer) <= 2 /\ Len(buffer) # 2 /\ buffer[1].pos = 0
  BY <1>2, <1>4 DEF Written, WritePos
<1>8. \A p \in Nat : p >= DataSize /\ p < 2 * DataSize => ByteAt(buffer, p) = 0
  BY <1>7, UnwrittenBytes
<1>9. ByteAt(buffer, t - 2) = 0 /\ ByteAt(buffer, t - 1) = 0
  BY <1>6, <1>8 DEF DataSize, FrameSize, HeaderSize
<1> QED
  BY <1>1, <1>9, (t - 2) + 1 = t - 1 DEF Num16

\* The answers of TwoFrames have at most two frames, confirmed or rejected.
LEMMA TwoFramesLength ==
    ASSUME TwoFrames, NEW a \in AnswerType
    PROVE  AnswerTotal(a) <= 2 * DataSize
<1>1. CASE a.ok
  <2>1. a.cmd \in Cmds /\ Len(Payload[a.cmd]) = AnswerTotal(a) - 4
    BY <1>1, AnswerLengths DEF AnswerType, AnswerPayload
  <2>2. Len(Payload[a.cmd]) + 4 = AnswerTotal(a)
    BY <2>1, AnswerLengths
  <2> QED
    BY <2>1, <2>2 DEF TwoFrames
<1>2. CASE ~a.ok
  BY <1>2, AnswerLengths DEF DataSize, FrameSize, HeaderSize
<1> QED
  BY <1>1, <1>2

\* A call ends with the answer to it, whole.
LEMMA ResultStep ==
    ASSUME Quiet, MaxUnplugs = 0, LengthsAgree, TwoFrames, TypeOK, BufferInv, QuietInv,
           ReturnsValidResult, [Next]_vars
    PROVE  ReturnsValidResult'
<1>0. /\ LineInv /\ TransferInv /\ m_dev = "open"
      /\ ~(ShortReport \/ RejectHeader \/ WrongSeqno \/ ReadError)
  BY NoRetry DEF QuietInv, LineInv, ReadError
<1>1. ASSUME UNCHANGED <<out, call, cmd>>, served \subseteq served' PROVE ReturnsValidResult'
  <2>1. ASSUME out.kind # "none" PROVE ReturnsValidResult'
    <3>1. PICK a \in served : /\ a.call = call /\ a.cmd = cmd /\ StatusWord(a) = out.status
                              /\ HoldsPayloadOf(out.buf, out.respLen, a)
      BY <2>1 DEF ReturnsValidResult
    <3>2. out.kind = "reply"
      BY <2>1 DEF ReturnsValidResult
    <3> QED
      BY <1>1, <3>1, <3>2 DEF ReturnsValidResult
  <2> QED
    BY <1>1, <2>1 DEF ReturnsValidResult
<1>2. ASSUME NEW c \in Cmds, BeginCall(c) PROVE ReturnsValidResult'
  <2>1. out'.kind = "none"
    BY <1>0, <1>2 DEF BeginCall, LineInv, NoOut
  <2> QED
    BY <2>1 DEF ReturnsValidResult
<1>3. CASE Finish
  <2>1. PICK a \in served : Arriving(a)
    BY <1>0, <1>3 DEF Finish, TransferInv, Waiting, Lost
  <2>2. /\ Len(buffer) = FrameCount(a) /\ respLen = AnswerTotal(a)
        /\ Return("reply", Num16(buffer, respLen - 2), respLen, buffer)
    BY <1>3, <2>1, FinishHasAll
  <2>3. a \in AnswerType /\ buffer \in Seq(WriteType)
    BY DEF TypeOK, DeviceType, BufferType
  <2>4. AnswerTotal(a) <= 2 * DataSize
    BY <2>3, TwoFramesLength
  <2>5. Written(a) /\ a.call = call /\ a.cmd = cmd
    BY <2>1 DEF Arriving
  <2>6. HoldsPayloadOf(buffer, respLen, a) /\ Num16(buffer, respLen - 2) = StatusWord(a)
    BY <2>2, <2>3, <2>4, <2>5, BufferIsAnswer
  <2>7. /\ out'.kind = "reply" /\ out'.status = StatusWord(a)
        /\ out'.buf = buffer /\ out'.respLen = respLen
    BY <2>2, <2>6 DEF Return
  <2>8. call' = call /\ cmd' = cmd /\ served' = served
    BY <1>3 DEF Finish, deviceVars
  <2> QED
    BY <2>5, <2>6, <2>7, <2>8 DEF ReturnsValidResult
<1>4. CASE NoHandle \/ CloseForRetry \/ ReopenForRetry
  BY <1>0, <1>4 DEF NoHandle, HasHandle, CloseForRetry, ReopenForRetry, LineInv
<1>5. CASE Attempt \/ WriteFrame \/ AcceptFrame
  BY <1>1, <1>5 DEF Attempt, WriteFrame, AcceptFrame, deviceVars
<1>6. ASSUME NEW ok \in BOOLEAN, Execute(ok) PROVE ReturnsValidResult'
  BY <1>1, <1>6 DEF Execute, hostVars
<1>7. ASSUME NEW k \in JunkKinds, StrangeData(k) PROVE ReturnsValidResult'
  BY <1>1, <1>7 DEF StrangeData, hostVars
<1>8. CASE EmitFrame \/ Unplug \/ Plug \/ UNCHANGED vars
  BY <1>1, <1>8 DEF EmitFrame, Unplug, Plug, vars, hostVars, deviceVars
<1> QED
  BY <1>0, <1>2, <1>3, <1>4, <1>5, <1>6, <1>7, <1>8 DEF Next, HostStep, DeviceStep

\* What a caller gets: the answer to its call, or none.
LEMMA FinishDelivers ==
    ASSUME LengthsAgree, TwoFrames, TypeOK, BufferInv, QuietInv, Finish
    PROVE  \/ Delivered' = NoAnswer
           \/ \E a \in served : a.call = call /\ a.cmd = cmd /\ Delivered' = a
<1>1. /\ pc = "read" /\ respLen # NotRead
      /\ \/ Return("reply", Num16(buffer, respLen - 2), respLen, buffer)
         \/ Return("throw", CODE_SUCCESS, 0, <<>>)
  BY DEF Finish
<1>2. CASE Return("throw", CODE_SUCCESS, 0, <<>>)
  BY <1>2 DEF Return, Delivered
<1>3. CASE Return("reply", Num16(buffer, respLen - 2), respLen, buffer)
  <2>1. /\ out'.kind = "reply" /\ out'.status = Num16(buffer, respLen - 2)
        /\ out'.buf = buffer /\ out'.respLen = respLen
    BY <1>3 DEF Return
  <2>2. buffer \in Seq(WriteType)
    BY DEF TypeOK, BufferType
  <2>3. ASSUME Num16(buffer, respLen - 2) = 0 PROVE Delivered' = NoAnswer
    BY <2>1, <2>3 DEF Delivered, CODE_SUCCESS, CODE_USER_REJECTED
  <2>4. ASSUME NEW a \in served, a.call = call, Written(a), Len(buffer) = FrameCount(a),
               respLen = AnswerTotal(a)
        PROVE  Delivered' = a
    <3>1. a \in AnswerType /\ AnswerTotal(a) <= 2 * DataSize
      BY TwoFramesLength DEF TypeOK, DeviceType
    <3>2. /\ HoldsPayloadOf(buffer, respLen, a) /\ Origin(buffer, 0).ans = a
          /\ Num16(buffer, respLen - 2) = StatusWord(a)
      BY <2>2, <2>4, <3>1, BufferIsAnswer
    <3>3. StatusWord(a) \in {CODE_SUCCESS, CODE_USER_REJECTED}
      BY DEF StatusWord
    <3>4. Delivered' = IF StatusWord(a) = out'.status /\ HoldsPayloadOf(buffer, respLen, a)
                       THEN a ELSE Corrupt
      BY <2>1, <3>2, <3>3 DEF Delivered, HoldsPayloadOf, AnswerTotal, AnswerLength,
         AnswerPayload, StatusWord
    <3> QED
      BY <2>1, <3>2, <3>4
  <2>5. ASSUME NEW a \in served, Arriving(a) PROVE Delivered' = a /\ a.call = call /\ a.cmd = cmd
    <3>1. Len(buffer) = FrameCount(a) /\ respLen = AnswerTotal(a)
      BY <2>5, FinishHasAll
    <3> QED
      BY <2>4, <2>5, <3>1 DEF Arriving
  <2>6. CASE buffer = <<>>
    <3>1. respLen - 2 = 0
      BY <1>1, <2>6 DEF BufferInv
    <3>2. Num16(<<>>, 0) = 0
      BY 0 + 1 \in Nat, EmptyBuffer DEF Num16
    <3> QED
      BY <2>3, <2>6, <3>1, <3>2
  <2>7. ASSUME NEW a \in served, Partly(a), buffer # <<>>
        PROVE  Delivered' = NoAnswer \/ (Delivered' = a /\ a.call = call /\ a.cmd = cmd)
    <3>1. a \in AnswerType /\ AnswerTotal(a) <= 2 * DataSize /\ FrameCount(a) \in Nat
      BY TwoFramesLength, AnswerLengths DEF TypeOK, DeviceType
    <3>2. PICK n \in Nat : n = Len(buffer)
      BY <2>2
    <3>3. CASE n < FrameCount(a)
      <4>1. Num16(buffer, respLen - 2) = 0
        BY <2>2, <2>7, <3>1, <3>2, <3>3, BufferIsCut DEF Partly
      <4> QED
        BY <2>3, <4>1
    <3>4. CASE n = FrameCount(a)
      BY <2>4, <2>7, <3>2, <3>4 DEF Partly
    <3> QED
      BY <2>7, <3>1, <3>2, <3>3, <3>4 DEF Partly
  <2> QED
    BY <1>1, <2>5, <2>6, <2>7 DEF QuietInv, TransferInv, Waiting, Lost
<1> QED
  BY <1>1, <1>2, <1>3

-----------------------------------------------------------------------------
(***************************************************************************)
(* The theorems.                                                           *)
(***************************************************************************)
\* The wallet starts between two exchanges.
LEMMA QuietInit == Init => QuietInv
<1> SUFFICES ASSUME Init PROVE QuietInv
  OBVIOUS
<1>1. LineInv
  BY DEF Init, LineInv, NoOut
<1>2. TransferInv /\ ServedInv
  BY DEF Init, TransferInv, Nothing, ServedInv
<1> QED
  BY <1>1, <1>2 DEF QuietInv

\* The device that keeps to MaxJunk = 0 sends no strange data.
LEMMA NoStrangeData ==
    ASSUME Quiet, TypeOK
    PROVE  ~\E k \in JunkKinds : StrangeData(k)
<1>1. junk \in Nat /\ MaxJunk = 0
  BY DEF Quiet, TypeOK, DeviceType
<1>2. ~(junk < MaxJunk)
  BY <1>1
<1> QED
  BY <1>2 DEF StrangeData

\* Over a quiet line no exchange is retried, no request executed twice, and no
\* frame lost or left behind, for answers of any number of frames on which the
\* two counts agree.
LEMMA QuietInvariant ==
    ASSUME Quiet, LengthsAgree
    PROVE  Spec => [](ExchangeInv /\ QuietInv)
<1>1. Init => QuietInv
  BY QuietInit
<1>2. ExchangeInv /\ QuietInv /\ [Next]_vars => QuietInv'
  BY NoStrangeData, LineStep, TransferStep, ServedStep DEF Quiet, ExchangeInv, QuietInv
<1> QED
  BY <1>1, <1>2, ExchangeInvariant, PTL DEF Spec

\* "until we didn't get whole data, read again": when a call has its reply no
\* report of the answer is left for the next call to find, even if the device
\* went in between.
THEOREM QuietWholeDataRead ==
    ASSUME Quiet, LengthsAgree
    PROVE  Spec => []WholeDataRead
<1>1. QuietInv => WholeDataRead
  BY DEF QuietInv, LineInv, TransferInv, Nothing, WholeDataRead
<1> QED
  BY <1>1, QuietInvariant, PTL

\* "do exchange until we don't receive valid result": with a device that stays
\* and answers of one or two frames every call comes back with the status word
\* and the payload the device answered to this very call, and in no other way.
THEOREM QuietReturnsValidResult ==
    ASSUME Quiet, MaxUnplugs = 0, LengthsAgree, TwoFrames
    PROVE  Spec => []ReturnsValidResult
<1>1. Init => ReturnsValidResult
  BY DEF Init, NoOut, ReturnsValidResult
<1>2. ExchangeInv /\ QuietInv /\ ReturnsValidResult /\ [Next]_vars => ReturnsValidResult'
  BY ResultStep DEF ExchangeInv
<1> QED
  BY <1>1, <1>2, QuietInvariant, PTL DEF Spec

\* A caller sees no more than it may of a step that leaves these alone.
LEMMA StutterStep ==
    ASSUME pc' = pc \/ (pc # "idle" /\ pc' # "idle"), UNCHANGED <<call, cmd, served, out>>
    PROVE  UNCHANGED Abstract!vars
BY DEF Abstract!vars, Delivered, HoldsPayloadOf, Origin, LastWrite, StatusWord, AnswerTotal,
   AnswerLength, AnswerPayload

\* The wallet starts idle, with no answer given and none returned.
LEMMA ReplyInit == Init => Abstract!Init
<1> SUFFICES ASSUME Init PROVE Abstract!Init
  OBVIOUS
<1>1. Delivered = Abstract!Failed
  BY DEF Init, NoOut, Delivered, NoAnswer, Abstract!Failed
<1> QED
  BY <1>1 DEF Init, Abstract!Init

\* Every step of host, device and user is one of a request and its reply, or
\* nothing a caller sees.
LEMMA ReplyStep ==
    ASSUME Quiet, LengthsAgree, TwoFrames, TypeOK, BufferInv, QuietInv, [Next]_vars
    PROVE  [Abstract!Next]_(Abstract!vars)
<1>0. /\ LineInv /\ TransferInv /\ ServedInv
      /\ ~(ShortReport \/ RejectHeader \/ WrongSeqno)
  BY NoRetry DEF QuietInv
<1>1. pc # "idle" => Delivered = NoAnswer
  BY <1>0 DEF LineInv, Delivered
<1>2. ASSUME NEW c \in Cmds, BeginCall(c) PROVE Abstract!Begin
  <2>1. /\ pc = "idle" /\ pc' = "attempt" /\ out' = NoOut /\ call < MaxCalls
        /\ call' = call + 1 /\ cmd' = c /\ served' = served
    BY <1>0, <1>2 DEF BeginCall, LineInv, deviceVars
  <2>2. Delivered' = Abstract!Failed
    BY <2>1 DEF Delivered, NoOut, NoAnswer, Abstract!Failed
  <2> QED
    BY <2>1, <2>2 DEF Abstract!Begin
<1>3. CASE NoHandle \/ CloseForRetry \/ ReopenForRetry
  BY <1>0, <1>3 DEF NoHandle, HasHandle, CloseForRetry, ReopenForRetry, LineInv
<1>4. CASE Attempt
  BY <1>4, StutterStep DEF Attempt, deviceVars
<1>5. CASE WriteFrame
  BY <1>5, StutterStep DEF WriteFrame
<1>6. CASE AcceptFrame
  BY <1>6, StutterStep DEF AcceptFrame, deviceVars
<1>7. CASE ReadError
  BY <1>7, StutterStep DEF ReadError, WantsFrame, deviceVars
<1>8. CASE Finish
  <2>1. pc = "read" /\ pc' = "idle" /\ UNCHANGED <<call, cmd, served>>
    BY <1>8 DEF Finish, Return, deviceVars
  <2>2. CASE Delivered' = NoAnswer
    <3>1. Abstract!Fail
      BY <1>1, <2>1, <2>2 DEF Abstract!Fail
    <3> QED
      BY <3>1 DEF Abstract!Next
  <2>3. CASE \E a \in served : a.call = call /\ a.cmd = cmd /\ Delivered' = a
    <3>1. Abstract!Reply
      BY <2>1, <2>3 DEF Abstract!Reply
    <3> QED
      BY <3>1 DEF Abstract!Next
  <2> QED
    BY <1>8, <2>2, <2>3, FinishDelivers
<1>9. ASSUME NEW ok \in BOOLEAN, Execute(ok) PROVE Abstract!Serve
  <2>1. pc = "read" /\ Waiting
    BY <1>0, <1>9 DEF Execute, Nothing, TransferInv, Arriving, Lost, LineInv
  <2>2. /\ Head(pending) = Request(call, cmd) /\ pending # <<>>
        /\ UNCHANGED <<pc, call, cmd, out>>
    BY <1>9, <2>1 DEF Waiting, Execute, hostVars
  <2>3. PICK a : a = Answer(Request(call, cmd), ok)
    OBVIOUS
  <2>4. served' = served \cup {a}
    BY <1>9, <2>2, <2>3 DEF Execute
  <2>5. a.call = call /\ a.cmd = cmd /\ a \in Abstract!Answers
    <3>1. call \in 1 .. MaxCalls /\ cmd \in Cmds
      BY <2>1 DEF TypeOK, CallType
    <3> QED
      BY <2>3, <3>1 DEF Answer, Request, Abstract!Answers
  <2>6. Delivered' = Delivered
    BY <1>1, <2>1, <2>2 DEF Delivered, NoAnswer
  <2> QED
    BY <1>0, <2>1, <2>2, <2>4, <2>5, <2>6 DEF ServedInv, Abstract!Serve
<1>10. CASE EmitFrame
  BY <1>10, StutterStep DEF EmitFrame, hostVars
<1>11. ASSUME NEW k \in JunkKinds, StrangeData(k) PROVE UNCHANGED Abstract!vars
  BY <1>11, StutterStep DEF StrangeData, hostVars
<1>12. CASE Unplug \/ Plug \/ UNCHANGED vars
  BY <1>12, StutterStep DEF Unplug, Plug, vars, hostVars, deviceVars
<1> QED
  BY <1>0, <1>2, <1>3, <1>4, <1>5, <1>6, <1>7, <1>8, <1>9, <1>10, <1>11, <1>12
     DEF Next, HostStep, DeviceStep, Abstract!Next

\* Towards its callers exchange() is a request and its reply, though the device
\* may be unplugged at any moment: the device executes a request once, and the
\* call ends with the answer to it or with none, never with another's.
THEOREM ImplementsRequestReply ==
    ASSUME Quiet, LengthsAgree, TwoFrames
    PROVE  Spec => RequestReplySafety
<1>1. Init => Abstract!Init
  BY ReplyInit
<1>2. ExchangeInv /\ QuietInv /\ [Next]_vars => [Abstract!Next]_(Abstract!vars)
  BY ReplyStep DEF ExchangeInv
<1> QED
  BY <1>1, <1>2, QuietInvariant, PTL DEF Spec, RequestReplySafety
=============================================================================
