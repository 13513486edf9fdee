------------------------- MODULE ApduExchangeProofs -------------------------
(***************************************************************************)
(* ExchangeInv is an invariant of ApduExchange, for every set of commands, *)
(* every payload, any number of calls, strange reports and unplugs, and on *)
(* every backend.  TypeOK, IoOnHandle and SuccessIsComplete follow.        *)
(***************************************************************************)
EXTENDS ApduExchange, SequenceTheorems, TLAPS

-----------------------------------------------------------------------------
(***************************************************************************)
(* Lemmas about answers and the response buffer.                           *)
(***************************************************************************)
\* The length of an answer: 4 bytes when rejected, and at most 260.
LEMMA AnswerLengths ==
    ASSUME NEW a \in AnswerType
    PROVE  /\ AnswerTotal(a) \in Nat /\ AnswerTotal(a) >= 4 /\ AnswerTotal(a) <= 260
           /\ AnswerLength(a) = AnswerTotal(a) - 2
           /\ AnswerPayload(a) \in Seq(Byte)
           /\ Len(AnswerPayload(a)) = AnswerTotal(a) - 4
           /\ ~a.ok => AnswerTotal(a) = 4
           /\ FrameCount(a) \in Nat /\ FrameCount(a) >= 1
<1>1. AnswerPayload(a) \in Seq(Byte) /\ Len(AnswerPayload(a)) <= 256
  BY FramingAssumption DEF AnswerType, AnswerPayload, MaxPayload
<1>2. PICK n \in Nat : n = Len(AnswerPayload(a)) /\ n <= 256
  BY <1>1
<1>3. AnswerLength(a) = n + 2 /\ AnswerTotal(a) = n + 4
  BY <1>2 DEF AnswerTotal, AnswerLength
<1>4. ~a.ok => n = 0
  BY <1>2 DEF AnswerPayload
<1>5. FrameCount(a) \in Nat /\ FrameCount(a) >= 1
  BY <1>3 DEF FrameCount, DataSize, FrameSize, HeaderSize
<1> QED
  BY <1>1, <1>2, <1>3, <1>4, <1>5

\* A byte of an answer is a byte.
LEMMA AnswerBytes ==
    ASSUME NEW a \in AnswerType, NEW p \in Nat
    PROVE  AnswerByte(a, p) \in Byte
<1>1. CASE p >= 2 /\ p < AnswerTotal(a) - 2
  <2>1. p - 1 \in 1 .. Len(AnswerPayload(a))
    BY <1>1, AnswerLengths
  <2>2. AnswerPayload(a)[p - 1] \in Byte
    BY <2>1, AnswerLengths
  <2> QED
    BY <1>1, <2>2, AnswerLengths DEF AnswerByte
<1>2. CASE ~(p >= 2 /\ p < AnswerTotal(a) - 2)
  <2>1. /\ AnswerLength(a) \div 256 \in Byte
        /\ AnswerLength(a) % 256 \in Byte
    <3>1. PICK n \in Nat : n = AnswerLength(a) /\ n <= 258
      BY AnswerLengths
    <3> QED
      BY <3>1 DEF Byte
  <2>2. /\ StatusWord(a) \div 256 \in Byte
        /\ StatusWord(a) % 256 \in Byte
    BY DEF StatusWord, Byte, CODE_SUCCESS, CODE_USER_REJECTED
  <2>3. 0 \in Byte
    BY DEF Byte
  <2> QED
    BY <1>2, <2>1, <2>2, <2>3, AnswerLengths DEF AnswerByte
<1> QED
  BY <1>1, <1>2

\* The origin of a covered byte is the frame of some write.
LEMMA OriginType ==
    ASSUME NEW buf \in Seq(WriteType), NEW p \in Nat
    PROVE  \/ Origin(buf, p) = ZeroByte
           \/ Origin(buf, p) \in [ans : AnswerType, at : Nat]
<1>1. CASE LastWrite(buf, p) = {}
  BY <1>1 DEF Origin
<1>2. CASE LastWrite(buf, p) # {}
  <2> DEFINE w == buf[CHOOSE i \in LastWrite(buf, p) : TRUE]
  <2>1. w \in WriteType /\ Covers(w, p)
    BY <1>2 DEF LastWrite
  <2>2. w.ans \in AnswerType /\ w.pos \in Nat /\ w.seq \in Nat
    BY <2>1 DEF WriteType
  <2>3. DataSize * w.seq + p - w.pos \in Nat
    <3>1. w.pos <= p
      BY <2>1 DEF Covers
    <3>2. PICK o \in Nat, s \in Nat : o = w.pos /\ s = w.seq /\ o <= p
      BY <2>2, <3>1
    <3>3. 59 * s \in Nat
      BY <3>2
    <3>4. p - o \in Nat
      BY <3>2
    <3>5. 59 * s + p - o \in Nat
      <4>1. \A m, x, y \in Nat : x - y \in Nat => m + x - y \in Nat
        OBVIOUS
      <4> QED
        BY <3>2, <3>3, <3>4, <4>1
    <3> QED
      BY <3>2, <3>5 DEF DataSize, FrameSize, HeaderSize
  <2> QED
    BY <1>2, <2>2, <2>3 DEF Origin
<1> QED
  BY <1>1, <1>2

\* Every byte of the buffer is a byte.
LEMMA BufferBytes ==
    ASSUME NEW buf \in Seq(WriteType), NEW p \in Nat
    PROVE  ByteAt(buf, p) \in Byte
<1>1. CASE Origin(buf, p).ans = NoAnswer
  BY <1>1 DEF ByteAt, Byte
<1>2. CASE Origin(buf, p).ans # NoAnswer
  BY <1>2, OriginType, AnswerBytes DEF ByteAt, ZeroByte
<1> QED
  BY <1>1, <1>2

\* A 16-bit number read from it is a 16-bit number.
LEMMA BufferNumbers ==
    ASSUME NEW buf \in Seq(WriteType), NEW p \in Nat
    PROVE  Num16(buf, p) \in Nat /\ Num16(buf, p) < 65536
<1>1. ByteAt(buf, p) \in Byte
  BY BufferBytes
<1>2. ByteAt(buf, p + 1) \in Byte
  BY p + 1 \in Nat, BufferBytes
<1> QED
  BY <1>1, <1>2 DEF Num16, Byte

\* A buffer of one or two writes: up to 58 the bytes are those of the first.
LEMMA FirstFrameBytes ==
    ASSUME NEW buf \in Seq(WriteType), NEW p \in Nat, p < DataSize,
           Len(buf) >= 1, Len(buf) <= 2, buf[1].pos = 0, buf[1].seq = 0,
           Len(buf) = 2 => buf[2].pos >= DataSize
    PROVE  Origin(buf, p) = [ans |-> buf[1].ans, at |-> p]
<1> DEFINE L == LastWrite(buf, p)
<1>1. Covers(buf[1], p)
  BY DEF Covers, DataSize, FrameSize, HeaderSize
<1>2. ASSUME Len(buf) = 2 PROVE ~Covers(buf[2], p)
  <2>1. buf[2] \in WriteType
    BY <1>2
  <2>2. buf[2].pos \in Nat
    BY <2>1 DEF WriteType
  <2> QED
    BY <1>2, <2>2 DEF Covers, DataSize, FrameSize, HeaderSize
<1>3. L = {1}
  <2>1. PICK n \in Nat : n = Len(buf) /\ (n = 1 \/ n = 2)
    OBVIOUS
  <2> QED
    BY <1>1, <1>2, <2>1 DEF LastWrite
<1>4. (CHOOSE i \in L : TRUE) = 1
  BY <1>3
<1>5. Origin(buf, p) = [ans |-> buf[1].ans, at |-> DataSize * buf[1].seq + p - buf[1].pos]
  BY <1>3, <1>4 DEF Origin
<1> QED
  BY <1>5 DEF DataSize, FrameSize, HeaderSize

\* From 59 to 117 they are those of a second write at 59.
LEMMA SecondFrameBytes ==
    ASSUME NEW buf \in Seq(WriteType), NEW p \in Nat,
           p >= DataSize, p < 2 * DataSize,
           Len(buf) = 2, buf[1].pos = 0, buf[2].pos = DataSize, buf[2].seq = 1
    PROVE  Origin(buf, p) = [ans |-> buf[2].ans, at |-> p]
<1> DEFINE L == LastWrite(buf, p)
<1>1. Covers(buf[2], p) /\ ~Covers(buf[1], p)
  BY DEF Covers, DataSize, FrameSize, HeaderSize
<1>3. L = {2}
  BY <1>1 DEF LastWrite
<1>4. (CHOOSE i \in L : TRUE) = 2
  BY <1>3
<1>5. Origin(buf, p) = [ans |-> buf[2].ans, at |-> DataSize * buf[2].seq + p - buf[2].pos]
  BY <1>3, <1>4 DEF Origin
<1> QED
  BY <1>5 DEF DataSize, FrameSize, HeaderSize

\* And zero when there is no second write, or one that begins further on.
LEMMA UnwrittenBytes ==
    ASSUME NEW buf \in Seq(WriteType), NEW p \in Nat,
           p >= DataSize, p < 2 * DataSize,
           Len(buf) >= 1, Len(buf) <= 2, buf[1].pos = 0,
           Len(buf) = 2 => buf[2].pos >= 2 * DataSize
    PROVE  ByteAt(buf, p) = 0
<1>1. ~Covers(buf[1], p)
  BY DEF Covers, DataSize, FrameSize, HeaderSize
<1>2. ASSUME Len(buf) = 2 PROVE ~Covers(buf[2], p)
  <2>1. buf[2] \in WriteType
    BY <1>2
  <2>2. buf[2].pos \in Nat
    BY <2>1 DEF WriteType
  <2> QED
    BY <1>2, <2>2 DEF Covers, DataSize, FrameSize, HeaderSize
<1>3. LastWrite(buf, p) = {}
  <2>1. PICK n \in Nat : n = Len(buf) /\ (n = 1 \/ n = 2)
    OBVIOUS
  <2> QED
    BY <1>1, <1>2, <2>1 DEF LastWrite
<1> QED
  BY <1>3 DEF Origin, ByteAt, ZeroByte

\* An empty buffer reads as zero.
LEMMA EmptyBuffer == ASSUME NEW p \in Nat PROVE ByteAt(<<>>, p) = 0
<1>1. LastWrite(<<>>, p) = {}
  BY DEF LastWrite
<1> QED
  BY <1>1 DEF Origin, ByteAt, ZeroByte

\* An answer is not the record that stands for none: its call is not 0.
LEMMA AnswerIsSome ==
    ASSUME NEW a \in AnswerType PROVE a # NoAnswer
BY ExchangeAssumption DEF AnswerType, NoAnswer

\* The length prefix: the first frame alone gives the length of the answer.
LEMMA LengthPrefix ==
    ASSUME NEW w \in WriteType, w.pos = 0, w.seq = 0
    PROVE  Uint16(Num16(<<w>>, 0) + 2) = AnswerTotal(w.ans)
<1> DEFINE a == w.ans
<1>1. a \in AnswerType /\ a # NoAnswer
  BY AnswerIsSome DEF WriteType
<1>2. <<w>> \in Seq(WriteType) /\ Len(<<w>>) = 1 /\ <<w>>[1] = w
  OBVIOUS
<1>3. \A p \in Nat : p < DataSize => Origin(<<w>>, p) = [ans |-> a, at |-> p]
  <2>1. /\ Len(<<w>>) >= 1 /\ Len(<<w>>) <= 2 /\ Len(<<w>>) # 2
        /\ <<w>>[1].pos = 0 /\ <<w>>[1].seq = 0
    BY <1>2
  <2> QED
    BY <1>2, <2>1, FirstFrameBytes
<1>31. Origin(<<w>>, 0) = [ans |-> a, at |-> 0] /\ Origin(<<w>>, 1) = [ans |-> a, at |-> 1]
  BY <1>3 DEF DataSize, FrameSize, HeaderSize
<1>4. PICK n \in Nat : n = AnswerLength(a) /\ n >= 2 /\ n <= 258 /\ AnswerTotal(a) = n + 2
  BY <1>1, AnswerLengths
<1>5. ByteAt(<<w>>, 0) = n \div 256 /\ ByteAt(<<w>>, 1) = n % 256
  BY <1>1, <1>31, <1>4 DEF ByteAt, AnswerByte
<1>6. Num16(<<w>>, 0) = n
  BY <1>5 DEF Num16
<1> QED
  BY <1>4, <1>6 DEF Uint16

-----------------------------------------------------------------------------
(***************************************************************************)
(* Type correctness.                                                       *)
(***************************************************************************)
\* One read of the loop keeps rn and respLen natural.
LEMMA CountReadType ==
    ASSUME NEW n \in Nat, rn \in Nat, BufferType, buffer' \in Seq(WriteType), CountRead(n)
    PROVE  /\ rn' \in Nat /\ rn' = rn + n + 5
           /\ respLen' \in Nat \cup {NotRead}
<1>1. rn' \in Nat /\ rn' = rn + n + 5
  BY DEF CountRead, HeaderSize
<1>2. Num16(buffer', 0) \in Nat
  BY BufferNumbers
<1>3. Uint16(Num16(buffer', 0) + 2) \in Nat
  BY <1>2 DEF Uint16
<1> QED
  BY <1>1, <1>3 DEF CountRead, BufferType

\* The device sends at least one frame, numbered from 0, of the answer only.
LEMMA FramesType ==
    ASSUME NEW a \in AnswerType
    PROVE  /\ Frames(a) \in Seq(FrameType)
           /\ Len(Frames(a)) \in Nat /\ Len(Frames(a)) >= 1
           /\ \A i \in 1 .. Len(Frames(a)) :
                 Frames(a)[i] = [kind |-> "answer", ans |-> a, seq |-> i - 1]
<1>1. PICK n \in Nat : n = FrameCount(a) /\ n >= 1
  BY AnswerLengths
<1>2. \A i \in 1 .. n : [kind |-> "answer", ans |-> a, seq |-> i - 1] \in FrameType
  BY DEF FrameType
<1> QED
  BY <1>1, <1>2 DEF Frames

\* The wallet starts with values of the right types.
LEMMA TypeInit == Init => TypeOK
<1> SUFFICES ASSUME Init PROVE TypeOK
  OBVIOUS
<1>1. OutType
  BY DEF Init, OutType, NoOut
<1>2. CallType /\ FramerType /\ BufferType /\ QueueType
  BY ExchangeAssumption DEF Init, CallType, FramerType, BufferType, QueueType, NotRead, FrameSize
<1>3. DeviceType
  BY DEF Init, DeviceType
<1> QED
  BY <1>1, <1>2, <1>3 DEF TypeOK, Init

\* However a call ends.
LEMMA ReturnType ==
    ASSUME NEW kind \in {"none", "reply", "empty", "throw"}, NEW status \in Nat,
           NEW len \in Nat, NEW buf \in Seq(WriteType), Return(kind, status, len, buf)
    PROVE  OutType' /\ pc' = "idle"
BY DEF Return, OutType

\* Every step of host, device and user keeps the types.
LEMMA TypeStep == TypeOK /\ [Next]_vars => TypeOK'
<1> SUFFICES ASSUME TypeOK, [Next]_vars PROVE TypeOK'
  OBVIOUS
<1> USE ExchangeAssumption
<1>0. /\ CallType /\ OutType /\ FramerType /\ BufferType /\ QueueType /\ DeviceType
      /\ CODE_SUCCESS \in Nat /\ 0 \in Nat /\ <<>> \in Seq(WriteType)
  BY DEF TypeOK, CODE_SUCCESS
<1>1. ASSUME NEW c \in Cmds, BeginCall(c) PROVE TypeOK'
  <2>1. OutType'
    <3>1. CASE m_valid
      <4>1. out' = NoOut
        BY <1>1, <3>1 DEF BeginCall
      <4> QED
        BY <1>0, <4>1 DEF OutType, NoOut
    <3>2. CASE ~m_valid
      BY <1>0, <1>1, <3>2, ReturnType DEF BeginCall
    <3> QED
      BY <3>1, <3>2
  <2>2. CallType' /\ call' >= 1
    BY <1>0, <1>1 DEF BeginCall, CallType, Return
  <2> QED
    BY <1>0, <1>1, <2>1, <2>2 DEF BeginCall, TypeOK, FramerType, BufferType, QueueType,
       DeviceType, framerVars, localVars, deviceVars
<1>2. CASE NoHandle
  <2>1. OutType' /\ pc' = "idle"
    BY <1>0, <1>2, ReturnType DEF NoHandle
  <2>2. CallType'
    BY <1>0, <1>2, <2>1 DEF NoHandle, CallType
  <2> QED
    BY <1>0, <1>2, <2>1, <2>2 DEF NoHandle, TypeOK, FramerType, BufferType, QueueType,
       DeviceType, framerVars, localVars, deviceVars
<1>3. CASE Attempt
  BY <1>3 DEF Attempt, TypeOK, CallType, OutType, FramerType, BufferType, QueueType,
     DeviceType, deviceVars, NotRead
<1>4. CASE CloseForRetry
  BY <1>4 DEF CloseForRetry, TypeOK, CallType, OutType, FramerType, BufferType,
     QueueType, DeviceType, framerVars, localVars, deviceVars
<1>5. CASE ReopenForRetry
  BY <1>5 DEF ReopenForRetry, TypeOK, CallType, OutType, FramerType, BufferType,
     QueueType, DeviceType, framerVars, localVars, deviceVars
<1>6. CASE WriteFrame
  <2>1. DeviceType'
    <3>1. Request(call, cmd) \in RequestType
      BY <1>6 DEF WriteFrame, TypeOK, CallType, Request, RequestType
    <3>2. pending' \in Seq(RequestType)
      BY <1>0, <1>6, <3>1 DEF WriteFrame, DeviceType
    <3> QED
      BY <1>0, <1>6, <3>2 DEF WriteFrame, DeviceType
  <2>2. CallType' /\ FramerType'
    BY <1>0, <1>6 DEF WriteFrame, CallType, FramerType, framerVars
  <2> QED
    BY <1>0, <1>6, <2>1, <2>2 DEF WriteFrame, TypeOK, OutType, BufferType, QueueType
<1>7. CASE AcceptFrame
  <2>1. buffer' \in Seq(WriteType)
    <3>1. Head(rx) \in FrameType \cup JunkType
      BY <1>0, <1>7 DEF AcceptFrame, NextReport, QueueType
    <3>2. Head(rx).kind = "answer" => Head(rx) \in FrameType
      BY <3>1 DEF JunkType
    <3>3. NextPos \in Nat
      BY <1>0, <1>7 DEF NextPos, FramerType, HeaderSize, FrameSize
    <3> QED
      BY <1>0, <1>7, <3>2, <3>3 DEF AcceptFrame, WriteType, FrameType, BufferType
  <2>2. /\ rn' \in Nat /\ respLen' \in Nat \cup {NotRead}
    BY <1>0, <1>7, <2>1, CountReadType DEF AcceptFrame, FramerType, DataSize, FrameSize,
       HeaderSize
  <2>3. FramerType'
    BY <1>0, <1>7, <2>2 DEF AcceptFrame, FramerType, NextOffset, FrameSize, Uint16
  <2>4. QueueType'
    BY <1>0, <1>7 DEF AcceptFrame, NextReport, QueueType, deviceVars
  <2> QED
    BY <1>0, <1>7, <2>1, <2>2, <2>3, <2>4 DEF AcceptFrame, TypeOK, CallType, OutType,
       BufferType, DeviceType, deviceVars
<1>8. CASE ShortReport
  <2>1. BufferType' /\ rn' \in Nat
    BY <1>0, <1>8, CountReadType DEF ShortReport, BufferType, FramerType
  <2>2. QueueType'
    BY <1>0, <1>8 DEF ShortReport, NextReport, QueueType, deviceVars
  <2> QED
    BY <1>0, <1>8, <2>1, <2>2 DEF ShortReport, TypeOK, CallType, OutType, FramerType,
       DeviceType, deviceVars
<1>9. CASE RejectHeader
  <2>1. OutType' /\ pc' = "idle"
    BY <1>0, <1>9, ReturnType DEF RejectHeader
  <2>2. QueueType'
    BY <1>0, <1>9 DEF RejectHeader, NextReport, QueueType, deviceVars
  <2> QED
    BY <1>0, <1>9, <2>1, <2>2 DEF RejectHeader, TypeOK, CallType, FramerType, BufferType,
       DeviceType, framerVars, localVars, deviceVars
<1>10. CASE WrongSeqno
  <2>2. QueueType'
    BY <1>0, <1>10 DEF WrongSeqno, NextReport, QueueType, deviceVars
  <2> QED
    BY <1>0, <1>10, <2>2 DEF WrongSeqno, NextReport, WantsFrame, TypeOK, CallType, OutType,
       FramerType, BufferType, DeviceType, framerVars, localVars, deviceVars
<1>11. CASE ReadError
  <2>1. BufferType' /\ rn' \in Nat
    BY <1>0, <1>11, CountReadType DEF ReadError, BufferType, FramerType
  <2> QED
    BY <1>0, <1>11, <2>1 DEF ReadError, WantsFrame, TypeOK, CallType, OutType, FramerType,
       QueueType, DeviceType, deviceVars
<1>12. CASE Finish
  <2>1. OutType' /\ pc' = "idle"
    <3>1. CASE respLen >= 2
      <4>1. respLen \in Nat /\ respLen - 2 \in Nat
        BY <1>0, <1>12, <3>1 DEF Finish, BufferType
      <4>2. Num16(buffer, respLen - 2) \in Nat
        BY <1>0, <4>1, BufferNumbers DEF BufferType
      <4> QED
        BY <1>0, <1>12, <4>1, <4>2, ReturnType DEF Finish, BufferType
    <3>2. CASE ~(respLen >= 2)
      BY <1>0, <1>12, <3>2, ReturnType DEF Finish
    <3> QED
      BY <3>1, <3>2
  <2>2. FramerType'
    BY <1>0, <1>12 DEF Finish, FramerType, framerVars, FrameSize
  <2> QED
    BY <1>0, <1>12, <2>1, <2>2 DEF Finish, TypeOK, CallType, BufferType, QueueType,
       DeviceType, deviceVars, NotRead
<1>13. ASSUME NEW ok \in BOOLEAN, Execute(ok) PROVE TypeOK'
  <2>1. Answer(Head(pending), ok) \in AnswerType
    <3>1. Head(pending) \in RequestType
      BY <1>0, <1>13 DEF Execute, DeviceType
    <3> QED
      BY <3>1 DEF Answer, AnswerType, RequestType
  <2>2. QueueType'
    BY <1>0, <1>13, <2>1, FramesType DEF Execute, QueueType
  <2>3. DeviceType'
    BY <1>0, <1>13, <2>1 DEF Execute, DeviceType
  <2> QED
    BY <1>0, <1>13, <2>2, <2>3 DEF Execute, TypeOK, CallType, OutType, FramerType,
       BufferType, hostVars, framerVars, localVars
<1>14. CASE EmitFrame
  <2>1. QueueType'
    BY <1>0, <1>14 DEF EmitFrame, QueueType
  <2> QED
    BY <1>0, <1>14, <2>1 DEF EmitFrame, TypeOK, CallType, OutType, FramerType, BufferType,
       DeviceType, hostVars, framerVars, localVars
<1>15. ASSUME NEW k \in JunkKinds, StrangeData(k) PROVE TypeOK'
  <2>1. [kind |-> k, ans |-> NoAnswer, seq |-> StraySeq] \in JunkType
    BY DEF JunkType
  <2>2. QueueType'
    BY <1>0, <1>15, <2>1 DEF StrangeData, QueueType
  <2> QED
    BY <1>0, <1>15, <2>2 DEF StrangeData, TypeOK, CallType, OutType, FramerType, BufferType,
       DeviceType, hostVars, framerVars, localVars
<1>16. CASE Unplug
  <2>1. CallType' /\ (pc' # "idle" => call' >= 1)
    BY <1>0, <1>16 DEF Unplug, CallType, TypeOK
  <2>2. QueueType'
    BY <1>0, <1>16 DEF Unplug, QueueType
  <2>3. DeviceType'
    <3>1. pending' = <<>> /\ <<>> \in Seq(RequestType)
      BY <1>16 DEF Unplug
    <3>2. unplugs' \in Nat /\ served' = served /\ junk' = junk
      BY <1>0, <1>16 DEF Unplug, DeviceType
    <3>3. plugged' = FALSE
      BY <1>16 DEF Unplug
    <3> QED
      BY <1>0, <3>1, <3>2, <3>3 DEF DeviceType
  <2> QED
    BY <1>0, <1>16, <2>1, <2>2, <2>3 DEF Unplug, TypeOK, OutType, FramerType, BufferType,
       framerVars, localVars
<1>17. CASE Plug
  BY <1>17 DEF Plug, TypeOK, CallType, OutType, FramerType, BufferType, QueueType,
     DeviceType, hostVars, framerVars, localVars
<1>18. CASE UNCHANGED vars
  BY <1>18 DEF vars, TypeOK, CallType, OutType, FramerType, BufferType, QueueType,
     DeviceType, hostVars, framerVars, localVars, deviceVars
<1> QED
  BY <1>1, <1>2, <1>3, <1>4, <1>5, <1>6, <1>7, <1>8, <1>9, <1>10, <1>11, <1>12,
     <1>13, <1>14, <1>15, <1>16, <1>17, <1>18 DEF Next, HostStep, DeviceStep

-----------------------------------------------------------------------------
(***************************************************************************)
(* The handle: nothing is queued without one, and none is used.            *)
(***************************************************************************)
\* A retry looks at the handle before it writes and reads again.
LEMMA HandleStep ==
    ASSUME TypeOK, HandleInv, [Next]_vars
    PROVE  HandleInv'
<1> USE DEF HandleInv, IoOnHandle
<1>1. ASSUME NEW c \in Cmds, BeginCall(c) PROVE HandleInv'
  BY <1>1 DEF BeginCall, Return
<1>2. CASE NoHandle \/ Attempt
  BY <1>2 DEF NoHandle, Attempt, Return, HasHandle
<1>3. CASE CloseForRetry \/ ReopenForRetry
  BY <1>3 DEF CloseForRetry, ReopenForRetry
<1>4. CASE WriteFrame \/ ReadError \/ Finish
  BY <1>4 DEF WriteFrame, ReadError, WantsFrame, Finish, Return
<1>5. CASE AcceptFrame \/ ShortReport \/ RejectHeader \/ WrongSeqno
  BY <1>5 DEF AcceptFrame, ShortReport, RejectHeader, WrongSeqno, NextReport, WantsFrame,
     Return
<1>6. ASSUME NEW ok \in BOOLEAN, Execute(ok) PROVE HandleInv'
  BY <1>6 DEF Execute, hostVars
<1>7. CASE EmitFrame
  BY <1>7 DEF EmitFrame, hostVars
<1>8. ASSUME NEW k \in JunkKinds, StrangeData(k) PROVE HandleInv'
  BY <1>8 DEF StrangeData, hostVars
<1>9. CASE Unplug \/ Plug
  BY <1>9 DEF Unplug, Plug, hostVars
<1>10. CASE UNCHANGED vars
  BY <1>10 DEF vars, hostVars
<1> QED
  BY <1>1, <1>2, <1>3, <1>4, <1>5, <1>6, <1>7, <1>8, <1>9, <1>10
     DEF Next, HostStep, DeviceStep

-----------------------------------------------------------------------------
(***************************************************************************)
(* The order of the frames.                                                *)
(***************************************************************************)
Reports == Seq(FrameType \cup JunkType)

\* Taking the first report moves every other one place forward.
LEMMA TailReports ==
    ASSUME NEW q \in Reports, q # <<>>
    PROVE  /\ Tail(q) \in Reports /\ Len(q) \in Nat /\ Len(Tail(q)) = Len(q) - 1
           /\ Head(q) = q[1]
           /\ \A i \in 1 .. Len(q) - 1 : Tail(q)[i] = q[i + 1]
           /\ \A m \in Nat \ {0}, n \in Nat :
                 n <= Len(q) - 1 /\ NoFirst(Tail(q), m, n) => NoFirst(q, m + 1, n + 1)
<1>1. /\ Tail(q) \in Reports /\ Len(q) \in Nat /\ Len(Tail(q)) = Len(q) - 1
      /\ Head(q) = q[1]
      /\ \A i \in 1 .. Len(q) - 1 : Tail(q)[i] = q[i + 1]
  BY HeadTailProperties DEF Reports
<1>2. ASSUME NEW m \in Nat \ {0}, NEW n \in Nat, n <= Len(q) - 1, NoFirst(Tail(q), m, n),
             NEW k \in m + 1 .. n + 1
      PROVE  ~First(q[k])
  <2>1. k - 1 \in m .. n /\ k - 1 \in 1 .. Len(q) - 1
    BY <1>1, <1>2
  <2>2. ~First(Tail(q)[k - 1])
    BY <1>2, <2>1 DEF NoFirst
  <2> QED
    BY <1>1, <2>1, <2>2
<1> QED
  BY <1>1, <1>2 DEF NoFirst

\* Adding a report leaves the others in their places.
LEMMA AppendReports ==
    ASSUME NEW q \in Reports, NEW f \in FrameType \cup JunkType
    PROVE  /\ Append(q, f) \in Reports /\ Len(q) \in Nat
           /\ Len(Append(q, f)) = Len(q) + 1
           /\ Append(q, f)[Len(q) + 1] = f
           /\ \A i \in 1 .. Len(q) : Append(q, f)[i] = q[i]
           /\ \A m \in Nat \ {0}, n \in Nat :
                 n <= Len(q) /\ NoFirst(Append(q, f), m, n) => NoFirst(q, m, n)
<1>1. /\ Append(q, f) \in Reports /\ Len(q) \in Nat
      /\ Len(Append(q, f)) = Len(q) + 1
      /\ Append(q, f)[Len(q) + 1] = f
      /\ \A i \in 1 .. Len(q) : Append(q, f)[i] = q[i]
  BY AppendProperties DEF Reports
<1> QED
  BY <1>1 DEF NoFirst

\* A step that leaves the queues alone, and at most gives up the buffer.
LEMMA QueueKept ==
    ASSUME QueueInv, rx' = rx, emit' = emit, served \subseteq served',
           Assembling' => Assembling /\ buffer' = buffer,
           m_dev' = "open" => m_dev = "open" \/ (rx = <<>> /\ ~Assembling')
    PROVE  QueueInv'
<1>1. FramesServed'
  BY DEF QueueInv, FramesServed
<1>2. QueueInOrder' /\ BufferThenQueue'
  BY DEF QueueInv, QueueInOrder, BufferThenQueue
<1>3. QueueThenEmit'
  BY DEF QueueInv, QueueThenEmit
<1> QED
  BY <1>1, <1>2, <1>3 DEF QueueInv

\* A step that takes a report, a first frame to start the buffer with or
\* another report.
LEMMA QueueConsumed ==
    ASSUME QueueInv, rx \in Reports, rx # <<>>, rx' = Tail(rx), emit' = emit,
           served' = served, m_dev' = m_dev,
           Assembling' =>
             \/ First(Head(rx)) /\ buffer'[1].ans = Head(rx).ans
             \/ ~First(Head(rx)) /\ Assembling /\ buffer'[1].ans = buffer[1].ans
    PROVE  QueueInv'
<1> DEFINE q == Tail(rx)
<1>1. /\ q \in Reports /\ Len(rx) \in Nat /\ Len(q) = Len(rx) - 1 /\ Head(rx) = rx[1]
      /\ \A i \in 1 .. Len(q) : q[i] = rx[i + 1]
      /\ \A m \in Nat \ {0}, n \in Nat :
            n <= Len(q) /\ NoFirst(q, m, n) => NoFirst(rx, m + 1, n + 1)
  BY TailReports
<1>2. FramesServed'
  BY <1>1 DEF QueueInv, FramesServed
<1>3. QueueInOrder'
  <2> SUFFICES ASSUME NEW i \in 1 .. Len(q), NEW j \in 1 .. Len(q), j < i,
                      First(q[j]), Second(q[i]), NoFirst(q, j + 1, i - 1)
               PROVE  q[i].ans = q[j].ans
    BY DEF QueueInOrder
  <2>1. NoFirst(rx, j + 2, i)
    BY <1>1
  <2>2. i + 1 \in 1 .. Len(rx) /\ j + 1 \in 1 .. Len(rx)
    BY <1>1
  <2> QED
    BY <1>1, <2>1, <2>2 DEF QueueInv, QueueInOrder
<1>4. BufferThenQueue'
  <2> SUFFICES ASSUME Assembling', NEW i \in 1 .. Len(q), Second(q[i]), NoFirst(q, 1, i - 1)
               PROVE  q[i].ans = buffer'[1].ans
    BY DEF BufferThenQueue
  <2>1. NoFirst(rx, 2, i) /\ i + 1 \in 1 .. Len(rx) /\ Second(rx[i + 1]) /\ 1 \in 1 .. Len(rx)
    BY <1>1
  <2>2. CASE First(Head(rx)) /\ buffer'[1].ans = Head(rx).ans
    BY <1>1, <2>1, <2>2 DEF QueueInv, QueueInOrder
  <2>3. CASE ~First(Head(rx)) /\ Assembling /\ buffer'[1].ans = buffer[1].ans
    <3>1. NoFirst(rx, 1, i)
      BY <1>1, <2>1, <2>3 DEF NoFirst
    <3> QED
      BY <1>1, <2>1, <2>3, <3>1 DEF QueueInv, BufferThenQueue
  <2> QED
    BY <2>2, <2>3
<1>5. QueueThenEmit'
  <2> SUFFICES ASSUME m_dev = "open", emit # <<>>, emit[1].seq = 1
               PROVE  /\ \A j \in 1 .. Len(q) :
                            First(q[j]) /\ NoFirst(q, j + 1, Len(q)) => emit[1].ans = q[j].ans
                      /\ Assembling' /\ NoFirst(q, 1, Len(q)) => emit[1].ans = buffer'[1].ans
    BY DEF QueueThenEmit
  <2>1. ASSUME NEW j \in 1 .. Len(q), First(q[j]), NoFirst(q, j + 1, Len(q))
        PROVE  emit[1].ans = q[j].ans
    <3>1. NoFirst(rx, j + 2, Len(rx)) /\ j + 1 \in 1 .. Len(rx)
      BY <1>1, <2>1
    <3> QED
      BY <1>1, <2>1, <3>1 DEF QueueInv, QueueThenEmit
  <2>2. ASSUME Assembling', NoFirst(q, 1, Len(q)) PROVE emit[1].ans = buffer'[1].ans
    <3>1. NoFirst(rx, 2, Len(rx)) /\ 1 \in 1 .. Len(rx)
      BY <1>1, <2>2
    <3>2. CASE First(Head(rx)) /\ buffer'[1].ans = Head(rx).ans
      BY <1>1, <3>1, <3>2 DEF QueueInv, QueueThenEmit
    <3>3. CASE ~First(Head(rx)) /\ Assembling /\ buffer'[1].ans = buffer[1].ans
      <4>1. NoFirst(rx, 1, Len(rx))
        BY <1>1, <3>1, <3>3 DEF NoFirst
      <4> QED
        BY <3>3, <4>1 DEF QueueInv, QueueThenEmit
    <3> QED
      BY <2>2, <3>2, <3>3
  <2> QED
    BY <2>1, <2>2
<1> QED
  BY <1>2, <1>3, <1>4, <1>5 DEF QueueInv

\* A step that adds a report to the queue: a strange one, or the next frame
\* the device has to send.
LEMMA QueueAppended ==
    ASSUME QueueInv, rx \in Reports, NEW f \in FrameType \cup JunkType,
           rx' = Append(rx, f), served' = served, m_dev = "open", m_dev' = m_dev,
           Assembling' = Assembling, buffer' = buffer, emit \in Seq(FrameType),
           \/ f \in JunkType /\ ~First(f) /\ ~Second(f) /\ f.kind # "answer" /\ emit' = emit
           \/ emit # <<>> /\ f = Head(emit) /\ emit' = Tail(emit)
    PROVE  QueueInv'
<1> DEFINE q == Append(rx, f)
           sent == emit # <<>> /\ f = Head(emit) /\ emit' = Tail(emit)
           strange == ~First(f) /\ ~Second(f) /\ f.kind # "answer" /\ emit' = emit
<1>1. PICK n \in Nat : n = Len(rx)
  BY DEF Reports
<1>2. /\ q \in Reports /\ Len(q) = n + 1 /\ q[n + 1] = f
      /\ \A i \in 1 .. n : q[i] = rx[i]
      /\ \A m \in Nat \ {0}, k \in Nat :
            k <= n /\ NoFirst(q, m, k) => NoFirst(rx, m, k)
  BY <1>1, AppendReports
<1>q. rx' = q
  OBVIOUS
<1> HIDE DEF q
<1>3. ASSUME sent
      PROVE  /\ Len(emit) \in Nat /\ Len(emit) >= 1 /\ f = emit[1]
             /\ Len(emit') = Len(emit) - 1
             /\ \A i \in 1 .. Len(emit) - 1 : emit'[i] = emit[i + 1]
             /\ emit[1] \in FrameType
  BY <1>3, HeadTailProperties
<1>4. FramesServed'
  <2>1. f.kind = "answer" => f.ans \in served
    <3>1. CASE sent
      BY <1>3, <3>1 DEF QueueInv, FramesServed
    <3> QED
      BY <3>1
  <2>2. \A i \in 1 .. n + 1 : q[i].kind = "answer" => q[i].ans \in served
    BY <1>1, <1>2, <2>1 DEF QueueInv, FramesServed
  <2>3. CASE strange
    BY <1>2, <1>q, <2>2, <2>3 DEF QueueInv, FramesServed
  <2>4. CASE sent
    <3> SUFFICES ASSUME NEW i \in 1 .. Len(emit')
                 PROVE  /\ emit'[i].ans \in served
                        /\ emit'[i].ans = emit'[1].ans
                        /\ emit'[i].seq = emit'[1].seq + i - 1
      BY <1>2, <1>q, <2>2 DEF FramesServed
    <3>1. i + 1 \in 1 .. Len(emit) /\ 2 \in 1 .. Len(emit)
          /\ emit'[i] = emit[i + 1] /\ emit'[1] = emit[2]
      BY <1>3, <2>4
    <3>2. emit[1].seq \in Nat
      BY <1>3, <2>4 DEF FrameType
    <3>3. /\ emit[i + 1].ans \in served /\ emit[i + 1].ans = emit[1].ans
          /\ emit[i + 1].seq = emit[1].seq + (i + 1) - 1
          /\ emit[2].ans = emit[1].ans /\ emit[2].seq = emit[1].seq + 2 - 1
      BY <3>1 DEF QueueInv, FramesServed
    <3> QED
      BY <3>1, <3>2, <3>3
  <2> QED
    BY <2>3, <2>4
<1>5. QueueInOrder'
  <2> SUFFICES ASSUME NEW i \in 1 .. n + 1, NEW j \in 1 .. n, j < i,
                      First(q[j]), Second(q[i]), NoFirst(q, j + 1, i - 1)
               PROVE  q[i].ans = q[j].ans
    BY <1>1, <1>2, <1>q DEF QueueInOrder
  <2>1. NoFirst(rx, j + 1, i - 1)
    BY <1>2
  <2>2. CASE i <= n
    BY <1>1, <1>2, <2>1, <2>2 DEF QueueInv, QueueInOrder
  <2>3. CASE i = n + 1
    BY <1>1, <1>2, <1>3, <2>1, <2>3 DEF QueueInv, QueueThenEmit, Second
  <2> QED
    BY <1>1, <2>2, <2>3
<1>6. BufferThenQueue'
  <2> SUFFICES ASSUME Assembling, NEW i \in 1 .. n + 1, Second(q[i]), NoFirst(q, 1, i - 1)
               PROVE  q[i].ans = buffer[1].ans
    BY <1>1, <1>2, <1>q DEF BufferThenQueue
  <2>1. NoFirst(rx, 1, i - 1)
    BY <1>2
  <2>2. CASE i <= n
    BY <1>1, <1>2, <2>1, <2>2 DEF QueueInv, BufferThenQueue
  <2>3. CASE i = n + 1
    BY <1>1, <1>2, <1>3, <2>1, <2>3 DEF QueueInv, QueueThenEmit, Second
  <2> QED
    BY <1>1, <2>2, <2>3
<1>7. QueueThenEmit'
  <2> SUFFICES ASSUME emit' # <<>>, emit'[1].seq = 1
               PROVE  /\ \A j \in 1 .. n + 1 :
                            First(q[j]) /\ NoFirst(q, j + 1, n + 1) => emit'[1].ans = q[j].ans
                      /\ Assembling /\ NoFirst(q, 1, n + 1) => emit'[1].ans = buffer[1].ans
    BY <1>1, <1>2, <1>q DEF QueueThenEmit
  <2>1. CASE strange
    <3>1. \A m \in Nat \ {0} : NoFirst(q, m, n + 1) => NoFirst(rx, m, n)
      <4>1. \A m \in Nat \ {0} : NoFirst(q, m, n + 1) => NoFirst(q, m, n)
        BY DEF NoFirst
      <4> QED
        BY <1>2, <4>1
    <3> QED
      BY <1>1, <1>2, <2>1, <3>1 DEF QueueInv, QueueThenEmit
  <2>2. CASE sent
    <3>1. 2 \in 1 .. Len(emit) /\ emit'[1] = emit[2]
      <4>1. Len(emit') # 0
        BY <1>3, <2>2, EmptySeq
      <4> QED
        BY <1>3, <2>2, <4>1
    <3>2. emit[2].ans = emit[1].ans /\ emit[2].seq = emit[1].seq + 2 - 1
      BY <3>1 DEF QueueInv, FramesServed
    <3>3. First(f)
      BY <1>3, <2>2, <3>1, <3>2 DEF First, FrameType
    <3>4. \A m \in 1 .. n + 1 : ~NoFirst(q, m, n + 1)
      BY <1>2, <3>3 DEF NoFirst
    <3>5. \A j \in 1 .. n + 1 : NoFirst(q, j + 1, n + 1) => j = n + 1
      BY <3>4
    <3> QED
      BY <1>2, <1>3, <2>2, <3>1, <3>2, <3>4, <3>5
  <2> QED
    BY <2>1, <2>2
<1> QED
  BY <1>4, <1>5, <1>6, <1>7 DEF QueueInv

\* Every step of host, device and user keeps second frames behind their first.
LEMMA QueueStep ==
    ASSUME TypeOK, HandleInv, QueueInv, BufferInv, [Next]_vars
    PROVE  QueueInv'
<1> USE ExchangeAssumption
<1>0. rx \in Reports /\ emit \in Seq(FrameType)
  BY DEF TypeOK, QueueType, Reports
<1>1. ASSUME NEW c \in Cmds, BeginCall(c) PROVE QueueInv'
  BY <1>1, QueueKept DEF BeginCall, Return, Assembling, localVars, deviceVars
<1>2. CASE NoHandle \/ Attempt
  BY <1>2, QueueKept DEF NoHandle, Attempt, Return, Assembling, localVars, deviceVars
<1>3. CASE CloseForRetry
  BY <1>3 DEF CloseForRetry, QueueInv, FramesServed, QueueInOrder, BufferThenQueue,
     QueueThenEmit, Assembling, localVars, deviceVars
<1>4. CASE ReopenForRetry
  BY <1>4, QueueKept DEF ReopenForRetry, HandleInv, Assembling, localVars, deviceVars
<1>5. CASE WriteFrame
  BY <1>5, QueueKept DEF WriteFrame, BufferInv, Assembling
<1>6. CASE AcceptFrame
  <2>1. CASE buffer = <<>>
    <3>1. m_seq = 0
      BY <1>6, <2>1 DEF AcceptFrame, NextReport, WantsFrame, BufferInv
    <3>2. First(Head(rx)) /\ buffer'[1].ans = Head(rx).ans
      BY <1>6, <2>1, <3>1 DEF AcceptFrame, First
    <3> QED
      BY <1>0, <1>6, <3>2, QueueConsumed DEF AcceptFrame, NextReport, deviceVars
  <2>2. CASE buffer # <<>>
    <3>1. PICK n \in Nat : n = Len(buffer) /\ n >= 1
      BY <2>2, EmptySeq DEF TypeOK, BufferType
    <3>2. m_seq = n
      BY <1>6, <3>1 DEF AcceptFrame, NextReport, WantsFrame, BufferInv
    <3>3. ~First(Head(rx)) /\ buffer'[1] = buffer[1]
      BY <1>6, <3>1, <3>2 DEF AcceptFrame, First, TypeOK, BufferType
    <3>4. Assembling
      BY <1>6, <2>2 DEF AcceptFrame, NextReport, WantsFrame, Assembling
    <3> QED
      BY <1>0, <1>6, <3>3, <3>4, QueueConsumed DEF AcceptFrame, NextReport, deviceVars
  <2> QED
    BY <2>1, <2>2
<1>7. CASE ShortReport
  <2>1. ~First(Head(rx)) /\ Assembling' = Assembling /\ buffer' = buffer
    BY <1>7 DEF ShortReport, First, Assembling
  <2> QED
    BY <1>0, <1>7, <2>1, QueueConsumed DEF ShortReport, NextReport, deviceVars
<1>8. CASE RejectHeader \/ WrongSeqno
  <2>1. ~Assembling'
    BY <1>8 DEF RejectHeader, WrongSeqno, Return, Assembling
  <2> QED
    BY <1>0, <1>8, <2>1, QueueConsumed DEF RejectHeader, WrongSeqno, NextReport, deviceVars
<1>9. CASE ReadError \/ Finish
  BY <1>9, QueueKept DEF ReadError, WantsFrame, Finish, Return, Assembling, deviceVars
<1>10. ASSUME NEW ok \in BOOLEAN, Execute(ok) PROVE QueueInv'
  <2> DEFINE a == Answer(Head(pending), ok)
  <2>1. a \in AnswerType
    <3>1. Head(pending) \in RequestType
      BY <1>10 DEF Execute, TypeOK, DeviceType
    <3> QED
      BY <3>1 DEF Answer, AnswerType, RequestType
  <2> HIDE DEF a
  <2>2. /\ emit' = Frames(a) /\ served' = served \cup {a} /\ rx' = rx
        /\ m_dev' = m_dev /\ buffer' = buffer /\ pc' = pc
    BY <1>10 DEF Execute, hostVars, localVars, a
  <2>3. /\ Len(Frames(a)) \in Nat /\ Len(Frames(a)) >= 1
        /\ \A i \in 1 .. Len(Frames(a)) : emit'[i].ans = a /\ emit'[i].seq = i - 1
    <3> DEFINE e == Frames(a)
    <3>1. /\ Len(e) \in Nat /\ Len(e) >= 1
          /\ \A i \in 1 .. Len(e) : e[i] = [kind |-> "answer", ans |-> a, seq |-> i - 1]
      BY <2>1, FramesType
    <3> HIDE DEF e
    <3>2. ASSUME NEW i \in 1 .. Len(e) PROVE e[i].ans = a /\ e[i].seq = i - 1
      <4> DEFINE f == e[i]
      <4>1. f = [kind |-> "answer", ans |-> a, seq |-> i - 1]
        BY <3>1
      <4> HIDE DEF f
      <4>2. f.ans = a /\ f.seq = i - 1
        BY <4>1
      <4> QED
        BY <4>2 DEF f
    <3> QED
      BY <2>2, <3>1, <3>2 DEF e
  <2>31. emit'[1].ans = a /\ emit'[1].seq = 0
    BY <2>3
  <2>4. FramesServed'
    BY <2>2, <2>3, <2>31 DEF QueueInv, FramesServed
  <2>5. QueueThenEmit'
    BY <2>31 DEF QueueThenEmit
  <2> QED
    BY <2>2, <2>4, <2>5 DEF QueueInv, QueueInOrder, BufferThenQueue, Assembling
<1>11. CASE EmitFrame
  <2>1. CASE m_dev = "open"
    <3>1. Head(emit) \in FrameType \cup JunkType
      BY <1>0, <1>11 DEF EmitFrame
    <3> QED
      BY <1>0, <1>11, <2>1, <3>1, QueueAppended DEF EmitFrame, hostVars, localVars, Assembling
  <2>2. CASE m_dev # "open"
    <3>1. FramesServed'
      <4>1. /\ Len(emit) \in Nat /\ Len(emit) >= 1 /\ Len(emit') = Len(emit) - 1
            /\ \A i \in 1 .. Len(emit) - 1 : emit'[i] = emit[i + 1]
        BY <1>0, <1>11, HeadTailProperties DEF EmitFrame
      <4>2. rx' = rx /\ served' = served
        BY <1>11, <2>2 DEF EmitFrame
      <4> SUFFICES ASSUME NEW i \in 1 .. Len(emit')
                   PROVE  /\ emit'[i].ans \in served
                          /\ emit'[i].ans = emit'[1].ans
                          /\ emit'[i].seq = emit'[1].seq + i - 1
        BY <4>2 DEF QueueInv, FramesServed
      <4>3. i + 1 \in 1 .. Len(emit) /\ 2 \in 1 .. Len(emit) /\ 1 \in 1 .. Len(emit)
            /\ emit'[i] = emit[i + 1] /\ emit'[1] = emit[2]
        BY <4>1
      <4>4. emit[1].seq \in Nat
        <5>1. emit[1] \in FrameType
          BY <1>0, <4>3
        <5> QED
          BY <5>1 DEF FrameType
      <4>5. /\ emit[i + 1].ans \in served /\ emit[i + 1].ans = emit[1].ans
            /\ emit[i + 1].seq = emit[1].seq + (i + 1) - 1
            /\ emit[2].ans = emit[1].ans /\ emit[2].seq = emit[1].seq + 2 - 1
        BY <4>3 DEF QueueInv, FramesServed
      <4> QED
        <5>1. emit'[i].ans \in served /\ emit'[i].ans = emit'[1].ans
          BY <4>3, <4>5
        <5>2. emit'[i].seq = emit[1].seq + (i + 1) - 1 /\ emit'[1].seq = emit[1].seq + 2 - 1
          BY <4>3, <4>5
        <5>3. i \in Nat
          BY <4>1
        <5>4. emit'[i].seq = emit'[1].seq + i - 1
          BY <4>4, <5>2, <5>3
        <5> QED
          BY <5>1, <5>4
    <3> QED
      BY <1>11, <2>2, <3>1 DEF EmitFrame, hostVars, localVars, QueueInv, QueueInOrder,
         BufferThenQueue, QueueThenEmit, Assembling
  <2> QED
    BY <2>1, <2>2
<1>12. ASSUME NEW k \in JunkKinds, StrangeData(k) PROVE QueueInv'
  <2> DEFINE f == [kind |-> k, ans |-> NoAnswer, seq |-> StraySeq]
  <2>1. f \in JunkType /\ ~First(f) /\ ~Second(f) /\ f.kind # "answer"
    BY DEF JunkType, First, Second
  <2>2. rx' = Append(rx, f)
    BY <1>12 DEF StrangeData
  <2> HIDE DEF f
  <2> QED
    BY <1>0, <1>12, <2>1, <2>2, QueueAppended DEF StrangeData, hostVars, localVars, Assembling
<1>13. CASE Unplug
  BY <1>13 DEF Unplug, QueueInv, FramesServed, QueueInOrder, BufferThenQueue,
     QueueThenEmit, Assembling, localVars
<1>14. CASE Plug \/ UNCHANGED vars
  BY <1>14, QueueKept DEF Plug, vars, hostVars, localVars, deviceVars, Assembling
<1> QED
  BY <1>1, <1>2, <1>3, <1>4, <1>5, <1>6, <1>7, <1>8, <1>9, <1>10, <1>11, <1>12, <1>13,
     <1>14 DEF Next, HostStep, DeviceStep

-----------------------------------------------------------------------------
(***************************************************************************)
(* The response buffer.                                                    *)
(***************************************************************************)
\* A step that leaves the buffer, or the reading of it, alone.
LEMMA BufferKept ==
    ASSUME BufferInv, pc' \notin {"write", "read"} \/ pc' = pc, served \subseteq served',
           UNCHANGED <<buffer, respLen, m_seq, rn>>
    PROVE  BufferInv'
BY DEF BufferInv, Assembling, Assembled

\* A read that brought no data is counted with 5 bytes: on an empty buffer it
\* makes the response length 2, which ends the loop.
LEMMA BufferCounted ==
    ASSUME TypeOK, BufferInv, WantsFrame, CountRead(0), pc' = pc, served' = served,
           UNCHANGED <<buffer, m_seq>>
    PROVE  BufferInv'
<1>1. rn \in Nat /\ pc = "read" /\ rn' = rn + 5
  BY DEF TypeOK, FramerType, WantsFrame, CountRead, HeaderSize
<1>2. CASE buffer = <<>>
  <2>1. respLen = NotRead
    BY <1>1, <1>2 DEF BufferInv, WantsFrame, WantsMore
  <2>2. Num16(<<>>, 0) = 0
    BY 0 + 1 \in Nat, EmptyBuffer DEF Num16
  <2>3. respLen' = 2
    BY <1>2, <2>1, <2>2 DEF CountRead, Uint16
  <2> QED
    BY <1>1, <1>2, <2>3 DEF BufferInv, Assembling
<1>3. CASE buffer # <<>>
  <2>1. Assembled /\ Assembling
    BY <1>1, <1>3 DEF BufferInv, Assembling
  <2>2. buffer[1].ans \in AnswerType
    BY <2>1 DEF Assembled, TypeOK, DeviceType
  <2>3. respLen # NotRead
    BY <2>1, <2>2, AnswerLengths DEF Assembled, NotRead
  <2>4. respLen' = respLen
    BY <2>3 DEF CountRead
  <2>5. PICK n \in Nat : n = Len(buffer)
    BY DEF TypeOK, BufferType
  <2>6. rn' >= FrameSize * Len(buffer)
    BY <1>1, <2>1, <2>5 DEF Assembled, FrameSize
  <2>7. Assembled'
    BY <2>1, <2>4, <2>6 DEF Assembled
  <2> QED
    BY <1>1, <1>3, <2>7 DEF BufferInv
<1> QED
  BY <1>2, <1>3

\* The frame that is accepted starts the buffer, or extends it.
LEMMA BufferAccepts ==
    ASSUME TypeOK, QueueInv, BufferInv, AcceptFrame
    PROVE  BufferInv'
<1> DEFINE w == [pos |-> NextPos, ans |-> Head(rx).ans, seq |-> Head(rx).seq]
<1>1. /\ rx # <<>> /\ WantsFrame /\ pc = "read" /\ pc' = "read"
      /\ Head(rx).kind = "answer" /\ Head(rx).seq = m_seq
      /\ buffer' = Append(buffer, w) /\ m_seq' = Uint16(m_seq + 1)
      /\ CountRead(DataSize) /\ served' = served
  BY DEF AcceptFrame, NextReport, WantsFrame, deviceVars
<1>2. /\ Head(rx) = rx[1] /\ 1 \in 1 .. Len(rx) /\ Head(rx) \in FrameType \cup JunkType
  <2>1. rx \in Reports
    BY DEF TypeOK, QueueType, Reports
  <2>2. Head(rx) = rx[1] /\ Len(rx) \in Nat /\ Head(rx) \in FrameType \cup JunkType
    BY <1>1, <2>1, TailReports, HeadTailProperties DEF Reports
  <2>3. Len(rx) # 0
    BY <1>1, <2>1, EmptySeq DEF Reports
  <2> QED
    BY <2>2, <2>3
<1>3. Head(rx) \in FrameType
  BY <1>1, <1>2, ExchangeAssumption DEF JunkType
<1>4. w \in WriteType
  <2>1. NextPos \in Nat
    BY DEF TypeOK, NextPos, FramerType, HeaderSize, FrameSize
  <2> QED
    BY <1>3, <2>1 DEF FrameType, WriteType
<1>5. Head(rx).ans \in served
  BY <1>1, <1>2 DEF QueueInv, FramesServed
<1>6. rn \in Nat /\ rn' = rn + 64
  BY <1>1 DEF TypeOK, FramerType, CountRead, DataSize, FrameSize, HeaderSize
<1>7. CASE buffer = <<>>
  <2>1. respLen = NotRead /\ m_seq = 0
    BY <1>1, <1>6, <1>7 DEF BufferInv, WantsFrame, WantsMore
  <2>2. w.pos = 0 /\ w.seq = 0 /\ w.ans = Head(rx).ans
    BY <1>1, <2>1 DEF NextPos
  <2> HIDE DEF w
  <2>3. buffer' = <<w>> /\ Len(buffer') = 1 /\ buffer'[1] = w
    BY <1>1, <1>7
  <2>4. respLen' = AnswerTotal(w.ans)
    BY <1>1, <1>4, <2>1, <2>2, <2>3, LengthPrefix DEF CountRead
  <2>5. Assembled'
    BY <1>1, <1>5, <1>6, <2>2, <2>3, <2>4 DEF Assembled, FrameSize
  <2>6. m_seq' = Len(buffer')
    BY <1>1, <2>1, <2>3 DEF Uint16
  <2>7. buffer' # <<>>
    BY <2>3
  <2> QED
    BY <1>1, <2>5, <2>6, <2>7 DEF BufferInv
<1>8. CASE buffer # <<>>
  <2>1. PICK n \in Nat : n = Len(buffer) /\ n >= 1
    BY <1>8, EmptySeq DEF TypeOK, BufferType
  <2>2. Assembled /\ m_seq = n
    BY <1>1, <1>8, <2>1 DEF BufferInv, Assembling
  <2>3. buffer[1].ans \in AnswerType
    BY <2>2 DEF Assembled, TypeOK, DeviceType
  <2>4. respLen \in Nat /\ respLen <= 260 /\ respLen # NotRead /\ respLen' = respLen
    <3>1. respLen \in Nat /\ respLen <= 260 /\ respLen # NotRead
      BY <2>2, <2>3, AnswerLengths DEF Assembled, NotRead
    <3> QED
      BY <1>1, <3>1 DEF CountRead
  <2>5. rn < respLen /\ rn >= 64 * n
    BY <1>1, <2>1, <2>2, <2>4 DEF WantsFrame, WantsMore, Assembled, FrameSize
  <2>6. n <= 4 /\ (respLen <= 118 => n = 1)
    BY <1>6, <2>1, <2>4, <2>5
  <2>7. m_seq' = n + 1
    BY <1>1, <2>1, <2>2, <2>6 DEF Uint16
  <2>8. m_offset \in Nat /\ m_offset % 64 = 0 /\ m_offset >= 64 /\ w.pos = m_offset - 5
    BY <2>1, <2>2 DEF TypeOK, FramerType, NextPos, HeaderSize, FrameSize
  <2>9. n = 1 => w.ans = buffer[1].ans /\ w.seq = 1
    <3>1. n = 1 => Second(rx[1]) /\ NoFirst(rx, 1, 1 - 1)
      BY <1>1, <1>2, <2>2 DEF Second, NoFirst
    <3>2. Assembling
      BY <1>1, <1>8 DEF Assembling
    <3> QED
      BY <1>1, <1>2, <2>2, <3>1, <3>2 DEF QueueInv, BufferThenQueue
  <2> HIDE DEF w
  <2>10. /\ Len(buffer') = n + 1 /\ buffer'[1] = buffer[1] /\ buffer' # <<>>
         /\ n = 1 => buffer'[2] = w
         /\ n >= 2 => buffer'[2] = buffer[2]
    BY <1>1, <1>4, <2>1, AppendProperties DEF TypeOK, BufferType
  <2>11. n = 1 => /\ buffer'[2].ans = buffer'[1].ans /\ buffer'[2].seq = 1
                  /\ buffer'[2].pos >= DataSize
                  /\ (buffer'[2].pos + HeaderSize) % FrameSize = 0
    BY <2>8, <2>9, <2>10 DEF DataSize, FrameSize, HeaderSize
  <2>12. Assembled'
    <3>1. rn' >= FrameSize * Len(buffer')
      BY <1>6, <2>1, <2>5, <2>10 DEF FrameSize
    <3>2. respLen' <= 2 * DataSize => Len(buffer') <= 2
      <4>1. 2 * DataSize = 118
        BY DEF DataSize, FrameSize, HeaderSize
      <4>2. respLen <= 118 => n + 1 <= 2
        BY <2>4, <2>6
      <4> QED
        BY <2>4, <2>10, <4>1, <4>2
    <3>3. CASE n = 1
      BY <1>1, <2>2, <2>4, <2>10, <2>11, <3>1, <3>2, <3>3 DEF Assembled
    <3>4. CASE n >= 2
      BY <1>1, <2>1, <2>2, <2>4, <2>10, <3>1, <3>2, <3>4 DEF Assembled
    <3> QED
      BY <2>1, <3>3, <3>4
  <2> QED
    BY <1>1, <2>7, <2>10, <2>12 DEF BufferInv
<1> QED
  BY <1>7, <1>8

\* Every step of host, device and user keeps the buffer what it should be.
LEMMA BufferStep ==
    ASSUME TypeOK, HandleInv, QueueInv, BufferInv, [Next]_vars
    PROVE  BufferInv'
<1>1. ASSUME NEW c \in Cmds, BeginCall(c) PROVE BufferInv'
  BY <1>1, BufferKept DEF BeginCall, Return, framerVars, localVars, deviceVars
<1>2. CASE NoHandle \/ CloseForRetry \/ ReopenForRetry
  BY <1>2, BufferKept DEF NoHandle, CloseForRetry, ReopenForRetry, Return,
     framerVars, localVars, deviceVars
<1>3. CASE Attempt
  BY <1>3 DEF Attempt, BufferInv, Assembling
<1>4. CASE WriteFrame
  <2>1. buffer = <<>> /\ respLen = NotRead /\ m_seq = Len(buffer)
    BY <1>4 DEF WriteFrame, BufferInv
  <2> QED
    BY <1>4, <2>1 DEF WriteFrame, BufferInv, Assembling, framerVars
<1>5. CASE AcceptFrame
  BY <1>5, BufferAccepts
<1>6. CASE ShortReport
  BY <1>6, BufferCounted DEF ShortReport, NextReport, deviceVars
<1>7. CASE RejectHeader \/ WrongSeqno
  BY <1>7, BufferKept DEF RejectHeader, WrongSeqno, Return, framerVars, localVars, deviceVars
<1>8. CASE ReadError
  <2>1. CASE ErrorString
    BY <1>8, <2>1, BufferKept DEF ReadError, deviceVars
  <2>2. CASE ~ErrorString
    BY <1>8, <2>2, BufferCounted DEF ReadError, deviceVars
  <2> QED
    BY <2>1, <2>2
<1>9. CASE Finish
  BY <1>9 DEF Finish, Return, BufferInv, Assembling
<1>10. ASSUME NEW ok \in BOOLEAN, Execute(ok) PROVE BufferInv'
  BY <1>10, BufferKept DEF Execute, hostVars, framerVars, localVars
<1>11. CASE EmitFrame
  BY <1>11, BufferKept DEF EmitFrame, hostVars, framerVars, localVars
<1>12. ASSUME NEW k \in JunkKinds, StrangeData(k) PROVE BufferInv'
  BY <1>12, BufferKept DEF StrangeData, hostVars, framerVars, localVars
<1>13. CASE Unplug \/ Plug \/ UNCHANGED vars
  BY <1>13, BufferKept DEF Unplug, Plug, vars, hostVars, framerVars, localVars, deviceVars
<1> QED
  BY <1>1, <1>2, <1>3, <1>4, <1>5, <1>6, <1>7, <1>8, <1>9, <1>10, <1>11, <1>12, <1>13
     DEF Next, HostStep, DeviceStep

-----------------------------------------------------------------------------
(***************************************************************************)
(* A reply with CODE_SUCCESS is complete.                                  *)
(***************************************************************************)
\* The step that ends a call: in a buffer of one or two frames a status word
\* 0x9000 at the end vouches for every payload byte before it, because the
\* high byte of the status word, if it lies beyond the first frame, is not
\* zero only when the second frame is in its place.
LEMMA ReplyIsComplete ==
    ASSUME TypeOK, BufferInv, pc = "read", respLen # NotRead, respLen <= 2 * DataSize,
           Num16(buffer, respLen - 2) = CODE_SUCCESS
    PROVE  \E a \in served : a.ok /\ HoldsPayloadOf(buffer, respLen, a)
<1>1. buffer \in Seq(WriteType) /\ served \subseteq AnswerType
  BY DEF TypeOK, BufferType, DeviceType
<1>2. CASE buffer = <<>>
  <2>1. respLen - 2 = 0
    BY <1>2 DEF BufferInv
  <2>2. Num16(<<>>, 0) = 0
    BY 0 + 1 \in Nat, EmptyBuffer DEF Num16
  <2> QED
    BY <1>2, <2>1, <2>2 DEF CODE_SUCCESS
<1>3. CASE buffer # <<>>
  <2> DEFINE a == buffer[1].ans
  <2>1. Assembled
    BY <1>3 DEF BufferInv, Assembling
  <2>2. a \in served /\ a \in AnswerType
    BY <1>1, <2>1 DEF Assembled
  <2>3. PICK t \in Nat : /\ t = respLen /\ t = AnswerTotal(a) /\ t >= 4 /\ t <= 118
                         /\ ~a.ok => t = 4
    BY <2>1, <2>2, AnswerLengths DEF Assembled, DataSize, FrameSize, HeaderSize
  <2>4. PICK n \in Nat : n = Len(buffer) /\ n >= 1 /\ n <= 2
    BY <1>1, <1>3, <2>1, EmptySeq DEF Assembled
  <2>41. ASSUME n = 2 PROVE buffer[2] \in WriteType
    <3>1. 2 \in 1 .. Len(buffer)
      BY <2>4, <2>41
    <3> QED
      BY <1>1, <3>1
  <2>5. /\ Len(buffer) >= 1 /\ Len(buffer) <= 2
        /\ buffer[1].pos = 0 /\ buffer[1].seq = 0
        /\ Len(buffer) = 2 => buffer[2].pos >= DataSize
    BY <2>1, <2>4 DEF Assembled
  <2>6. \A p \in Nat : p < DataSize => Origin(buffer, p) = [ans |-> a, at |-> p]
    BY <1>1, <2>5, FirstFrameBytes
  <2>7. CASE t <= 61
    <3>1. a.ok
      <4> SUFFICES ASSUME ~a.ok PROVE FALSE
        OBVIOUS
      <4>1. t = 4
        BY <2>3
      <4>2. /\ Origin(buffer, 2) = [ans |-> a, at |-> 2]
            /\ Origin(buffer, 3) = [ans |-> a, at |-> 3]
        BY <2>6 DEF DataSize, FrameSize, HeaderSize
      <4>3. a # NoAnswer
        BY <2>2, AnswerIsSome
      <4>4. /\ ByteAt(buffer, 2) = StatusWord(a) \div 256
            /\ ByteAt(buffer, 3) = StatusWord(a) % 256
        <5>1. AnswerTotal(a) = 4
          BY <2>3, <4>1
        <5>2. /\ AnswerByte(a, 2) = StatusWord(a) \div 256
              /\ AnswerByte(a, 3) = StatusWord(a) % 256
          BY <5>1 DEF AnswerByte
        <5> QED
          BY <4>2, <4>3, <5>2 DEF ByteAt
      <4>5. Num16(buffer, 2) = 27013
        BY <4>4 DEF Num16, StatusWord, CODE_USER_REJECTED
      <4> QED
        BY <2>3, <4>1, <4>5 DEF CODE_SUCCESS
    <3>2. \A p \in 2 .. respLen - 3 : Origin(buffer, p) = [ans |-> a, at |-> p]
      BY <2>3, <2>6, <2>7 DEF DataSize, FrameSize, HeaderSize
    <3> QED
      BY <2>2, <2>3, <3>1, <3>2 DEF HoldsPayloadOf
  <2>8. CASE t >= 62
    <3>1. a.ok
      BY <2>3, <2>8
    <3>2. ByteAt(buffer, t - 2) # 0
      <4>1. PICK b \in Nat : b = ByteAt(buffer, t - 1) /\ b < 256
        BY <1>1, <2>8, t - 1 \in Nat, BufferBytes DEF Byte
      <4>2. Num16(buffer, t - 2) = 256 * ByteAt(buffer, t - 2) + b
        BY <4>1, (t - 2) + 1 = t - 1 DEF Num16
      <4>3. Num16(buffer, t - 2) = 36864
        BY <2>3 DEF CODE_SUCCESS
      <4> QED
        BY <4>1, <4>2, <4>3
    <3>3. n = 2 /\ buffer[2].pos < 2 * DataSize
      <4>1. t - 2 \in Nat /\ t - 2 >= DataSize /\ t - 2 < 2 * DataSize
        BY <2>3, <2>8 DEF DataSize, FrameSize, HeaderSize
      <4>2. ~(Len(buffer) = 2 => buffer[2].pos >= 2 * DataSize)
        BY <1>1, <2>5, <3>2, <4>1, UnwrittenBytes
      <4>3. n = 2 => buffer[2].pos \in Nat
        BY <2>41 DEF WriteType
      <4> QED
        BY <2>4, <4>2, <4>3 DEF DataSize, FrameSize, HeaderSize
    <3>4. buffer[2].ans = a /\ buffer[2].seq = 1 /\ buffer[2].pos = DataSize
      <4>1. buffer[2] \in WriteType
        BY <2>41, <3>3
      <4>2. PICK k \in Nat : k = buffer[2].pos
        BY <4>1 DEF WriteType
      <4>3. /\ buffer[2].ans = a /\ buffer[2].seq = 1 /\ k >= 59 /\ (k + 5) % 64 = 0
        BY <2>1, <2>4, <3>3, <4>2 DEF Assembled, DataSize, FrameSize, HeaderSize
      <4>4. k < 118
        BY <3>3, <4>2 DEF DataSize, FrameSize, HeaderSize
      <4>5. k = 59
        BY <4>3, <4>4
      <4> QED
        BY <4>2, <4>3, <4>5 DEF DataSize, FrameSize, HeaderSize
    <3>5. \A p \in Nat : p >= DataSize /\ p < 2 * DataSize =>
             Origin(buffer, p) = [ans |-> a, at |-> p]
      BY <1>1, <2>4, <2>5, <3>3, <3>4, SecondFrameBytes
    <3>6. \A p \in 2 .. respLen - 3 : Origin(buffer, p) = [ans |-> a, at |-> p]
      BY <2>3, <2>6, <3>5 DEF DataSize, FrameSize, HeaderSize
    <3> QED
      BY <2>2, <2>3, <3>1, <3>6 DEF HoldsPayloadOf
  <2> QED
    BY <2>3, <2>7, <2>8
<1> QED
  BY <1>2, <1>3

\* Every step keeps it: `out' changes when a call begins and when it ends.
LEMMA CompleteStep ==
    ASSUME TypeOK, BufferInv, SuccessIsComplete, [Next]_vars
    PROVE  SuccessIsComplete'
<1>1. ASSUME out' = out, served \subseteq served' PROVE SuccessIsComplete'
  BY <1>1 DEF SuccessIsComplete
<1>2. ASSUME out'.kind # "reply" PROVE SuccessIsComplete'
  BY <1>2 DEF SuccessIsComplete
<1>3. ASSUME NEW c \in Cmds, BeginCall(c) PROVE SuccessIsComplete'
  <2>1. out'.kind # "reply"
    BY <1>3 DEF BeginCall, Return, NoOut
  <2> QED
    BY <1>2, <2>1
<1>4. CASE NoHandle \/ RejectHeader
  <2>1. out'.kind # "reply"
    BY <1>4 DEF NoHandle, RejectHeader, Return
  <2> QED
    BY <1>2, <2>1
<1>5. CASE Finish
  <2>1. CASE Return("reply", Num16(buffer, respLen - 2), respLen, buffer)
    <3>1. /\ out'.status = Num16(buffer, respLen - 2)
          /\ out'.respLen = respLen /\ out'.buf = buffer /\ served' = served
      BY <1>5, <2>1 DEF Return, Finish, deviceVars
    <3>2. pc = "read" /\ respLen # NotRead
      BY <1>5 DEF Finish
    <3> QED
      BY <3>1, <3>2, ReplyIsComplete DEF SuccessIsComplete
  <2>2. CASE Return("throw", CODE_SUCCESS, 0, <<>>)
    <3>1. out'.kind # "reply"
      BY <2>2 DEF Return
    <3> QED
      BY <1>2, <3>1
  <2> QED
    BY <1>5, <2>1, <2>2 DEF Finish
<1>6. CASE Attempt \/ CloseForRetry \/ ReopenForRetry
  BY <1>1, <1>6 DEF Attempt, CloseForRetry, ReopenForRetry, deviceVars
<1>7. CASE WriteFrame \/ AcceptFrame \/ ShortReport \/ WrongSeqno \/ ReadError
  BY <1>1, <1>7 DEF WriteFrame, AcceptFrame, ShortReport, WrongSeqno, ReadError, deviceVars
<1>8. ASSUME NEW ok \in BOOLEAN, Execute(ok) PROVE SuccessIsComplete'
  BY <1>1, <1>8 DEF Execute, hostVars
<1>9. ASSUME NEW k \in JunkKinds, StrangeData(k) PROVE SuccessIsComplete'
  BY <1>1, <1>9 DEF StrangeData, hostVars
<1>10. CASE EmitFrame \/ Unplug \/ Plug \/ UNCHANGED vars
  BY <1>1, <1>10 DEF EmitFrame, Unplug, Plug, vars, hostVars, deviceVars
<1> QED
  BY <1>3, <1>4, <1>5, <1>6, <1>7, <1>8, <1>9, <1>10 DEF Next, HostStep, DeviceStep

-----------------------------------------------------------------------------
(***************************************************************************)
(* The theorems.                                                           *)
(***************************************************************************)
\* The wallet starts with nothing queued, sent or returned.
LEMMA ExchangeInit == Init => ExchangeInv
<1> SUFFICES ASSUME Init PROVE ExchangeInv
  OBVIOUS
<1>1. HandleInv /\ SuccessIsComplete
  BY DEF Init, HandleInv, IoOnHandle, SuccessIsComplete, NoOut
<1>2. QueueInv
  BY DEF Init, QueueInv, FramesServed, QueueInOrder, BufferThenQueue, QueueThenEmit, Assembling
<1>3. BufferInv
  BY DEF Init, BufferInv, Assembling
<1> QED
  BY <1>1, <1>2, <1>3, TypeInit DEF ExchangeInv

\* Whatever strange reports arrive, however often an exchange is retried and
\* wherever the device is unplugged, ExchangeInv holds: second frames stay
\* behind their first, in the queue and across it, and the response buffer of
\* a running exchange holds frames of one answer.
THEOREM ExchangeInvariant == Spec => []ExchangeInv
<1>1. Init => ExchangeInv
  BY ExchangeInit
<1>2. ExchangeInv /\ [Next]_vars => ExchangeInv'
  BY TypeStep, HandleStep, QueueStep, BufferStep, CompleteStep DEF ExchangeInv
<1> QED
  BY <1>1, <1>2, PTL DEF Spec

\* Every variable keeps its type, m_offset moves in whole reports, and a
\* request is written only for a call that was begun.
THEOREM TypeCorrect == Spec => []TypeOK
<1>1. ExchangeInv => TypeOK
  BY DEF ExchangeInv
<1> QED
  BY <1>1, ExchangeInvariant, PTL

\* A call that returns CODE_SUCCESS with an answer of at most two frames
\* returns the whole payload of one answer of the device.
THEOREM SuccessComplete == Spec => []SuccessIsComplete
<1>1. ExchangeInv => SuccessIsComplete
  BY DEF ExchangeInv
<1> QED
  BY <1>1, ExchangeInvariant, PTL

\* No retry writes to, or reads from, a handle that could not be reopened.
THEOREM IoNeedsHandle == Spec => []IoOnHandle
<1>1. ExchangeInv => IoOnHandle
  BY DEF ExchangeInv, HandleInv
<1> QED
  BY <1>1, ExchangeInvariant, PTL
=============================================================================
