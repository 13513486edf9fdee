---------------------------- MODULE ApduFraming ----------------------------
(***************************************************************************)
(* How an APDU answer of the Ledger travels in 64-byte HID reports, and    *)
(* where frame_io::read puts the bytes of each report.                     *)
(*                                                                         *)
(* An answer is the byte string                                            *)
(*                                                                         *)
(*     <2 bytes: length of the rest> <payload> <2 bytes: status word>      *)
(*                                                                         *)
(* cut by the device into frames of DataSize bytes, each behind a header   *)
(* of 5 bytes (channel, tag, sequence number).  The response buffer is     *)
(* kept as the sequence of the writes made to it: a later write hides an   *)
(* earlier one, and a byte nobody wrote is zero.  A byte is known by its   *)
(* origin (which answer, which position), so that a property can tell a    *)
(* byte that is right from a byte that merely looks right.                 *)
(***************************************************************************)
EXTENDS Integers, Sequences

CONSTANTS
    Cmds,         \* the commands the wallet sends
    Payload,      \* Payload[c]: the payload bytes the device answers c with
    RequestSize   \* RequestSize[c]: payload_size of the APDU of c

Byte == {n \in Nat : n < 256}

\* The longest payload of a short APDU answer.
MaxPayload == 256

ASSUME FramingAssumption ==
    /\ Payload \in [Cmds -> Seq(Byte)]
    /\ \A c \in Cmds : Len(Payload[c]) <= MaxPayload
    /\ RequestSize \in [Cmds -> Byte]

FrameSize  == 64
HeaderSize == 5
DataSize   == FrameSize - HeaderSize

CODE_SUCCESS       == 36864   \* 0x9000
CODE_USER_REJECTED == 27013   \* 0x6985

Uint16(n) == n % 65536

(***************************************************************************)
(* Answers.  `call' says which call of exchange() the device answered.     *)
(***************************************************************************)
NoAnswer == [call |-> 0, cmd |-> "none", ok |-> FALSE]

AnswerPayload(a) == IF a.ok THEN Payload[a.cmd] ELSE <<>>

\* What the length prefix says, and the length with the prefix itself.
AnswerLength(a) == Len(AnswerPayload(a)) + 2
AnswerTotal(a)  == AnswerLength(a) + 2

StatusWord(a) == IF a.ok THEN CODE_SUCCESS ELSE CODE_USER_REJECTED

\* Byte p of an answer, the last frame being padded with zeros.
AnswerByte(a, p) ==
    IF p = 0 THEN AnswerLength(a) \div 256
    ELSE IF p = 1 THEN AnswerLength(a) % 256
    ELSE IF p = AnswerTotal(a) - 2 THEN StatusWord(a) \div 256
    ELSE IF p = AnswerTotal(a) - 1 THEN StatusWord(a) % 256
    ELSE IF p < AnswerTotal(a) THEN AnswerPayload(a)[p - 1]
    ELSE 0

FrameCount(a) == (AnswerTotal(a) + DataSize - 1) \div DataSize

\* The frames of an answer, in the order the device sends them.
Frames(a) ==
    [i \in 1 .. FrameCount(a) |-> [kind |-> "answer", ans |-> a, seq |-> i - 1]]

\* 2 bytes of length, 5 bytes of APDU header, and the payload: the number of
\* reports frame_io::write cuts a request into.
RequestChunks(c) == (2 + 5 + RequestSize[c] + DataSize - 1) \div DataSize

(***************************************************************************)
(* The response buffer: a sequence of writes [pos, ans, seq].              *)
(***************************************************************************)
Covers(w, p) == w.pos <= p /\ p < w.pos + DataSize

ZeroByte == [ans |-> NoAnswer, at |-> 0]

\* The origin of byte p: the last write that covers it decides.
LastWrite(buf, p) ==
    {i \in 1 .. Len(buf) : /\ Covers(buf[i], p)
                           /\ \A j \in i + 1 .. Len(buf) : ~Covers(buf[j], p)}

Origin(buf, p) ==
    IF LastWrite(buf, p) = {} THEN ZeroByte
    ELSE LET w == buf[CHOOSE i \in LastWrite(buf, p) : TRUE]
         IN  [ans |-> w.ans, at |-> DataSize * w.seq + p - w.pos]

ByteAt(buf, p) ==
    LET o == Origin(buf, p)
    IN  IF o.ans = NoAnswer THEN 0 ELSE AnswerByte(o.ans, o.at)

\* to_num<uint16_t>(p): two bytes, most significant first.  (Slip: the bytes
\* swapped.)
Num16_Swapped(buf, p) == ByteAt(buf, p) + 256 * ByteAt(buf, p + 1)
Num16(buf, p) == 256 * ByteAt(buf, p) + ByteAt(buf, p + 1)

\* The buffer is allocated with 255 zero bytes and grows with a write.
BufferSize(buf) ==
    LET ends == {255} \cup {buf[i].pos + DataSize : i \in DOMAIN buf}
    IN  CHOOSE e \in ends : \A f \in ends : f <= e

\* The data part [2, respLen - 2) is payload byte after payload byte of the
\* answer a.
HoldsPayloadOf(buf, respLen, a) ==
    /\ respLen = AnswerTotal(a)
    /\ \A p \in 2 .. respLen - 3 : Origin(buf, p) = [ans |-> a, at |-> p]
=============================================================================
