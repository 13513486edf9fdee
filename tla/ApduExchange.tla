---------------------------- MODULE ApduExchange ----------------------------
(***************************************************************************)
(* One call of nanos_wallet::exchange after another, over one HID handle:  *)
(* nanos_wallet::exchange, frame_io_apdu::exchange, frame_io::write and    *)
(* frame_io::read, with the Ledger at the other end of the handle.         *)
(*                                                                         *)
(* m_devLock is held from BeginCall to the step that ends the call, so     *)
(* that the host is one process here; what happens to the handle without   *)
(* that lock is the subject of NanosWallet.                                *)
(*                                                                         *)
(* The device and the USB stack are external.  The device executes the     *)
(* requests it received whole, one at a time and in order, and sends the   *)
(* frames of an answer in order; a frame sent while no handle is open is   *)
(* lost.  Beyond that it may send strange data (the comment at             *)
(* nanos_wallet.cpp:206), and may be unplugged and plugged in again.       *)
(***************************************************************************)
EXTENDS ApduFraming, FiniteSets

CONSTANTS
    MaxCalls,     \* bound: calls of exchange()
    MaxPending,   \* bound: requests waiting in the device
    MaxJunk,      \* bound: strange reports the device sends
    JunkKinds,    \* which kinds of strange reports
    MaxUnplugs,   \* bound: times the device is unplugged
    LossyWrites,  \* may hid_write fail on a live handle?
    ErrorString   \* does hid_error() give a text after a failed hid_read()?
                  \* (linux/hid.c and windows/hid.c do, the others never)

ASSUME ExchangeAssumption ==
    /\ MaxCalls \in Nat /\ MaxPending \in Nat /\ MaxJunk \in Nat
    /\ MaxUnplugs \in Nat
    /\ JunkKinds \subseteq {"channel", "tag", "stray", "short"}
    /\ LossyWrites \in BOOLEAN /\ ErrorString \in BOOLEAN

VARIABLES
    \* the host: nanos_wallet, frame_io_apdu, frame_io
    pc, call, cmd, out,
    m_valid,      \* nanos_wallet::m_valid
    m_dev,        \* hidpp_device::m_dev: "null", "open", or "dead" (unplugged)
    m_seq, m_offset,  \* frame_io
    rn,               \* frame_io_apdu
    cseq, delivered,  \* frame_io::write: next report; did all so far arrive?
    buffer, respLen,  \* locals of frame_io_apdu::exchange
    \* the device and the USB stack
    rx,           \* reports queued in the open handle
    pending,      \* calls whose requests arrived and are not executed yet
    emit,         \* frames the device has yet to send
    served,       \* answers the device has given
    plugged, unplugs, junk

framerVars == <<m_seq, m_offset, rn>>
localVars  == <<cseq, delivered, buffer, respLen>>
hostVars   == <<pc, call, cmd, out, m_valid, m_dev, framerVars, localVars>>
deviceVars == <<pending, emit, served, plugged, unplugs, junk>>
vars       == <<hostVars, rx, deviceVars>>

\* A sequence number no read expects.
StraySeq == 60000
\* respLen before the first read of an exchange.
NotRead == -1

Request(n, c) == [call |-> n, cmd |-> c]
Answer(r, ok) == [call |-> r.call, cmd |-> r.cmd, ok |-> ok]

NoOut == [kind |-> "none", status |-> 0, respLen |-> 0, buf |-> <<>>]

\* The call ends: `kind' says how, the status is what *res_code holds then.
Return(kind, status, len, buf) ==
    /\ out' = [kind |-> kind, status |-> status, respLen |-> len, buf |-> buf]
    /\ pc' = "idle"

Init ==
    /\ pc = "idle" /\ call = 0 /\ cmd \in Cmds /\ out = NoOut
    /\ m_valid = TRUE /\ m_dev = "open"
    /\ m_seq = 0 /\ m_offset = 0 /\ rn = 0
    /\ cseq = 0 /\ delivered = TRUE /\ buffer = <<>> /\ respLen = NotRead
    /\ rx = <<>> /\ pending = <<>> /\ emit = <<>> /\ served = {}
    /\ plugged = TRUE /\ unplugs = 0 /\ junk = 0

(***************************************************************************)
(* nanos_wallet::exchange                                                  *)
(***************************************************************************)
\* A command method calls exchange() with its status set to CODE_SUCCESS.
BeginCall(c) ==
    /\ pc = "idle" /\ call < MaxCalls
    /\ call' = call + 1
    /\ cmd' = c
    /\ IF m_valid
       THEN pc' = "attempt" /\ out' = NoOut
       ELSE Return("throw", CODE_SUCCESS, 0, <<>>)
    /\ UNCHANGED <<m_valid, m_dev, framerVars, localVars, rx, deviceVars>>

\* m_framer.io().get().  (Slip: the flag is trusted instead.)
HasHandle_ByFlag == m_valid
HasHandle == m_dev # "null"

\* The top of the do loop: no handle ends the call with the empty `out' and
\* *res_code as the caller set it; else frame_io_apdu::exchange begins.
NoHandle ==
    /\ pc = "attempt" /\ ~HasHandle
    /\ m_valid' = FALSE
    /\ Return("empty", CODE_SUCCESS, 0, <<>>)
    /\ UNCHANGED <<call, cmd, m_dev, framerVars, localVars, rx, deviceVars>>

Attempt ==
    /\ pc = "attempt" /\ HasHandle
    /\ Len(pending) < MaxPending
    /\ m_seq' = 0
    /\ cseq' = 0 /\ delivered' = TRUE
    /\ buffer' = <<>> /\ respLen' = NotRead
    /\ pc' = "write"
    /\ UNCHANGED <<call, cmd, out, m_valid, m_dev, m_offset, rn, rx, deviceVars>>

\* catch (wrong_seqno_error): close, sleep a second, open, try again.
CloseForRetry ==
    /\ pc = "closing"
    /\ m_dev' = "null" /\ rx' = <<>>
    /\ pc' = "reopening"
    /\ UNCHANGED <<call, cmd, out, m_valid, framerVars, localVars, deviceVars>>

ReopenForRetry ==
    /\ pc = "reopening"
    /\ m_dev' = IF plugged THEN "open" ELSE "null"
    /\ pc' = "attempt"
    /\ UNCHANGED <<call, cmd, out, m_valid, framerVars, localVars, rx, deviceVars>>

(***************************************************************************)
(* frame_io::write: one report; what hid_write returns is not looked at.   *)
(***************************************************************************)
WriteFrame ==
    /\ pc = "write"
    /\ \E arrives \in BOOLEAN :
         /\ arrives => m_dev = "open"
         /\ ~arrives => m_dev = "dead" \/ LossyWrites
         /\ delivered' = (delivered /\ arrives)
    /\ cseq' = cseq + 1
    /\ IF cseq' < RequestChunks(cmd)
       THEN UNCHANGED <<pc, pending>>
       ELSE /\ pc' = "read"
            /\ pending' = IF delivered' THEN Append(pending, Request(call, cmd))
                          ELSE pending
    /\ UNCHANGED <<call, cmd, out, m_valid, m_dev, framerVars, buffer, respLen,
                   rx, emit, served, plugged, unplugs, junk>>

(***************************************************************************)
(* frame_io::read, and the loop of frame_io_apdu::exchange around it.      *)
(***************************************************************************)
\* while (rn < respLen).  (Slip: the header is added once more.)
WantsMore_HeaderTwice == rn + HeaderSize < respLen
WantsMore == rn < respLen

WantsFrame == pc = "read" /\ (respLen = NotRead \/ WantsMore)

\* rn += read(buffer) + 5, then, after the first read, the response length.
CountRead(n) ==
    /\ rn' = rn + n + HeaderSize
    /\ respLen' = IF respLen = NotRead THEN Uint16(Num16(buffer', 0) + 2)
                  ELSE respLen

NextReport == WantsFrame /\ rx # <<>> /\ rx' = Tail(rx)

\* The next portion of the answer goes to 0, or to the tail with the offset.
\* (Slip: the headers of the earlier reports are not taken off.)
NextPos_NoHeader == IF m_seq = 0 THEN 0 ELSE m_offset
NextPos == IF m_seq = 0 THEN 0 ELSE m_offset - HeaderSize

\* (Slip: the offset counts the data of a report only.)
NextOffset_DataOnly == m_offset + DataSize
NextOffset == m_offset + FrameSize

AcceptFrame ==
    /\ NextReport
    /\ LET f == Head(rx)
       IN  /\ f.kind = "answer" /\ f.seq = m_seq
           /\ buffer' = Append(buffer, [pos |-> NextPos, ans |-> f.ans, seq |-> f.seq])
    /\ m_seq' = Uint16(m_seq + 1)
    /\ m_offset' = NextOffset
    /\ CountRead(DataSize)
    /\ UNCHANGED <<pc, call, cmd, out, m_valid, m_dev, cseq, delivered, deviceVars>>

\* Fewer than 64 bytes: read() returns 0 and the 5 are counted all the same.
ShortReport ==
    /\ NextReport /\ Head(rx).kind = "short"
    /\ buffer' = buffer
    /\ CountRead(0)
    /\ UNCHANGED <<pc, call, cmd, out, m_valid, m_dev, m_seq, m_offset, cseq,
                   delivered, deviceVars>>

\* Bad channel or tag: a runtime_error no handler of exchange() catches.
RejectHeader ==
    /\ NextReport /\ Head(rx).kind \in {"channel", "tag"}
    /\ Return("throw", CODE_SUCCESS, 0, <<>>)
    /\ UNCHANGED <<call, cmd, m_valid, m_dev, framerVars, localVars, deviceVars>>

WrongSeqno ==
    /\ NextReport
    /\ Head(rx).kind \in {"answer", "stray"} /\ Head(rx).seq # m_seq
    /\ pc' = "closing"
    /\ UNCHANGED <<call, cmd, out, m_valid, m_dev, framerVars, localVars, deviceVars>>

\* hid_read fails on the handle of a device that is gone.  With an error text,
\* hidpp_device::read calls get_dev_error, which locks the mutex it holds.
ReadError ==
    /\ WantsFrame /\ rx = <<>> /\ m_dev = "dead"
    /\ IF ErrorString
       THEN pc' = "stuck" /\ UNCHANGED <<buffer, rn, respLen>>
       ELSE pc' = pc /\ buffer' = buffer /\ CountRead(0)
    /\ UNCHANGED <<call, cmd, out, m_valid, m_dev, m_seq, m_offset, cseq,
                   delivered, rx, deviceVars>>

\* The rest of frame_io_apdu::exchange.  take_range is external: a range that
\* ends after the buffer, or before it begins, throws out_of_range; the latter
\* may also be an empty range.  Then the state stays as it is.
Finish ==
    /\ pc = "read" /\ respLen # NotRead /\ ~WantsMore
    /\ \/ /\ respLen <= BufferSize(buffer) /\ respLen >= 2
          /\ Return("reply", Num16(buffer, respLen - 2), respLen, buffer)
          /\ m_seq' = 0 /\ m_offset' = 0 /\ rn' = 0
       \/ /\ respLen > BufferSize(buffer) \/ respLen < 4
          /\ Return("throw", CODE_SUCCESS, 0, <<>>)
          /\ UNCHANGED framerVars
    /\ buffer' = <<>> /\ respLen' = NotRead
    /\ UNCHANGED <<call, cmd, m_valid, m_dev, cseq, delivered, rx, deviceVars>>

(***************************************************************************)
(* The device, its user and the USB stack (external).                      *)
(***************************************************************************)
\* The user lets the device execute the oldest request, or rejects it.
Execute(ok) ==
    /\ plugged /\ pending # <<>> /\ emit = <<>>
    /\ LET a == Answer(Head(pending), ok)
       IN  emit' = Frames(a) /\ served' = served \cup {a}
    /\ pending' = Tail(pending)
    /\ UNCHANGED <<hostVars, rx, plugged, unplugs, junk>>

EmitFrame ==
    /\ plugged /\ emit # <<>>
    /\ rx' = IF m_dev = "open" THEN Append(rx, Head(emit)) ELSE rx
    /\ emit' = Tail(emit)
    /\ UNCHANGED <<hostVars, pending, served, plugged, unplugs, junk>>

StrangeData(kind) ==
    /\ plugged /\ m_dev = "open" /\ junk < MaxJunk
    /\ rx' = Append(rx, [kind |-> kind, ans |-> NoAnswer, seq |-> StraySeq])
    /\ junk' = junk + 1
    /\ UNCHANGED <<hostVars, pending, emit, served, plugged, unplugs>>

\* The reports that arrived can still be read, the handle stays dead.
Unplug ==
    /\ plugged /\ unplugs < MaxUnplugs
    /\ plugged' = FALSE /\ unplugs' = unplugs + 1
    /\ m_dev' = IF m_dev = "open" THEN "dead" ELSE m_dev
    /\ pending' = <<>> /\ emit' = <<>>
    /\ UNCHANGED <<pc, call, cmd, out, m_valid, framerVars, localVars, rx, served, junk>>

Plug ==
    /\ ~plugged /\ plugged' = TRUE
    /\ UNCHANGED <<hostVars, rx, pending, emit, served, unplugs, junk>>

HostStep ==
    \/ NoHandle \/ Attempt \/ CloseForRetry \/ ReopenForRetry
    \/ WriteFrame
    \/ AcceptFrame \/ ShortReport \/ RejectHeader \/ WrongSeqno \/ ReadError
    \/ Finish

DeviceStep == EmitFrame \/ \E ok \in BOOLEAN : Execute(ok)

Next ==
    \/ \E c \in Cmds : BeginCall(c)
    \/ HostStep
    \/ DeviceStep
    \/ \E k \in JunkKinds : StrangeData(k)
    \/ Unplug \/ Plug

Spec == Init /\ [][Next]_vars

\* A running thread runs on; the user decides and the device answers.
FairSpec == Spec /\ WF_vars(HostStep) /\ WF_vars(DeviceStep)
-----------------------------------------------------------------------------
(***************************************************************************)
(* Properties                                                              *)
(***************************************************************************)
RequestType == [call : 1 .. MaxCalls, cmd : Cmds]
AnswerType  == [call : 1 .. MaxCalls, cmd : Cmds, ok : BOOLEAN]
FrameType  == [kind : {"answer"}, ans : AnswerType, seq : Nat]
JunkType   == [kind : JunkKinds, ans : {NoAnswer}, seq : {StraySeq}]
WriteType  == [pos : Nat, ans : AnswerType, seq : Nat]

CallType ==
    /\ pc \in {"idle", "attempt", "write", "read", "closing", "reopening", "stuck"}
    /\ call \in 0 .. MaxCalls /\ cmd \in Cmds
    /\ m_valid \in BOOLEAN /\ m_dev \in {"null", "open", "dead"}
OutType ==
    out \in [kind : {"none", "reply", "empty", "throw"}, status : Nat,
            respLen : Nat, buf : Seq(WriteType)]
FramerType ==
    /\ m_seq \in Nat /\ m_seq < 65536
    /\ m_offset \in Nat /\ m_offset % FrameSize = 0
    /\ m_seq # 0 => m_offset >= FrameSize
    /\ rn \in Nat /\ cseq \in Nat /\ delivered \in BOOLEAN
BufferType == buffer \in Seq(WriteType) /\ respLen \in Nat \cup {NotRead}
QueueType == rx \in Seq(FrameType \cup JunkType) /\ emit \in Seq(FrameType)
DeviceType ==
    /\ pending \in Seq(RequestType)
    /\ served \subseteq AnswerType
    /\ plugged \in BOOLEAN /\ unplugs \in Nat /\ junk \in Nat

\* The types; and m_offset moves in steps of a whole report, because
\* frame_io::read adds 64 to it and the end of an exchange sets it to 0; and
\* a request is written only for a call that was begun.
TypeOK ==
    /\ CallType /\ OutType /\ FramerType /\ BufferType /\ QueueType /\ DeviceType
    /\ pc # "idle" => call >= 1

\* A call that returns CODE_SUCCESS with an answer of at most two frames (all
\* commands but get_app_list) returns, in order and without a gap, the whole
\* payload of one answer the device gave: whatever strange data arrived,
\* however often the exchange was retried, and although m_offset and rn keep
\* the values an abandoned exchange left (frame_io_apdu.cpp:72-75 is not
\* reached by an exception).
SuccessIsComplete ==
    (out.kind = "reply" /\ out.status = CODE_SUCCESS /\ out.respLen <= 2 * DataSize) =>
        \E a \in served : a.ok /\ HoldsPayloadOf(out.buf, out.respLen, a)

\* The reply of a call, if it carries a status word of the device, is the
\* answer the device gave to this very call: no report left over from an
\* earlier exchange is taken for it.
AnswersThisCall ==
    (out.kind = "reply" /\ out.status \in {CODE_SUCCESS, CODE_USER_REJECTED}) =>
        \E a \in served : /\ a.call = call /\ a.cmd = cmd
                          /\ StatusWord(a) = out.status
                          /\ HoldsPayloadOf(out.buf, out.respLen, a)

\* "do exchange until we don't receive valid result" (nanos_wallet.cpp:207):
\* a call comes back with the status word and the payload the device answered
\* to it, and in no other way.
ReturnsValidResult ==
    out.kind # "none" =>
        /\ out.kind = "reply"
        /\ \E a \in served : /\ a.call = call /\ a.cmd = cmd
                            /\ StatusWord(a) = out.status
                            /\ HoldsPayloadOf(out.buf, out.respLen, a)

\* "until we didn't get whole data, read again" (frame_io_apdu.cpp:49): when a
\* call has its reply, every report of the answer has been read, none is left
\* for the next call to find.
WholeDataRead ==
    out.kind = "reply" => rx = <<>> /\ emit = <<>> /\ pending = <<>>

\* "we should write "next" part of data to tail with offset"
\* (frame_io.cpp:61): the frames fill the buffer without gap or overlap.
NextPartToTail ==
    \A i \in DOMAIN buffer : buffer[i].pos = DataSize * (i - 1)

\* A request is written to, and an answer read from, a handle that exists.
IoOnHandle == pc \in {"write", "read"} => m_dev # "null"

(***************************************************************************)
(* Why SuccessIsComplete holds.  Frames of different answers never mix:    *)
(* the handle delivers in order, and closing it for a retry empties it, so *)
(* the second frame that follows a first frame belongs to the same answer. *)
(***************************************************************************)
First(f)  == f.kind = "answer" /\ f.seq = 0
Second(f) == f.kind = "answer" /\ f.seq = 1
NoFirst(q, m, n) == \A k \in m .. n : ~First(q[k])

Assembling == pc = "read" /\ buffer # <<>>

HandleInv ==
    /\ m_dev = "null" => rx = <<>>
    /\ pc = "reopening" => m_dev = "null"
    /\ IoOnHandle

FramesServed ==
    /\ \A i \in 1 .. Len(rx) : rx[i].kind = "answer" => rx[i].ans \in served
    /\ \A i \in 1 .. Len(emit) : /\ emit[i].ans \in served
                                /\ emit[i].ans = emit[1].ans
                                /\ emit[i].seq = emit[1].seq + i - 1

\* A second frame goes with the last first frame before it: in the queue,
\* from the buffer into the queue, and from either to the frame sent next.
QueueInOrder ==
    \A i, j \in 1 .. Len(rx) :
        j < i /\ First(rx[j]) /\ Second(rx[i]) /\ NoFirst(rx, j + 1, i - 1)
            => rx[i].ans = rx[j].ans
BufferThenQueue ==
    Assembling => \A i \in 1 .. Len(rx) :
        Second(rx[i]) /\ NoFirst(rx, 1, i - 1) => rx[i].ans = buffer[1].ans
QueueThenEmit ==
    m_dev = "open" /\ emit # <<>> /\ emit[1].seq = 1 =>
        /\ \A j \in 1 .. Len(rx) :
             First(rx[j]) /\ NoFirst(rx, j + 1, Len(rx)) => emit[1].ans = rx[j].ans
        /\ Assembling /\ NoFirst(rx, 1, Len(rx)) => emit[1].ans = buffer[1].ans

QueueInv == FramesServed /\ QueueInOrder /\ BufferThenQueue /\ QueueThenEmit

\* The first write is the first frame of an answer given, and gave the length;
\* the second, if any, is that answer's second frame.
Assembled ==
    /\ buffer[1].pos = 0 /\ buffer[1].seq = 0 /\ buffer[1].ans \in served
    /\ respLen = AnswerTotal(buffer[1].ans)
    /\ rn >= FrameSize * Len(buffer)
    /\ respLen <= 2 * DataSize => Len(buffer) <= 2
    /\ Len(buffer) >= 2 =>
         /\ buffer[2].ans = buffer[1].ans /\ buffer[2].seq = 1
         /\ buffer[2].pos >= DataSize
         /\ (buffer[2].pos + HeaderSize) % FrameSize = 0

BufferInv ==
    /\ pc = "write" => buffer = <<>> /\ respLen = NotRead
    /\ pc \in {"write", "read"} => m_seq = Len(buffer)
    /\ pc = "read" /\ buffer = <<>> => respLen = NotRead \/ (respLen = 2 /\ rn >= 5)
    /\ Assembling => Assembled

\* The inductive invariant, as one formula.
ExchangeInv == TypeOK /\ HandleInv /\ QueueInv /\ BufferInv /\ SuccessIsComplete

\* Towards its callers exchange() is a request and its reply: while the device
\* sends no strange data, and though it may be unplugged at any moment, every
\* step is a step of RequestReply or changes nothing a caller can see.
Corrupt == [call |-> -1, cmd |-> "none", ok |-> FALSE]

Delivered ==
    LET a == Origin(out.buf, 0).ans
    IN  IF out.kind = "reply" /\ out.status \in {CODE_SUCCESS, CODE_USER_REJECTED}
        THEN IF StatusWord(a) = out.status /\ HoldsPayloadOf(out.buf, out.respLen, a)
             THEN a ELSE Corrupt
        ELSE NoAnswer

Abstract == INSTANCE RequestReply WITH
    phase <- IF pc = "idle" THEN "idle" ELSE "busy",
    result <- Delivered

RequestReplySpec == Abstract!Spec
\* The part of it that says what may happen, without what must.
RequestReplySafety == Abstract!Init /\ [][Abstract!Next]_(Abstract!vars)

\* Every call of exchange() comes back.
EveryCallReturns == pc # "idle" ~> pc = "idle"
=============================================================================
