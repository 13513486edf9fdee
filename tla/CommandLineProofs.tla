------------------------- MODULE CommandLineProofs -------------------------
(***************************************************************************)
(* Theorems about the processes of the command line.  What ExchangeInv and *)
(* QuietInv say of one handle is carried across the end of a process and   *)
(* the start of the next: the wallet of a new process has a handle and a   *)
(* framer of its own, but it meets the Ledger as the last process left it. *)
(***************************************************************************)
EXTENDS CommandLine, ApduQuietProofs

-----------------------------------------------------------------------------
(***************************************************************************)
(* Processes, whatever the Ledger sends.                                   *)
(***************************************************************************)
\* A process makes its calls one by one, and without a process there is no
\* handle; ended says what came of the last call.
ProcessInv ==
    /\ process \in 1 .. MaxProcesses /\ program \in Programs \cup {"none"}
    /\ step \in 1 .. 2 /\ waiting \in BOOLEAN /\ ended \in {"0", "1", "killed"}
    /\ fresh \in BOOLEAN /\ kills \in 0 .. MaxKills
    /\ program # "none" => step <= Len(Calls(program))
    /\ program # "none" /\ waiting => cmd = Command
    /\ program = "none" => pc = "idle" /\ m_dev = "null"
    /\ program = "none" /\ ended # "killed" => (ended = "0" <=> MethodReturns(cmd))

\* No answer and no request is of a call that was not yet begun.
CallsInv ==
    /\ \A a \in served : a.call <= call
    /\ \A i \in 1 .. Len(pending) : pending[i].call <= call

CommandInv == ExchangeInv /\ ProcessInv /\ CallsInv

\* The commands of the programs, those of the action map and others.
LEMMA ProgramCalls ==
    /\ "none" \notin Programs
    /\ \A p \in Programs : Calls(p) \in Seq(Cmds) /\ Len(Calls(p)) \in {1, 2}
<1>1. DOMAIN ActionMap = {"get_address", "sign_tx", "app_version"}
  BY DEF ActionMap
<1>2. "none" \notin Programs
  BY <1>1, CommandLineAssumption DEF Programs
<1>3. {"address", "sign", "version"} \subseteq Cmds
  BY CommandLineAssumption
<1>4. ASSUME NEW p \in DOMAIN ActionMap
      PROVE  ActionMap[p] \in Seq(Cmds) /\ Len(ActionMap[p]) \in {1, 2}
  <2>1. ActionMap[p] \in {<<"address">>, <<"address", "sign">>, <<"version">>}
    BY <1>1 DEF ActionMap
  <2>2. "address" \in Cmds /\ "sign" \in Cmds /\ "version" \in Cmds
    BY <1>3
  <2>3. /\ <<"address">> \in Seq(Cmds) /\ Len(<<"address">>) = 1
        /\ <<"address", "sign">> \in Seq(Cmds) /\ Len(<<"address", "sign">>) = 2
        /\ <<"version">> \in Seq(Cmds) /\ Len(<<"version">>) = 1
    BY <2>2
  <2> QED
    BY <2>1, <2>3
<1> QED
  BY <1>2, <1>4, CommandLineAssumption DEF Programs, Calls

\* A running process calls one of the commands.
LEMMA CommandType ==
    ASSUME ProcessInv, program # "none"
    PROVE  Command \in Cmds
<1>1. program \in Programs /\ step \in 1 .. Len(Calls(program))
  BY ProgramCalls DEF ProcessInv
<1> QED
  BY <1>1, ProgramCalls DEF Command

\* The steps of an exchange keep its invariant, as in ApduExchangeProofs.
LEMMA ExchangeStep == ASSUME ExchangeInv, [Next]_vars PROVE ExchangeInv'
BY TypeStep, HandleStep, QueueStep, BufferStep, CompleteStep DEF ExchangeInv

\* A new wallet finds no report in its handle.
LEMMA StartExchange ==
    ASSUME ExchangeInv, ProcessInv, NEW p \in Programs, Start(p)
    PROVE  ExchangeInv'
<1>1. /\ TypeOK /\ HandleInv /\ QueueInv /\ BufferInv
      /\ pc = "idle" /\ m_dev = "null" /\ rx = <<>>
  BY DEF ExchangeInv, ProcessInv, HandleInv, Start
<1>2. /\ pc' = "idle" /\ rx' = <<>> /\ buffer' = <<>> /\ respLen' = NotRead /\ out' = NoOut
      /\ m_seq' = 0 /\ m_offset' = 0 /\ rn' = 0
      /\ m_valid' \in BOOLEAN /\ m_dev' \in {"open", "null"}
      /\ UNCHANGED <<call, cmd, cseq, delivered, deviceVars>>
  BY <1>1 DEF Start
<1>3. TypeOK'
  <2>1. CallType' /\ DeviceType'
    BY <1>1, <1>2 DEF TypeOK, CallType, DeviceType, deviceVars
  <2>2. OutType' /\ BufferType'
    BY <1>2 DEF OutType, BufferType, NoOut
  <2>3. FramerType'
    BY <1>1, <1>2 DEF TypeOK, FramerType, FrameSize
  <2>4. QueueType'
    BY <1>1, <1>2 DEF TypeOK, QueueType, deviceVars
  <2> QED
    BY <1>2, <2>1, <2>2, <2>3, <2>4 DEF TypeOK
<1>4. HandleInv' /\ SuccessIsComplete'
  BY <1>2 DEF HandleInv, IoOnHandle, SuccessIsComplete, NoOut
<1>5. QueueInv'
  BY <1>1, <1>2, QueueKept DEF Assembling, deviceVars
<1>6. BufferInv'
  BY <1>2 DEF BufferInv, Assembling
<1> QED
  BY <1>3, <1>4, <1>5, <1>6 DEF ExchangeInv

\* ~hidpp_device takes the queued reports with it; an answer the Ledger has
\* yet to send is left.
LEMMA EndExchange ==
    ASSUME ExchangeInv, NEW code, End(code), pc' = "idle", UNCHANGED <<cseq, delivered>>,
           UNCHANGED <<buffer, respLen>> \/ (buffer' = <<>> /\ respLen' = NotRead)
    PROVE  ExchangeInv'
<1>1. TypeOK /\ QueueInv /\ SuccessIsComplete
  BY DEF ExchangeInv
<1>2. /\ m_dev' = "null" /\ rx' = <<>>
      /\ UNCHANGED <<call, cmd, out, m_valid, framerVars, deviceVars>>
  BY DEF End
<1>3. TypeOK'
  <2>1. CallType' /\ DeviceType' /\ OutType' /\ FramerType'
    BY <1>1, <1>2
       DEF TypeOK, CallType, DeviceType, OutType, FramerType, framerVars, deviceVars
  <2>2. BufferType'
    <3>1. buffer \in Seq(WriteType) /\ respLen \in Nat \cup {NotRead}
      BY <1>1 DEF TypeOK, BufferType
    <3>2. CASE UNCHANGED <<buffer, respLen>>
      BY <3>1, <3>2 DEF BufferType
    <3>3. CASE buffer' = <<>> /\ respLen' = NotRead
      BY <3>3 DEF BufferType
    <3> QED
      BY <3>2, <3>3
  <2>3. QueueType'
    BY <1>1, <1>2 DEF TypeOK, QueueType, deviceVars
  <2> QED
    BY <2>1, <2>2, <2>3 DEF TypeOK
<1>4. HandleInv' /\ SuccessIsComplete'
  BY <1>1, <1>2 DEF HandleInv, IoOnHandle, SuccessIsComplete, deviceVars
<1>5. QueueInv'
  BY <1>1, <1>2 DEF QueueInv, FramesServed, QueueInOrder, BufferThenQueue, QueueThenEmit,
     Assembling, deviceVars
<1>6. BufferInv'
  BY DEF BufferInv, Assembling
<1> QED
  BY <1>3, <1>4, <1>5, <1>6 DEF ExchangeInv

\* What MethodReturns looks at is the response.
LEMMA MethodReturnsKept ==
    ASSUME NEW c, out' = out PROVE MethodReturns(c)' <=> MethodReturns(c)
BY DEF MethodReturns, Succeeded

\* The calls in the Ledger were begun.
LEMMA CallsStep ==
    ASSUME TypeOK, CallsInv, [Next]_vars
    PROVE  CallsInv'
<1> USE DEF CallsInv
<1>1. /\ call \in Nat /\ pending \in Seq(RequestType)
      /\ \A a \in served : a.call \in Nat
      /\ \A i \in 1 .. Len(pending) : pending[i].call \in Nat
  <2>1. call \in Nat /\ pending \in Seq(RequestType) /\ served \subseteq AnswerType
    BY ExchangeAssumption DEF TypeOK, CallType, DeviceType
  <2>2. \A i \in 1 .. Len(pending) : pending[i] \in RequestType
    BY <2>1
  <2>3. 1 .. MaxCalls \subseteq Nat
    BY ExchangeAssumption
  <2> QED
    BY <2>1, <2>2, <2>3 DEF AnswerType, RequestType
<1>2. ASSUME UNCHANGED <<served, pending>>, call' = call \/ call' = call + 1
      PROVE  CallsInv'
  BY <1>1, <1>2
<1>3. ASSUME NEW c \in Cmds, BeginCall(c) PROVE CallsInv'
  BY <1>2, <1>3 DEF BeginCall, deviceVars
<1>4. CASE NoHandle \/ Attempt \/ CloseForRetry \/ ReopenForRetry
  BY <1>2, <1>4 DEF NoHandle, Attempt, CloseForRetry, ReopenForRetry, deviceVars, hostVars
<1>5. CASE WriteFrame
  <2>1. /\ UNCHANGED <<served, call>>
        /\ pending' = pending \/ pending' = Append(pending, Request(call, cmd))
    BY <1>5 DEF WriteFrame
  <2>2. CASE pending' = Append(pending, Request(call, cmd))
    <3>1. /\ Len(pending') = Len(pending) + 1 /\ pending'[Len(pending) + 1] = Request(call, cmd)
          /\ \A i \in 1 .. Len(pending) : pending'[i] = pending[i]
      BY <1>1, <2>2
    <3>2. Len(pending) \in Nat /\ Request(call, cmd).call = call
      BY <1>1 DEF Request
    <3>3. \A i \in 1 .. Len(pending') : i \in 1 .. Len(pending) \/ i = Len(pending) + 1
      BY <3>1, <3>2
    <3> QED
      BY <1>1, <2>1, <3>1, <3>2, <3>3
  <2> QED
    BY <1>2, <2>1, <2>2
<1>6. CASE AcceptFrame \/ ShortReport \/ RejectHeader \/ WrongSeqno
  BY <1>2, <1>6 DEF AcceptFrame, ShortReport, RejectHeader, WrongSeqno, deviceVars
<1>7. CASE ReadError \/ Finish
  BY <1>2, <1>7 DEF ReadError, Finish, deviceVars
<1>8. ASSUME NEW ok \in BOOLEAN, Execute(ok) PROVE CallsInv'
  <2>1. /\ pending # <<>> /\ pending' = Tail(pending) /\ call' = call
        /\ served' = served \cup {Answer(Head(pending), ok)}
    BY <1>8 DEF Execute, hostVars
  <2>2. /\ Len(pending') = Len(pending) - 1 /\ Len(pending) \in Nat \ {0}
        /\ \A i \in 1 .. Len(pending') : pending'[i] = pending[i + 1]
    BY <1>1, <2>1
  <2>3. Answer(Head(pending), ok).call = pending[1].call /\ 1 \in 1 .. Len(pending)
    BY <1>1, <2>1, <2>2 DEF Answer
  <2> QED
    BY <1>1, <2>1, <2>2, <2>3
<1>9. ASSUME NEW k \in JunkKinds, StrangeData(k) PROVE CallsInv'
  BY <1>2, <1>9 DEF StrangeData, hostVars
<1>10. CASE EmitFrame \/ Plug \/ UNCHANGED vars
  BY <1>2, <1>10 DEF EmitFrame, Plug, vars, hostVars, deviceVars
<1>11. CASE Unplug
  BY <1>1, <1>11 DEF Unplug
<1> QED
  BY <1>3, <1>4, <1>5, <1>6, <1>7, <1>8, <1>9, <1>10, <1>11 DEF Next, HostStep, DeviceStep

\* A step that is not of the process: the exchange, the Ledger or the user.
Outside ==
    /\ UNCHANGED processVars
    /\ HostStep \/ DeviceStep \/ Unplug \/ Plug \/ \E k \in JunkKinds : StrangeData(k)

\* It calls nothing, returns nothing to a process that has ended, and opens no
\* handle for it.
LEMMA OutsideStep ==
    ASSUME ProcessInv, Outside
    PROVE  /\ [Next]_vars /\ call' = call /\ cmd' = cmd
           /\ program = "none" => UNCHANGED <<pc, m_dev, out>>
<1>1. [Next]_vars
  BY DEF Outside, Next
<1>2. CASE HostStep
  <2>1. pc # "idle"
    BY <1>2 DEF HostStep, NoHandle, Attempt, CloseForRetry, ReopenForRetry, WriteFrame,
       AcceptFrame, ShortReport, RejectHeader, WrongSeqno, ReadError, Finish, NextReport,
       WantsFrame
  <2>2. call' = call /\ cmd' = cmd
    BY <1>2 DEF HostStep, NoHandle, Attempt, CloseForRetry, ReopenForRetry, WriteFrame,
       AcceptFrame, ShortReport, RejectHeader, WrongSeqno, ReadError, Finish
  <2> QED
    BY <1>1, <2>1, <2>2 DEF ProcessInv
<1>3. CASE DeviceStep \/ Plug \/ \E k \in JunkKinds : StrangeData(k)
  BY <1>1, <1>3 DEF DeviceStep, EmitFrame, Execute, Plug, StrangeData, hostVars
<1>4. CASE Unplug
  BY <1>1, <1>4 DEF Unplug, ProcessInv
<1> QED
  BY <1>2, <1>3, <1>4 DEF Outside

\* A process makes its calls in order, and its exit code is what the last one
\* came to.
LEMMA OutsideProcess ==
    ASSUME CommandInv, Outside
    PROVE  ProcessInv'
<1>1. ProcessInv /\ UNCHANGED processVars /\ cmd' = cmd
  BY OutsideStep DEF CommandInv, Outside
<1>2. program = "none" => UNCHANGED <<pc, m_dev, out>>
  BY <1>1, OutsideStep
<1>3. program' # "none" /\ waiting' => cmd' = Command'
  BY <1>1 DEF ProcessInv, processVars, Command
<1>4. program' = "none" /\ ended' # "killed" => (ended' = "0" <=> MethodReturns(cmd)')
  BY <1>1, <1>2 DEF ProcessInv, processVars, MethodReturns, Succeeded
<1> QED
  BY <1>1, <1>2, <1>3, <1>4 DEF ProcessInv, processVars

\* A process begins with a wallet of its own, or exits with 1 at once.
LEMMA StartStep ==
    ASSUME CommandInv, NEW p \in Programs, Start(p)
    PROVE  CommandInv'
<1>1. ExchangeInv /\ ProcessInv /\ CallsInv
  BY DEF CommandInv
<1>2. CallsInv'
  BY <1>1 DEF CallsInv, Start, deviceVars
<1>3. /\ process \in 1 .. MaxProcesses /\ process < MaxProcesses /\ process' = process + 1
      /\ pc' = "idle" /\ fresh' \in BOOLEAN /\ kills' = kills /\ out' = NoOut /\ cmd' = cmd
  BY <1>1 DEF ProcessInv, Start
<1>4. process' \in 1 .. MaxProcesses
  BY <1>3, CommandLineAssumption
<1>5. ASSUME program' = p, step' = 1, waiting' = FALSE, UNCHANGED ended PROVE ProcessInv'
  <2>1. p # "none" /\ 1 <= Len(Calls(p))
    BY ProgramCalls
  <2>2. step' <= Len(Calls(program)')
    BY <1>5, <2>1 DEF Calls
  <2>3. ended' \in {"0", "1", "killed"} /\ kills' \in 0 .. MaxKills /\ step' \in 1 .. 2
    BY <1>1, <1>3, <1>5 DEF ProcessInv
  <2>4. program' \in (Programs \cup {"none"}) /\ program' # "none" /\ ~waiting'
    BY <1>5, <2>1
  <2> QED
    BY <1>3, <1>4, <1>5, <2>2, <2>3, <2>4 DEF ProcessInv
<1>6. ASSUME ended' = "1", m_dev' = "null", UNCHANGED <<program, step, waiting>>
      PROVE  ProcessInv'
  <2>1. program = "none"
    BY DEF Start
  <2>2. ~MethodReturns(cmd)'
    BY <1>3 DEF MethodReturns, NoOut
  <2>3. /\ step' \in 1 .. 2 /\ waiting' \in BOOLEAN /\ ended' \in {"0", "1", "killed"}
        /\ kills' \in 0 .. MaxKills
    BY <1>1, <1>3, <1>6 DEF ProcessInv
  <2>4. program' = "none" /\ ended' = "1"
    BY <1>6, <2>1
  <2> QED
    BY <1>3, <1>4, <1>6, <2>2, <2>3, <2>4 DEF ProcessInv
<1> QED
  BY <1>1, <1>2, <1>5, <1>6, StartExchange DEF Start, CommandInv

\* A process makes the call its program has next.
LEMMA InvokeStep == ASSUME CommandInv, Invoke PROVE CommandInv'
<1>1. ExchangeInv /\ ProcessInv /\ CallsInv /\ TypeOK
  BY DEF CommandInv, ExchangeInv
<1>2. /\ Command \in Cmds /\ BeginCall(Command) /\ program # "none" /\ waiting' = TRUE
      /\ UNCHANGED <<process, program, step, ended, fresh, kills>>
  BY <1>1, CommandType DEF Invoke
<1>3. [Next]_vars
  BY <1>2 DEF Next
<1>4. ProcessInv'
  <2>1. cmd' = Command'
    BY <1>2 DEF BeginCall, Command
  <2>2. program' # "none" => step' <= Len(Calls(program)')
    BY <1>1, <1>2 DEF ProcessInv, Calls
  <2> QED
    BY <1>1, <1>2, <2>1, <2>2 DEF ProcessInv
<1> QED
  BY <1>1, <1>3, <1>4, ExchangeStep, CallsStep DEF CommandInv

\* sign_tx goes on to its second call.
LEMMA ProceedStep == ASSUME CommandInv, Proceed PROVE CommandInv'
<1>1. ExchangeInv /\ ProcessInv /\ CallsInv /\ TypeOK
  BY DEF CommandInv, ExchangeInv
<1>2. /\ UNCHANGED vars /\ program # "none" /\ step < Len(Calls(program)) /\ waiting' = FALSE
      /\ step' = step + 1 /\ UNCHANGED <<process, program, ended, fresh, kills>>
  BY DEF Proceed, Called
<1>3. [Next]_vars
  BY <1>2
<1>4. ProcessInv'
  <2>1. Len(Calls(program)) \in {1, 2} /\ step \in 1 .. 2
    BY <1>1, <1>2, ProgramCalls DEF ProcessInv
  <2>2. step' \in 1 .. 2 /\ step' <= Len(Calls(program))
    <3>1. PICK n \in {1, 2} : n = Len(Calls(program))
      BY <2>1
    <3>2. PICK i \in {1, 2} : i = step
      BY <2>1
    <3>3. i < n
      BY <1>2, <3>1, <3>2
    <3>4. i = 1 /\ n = 2
      BY <3>3
    <3>5. step' = 2
      BY <1>2, <3>2, <3>4
    <3> QED
      BY <3>1, <3>4, <3>5
  <2>3. program' # "none" => step' <= Len(Calls(program)')
    BY <1>2, <2>2 DEF Calls
  <2>4. program' # "none" /\ waiting' = FALSE
    BY <1>2
  <2> QED
    BY <1>1, <1>2, <2>2, <2>3, <2>4 DEF ProcessInv
<1> QED
  BY <1>1, <1>3, <1>4, ExchangeStep, CallsStep DEF CommandInv

\* The process ends with what its last call came to.
LEMMA ExitStep == ASSUME CommandInv, Exit PROVE CommandInv'
<1>1. ExchangeInv /\ ProcessInv /\ CallsInv
  BY DEF CommandInv
<1>2. /\ pc = "idle" /\ program # "none" /\ waiting /\ End(ExitCode)
      /\ UNCHANGED <<pc, localVars, kills>>
  BY DEF Exit, Called
<1>3. /\ m_dev' = "null" /\ program' = "none" /\ ended' = ExitCode
      /\ UNCHANGED <<call, cmd, out, served, pending, process, step, waiting, fresh>>
  BY <1>2 DEF End, deviceVars
<1>4. ExchangeInv'
  BY <1>1, <1>2, EndExchange DEF localVars
<1>5. CallsInv'
  BY <1>1, <1>3 DEF CallsInv
<1>6. ended' = "0" <=> MethodReturns(cmd)'
  <2>1. cmd = Command
    BY <1>1, <1>2 DEF ProcessInv
  <2>2. MethodReturns(cmd)' <=> MethodReturns(cmd)
    BY <1>3 DEF MethodReturns, Succeeded
  <2> QED
    BY <1>3, <2>1, <2>2 DEF ExitCode
<1>7. ProcessInv'
  BY <1>1, <1>2, <1>3, <1>6 DEF ProcessInv, ExitCode
<1> QED
  BY <1>4, <1>5, <1>7 DEF CommandInv

\* An interrupted process leaves no handle either.
LEMMA KillStep == ASSUME CommandInv, Kill PROVE CommandInv'
<1>1. ExchangeInv /\ ProcessInv /\ CallsInv
  BY DEF CommandInv
<1>2. /\ pc' = "idle" /\ program # "none" /\ kills < MaxKills /\ kills' = kills + 1
      /\ End("killed") /\ buffer' = <<>> /\ respLen' = NotRead /\ UNCHANGED <<cseq, delivered>>
  BY DEF Kill
<1>3. /\ m_dev' = "null" /\ program' = "none" /\ ended' = "killed"
      /\ UNCHANGED <<call, cmd, out, served, pending, process, step, waiting, fresh>>
  BY <1>2 DEF End, deviceVars
<1>4. ExchangeInv'
  BY <1>1, <1>2, EndExchange
<1>5. CallsInv'
  BY <1>1, <1>3 DEF CallsInv
<1>6. kills' \in 0 .. MaxKills
  BY <1>1, <1>2, CommandLineAssumption DEF ProcessInv
<1>7. ProcessInv'
  BY <1>1, <1>2, <1>3, <1>6 DEF ProcessInv
<1> QED
  BY <1>4, <1>5, <1>7 DEF CommandInv

\* What happens outside of the process keeps the invariant.
LEMMA OutsideKept == ASSUME CommandInv, Outside PROVE CommandInv'
<1>1. ExchangeInv /\ ProcessInv /\ CallsInv /\ TypeOK
  BY DEF CommandInv, ExchangeInv
<1>2. [Next]_vars
  BY <1>1, OutsideStep
<1> QED
  BY <1>1, <1>2, ExchangeStep, CallsStep, OutsideProcess DEF CommandInv

\* The steps of the command line: a process starts, calls, goes on, ends, is
\* interrupted, or something happens outside of it.
LEMMA CommandNext ==
    ASSUME CNext
    PROVE  (\E p \in Programs : Start(p)) \/ Invoke \/ Proceed \/ Exit \/ Kill \/ Outside
BY DEF CNext, ProcessStep, Outside

\* The first process has opened its wallet.
LEMMA CommandInit == CInit => CommandInv
<1> SUFFICES ASSUME CInit PROVE CommandInv
  OBVIOUS
<1>1. ExchangeInv /\ CallsInv
  BY ExchangeInit DEF CInit, Init, CallsInv
<1>2. program \in Programs /\ program # "none" /\ Len(Calls(program)) \in {1, 2}
  BY ProgramCalls DEF CInit
<1>3. 1 \in 1 .. MaxProcesses /\ 0 \in 0 .. MaxKills
  BY CommandLineAssumption
<1>4. ProcessInv
  <2>1. /\ process = 1 /\ step = 1 /\ waiting = FALSE /\ ended = "0" /\ fresh = TRUE /\ kills = 0
    BY DEF CInit
  <2>2. step <= Len(Calls(program))
    BY <1>2, <2>1
  <2>3. step \in 1 .. 2
    BY <2>1
  <2>4. waiting \in BOOLEAN /\ ended \in {"0", "1", "killed"} /\ fresh \in BOOLEAN
    BY <2>1, Zenon
  <2> QED
    BY <1>2, <1>3, <2>1, <2>2, <2>3, <2>4 DEF ProcessInv
<1> QED
  BY <1>1, <1>4 DEF CommandInv

\* The invariant of one process after another: that of the exchange, which a
\* process takes over from the one before it.
LEMMA CommandInvariant == CSpec => []CommandInv
<1>1. CommandInv /\ [CNext]_allVars => CommandInv'
  <2> SUFFICES ASSUME CommandInv, [CNext]_allVars PROVE CommandInv'
    OBVIOUS
  <2>1. CASE UNCHANGED allVars
    <3>1. ExchangeInv /\ ProcessInv /\ CallsInv /\ TypeOK /\ [Next]_vars /\ UNCHANGED processVars
          /\ UNCHANGED <<pc, m_dev, out, cmd>>
      BY <2>1 DEF CommandInv, ExchangeInv, allVars, vars, hostVars
    <3>2. MethodReturns(cmd)' <=> MethodReturns(cmd)
      BY <3>1 DEF MethodReturns, Succeeded
    <3>3. ProcessInv'
      BY <3>1, <3>2 DEF ProcessInv, processVars, Command, Calls
    <3> QED
      BY <3>1, <3>3, ExchangeStep, CallsStep DEF CommandInv
  <2> QED
    BY <2>1, CommandNext, StartStep, InvokeStep, ProceedStep, ExitStep, KillStep, OutsideKept
<1> QED
  BY <1>1, CommandInit, PTL DEF CSpec

\* Every variable keeps its type across processes, and a process that has ended
\* leaves no call and no report of its handle.
THEOREM CommandsTypeCorrect == CSpec => []CTypeOK
<1>1. CommandInv => CTypeOK
  BY DEF CommandInv, ExchangeInv, HandleInv, ProcessInv, CTypeOK
<1> QED
  BY <1>1, CommandInvariant, PTL

-----------------------------------------------------------------------------
(***************************************************************************)
(* Processes without strange data.                                         *)
(***************************************************************************)
AtRest == pending = <<>> /\ emit = <<>>

\* In a process that found the Ledger at rest the line is quiet while no strange
\* data comes, whatever the processes before it went through.
RunInv == program # "none" /\ fresh /\ junk = 0 => QuietInv

\* Without strange data and interruptions every process finds it at rest.
RestInv == junk = 0 /\ kills = 0 => fresh /\ (program = "none" => AtRest)

\* Strange data is counted,
LEMMA JunkCounted ==
    ASSUME [Next]_vars
    PROVE  junk' = junk \/ \E k \in JunkKinds : StrangeData(k)
<1>1. ASSUME NEW c \in Cmds, BeginCall(c) PROVE junk' = junk
  BY <1>1 DEF BeginCall, deviceVars
<1>2. ASSUME NoHandle \/ Attempt \/ CloseForRetry \/ ReopenForRetry \/ WriteFrame
      PROVE  junk' = junk
  BY <1>2 DEF NoHandle, Attempt, CloseForRetry, ReopenForRetry, WriteFrame, deviceVars
<1>3. ASSUME AcceptFrame \/ ShortReport \/ RejectHeader \/ WrongSeqno \/ ReadError \/ Finish
      PROVE  junk' = junk
  BY <1>3 DEF AcceptFrame, ShortReport, RejectHeader, WrongSeqno, ReadError, Finish, deviceVars
<1>4. ASSUME DeviceStep \/ Unplug \/ Plug \/ UNCHANGED vars PROVE junk' = junk
  BY <1>4 DEF DeviceStep, EmitFrame, Execute, Unplug, Plug, vars, deviceVars
<1> QED
  BY <1>1, <1>2, <1>3, <1>4 DEF Next, HostStep

\* and the count never goes back.
LEMMA JunkGrows ==
    ASSUME TypeOK, [Next]_vars, junk' = 0
    PROVE  junk = 0 /\ ~\E k \in JunkKinds : StrangeData(k)
<1>1. ASSUME NEW k \in JunkKinds, StrangeData(k) PROVE FALSE
  <2>1. junk \in Nat
    BY DEF TypeOK, DeviceType
  <2>2. junk' = junk + 1
    BY <1>1 DEF StrangeData
  <2> QED
    BY <2>1, <2>2
<1> QED
  BY <1>1, JunkCounted

\* A step of the exchange keeps the line quiet.
LEMMA QuietStep ==
    ASSUME ~LossyWrites, LengthsAgree, ExchangeInv, QuietInv, [Next]_vars, junk' = 0
    PROVE  QuietInv'
<1>1. TypeOK /\ BufferInv
  BY DEF ExchangeInv
<1>2. ~\E k \in JunkKinds : StrangeData(k)
  BY <1>1, JunkGrows
<1> QED
  BY <1>1, <1>2, LineStep, TransferStep, ServedStep DEF QuietInv

\* A process that finds the Ledger at rest begins on a quiet line.
LEMMA StartQuiet ==
    ASSUME CommandInv, NEW p \in Programs, Start(p), fresh', program' # "none"
    PROVE  QuietInv'
<1>1. /\ program = "none" /\ AtRest /\ pc = "idle" /\ CallsInv
  BY DEF Start, AtRest, CommandInv, ProcessInv
<1>2. /\ pc' = "idle" /\ m_offset' = 0 /\ rn' = 0 /\ rx' = <<>> /\ out' = NoOut
      /\ buffer' = <<>> /\ respLen' = NotRead
      /\ UNCHANGED <<call, served, pending, emit, plugged>>
  BY <1>1 DEF Start, deviceVars
<1>3. plugged /\ m_valid' = TRUE /\ m_dev' = "open"
  BY <1>1 DEF Start
<1>4. LineInv'
  BY <1>2, <1>3 DEF LineInv, NoOut
<1>5. TransferInv'
  BY <1>1, <1>2 DEF AtRest, TransferInv, Nothing
<1>6. ServedInv'
  BY <1>1, <1>2 DEF AtRest, CallsInv, ServedInv
<1> QED
  BY <1>4, <1>5, <1>6 DEF QuietInv

\* With no process, nobody makes a request and the Ledger has none to answer.
LEMMA RestKept ==
    ASSUME CommandInv, Outside, program = "none", AtRest
    PROVE  AtRest'
<1>1. pc = "idle"
  BY DEF CommandInv, ProcessInv
<1>2. ~HostStep
  BY <1>1 DEF HostStep, NoHandle, Attempt, CloseForRetry, ReopenForRetry, WriteFrame,
     AcceptFrame, ShortReport, RejectHeader, WrongSeqno, ReadError, Finish, NextReport,
     WantsFrame
<1>3. ~DeviceStep
  BY DEF AtRest, DeviceStep, EmitFrame, Execute
<1>4. CASE Unplug \/ Plug \/ \E k \in JunkKinds : StrangeData(k)
  BY <1>4 DEF AtRest, Unplug, Plug, StrangeData
<1> QED
  BY <1>2, <1>3, <1>4 DEF Outside

\* A quiet process ends at rest, and one that begins at rest is quiet.
LEMMA QuietProcess ==
    ASSUME ~LossyWrites, LengthsAgree, CommandInv, RunInv, RestInv, CNext
    PROVE  RunInv' /\ RestInv'
<1>1. ExchangeInv /\ TypeOK
  BY DEF CommandInv, ExchangeInv
<1>2. ASSUME NEW p \in Programs, Start(p) PROVE RunInv' /\ RestInv'
  <2>1. /\ program = "none" /\ UNCHANGED <<junk, kills, pending, emit>>
        /\ fresh' = (pending = <<>> /\ emit = <<>>)
    BY <1>2 DEF Start, deviceVars
  <2>2. RunInv'
    BY <1>2, StartQuiet DEF RunInv
  <2>3. RestInv'
    BY <2>1 DEF RestInv, AtRest
  <2> QED
    BY <2>2, <2>3
<1>3. ASSUME [Next]_vars, UNCHANGED <<program, fresh, kills>>, program # "none"
      PROVE  RunInv' /\ RestInv'
  <2>1. junk' = 0 => junk = 0
    BY <1>1, <1>3, JunkGrows
  <2>2. RunInv'
    BY <1>1, <1>3, <2>1, QuietStep DEF RunInv
  <2>3. RestInv'
    BY <1>3, <2>1 DEF RestInv
  <2> QED
    BY <2>2, <2>3
<1>4. CASE Invoke
  <2>1. [Next]_vars /\ program # "none" /\ UNCHANGED <<program, fresh, kills>>
    BY <1>4, CommandType DEF CommandInv, Invoke, Next
  <2> QED
    BY <1>3, <2>1
<1>5. CASE Proceed
  BY <1>3, <1>5 DEF Proceed, Called
<1>6. CASE Exit
  <2>1. /\ program # "none" /\ program' = "none" /\ pc = "idle"
        /\ UNCHANGED <<junk, kills, pending, emit, fresh>>
    BY <1>6 DEF Exit, Called, End, deviceVars
  <2>2. QuietInv => AtRest
    BY <2>1 DEF QuietInv, TransferInv, Nothing, AtRest
  <2> QED
    BY <2>1, <2>2 DEF RunInv, RestInv, AtRest
<1>7. CASE Kill
  <2>1. program' = "none" /\ kills' = kills + 1 /\ kills \in 0 .. MaxKills
    BY <1>7 DEF Kill, End, CommandInv, ProcessInv
  <2>2. kills' # 0
    BY <2>1, CommandLineAssumption
  <2> QED
    BY <2>1, <2>2 DEF RunInv, RestInv
<1>8. CASE Outside
  <2>1. [Next]_vars /\ UNCHANGED <<program, fresh, kills>>
    BY <1>8, OutsideStep DEF CommandInv, Outside, processVars
  <2>2. CASE program # "none"
    BY <1>3, <2>1, <2>2
  <2>3. CASE program = "none"
    <3>1. junk' = 0 => junk = 0
      BY <1>1, <2>1, JunkGrows
    <3> QED
      BY <1>8, <2>1, <2>3, <3>1, RestKept DEF RunInv, RestInv
  <2> QED
    BY <2>2, <2>3
<1> QED
  BY <1>2, <1>4, <1>5, <1>6, <1>7, <1>8, CommandNext

\* The line stays quiet, process after process.
LEMMA QuietCommands ==
    ASSUME ~LossyWrites, LengthsAgree
    PROVE  CSpec => [](CommandInv /\ RunInv /\ RestInv)
<1>1. CInit => RunInv /\ RestInv
  BY QuietInit, ProgramCalls DEF CInit, RunInv, RestInv
<1>2. CommandInv /\ RunInv /\ RestInv /\ [CNext]_allVars => RunInv' /\ RestInv'
  <2>1. ASSUME CommandInv, RunInv, RestInv, UNCHANGED allVars PROVE RunInv' /\ RestInv'
    <3>1. ExchangeInv /\ UNCHANGED vars /\ UNCHANGED <<program, fresh, kills, junk, pending, emit>>
      BY <2>1 DEF CommandInv, allVars, vars, processVars, deviceVars
    <3>2. RunInv'
      BY <2>1, <3>1, QuietStep DEF RunInv
    <3> QED
      BY <2>1, <3>1, <3>2 DEF RestInv, AtRest
  <2> QED
    BY <2>1, QuietProcess
<1> QED
  BY <1>1, <1>2, CommandInvariant, PTL DEF CSpec

\* A process that ends by itself, without strange data on the way, leaves no
\* request and no frame behind for the next one to find, although nothing ever
\* drains the handle and the Ledger goes on when a process ends.
THEOREM CommandsLeaveNothing ==
    ASSUME ~LossyWrites, LengthsAgree
    PROVE  CSpec => []LeavesNothing
<1>1. RestInv => LeavesNothing
  BY DEF RestInv, AtRest, LeavesNothing
<1> QED
  BY <1>1, QuietCommands, PTL

-----------------------------------------------------------------------------
(***************************************************************************)
(* What a process prints.                                                  *)
(***************************************************************************)
\* exchange() has delivered nothing or the answer to this call.
DeliveredOwn ==
    /\ out.kind # "empty"
    /\ \/ Delivered = NoAnswer
       \/ \E a \in served : a.call = call /\ a.cmd = cmd /\ Delivered = a

ResultInv == fresh /\ junk = 0 => DeliveredOwn

\* What is delivered stays what it is while the result does.
LEMMA DeliveredKept ==
    ASSUME DeliveredOwn, UNCHANGED <<out, call, cmd>>, served \subseteq served'
    PROVE  DeliveredOwn'
<1>1. Delivered' = Delivered
  BY DEF Delivered, HoldsPayloadOf, Origin, LastWrite, StatusWord, AnswerTotal,
     AnswerLength, AnswerPayload
<1> QED
  BY <1>1 DEF DeliveredOwn

\* On a quiet line a call is given its own answer or none.
LEMMA DeliveredStep ==
    ASSUME LengthsAgree, TwoFrames, ExchangeInv, QuietInv, DeliveredOwn, [Next]_vars
    PROVE  DeliveredOwn'
<1>0. TypeOK /\ BufferInv /\ LineInv /\ ~(ShortReport \/ RejectHeader \/ WrongSeqno)
  BY NoRetry DEF ExchangeInv, QuietInv
<1>1. ASSUME NEW c \in Cmds, BeginCall(c) PROVE DeliveredOwn'
  <2>1. out' = NoOut
    BY <1>0, <1>1 DEF BeginCall, LineInv
  <2> QED
    BY <2>1 DEF DeliveredOwn, Delivered, NoOut
<1>2. CASE NoHandle \/ CloseForRetry \/ ReopenForRetry
  BY <1>0, <1>2 DEF NoHandle, HasHandle, CloseForRetry, ReopenForRetry, LineInv
<1>3. CASE Attempt \/ WriteFrame \/ AcceptFrame \/ ReadError
  BY <1>3, DeliveredKept DEF Attempt, WriteFrame, AcceptFrame, ReadError, deviceVars
<1>4. CASE Finish
  <2>1. /\ out'.kind \in {"reply", "throw"} /\ UNCHANGED <<call, cmd, served>>
    BY <1>4 DEF Finish, Return, deviceVars
  <2> QED
    BY <1>0, <1>4, <2>1, FinishDelivers DEF DeliveredOwn
<1>5. ASSUME NEW ok \in BOOLEAN, Execute(ok) PROVE DeliveredOwn'
  BY <1>5, DeliveredKept DEF Execute, hostVars
<1>6. ASSUME NEW k \in JunkKinds, StrangeData(k) PROVE DeliveredOwn'
  BY <1>6, DeliveredKept DEF StrangeData, hostVars
<1>7. CASE EmitFrame \/ Unplug \/ Plug \/ UNCHANGED vars
  BY <1>7, DeliveredKept DEF EmitFrame, Unplug, Plug, vars, hostVars, deviceVars
<1> QED
  BY <1>0, <1>1, <1>2, <1>3, <1>4, <1>5, <1>6, <1>7 DEF Next, HostStep, DeviceStep

\* A reply with CODE_SUCCESS carries the payload of an answer to this call.
LEMMA SuccessIsAnswered ==
    ASSUME TypeOK, DeliveredOwn, out.kind = "reply", out.status = CODE_SUCCESS
    PROVE  \E a \in served : Answered(a)
<1> DEFINE o == Origin(out.buf, 0).ans
<1>1. Delivered = IF StatusWord(o) = CODE_SUCCESS /\ HoldsPayloadOf(out.buf, out.respLen, o)
                  THEN o ELSE Corrupt
  BY DEF Delivered
<1>2. Delivered # NoAnswer
  BY <1>1 DEF NoAnswer, Corrupt, StatusWord, CODE_SUCCESS, CODE_USER_REJECTED
<1>3. PICK a \in served : a.call = call /\ a.cmd = cmd /\ Delivered = a
  BY <1>2 DEF DeliveredOwn
<1>4. a # Corrupt
  <2>1. a.call \in 1 .. MaxCalls
    BY DEF TypeOK, DeviceType, AnswerType
  <2>2. a.call # -1
    BY <2>1, ExchangeAssumption
  <2> QED
    BY <2>2 DEF Corrupt
<1>5. StatusWord(a) = CODE_SUCCESS /\ HoldsPayloadOf(out.buf, out.respLen, a)
  BY <1>1, <1>3, <1>4
<1>6. a.ok
  BY <1>5 DEF StatusWord, CODE_SUCCESS, CODE_USER_REJECTED
<1> QED
  BY <1>3, <1>5, <1>6 DEF Answered

\* Ending a process changes nothing of what its last call delivered.
LEMMA EndResult ==
    ASSUME CommandInv, Exit \/ Kill
    PROVE  /\ program # "none" /\ program' = "none"
           /\ UNCHANGED <<out, call, cmd, served, fresh, junk>>
BY DEF Exit, Called, Kill, End, deviceVars

\* A result is of the process it is printed by.
LEMMA ResultProcess ==
    ASSUME LengthsAgree, TwoFrames, CommandInv, RunInv, ResultInv, CNext
    PROVE  ResultInv'
<1>1. ExchangeInv /\ TypeOK
  BY DEF CommandInv, ExchangeInv
<1>2. ASSUME NEW p \in Programs, Start(p) PROVE ResultInv'
  <2>1. out' = NoOut
    BY <1>2 DEF Start
  <2> QED
    BY <2>1 DEF ResultInv, DeliveredOwn, Delivered, NoOut
<1>3. ASSUME [Next]_vars, UNCHANGED <<program, fresh>>, program # "none" PROVE ResultInv'
  <2>1. junk' = 0 => junk = 0
    BY <1>1, <1>3, JunkGrows
  <2> QED
    BY <1>1, <1>3, <2>1, DeliveredStep DEF RunInv, ResultInv
<1>4. CASE Invoke
  BY <1>3, <1>4, CommandType DEF CommandInv, Invoke, Next
<1>5. CASE Proceed
  BY <1>3, <1>5 DEF Proceed, Called
<1>6. CASE Exit \/ Kill
  BY <1>6, EndResult, DeliveredKept DEF ResultInv
<1>7. CASE Outside
  <2>1. [Next]_vars /\ UNCHANGED <<program, fresh, call, cmd>>
    BY <1>7, OutsideStep DEF CommandInv, Outside, processVars
  <2>2. CASE program # "none"
    BY <1>3, <2>1, <2>2
  <2>3. CASE program = "none"
    <3>1. pc = "idle" /\ out' = out
      BY <1>7, <2>3, OutsideStep DEF CommandInv, ProcessInv
    <3>2. served \subseteq served'
      BY <1>7, <3>1 DEF Outside, HostStep, NoHandle, Attempt, CloseForRetry, ReopenForRetry,
         WriteFrame, AcceptFrame, ShortReport, RejectHeader, WrongSeqno, ReadError, Finish,
         NextReport, WantsFrame, DeviceStep, EmitFrame, Execute, Unplug, Plug, StrangeData
    <3>3. junk' = 0 => junk = 0
      BY <1>1, <2>1, JunkGrows
    <3> QED
      BY <2>1, <3>1, <3>2, <3>3, DeliveredKept DEF ResultInv
  <2> QED
    BY <2>2, <2>3
<1> QED
  BY <1>2, <1>4, <1>5, <1>6, <1>7, CommandNext

NoJunk == junk = 0

\* No process that found the Ledger at rest is given the answer of another.
LEMMA ResultInvariant ==
    ASSUME Quiet, LengthsAgree, TwoFrames
    PROVE  CSpec => [](CommandInv /\ RunInv /\ RestInv /\ ResultInv /\ NoJunk)
<1>1. CInit => ResultInv /\ NoJunk
  BY DEF NoJunk, CInit, Init, NoOut, ResultInv, DeliveredOwn, Delivered
<1>2. CommandInv /\ RunInv /\ ResultInv /\ [CNext]_allVars => ResultInv'
  <2>1. ASSUME ResultInv, UNCHANGED allVars PROVE ResultInv'
    <3>1. UNCHANGED <<out, call, cmd, served, fresh, junk>>
      BY <2>1 DEF allVars, vars, hostVars, processVars, deviceVars
    <3> QED
      BY <2>1, <3>1, DeliveredKept DEF ResultInv
  <2> QED
    BY <2>1, ResultProcess
<1>3. CommandInv /\ NoJunk /\ [CNext]_allVars => NoJunk'
  <2> SUFFICES ASSUME CommandInv, junk = 0, [CNext]_allVars PROVE junk' = 0
    BY DEF NoJunk
  <2>1. TypeOK
    BY DEF CommandInv, ExchangeInv
  <2>2. ASSUME [Next]_vars PROVE junk' = 0
    BY <2>1, <2>2, JunkCounted, NoStrangeData
  <2>3. CASE Outside
    BY <2>2, <2>3, OutsideStep DEF CommandInv
  <2>4. CASE Invoke
    BY <2>2, <2>4, CommandType DEF CommandInv, Invoke, Next
  <2>5. CASE Proceed \/ UNCHANGED allVars
    BY <2>2, <2>5 DEF Proceed, allVars
  <2>6. CASE Exit \/ Kill
    BY <2>6, EndResult
  <2>7. ASSUME NEW p \in Programs, Start(p) PROVE junk' = 0
    BY <2>7 DEF Start, deviceVars
  <2> QED
    BY <2>3, <2>4, <2>5, <2>6, <2>7, CommandNext
<1>4. CSpec => [](CommandInv /\ RunInv /\ RestInv)
  BY QuietCommands DEF Quiet
<1> QED
  BY <1>1, <1>2, <1>3, <1>4, PTL DEF CSpec

\* A process that finds the Ledger at rest and exits with 0 prints the answer to
\* its own last call, whatever was interrupted before it and though the device
\* may be unplugged at any moment.
THEOREM CommandsPrintTheAnswer ==
    ASSUME Quiet, LengthsAgree, TwoFrames
    PROVE  CSpec => []PrintsTheAnswer
<1>1. CommandInv /\ ResultInv /\ NoJunk => PrintsTheAnswer
  <2> SUFFICES ASSUME CommandInv, ResultInv, junk = 0, Printed, fresh
               PROVE  \E a \in served : Answered(a)
    BY DEF PrintsTheAnswer, NoJunk
  <2>1. TypeOK /\ DeliveredOwn
    BY DEF CommandInv, ExchangeInv, ResultInv
  <2>2. MethodReturns(cmd)
    BY DEF CommandInv, ProcessInv, Printed
  <2>3. out.kind = "reply" /\ out.status = CODE_SUCCESS
    BY <2>1, <2>2 DEF MethodReturns, Succeeded, DeliveredOwn
  <2> QED
    BY <2>1, <2>3, SuccessIsAnswered
<1> QED
  BY <1>1, ResultInvariant, PTL

\* The response cut out of a reply that holds the payload is the payload.
LEMMA ResponseIsPayload ==
    ASSUME TypeOK, NEW a \in served, Answered(a)
    PROVE  Response(out) = Payload[cmd]
<1>1. a \in AnswerType /\ a # NoAnswer /\ a.ok /\ a.cmd = cmd /\ cmd \in Cmds
  BY AnswerIsSome DEF TypeOK, DeviceType, CallType, Answered
<1>2. PICK t \in Nat : /\ t = AnswerTotal(a) /\ t >= 4 /\ out.respLen = t
                       /\ Len(Payload[cmd]) = t - 4
  BY <1>1, AnswerLengths DEF Answered, HoldsPayloadOf, AnswerPayload
<1>3. ASSUME NEW i \in 1 .. t - 4 PROVE ByteAt(out.buf, i + 1) = Payload[cmd][i]
  <2>1. /\ i + 1 \in 2 .. t - 3 /\ i + 1 # 0 /\ i + 1 # 1 /\ i + 1 # t - 2 /\ i + 1 # t - 1
        /\ i + 1 < t /\ (i + 1) - 1 = i
    BY <1>2, <1>3
  <2>2. Origin(out.buf, i + 1) = [ans |-> a, at |-> i + 1]
    BY <1>2, <2>1 DEF Answered, HoldsPayloadOf
  <2>3. AnswerByte(a, i + 1) = Payload[cmd][i]
    BY <1>1, <1>2, <2>1 DEF AnswerByte, AnswerPayload
  <2> QED
    BY <1>1, <2>2, <2>3 DEF ByteAt
<1>4. Payload[cmd] \in Seq(Byte)
  BY <1>1, FramingAssumption
<1>5. Response(out) = [i \in 1 .. t - 4 |-> ByteAt(out.buf, i + 1)]
  BY <1>2 DEF Response, Answered
<1>6. Payload[cmd] = [i \in 1 .. t - 4 |-> Payload[cmd][i]]
  BY <1>2, <1>4
<1> QED
  BY <1>3, <1>5, <1>6

\* get_app_list finds the names in the payload, and the payloads of the other
\* commands have what their methods take.
AnswersParse ==
    /\ \A c \in DOMAIN AppNames :
         AppList(Payload[c]).ok /\ AppList(Payload[c]).names = AppNames[c]
    /\ \A c \in {"address", "sign", "version"} : Len(Payload[c]) >= Needs(c)

\* A list that is printed has the names that are in the answer to this call.
THEOREM CommandsListTheApps ==
    ASSUME Quiet, LengthsAgree, TwoFrames, AnswersParse
    PROVE  CSpec => []ListsTheApps
<1>1. CommandInv /\ ResultInv /\ NoJunk => ListsTheApps
  <2> SUFFICES ASSUME CommandInv, ResultInv, junk = 0, Printed, fresh,
                      cmd \in DOMAIN AppNames, out.kind = "reply"
               PROVE  AppList(Response(out)).names = AppNames[cmd]
    BY DEF ListsTheApps, NoJunk
  <2>1. TypeOK /\ DeliveredOwn /\ MethodReturns(cmd)
    BY DEF CommandInv, ExchangeInv, ResultInv, ProcessInv, Printed
  <2>2. \E a \in served : Answered(a)
    BY <2>1, SuccessIsAnswered DEF MethodReturns, Succeeded
  <2>3. Response(out) = Payload[cmd]
    BY <2>1, <2>2, ResponseIsPayload
  <2> QED
    BY <2>3 DEF AnswersParse
<1> QED
  BY <1>1, ResultInvariant, PTL

-----------------------------------------------------------------------------
(***************************************************************************)
(* What a process does not print.                                          *)
(***************************************************************************)
\* Without strange data and interruptions a request is executed once,
OneAnswer == \A a, b \in served : a.call = b.call => a = b

\* and a reply that is taken for a failure holds no answer to this call.
NoAnswerLost ==
    out.kind = "reply" /\ out.status # CODE_SUCCESS => \A a \in served : ~Answered(a)

UseInv == junk = 0 /\ kills = 0 => OneAnswer /\ NoAnswerLost

\* If the buffer holds the payload of a confirmed answer to this call, it holds
\* the status word too: where its last frame is missing, payload is missing.
LEMMA PayloadThenStatus ==
    ASSUME LengthsAgree, TwoFrames, TypeOK, BufferInv, QuietInv, OneAnswer, Finish,
           NEW b \in served, b.call = call, b.ok, HoldsPayloadOf(buffer, respLen, b)
    PROVE  Num16(buffer, respLen - 2) = CODE_SUCCESS
<1>1. /\ b \in AnswerType /\ buffer \in Seq(WriteType) /\ StatusWord(b) = CODE_SUCCESS
      /\ pc = "read" /\ respLen # NotRead
  BY DEF TypeOK, DeviceType, BufferType, StatusWord, Finish
<1>2. PICK t \in Nat : t = AnswerTotal(b) /\ t >= 4 /\ t <= 2 * DataSize /\ respLen = t
  BY <1>1, AnswerLengths, TwoFramesLength DEF HoldsPayloadOf
<1>3. ASSUME Written(b), Len(buffer) = FrameCount(b)
      PROVE  Num16(buffer, respLen - 2) = CODE_SUCCESS
  BY <1>1, <1>2, <1>3, BufferIsAnswer
<1>4. ASSUME NEW a \in served, Arriving(a) PROVE Num16(buffer, respLen - 2) = CODE_SUCCESS
  <2>1. a = b /\ Written(a)
    BY <1>4 DEF Arriving, OneAnswer
  <2>2. Len(buffer) = FrameCount(a)
    BY <1>4, FinishHasAll
  <2> QED
    BY <1>3, <2>1, <2>2
<1>5. buffer # <<>>
  BY <1>1, <1>2 DEF BufferInv
<1>6. ASSUME NEW a \in served, Partly(a) PROVE Num16(buffer, respLen - 2) = CODE_SUCCESS
  <2>1. a = b /\ Written(b) /\ Len(buffer) <= FrameCount(b)
    BY <1>6 DEF Partly, OneAnswer
  <2>2. PICK n \in Nat : n = Len(buffer) /\ n >= 1
    BY <1>1, <1>5, EmptySeq
  <2>3. FrameCount(b) = (t + 58) \div 59 /\ t <= 118 /\ FrameCount(b) \in Nat
    BY <1>1, <1>2, AnswerLengths DEF FrameCount, DataSize, FrameSize, HeaderSize
  <2>4. ASSUME n < FrameCount(b) PROVE FALSE
    <3>1. n = 1
      BY <1>2, <2>2, <2>3, <2>4
    <3>2. ~(FrameSize * 1 >= t)
      BY <1>1, <1>2, <2>3, <2>4, <3>1, AllReportsRead
    <3>3. t >= 65 /\ 60 \in 2 .. t - 3
      BY <1>2, <3>2 DEF FrameSize
    <3>4. Origin(buffer, 60) = [ans |-> b, at |-> 60]
      BY <1>2, <3>3 DEF HoldsPayloadOf
    <3>5. buffer[1].pos = 0
      <4>1. 1 \in 1 .. Len(buffer) /\ WritePos(1) = 0
        BY <2>2 DEF WritePos
      <4>2. buffer[1] = [pos |-> WritePos(1), ans |-> b, seq |-> 1 - 1]
        BY <2>1, <4>1 DEF Written
      <4> QED
        BY <4>1, <4>2
    <3>6. ~Covers(buffer[1], 60)
      BY <3>5 DEF Covers, DataSize, FrameSize, HeaderSize
    <3>7. LastWrite(buffer, 60) = {}
      BY <2>2, <3>1, <3>6 DEF LastWrite
    <3>8. Origin(buffer, 60).ans = NoAnswer
      BY <3>7 DEF Origin, ZeroByte
    <3> QED
      BY <1>1, <3>4, <3>8, AnswerIsSome
  <2>5. Len(buffer) = FrameCount(b)
    BY <2>1, <2>2, <2>3, <2>4
  <2> QED
    BY <1>3, <2>1, <2>5
<1> QED
  BY <1>1, <1>4, <1>5, <1>6 DEF QuietInv, TransferInv, Waiting, Lost

\* A step of a running process.
LEMMA UseStep ==
    ASSUME LengthsAgree, TwoFrames, ExchangeInv, QuietInv, OneAnswer, NoAnswerLost, [Next]_vars
    PROVE  OneAnswer' /\ NoAnswerLost'
<1>0. /\ TypeOK /\ BufferInv /\ LineInv /\ TransferInv /\ ServedInv
      /\ ~(ShortReport \/ RejectHeader \/ WrongSeqno)
  BY NoRetry DEF ExchangeInv, QuietInv
<1>1. ASSUME UNCHANGED <<out, call, cmd, served>> PROVE OneAnswer' /\ NoAnswerLost'
  <2>1. ASSUME NEW a \in served, Answered(a)' PROVE Answered(a)
    BY <1>1, <2>1 DEF Answered, HoldsPayloadOf, AnswerTotal, AnswerLength, AnswerPayload
  <2> QED
    BY <1>1, <2>1 DEF OneAnswer, NoAnswerLost
<1>2. ASSUME NEW c \in Cmds, BeginCall(c) PROVE OneAnswer' /\ NoAnswerLost'
  <2>1. out' = NoOut /\ served' = served
    BY <1>0, <1>2 DEF BeginCall, LineInv, deviceVars
  <2> QED
    BY <2>1 DEF OneAnswer, NoAnswerLost, NoOut
<1>3. CASE NoHandle \/ CloseForRetry \/ ReopenForRetry
  BY <1>0, <1>3 DEF NoHandle, HasHandle, CloseForRetry, ReopenForRetry, LineInv
<1>4. CASE Attempt \/ WriteFrame \/ AcceptFrame \/ ReadError
  BY <1>1, <1>4 DEF Attempt, WriteFrame, AcceptFrame, ReadError, deviceVars
<1>5. CASE Finish
  <2>1. UNCHANGED <<call, cmd, served>>
    BY <1>5 DEF Finish, deviceVars
  <2>2. \/ out'.kind = "throw"
        \/ /\ out'.kind = "reply" /\ out'.status = Num16(buffer, respLen - 2)
           /\ out'.buf = buffer /\ out'.respLen = respLen
    BY <1>5 DEF Finish, Return
  <2>3. ASSUME out'.kind = "reply", NEW b \in served, Answered(b)'
        PROVE  out'.status = CODE_SUCCESS
    <3>1. b.call = call /\ b.ok /\ HoldsPayloadOf(out'.buf, out'.respLen, b)
      BY <2>1, <2>3 DEF Answered, HoldsPayloadOf, AnswerTotal, AnswerLength, AnswerPayload
    <3> QED
      BY <1>0, <1>5, <2>2, <2>3, <3>1, PayloadThenStatus
  <2> QED
    BY <2>1, <2>3 DEF OneAnswer, NoAnswerLost
<1>6. ASSUME NEW ok \in BOOLEAN, Execute(ok) PROVE OneAnswer' /\ NoAnswerLost'
  <2>1. pc = "read" /\ Waiting
    BY <1>0, <1>6 DEF Execute, Nothing, TransferInv, Arriving, Lost, LineInv
  <2>2. Head(pending) = Request(call, cmd) /\ out' = out /\ out.kind = "none"
    BY <1>0, <1>6, <2>1 DEF Waiting, Execute, LineInv, OutType, hostVars
  <2>3. PICK a : a = Answer(Request(call, cmd), ok) /\ served' = served \cup {a}
    BY <1>6, <2>2 DEF Execute
  <2>4. a.call = call /\ \A b \in served : b.call # call
    BY <1>0, <2>1, <2>3 DEF Answer, Request, Waiting, ServedInv
  <2> QED
    BY <2>2, <2>3, <2>4 DEF OneAnswer, NoAnswerLost
<1>7. ASSUME NEW k \in JunkKinds, StrangeData(k) PROVE OneAnswer' /\ NoAnswerLost'
  BY <1>1, <1>7 DEF StrangeData, hostVars
<1>8. CASE EmitFrame \/ Unplug \/ Plug \/ UNCHANGED vars
  BY <1>1, <1>8 DEF EmitFrame, Unplug, Plug, vars, hostVars, deviceVars
<1> QED
  BY <1>0, <1>2, <1>3, <1>4, <1>5, <1>6, <1>7, <1>8 DEF Next, HostStep, DeviceStep

\* So do its end and the next one's beginning.
LEMMA UseProcess ==
    ASSUME LengthsAgree, TwoFrames, CommandInv, RunInv, RestInv, UseInv, CNext
    PROVE  UseInv'
<1>1. ExchangeInv /\ TypeOK
  BY DEF CommandInv, ExchangeInv
<1>2. ASSUME UNCHANGED <<out, call, cmd, served>>, junk' = 0 /\ kills' = 0 => junk = 0 /\ kills = 0
      PROVE  UseInv'
  <2>1. ASSUME NEW a \in served, Answered(a)' PROVE Answered(a)
    BY <1>2, <2>1 DEF Answered, HoldsPayloadOf, AnswerTotal, AnswerLength, AnswerPayload
  <2> QED
    BY <1>2, <2>1 DEF UseInv, OneAnswer, NoAnswerLost
<1>3. ASSUME [Next]_vars, UNCHANGED <<program, kills>>, program # "none" PROVE UseInv'
  <2>1. junk' = 0 => junk = 0
    BY <1>1, <1>3, JunkGrows
  <2> QED
    BY <1>1, <1>3, <2>1, UseStep DEF RunInv, RestInv, UseInv
<1>4. ASSUME NEW p \in Programs, Start(p) PROVE UseInv'
  <2>1. out' = NoOut /\ UNCHANGED <<served, junk, kills>>
    BY <1>4 DEF Start, deviceVars
  <2> QED
    BY <2>1 DEF UseInv, OneAnswer, NoAnswerLost, NoOut
<1>5. CASE Invoke
  BY <1>3, <1>5, CommandType DEF CommandInv, Invoke, Next
<1>6. CASE Proceed
  BY <1>3, <1>6 DEF Proceed, Called
<1>7. CASE Exit
  BY <1>2, <1>7, EndResult DEF Exit
<1>8. CASE Kill
  <2>1. kills' = kills + 1 /\ kills \in 0 .. MaxKills
    BY <1>8 DEF Kill, CommandInv, ProcessInv
  <2>2. kills' # 0
    BY <2>1, CommandLineAssumption
  <2> QED
    BY <2>2 DEF UseInv
<1>9. CASE Outside
  <2>1. [Next]_vars /\ UNCHANGED <<program, kills, call, cmd>>
    BY <1>9, OutsideStep DEF CommandInv, Outside, processVars
  <2>2. CASE program # "none"
    BY <1>3, <2>1, <2>2
  <2>3. CASE program = "none"
    <3>1. pc = "idle" /\ out' = out
      BY <1>9, <2>3, OutsideStep DEF CommandInv, ProcessInv
    <3>2. junk' = 0 => junk = 0
      BY <1>1, <2>1, JunkGrows
    <3>3. ASSUME junk = 0, kills = 0 PROVE served' = served
      <4>1. AtRest
        BY <2>3, <3>3 DEF RestInv
      <4> QED
        BY <1>9, <3>1, <4>1 DEF AtRest, Outside, HostStep, NoHandle, Attempt, CloseForRetry,
           ReopenForRetry, WriteFrame, AcceptFrame, ShortReport, RejectHeader, WrongSeqno,
           ReadError, Finish, NextReport, WantsFrame, DeviceStep, EmitFrame, Execute, Unplug,
           Plug, StrangeData
    <3> QED
      BY <1>2, <2>1, <3>1, <3>2, <3>3 DEF UseInv
  <2> QED
    BY <2>2, <2>3
<1> QED
  BY <1>4, <1>5, <1>6, <1>7, <1>8, <1>9, CommandNext

\* No answer is thrown away: a process whose last call has the whole answer to
\* it, and the user's consent, does not exit with 1, though the device may be
\* unplugged at any moment.
THEOREM CommandsUseTheAnswer ==
    ASSUME Quiet, MaxKills = 0, LengthsAgree, TwoFrames, AnswersParse
    PROVE  CSpec => []AnswerIsUsed
<1>1. CInit => UseInv
  BY DEF CInit, Init, NoOut, UseInv, OneAnswer, NoAnswerLost
<1>2. CommandInv /\ RunInv /\ RestInv /\ UseInv /\ [CNext]_allVars => UseInv'
  <2>1. ASSUME UseInv, UNCHANGED allVars PROVE UseInv'
    <3>1. UNCHANGED <<out, call, cmd, served, junk, kills>>
      BY <2>1 DEF allVars, vars, hostVars, processVars, deviceVars
    <3>2. ASSUME NEW a \in served, Answered(a)' PROVE Answered(a)
      BY <3>1, <3>2 DEF Answered, HoldsPayloadOf, AnswerTotal, AnswerLength, AnswerPayload
    <3> QED
      BY <2>1, <3>1, <3>2 DEF UseInv, OneAnswer, NoAnswerLost
  <2> QED
    BY <2>1, UseProcess
<1>3. CommandInv /\ NoJunk /\ UseInv => AnswerIsUsed
  <2> SUFFICES ASSUME CommandInv, NoJunk, UseInv, program = "none", ended = "1",
                      NEW a \in served, Answered(a)
               PROVE  FALSE
    BY DEF AnswerIsUsed
  <2>1. TypeOK /\ ProcessInv /\ ~MethodReturns(cmd)
    BY DEF CommandInv, ExchangeInv, ProcessInv
  <2>2. kills = 0
    BY <2>1 DEF ProcessInv
  <2>3. out.kind = "reply" /\ out.status = CODE_SUCCESS
    BY <2>2 DEF NoJunk, UseInv, NoAnswerLost, Answered
  <2>4. Response(out) = Payload[cmd]
    BY <2>1, ResponseIsPayload
  <2>5. cmd \in {"address", "sign", "version"} \cup DOMAIN AppNames
    BY <2>1, CommandLineAssumption DEF TypeOK, CallType
  <2> QED
    BY <2>1, <2>3, <2>4, <2>5 DEF MethodReturns, Succeeded, AnswersParse
<1> QED
  BY <1>1, <1>2, <1>3, ResultInvariant, PTL DEF CSpec

=============================================================================
