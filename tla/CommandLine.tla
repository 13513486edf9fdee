----------------------------- MODULE CommandLine -----------------------------
(***************************************************************************)
(* The command line of main.cpp: one process after another, each with a    *)
(* wallet of its own, makes one or two calls of nanos_wallet, prints what  *)
(* they return and exits.  The exchange, the Ledger and the USB stack are  *)
(* those of ApduExchange; a process opens the handle and closes it, the    *)
(* Ledger goes on.                                                         *)
(*                                                                         *)
(* Between exchange() and main.cpp are the methods of nanos_wallet, which  *)
(* cut their results out of the response.  take_range, take_first,         *)
(* take_last and at are external: beyond the response they throw           *)
(* out_of_range.  What boost makes of the options is left out: a process   *)
(* that gets that far runs one command of the action map.                  *)
(***************************************************************************)
EXTENDS ApduExchange

CONSTANTS
    OtherPrograms,  \* programs of others: [name -> the commands they call]
    AppNames,       \* AppNames[c]: lengths of the names the Ledger lists for c
    MaxProcesses,   \* bound: processes
    MaxKills        \* bound: processes the user interrupts

ASSUME CommandLineAssumption ==
    /\ Cmds = {"address", "sign", "version"} \cup DOMAIN AppNames
    /\ {"address", "sign", "version"} \cap DOMAIN AppNames = {}
    /\ "none" \notin DOMAIN OtherPrograms
    /\ \A p \in DOMAIN OtherPrograms :
         OtherPrograms[p] \in Seq(Cmds) /\ Len(OtherPrograms[p]) \in {1, 2}
    /\ MaxProcesses \in Nat \ {0} /\ MaxKills \in Nat

VARIABLES
    process,    \* processes started
    program,    \* what runs now, or "none"
    step,       \* its next call
    waiting,    \* has it made that call?
    ended,      \* how the last process ended: "0", "1" or "killed"
    fresh,      \* history: was the Ledger at rest when this process began?
    kills

processVars == <<process, program, step, waiting, ended, fresh, kills>>
allVars == <<vars, processVars>>

ActionMap == [get_address |-> <<"address">>,
              sign_tx     |-> <<"address", "sign">>,
              app_version |-> <<"version">>]

Programs == DOMAIN ActionMap \cup DOMAIN OtherPrograms
Calls(p) == IF p \in DOMAIN ActionMap THEN ActionMap[p] ELSE OtherPrograms[p]

(***************************************************************************)
(* What a method of nanos_wallet makes of the response.                    *)
(***************************************************************************)
\* The response: what exchange() returned, without length and status word.
Response(o) ==
    IF o.kind = "empty" THEN <<>>
    ELSE [i \in 1 .. o.respLen - 4 |-> ByteAt(o.buf, i + 1)]

\* get_app_list: one byte, then for each application its length, 4 bytes of
\* flags, two hashes of 32 bytes, the length of its name and the name; the loop
\* ends where the response ends and throws where it steps over that.
\* (Slip: the length of an item is not skipped.)
NameOffset_NoLength == 68
NameOffset == 1 + 4 + 32 + 32

NoList == [ok |-> FALSE, names |-> <<>>]

AppList(response) ==
    LET size == Len(response)
        from[offset \in 1 .. size] ==
            IF offset = size THEN [ok |-> TRUE, names |-> <<>>]
            ELSE IF offset + NameOffset >= size THEN NoList
            ELSE LET nameLen == response[offset + NameOffset + 1]
                     next == offset + NameOffset + 1 + nameLen
                 IN  IF next > size \/ ~from[next].ok THEN NoList
                     ELSE [ok |-> TRUE, names |-> <<nameLen>> \o from[next].names]
    IN  IF size = 0 THEN [ok |-> TRUE, names |-> <<>>] ELSE from[1]

\* take_first(32) and take_range(32, 64) of sign_tx, take_range(0, 20) of
\* get_address, at(2) of get_app_version.  (Slip: a range is cut short at the
\* end of the response.)
Needs_Nothing(c) == 0
Needs(c) == CASE c = "address" -> 20 [] c = "sign" -> 64 [] c = "version" -> 3

\* if (status != CODE_SUCCESS) throw.  (Slip: the status is printed only.)
Succeeded_Printed == TRUE
Succeeded == out.status = CODE_SUCCESS

\* Does the method return?  Else it throws, and so does exchange().
MethodReturns(c) ==
    /\ out.kind \in {"reply", "empty"}
    /\ Succeeded
    /\ IF c \in DOMAIN AppNames THEN AppList(Response(out)).ok
       ELSE Len(Response(out)) >= Needs(c)

(***************************************************************************)
(* Processes.                                                              *)
(***************************************************************************)
\* The first process has opened its wallet.
CInit ==
    /\ Init
    /\ process = 1 /\ program \in Programs /\ step = 1 /\ waiting = FALSE
    /\ ended = "0" /\ fresh = TRUE /\ kills = 0

\* nanos_wallet device; device.init().
Start(p) ==
    /\ program = "none" /\ process < MaxProcesses
    /\ process' = process + 1
    /\ fresh' = (pending = <<>> /\ emit = <<>>)
    /\ m_seq' = 0 /\ m_offset' = 0 /\ rn' = 0 /\ rx' = <<>> /\ out' = NoOut
    /\ buffer' = <<>> /\ respLen' = NotRead
    /\ \/ /\ plugged /\ m_valid' = TRUE /\ m_dev' = "open"
          /\ program' = p /\ step' = 1 /\ waiting' = FALSE /\ UNCHANGED ended
       \/ /\ m_valid' = FALSE /\ m_dev' = "null"
          /\ ended' = "1" /\ UNCHANGED <<program, step, waiting>>
    /\ UNCHANGED <<pc, call, cmd, cseq, delivered, deviceVars, kills>>

Command == Calls(program)[step]

Invoke ==
    /\ program # "none" /\ ~waiting
    /\ BeginCall(Command)
    /\ waiting' = TRUE
    /\ UNCHANGED <<process, program, step, ended, fresh, kills>>

Called == program # "none" /\ waiting /\ pc = "idle"

Proceed ==
    /\ Called /\ MethodReturns(Command) /\ step < Len(Calls(program))
    /\ step' = step + 1 /\ waiting' = FALSE
    /\ UNCHANGED <<vars, process, program, ended, fresh, kills>>

\* The wallet goes out of scope: ~hidpp_device closes the handle.
End(code) ==
    /\ ended' = code /\ program' = "none"
    /\ m_dev' = "null" /\ rx' = <<>>
    /\ UNCHANGED <<call, cmd, out, m_valid, framerVars, deviceVars,
                   process, step, waiting, fresh>>

\* catch (const std::exception&) return 1.
ExitCode == IF MethodReturns(Command) THEN "0" ELSE "1"

Exit ==
    /\ Called /\ (MethodReturns(Command) => step = Len(Calls(program)))
    /\ End(ExitCode)
    /\ UNCHANGED <<pc, localVars, kills>>

\* The user interrupts a process, and the system closes its handle.
Kill ==
    /\ program # "none" /\ kills < MaxKills
    /\ kills' = kills + 1
    /\ pc' = "idle"
    /\ buffer' = <<>> /\ respLen' = NotRead
    /\ End("killed")
    /\ UNCHANGED <<cseq, delivered>>

ProcessStep == Invoke \/ Proceed \/ Exit

CNext ==
    \/ \E p \in Programs : Start(p)
    \/ ProcessStep
    \/ Kill
    \/ UNCHANGED processVars /\ (HostStep \/ DeviceStep \/ Unplug \/ Plug)
    \/ UNCHANGED processVars /\ \E k \in JunkKinds : StrangeData(k)

CSpec == CInit /\ [][CNext]_allVars
-----------------------------------------------------------------------------
(***************************************************************************)
(* Properties                                                              *)
(***************************************************************************)
CTypeOK ==
    /\ TypeOK
    /\ process \in 1 .. MaxProcesses /\ program \in Programs \cup {"none"}
    /\ step \in 1 .. 2 /\ waiting \in BOOLEAN /\ ended \in {"0", "1", "killed"}
    /\ fresh \in BOOLEAN /\ kills \in 0 .. MaxKills
    /\ program = "none" => pc = "idle" /\ rx = <<>>

Printed == program = "none" /\ ended = "0"

\* An answer the Ledger gave to this very call, and the call's own reply.
Answered(a) ==
    /\ a.call = call /\ a.cmd = cmd /\ a.ok
    /\ out.kind = "reply" /\ HoldsPayloadOf(out.buf, out.respLen, a)

\* A process that finds the Ledger at rest and exits with 0 has printed what
\* the Ledger answered to the call of this process, although strange data may
\* make exchange() ask twice and leave an answer behind: sign_tx, whose first
\* call is the one another could be taken for, tells it by its length.
\* The one exception is an application list that is empty because the handle
\* was lost (nanos_wallet.cpp:326).
PrintsTheAnswer ==
    Printed /\ fresh =>
        \/ \E a \in served : Answered(a)
        \/ cmd \in DOMAIN AppNames /\ out.kind = "empty"

\* A list that is returned has the names the Ledger listed.
ListsTheApps ==
    Printed /\ fresh /\ cmd \in DOMAIN AppNames /\ out.kind = "reply" =>
        AppList(Response(out)).names = AppNames[cmd]

\* No answer is thrown away: a process whose last call has the whole answer to
\* it, and the user's consent, does not exit with 1.
AnswerIsUsed ==
    program = "none" /\ ended = "1" => \A a \in served : ~Answered(a)

\* A process that ends by itself, without strange data on the way, leaves no
\* request and no frame behind for the next one to find.
LeavesNothing ==
    program = "none" /\ junk = 0 /\ kills = 0 => pending = <<>> /\ emit = <<>>
=============================================================================
