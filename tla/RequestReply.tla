---------------------------- MODULE RequestReply ----------------------------
(***************************************************************************)
(* What nanos_wallet::exchange promises a command method, without frames,  *)
(* queues or offsets: a call asks the device once; it ends with the answer *)
(* the device gave to it, or it fails.                                     *)
(***************************************************************************)
EXTENDS Naturals

CONSTANTS Cmds, MaxCalls

VARIABLES
    phase,    \* "idle", or "busy" while a call runs
    call, cmd,   \* the number of the call and what it asks
    served,   \* the answers the device has given
    result    \* of the last call: an answer, or Failed

vars == <<phase, call, cmd, served, result>>

Answers == [call : 1 .. MaxCalls, cmd : Cmds, ok : BOOLEAN]
Failed  == [call |-> 0, cmd |-> "none", ok |-> FALSE]

Init == phase = "idle" /\ call = 0 /\ cmd \in Cmds /\ served = {} /\ result = Failed

Begin ==
    /\ phase = "idle" /\ call < MaxCalls
    /\ phase' = "busy" /\ call' = call + 1 /\ cmd' \in Cmds /\ result' = Failed
    /\ UNCHANGED served

Serve ==
    /\ phase = "busy"
    /\ \A a \in served : a.call # call
    /\ \E a \in Answers : /\ a.call = call /\ a.cmd = cmd
                         /\ served' = served \cup {a}
    /\ UNCHANGED <<phase, call, cmd, result>>

Reply ==
    /\ phase = "busy"
    /\ \E a \in served : a.call = call /\ result' = a
    /\ phase' = "idle"
    /\ UNCHANGED <<call, cmd, served>>

Fail ==
    /\ phase = "busy" /\ phase' = "idle"
    /\ UNCHANGED <<call, cmd, served, result>>

Next == Begin \/ Serve \/ Reply \/ Fail

Spec == Init /\ [][Next]_vars /\ WF_vars(Reply \/ Fail)
=============================================================================
