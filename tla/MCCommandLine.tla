--------------------------- MODULE MCCommandLine ----------------------------
(***************************************************************************)
(* Instances of CommandLine for TLC: the payloads have the lengths of real *)
(* answers, and the application lists are put together as the Ledger does. *)
(***************************************************************************)
EXTENDS CommandLine, TLC, SequencesExt

\* No application, one (two frames), two (three frames, one too many).
Lists == "no_app" :> <<>> @@ "one_app" :> <<5>> @@ "two_apps" :> <<3, 8>>

MCOtherPrograms == "list_none" :> <<"no_app">> @@ "list_one" :> <<"one_app">>
                       @@ "list_two" :> <<"two_apps">>

MCCmds == {"address", "sign", "version"} \cup DOMAIN Lists

Bytes(n, b) == [i \in 1 .. n |-> b]

\* An item as get_app_list takes it apart; the bytes but the lengths are 255.
Item(nameLen) ==
    <<70 + nameLen>> \o Bytes(4 + 32 + 32, 255) \o <<nameLen>> \o Bytes(nameLen, 255)

ListPayload(names) == <<1>> \o FlattenSeq([i \in DOMAIN names |-> Item(names[i])])

MCPayload ==
    [c \in Cmds |-> CASE c = "address" -> Bytes(20, 255) [] c = "sign" -> Bytes(65, 255)
                      [] c = "version" -> Bytes(3, 255) [] OTHER -> ListPayload(Lists[c])]

MCRequestSize == [c \in Cmds |-> CASE c = "sign" -> 36 [] c = "address" -> 4 [] OTHER -> 0]
=============================================================================
