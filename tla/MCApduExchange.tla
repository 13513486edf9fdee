--------------------------- MODULE MCApduExchange ---------------------------
(***************************************************************************)
(* Instances of ApduExchange for TLC.  The payloads have the lengths of    *)
(* real answers: 3 bytes for get_app_version, 65 for sign_tx (two frames), *)
(* 153 for get_app_list with two apps (three frames), none for run_app,    *)
(* whose request, with a name of 60 characters, takes two reports.         *)
(***************************************************************************)
EXTENDS ApduExchange, TLC

PayloadLength(c) ==
    CASE c = "version" -> 3 [] c = "sign" -> 65 [] c = "apps" -> 153
      [] c = "run" -> 0 [] c = "address" -> 20

\* Byte 61 and byte 62 of each payload spell CODE_SUCCESS, the others do not.
MCPayload ==
    [c \in Cmds |-> [i \in 1 .. PayloadLength(c) |->
        IF i = 61 THEN 144 ELSE IF i = 62 THEN 0 ELSE 255]]

MCRequestSize ==
    [c \in Cmds |-> CASE c = "sign" -> 36 [] c = "address" -> 4
                      [] c = "run" -> 60 [] OTHER -> 0]
=============================================================================
