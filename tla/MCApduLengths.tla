--------------------------- MODULE MCApduLengths ----------------------------
(***************************************************************************)
(* ApduExchange with one command per payload length, to sweep the lengths  *)
(* at which the answer fills a frame.  The command is named by its length. *)
(***************************************************************************)
EXTENDS ApduExchange, TLC

\* The whole answer of 59 bytes fits one frame, that of 118 bytes two.  An
\* answer of 60 to 64 bytes needs two frames and counts as read after one.
OneOrTwoFrames == {ToString(n) : n \in {0, 1, 20, 54, 55, 61, 65, 113, 114}}

PayloadLength(c) == CHOOSE n \in 0 .. MaxPayload : ToString(n) = c

MCPayload == [c \in Cmds |-> [i \in 1 .. PayloadLength(c) |-> 255]]

\* The command with an empty answer, run_app, takes a request of two reports.
MCRequestSize == [c \in Cmds |-> IF c = "0" THEN 60 ELSE 0]
=============================================================================
