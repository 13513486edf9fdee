----------------------------- MODULE HidReports -----------------------------
(***************************************************************************)
(* What a HID backend promises about the input reports of one handle: they *)
(* queue in the order they arrive, the oldest goes when too many wait, and *)
(* hid_read_timeout takes the oldest, fails once the device is gone and    *)
(* the queue is empty (on mac also before it is empty), or comes back with *)
(* nothing if it does not block.                                           *)
(***************************************************************************)
EXTENDS Integers, Sequences

CONSTANTS
    Cap,          \* reports a handle keeps
    FailsEarly    \* may a read fail although reports wait?

VARIABLES
    queue, arrived,   \* reports are numbered as they arrive
    gone,
    reader, mode,     \* "idle" or "reading"; "block", "timed" or "poll"
    result            \* the report read, Nothing, or Error

vars == <<queue, arrived, gone, reader, mode, result>>

Nothing == 0
Error   == -1

Init ==
    /\ queue = <<>> /\ arrived = 0 /\ gone = FALSE
    /\ reader = "idle" /\ mode = "block" /\ result = Nothing

Arrive ==
    /\ arrived' = arrived + 1
    /\ queue' = LET q == Append(queue, arrived')
                IN  IF Len(q) > Cap THEN Tail(q) ELSE q
    /\ UNCHANGED <<gone, reader, mode, result>>

Lose ==
    /\ gone' = TRUE
    /\ UNCHANGED <<queue, arrived, reader, mode, result>>

Call ==
    /\ reader = "idle" /\ reader' = "reading"
    /\ mode' \in {"block", "timed", "poll"} /\ result' = Nothing
    /\ UNCHANGED <<queue, arrived, gone>>

Take ==
    /\ reader = "reading" /\ reader' = "idle"
    /\ queue # <<>> /\ result' = Head(queue) /\ queue' = Tail(queue)
    /\ UNCHANGED <<arrived, gone, mode>>

Fail ==
    /\ reader = "reading" /\ reader' = "idle"
    /\ gone /\ (queue = <<>> \/ FailsEarly) /\ result' = Error
    /\ UNCHANGED <<queue, arrived, gone, mode>>

GiveUp ==
    /\ reader = "reading" /\ reader' = "idle"
    /\ mode # "block" /\ result' = Nothing
    /\ UNCHANGED <<queue, arrived, gone, mode>>

\* hid_close: what is left in the queue is freed.
Close ==
    /\ reader = "idle" /\ gone
    /\ queue' = <<>>
    /\ UNCHANGED <<arrived, gone, reader, mode, result>>

Next == Arrive \/ Lose \/ Call \/ Take \/ Fail \/ GiveUp \/ Close

Spec == Init /\ [][Next]_vars /\ WF_vars(Take \/ Fail \/ GiveUp)
=============================================================================
