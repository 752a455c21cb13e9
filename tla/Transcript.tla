------------------------------ MODULE Transcript ------------------------------
(***************************************************************************)
(* What the session store promises of one conversation: messages are       *)
(* accepted into a log and the table holds a prefix of it that only grows. *)
(* What is not in the table yet may be forgotten, but only once something  *)
(* has failed.                                                             *)
(***************************************************************************)
EXTENDS Naturals, Sequences

CONSTANT
    Message     \* the messages of the conversation

VARIABLES
    log,        \* the messages accepted, oldest first
    saved,      \* how many of them are in the table
    failed      \* a save has failed, or the server stopped

vars == <<log, saved, failed>>

Init == log = <<>> /\ saved = 0 /\ failed = FALSE

Accept(m) ==
    /\ log' = Append(log, m)
    /\ UNCHANGED <<saved, failed>>

Persist ==
    /\ saved < Len(log)
    /\ saved' = saved + 1
    /\ UNCHANGED <<log, failed>>

Fail ==
    /\ failed' = TRUE
    /\ UNCHANGED <<log, saved>>

Forget ==
    /\ log' = SubSeq(log, 1, saved)
    /\ failed' = TRUE
    /\ UNCHANGED saved

Next == Persist \/ Fail \/ Forget \/ \E m \in Message : Accept(m)

Spec == Init /\ [][Next]_vars
=============================================================================
