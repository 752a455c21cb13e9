------------------------------- MODULE Questions -------------------------------
(***************************************************************************)
(* What the server promises about the questions that agents put to the     *)
(* user: a question that listens hears the last thing said to it, or is    *)
(* given up with "no"; it stops listening only while nothing was said, and *)
(* then gets its default.  Whatever is said to a question that does not    *)
(* listen has no effect, and nobody gets an answer out of nothing.  Where  *)
(* runs of a session may overlap, the end of one may cut off the questions *)
(* of another, which can then only be given up or crash.                   *)
(***************************************************************************)
CONSTANTS
    Requests,   \* the questions
    Answers,    \* what can be said to them, "yes" and "no" among it
    Nothing,    \* nothing was said, or told
    Serial      \* no two runs of a session overlap

VARIABLES
    phase,      \* "new", "open", "deaf", "cut", "over" or "lost"
    said,       \* the last thing said to an open question
    told,       \* what the agent was told
    lenient     \* the questions whose default is to go on

vars == <<phase, said, told, lenient>>

Init ==
    /\ phase = [r \in Requests |-> "new"]
    /\ said = [r \in Requests |-> Nothing]
    /\ told = [r \in Requests |-> Nothing]
    /\ lenient = {}

Ask(r) ==
    /\ phase[r] = "new"
    /\ phase' = [phase EXCEPT ![r] = "open"]
    /\ lenient' \in {lenient, lenient \cup {r}}
    /\ UNCHANGED <<said, told>>

(* No question is asked: the agent may go on by itself. *)
Pass(r) ==
    /\ phase[r] = "new"
    /\ phase' = [phase EXCEPT ![r] = "over"]
    /\ told' = [told EXCEPT ![r] = "auto"]
    /\ UNCHANGED <<said, lenient>>

Say(r, a) ==
    /\ phase[r] = "open"
    /\ said' = [said EXCEPT ![r] = a]
    /\ UNCHANGED <<phase, told, lenient>>

(* Some questions that nobody has answered are denied at once. *)
Deny(denied) ==
    /\ \A r \in denied : phase[r] = "open" /\ said[r] = Nothing
    /\ said' = [r \in Requests |-> IF r \in denied THEN "no" ELSE said[r]]
    /\ UNCHANGED <<phase, told, lenient>>

Conclude(r, answer) ==
    /\ phase' = [phase EXCEPT ![r] = "over"]
    /\ said' = [said EXCEPT ![r] = Nothing]
    /\ told' = [told EXCEPT ![r] = answer]
    /\ UNCHANGED lenient

Hear(r) ==
    /\ phase[r] = "open" /\ said[r] # Nothing
    /\ Conclude(r, said[r])

(* The question could not be put to anybody. *)
GiveUp(r) ==
    /\ phase[r] \in {"open", "cut"} /\ r \notin lenient
    /\ Conclude(r, "no")

(* The end of another run takes the questions away, and what was said. *)
CutOff(gone) ==
    /\ ~Serial
    /\ \A r \in gone : phase[r] = "open" /\ r \notin lenient
    /\ phase' = [r \in Requests |-> IF r \in gone THEN "cut" ELSE phase[r]]
    /\ said' = [r \in Requests |-> IF r \in gone THEN Nothing ELSE said[r]]
    /\ UNCHANGED <<told, lenient>>

Crash(r) == phase[r] = "cut" /\ Conclude(r, "crashed")

StopListening(r) ==
    /\ phase[r] = "open" /\ said[r] = Nothing
    /\ phase' = [phase EXCEPT ![r] = "deaf"]
    /\ UNCHANGED <<said, told, lenient>>

FallBack(r) ==
    /\ phase[r] = "deaf"
    /\ Conclude(r, IF r \in lenient THEN "yes" ELSE "no")

(* Who asked is gone. *)
Restart ==
    /\ phase' = [r \in Requests |->
                    IF phase[r] \in {"open", "deaf", "cut"} THEN "lost" ELSE phase[r]]
    /\ said' = [r \in Requests |-> Nothing]
    /\ UNCHANGED <<told, lenient>>

Next ==
    \/ \E r \in Requests : Ask(r) \/ Pass(r) \/ Hear(r) \/ GiveUp(r) \/ Crash(r)
    \/ \E r \in Requests : StopListening(r) \/ FallBack(r) \/ \E a \in Answers : Say(r, a)
    \/ \E some \in SUBSET Requests : Deny(some) \/ CutOff(some)
    \/ Restart

Spec == Init /\ [][Next]_vars
=============================================================================
