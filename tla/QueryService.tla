----------------------------- MODULE QueryService -----------------------------
(***************************************************************************)
(* What the web server promises to clients that wait for the dispatch of a *)
(* query before they send the next: a session is busy with one query at a  *)
(* time, the queries that come meanwhile stand in line, and the log gets   *)
(* the query first and then the line, in order and each once.  A line may  *)
(* be forgotten at two moments only: when the answer begins, and when the  *)
(* session becomes idle.  When the store fails, the head of the line may   *)
(* be lost, which the log says, and the session may stop listening.        *)
(***************************************************************************)
EXTENDS Naturals, Sequences

CONSTANTS
    Messages,   \* the queries
    Sessions,   \* the conversations
    None        \* no query

VARIABLES
    sent,       \* the queries that came
    serving,    \* the query each session is busy with
    stage,      \* "idle", "received", "recorded" or "answering" it, or "over"
    line,       \* the queries that came meanwhile, oldest first
    log         \* the queries that were to be added to a conversation, oldest
                \* first, and whether they are kept there

vars == <<sent, serving, stage, line, log>>

Init ==
    /\ sent = {}
    /\ serving = [s \in Sessions |-> None]
    /\ stage = [s \in Sessions |-> "idle"]
    /\ line = [s \in Sessions |-> <<>>]
    /\ log = <<>>

Comes(m) == m \notin sent /\ sent' = sent \cup {m}

Begin(m, s) ==
    /\ Comes(m)
    /\ stage[s] = "idle"
    /\ serving' = [serving EXCEPT ![s] = m]
    /\ stage' = [stage EXCEPT ![s] = "received"]
    /\ UNCHANGED <<line, log>>

Record(s) ==
    /\ stage[s] = "received"
    /\ stage' = [stage EXCEPT ![s] = "recorded"]
    /\ log' = Append(log, [query |-> serving[s], kept |-> TRUE])
    /\ UNCHANGED <<sent, serving, line>>

(* The line takes a query once the session's own is recorded. *)
Wait(m, s) ==
    /\ Comes(m)
    /\ stage[s] \in {"recorded", "answering", "over"}
    /\ line' = [line EXCEPT ![s] = Append(@, m)]
    /\ UNCHANGED <<serving, stage, log>>

Refuse(m, s) ==
    /\ Comes(m)
    /\ stage[s] \in {"recorded", "answering", "over"}
    /\ UNCHANGED <<serving, stage, line, log>>

(* What came before the answer begins is forgotten. *)
Answer(s) ==
    /\ stage[s] = "recorded"
    /\ stage' = [stage EXCEPT ![s] = "answering"]
    /\ line' = [line EXCEPT ![s] = <<>>]
    /\ UNCHANGED <<sent, serving, log>>

Deliver(s) ==
    /\ stage[s] = "answering"
    /\ line[s] # <<>>
    /\ log' = Append(log, [query |-> Head(line[s]), kept |-> TRUE])
    /\ line' = [line EXCEPT ![s] = Tail(@)]
    /\ UNCHANGED <<sent, serving, stage>>

(* Adding the head fails: it is kept or lost, and the session may leave    *)
(* the rest of the line where it is.                                       *)
StoreFails(s) ==
    /\ stage[s] = "answering"
    /\ line[s] # <<>>
    /\ \E kept \in BOOLEAN : log' = Append(log, [query |-> Head(line[s]), kept |-> kept])
    /\ line' = [line EXCEPT ![s] = Tail(@)]
    /\ stage' \in {stage, [stage EXCEPT ![s] = "over"]}
    /\ UNCHANGED <<sent, serving>>

(* The session stops listening, with an answer or without one. *)
Leave(s) ==
    /\ stage[s] \in {"recorded", "answering"}
    /\ stage' = [stage EXCEPT ![s] = "over"]
    /\ UNCHANGED <<sent, serving, line, log>>

(* The query is answered, or turned away; so is what is left of the line.  *)
End(s) ==
    /\ stage[s] # "idle"
    /\ serving' = [serving EXCEPT ![s] = None]
    /\ stage' = [stage EXCEPT ![s] = "idle"]
    /\ line' = [line EXCEPT ![s] = <<>>]
    /\ UNCHANGED <<sent, log>>

Next ==
    \/ \E m \in Messages, s \in Sessions : Begin(m, s) \/ Wait(m, s) \/ Refuse(m, s)
    \/ \E s \in Sessions : Record(s) \/ Answer(s) \/ Deliver(s) \/ StoreFails(s)
                            \/ Leave(s) \/ End(s)

Spec == Init /\ [][Next]_vars
=============================================================================
