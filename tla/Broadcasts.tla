----------------------------- MODULE Broadcasts -----------------------------
(* WebSocketManager.broadcast, as an agent thread uses it through           *)
(* WebSocketToolBroadcaster and WebUICallback: the thread schedules one     *)
(* broadcast after the other on the web server's loop and waits a bounded   *)
(* time for each.  A broadcast walks the list of connections by index, with *)
(* an await per send; clients join and leave in between.                    *)
EXTENDS Naturals, Sequences, FiniteSets, SequencesExt, FilteredSequences

CONSTANTS
    Clients,      \* WebSockets; one that comes back is a new one
    NoSocket,       \* no client
    Events        \* bound: broadcasts of the agent thread, 1 .. Events

ASSUME CastAssumption == Events \in Nat /\ NoSocket \notin Clients

VARIABLES
    connections,  \* active_connections, in order
    met,          \* clients that have connected
    sending,      \* how many broadcasts the thread has scheduled
    waiting,      \* is the thread waiting for the last of them?
    cast,         \* broadcast -> its coroutine
    got,          \* client -> events it was sent, in order
    present,      \* broadcast -> who was connected when it began
    shifted,      \* history: broadcasts that lost their place in the list
    late          \* history: broadcasts the thread stopped waiting for
castVars == <<connections, met, sending, waiting, cast, got, present, shifted, late>>

Casts == 1 .. Events
Idle == [at |-> 0, to |-> NoSocket, failed |-> {}, stage |-> "idle"]
Walking == { e \in Casts : cast[e].stage = "walking" }

CastInit ==
    /\ connections = <<>> /\ met = {} /\ sending = 0 /\ waiting = FALSE
    /\ cast = [e \in Casts |-> Idle]
    /\ got = [c \in Clients |-> <<>>] /\ present = [e \in Casts |-> {}]
    /\ shifted = {} /\ late = {}

(* Leaving moves everybody behind one place forward, under the feet of a   *)
(* broadcast that has passed it.                                           *)
Removed(gone) == Keeping(connections, Clients \ gone)
Passed(e, gone) == \E i \in DOMAIN connections : i <= cast[e].at /\ connections[i] \in gone
Drop(gone, others) ==
    /\ connections' = Removed(gone)
    /\ shifted' = shifted \cup { e \in others : Passed(e, gone) }

Connect(c) ==
    /\ c \notin met /\ met' = met \cup {c}
    /\ connections' = Append(connections, c)
    /\ UNCHANGED <<sending, waiting, cast, got, present, shifted, late>>
Disconnect(c) ==
    /\ c \in ToSet(connections)
    /\ Drop({c}, Walking)
    /\ UNCHANGED <<met, sending, waiting, cast, got, present, late>>
-----------------------------------------------------------------------------
(* Mutant: the thread does not wait.                                       *)
ScheduleAtOnce ==
    /\ sending < Events
    /\ sending' = sending + 1 /\ waiting' = TRUE
    /\ cast' = [cast EXCEPT ![sending'].stage = "scheduled"]
    /\ UNCHANGED <<connections, met, got, present, shifted, late>>

(* The agent thread.                                                       *)
Schedule ==
    /\ ~waiting /\ sending < Events
    /\ sending' = sending + 1 /\ waiting' = TRUE
    /\ cast' = [cast EXCEPT ![sending'].stage = "scheduled"]
    /\ UNCHANGED <<connections, met, got, present, shifted, late>>
Answered ==
    /\ waiting /\ cast[sending].stage = "done" /\ waiting' = FALSE
    /\ UNCHANGED <<connections, met, sending, cast, got, present, shifted, late>>
GiveUp ==
    /\ waiting /\ cast[sending].stage # "done" /\ waiting' = FALSE
    /\ late' = late \cup {sending}
    /\ UNCHANGED <<connections, met, sending, cast, got, present, shifted>>

(* The coroutine: Begin fetches the first connection; Sent is a send that  *)
(* ended, the next fetch by index, and after the last one the removal of   *)
(* those that failed.                                                      *)
Begin(e) ==
    /\ cast[e].stage = "scheduled"
    /\ cast' = [cast EXCEPT ![e] =
          IF connections = <<>> THEN [@ EXCEPT !.stage = "done"]
          ELSE [@ EXCEPT !.stage = "walking", !.at = 1, !.to = connections[1]]]
    /\ present' = [present EXCEPT ![e] = ToSet(connections)]
    /\ UNCHANGED <<connections, met, sending, waiting, got, shifted, late>>
FailedWith(e, ok) == IF ok THEN cast[e].failed ELSE cast[e].failed \cup {cast[e].to}
(* Mutant: the first failure ends the broadcast.                           *)
SentOrAbandoned(e, ok) ==
    LET next == cast[e].at + 1 IN
    /\ cast[e].stage = "walking"
    /\ got' = IF ok THEN [got EXCEPT ![cast[e].to] = Append(@, e)] ELSE got
    /\ IF ok /\ next <= Len(connections)
       THEN /\ cast' = [cast EXCEPT ![e] = [@ EXCEPT !.at = next, !.to = connections[next]]]
            /\ UNCHANGED <<connections, shifted>>
       ELSE /\ cast' = [cast EXCEPT ![e] = [Idle EXCEPT !.stage = "done"]]
            /\ Drop(FailedWith(e, ok), Walking \ {e})
    /\ UNCHANGED <<met, sending, waiting, present, late>>

Sent(e, ok) ==
    LET next == cast[e].at + 1 IN
    /\ cast[e].stage = "walking"
    /\ got' = IF ok THEN [got EXCEPT ![cast[e].to] = Append(@, e)] ELSE got
    /\ IF next <= Len(connections)
       THEN /\ cast' = [cast EXCEPT ![e] = [stage |-> "walking", at |-> next,
                                            to |-> connections[next],
                                            failed |-> FailedWith(e, ok)]]
            /\ UNCHANGED <<connections, shifted>>
       ELSE /\ cast' = [cast EXCEPT ![e] = [Idle EXCEPT !.stage = "done"]]
            /\ Drop(FailedWith(e, ok), Walking \ {e})
    /\ UNCHANGED <<met, sending, waiting, present, late>>

CastNext ==
    \/ \E c \in Clients : Connect(c) \/ Disconnect(c)
    \/ Schedule \/ Answered \/ GiveUp
    \/ \E e \in Casts : Begin(e) \/ Sent(e, TRUE) \/ Sent(e, FALSE)
CastSpec == CastInit /\ [][CastNext]_castVars
-----------------------------------------------------------------------------
CastTypeOK ==
    /\ connections \in Seq(Clients) /\ met \subseteq Clients
    /\ sending \in 0 .. Events /\ waiting \in BOOLEAN
    /\ cast \in [Casts -> [at : Nat, to : Clients \cup {NoSocket}, failed : SUBSET Clients,
                           stage : {"idle", "scheduled", "walking", "done"}]]
    /\ got \in [Clients -> Seq(Casts)]
    /\ present \in [Casts -> SUBSET Clients]
    /\ shifted \subseteq Casts /\ late \subseteq Casts

(* A broadcast that did not lose its place has reached everyone who was    *)
(* connected when it began and is connected still; one failing client does *)
(* not keep the event from the others.                                     *)
StayersGetIt ==
    \A e \in Casts : cast[e].stage = "done" /\ e \notin shifted =>
        \A c \in present[e] \cap ToSet(connections) : e \in ToSet(got[c])

(* No client is sent an event twice, and a client sees the events of the   *)
(* agent in the order they happened (a result after its call), unless the  *)
(* thread stopped waiting for an earlier one.                              *)
InOrderUnlessLate ==
    \A c \in Clients : \A i, j \in DOMAIN got[c] :
        i < j => got[c][i] < got[c][j] \/ \E e \in late : got[c][j] <= e /\ e < got[c][i]
=============================================================================
