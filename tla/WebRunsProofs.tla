---------------------------- MODULE WebRunsProofs ----------------------------
(***************************************************************************)
(* Theorems about WebRuns for any number of messages, sessions and workers *)
(* and any capacities.                                                     *)
(*                                                                         *)
(* TypeOK is not inductive: what a run adds to the history is typed only   *)
(* because a run that drains has bound a queue, a message in hand is only  *)
(* there while draining, and a run begins after some session was made      *)
(* current.  TypeInv adds these facts.  IdleIsClean is inductive given     *)
(* TypeInv; OneRunPerSession needs that a query between its dispatch and   *)
(* its run counts as a run already (SerialInv).  NoMessageTwice needs that *)
(* what is on a queue or in a hand was injected and is in one place only   *)
(* (OnePlace).  DeliveryLedger needs the wiring of queue objects, sessions *)
(* and runs (Wired), and that only a run bound to a queue, which emptied   *)
(* it first, has put what arrived there into the history (LedgerInv).      *)
(* The refinement of QueryService needs besides that a run reads the queue *)
(* of its session and a queue nobody named is empty (QueueInv).            *)
(***************************************************************************)
EXTENDS WebRuns, SequenceInduction, FiniteSetTheorems, TLAPS

(* Where a run may hold a message, has a current session, has a queue. *)
Draining == {"drainTop", "drainMid", "finalDrain"}
Loaded   == {"saving", "scheduled"} \cup Live
Bound    == {"registering", "ready", "entering"} \cup Looping
            \cup {"leaving", "finalDrain"}

(* The conjuncts that make TypeOK inductive. *)
SessKnown == \A m \in Messages : pc[m] # "new" => sess[m] \in Sessions
BoundKnown == \A m \in Messages : pc[m] \in Bound => bound[m] \in Messages
HandPhase == \A m \in Messages : hand[m] # None => pc[m] \in Draining
CurrentKnown == \A m \in Messages : pc[m] \in Loaded => current \in Sessions

TypeInv == TypeOK /\ SessKnown /\ BoundKnown /\ HandPhase /\ CurrentKnown

-----------------------------------------------------------------------------
(* What add_message appends is an entry. *)
LEMMA AddedType ==
  ASSUME NEW m \in Messages, NEW s \in Sessions \cup {None}, history \in Seq(Entry)
  PROVE  Append(history, [msg |-> m, to |-> s]) \in Seq(Entry)
  <1>1. [msg |-> m, to |-> s] \in Entry
    BY DEF Entry
  <1>2. QED
    BY <1>1

LEMMA TypeInvInit == Init => TypeInv
  <1> SUFFICES ASSUME Init PROVE TypeInv
    OBVIOUS
  <1>1. <<>> \in Seq(Messages) /\ <<>> \in Seq(Entry)
    OBVIOUS
  <1>2. TypeOK
    BY <1>1 DEF Init, TypeOK, Phases
  <1>3. QED
    BY <1>2 DEF Init, TypeInv, SessKnown, BoundKnown, HandPhase, CurrentKnown,
                Dispatching, Live, Wiring, Looping,
                 Leaving, Settled, Draining, Loaded, Bound

(* A query moves from a phase to another: the conjuncts of TypeInv about   *)
(* the other queries are kept, those about this one have to be shown.      *)
LEMMA Moved ==
  ASSUME TypeInv, TypeOK', NEW m \in Messages, NEW p \in Phases,
         pc' = [pc EXCEPT ![m] = p],
         \A n \in Messages \ {m} :
            sess'[n] = sess[n] /\ bound'[n] = bound[n] /\ hand'[n] = hand[n],
         p # "new" => sess'[m] \in Sessions,
         p \in Bound => bound'[m] \in Messages,
         hand'[m] # None => p \in Draining,
         current' \in {current} \cup Sessions,
         p \in Loaded => current' \in Sessions
  PROVE  TypeInv'
  <1>1. pc'[m] = p /\ \A n \in Messages \ {m} : pc'[n] = pc[n]
    BY DEF TypeInv, TypeOK
  <1>2. SessKnown'
    BY <1>1 DEF TypeInv, SessKnown
  <1>3. BoundKnown'
    BY <1>1 DEF TypeInv, BoundKnown
  <1>4. HandPhase'
    BY <1>1 DEF TypeInv, HandPhase
  <1>5. CurrentKnown'
    BY <1>1 DEF TypeInv, CurrentKnown
  <1>6. QED
    BY <1>2, <1>3, <1>4, <1>5 DEF TypeInv

(* The move keeps TypeInv by itself when nothing else it is about changes  *)
(* and the new phase asks for no more than the old one.                    *)
LEMMA MovedOn ==
  ASSUME TypeInv, TypeOK', NEW m \in Messages, NEW p \in Phases \ {"new"},
         pc' = [pc EXCEPT ![m] = p], UNCHANGED <<sess, bound, hand, current>>,
         pc[m] # "new",
         p \in Bound => pc[m] \in Bound,
         p \in Loaded => pc[m] \in Loaded,
         pc[m] \in Draining /\ hand[m] # None => p \in Draining
  PROVE  TypeInv'
  <1>1. sess'[m] \in Sessions
    BY DEF TypeInv, SessKnown
  <1>2. p \in Bound => bound'[m] \in Messages
    BY DEF TypeInv, BoundKnown
  <1>3. hand'[m] # None => p \in Draining
    BY DEF TypeInv, HandPhase
  <1>4. p \in Loaded => current' \in Sessions
    BY DEF TypeInv, CurrentKnown
  <1>5. QED
    BY <1>1, <1>2, <1>3, <1>4, Moved

(* A step that changes the phase of one query and nothing else. *)
LEMMA OnlyMoved ==
  ASSUME TypeInv, NEW m \in Messages, NEW p \in Phases \ {"new"},
         pc' = [pc EXCEPT ![m] = p],
         UNCHANGED <<sess, bound, hand, taken, iter, token, running, queueOf,
                      content, registry, current, flag, presses, history,
                      arrivals, cleared, aborted>>,
         pc[m] # "new",
         p \in Bound => pc[m] \in Bound,
         p \in Loaded => pc[m] \in Loaded,
         pc[m] \in Draining /\ hand[m] # None => p \in Draining
  PROVE  TypeInv'
  <1>1. pc' \in [Messages -> Phases]
    BY DEF TypeInv, TypeOK
  <1>2. TypeOK'
    BY <1>1 DEF TypeInv, TypeOK
  <1>3. QED
    BY <1>2, MovedOn

LEMMA TypeInvStep == TypeInv /\ [Next]_vars => TypeInv'
  <1> SUFFICES ASSUME TypeInv, [Next]_vars PROVE TypeInv'
    OBVIOUS
  <1>1. ASSUME NEW m \in Messages, NEW s \in Sessions, Inject(m, s)
        PROVE  TypeInv'
    <2> DEFINE q == QueueFor(s, m)
    <2>1. q \in Messages
      BY NoneAssumption DEF QueueFor, TypeInv, TypeOK
    <2>2. \A f \in [Messages -> Seq(Messages)] :
            [f EXCEPT ![q] = Append(@, m)] \in [Messages -> Seq(Messages)]
      BY <2>1
    <2>3. content' \in [Messages -> Seq(Messages)]
          /\ arrivals' \in [Messages -> Seq(Messages)]
      <3>1. content \in [Messages -> Seq(Messages)]
            /\ arrivals \in [Messages -> Seq(Messages)]
        BY DEF TypeInv, TypeOK
      <3>2. CASE /\ content' = [content EXCEPT ![q] = Append(@, m)]
                 /\ arrivals' = [arrivals EXCEPT ![q] = Append(@, m)]
        BY <2>2, <3>1, <3>2
      <3>3. CASE UNCHANGED <<content, arrivals>>
        BY <3>1, <3>3
      <3>4. QED
        BY <1>1, <3>2, <3>3 DEF Inject, Goto, ghostVars
    <2>4. TypeOK'
      <3>1. pc' \in [Messages -> Phases]
        BY <1>1 DEF TypeInv, TypeOK, Inject, Goto, Phases, Settled
      <3>2. sess' \in [Messages -> Sessions \cup {None}]
        BY <1>1 DEF TypeInv, TypeOK, Inject, Arrives
      <3>3. queueOf' \in [Sessions -> Messages \cup {None}]
        BY <1>1, <2>1 DEF TypeInv, TypeOK, Inject
      <3>4. UNCHANGED <<bound, hand, taken, iter, token, running, registry,
                        current, flag, presses, history, cleared, aborted>>
        BY <1>1 DEF Inject, loopVars
      <3>5. QED
        BY <2>3, <3>1, <3>2, <3>3, <3>4 DEF TypeInv, TypeOK
    <2>5. PICK p \in {"injected", "refused"} : pc' = [pc EXCEPT ![m] = p]
      BY <1>1 DEF Inject, Goto
    <2>6. p \in Phases /\ p \notin Bound /\ p \notin Loaded
      BY
         DEF Phases, Settled, Draining, Loaded, Bound, Live, Wiring, Looping, Leaving
    <2>7. pc[m] = "new" /\ sess' = [sess EXCEPT ![m] = s]
      BY <1>1 DEF Inject, Arrives
    <2>8. UNCHANGED <<bound, hand, current>>
      BY <1>1 DEF Inject, loopVars
    <2>9. sess'[m] = s /\ \A n \in Messages \ {m} : sess'[n] = sess[n]
      BY <2>7 DEF TypeInv, TypeOK
    <2>10. hand'[m] = None
      BY <2>7, <2>8 DEF TypeInv, HandPhase, Draining
    <2>11. QED
      BY <2>4, <2>5, <2>6, <2>8, <2>9, <2>10, Moved
  <1>2. ASSUME NEW m \in Messages, NEW s \in Sessions, StartQuery(m, s)
        PROVE  TypeInv'
    <2>1. pc' = [pc EXCEPT ![m] = "loading"] /\ pc[m] = "new"
      BY <1>2 DEF StartQuery, Arrives, Goto
    <2>2. sess' = [sess EXCEPT ![m] = s]
      BY <1>2 DEF StartQuery, Arrives
    <2>3. UNCHANGED <<bound, hand, taken, iter, token, running, queueOf,
                       content, registry, current, flag, presses, history,
                       arrivals, cleared, aborted>>
      BY <1>2 DEF StartQuery, dispatchVars, loopVars, stateVars, ghostVars
    <2>4. "loading" \in Phases
      BY DEF Phases, Dispatching
    <2>5. pc' \in [Messages -> Phases]
      BY <2>1, <2>4 DEF TypeInv, TypeOK
    <2>6. sess' \in [Messages -> Sessions \cup {None}]
      BY <2>2 DEF TypeInv, TypeOK
    <2>7. TypeOK'
      BY <2>3, <2>5, <2>6 DEF TypeInv, TypeOK
    <2>8. sess'[m] = s /\ \A n \in Messages \ {m} : sess'[n] = sess[n]
      BY <2>2 DEF TypeInv, TypeOK
    <2>9. hand'[m] = None
      BY <2>1, <2>3 DEF TypeInv, HandPhase, Draining
    <2>10. "loading" \notin Bound /\ "loading" \notin Loaded
      BY DEF Draining, Loaded, Bound, Live, Wiring, Looping, Leaving
    <2>11. QED
      BY <2>1, <2>3, <2>4, <2>7, <2>8, <2>9, <2>10, Moved
  <1>3. ASSUME NEW m \in Messages, LoadSession(m)
        PROVE  TypeInv'
    <2>1. sess[m] \in Sessions
      BY <1>3 DEF LoadSession, TypeInv, SessKnown
    <2>2. history' \in Seq(Entry)
      <3>1. history \in Seq(Entry)
        BY DEF TypeInv, TypeOK
      <3>2. history' = Append(history, [msg |-> m, to |-> sess[m]])
        BY <1>3 DEF LoadSession, Added
      <3>3. QED
        BY <2>1, <3>1, <3>2, AddedType
    <2>3. pc' = [pc EXCEPT ![m] = "saving"] /\ pc[m] = "loading" /\ current' = sess[m]
      BY <1>3 DEF LoadSession, Goto
    <2>4. UNCHANGED <<sess, bound, hand, taken, iter, token, running, queueOf,
                       content, registry, flag, presses, arrivals, cleared, aborted>>
      BY <1>3 DEF LoadSession, dispatchVars, loopVars, stateVars, ghostVars
    <2>5. "saving" \in Phases
      BY DEF Phases, Dispatching, Live, Wiring, Looping, Leaving, Settled
    <2>6. pc' \in [Messages -> Phases]
      BY <2>3, <2>5 DEF TypeInv, TypeOK
    <2>7. TypeOK'
      BY <2>1, <2>2, <2>3, <2>4, <2>6 DEF TypeInv, TypeOK
    <2>8. hand'[m] = None
      BY <2>3, <2>4 DEF TypeInv, HandPhase, Draining
    <2>9. "saving" \notin Bound
      BY DEF Bound, Looping
    <2>10. QED
      BY <2>1, <2>3, <2>4, <2>5, <2>7, <2>8, <2>9, Moved
  <1>4. ASSUME NEW m \in Messages, RejectQuery(m)
        PROVE  TypeInv'
    <2>1. pc' = [pc EXCEPT ![m] = "rejected"] /\ pc[m] \in {"loading", "saving"}
      BY <1>4 DEF RejectQuery, Goto
    <2>2. UNCHANGED <<sess, bound, hand, taken, iter, token, running, queueOf,
                       content, registry, current, flag, presses, history,
                       arrivals, cleared, aborted>>
      BY <1>4 DEF RejectQuery, dispatchVars, loopVars, stateVars, ghostVars
    <2>3. "rejected" \in Phases \ {"new"}
      BY DEF Phases, Dispatching, Live, Wiring, Looping, Leaving, Settled
    <2>4. pc[m] \notin Draining
      BY <1>4 DEF RejectQuery, Draining
    <2>5. QED
      BY <2>1, <2>2, <2>3, <2>4, OnlyMoved
         DEF Draining, Loaded, Bound, Live, Wiring, Looping, Leaving
  <1>5. ASSUME NEW m \in Messages, CreateTask(m)
        PROVE  TypeInv'
    <2>1. pc' = [pc EXCEPT ![m] = "scheduled"] /\ pc[m] \in {"saving"}
      BY <1>5 DEF CreateTask, Goto
    <2>2. UNCHANGED <<sess, bound, hand, taken, iter, token, running, queueOf,
                       content, registry, current, flag, presses, history,
                       arrivals, cleared, aborted>>
      BY <1>5 DEF CreateTask, dispatchVars, loopVars, stateVars, ghostVars
    <2>3. "scheduled" \in Phases \ {"new"}
      BY DEF Phases, Dispatching, Live, Wiring, Looping, Leaving, Settled
    <2>4. pc[m] \notin Draining
      BY <1>5 DEF CreateTask, Draining
    <2>5. QED
      BY <2>1, <2>2, <2>3, <2>4, OnlyMoved
         DEF Draining, Loaded, Bound, Live, Wiring, Looping, Leaving
  <1>6. ASSUME NEW m \in Messages, SetRunning(m)
        PROVE  TypeInv'
    <2>1. pc' = [pc EXCEPT ![m] = "starting"] /\ pc[m] \in {"scheduled"}
      BY <1>6 DEF SetRunning, Goto
    <2>2. UNCHANGED <<sess, bound, hand, taken, iter, token, queueOf, content,
                       registry, current, flag, presses, history, arrivals,
                       cleared, aborted>>
      BY <1>6 DEF SetRunning, dispatchVars, loopVars, stateVars, ghostVars
    <2>3. "starting" \in Phases \ {"new"}
      BY DEF Phases, Dispatching, Live, Wiring, Looping, Leaving, Settled
    <2>4. pc' \in [Messages -> Phases]
      BY <2>1, <2>3 DEF TypeInv, TypeOK
    <2>5. running' \in SUBSET Sessions
      BY <1>6 DEF SetRunning, TypeInv, TypeOK, SessKnown
    <2>6. TypeOK'
      BY <2>2, <2>4, <2>5 DEF TypeInv, TypeOK
    <2>7. pc[m] \notin Draining
      BY <1>6 DEF SetRunning, Draining
    <2>8. QED
      BY <2>1, <2>2, <2>3, <2>6, <2>7, MovedOn
         DEF Draining, Loaded, Bound, Live, Wiring, Looping, Leaving
  <1>7. ASSUME NEW m \in Messages, Submit(m)
        PROVE  TypeInv'
    <2>1. pc' = [pc EXCEPT ![m] = "pooled"] /\ pc[m] \in {"starting"}
      BY <1>7 DEF Submit, Goto
    <2>2. UNCHANGED <<sess, bound, hand, taken, iter, token, running, queueOf,
                       content, registry, current, flag, presses, history,
                       arrivals, cleared, aborted>>
      BY <1>7 DEF Submit, dispatchVars, loopVars, stateVars, ghostVars
    <2>3. "pooled" \in Phases \ {"new"}
      BY DEF Phases, Dispatching, Live, Wiring, Looping, Leaving, Settled
    <2>4. pc[m] \notin Draining
      BY <1>7 DEF Submit, Draining
    <2>5. QED
      BY <2>1, <2>2, <2>3, <2>4, OnlyMoved
         DEF Draining, Loaded, Bound, Live, Wiring, Looping, Leaving
  <1>8. ASSUME NEW m \in Messages, Finalize(m)
        PROVE  TypeInv'
    <2>1. pc' = [pc EXCEPT ![m] = "done"] /\ pc[m] \in {"returned"}
      BY <1>8 DEF Finalize, Goto
    <2>2. UNCHANGED <<sess, bound, hand, taken, iter, token, content, current,
                       flag, presses, history, arrivals, cleared, aborted>>
      BY <1>8 DEF Finalize, dispatchVars, loopVars, stateVars, ghostVars
    <2>3. "done" \in Phases \ {"new"}
      BY DEF Phases, Dispatching, Live, Wiring, Looping, Leaving, Settled
    <2>4. pc' \in [Messages -> Phases]
      BY <2>1, <2>3 DEF TypeInv, TypeOK
    <2>5. running' \in SUBSET Sessions
      BY <1>8 DEF Finalize, TypeInv, TypeOK
    <2>6. registry' \in [Sessions -> Messages \cup {None}]
      BY <1>8 DEF Finalize, TypeInv, TypeOK
    <2>7. queueOf' \in [Sessions -> Messages \cup {None}]
      BY <1>8 DEF Finalize, TypeInv, TypeOK
    <2>8. TypeOK'
      BY <2>2, <2>4, <2>5, <2>6, <2>7 DEF TypeInv, TypeOK
    <2>9. pc[m] \notin Draining
      BY <1>8 DEF Finalize, Draining
    <2>10. QED
      BY <2>1, <2>2, <2>3, <2>8, <2>9, MovedOn
         DEF Draining, Loaded, Bound, Live, Wiring, Looping, Leaving
  <1>9. ASSUME NEW m \in Messages, PickUp(m)
        PROVE  TypeInv'
    <2>1. pc' = [pc EXCEPT ![m] = "building"] /\ pc[m] \in {"pooled"}
      BY <1>9 DEF PickUp, Goto
    <2>2. UNCHANGED <<sess, bound, hand, taken, iter, token, running, queueOf,
                       content, registry, current, presses, history, arrivals,
                       cleared, aborted>>
      BY <1>9 DEF PickUp, dispatchVars, loopVars, stateVars, ghostVars
    <2>3. "building" \in Phases \ {"new"}
      BY DEF Phases, Dispatching, Live, Wiring, Looping, Leaving, Settled
    <2>4. pc' \in [Messages -> Phases]
      BY <2>1, <2>3 DEF TypeInv, TypeOK
    <2>5. flag' \in BOOLEAN
      BY <1>9 DEF PickUp, TypeInv, TypeOK
    <2>6. TypeOK'
      BY <2>2, <2>4, <2>5 DEF TypeInv, TypeOK
    <2>7. pc[m] \notin Draining
      BY <1>9 DEF PickUp, Draining
    <2>8. QED
      BY <2>1, <2>2, <2>3, <2>6, <2>7, MovedOn
         DEF Draining, Loaded, Bound, Live, Wiring, Looping, Leaving
  <1>10. ASSUME NEW m \in Messages, SetCurrent(m)
        PROVE  TypeInv'
    <2>1. sess[m] \in Sessions
      BY <1>10 DEF SetCurrent, TypeInv, SessKnown
    <2>2. history' \in Seq(Entry)
      BY <1>10 DEF SetCurrent, TypeInv, TypeOK
    <2>3. pc' = [pc EXCEPT ![m] = "binding"] /\ pc[m] = "building" /\ current' = sess[m]
      BY <1>10 DEF SetCurrent, Goto
    <2>4. UNCHANGED <<sess, bound, hand, taken, iter, token, running, queueOf,
                       content, registry, flag, presses, arrivals, cleared, aborted>>
      BY <1>10 DEF SetCurrent, dispatchVars, loopVars, stateVars, ghostVars
    <2>5. "binding" \in Phases
      BY DEF Phases, Dispatching, Live, Wiring, Looping, Leaving, Settled
    <2>6. pc' \in [Messages -> Phases]
      BY <2>3, <2>5 DEF TypeInv, TypeOK
    <2>7. TypeOK'
      BY <2>1, <2>2, <2>3, <2>4, <2>6 DEF TypeInv, TypeOK
    <2>8. hand'[m] = None
      BY <2>3, <2>4 DEF TypeInv, HandPhase, Draining
    <2>9. "binding" \notin Bound
      BY DEF Bound, Looping
    <2>10. QED
      BY <2>1, <2>3, <2>4, <2>5, <2>7, <2>8, <2>9, Moved
  <1>11. ASSUME NEW m \in Messages, BuildFails(m)
        PROVE  TypeInv'
    <2>1. /\ pc' = [pc EXCEPT ![m] = "returned"]
          /\ pc[m] \in {"building", "binding", "registering", "ready", "entering"}
          /\ aborted' = aborted \cup {m}
      BY <1>11 DEF BuildFails, Goto
    <2>2. UNCHANGED <<sess, bound, hand, taken, iter, token, running, queueOf,
                       content, registry, current, flag, presses, history,
                       arrivals, cleared>>
      BY <1>11 DEF BuildFails, loopVars, stateVars
    <2>3. "returned" \in Phases \ {"new"}
      BY DEF Phases, Dispatching, Live, Wiring, Looping, Leaving, Settled
    <2>4. pc' \in [Messages -> Phases] /\ aborted' \subseteq Messages
      BY <2>1, <2>3 DEF TypeInv, TypeOK
    <2>5. TypeOK'
      BY <2>2, <2>4 DEF TypeInv, TypeOK
    <2>6. pc[m] \notin Draining
      BY <2>1 DEF Draining
    <2>7. QED
      BY <2>1, <2>2, <2>3, <2>5, <2>6, MovedOn
         DEF Draining, Loaded, Bound, Live, Wiring, Looping, Leaving
  <1>12. ASSUME NEW m \in Messages, BindQueue(m)
        PROVE  TypeInv'
    <2> DEFINE q == QueueFor(sess[m], m)
    <2>1. pc' = [pc EXCEPT ![m] = "registering"] /\ pc[m] = "binding"
          /\ bound' = [bound EXCEPT ![m] = q]
          /\ queueOf' = [queueOf EXCEPT ![sess[m]] = q]
      BY <1>12 DEF BindQueue, Goto
    <2>2. UNCHANGED <<sess, hand, taken, iter, token, running, content,
                       registry, current, flag, presses, history, arrivals,
                       cleared, aborted>>
      BY <1>12 DEF BindQueue, dispatchVars, loopVars, stateVars, ghostVars
    <2>3. sess[m] \in Sessions
      BY <2>1 DEF TypeInv, SessKnown
    <2>4. q \in Messages
      BY <2>3 DEF QueueFor, TypeInv, TypeOK
    <2> HIDE DEF q
    <2>5. "registering" \in Phases
      BY DEF Phases, Dispatching, Live, Wiring, Looping, Leaving, Settled
    <2>6. pc' \in [Messages -> Phases]
      BY <2>1, <2>5 DEF TypeInv, TypeOK
    <2>7. bound' \in [Messages -> Messages \cup {None}]
      BY <2>1, <2>4 DEF TypeInv, TypeOK
    <2>8. queueOf' \in [Sessions -> Messages \cup {None}]
      BY <2>1, <2>4 DEF TypeInv, TypeOK
    <2>9. TypeOK'
      BY <2>2, <2>6, <2>7, <2>8 DEF TypeInv, TypeOK
    <2>10. bound'[m] = q /\ \A n \in Messages \ {m} : bound'[n] = bound[n]
      BY <2>1 DEF TypeInv, TypeOK
    <2>11. hand'[m] = None
      BY <2>1, <2>2 DEF TypeInv, HandPhase, Draining
    <2>12. current' \in Sessions
      BY <2>1, <2>2 DEF TypeInv, CurrentKnown, Loaded, Live, Wiring
    <2>13. QED
      BY <2>1, <2>2, <2>3, <2>4, <2>5, <2>9, <2>10, <2>11, <2>12, Moved
  <1>13. ASSUME NEW m \in Messages, Register(m)
        PROVE  TypeInv'
    <2>1. pc' = [pc EXCEPT ![m] = "ready"] /\ pc[m] \in {"registering"}
      BY <1>13 DEF Register, Goto
    <2>2. UNCHANGED <<sess, bound, hand, taken, iter, token, running, queueOf,
                       content, current, flag, presses, history, arrivals,
                       cleared, aborted>>
      BY <1>13 DEF Register, dispatchVars, loopVars, stateVars, ghostVars
    <2>3. "ready" \in Phases \ {"new"}
      BY DEF Phases, Dispatching, Live, Wiring, Looping, Leaving, Settled
    <2>4. pc' \in [Messages -> Phases]
      BY <2>1, <2>3 DEF TypeInv, TypeOK
    <2>5. registry' \in [Sessions -> Messages \cup {None}]
      BY <1>13 DEF Register, TypeInv, TypeOK
    <2>6. TypeOK'
      BY <2>2, <2>4, <2>5 DEF TypeInv, TypeOK
    <2>7. pc[m] \notin Draining
      BY <1>13 DEF Register, Draining
    <2>8. QED
      BY <2>1, <2>2, <2>3, <2>6, <2>7, MovedOn
         DEF Draining, Loaded, Bound, Live, Wiring, Looping, Leaving
  <1>14. ASSUME NEW m \in Messages, BeginLoop(m)
        PROVE  TypeInv'
    <2>1. \A t, u \in Seq(Messages) : t \o u \in Seq(Messages)
      OBVIOUS
    <2>2. content' \in [Messages -> Seq(Messages)]
          /\ cleared' \in [Messages -> Seq(Messages)]
      <3>1. bound[m] \in Messages
        BY <1>14 DEF BeginLoop, TypeInv, BoundKnown, Bound
      <3>2. <<>> \in Seq(Messages)
        OBVIOUS
      <3>3. QED
        BY <1>14, <2>1, <3>1, <3>2 DEF BeginLoop, TypeInv, TypeOK
    <2>3. pc' = [pc EXCEPT ![m] = "entering"] /\ pc[m] = "ready"
      BY <1>14 DEF BeginLoop, Goto
    <2>4. UNCHANGED <<sess, bound, hand, taken, iter, running, queueOf,
                       registry, current, flag, presses, history, arrivals,
                       aborted>>
      BY <1>14 DEF BeginLoop, dispatchVars, loopVars, stateVars, ghostVars
    <2>5. "entering" \in Phases \ {"new"}
      BY DEF Phases, Dispatching, Live, Wiring, Looping, Leaving, Settled
    <2>6. pc' \in [Messages -> Phases]
      BY <2>3, <2>5 DEF TypeInv, TypeOK
    <2>7. token' \in [Messages -> {"none", "armed", "requested"}]
      BY <1>14 DEF BeginLoop, TypeInv, TypeOK
    <2>8. TypeOK'
      BY <2>2, <2>4, <2>6, <2>7 DEF TypeInv, TypeOK
    <2>9. QED
      BY <2>3, <2>4, <2>5, <2>8, MovedOn
         DEF Draining, Loaded, Bound, Live, Wiring, Looping, Leaving
  <1>14a. ASSUME NEW m \in Messages, EnterLoop(m)
        PROVE  TypeInv'
    <2>1. pc' = [pc EXCEPT ![m] = "drainTop"] /\ pc[m] \in {"entering"}
      BY <1>14a DEF EnterLoop, Goto
    <2>2. UNCHANGED <<sess, bound, hand, taken, iter, token, running, queueOf,
                       content, registry, current, flag, presses, history,
                       arrivals, cleared, aborted>>
      BY <1>14a DEF EnterLoop, loopVars, stateVars, ghostVars
    <2>3. "drainTop" \in Phases \ {"new"}
      BY DEF Phases, Dispatching, Live, Wiring, Looping, Leaving, Settled
    <2>4. pc[m] \notin Draining
      BY <2>1 DEF Draining
    <2>5. QED
      BY <2>1, <2>2, <2>3, <2>4, OnlyMoved
         DEF Draining, Loaded, Bound, Live, Wiring, Looping, Leaving
  <1>15. ASSUME NEW m \in Messages, Take(m)
        PROVE  TypeInv'
    <2>1. pc[m] \in Draining
      BY <1>15 DEF Take, Draining
    <2>2. bound[m] \in Messages
      BY <2>1 DEF TypeInv, BoundKnown, Bound, Looping, Draining
    <2>3. \A t \in Seq(Messages) : t # <<>> =>
            Head(t) \in Messages /\ Tail(t) \in Seq(Messages)
      OBVIOUS
    <2>4. content' \in [Messages -> Seq(Messages)]
          /\ hand' \in [Messages -> Messages \cup {None}]
      BY <1>15, <2>2, <2>3 DEF Take, TypeInv, TypeOK
    <2>5. UNCHANGED <<pc, sess, bound, taken, iter, token, running, queueOf,
                       registry, current, flag, presses, history, arrivals,
                       cleared, aborted>>
      BY <1>15 DEF Take, dispatchVars, loopVars, stateVars, ghostVars
    <2>6. TypeOK'
      BY <2>4, <2>5 DEF TypeInv, TypeOK
    <2>7. \A n \in Messages \ {m} : hand'[n] = hand[n]
      BY <1>15 DEF Take, TypeInv, TypeOK
    <2>8. SessKnown' /\ BoundKnown' /\ CurrentKnown'
      BY <2>5 DEF TypeInv, SessKnown, BoundKnown, CurrentKnown
    <2>9. HandPhase'
      BY <2>1, <2>5, <2>7 DEF TypeInv, HandPhase
    <2>10. QED
      BY <2>6, <2>8, <2>9 DEF TypeInv
  <1>16. ASSUME NEW m \in Messages, AddTaken(m)
        PROVE  TypeInv'
    <2>1. pc[m] \in Draining
      BY <1>16 DEF AddTaken, TypeInv, HandPhase
    <2>2. hand[m] \in Messages
      BY <1>16 DEF AddTaken, TypeInv, TypeOK
    <2>3. current \in Sessions
      BY <2>1
         DEF TypeInv, CurrentKnown, Draining, Loaded, Live, Looping, Leaving
    <2>4. history' \in Seq(Entry)
      <3>1. history \in Seq(Entry)
        BY DEF TypeInv, TypeOK
      <3>2. history' = Append(history, [msg |-> hand[m], to |-> current])
        BY <1>16 DEF AddTaken, Added
      <3>3. QED
        BY <2>2, <2>3, <3>1, <3>2, AddedType
    <2>5. taken' \in [Messages -> Nat]
      BY <1>16 DEF AddTaken, TypeInv, TypeOK
    <2>6. hand' = [hand EXCEPT ![m] = None]
      BY <1>16 DEF AddTaken
    <2>7. hand' \in [Messages -> Messages \cup {None}]
      BY <2>6 DEF TypeInv, TypeOK
    <2>8. UNCHANGED <<pc, sess, bound, iter, token, running, queueOf, content,
                       registry, current, flag, presses, arrivals, cleared, aborted>>
      BY <1>16 DEF AddTaken, dispatchVars, loopVars, stateVars, ghostVars
    <2>9. TypeOK'
      BY <2>4, <2>5, <2>7, <2>8 DEF TypeInv, TypeOK
    <2>10. SessKnown' /\ BoundKnown' /\ CurrentKnown'
      BY <2>8 DEF TypeInv, SessKnown, BoundKnown, CurrentKnown
    <2>11. \A n \in Messages : hand'[n] # None => hand[n] # None
      BY <2>6 DEF TypeInv, TypeOK
    <2>12. HandPhase'
      BY <2>8, <2>11 DEF TypeInv, HandPhase
    <2>13. QED
      BY <2>9, <2>10, <2>12 DEF TypeInv
  <1>16a. ASSUME NEW m \in Messages, AddFails(m)
        PROVE  TypeInv'
    <2>1. pc[m] \in Draining
      BY <1>16a DEF AddFails, TypeInv, HandPhase
    <2>2. hand[m] \in Messages
      BY <1>16a DEF AddFails, TypeInv, TypeOK
    <2>3. current \in Sessions
      BY <2>1
         DEF TypeInv, CurrentKnown, Draining, Loaded, Live, Looping, Leaving
    <2>4. history' \in Seq(Entry)
      <3>1. history \in Seq(Entry)
        BY DEF TypeInv, TypeOK
      <3>2. PICK s \in Sessions \cup {None} :
              history' = Append(history, [msg |-> hand[m], to |-> s])
        BY <1>16a, <2>3 DEF AddFails, Added
      <3>3. QED
        BY <2>2, <3>1, <3>2, AddedType
    <2>5. hand' = [hand EXCEPT ![m] = None]
      BY <1>16a DEF AddFails
    <2>6. PICK p \in {"returned", "leaving"} :
            /\ pc' = [pc EXCEPT ![m] = p]
            /\ p = "leaving" \/ pc[m] = "finalDrain"
      BY <1>16a DEF AddFails, Goto
    <2>7. p \in Phases \ {"new"}
      BY DEF Phases, Dispatching, Live, Wiring, Looping, Leaving, Settled
    <2>8. pc' \in [Messages -> Phases] /\ hand' \in [Messages -> Messages \cup {None}]
      BY <2>5, <2>6, <2>7 DEF TypeInv, TypeOK
    <2>9. aborted' \subseteq Messages
      BY <1>16a DEF AddFails, TypeInv, TypeOK
    <2>10. UNCHANGED <<sess, bound, taken, iter, token, running, queueOf, content,
                       registry, current, flag, presses, arrivals, cleared>>
      BY <1>16a DEF AddFails, stateVars
    <2>11. TypeOK'
      BY <2>4, <2>8, <2>9, <2>10 DEF TypeInv, TypeOK
    <2>12. hand'[m] = None /\ \A n \in Messages \ {m} : hand'[n] = hand[n]
      BY <2>5 DEF TypeInv, TypeOK
    <2>13. sess'[m] \in Sessions /\ bound'[m] \in Messages
      BY <2>1, <2>10 DEF TypeInv, SessKnown, BoundKnown, Draining, Bound, Looping
    <2>14. QED
      BY <2>3, <2>6, <2>7, <2>10, <2>11, <2>12, <2>13, Moved
  <1>17. ASSUME NEW m \in Messages, NextIteration(m)
        PROVE  TypeInv'
    <2>1. PICK p \in {"leaving", "drainMid"} : pc' = [pc EXCEPT ![m] = p]
      BY <1>17 DEF NextIteration, Goto
    <2>2. pc[m] = "drainTop" /\ hand[m] = None
      BY <1>17 DEF NextIteration, Drained
    <2>3. UNCHANGED <<sess, bound, hand, token, running, queueOf, content,
                       registry, current, flag, presses, history, arrivals,
                       cleared, aborted>>
      BY <1>17 DEF NextIteration, dispatchVars, loopVars, stateVars, ghostVars
    <2>4. p \in Phases \ {"new"}
      BY DEF Phases, Dispatching, Live, Wiring, Looping, Leaving, Settled
    <2>5. pc' \in [Messages -> Phases]
      BY <2>1, <2>4 DEF TypeInv, TypeOK
    <2>6. taken' \in [Messages -> Nat] /\ iter' \in [Messages -> Nat]
      BY <1>17 DEF NextIteration, TypeInv, TypeOK
    <2>7. TypeOK'
      BY <2>3, <2>5, <2>6 DEF TypeInv, TypeOK
    <2>8. QED
      BY <2>1, <2>2, <2>3, <2>4, <2>7, MovedOn
         DEF Draining, Loaded, Bound, Live, Wiring, Looping, Leaving
  <1>18. ASSUME NEW m \in Messages, CallModel(m)
        PROVE  TypeInv'
    <2>1. pc' = [pc EXCEPT ![m] = "acting"] /\ pc[m] \in {"drainMid"}
      BY <1>18 DEF CallModel, Goto, Drained
    <2>2. UNCHANGED <<sess, bound, hand, iter, token, running, queueOf,
                       content, registry, current, flag, presses, history,
                       arrivals, cleared, aborted>>
      BY <1>18 DEF CallModel, dispatchVars, loopVars, stateVars, ghostVars
    <2>3. "acting" \in Phases \ {"new"}
      BY DEF Phases, Dispatching, Live, Wiring, Looping, Leaving, Settled
    <2>4. pc' \in [Messages -> Phases]
      BY <2>1, <2>3 DEF TypeInv, TypeOK
    <2>5. taken' \in [Messages -> Nat]
      BY <1>18 DEF CallModel, TypeInv, TypeOK
    <2>6. TypeOK'
      BY <2>2, <2>4, <2>5 DEF TypeInv, TypeOK
    <2>7. hand[m] = None \/ pc[m] \notin Draining
      BY <1>18 DEF CallModel, Drained, Draining
    <2>8. QED
      BY <2>1, <2>2, <2>3, <2>6, <2>7, MovedOn
         DEF Draining, Loaded, Bound, Live, Wiring, Looping, Leaving
  <1>19. ASSUME NEW m \in Messages, Continue(m)
        PROVE  TypeInv'
    <2>1. pc' = [pc EXCEPT ![m] = "drainTop"] /\ pc[m] \in {"acting", "drainMid"}
      BY <1>19 DEF Continue, Goto, Idling
    <2>2. UNCHANGED <<sess, bound, hand, iter, token, running, queueOf,
                       content, registry, current, flag, presses, history,
                       arrivals, cleared, aborted>>
      BY <1>19 DEF Continue, dispatchVars, loopVars, stateVars, ghostVars
    <2>3. "drainTop" \in Phases \ {"new"}
      BY DEF Phases, Dispatching, Live, Wiring, Looping, Leaving, Settled
    <2>4. pc' \in [Messages -> Phases]
      BY <2>1, <2>3 DEF TypeInv, TypeOK
    <2>5. taken' \in [Messages -> Nat]
      BY <1>19 DEF Continue, TypeInv, TypeOK
    <2>6. TypeOK'
      BY <2>2, <2>4, <2>5 DEF TypeInv, TypeOK
    <2>7. hand[m] = None \/ pc[m] \notin Draining
      BY <1>19 DEF Continue, Idling, Draining
    <2>8. QED
      BY <2>1, <2>2, <2>3, <2>6, <2>7, MovedOn
         DEF Draining, Loaded, Bound, Live, Wiring, Looping, Leaving
  <1>20. ASSUME NEW m \in Messages, Break(m)
        PROVE  TypeInv'
    <2>1. pc' = [pc EXCEPT ![m] = "leaving"] /\ pc[m] \in {"acting", "drainMid"}
      BY <1>20 DEF Break, Goto, Idling
    <2>2. UNCHANGED <<sess, bound, hand, taken, iter, token, running, queueOf,
                       content, registry, current, flag, presses, history,
                       arrivals, cleared, aborted>>
      BY <1>20 DEF Break, dispatchVars, loopVars, stateVars, ghostVars
    <2>3. "leaving" \in Phases \ {"new"}
      BY DEF Phases, Dispatching, Live, Wiring, Looping, Leaving, Settled
    <2>4. hand[m] = None \/ pc[m] \notin Draining
      BY <1>20 DEF Break, Idling, Draining
    <2>5. QED
      BY <2>1, <2>2, <2>3, <2>4, OnlyMoved
         DEF Draining, Loaded, Bound, Live, Wiring, Looping, Leaving
  <1>21. ASSUME NEW m \in Messages, Raise(m)
        PROVE  TypeInv'
    <2>1. pc' = [pc EXCEPT ![m] = "leaving"] /\ pc[m] \in {"acting", "drainMid"}
      BY <1>21 DEF Raise, Goto, Idling
    <2>2. UNCHANGED <<sess, bound, hand, taken, iter, token, running, queueOf,
                       content, registry, current, flag, presses, history,
                       arrivals, cleared, aborted>>
      BY <1>21 DEF Raise, dispatchVars, loopVars, stateVars, ghostVars
    <2>3. "leaving" \in Phases \ {"new"}
      BY DEF Phases, Dispatching, Live, Wiring, Looping, Leaving, Settled
    <2>4. hand[m] = None \/ pc[m] \notin Draining
      BY <1>21 DEF Raise, Idling, Draining
    <2>5. QED
      BY <2>1, <2>2, <2>3, <2>4, OnlyMoved
         DEF Draining, Loaded, Bound, Live, Wiring, Looping, Leaving
  <1>22. ASSUME NEW m \in Messages, DropToken(m)
        PROVE  TypeInv'
    <2>1. pc' = [pc EXCEPT ![m] = "finalDrain"] /\ pc[m] \in {"leaving"}
      BY <1>22 DEF DropToken, Goto
    <2>2. UNCHANGED <<sess, bound, hand, taken, iter, running, queueOf,
                       content, registry, current, flag, presses, history,
                       arrivals, cleared, aborted>>
      BY <1>22 DEF DropToken, dispatchVars, loopVars, stateVars, ghostVars
    <2>3. "finalDrain" \in Phases \ {"new"}
      BY DEF Phases, Dispatching, Live, Wiring, Looping, Leaving, Settled
    <2>4. pc' \in [Messages -> Phases]
      BY <2>1, <2>3 DEF TypeInv, TypeOK
    <2>5. token' \in [Messages -> {"none", "armed", "requested"}]
      BY <1>22 DEF DropToken, TypeInv, TypeOK
    <2>6. TypeOK'
      BY <2>2, <2>4, <2>5 DEF TypeInv, TypeOK
    <2>7. pc[m] \notin Draining
      BY <1>22 DEF DropToken, Draining
    <2>8. QED
      BY <2>1, <2>2, <2>3, <2>6, <2>7, MovedOn
         DEF Draining, Loaded, Bound, Live, Wiring, Looping, Leaving
  <1>23. ASSUME NEW m \in Messages, Return(m)
        PROVE  TypeInv'
    <2>1. pc' = [pc EXCEPT ![m] = "returned"] /\ pc[m] \in {"finalDrain"}
      BY <1>23 DEF Return, Goto
    <2>2. UNCHANGED <<sess, bound, hand, taken, iter, token, running, queueOf,
                       content, registry, current, flag, presses, history,
                       arrivals, cleared, aborted>>
      BY <1>23 DEF Return, dispatchVars, loopVars, stateVars, ghostVars
    <2>3. "returned" \in Phases \ {"new"}
      BY DEF Phases, Dispatching, Live, Wiring, Looping, Leaving, Settled
    <2>4. hand[m] = None \/ pc[m] \notin Draining
      BY <1>23 DEF Return, Draining
    <2>5. QED
      BY <2>1, <2>2, <2>3, <2>4, OnlyMoved
         DEF Draining, Loaded, Bound, Live, Wiring, Looping, Leaving
  <1>24. CASE InterruptTask
    <2>1. UNCHANGED <<pc, sess, bound, hand, taken, iter, running, queueOf,
                       content, registry, current, history, arrivals,
                       cleared, aborted>>
      BY <1>24 DEF InterruptTask, dispatchVars, loopVars, stateVars, ghostVars
    <2>2. token' \in [Messages -> {"none", "armed", "requested"}]
      BY <1>24 DEF InterruptTask, TypeInv, TypeOK
    <2>3. flag' \in BOOLEAN /\ presses' \in Nat
      BY <1>24 DEF InterruptTask, TypeInv, TypeOK
    <2>4. TypeOK'
      BY <2>1, <2>2, <2>3 DEF TypeInv, TypeOK
    <2>5. QED
      BY <2>1, <2>4 DEF TypeInv, SessKnown, BoundKnown, HandPhase, CurrentKnown
  <1>25. ASSUME NEW s \in Sessions, ResumeSession(s)
        PROVE  TypeInv'
    <2>1. UNCHANGED <<pc, sess, bound, hand, taken, iter, token, running,
                       queueOf, content, registry, flag, presses, history,
                       arrivals, cleared, aborted>>
      BY <1>25 DEF ResumeSession, dispatchVars, loopVars, stateVars, ghostVars
    <2>2. current' \in Sessions
      BY <1>25 DEF ResumeSession
    <2>3. TypeOK'
      BY <2>1, <2>2 DEF TypeInv, TypeOK
    <2>4. QED
      BY <2>1, <2>2, <2>3
         DEF TypeInv, SessKnown, BoundKnown, HandPhase, CurrentKnown
  <1>26. CASE UNCHANGED vars
    BY <1>26
       DEF vars, TypeInv, TypeOK, SessKnown, BoundKnown, HandPhase, CurrentKnown
  <1>27. QED
    BY <1>1, <1>2, <1>3, <1>4, <1>5, <1>6, <1>7, <1>8, <1>9, <1>10, <1>11, <1>12, <1>13,
       <1>14, <1>14a, <1>15, <1>16, <1>16a, <1>17, <1>18, <1>19, <1>20, <1>21, <1>22,
       <1>23, <1>24, <1>25, <1>26
       DEF Next, RunStep, HandlerStep, WiringStep, LoopStep

-----------------------------------------------------------------------------
(* The conjuncts of IdleIsClean are kept by a step that changes no shared  *)
(* entry and ends no run.                                                  *)
LEMMA EntriesKept ==
  ASSUME TypeInv, IdleIsClean,
         \A t \in Sessions : InPhase(t, Live) \subseteq InPhase(t, Live)',
         UNCHANGED <<running, queueOf, registry>>
  PROVE  IdleIsClean'
  BY
     DEF IdleIsClean, RunningHasRun, QueueHasRun, RegisteredIsLive, TypeInv, TypeOK

(* A step that moves one query, and keeps a live one live, ends no run. *)
LEMMA RunsKept ==
  ASSUME TypeInv, IdleIsClean, NEW m \in Messages, NEW p,
         pc' = [pc EXCEPT ![m] = p],
         pc[m] \in Live => p \in Live,
         UNCHANGED <<sess, running, queueOf, registry>>
  PROVE  IdleIsClean'
  <1>1. \A t \in Sessions : InPhase(t, Live) \subseteq InPhase(t, Live)'
    BY DEF InPhase, TypeInv, TypeOK
  <1>2. QED
    BY <1>1, EntriesKept

(* Neither does one that moves nobody. *)
LEMMA SameRuns ==
  ASSUME IdleIsClean, UNCHANGED <<pc, sess, running, queueOf, registry>>
  PROVE  IdleIsClean'
  BY DEF IdleIsClean, RunningHasRun, QueueHasRun, RegisteredIsLive, InPhase

LEMMA IdleIsCleanInit == Init => IdleIsClean
  BY DEF Init, IdleIsClean, RunningHasRun, QueueHasRun, RegisteredIsLive

LEMMA IdleIsCleanStep == TypeInv /\ IdleIsClean /\ [Next]_vars => IdleIsClean'
  <1> SUFFICES ASSUME TypeInv, IdleIsClean, [Next]_vars PROVE IdleIsClean'
    OBVIOUS
  <1>1. ASSUME NEW m \in Messages, NEW s \in Sessions, Inject(m, s)
        PROVE  IdleIsClean'
    <2>1. PICK p \in {"injected", "refused"} : pc' = [pc EXCEPT ![m] = p]
      BY <1>1 DEF Inject, Goto
    <2>2. \A t \in Sessions : InPhase(t, Live) \subseteq InPhase(t, Live)'
      BY <1>1, <2>1
         DEF Inject, Arrives, TypeInv, TypeOK, InPhase, Live, Wiring, Looping, Leaving
    <2>3. \A t \in Sessions : queueOf'[t] = queueOf[t] \/ t \in running
      BY <1>1 DEF Inject, TypeInv, TypeOK
    <2>4. QED
      BY <1>1, <2>2, <2>3 DEF Inject, IdleIsClean, RunningHasRun, QueueHasRun,
                              RegisteredIsLive, TypeInv, TypeOK
  <1>2. ASSUME NEW m \in Messages, NEW s \in Sessions, StartQuery(m, s)
        PROVE  IdleIsClean'
    <2>1. \A t \in Sessions : InPhase(t, Live) \subseteq InPhase(t, Live)'
      BY <1>2
         DEF StartQuery, Arrives, Goto, TypeInv, TypeOK, InPhase, Live, Wiring, Looping, Leaving
    <2>2. QED
      BY <1>2, <2>1, EntriesKept DEF StartQuery, stateVars
  <1>3. ASSUME NEW m \in Messages, LoadSession(m)
        PROVE  IdleIsClean'
    BY <1>3, RunsKept DEF TypeInv, LoadSession, Goto, stateVars,
           Live, Wiring, Looping, Leaving
  <1>4. ASSUME NEW m \in Messages, RejectQuery(m)
        PROVE  IdleIsClean'
    BY <1>4, RunsKept DEF TypeInv, RejectQuery, Goto, stateVars,
           Live, Wiring, Looping, Leaving
  <1>5. ASSUME NEW m \in Messages, CreateTask(m)
        PROVE  IdleIsClean'
    BY <1>5, RunsKept DEF TypeInv, CreateTask, Goto, stateVars,
           Live, Wiring, Looping, Leaving
  <1>6. ASSUME NEW m \in Messages, SetRunning(m)
        PROVE  IdleIsClean'
    <2>1. \A t \in Sessions : InPhase(t, Live) \subseteq InPhase(t, Live)'
      BY <1>6
         DEF SetRunning, Goto, TypeInv, TypeOK, InPhase, Live, Wiring, Looping, Leaving
    <2>2. m \in InPhase(sess[m], Live)'
      BY <1>6 DEF SetRunning, Goto, TypeInv, TypeOK, InPhase, Live, Wiring
    <2>3. QED
      BY <1>6, <2>1, <2>2
         DEF SetRunning, IdleIsClean, RunningHasRun, QueueHasRun,
                              RegisteredIsLive, TypeInv, TypeOK
  <1>7. ASSUME NEW m \in Messages, Submit(m)
        PROVE  IdleIsClean'
    BY <1>7, RunsKept DEF TypeInv, Submit, Goto, stateVars,
           Live, Wiring, Looping, Leaving
  <1>8. ASSUME NEW m \in Messages, Finalize(m)
        PROVE  IdleIsClean'
    <2>1. \A t \in Sessions : t # sess[m] => InPhase(t, Live) \subseteq InPhase(t, Live)'
      BY <1>8 DEF Finalize, Goto, TypeInv, TypeOK, InPhase
    <2>2. /\ running' = running \ {sess[m]}
          /\ queueOf' = [queueOf EXCEPT ![sess[m]] = None]
          /\ registry' = [registry EXCEPT ![sess[m]] = None]
      BY <1>8 DEF Finalize
    <2>3. QED
      BY <2>1, <2>2
         DEF IdleIsClean, RunningHasRun, QueueHasRun, RegisteredIsLive,
                        TypeInv, TypeOK
  <1>9. ASSUME NEW m \in Messages, PickUp(m)
        PROVE  IdleIsClean'
    BY <1>9, RunsKept DEF TypeInv, PickUp, Goto, stateVars,
           Live, Wiring, Looping, Leaving
  <1>10. ASSUME NEW m \in Messages, SetCurrent(m)
        PROVE  IdleIsClean'
    BY <1>10, RunsKept DEF TypeInv, SetCurrent, Goto, stateVars,
           Live, Wiring, Looping, Leaving
  <1>11. ASSUME NEW m \in Messages, BuildFails(m)
        PROVE  IdleIsClean'
    BY <1>11, RunsKept DEF TypeInv, BuildFails, Goto, stateVars,
           Live, Wiring, Looping, Leaving
  <1>12. ASSUME NEW m \in Messages, BindQueue(m)
        PROVE  IdleIsClean'
    <2>1. \A t \in Sessions : InPhase(t, Live) \subseteq InPhase(t, Live)'
      BY <1>12
         DEF BindQueue, Goto, TypeInv, TypeOK, InPhase, Live, Wiring, Looping, Leaving
    <2>2. m \in InPhase(sess[m], Live)'
      BY <1>12 DEF BindQueue, Goto, TypeInv, TypeOK, InPhase, Live, Wiring
    <2>3. \A t \in Sessions : t # sess[m] => queueOf'[t] = queueOf[t]
      BY <1>12 DEF BindQueue, TypeInv, TypeOK
    <2>4. QED
      BY <1>12, <2>1, <2>2, <2>3
         DEF BindQueue, IdleIsClean, RunningHasRun, QueueHasRun, RegisteredIsLive,
             TypeInv, TypeOK
  <1>13. ASSUME NEW m \in Messages, Register(m)
        PROVE  IdleIsClean'
    <2>1. \A t \in Sessions : InPhase(t, Live) \subseteq InPhase(t, Live)'
      BY <1>13
         DEF Register, Goto, TypeInv, TypeOK, InPhase, Live, Wiring, Looping, Leaving
    <2>2. m \in InPhase(sess[m], Live)'
      BY <1>13 DEF Register, Goto, TypeInv, TypeOK, InPhase, Live, Wiring
    <2>3. \A t \in Sessions : registry'[t] = registry[t] \/ (t = sess[m] /\ registry'[t] = m)
      BY <1>13 DEF Register, TypeInv, TypeOK
    <2>4. QED
      BY <1>13, <2>1, <2>2, <2>3
         DEF Register, IdleIsClean, RunningHasRun, QueueHasRun, RegisteredIsLive,
             TypeInv, TypeOK
  <1>14. ASSUME NEW m \in Messages, BeginLoop(m)
        PROVE  IdleIsClean'
    BY <1>14, RunsKept DEF TypeInv, BeginLoop, Goto, stateVars,
           Live, Wiring, Looping, Leaving
  <1>14a. ASSUME NEW m \in Messages, EnterLoop(m)
        PROVE  IdleIsClean'
    BY <1>14a, RunsKept DEF TypeInv, EnterLoop, Goto, stateVars,
           Live, Wiring, Looping, Leaving
  <1>15. ASSUME NEW m \in Messages, Take(m)
        PROVE  IdleIsClean'
    BY <1>15, SameRuns DEF Take, dispatchVars, stateVars
  <1>16. ASSUME NEW m \in Messages, AddTaken(m)
        PROVE  IdleIsClean'
    BY <1>16, SameRuns DEF AddTaken, dispatchVars, stateVars
  <1>16a. ASSUME NEW m \in Messages, AddFails(m)
        PROVE  IdleIsClean'
    <2>1. PICK p \in {"returned", "leaving"} : pc' = [pc EXCEPT ![m] = p]
      BY <1>16a DEF AddFails, Goto
    <2>2. QED
      BY <1>16a, <2>1, RunsKept
         DEF TypeInv, AddFails, stateVars, Live, Wiring, Looping, Leaving
  <1>17. ASSUME NEW m \in Messages, NextIteration(m)
        PROVE  IdleIsClean'
    <2>1. PICK p \in {"leaving", "drainMid"} : pc' = [pc EXCEPT ![m] = p]
      BY <1>17 DEF NextIteration, Goto
    <2>2. QED
      BY <1>17, <2>1, RunsKept
         DEF TypeInv, NextIteration, stateVars, Live, Wiring, Looping, Leaving
  <1>18. ASSUME NEW m \in Messages, CallModel(m)
        PROVE  IdleIsClean'
    BY <1>18, RunsKept DEF TypeInv, CallModel, Goto, stateVars,
           Live, Wiring, Looping, Leaving
  <1>19. ASSUME NEW m \in Messages, Continue(m)
        PROVE  IdleIsClean'
    BY <1>19, RunsKept DEF TypeInv, Continue, Idling, Goto, stateVars,
           Live, Wiring, Looping, Leaving
  <1>20. ASSUME NEW m \in Messages, Break(m)
        PROVE  IdleIsClean'
    BY <1>20, RunsKept DEF TypeInv, Break, Idling, Goto, stateVars,
           Live, Wiring, Looping, Leaving
  <1>21. ASSUME NEW m \in Messages, Raise(m)
        PROVE  IdleIsClean'
    BY <1>21, RunsKept DEF TypeInv, Raise, Idling, Goto, stateVars,
           Live, Wiring, Looping, Leaving
  <1>22. ASSUME NEW m \in Messages, DropToken(m)
        PROVE  IdleIsClean'
    BY <1>22, RunsKept DEF TypeInv, DropToken, Goto, stateVars,
           Live, Wiring, Looping, Leaving
  <1>23. ASSUME NEW m \in Messages, Return(m)
        PROVE  IdleIsClean'
    BY <1>23, RunsKept DEF TypeInv, Return, Goto, stateVars,
           Live, Wiring, Looping, Leaving
  <1>24. CASE InterruptTask
    BY <1>24, SameRuns DEF InterruptTask, dispatchVars, stateVars
  <1>25. ASSUME NEW s \in Sessions, ResumeSession(s)
        PROVE  IdleIsClean'
    BY <1>25, SameRuns DEF ResumeSession, dispatchVars, stateVars
  <1>26. CASE UNCHANGED vars
    BY <1>26, SameRuns DEF vars, dispatchVars, stateVars
  <1>27. QED
    BY <1>1, <1>2, <1>3, <1>4, <1>5, <1>6, <1>7, <1>8, <1>9, <1>10, <1>11, <1>12, <1>13,
       <1>14, <1>14a, <1>15, <1>16, <1>16a, <1>17, <1>18, <1>19, <1>20, <1>21, <1>22,
       <1>23, <1>24, <1>25, <1>26
       DEF Next, RunStep, HandlerStep, WiringStep, LoopStep

-----------------------------------------------------------------------------
(* Every variable keeps the values its comment allows; in particular each  *)
(* message is added to some session, never to none (the add_message calls  *)
(* of _drain_injected_messages and execute).                               *)
THEOREM TypeCorrect == Spec => []TypeOK
  <1>1. Spec => []TypeInv
    BY TypeInvInit, TypeInvStep, PTL DEF Spec
  <1>2. TypeInv => TypeOK
    BY DEF TypeInv
  <1>3. QED
    BY <1>1, <1>2, PTL

(* A session without a live run is not marked running, owns no queue and   *)
(* has no executor registered, whichever of several runs finished first    *)
(* (the finally clause of AgentExecutor.execute_query).                    *)
THEOREM IdleSessionsAreClean == Spec => []IdleIsClean
  <1>1. Init => TypeInv /\ IdleIsClean
    BY TypeInvInit, IdleIsCleanInit
  <1>2. TypeInv /\ IdleIsClean /\ [Next]_vars => (TypeInv /\ IdleIsClean)'
    BY TypeInvStep, IdleIsCleanStep
  <1>3. QED
    BY <1>1, <1>2, PTL DEF Spec

-----------------------------------------------------------------------------
(* With clients that wait for a dispatch before they send the next query,  *)
(* at most one query of a session is active: dispatched or running.        *)
OneActive ==
    \A m, n \in Messages :
        pc[m] \in Active /\ pc[n] \in Active /\ sess[m] = sess[n] => m = n

LiveIsMarked == \A m \in Messages : pc[m] \in Live => sess[m] \in running

SerialInv == OneActive /\ LiveIsMarked

(* A step that moves one active query to an active phase, into no run that *)
(* was not one, and leaves running alone, keeps SerialInv.                 *)
LEMMA StaysActive ==
  ASSUME TypeInv, SerialInv, NEW m \in Messages, NEW p \in Active,
         pc[m] \in Active,
         p \in Live => pc[m] \in Live,
         pc' = [pc EXCEPT ![m] = p],
         UNCHANGED <<sess, running>>
  PROVE  SerialInv'
  BY DEF SerialInv, OneActive, LiveIsMarked, TypeInv, TypeOK

LEMMA SerialInvStep ==
  ASSUME SerialClients, TypeInv, SerialInv, [Next]_vars
  PROVE  SerialInv'
  <1>1. ASSUME NEW m \in Messages, NEW s \in Sessions, Inject(m, s)
        PROVE  SerialInv'
    <2>1. PICK p \in {"injected", "refused"} : pc' = [pc EXCEPT ![m] = p]
      BY <1>1 DEF Inject, Goto
    <2>2. sess' = [sess EXCEPT ![m] = s] /\ running' = running
      BY <1>1 DEF Inject, Arrives
    <2>3. p \notin Active /\ p \notin Live
      BY <2>1 DEF Active, Dispatching, Live, Wiring,
           Looping, Leaving
    <2>4. QED
      BY <2>1, <2>2, <2>3
         DEF SerialInv, OneActive, LiveIsMarked, TypeInv, TypeOK
  <1>2. ASSUME NEW m \in Messages, NEW s \in Sessions, StartQuery(m, s)
        PROVE  SerialInv'
    <2>1. s \notin running /\ InPhase(s, Dispatching) = {}
      BY <1>2, SerialClients DEF StartQuery, Arrives
    <2>2. \A n \in Messages : sess[n] = s => pc[n] \notin Active
      BY <2>1 DEF SerialInv, LiveIsMarked, InPhase, Active
    <2>3. pc[m] \notin Active
      BY <1>2 DEF StartQuery, Arrives, Active, Dispatching, Live, Wiring,
           Looping, Leaving
    <2>4. pc' = [pc EXCEPT ![m] = "loading"] /\ sess' = [sess EXCEPT ![m] = s]
          /\ running' = running
      BY <1>2 DEF StartQuery, Arrives, Goto, stateVars
    <2>5. OneActive'
      BY <2>2, <2>3, <2>4 DEF SerialInv, OneActive, TypeInv, TypeOK
    <2>6. LiveIsMarked'
      BY <2>4
         DEF SerialInv, LiveIsMarked, TypeInv, TypeOK, Live, Wiring, Looping, Leaving
    <2>7. QED
      BY <2>5, <2>6 DEF SerialInv
  <1>3. ASSUME NEW m \in Messages, LoadSession(m)
        PROVE  SerialInv'
    BY <1>3, StaysActive DEF LoadSession, Goto, stateVars,
           Active, Dispatching, Live, Wiring,
           Looping, Leaving
  <1>4. ASSUME NEW m \in Messages, RejectQuery(m)
        PROVE  SerialInv'
    <2>1. pc' = [pc EXCEPT ![m] = "rejected"] /\ sess' = sess /\ running' = running
      BY <1>4 DEF RejectQuery, Goto, stateVars
    <2>2. "rejected" \notin Active /\ "rejected" \notin Live
      BY DEF Active, Dispatching, Live, Wiring,
           Looping, Leaving
    <2>3. QED
      BY <2>1, <2>2 DEF SerialInv, OneActive, LiveIsMarked, TypeInv, TypeOK
  <1>5. ASSUME NEW m \in Messages, CreateTask(m)
        PROVE  SerialInv'
    BY <1>5, StaysActive DEF CreateTask, Goto, stateVars,
           Active, Dispatching, Live, Wiring,
           Looping, Leaving
  <1>6. ASSUME NEW m \in Messages, SetRunning(m)
        PROVE  SerialInv'
    <2>1. /\ pc[m] \in Active
          /\ pc' = [pc EXCEPT ![m] = "starting"]
          /\ running' = running \cup {sess[m]}
          /\ sess' = sess
      BY <1>6 DEF SetRunning, Goto, Active, Dispatching
    <2>2. QED
      BY <2>1 DEF SerialInv, OneActive, LiveIsMarked, TypeInv, TypeOK
  <1>7. ASSUME NEW m \in Messages, Submit(m)
        PROVE  SerialInv'
    BY <1>7, StaysActive DEF Submit, Goto, stateVars,
           Active, Dispatching, Live, Wiring,
           Looping, Leaving
  <1>8. ASSUME NEW m \in Messages, Finalize(m)
        PROVE  SerialInv'
    <2>1. /\ pc[m] \in Active
          /\ pc' = [pc EXCEPT ![m] = "done"]
          /\ running' = running \ {sess[m]}
          /\ sess' = sess
      BY <1>8 DEF Finalize, Goto, Active, Live, Leaving
    <2>2. "done" \notin Active /\ "done" \notin Live /\ Live \subseteq Active
      BY DEF Active, Dispatching, Live, Wiring,
           Looping, Leaving
    <2>3. QED
      BY <2>1, <2>2 DEF SerialInv, OneActive, LiveIsMarked, TypeInv, TypeOK
  <1>9. ASSUME NEW m \in Messages, PickUp(m)
        PROVE  SerialInv'
    BY <1>9, StaysActive DEF PickUp, Goto, stateVars,
           Active, Dispatching, Live, Wiring,
           Looping, Leaving
  <1>10. ASSUME NEW m \in Messages, SetCurrent(m)
        PROVE  SerialInv'
    BY <1>10, StaysActive DEF SetCurrent, Goto, stateVars,
           Active, Dispatching, Live, Wiring,
           Looping, Leaving
  <1>11. ASSUME NEW m \in Messages, BuildFails(m)
        PROVE  SerialInv'
    BY <1>11, StaysActive DEF BuildFails, Goto, stateVars,
           Active, Dispatching, Live, Wiring,
           Looping, Leaving
  <1>12. ASSUME NEW m \in Messages, BindQueue(m)
        PROVE  SerialInv'
    BY <1>12, StaysActive DEF BindQueue, Goto, stateVars,
           Active, Dispatching, Live, Wiring,
           Looping, Leaving
  <1>13. ASSUME NEW m \in Messages, Register(m)
        PROVE  SerialInv'
    BY <1>13, StaysActive DEF Register, Goto, stateVars,
           Active, Dispatching, Live, Wiring,
           Looping, Leaving
  <1>14. ASSUME NEW m \in Messages, BeginLoop(m)
        PROVE  SerialInv'
    BY <1>14, StaysActive DEF BeginLoop, Goto, stateVars,
           Active, Dispatching, Live, Wiring,
           Looping, Leaving
  <1>14a. ASSUME NEW m \in Messages, EnterLoop(m)
        PROVE  SerialInv'
    BY <1>14a, StaysActive DEF EnterLoop, Goto, stateVars,
           Active, Dispatching, Live, Wiring,
           Looping, Leaving
  <1>15. ASSUME NEW m \in Messages, Take(m)
        PROVE  SerialInv'
    BY <1>15 DEF Take, dispatchVars, stateVars, SerialInv,
           OneActive, LiveIsMarked
  <1>16. ASSUME NEW m \in Messages, AddTaken(m)
        PROVE  SerialInv'
    BY <1>16 DEF AddTaken, dispatchVars, stateVars, SerialInv,
           OneActive, LiveIsMarked
  <1>16a. ASSUME NEW m \in Messages, AddFails(m)
        PROVE  SerialInv'
    <2>1. PICK p \in {"returned", "leaving"} : pc' = [pc EXCEPT ![m] = p]
      BY <1>16a DEF AddFails, Goto
    <2>2. pc[m] \in Draining
      BY <1>16a DEF AddFails, TypeInv, HandPhase
    <2>3. QED
      BY <1>16a, <2>1, <2>2, StaysActive DEF AddFails, stateVars, Draining,
         Active, Dispatching, Live, Wiring,
           Looping, Leaving
  <1>17. ASSUME NEW m \in Messages, NextIteration(m)
        PROVE  SerialInv'
    <2>1. PICK p \in {"leaving", "drainMid"} : pc' = [pc EXCEPT ![m] = p]
      BY <1>17 DEF NextIteration, Goto
    <2>2. QED
      BY <1>17, <2>1, StaysActive DEF NextIteration, stateVars,
         Active, Dispatching, Live, Wiring,
           Looping, Leaving
  <1>18. ASSUME NEW m \in Messages, CallModel(m)
        PROVE  SerialInv'
    BY <1>18, StaysActive DEF CallModel, Goto, stateVars,
           Active, Dispatching, Live, Wiring,
           Looping, Leaving
  <1>19. ASSUME NEW m \in Messages, Continue(m)
        PROVE  SerialInv'
    BY <1>19, StaysActive DEF Continue, Idling, Goto, stateVars,
           Active, Dispatching, Live, Wiring,
           Looping, Leaving
  <1>20. ASSUME NEW m \in Messages, Break(m)
        PROVE  SerialInv'
    BY <1>20, StaysActive DEF Break, Idling, Goto, stateVars,
           Active, Dispatching, Live, Wiring,
           Looping, Leaving
  <1>21. ASSUME NEW m \in Messages, Raise(m)
        PROVE  SerialInv'
    BY <1>21, StaysActive DEF Raise, Idling, Goto, stateVars,
           Active, Dispatching, Live, Wiring,
           Looping, Leaving
  <1>22. ASSUME NEW m \in Messages, DropToken(m)
        PROVE  SerialInv'
    BY <1>22, StaysActive DEF DropToken, Goto, stateVars,
           Active, Dispatching, Live, Wiring,
           Looping, Leaving
  <1>23. ASSUME NEW m \in Messages, Return(m)
        PROVE  SerialInv'
    BY <1>23, StaysActive DEF Return, Goto, stateVars,
           Active, Dispatching, Live, Wiring,
           Looping, Leaving
  <1>24. CASE InterruptTask
    BY <1>24 DEF InterruptTask, dispatchVars, stateVars, SerialInv,
           OneActive, LiveIsMarked
  <1>25. ASSUME NEW s \in Sessions, ResumeSession(s)
        PROVE  SerialInv'
    BY <1>25 DEF ResumeSession, dispatchVars, stateVars, SerialInv,
           OneActive, LiveIsMarked
  <1>26. CASE UNCHANGED vars
    BY <1>26 DEF vars, dispatchVars, stateVars, SerialInv,
           OneActive, LiveIsMarked
  <1>27. QED
    BY <1>1, <1>2, <1>3, <1>4, <1>5, <1>6, <1>7, <1>8, <1>9, <1>10, <1>11, <1>12, <1>13,
       <1>14, <1>14a, <1>15, <1>16, <1>16a, <1>17, <1>18, <1>19, <1>20, <1>21, <1>22,
       <1>23, <1>24, <1>25, <1>26
       DEF Next, RunStep, HandlerStep, WiringStep, LoopStep

(* If no client sends a query while an earlier one of the same session is  *)
(* being dispatched, a session never has two runs (the is_session_running  *)
(* test of _handle_query and send_query).  Without that assumption it may: *)
(* see the run WebRuns_two_runs.                                           *)
THEOREM SerialClientsNeverOverlap ==
  ASSUME SerialClients
  PROVE  Spec => []OneRunPerSession
  <1>1. Init => TypeInv /\ SerialInv
    BY TypeInvInit DEF Init, SerialInv, OneActive, LiveIsMarked, Active,
                       Dispatching, Live, Wiring, Looping, Leaving
  <1>2. TypeInv /\ SerialInv /\ [Next]_vars => (TypeInv /\ SerialInv)'
    BY TypeInvStep, SerialInvStep, SerialClients
  <1>3. SerialInv => OneRunPerSession
    BY DEF SerialInv, OneActive, OneRunPerSession, InPhase, Active
  <1>4. QED
    BY <1>1, <1>2, <1>3, PTL DEF Spec

-----------------------------------------------------------------------------
(* A message is in one place at a time: in the history, in a hand, or on a *)
(* queue; and what is in a hand or on a queue was injected, which is the   *)
(* last that happens to it in its handler.                                 *)
HistoryOnce ==
    /\ \A i \in DOMAIN history : pc[history[i].msg] \notin {"new", "loading"}
    /\ \A i, j \in DOMAIN history : history[i].msg = history[j].msg => i = j

HandsOnce ==
    /\ \A r \in Messages : hand[r] # None => pc[hand[r]] = "injected" /\ ~InHistory(hand[r])
    /\ \A r, x \in Messages : hand[r] # None /\ hand[r] = hand[x] => r = x

QueuesOnce ==
    /\ \A q \in Messages : \A i \in DOMAIN content[q] :
          /\ pc[content[q][i]] = "injected" /\ ~InHistory(content[q][i])
          /\ \A r \in Messages : hand[r] # content[q][i]
    /\ \A q, u \in Messages : \A i \in DOMAIN content[q], j \in DOMAIN content[u] :
          content[q][i] = content[u][j] => q = u /\ i = j

OnePlace == HistoryOnce /\ HandsOnce /\ QueuesOnce

(* What happens to a sequence at its ends.                                 *)
LEMMA AtTheEnd ==
  ASSUME NEW S, NEW w \in Seq(S), NEW x \in S
  PROVE  /\ Len(w) + 1 \notin DOMAIN w /\ Len(w) + 1 \in DOMAIN Append(w, x)
         /\ Append(w, x)[Len(w) + 1] = x
         /\ \A i \in DOMAIN w : i \in DOMAIN Append(w, x) /\ Append(w, x)[i] = w[i]
         /\ \A i \in DOMAIN Append(w, x) : i \in DOMAIN w \/ i = Len(w) + 1
  OBVIOUS

LEMMA AtTheHead ==
  ASSUME NEW S, NEW w \in Seq(S), w # <<>>
  PROVE  /\ 1 \in DOMAIN w /\ Head(w) = w[1]
         /\ \A i \in DOMAIN Tail(w) : i + 1 \in DOMAIN w /\ i + 1 # 1 /\ Tail(w)[i] = w[i + 1]
         /\ \A i, j \in DOMAIN Tail(w) : i + 1 = j + 1 => i = j
  OBVIOUS

(* What lies in the history, on a queue or in a hand is a message.         *)
LEMMA KnownMessages ==
  ASSUME TypeInv
  PROVE  /\ \A i \in DOMAIN history : history[i].msg \in Messages
         /\ \A q \in Messages : content[q] \in Seq(Messages)
         /\ \A q \in Messages : \A i \in DOMAIN content[q] : content[q][i] \in Messages
         /\ \A r \in Messages : hand[r] # None => hand[r] \in Messages
         /\ pc \in [Messages -> Phases] /\ history \in Seq(Entry)
  <1>1. /\ history \in Seq(Entry) /\ content \in [Messages -> Seq(Messages)]
        /\ hand \in [Messages -> Messages \cup {None}] /\ pc \in [Messages -> Phases]
    BY DEF TypeInv, TypeOK
  <1>2. \A i \in DOMAIN history : history[i] \in Entry
    BY <1>1
  <1>3. \A e \in Entry : e.msg \in Messages
    BY DEF Entry
  <1>4. \A q \in Messages : content[q] \in Seq(Messages)
    BY <1>1
  <1>5. \A w \in Seq(Messages) : \A i \in DOMAIN w : w[i] \in Messages
    OBVIOUS
  <1>6. \A i \in DOMAIN history : history[i].msg \in Messages
    BY <1>2, <1>3
  <1>7. \A q \in Messages : \A i \in DOMAIN content[q] : content[q][i] \in Messages
    BY <1>4, <1>5
  <1>8. \A r \in Messages : hand[r] # None => hand[r] \in Messages
    BY <1>1
  <1>9. QED
    BY <1>1, <1>4, <1>6, <1>7, <1>8

(* Steps that move no message keep it where it is.                         *)
LEMMA PlacesKept ==
  ASSUME TypeInv, OnePlace, UNCHANGED <<hand, content, history>>,
         \A m \in Messages : /\ pc[m] = "injected" => pc'[m] = "injected"
                             /\ pc[m] \notin {"new", "loading"} => pc'[m] \notin {"new", "loading"}
  PROVE  OnePlace'
  <1>1. HistoryOnce'
    BY KnownMessages DEF OnePlace, HistoryOnce
  <1>2. HandsOnce'
    BY KnownMessages DEF OnePlace, HandsOnce, InHistory
  <1>3. QueuesOnce'
    BY KnownMessages DEF OnePlace, QueuesOnce, InHistory
  <1>4. QED
    BY <1>1, <1>2, <1>3 DEF OnePlace

(* A message that is not dispatched yet is nowhere.                        *)
LEMMA NewIsNowhere ==
  ASSUME TypeInv, OnePlace, NEW m \in Messages, pc[m] \in {"new", "loading"}
  PROVE  /\ ~InHistory(m)
         /\ \A r \in Messages : hand[r] # m
         /\ \A q \in Messages : \A i \in DOMAIN content[q] : content[q][i] # m
  <1>1. m # None
    BY NoneAssumption
  <1>2. QED
    BY <1>1 DEF OnePlace, HistoryOnce, HandsOnce, QueuesOnce, InHistory

LEMMA InjectPlaces ==
  ASSUME TypeInv, OnePlace, NEW m \in Messages, NEW s \in Sessions, Inject(m, s)
  PROVE  OnePlace'
  <1> DEFINE q == QueueFor(s, m)
             w == content[q]
  <1>1. q \in Messages
    BY NoneAssumption DEF QueueFor, TypeInv, TypeOK
  <1>2. pc[m] = "new" /\ UNCHANGED <<hand, history>> /\ pc \in [Messages -> Phases]
    BY DEF Inject, Arrives, loopVars, TypeInv, TypeOK
  <1>3. CASE pc' = [pc EXCEPT ![m] = "refused"] /\ UNCHANGED content
    BY <1>2, <1>3, PlacesKept
  <1>4. CASE pc' = [pc EXCEPT ![m] = "injected"] /\ content' = [content EXCEPT ![q] = Append(@, m)]
    <2>1. /\ ~InHistory(m) /\ \A r \in Messages : hand[r] # m
          /\ \A u \in Messages : \A i \in DOMAIN content[u] : content[u][i] # m
      BY <1>2, NewIsNowhere
    <2>2. /\ \A x \in Messages : pc[x] = "injected" => pc'[x] = "injected"
          /\ pc'[m] = "injected"
      BY <1>2, <1>4
    <2>3. \A x : InHistory(x)' <=> InHistory(x)
      BY <1>2 DEF InHistory
    <2>4. w \in Seq(Messages)
      BY <1>1 DEF TypeInv, TypeOK
    <2>5. content'[q] = Append(w, m) /\ \A u \in Messages \ {q} : content'[u] = content[u]
      BY <1>1, <1>4 DEF TypeInv, TypeOK
    <2>6. \A u \in Messages : \A i \in DOMAIN content'[u] :
              \/ i \in DOMAIN content[u] /\ content'[u][i] = content[u][i]
              \/ u = q /\ i = Len(w) + 1 /\ content'[u][i] = m
      BY <2>4, <2>5, AtTheEnd
    <2>7. HistoryOnce'
      BY <1>2, <1>4, KnownMessages DEF OnePlace, HistoryOnce
    <2>8. HandsOnce'
      BY <1>2, <2>2, KnownMessages DEF OnePlace, HandsOnce, InHistory
    <2>9. \A u \in Messages : \A i \in DOMAIN content[u] :
              /\ pc'[content[u][i]] = "injected" /\ ~InHistory(content[u][i])
              /\ \A r \in Messages : hand'[r] # content[u][i]
      BY <1>2, <2>2, KnownMessages DEF OnePlace, QueuesOnce
    <2>10. \A u \in Messages : \A i \in DOMAIN content'[u] :
              /\ pc'[content'[u][i]] = "injected" /\ ~InHistory(content'[u][i])
              /\ \A r \in Messages : hand'[r] # content'[u][i]
      BY <1>2, <2>1, <2>2, <2>6, <2>9
    <2>11. ASSUME NEW u \in Messages, NEW v \in Messages, NEW i \in DOMAIN content'[u],
                  NEW j \in DOMAIN content'[v], content'[u][i] = content'[v][j]
           PROVE  u = v /\ i = j
      BY <2>1, <2>6, <2>11 DEF OnePlace, QueuesOnce
    <2>12. QueuesOnce'
      BY <2>3, <2>10, <2>11 DEF QueuesOnce, InHistory
    <2>13. QED
      BY <2>7, <2>8, <2>12 DEF OnePlace
  <1>5. QED
    BY <1>3, <1>4 DEF Inject, Goto

(* What appending one message to the history does to it.                   *)
LEMMA OneAdded ==
  ASSUME TypeInv, OnePlace, NEW m \in Messages, NEW s \in Sessions \cup {None},
         ~InHistory(m),
         history' = Append(history, [msg |-> m, to |-> s]),
         pc'[m] \notin {"new", "loading"},
         \A x \in Messages : pc[x] \notin {"new", "loading"} => pc'[x] \notin {"new", "loading"}
  PROVE  /\ HistoryOnce'
         /\ \A x \in Messages \ {m} : ~InHistory(x) => ~InHistory(x)'
  <1>1. [msg |-> m, to |-> s] \in Entry /\ [msg |-> m, to |-> s].msg = m
    BY DEF Entry
  <1>2. \A i \in DOMAIN history' :
            \/ i \in DOMAIN history /\ history'[i] = history[i]
            \/ i = Len(history) + 1 /\ history'[i].msg = m
    BY <1>1, AtTheEnd, KnownMessages
  <1>3. \A x \in Messages \ {m} : ~InHistory(x) => ~InHistory(x)'
    BY <1>2 DEF InHistory
  <1>4. \A i \in DOMAIN history' : pc'[history'[i].msg] \notin {"new", "loading"}
    BY <1>2, KnownMessages DEF OnePlace, HistoryOnce
  <1>5. \A i, j \in DOMAIN history' : history'[i].msg = history'[j].msg => i = j
    BY <1>2 DEF OnePlace, HistoryOnce, InHistory
  <1>6. QED
    BY <1>3, <1>4, <1>5 DEF HistoryOnce

LEMMA LoadPlaces ==
  ASSUME TypeInv, OnePlace, NEW m \in Messages, LoadSession(m)
  PROVE  OnePlace'
  <1>1. pc[m] = "loading" /\ pc' = [pc EXCEPT ![m] = "saving"] /\ UNCHANGED <<hand, content>>
        /\ pc \in [Messages -> Phases]
    BY DEF LoadSession, Goto, loopVars, TypeInv, TypeOK
  <1>2. sess[m] \in Sessions
    BY <1>1 DEF TypeInv, SessKnown
  <1>3. history' = Append(history, [msg |-> m, to |-> sess[m]])
    BY DEF LoadSession, Added
  <1>4. /\ ~InHistory(m) /\ \A r \in Messages : hand[r] # m
        /\ \A u \in Messages : \A i \in DOMAIN content[u] : content[u][i] # m
    BY <1>1, NewIsNowhere
  <1>5. HistoryOnce' /\ \A x \in Messages \ {m} : ~InHistory(x) => ~InHistory(x)'
    BY <1>1, <1>2, <1>3, <1>4, OneAdded
  <1>6. \A x \in Messages : pc[x] = "injected" => pc'[x] = "injected"
    BY <1>1
  <1>7. HandsOnce'
    BY <1>1, <1>4, <1>5, <1>6, KnownMessages DEF OnePlace, HandsOnce
  <1>8. QueuesOnce'
    BY <1>1, <1>4, <1>5, <1>6, KnownMessages DEF OnePlace, QueuesOnce
  <1>9. QED
    BY <1>5, <1>7, <1>8 DEF OnePlace

LEMMA BeginPlaces ==
  ASSUME TypeInv, OnePlace, NEW m \in Messages, BeginLoop(m)
  PROVE  OnePlace'
  <1>1. /\ pc[m] = "ready" /\ pc' = [pc EXCEPT ![m] = "entering"]
        /\ UNCHANGED <<hand, history>> /\ pc \in [Messages -> Phases]
        /\ content' = [content EXCEPT ![bound[m]] = <<>>]
    BY DEF BeginLoop, Goto, loopVars, TypeInv, TypeOK
  <1>2. \A x \in Messages : /\ pc[x] = "injected" => pc'[x] = "injected"
                            /\ pc[x] \notin {"new", "loading"} => pc'[x] \notin {"new", "loading"}
    BY <1>1
  <1>3. bound[m] \in Messages /\ content \in [Messages -> Seq(Messages)]
    BY <1>1 DEF TypeInv, TypeOK, BoundKnown, Bound
  <1>4. content'[bound[m]] = <<>> /\ \A u \in Messages \ {bound[m]} : content'[u] = content[u]
    BY <1>1, <1>3
  <1>5. \A u \in Messages : \A i \in DOMAIN content'[u] :
            i \in DOMAIN content[u] /\ content'[u][i] = content[u][i]
    BY <1>4
  <1>6. HistoryOnce'
    BY <1>1, <1>2, KnownMessages DEF OnePlace, HistoryOnce
  <1>7. HandsOnce'
    BY <1>1, <1>2, KnownMessages DEF OnePlace, HandsOnce, InHistory
  <1>8. \A x : InHistory(x)' <=> InHistory(x)
    BY <1>1 DEF InHistory
  <1>9. \A u \in Messages : \A i \in DOMAIN content'[u] :
            /\ pc'[content'[u][i]] = "injected" /\ ~InHistory(content'[u][i])
            /\ \A r \in Messages : hand'[r] # content'[u][i]
    BY <1>1, <1>2, <1>5, KnownMessages DEF OnePlace, QueuesOnce
  <1>10. \A u, v \in Messages : \A i \in DOMAIN content'[u], j \in DOMAIN content'[v] :
            content'[u][i] = content'[v][j] => u = v /\ i = j
    BY <1>5 DEF OnePlace, QueuesOnce
  <1>11. QueuesOnce'
    BY <1>8, <1>9, <1>10 DEF QueuesOnce, InHistory
  <1>12. QED
    BY <1>6, <1>7, <1>11 DEF OnePlace

LEMMA TakePlaces ==
  ASSUME TypeInv, OnePlace, NEW m \in Messages, Take(m)
  PROVE  OnePlace'
  <1> DEFINE q == bound[m]
             w == content[q]
             x == Head(w)
  <1>1. /\ pc[m] \in Draining /\ hand[m] = None /\ UNCHANGED <<pc, history>> /\ w # <<>>
        /\ hand' = [hand EXCEPT ![m] = x] /\ content' = [content EXCEPT ![q] = Tail(w)]
    BY DEF Take, Draining, dispatchVars
  <1>2. q \in Messages
    BY <1>1 DEF TypeInv, BoundKnown, Bound, Draining, Looping
  <1>3. w \in Seq(Messages) /\ content \in [Messages -> Seq(Messages)]
        /\ hand \in [Messages -> Messages \cup {None}]
    BY <1>2 DEF TypeInv, TypeOK
  <1>4. 1 \in DOMAIN w /\ x = w[1]
    BY <1>1, <1>3, AtTheHead
  <1>5. x \in Messages /\ pc[x] = "injected" /\ ~InHistory(x)
        /\ \A r \in Messages : hand[r] # x
    BY <1>2, <1>4, KnownMessages DEF OnePlace, QueuesOnce
  <1>6. content'[q] = Tail(w) /\ \A u \in Messages \ {q} : content'[u] = content[u]
    BY <1>1, <1>2, <1>3
  <1>7. hand'[m] = x /\ \A r \in Messages \ {m} : hand'[r] = hand[r]
    BY <1>1, <1>3
  <1>8. \A y : InHistory(y)' <=> InHistory(y)
    BY <1>1 DEF InHistory
  <1>9. HistoryOnce'
    BY <1>1 DEF OnePlace, HistoryOnce
  <1>10. HandsOnce'
    <2>1. \A r \in Messages : hand'[r] # None => pc'[hand'[r]] = "injected" /\ ~InHistory(hand'[r])
      BY <1>1, <1>5, <1>7 DEF OnePlace, HandsOnce
    <2>2. \A r, y \in Messages : hand'[r] # None /\ hand'[r] = hand'[y] => r = y
      BY <1>5, <1>7 DEF OnePlace, HandsOnce
    <2>3. QED
      BY <1>8, <2>1, <2>2 DEF HandsOnce, InHistory
  <1>11. \A u \in Messages : \A i \in DOMAIN content'[u] :
            \/ u # q /\ i \in DOMAIN content[u] /\ content'[u][i] = content[u][i]
            \/ u = q /\ i + 1 \in DOMAIN content[u] /\ i + 1 # 1 /\ content'[u][i] = content[u][i + 1]
    BY <1>1, <1>3, <1>6, AtTheHead
  <1>12. QueuesOnce'
    <2>1. \A u \in Messages : \A i \in DOMAIN content[u] : content[u][i] = x => u = q /\ i = 1
      BY <1>2, <1>4 DEF OnePlace, QueuesOnce
    <2>2. \A u \in Messages : \A i \in DOMAIN content'[u] :
              /\ pc'[content'[u][i]] = "injected" /\ ~InHistory(content'[u][i])
              /\ content'[u][i] # x
              /\ \A r \in Messages : hand[r] # content'[u][i]
      <3>1. \A u \in Messages : \A i \in DOMAIN content[u] :
                /\ pc'[content[u][i]] = "injected" /\ ~InHistory(content[u][i])
                /\ \A r \in Messages : hand[r] # content[u][i]
        BY <1>1 DEF OnePlace, QueuesOnce
      <3>2. ASSUME NEW u \in Messages, NEW i \in DOMAIN content'[u]
            PROVE  \E j \in DOMAIN content[u] :
                       content'[u][i] = content[u][j] /\ content[u][j] # x
        <4>1. CASE u # q
          BY <1>11, <2>1, <4>1
        <4>2. CASE u = q
          <5>1. i + 1 \in DOMAIN content[u] /\ i + 1 # 1 /\ content'[u][i] = content[u][i + 1]
            BY <1>11, <4>2
          <5>2. content[u][i + 1] # x
            BY <2>1, <5>1
          <5>3. QED
            BY <5>1, <5>2
        <4>3. QED
          BY <4>1, <4>2
      <3>3. QED
        BY <3>1, <3>2
    <2>3. \A u \in Messages : \A i \in DOMAIN content'[u] :
              \A r \in Messages : hand'[r] # content'[u][i]
      BY <1>7, <2>2
    <2>4. ASSUME NEW u \in Messages, NEW v \in Messages, NEW i \in DOMAIN content'[u],
                 NEW j \in DOMAIN content'[v], content'[u][i] = content'[v][j]
          PROVE  u = v /\ i = j
      <3>1. CASE u # q /\ v # q
        BY <1>11, <2>4, <3>1 DEF OnePlace, QueuesOnce
      <3>2. CASE u # q /\ v = q
        BY <1>11, <2>4, <3>2 DEF OnePlace, QueuesOnce
      <3>3. CASE u = q /\ v # q
        BY <1>11, <2>4, <3>3 DEF OnePlace, QueuesOnce
      <3>4. CASE u = q /\ v = q
        <4>1. i + 1 \in DOMAIN w /\ j + 1 \in DOMAIN w /\ w[i + 1] = w[j + 1]
          BY <1>11, <2>4, <3>4
        <4>2. i + 1 = j + 1
          BY <1>2, <4>1 DEF OnePlace, QueuesOnce
        <4>3. i \in DOMAIN Tail(w) /\ j \in DOMAIN Tail(w)
          BY <1>6, <3>4
        <4>4. QED
          BY <1>1, <1>3, <3>4, <4>2, <4>3, AtTheHead
      <3>5. QED
        BY <3>1, <3>2, <3>3, <3>4
    <2>5. \A u \in Messages : \A i \in DOMAIN content'[u] :
              ~ \E k \in DOMAIN history' : history'[k].msg = content'[u][i]
      BY <1>1, <2>2 DEF InHistory
    <2>6. \A u \in Messages : \A i \in DOMAIN content'[u] :
              pc'[content'[u][i]] = "injected"
      BY <2>2
    <2>7. \A u, v \in Messages : \A i \in DOMAIN content'[u], j \in DOMAIN content'[v] :
              content'[u][i] = content'[v][j] => u = v /\ i = j
      BY <2>4
    <2>8. QED
      BY <2>3, <2>5, <2>6, <2>7 DEF QueuesOnce, InHistory
  <1>13. QED
    BY <1>9, <1>10, <1>12 DEF OnePlace

(* The message in hand goes to the history, whatever becomes of the run.   *)
LEMMA AddPlaces ==
  ASSUME TypeInv, OnePlace, NEW m \in Messages, NEW s \in Sessions \cup {None},
         hand[m] # None, history' = Append(history, [msg |-> hand[m], to |-> s]),
         hand' = [hand EXCEPT ![m] = None], UNCHANGED content,
         \A x \in Messages : /\ pc[x] = "injected" => pc'[x] = "injected"
                             /\ pc[x] \notin {"new", "loading"} => pc'[x] \notin {"new", "loading"}
  PROVE  OnePlace'
  <1> DEFINE x == hand[m]
  <1>1. /\ x # None /\ history' = Append(history, [msg |-> x, to |-> s])
        /\ hand' = [hand EXCEPT ![m] = None] /\ UNCHANGED content
    OBVIOUS
  <1>2. x \in Messages
    BY <1>1, KnownMessages
  <1>3. pc[x] = "injected" /\ ~InHistory(x) /\ \A r \in Messages : hand[r] = x => r = m
    BY <1>1 DEF OnePlace, HandsOnce
  <1>4. HistoryOnce' /\ \A y \in Messages \ {x} : ~InHistory(y) => ~InHistory(y)'
    BY <1>1, <1>2, <1>3, OneAdded
  <1>5. hand'[m] = None /\ \A r \in Messages \ {m} : hand'[r] = hand[r]
    BY <1>1 DEF TypeInv, TypeOK
  <1>6. HandsOnce'
    BY <1>1, <1>3, <1>4, <1>5, KnownMessages DEF OnePlace, HandsOnce
  <1>7. \A q \in Messages : \A i \in DOMAIN content[q] :
            content[q][i] \in Messages /\ content[q][i] # None /\ content[q][i] # x
    BY <1>1, KnownMessages, NoneAssumption DEF OnePlace, QueuesOnce
  <1>8. \A q \in Messages : \A i \in DOMAIN content[q] :
            /\ pc'[content[q][i]] = "injected" /\ ~InHistory(content[q][i])'
            /\ \A r \in Messages : hand'[r] # content[q][i]
    BY <1>1, <1>4, <1>5, <1>7 DEF OnePlace, QueuesOnce
  <1>9. QueuesOnce'
    BY <1>1, <1>8 DEF OnePlace, QueuesOnce
  <1>10. QED
    BY <1>4, <1>6, <1>9 DEF OnePlace

LEMMA OnePlaceInit == Init => OnePlace
  BY DEF Init, OnePlace, HistoryOnce, HandsOnce, QueuesOnce

LEMMA OnePlaceStep == TypeInv /\ OnePlace /\ [Next]_vars => OnePlace'
  <1> SUFFICES ASSUME TypeInv, OnePlace, [Next]_vars PROVE OnePlace'
    OBVIOUS
  <1>0. pc \in [Messages -> Phases]
    BY DEF TypeInv, TypeOK
  <1>1. ASSUME NEW m \in Messages, NEW s \in Sessions, Inject(m, s)
        PROVE  OnePlace'
    BY <1>1, InjectPlaces
  <1>2. ASSUME NEW m \in Messages, NEW s \in Sessions, StartQuery(m, s)
        PROVE  OnePlace'
    BY <1>0, <1>2, PlacesKept DEF StartQuery, Arrives, Goto, loopVars
  <1>3. ASSUME NEW m \in Messages, HandlerStep(m)
        PROVE  OnePlace'
    <2>1. CASE LoadSession(m)
      BY <2>1, LoadPlaces
    <2>2. CASE RejectQuery(m) \/ CreateTask(m) \/ SetRunning(m) \/ Submit(m) \/ Finalize(m)
      BY <1>0, <2>2, PlacesKept
         DEF RejectQuery, CreateTask, SetRunning, Submit, Finalize, Goto, loopVars
    <2>3. QED
      BY <1>3, <2>1, <2>2 DEF HandlerStep
  <1>4. ASSUME NEW m \in Messages, WiringStep(m)
        PROVE  OnePlace'
    <2>1. CASE BeginLoop(m)
      BY <2>1, BeginPlaces
    <2>2. CASE \/ PickUp(m) \/ SetCurrent(m) \/ BuildFails(m) \/ BindQueue(m)
               \/ Register(m) \/ EnterLoop(m)
      BY <1>0, <2>2, PlacesKept
         DEF PickUp, SetCurrent, BuildFails, BindQueue, Register, EnterLoop, Goto, loopVars
    <2>3. QED
      BY <1>4, <2>1, <2>2 DEF WiringStep
  <1>5. ASSUME NEW m \in Messages, LoopStep(m)
        PROVE  OnePlace'
    <2>1. CASE Take(m)
      BY <2>1, TakePlaces
    <2>2. CASE AddTaken(m) \/ AddFails(m)
      <3>1. hand[m] # None /\ hand' = [hand EXCEPT ![m] = None] /\ UNCHANGED content
        BY <2>2 DEF AddTaken, AddFails
      <3>2. pc[m] \in Draining /\ current \in Sessions
        BY <3>1
           DEF TypeInv, HandPhase, CurrentKnown, Draining, Loaded, Live, Looping, Leaving
      <3>3. PICK s \in Sessions \cup {None} :
              history' = Append(history, [msg |-> hand[m], to |-> s])
        BY <2>2, <3>2 DEF AddTaken, AddFails, Added
      <3>4. UNCHANGED pc \/ \E p \in {"returned", "leaving"} : pc' = [pc EXCEPT ![m] = p]
        BY <2>2 DEF AddTaken, AddFails, Goto, dispatchVars
      <3>5. \A x \in Messages :
              /\ pc[x] = "injected" => pc'[x] = "injected"
              /\ pc[x] \notin {"new", "loading"} => pc'[x] \notin {"new", "loading"}
        BY <1>0, <3>2, <3>4 DEF Draining
      <3>6. QED
        BY <3>1, <3>3, <3>5, AddPlaces
    <2>3. CASE NextIteration(m)
      BY <1>0, <2>3, PlacesKept DEF NextIteration, Goto
    <2>4. CASE CallModel(m) \/ Continue(m)
      BY <1>0, <2>4, PlacesKept DEF CallModel, Continue, Idling, Goto
    <2>5. CASE Break(m) \/ Raise(m)
      BY <1>0, <2>5, PlacesKept DEF Break, Raise, Idling, Goto, loopVars
    <2>6. CASE DropToken(m) \/ Return(m)
      BY <1>0, <2>6, PlacesKept DEF DropToken, Return, Goto, loopVars
    <2>7. QED
      BY <1>5, <2>1, <2>2, <2>3, <2>4, <2>5, <2>6 DEF LoopStep
  <1>6. CASE InterruptTask
    BY <1>6, PlacesKept DEF InterruptTask, dispatchVars, loopVars
  <1>7. ASSUME NEW s \in Sessions, ResumeSession(s)
        PROVE  OnePlace'
    BY <1>7, PlacesKept DEF ResumeSession, dispatchVars, loopVars
  <1>8. CASE UNCHANGED vars
    BY <1>8, PlacesKept DEF vars
  <1>9. QED
    BY <1>1, <1>2, <1>3, <1>4, <1>5, <1>6, <1>7, <1>8 DEF Next, RunStep

(* A set with at most one member has at most one.                          *)
LEMMA AtMostOne ==
  ASSUME NEW A, \A a, b \in A : a = b
  PROVE  Cardinality(A) \in {0, 1} /\ (A = {} => Cardinality(A) = 0)
  <1>1. CASE A = {}
    BY <1>1, FS_EmptySet
  <1>2. CASE A # {}
    <2>1. PICK a \in A : TRUE
      BY <1>2
    <2>2. A = {a}
      BY <2>1
    <2>3. QED
      BY <1>2, <2>2, FS_Singleton
  <1>3. QED
    BY <1>1, <1>2

LEMMA OnePlaceIsOneCopy ==
  ASSUME TypeInv, OnePlace
  PROVE  NoMessageTwice
  <1> SUFFICES ASSUME NEW m \in Messages PROVE Copies(m) <= 1
    BY DEF NoMessageTwice
  <1> DEFINE H == {i \in DOMAIN history : history[i].msg = m}
             R == {r \in Messages : hand[r] = m}
             P(q) == {<<q, i>> : i \in {j \in DOMAIN content[q] : content[q][j] = m}}
             Q == UNION {P(q) : q \in Messages}
  <1>1. m # None
    BY NoneAssumption
  <1>2. \A i, j \in H : i = j
    BY DEF OnePlace, HistoryOnce
  <1>3. \A r, x \in R : r = x
    BY <1>1 DEF OnePlace, HandsOnce
  <1>4. \A z \in Q : \E q \in Messages : \E i \in DOMAIN content[q] :
            content[q][i] = m /\ z = <<q, i>>
    OBVIOUS
  <1>5. \A y, z \in Q : y = z
    BY <1>4 DEF OnePlace, QueuesOnce
  <1>6. H # {} => R = {} /\ Q = {}
    BY <1>1, <1>4 DEF OnePlace, HandsOnce, QueuesOnce, InHistory
  <1>7. R # {} => Q = {}
    BY <1>4 DEF OnePlace, QueuesOnce
  <1>8. /\ Cardinality(H) \in {0, 1} /\ (H = {} => Cardinality(H) = 0)
        /\ Cardinality(R) \in {0, 1} /\ (R = {} => Cardinality(R) = 0)
        /\ Cardinality(Q) \in {0, 1} /\ (Q = {} => Cardinality(Q) = 0)
    <2> HIDE DEF H, R, Q
    <2>1. QED
      BY <1>2, <1>3, <1>5, AtMostOne
  <1>9. Cardinality(H) + Cardinality(R) + Cardinality(Q) <= 1
    <2> HIDE DEF H, R, Q
    <2>1. QED
      BY <1>6, <1>7, <1>8
  <1>10. QED
    BY <1>9 DEF Copies

(* However the runs of a session overlap and share a queue, a message is   *)
(* never answered twice: it is in the history once, or in one hand, or on  *)
(* one queue, or nowhere (put_nowait, get_nowait and add_message of the    *)
(* handler and of ReactExecutor).                                          *)
THEOREM MessagesComeOnce == Spec => []NoMessageTwice
  <1>1. Init => TypeInv /\ OnePlace
    BY TypeInvInit, OnePlaceInit
  <1>2. TypeInv /\ OnePlace /\ [Next]_vars => (TypeInv /\ OnePlace)'
    BY TypeInvStep, OnePlaceStep
  <1>3. TypeInv /\ OnePlace => NoMessageTwice
    BY OnePlaceIsOneCopy
  <1>4. QED
    BY <1>1, <1>2, <1>3, PTL DEF Spec

-----------------------------------------------------------------------------
(* How queue objects, sessions and runs are wired, with clients that wait  *)
(* for a dispatch.  A message that has not bound a queue names none yet.   *)
Nameless == {"new"} \cup Dispatching \cup {"starting", "pooled", "building", "binding"}

NamesAreFresh ==
    \A m \in Messages : pc[m] \in Nameless =>
        /\ bound[m] = None
        /\ \A s \in Sessions : queueOf[s] # m
        /\ \A r \in Messages : bound[r] # m

QueuesApart ==
    \A s, t \in Sessions : queueOf[s] # None /\ queueOf[s] = queueOf[t] => s = t

ReadersAreLive ==
    \A s \in Sessions, r \in Messages :
        queueOf[s] # None /\ bound[r] = queueOf[s] => pc[r] \in Live /\ sess[r] = s

BoundOnce == \A r, x \in Messages : bound[r] # None /\ bound[r] = bound[x] => r = x

Wired == NamesAreFresh /\ QueuesApart /\ ReadersAreLive /\ BoundOnce

(* A step that binds no queue keeps the wiring: it may drop the queue of a *)
(* session, end a run whose session has none, or let a message move on.    *)
LEMMA WiredKept ==
  ASSUME TypeInv, Wired, bound' = bound,
         \A s \in Sessions : queueOf'[s] \in {queueOf[s], None},
         \A m \in Messages : pc'[m] \in Nameless => pc[m] \in Nameless,
         \A m \in Messages : pc[m] \in Live =>
             \/ pc'[m] \in Live /\ sess'[m] = sess[m]
             \/ queueOf'[sess[m]] = None
  PROVE  Wired'
  <1>1. NamesAreFresh'
    BY NoneAssumption DEF Wired, NamesAreFresh
  <1>2. QueuesApart'
    BY DEF Wired, QueuesApart
  <1>3. ReadersAreLive'
    BY DEF Wired, ReadersAreLive
  <1>4. BoundOnce'
    BY DEF Wired, BoundOnce
  <1>5. QED
    BY <1>1, <1>2, <1>3, <1>4 DEF Wired

(* Inject names a queue of its session by a message that named none.       *)
LEMMA InjectWired ==
  ASSUME TypeInv, Wired, NEW m \in Messages, NEW s \in Sessions, Inject(m, s)
  PROVE  Wired'
  <1> DEFINE q == QueueFor(s, m)
  <1>1. PICK p \in {"injected", "refused"} : pc' = [pc EXCEPT ![m] = p]
    BY DEF Inject, Goto
  <1>2. /\ pc[m] = "new" /\ bound' = bound /\ queueOf' = [queueOf EXCEPT ![s] = q]
        /\ sess' = [sess EXCEPT ![m] = s]
    BY DEF Inject, Arrives
  <1>3. /\ queueOf \in [Sessions -> Messages \cup {None}] /\ pc \in [Messages -> Phases]
        /\ sess \in [Messages -> Sessions \cup {None}]
    BY DEF TypeInv, TypeOK
  <1>4. "new" \in Nameless /\ "new" \notin Live /\ p \notin Nameless
    BY <1>1 DEF Nameless, Dispatching, Live, Wiring, Looping, Leaving
  <1>5. /\ pc'[m] = p /\ \A x \in Messages \ {m} : pc'[x] = pc[x] /\ sess'[x] = sess[x]
        /\ queueOf'[s] = q /\ \A t \in Sessions \ {s} : queueOf'[t] = queueOf[t]
    BY <1>1, <1>2, <1>3
  <1>6. /\ \A t \in Sessions : queueOf[t] # m
        /\ \A r \in Messages : bound[r] # m
    BY <1>2, <1>4 DEF Wired, NamesAreFresh
  <1>7. q = m \/ (q = queueOf[s] /\ queueOf[s] # None)
    BY DEF QueueFor
  <1>8. NamesAreFresh'
    BY <1>2, <1>4, <1>5, <1>6, <1>7 DEF Wired, NamesAreFresh
  <1>9. QueuesApart'
    BY <1>5, <1>6, <1>7 DEF Wired, QueuesApart
  <1>10. ReadersAreLive'
    BY <1>2, <1>4, <1>5, <1>6, <1>7 DEF Wired, ReadersAreLive
  <1>11. BoundOnce'
    BY <1>2 DEF Wired, BoundOnce
  <1>12. QED
    BY <1>8, <1>9, <1>10, <1>11 DEF Wired

(* A run binds the queue of its session: whoever is bound to it already is *)
(* a run of the session, and the session has only this one.                *)
LEMMA BindWired ==
  ASSUME TypeInv, SerialInv, Wired, NEW m \in Messages, BindQueue(m)
  PROVE  Wired'
  <1> DEFINE s == sess[m]
             q == QueueFor(s, m)
  <1>1. /\ pc[m] = "binding" /\ pc' = [pc EXCEPT ![m] = "registering"]
        /\ queueOf' = [queueOf EXCEPT ![s] = q] /\ bound' = [bound EXCEPT ![m] = q]
        /\ sess' = sess
    BY DEF BindQueue, Goto
  <1>2. /\ queueOf \in [Sessions -> Messages \cup {None}] /\ pc \in [Messages -> Phases]
        /\ bound \in [Messages -> Messages \cup {None}] /\ s \in Sessions
    BY <1>1 DEF TypeInv, TypeOK, SessKnown
  <1>3. "binding" \in Nameless /\ "binding" \in Live /\ "registering" \notin Nameless
        /\ "registering" \in Live
    BY DEF Nameless, Dispatching, Live, Wiring
  <1>4. /\ pc'[m] = "registering" /\ \A x \in Messages \ {m} : pc'[x] = pc[x] /\ bound'[x] = bound[x]
        /\ bound'[m] = q /\ queueOf'[s] = q
        /\ \A t \in Sessions \ {s} : queueOf'[t] = queueOf[t]
    BY <1>1, <1>2
  <1>5. /\ \A t \in Sessions : queueOf[t] # m
        /\ \A r \in Messages : bound[r] # m
        /\ bound[m] = None
    BY <1>1, <1>3 DEF Wired, NamesAreFresh
  <1>6. q = m \/ (q = queueOf[s] /\ queueOf[s] # None)
    BY DEF QueueFor
  <1>7. \A r \in Messages \ {m} : bound[r] # q
    <2>1. ASSUME NEW r \in Messages \ {m}, bound[r] = q, q = queueOf[s], queueOf[s] # None
          PROVE  FALSE
      <3>1. pc[r] \in Live /\ sess[r] = s
        BY <1>2, <2>1 DEF Wired, ReadersAreLive
      <3>2. QED
        BY <1>1, <1>3, <2>1, <3>1 DEF SerialInv, OneActive, Active
    <2>2. QED
      BY <1>5, <1>6, <2>1
  <1>8. NamesAreFresh'
    <2>1. ASSUME NEW x \in Messages, pc'[x] \in Nameless
          PROVE  /\ bound'[x] = None
                 /\ \A t \in Sessions : queueOf'[t] # x
                 /\ \A r \in Messages : bound'[r] # x
      <3> HIDE DEF q
      <3>1. x # m /\ pc[x] \in Nameless
        BY <1>3, <1>4, <2>1
      <3>2. /\ bound[x] = None
            /\ \A t \in Sessions : queueOf[t] # x
            /\ \A r \in Messages : bound[r] # x
        BY <3>1 DEF Wired, NamesAreFresh
      <3>3. q # x
        <4>1. CASE q = m
          BY <3>1, <4>1
        <4>2. CASE q = queueOf[s]
          BY <1>2, <3>2, <4>2
        <4>3. QED
          BY <1>6, <4>1, <4>2
      <3>4. bound'[x] = None /\ \A r \in Messages : bound'[r] # x
        BY <1>4, <3>1, <3>2, <3>3
      <3>5. \A t \in Sessions : queueOf'[t] # x
        BY <1>4, <3>2, <3>3
      <3>6. QED
        BY <3>4, <3>5
    <2>2. QED
      BY <2>1 DEF NamesAreFresh
  <1>9. QueuesApart'
    BY <1>4, <1>5, <1>6 DEF Wired, QueuesApart
  <1>10. ReadersAreLive'
    <2>1. ASSUME NEW t \in Sessions, NEW r \in Messages, queueOf'[t] # None, bound'[r] = queueOf'[t]
          PROVE  pc'[r] \in Live /\ sess'[r] = t
      <3>1. CASE r = m /\ t = s
        BY <1>1, <1>3, <1>4, <3>1
      <3>2. CASE r = m /\ t # s
        BY <1>2, <1>4, <1>5, <1>6, <2>1, <3>2 DEF Wired, QueuesApart
      <3>3. CASE r # m /\ t = s
        BY <1>4, <1>7, <2>1, <3>3
      <3>4. CASE r # m /\ t # s
        BY <1>1, <1>4, <2>1, <3>4 DEF Wired, ReadersAreLive
      <3>5. QED
        BY <3>1, <3>2, <3>3, <3>4
    <2>2. QED
      BY <2>1 DEF ReadersAreLive
  <1>11. BoundOnce'
    BY <1>4, <1>7 DEF Wired, BoundOnce
  <1>12. QED
    BY <1>8, <1>9, <1>10, <1>11 DEF Wired

-----------------------------------------------------------------------------
(* What was put on a queue object was injected, and on one object only;    *)
(* what of it is in the history was added by a run bound to that object,   *)
(* which had emptied it first (EC2).                                       *)
ArrivedWasInjected ==
    \A q \in Messages : \A x \in Range(arrivals[q]) : pc[x] = "injected"

ArrivedOnce ==
    \A q, u \in Messages : \A x \in Range(arrivals[q]) : x \in Range(arrivals[u]) => q = u

DeliveredByReader ==
    \A q \in Messages : \A i \in DOMAIN history :
        history[i].msg \in Range(arrivals[q]) =>
            \E r \in Messages : bound[r] = q /\ pc[r] \notin {"registering", "ready"}

LedgerInv == ArrivedWasInjected /\ ArrivedOnce /\ DeliveredByReader /\ DeliveryLedger

(* InHand as an operator of the bound queues and the hands.                *)
HeldFor(b, h, q) ==
    LET holders == {r \in Messages : b[r] = q /\ h[r] # None}
    IN  IF holders = {} THEN <<>> ELSE <<h[CHOOSE r \in holders : TRUE]>>

LEMMA InHandIsHeld ==
  ASSUME NEW q
  PROVE  InHand(q) = HeldFor(bound, hand, q) /\ InHand(q)' = HeldFor(bound', hand', q)
  BY DEF InHand, HeldFor

LEMMA HeldNone ==
  ASSUME NEW b, NEW h, NEW q, \A r \in Messages : b[r] = q => h[r] = None
  PROVE  HeldFor(b, h, q) = <<>>
  BY DEF HeldFor

LEMMA HeldOne ==
  ASSUME NEW b, NEW h, NEW q, NEW m \in Messages, b[m] = q, h[m] # None,
         \A r \in Messages : b[r] = q => r = m
  PROVE  HeldFor(b, h, q) = <<h[m]>>
  <1>1. {r \in Messages : b[r] = q /\ h[r] # None} = {m}
    OBVIOUS
  <1>2. (CHOOSE r \in {m} : TRUE) = m
    OBVIOUS
  <1>3. QED
    BY <1>1, <1>2 DEF HeldFor

LEMMA HeldSame ==
  ASSUME NEW b, NEW h, NEW c, NEW g, NEW q,
         \A r \in Messages : (b[r] = q /\ h[r] # None) <=> (c[r] = q /\ g[r] # None),
         \A r \in Messages : b[r] = q => h[r] = g[r]
  PROVE  HeldFor(b, h, q) = HeldFor(c, g, q)
  <1> DEFINE A == {r \in Messages : b[r] = q /\ h[r] # None}
             B == {r \in Messages : c[r] = q /\ g[r] # None}
  <1>1. A = B
    OBVIOUS
  <1>2. A # {} => h[CHOOSE r \in A : TRUE] = g[CHOOSE r \in A : TRUE]
    OBVIOUS
  <1>3. HeldFor(b, h, q) = (IF A = {} THEN <<>> ELSE <<h[CHOOSE r \in A : TRUE]>>)
        /\ HeldFor(c, g, q) = (IF B = {} THEN <<>> ELSE <<g[CHOOSE r \in B : TRUE]>>)
    BY DEF HeldFor
  <1> HIDE DEF A, B
  <1>4. QED
    BY <1>1, <1>2, <1>3

LEMMA LedgerTypes ==
  ASSUME TypeInv
  PROVE  /\ HistoryMessages \in Seq(Messages) /\ DOMAIN HistoryMessages = DOMAIN history
         /\ \A i \in DOMAIN history : HistoryMessages[i] = history[i].msg
         /\ arrivals \in [Messages -> Seq(Messages)] /\ content \in [Messages -> Seq(Messages)]
         /\ cleared \in [Messages -> Seq(Messages)]
         /\ \A q \in Messages : /\ arrivals[q] \in Seq(Messages) /\ cleared[q] \in Seq(Messages)
                                /\ content[q] \in Seq(Messages) /\ Delivered(q) \in Seq(Messages)
                                /\ InHand(q) \in Seq(Messages)
  <1>1. /\ history \in Seq(Entry) /\ arrivals \in [Messages -> Seq(Messages)]
        /\ cleared \in [Messages -> Seq(Messages)] /\ content \in [Messages -> Seq(Messages)]
        /\ hand \in [Messages -> Messages \cup {None}]
    BY DEF TypeInv, TypeOK
  <1>2. HistoryMessages \in Seq(Messages) /\ DOMAIN HistoryMessages = DOMAIN history
        /\ \A i \in DOMAIN history : HistoryMessages[i] = history[i].msg
    <2>1. /\ DOMAIN history = 1 .. Len(history) /\ Len(history) \in Nat
          /\ \A i \in DOMAIN history : history[i].msg \in Messages
      BY <1>1, KnownMessages
    <2>2. HistoryMessages = [i \in 1 .. Len(history) |-> history[i].msg]
      BY <2>1 DEF HistoryMessages
    <2>3. \A i \in 1 .. Len(history) : history[i].msg \in Messages
      BY <2>1
    <2>4. HistoryMessages \in Seq(Messages)
      BY <2>1, <2>2, <2>3
    <2>5. QED
      BY <2>1, <2>2, <2>4
  <1>3. ASSUME NEW q \in Messages PROVE Delivered(q) \in Seq(Messages) /\ InHand(q) \in Seq(Messages)
    <2>1. Delivered(q) \in Seq(Messages)
      BY <1>2, KeepingType DEF Delivered
    <2>2. InHand(q) \in Seq(Messages)
      <3> DEFINE holders == {r \in Messages : bound[r] = q /\ hand[r] # None}
      <3>1. CASE holders = {}
        BY <3>1 DEF InHand
      <3>2. CASE holders # {}
        <4>1. (CHOOSE r \in holders : TRUE) \in holders
          BY <3>2
        <4>2. hand[CHOOSE r \in holders : TRUE] \in Messages
          BY <1>1, <4>1
        <4>3. InHand(q) = <<hand[CHOOSE r \in holders : TRUE]>>
          BY <3>2 DEF InHand
        <4> HIDE DEF holders
        <4>4. QED
          BY <4>2, <4>3
      <3>3. QED
        BY <3>1, <3>2
    <2>3. QED
      BY <2>1, <2>2
  <1>4. QED
    BY <1>1, <1>2, <1>3

(* What arrived is a message.                                              *)
LEMMA ArrivedKnown ==
  ASSUME TypeInv, NEW q \in Messages
  PROVE  Range(arrivals[q]) \subseteq Messages
  <1>1. arrivals[q] \in Seq(Messages)
    BY LedgerTypes
  <1>2. \A w \in Seq(Messages) : \A i \in DOMAIN w : w[i] \in Messages
    OBVIOUS
  <1>3. QED
    BY <1>1, <1>2 DEF Range

(* A step that moves no message, empties no queue and binds no run.        *)
LEMMA LedgerKept ==
  ASSUME TypeInv, LedgerInv, UNCHANGED <<bound, hand, content, history, arrivals, cleared>>,
         \A m \in Messages : /\ pc[m] = "injected" => pc'[m] = "injected"
                             /\ pc'[m] \in {"registering", "ready"} =>
                                   pc[m] \in {"registering", "ready"}
  PROVE  LedgerInv'
  <1>1. ArrivedWasInjected'
    BY ArrivedKnown DEF LedgerInv, ArrivedWasInjected
  <1>2. ArrivedOnce'
    BY DEF LedgerInv, ArrivedOnce
  <1>3. DeliveredByReader'
    BY DEF LedgerInv, DeliveredByReader
  <1>4. DeliveryLedger'
    <2>1. \A q : Delivered(q)' = Delivered(q) /\ InHand(q)' = InHand(q)
      BY DEF Delivered, HistoryMessages, InHand
    <2>2. QED
      BY <2>1 DEF LedgerInv, DeliveryLedger
  <1>5. QED
    BY <1>1, <1>2, <1>3, <1>4 DEF LedgerInv

LEMMA HistoryGrows ==
  ASSUME TypeInv, NEW m \in Messages, NEW s \in Sessions \cup {None},
         history' = Append(history, [msg |-> m, to |-> s])
  PROVE  /\ HistoryMessages' = Append(HistoryMessages, m)
         /\ \A i \in DOMAIN history' :
                \/ i \in DOMAIN history /\ history'[i] = history[i]
                \/ i = Len(history) + 1 /\ history'[i].msg = m
  <1>1. [msg |-> m, to |-> s] \in Entry /\ [msg |-> m, to |-> s].msg = m /\ history \in Seq(Entry)
    BY KnownMessages DEF Entry
  <1>2. /\ DOMAIN history' = 1 .. Len(history) + 1 /\ DOMAIN history = 1 .. Len(history)
        /\ Len(history) \in Nat /\ history'[Len(history) + 1].msg = m
        /\ \A i \in 1 .. Len(history) : history'[i] = history[i]
    BY <1>1
  <1>3. HistoryMessages' = [i \in 1 .. Len(history) + 1 |-> history'[i].msg]
    BY <1>2 DEF HistoryMessages
  <1>4. /\ HistoryMessages \in Seq(Messages) /\ DOMAIN HistoryMessages = 1 .. Len(history)
        /\ \A i \in 1 .. Len(history) : HistoryMessages[i] = history[i].msg
    BY <1>2, LedgerTypes
  <1>5. Append(HistoryMessages, m) = [i \in 1 .. Len(history) + 1 |->
             IF i = Len(history) + 1 THEN m ELSE HistoryMessages[i]]
    <2>1. Len(HistoryMessages) = Len(history)
      BY <1>2, <1>4
    <2> DEFINE A == Append(HistoryMessages, m)
    <2>2. /\ A = [i \in DOMAIN A |-> A[i]] /\ DOMAIN A = 1 .. Len(history) + 1
          /\ A[Len(history) + 1] = m /\ \A i \in 1 .. Len(history) : A[i] = HistoryMessages[i]
      <3>1. ASSUME NEW w \in Seq(Messages), NEW n \in Nat, Len(w) = n
            PROVE  /\ Append(w, m) \in Seq(Messages) /\ DOMAIN Append(w, m) = 1 .. n + 1
                   /\ Append(w, m)[n + 1] = m
                   /\ \A i \in 1 .. n : Append(w, m)[i] = w[i]
        BY <3>1
      <3>2. \A w \in Seq(Messages) : w = [i \in DOMAIN w |-> w[i]]
        OBVIOUS
      <3>3. QED
        BY <1>2, <1>4, <2>1, <3>1, <3>2, Zenon
    <2> HIDE DEF A
    <2>3. \A i \in 1 .. Len(history) + 1 :
              A[i] = IF i = Len(history) + 1 THEN m ELSE HistoryMessages[i]
      BY <1>2, <2>2
    <2>4. A = [i \in 1 .. Len(history) + 1 |->
                  IF i = Len(history) + 1 THEN m ELSE HistoryMessages[i]]
      BY <2>2, <2>3
    <2>5. QED
      BY <2>4 DEF A
  <1>6. \A i \in 1 .. Len(history) + 1 :
            history'[i].msg = IF i = Len(history) + 1 THEN m ELSE HistoryMessages[i]
    BY <1>2, <1>4
  <1>7. QED
    BY <1>2, <1>3, <1>5, <1>6

(* Inject puts the message at the end of the queue and of the arrivals.    *)
LEMMA InjectLedger ==
  ASSUME TypeInv, OnePlace, LedgerInv, NEW m \in Messages, NEW s \in Sessions, Inject(m, s)
  PROVE  LedgerInv'
  <1> DEFINE q == QueueFor(s, m)
  <1>1. q \in Messages
    BY NoneAssumption DEF QueueFor, TypeInv, TypeOK
  <1>2. pc[m] = "new" /\ UNCHANGED <<bound, hand, history, cleared>> /\ pc \in [Messages -> Phases]
    BY DEF Inject, Arrives, loopVars, TypeInv, TypeOK
  <1>3. CASE pc' = [pc EXCEPT ![m] = "refused"] /\ UNCHANGED <<content, arrivals>>
    BY <1>2, <1>3, LedgerKept
  <1>4. CASE /\ pc' = [pc EXCEPT ![m] = "injected"]
             /\ content' = [content EXCEPT ![q] = Append(@, m)]
             /\ arrivals' = [arrivals EXCEPT ![q] = Append(@, m)]
    <2> HIDE DEF q
    <2>1. /\ pc'[m] = "injected" /\ \A x \in Messages \ {m} : pc'[x] = pc[x]
          /\ content'[q] = Append(content[q], m) /\ arrivals'[q] = Append(arrivals[q], m)
          /\ \A u \in Messages \ {q} : content'[u] = content[u] /\ arrivals'[u] = arrivals[u]
      BY <1>1, <1>2, <1>4, LedgerTypes
    <2>2. Range(arrivals'[q]) = Range(arrivals[q]) \cup {m}
      <3>1. \A w \in Seq(Messages) : Range(Append(w, m)) = Range(w) \cup {m}
        <4>1. ASSUME NEW w \in Seq(Messages) PROVE Range(Append(w, m)) = Range(w) \cup {m}
          <5>1. \A y : y \in Range(Append(w, m)) => y \in Range(w) \/ y = m
            BY AtTheEnd DEF Range
          <5>2. \A y : y \in Range(w) \/ y = m => y \in Range(Append(w, m))
            BY AtTheEnd DEF Range
          <5>3. QED
            BY <5>1, <5>2
        <4>2. QED
          BY <4>1
      <3>2. QED
        BY <1>1, <2>1, <3>1, LedgerTypes
    <2>3. \A u \in Messages : m \notin Range(arrivals[u])
      BY <1>2 DEF LedgerInv, ArrivedWasInjected
    <2>4. \A i \in DOMAIN history : history[i].msg # m
      BY <1>2, NewIsNowhere DEF InHistory
    <2>5. ArrivedWasInjected'
      <3>1. ASSUME NEW u \in Messages, NEW x \in Range(arrivals'[u]) PROVE pc'[x] = "injected"
        <4>1. x = m \/ x \in Range(arrivals[u])
          BY <2>1, <2>2, <3>1
        <4>2. x \in Range(arrivals[u]) => x \in Messages /\ pc[x] = "injected"
          BY ArrivedKnown DEF LedgerInv, ArrivedWasInjected
        <4>3. QED
          BY <2>1, <4>1, <4>2
      <3>2. QED
        BY <3>1 DEF ArrivedWasInjected
    <2>6. ArrivedOnce'
      <3>1. ASSUME NEW u \in Messages, NEW v \in Messages, NEW x \in Range(arrivals'[u]),
                   x \in Range(arrivals'[v])
            PROVE  u = v
        <4>1. /\ x \in Range(arrivals[u]) \/ (u = q /\ x = m)
              /\ x \in Range(arrivals[v]) \/ (v = q /\ x = m)
          BY <2>1, <2>2, <3>1
        <4>2. QED
          BY <2>3, <4>1 DEF LedgerInv, ArrivedOnce
      <3>2. QED
        BY <3>1 DEF ArrivedOnce
    <2>7. DeliveredByReader'
      <3>1. ASSUME NEW u \in Messages, NEW i \in DOMAIN history,
                   history[i].msg \in Range(arrivals'[u])
            PROVE  \E r \in Messages : bound[r] = u /\ pc'[r] \notin {"registering", "ready"}
        <4>1. history[i].msg \in Range(arrivals[u])
          BY <2>1, <2>2, <2>4, <3>1
        <4>2. PICK r \in Messages : bound[r] = u /\ pc[r] \notin {"registering", "ready"}
          BY <4>1 DEF LedgerInv, DeliveredByReader
        <4>3. QED
          BY <2>1, <4>2
      <3>2. QED
        BY <1>2, <3>1 DEF DeliveredByReader
    <2>8. \A u \in Messages : InHand(u)' = InHand(u)
      BY <1>2 DEF InHand
    <2>9. HistoryMessages' = HistoryMessages
      BY <1>2 DEF HistoryMessages
    <2>10. \A u \in Messages : Delivered(u)' = Delivered(u)
      <3>1. \A u \in Messages \ {q} : Delivered(u)' = Delivered(u)
        BY <2>1, <2>9 DEF Delivered
      <3>2. \A i \in DOMAIN HistoryMessages :
               HistoryMessages[i] \in Range(arrivals[q]) <=> HistoryMessages[i] \in Range(arrivals'[q])
        BY <2>2, <2>4, LedgerTypes
      <3>3. Keeping(HistoryMessages, Range(arrivals[q])) = Keeping(HistoryMessages, Range(arrivals'[q]))
        <4> DEFINE R == Range(arrivals[q])
                   Q == Range(arrivals'[q])
                   H == HistoryMessages
        <4>1. H \in Seq(Messages) /\ \A i \in DOMAIN H : H[i] \in R <=> H[i] \in Q
          BY <3>2, LedgerTypes
        <4> HIDE DEF R, Q, H
        <4>2. Keeping(H, R) = Keeping(H, Q)
          BY <4>1, KeepingSame
        <4>3. QED
          BY <4>2 DEF R, Q, H
      <3>4. QED
        BY <2>9, <3>1, <3>3 DEF Delivered
    <2>11. ASSUME NEW u \in Messages
           PROVE  arrivals'[u] = cleared[u] \o Delivered(u) \o InHand(u) \o content'[u]
      <3>1. arrivals[u] = cleared[u] \o Delivered(u) \o InHand(u) \o content[u]
        BY DEF LedgerInv, DeliveryLedger
      <3>2. CASE u # q
        BY <2>1, <3>1, <3>2
      <3>3. CASE u = q
        <4> DEFINE a == cleared[u]
                   b == Delivered(u)
                   c == InHand(u)
                   d == content[u]
        <4>1. a \in Seq(Messages) /\ b \in Seq(Messages) /\ c \in Seq(Messages) /\ d \in Seq(Messages)
          BY LedgerTypes
        <4>2. content'[u] = Append(d, m) /\ arrivals'[u] = Append(a \o b \o c \o d, m)
          BY <2>1, <3>1, <3>3
        <4> HIDE DEF a, b, c, d
        <4> DEFINE e == a \o b \o c
        <4>3. e \in Seq(Messages)
          BY <4>1
        <4> HIDE DEF e
        <4>4. Append(e \o d, m) = e \o Append(d, m)
          <5>1. PICK v \in Seq(Messages), w \in Seq(Messages) : v = e /\ w = d
            BY <4>1, <4>3
          <5>2. Append(v \o w, m) = v \o Append(w, m)
            OBVIOUS
          <5>3. QED
            BY <5>1, <5>2, Zenon
        <4>5. QED
          BY <4>2, <4>4 DEF a, b, c, d, e
      <3>4. QED
        BY <3>2, <3>3
    <2>12. DeliveryLedger'
      BY <1>2, <2>8, <2>10, <2>11 DEF DeliveryLedger
    <2>13. QED
      BY <2>5, <2>6, <2>7, <2>12 DEF LedgerInv
  <1>5. QED
    BY <1>3, <1>4 DEF Inject, Goto

(* A query that starts a run is in the history and arrived on no queue.    *)
LEMMA LoadLedger ==
  ASSUME TypeInv, OnePlace, LedgerInv, NEW m \in Messages, LoadSession(m)
  PROVE  LedgerInv'
  <1>1. /\ pc[m] = "loading" /\ pc' = [pc EXCEPT ![m] = "saving"]
        /\ history' = Append(history, [msg |-> m, to |-> sess[m]])
        /\ UNCHANGED <<bound, hand, content, arrivals, cleared>>
        /\ pc \in [Messages -> Phases] /\ sess[m] \in Sessions
    BY DEF LoadSession, Goto, Added, loopVars, ghostVars, TypeInv, TypeOK, SessKnown
  <1>2. pc'[m] = "saving" /\ \A x \in Messages \ {m} : pc'[x] = pc[x]
    BY <1>1
  <1>3. \A u \in Messages : m \notin Range(arrivals[u])
    BY <1>1 DEF LedgerInv, ArrivedWasInjected
  <1>4. /\ HistoryMessages' = Append(HistoryMessages, m)
        /\ \A i \in DOMAIN history' :
                \/ i \in DOMAIN history /\ history'[i] = history[i]
                \/ i = Len(history) + 1 /\ history'[i].msg = m
    BY <1>1, HistoryGrows
  <1>5. ArrivedWasInjected'
    BY <1>1, <1>2, <1>3, ArrivedKnown DEF LedgerInv, ArrivedWasInjected
  <1>6. ArrivedOnce'
    BY <1>1 DEF LedgerInv, ArrivedOnce
  <1>7. DeliveredByReader'
    <2>1. ASSUME NEW u \in Messages, NEW i \in DOMAIN history',
                 history'[i].msg \in Range(arrivals[u])
          PROVE  \E r \in Messages : bound[r] = u /\ pc'[r] \notin {"registering", "ready"}
      <3>1. i \in DOMAIN history /\ history'[i] = history[i]
        BY <1>3, <1>4, <2>1
      <3>2. PICK r \in Messages : bound[r] = u /\ pc[r] \notin {"registering", "ready"}
        BY <2>1, <3>1 DEF LedgerInv, DeliveredByReader
      <3>3. QED
        BY <1>2, <3>2
    <2>2. QED
      BY <1>1, <2>1 DEF DeliveredByReader
  <1>8. DeliveryLedger'
    <2>1. \A u \in Messages : InHand(u)' = InHand(u)
      BY <1>1 DEF InHand
    <2>2. ASSUME NEW u \in Messages PROVE Delivered(u)' = Delivered(u)
      <3>1. Keeping(Append(HistoryMessages, m), Range(arrivals[u])) = Keeping(HistoryMessages, Range(arrivals[u]))
        BY <1>3, LedgerTypes, KeepingAppend
      <3>2. QED
        BY <1>1, <1>4, <3>1 DEF Delivered
    <2>3. QED
      BY <1>1, <2>1, <2>2 DEF LedgerInv, DeliveryLedger
  <1>9. QED
    BY <1>5, <1>6, <1>7, <1>8 DEF LedgerInv

(* A run that binds a queue holds nothing yet.                             *)
LEMMA BindLedger ==
  ASSUME TypeInv, Wired, LedgerInv, NEW m \in Messages, BindQueue(m)
  PROVE  LedgerInv'
  <1>1. /\ pc[m] = "binding" /\ pc' = [pc EXCEPT ![m] = "registering"]
        /\ bound' = [bound EXCEPT ![m] = QueueFor(sess[m], m)]
        /\ UNCHANGED <<hand, content, history, arrivals, cleared>>
        /\ pc \in [Messages -> Phases] /\ bound \in [Messages -> Messages \cup {None}]
    BY DEF BindQueue, Goto, loopVars, ghostVars, TypeInv, TypeOK
  <1>2. /\ pc'[m] = "registering"
        /\ \A x \in Messages \ {m} : pc'[x] = pc[x] /\ bound'[x] = bound[x]
    BY <1>1
  <1>3. hand[m] = None
    BY <1>1 DEF TypeInv, HandPhase, Draining
  <1>4. bound[m] = None
    BY <1>1 DEF Wired, NamesAreFresh, Nameless
  <1>5. ArrivedWasInjected'
    BY <1>1, <1>2, ArrivedKnown DEF LedgerInv, ArrivedWasInjected
  <1>6. ArrivedOnce'
    BY <1>1 DEF LedgerInv, ArrivedOnce
  <1>7. DeliveredByReader'
    <2>1. ASSUME NEW u \in Messages, NEW i \in DOMAIN history,
                 history[i].msg \in Range(arrivals[u])
          PROVE  \E r \in Messages : bound'[r] = u /\ pc'[r] \notin {"registering", "ready"}
      <3>1. PICK r \in Messages : bound[r] = u /\ pc[r] \notin {"registering", "ready"}
        BY <2>1 DEF LedgerInv, DeliveredByReader
      <3>2. r # m
        BY <1>4, <3>1, NoneAssumption
      <3>3. QED
        BY <1>2, <3>1, <3>2
    <2>2. QED
      BY <1>1, <2>1 DEF DeliveredByReader
  <1>8. DeliveryLedger'
    <2>1. ASSUME NEW u \in Messages PROVE InHand(u)' = InHand(u)
      <3>1. \A r \in Messages : (bound[r] = u /\ hand[r] # None) <=> (bound'[r] = u /\ hand'[r] # None)
        BY <1>1, <1>2, <1>3
      <3>2. \A r \in Messages : bound[r] = u => hand[r] = hand'[r]
        BY <1>1
      <3>3. HeldFor(bound, hand, u) = HeldFor(bound', hand', u)
        BY <3>1, <3>2, HeldSame
      <3>4. QED
        BY <3>3, InHandIsHeld
    <2>2. \A u \in Messages : Delivered(u)' = Delivered(u)
      BY <1>1 DEF Delivered, HistoryMessages
    <2>3. QED
      BY <1>1, <2>1, <2>2 DEF LedgerInv, DeliveryLedger
  <1>9. QED
    BY <1>5, <1>6, <1>7, <1>8 DEF LedgerInv

(* A run that starts throws away all that arrived: none of it is in the    *)
(* history or in a hand, for nobody else has read the queue.               *)
LEMMA BeginLedger ==
  ASSUME TypeInv, Wired, LedgerInv, NEW m \in Messages, BeginLoop(m)
  PROVE  LedgerInv'
  <1> DEFINE q == bound[m]
  <1>1. /\ pc[m] = "ready" /\ pc' = [pc EXCEPT ![m] = "entering"]
        /\ content' = [content EXCEPT ![q] = <<>>]
        /\ cleared' = [cleared EXCEPT ![q] = cleared[q] \o content[q]]
        /\ UNCHANGED <<bound, hand, history, arrivals>> /\ pc \in [Messages -> Phases]
    BY DEF BeginLoop, Goto, loopVars, TypeInv, TypeOK
  <1>2. pc'[m] = "entering" /\ \A x \in Messages \ {m} : pc'[x] = pc[x]
    BY <1>1
  <1>3. q \in Messages /\ q # None
    BY <1>1, NoneAssumption DEF TypeInv, BoundKnown, Bound
  <1>4. /\ content'[q] = <<>> /\ cleared'[q] = cleared[q] \o content[q]
        /\ \A u \in Messages \ {q} : content'[u] = content[u] /\ cleared'[u] = cleared[u]
    BY <1>1, <1>3, LedgerTypes
  <1>5. hand[m] = None
    BY <1>1 DEF TypeInv, HandPhase, Draining
  <1>6. \A r \in Messages : bound[r] = q => r = m
    BY <1>3 DEF Wired, BoundOnce
  <1>7. ArrivedWasInjected'
    BY <1>1, <1>2, ArrivedKnown DEF LedgerInv, ArrivedWasInjected
  <1>8. ArrivedOnce'
    BY <1>1 DEF LedgerInv, ArrivedOnce
  <1>9. DeliveredByReader'
    BY <1>1, <1>2 DEF LedgerInv, DeliveredByReader
  <1>10. InHand(q) = <<>>
    <2>1. HeldFor(bound, hand, q) = <<>>
      BY <1>5, <1>6, HeldNone
    <2>2. QED
      BY <2>1, InHandIsHeld
  <1>11. Delivered(q) = <<>>
    <2>1. \A i \in DOMAIN history : history[i].msg \notin Range(arrivals[q])
      BY <1>1, <1>3, <1>6 DEF LedgerInv, DeliveredByReader
    <2>2. HistoryMessages \in Seq(Messages)
          /\ \A i \in DOMAIN HistoryMessages : HistoryMessages[i] \notin Range(arrivals[q])
      BY <2>1, LedgerTypes
    <2>3. Keeping(HistoryMessages, Range(arrivals[q])) = <<>>
      BY <2>2, KeepingNone
    <2>4. QED
      BY <2>3 DEF Delivered
  <1>12. \A u : Delivered(u)' = Delivered(u) /\ InHand(u)' = InHand(u)
    BY <1>1 DEF Delivered, HistoryMessages, InHand
  <1>13. ASSUME NEW u \in Messages
         PROVE  arrivals'[u] = cleared'[u] \o Delivered(u) \o InHand(u) \o content'[u]
    <2>1. arrivals'[u] = cleared[u] \o Delivered(u) \o InHand(u) \o content[u]
      BY <1>1 DEF LedgerInv, DeliveryLedger
    <2>2. CASE u # q
      BY <1>4, <2>1, <2>2
    <2>3. CASE u = q
      <3>1. PICK a \in Seq(Messages), d \in Seq(Messages) : a = cleared[q] /\ d = content[q]
        BY <1>3, LedgerTypes
      <3>2. a \o <<>> \o <<>> \o d = (a \o d) \o <<>> \o <<>> \o <<>>
        OBVIOUS
      <3>3. arrivals'[u] = a \o <<>> \o <<>> \o d
        BY <1>10, <1>11, <2>1, <2>3, <3>1, Zenon
      <3>4. cleared'[u] = a \o d /\ content'[u] = <<>>
        BY <1>4, <2>3, <3>1, Zenon
      <3>5. QED
        BY <1>10, <1>11, <2>3, <3>2, <3>3, <3>4, Zenon
    <2>4. QED
      BY <2>2, <2>3
  <1>14. DeliveryLedger'
    BY <1>12, <1>13 DEF DeliveryLedger
  <1>15. QED
    BY <1>7, <1>8, <1>9, <1>14 DEF LedgerInv

(* The message that is taken is the first that waits.                      *)
LEMMA TakeLedger ==
  ASSUME TypeInv, Wired, LedgerInv, NEW m \in Messages, Take(m)
  PROVE  LedgerInv'
  <1>0. PICK q \in Messages : q = bound[m] /\ q # None
    <2>1. pc[m] \in Draining
      BY DEF Take, Draining
    <2>2. QED
      BY <2>1, NoneAssumption DEF TypeInv, BoundKnown, Bound, Draining, Looping
  <1>1. /\ pc[m] \in Draining /\ hand[m] = None /\ content[q] # <<>>
        /\ hand' = [hand EXCEPT ![m] = Head(content[q])]
        /\ content' = [content EXCEPT ![q] = Tail(content[q])]
        /\ UNCHANGED <<pc, bound, history, arrivals, cleared>>
        /\ hand \in [Messages -> Messages \cup {None}]
    BY <1>0 DEF Take, Draining, dispatchVars, ghostVars, TypeInv, TypeOK
  <1>3. /\ hand'[m] = Head(content[q]) /\ \A r \in Messages \ {m} : hand'[r] = hand[r]
        /\ content'[q] = Tail(content[q])
        /\ \A u \in Messages \ {q} : content'[u] = content[u]
    BY <1>1, <1>0, LedgerTypes
  <1>4. \A r \in Messages : bound[r] = q => r = m
    BY <1>0 DEF Wired, BoundOnce
  <1>5. Head(content[q]) # None
    <2>1. \A w \in Seq(Messages) : w # <<>> => Head(w) \in Messages
      OBVIOUS
    <2>2. Head(content[q]) \in Messages
      BY <1>1, <1>0, <2>1, LedgerTypes
    <2>3. QED
      BY <2>2, NoneAssumption
  <1>6. ArrivedWasInjected'
    BY <1>1 DEF LedgerInv, ArrivedWasInjected
  <1>7. ArrivedOnce'
    BY <1>1 DEF LedgerInv, ArrivedOnce
  <1>8. DeliveredByReader'
    BY <1>1 DEF LedgerInv, DeliveredByReader
  <1>9. \A u : Delivered(u)' = Delivered(u)
    BY <1>1 DEF Delivered, HistoryMessages
  <1>10. InHand(q) = <<>> /\ InHand(q)' = <<Head(content[q])>>
    <2>1. HeldFor(bound, hand, q) = <<>>
      BY <1>1, <1>4, HeldNone
    <2>2. HeldFor(bound', hand', q) = <<hand'[m]>>
      <3>1. bound'[m] = q /\ hand'[m] # None /\ \A r \in Messages : bound'[r] = q => r = m
        BY <1>0, <1>1, <1>3, <1>4, <1>5
      <3>2. QED
        BY <3>1, HeldOne
    <2>3. QED
      BY <1>3, <2>1, <2>2, InHandIsHeld
  <1>11. ASSUME NEW u \in Messages, u # q PROVE InHand(u)' = InHand(u)
    <2>1. \A r \in Messages : (bound[r] = u /\ hand[r] # None) <=> (bound'[r] = u /\ hand'[r] # None)
      BY <1>0, <1>1, <1>3, <1>11
    <2>2. \A r \in Messages : bound[r] = u => hand[r] = hand'[r]
      BY <1>0, <1>3, <1>11
    <2>3. HeldFor(bound, hand, u) = HeldFor(bound', hand', u)
      BY <2>1, <2>2, HeldSame
    <2>4. QED
      BY <2>3, InHandIsHeld
  <1>12. ASSUME NEW u \in Messages
         PROVE  arrivals'[u] = cleared[u] \o Delivered(u) \o InHand(u)' \o content'[u]
    <2>1. arrivals'[u] = cleared[u] \o Delivered(u) \o InHand(u) \o content[u]
      BY <1>1 DEF LedgerInv, DeliveryLedger
    <2>2. CASE u # q
      BY <1>3, <1>11, <2>1, <2>2
    <2>3. CASE u = q
      <3>1. PICK a \in Seq(Messages), b \in Seq(Messages), d \in Seq(Messages) :
                a = cleared[q] /\ b = Delivered(q) /\ d = content[q]
        BY <1>0, LedgerTypes
      <3>2. d # <<>>
        BY <1>1, <3>1
      <3>3. a \o b \o <<>> \o d = a \o b \o <<Head(d)>> \o Tail(d)
        BY <3>2
      <3>4. arrivals'[u] = a \o b \o <<>> \o d
        BY <1>10, <2>1, <2>3, <3>1, Zenon
      <3>5. InHand(u)' = <<Head(d)>> /\ content'[u] = Tail(d)
        BY <1>3, <1>10, <2>3, <3>1, Zenon
      <3>6. QED
        BY <2>3, <3>1, <3>3, <3>4, <3>5, Zenon
    <2>4. QED
      BY <2>2, <2>3
  <1>13. DeliveryLedger'
    BY <1>1, <1>9, <1>12 DEF DeliveryLedger
  <1>14. QED
    BY <1>6, <1>7, <1>8, <1>13 DEF LedgerInv

(* The message in hand goes to the end of what was delivered.              *)
LEMMA AddLedger ==
  ASSUME TypeInv, Wired, LedgerInv, NEW m \in Messages,
         AddTaken(m) \/ AddFails(m)
  PROVE  LedgerInv'
  <1>0. PICK q \in Messages, x \in Messages : q = bound[m] /\ q # None /\ x = hand[m] /\ x # None
    <2>1. hand[m] # None /\ pc[m] \in Draining
      BY DEF AddTaken, AddFails, TypeInv, HandPhase
    <2>2. hand[m] \in Messages /\ bound[m] \in Messages
      BY <2>1 DEF TypeInv, TypeOK, BoundKnown, Bound, Draining, Looping
    <2>3. QED
      BY <2>1, <2>2, NoneAssumption
  <1>1. /\ x # None /\ hand' = [hand EXCEPT ![m] = None]
        /\ UNCHANGED <<bound, content, arrivals, cleared>>
        /\ hand \in [Messages -> Messages \cup {None}]
    BY <1>0 DEF AddTaken, AddFails, ghostVars, TypeInv, TypeOK
  <1>2. pc[m] \in Draining
    BY <1>0 DEF TypeInv, HandPhase
  <1>3. pc'[m] \in Draining \cup {"returned", "leaving"}
        /\ \A r \in Messages \ {m} : pc'[r] = pc[r]
    BY <1>2 DEF AddTaken, AddFails, Goto, dispatchVars, TypeInv, TypeOK
  <1>4. PICK s \in Sessions \cup {None} : history' = Append(history, [msg |-> x, to |-> s])
    <2>1. current \in Sessions
      BY <1>2 DEF TypeInv, CurrentKnown, Draining, Loaded, Live, Looping, Leaving
    <2>2. QED
      BY <1>0, <2>1 DEF AddTaken, AddFails, Added
  <1>5. hand'[m] = None /\ \A r \in Messages \ {m} : hand'[r] = hand[r]
    BY <1>1
  <1>6. \A r \in Messages : bound[r] = q => r = m
    BY <1>0 DEF Wired, BoundOnce
  <1>7. InHand(q) = <<x>> /\ InHand(q)' = <<>>
    <2>1. HeldFor(bound, hand, q) = <<hand[m]>>
      BY <1>0, <1>6, HeldOne
    <2>2. HeldFor(bound', hand', q) = <<>>
      <3>1. \A r \in Messages : bound'[r] = q => hand'[r] = None
        BY <1>1, <1>5, <1>6
      <3>2. QED
        BY <3>1, HeldNone
    <2>3. QED
      BY <1>0, <2>1, <2>2, InHandIsHeld, Zenon
  <1>8. x \in Range(arrivals[q])
    <2>1. arrivals[q] = cleared[q] \o Delivered(q) \o InHand(q) \o content[q]
      BY <1>0 DEF LedgerInv, DeliveryLedger
    <2>2. PICK a \in Seq(Messages), d \in Seq(Messages) :
              a = cleared[q] \o Delivered(q) /\ d = content[q]
      <3>1. PICK b \in Seq(Messages), c \in Seq(Messages) : b = cleared[q] /\ c = Delivered(q)
        BY <1>0, LedgerTypes
      <3>2. b \o c \in Seq(Messages) /\ content[q] \in Seq(Messages)
        BY <1>0, LedgerTypes
      <3>3. QED
        BY <3>1, <3>2, Zenon
    <2>3. arrivals[q] = a \o <<x>> \o d
      BY <1>7, <2>1, <2>2, Zenon
    <2>4. Len(a) + 1 \in DOMAIN (a \o <<x>> \o d) /\ (a \o <<x>> \o d)[Len(a) + 1] = x
      OBVIOUS
    <2>5. Len(a) + 1 \in DOMAIN arrivals[q] /\ arrivals[q][Len(a) + 1] = x
      BY <2>3, <2>4, Zenon
    <2>6. QED
      BY <2>5 DEF Range
  <1>9. /\ HistoryMessages' = Append(HistoryMessages, x)
        /\ \A i \in DOMAIN history' :
               \/ i \in DOMAIN history /\ history'[i] = history[i]
               \/ i = Len(history) + 1 /\ history'[i].msg = x
    BY <1>4, HistoryGrows
  <1>10. \A u \in Messages \ {q} : x \notin Range(arrivals[u])
    BY <1>0, <1>8 DEF LedgerInv, ArrivedOnce
  <1>11. ASSUME NEW u \in Messages
         PROVE  Delivered(u)' = IF u = q THEN Append(Delivered(u), x) ELSE Delivered(u)
    <2>1. PICK H \in Seq(Messages) : H = HistoryMessages
      BY LedgerTypes
    <2>2. Keeping(Append(H, x), Range(arrivals[u])) =
              IF x \in Range(arrivals[u]) THEN Append(Keeping(H, Range(arrivals[u])), x)
              ELSE Keeping(H, Range(arrivals[u]))
      BY KeepingAppend
    <2>3. x \in Range(arrivals[u]) <=> u = q
      BY <1>8, <1>10, <2>1
    <2>4. Delivered(u)' = Keeping(Append(H, x), Range(arrivals[u]))
          /\ Delivered(u) = Keeping(H, Range(arrivals[u]))
      BY <1>1, <1>9, <2>1, Zenon DEF Delivered
    <2>5. QED
      BY <2>1, <2>2, <2>3, <2>4, Zenon
  <1>12. ArrivedWasInjected'
    BY <1>1, <1>2, <1>3, ArrivedKnown DEF Draining, LedgerInv, ArrivedWasInjected
  <1>13. ArrivedOnce'
    BY <1>1 DEF LedgerInv, ArrivedOnce
  <1>14. DeliveredByReader'
    <2>1. ASSUME NEW u \in Messages, NEW i \in DOMAIN history',
                 history'[i].msg \in Range(arrivals[u])
          PROVE  \E r \in Messages : bound[r] = u /\ pc'[r] \notin {"registering", "ready"}
      <3>1. CASE i \in DOMAIN history /\ history'[i] = history[i]
        <4>1. PICK r \in Messages : bound[r] = u /\ pc[r] \notin {"registering", "ready"}
          BY <2>1, <3>1 DEF LedgerInv, DeliveredByReader
        <4>2. pc'[r] \notin {"registering", "ready"}
          BY <1>3, <4>1 DEF Draining
        <4>3. QED
          BY <4>1, <4>2
      <3>2. CASE history'[i].msg = x
        <4>1. u = q
          BY <1>10, <2>1, <3>2
        <4>2. pc'[m] \notin {"registering", "ready"}
          BY <1>3 DEF Draining
        <4>3. QED
          BY <1>0, <4>1, <4>2
      <3>3. QED
        BY <1>9, <2>1, <3>1, <3>2
    <2>2. QED
      BY <1>1, <2>1 DEF DeliveredByReader
  <1>15. ASSUME NEW u \in Messages, u # q PROVE InHand(u)' = InHand(u)
    <2>1. \A r \in Messages : (bound[r] = u /\ hand[r] # None) <=> (bound'[r] = u /\ hand'[r] # None)
      BY <1>0, <1>1, <1>5, <1>15
    <2>2. \A r \in Messages : bound[r] = u => hand[r] = hand'[r]
      BY <1>0, <1>5, <1>15
    <2>3. HeldFor(bound, hand, u) = HeldFor(bound', hand', u)
      BY <2>1, <2>2, HeldSame
    <2>4. QED
      BY <2>3, InHandIsHeld
  <1>16. ASSUME NEW u \in Messages
         PROVE  arrivals[u] = cleared[u] \o Delivered(u)' \o InHand(u)' \o content[u]
    <2>1. arrivals[u] = cleared[u] \o Delivered(u) \o InHand(u) \o content[u]
      BY DEF LedgerInv, DeliveryLedger
    <2>2. CASE u # q
      BY <1>11, <1>15, <2>1, <2>2
    <2>3. CASE u = q
      <3>1. PICK a \in Seq(Messages), b \in Seq(Messages), d \in Seq(Messages) :
                a = cleared[q] /\ b = Delivered(q) /\ d = content[q]
        BY <1>0, <1>4, LedgerTypes
      <3>2. a \o b \o <<x>> \o d = a \o Append(b, x) \o <<>> \o d
        <4>1. Append(b, x) = b \o <<x>>
          OBVIOUS
        <4>2. PICK w \in Seq(Messages) : w = <<x>>
          <5>1. <<x>> \in Seq(Messages)
            OBVIOUS
          <5>2. QED
            BY <5>1, Zenon
        <4>3. a \o b \o w \o d = a \o (b \o w) \o <<>> \o d
          OBVIOUS
        <4>4. QED
          BY <4>1, <4>2, <4>3, Zenon
      <3>3. arrivals[u] = a \o b \o <<x>> \o d
        BY <1>7, <2>1, <2>3, <3>1, Zenon
      <3>4. Delivered(u)' = Append(b, x) /\ InHand(u)' = <<>>
        BY <1>7, <1>11, <2>3, <3>1, Zenon
      <3>5. QED
        BY <2>3, <3>1, <3>2, <3>3, <3>4, Zenon
    <2>4. QED
      BY <2>2, <2>3
  <1>17. DeliveryLedger'
    BY <1>1, <1>16 DEF DeliveryLedger
  <1>18. QED
    BY <1>12, <1>13, <1>14, <1>17 DEF LedgerInv

-----------------------------------------------------------------------------
(* A step that changes the phase of one query, within the same kind of     *)
(* phases, and no queue, hand or history.                                  *)
Quiet(m, p) ==
    /\ pc' = [pc EXCEPT ![m] = p]
    /\ UNCHANGED <<bound, hand, content, history, arrivals, cleared>>
    /\ pc[m] # "injected" /\ p \in Phases
    /\ p \in Nameless => pc[m] \in Nameless
    /\ p \in {"registering", "ready"} => pc[m] \in {"registering", "ready"}

LEMMA QuietKeeps ==
  ASSUME TypeInv, Wired, LedgerInv, NEW m \in Messages, NEW p, Quiet(m, p),
         \A s \in Sessions : queueOf'[s] \in {queueOf[s], None},
         \A x \in Messages \ {m} : sess'[x] = sess[x],
         pc[m] \in Live => \/ p \in Live /\ sess'[m] = sess[m]
                           \/ queueOf'[sess[m]] = None
  PROVE  Wired' /\ LedgerInv'
  <1>1. /\ pc'[m] = p /\ \A x \in Messages \ {m} : pc'[x] = pc[x]
        /\ UNCHANGED <<bound, hand, content, history, arrivals, cleared>>
    BY DEF Quiet, TypeInv, TypeOK
  <1>2. Wired'
    <2>1. \A x \in Messages : pc'[x] \in Nameless => pc[x] \in Nameless
      BY <1>1 DEF Quiet
    <2>2. \A x \in Messages : pc[x] \in Live =>
             \/ pc'[x] \in Live /\ sess'[x] = sess[x]
             \/ queueOf'[sess[x]] = None
      BY <1>1
    <2>3. QED
      BY <1>1, <2>1, <2>2, WiredKept
  <1>3. LedgerInv'
    <2>1. \A x \in Messages : /\ pc[x] = "injected" => pc'[x] = "injected"
                              /\ pc'[x] \in {"registering", "ready"} =>
                                    pc[x] \in {"registering", "ready"}
      BY <1>1 DEF Quiet
    <2>2. QED
      BY <1>1, <2>1, LedgerKept
  <1>4. QED
    BY <1>2, <1>3

(* A step after which every message is where it was, or ahead in the same  *)
(* run, keeps the wiring.                                                  *)
LEMMA SamePlan ==
  ASSUME TypeInv, Wired, UNCHANGED <<bound, queueOf, sess>>,
         NEW m \in Messages, NEW p, pc' = [pc EXCEPT ![m] = p],
         p \in Nameless => pc[m] \in Nameless,
         pc[m] \in Live => p \in Live
  PROVE  Wired'
  <1>1. pc'[m] = p /\ \A x \in Messages \ {m} : pc'[x] = pc[x]
    BY DEF TypeInv, TypeOK
  <1>2. /\ \A x \in Messages : pc'[x] \in Nameless => pc[x] \in Nameless
        /\ \A x \in Messages : pc[x] \in Live => pc'[x] \in Live /\ sess'[x] = sess[x]
        /\ \A s \in Sessions : queueOf'[s] \in {queueOf[s], None}
    BY <1>1
  <1>3. QED
    BY <1>2, WiredKept

LEMMA SamePhases ==
  ASSUME TypeInv, Wired, UNCHANGED <<bound, queueOf, sess, pc>>
  PROVE  Wired'
  BY WiredKept

LEMMA LedgerInit == Init => Wired /\ LedgerInv
  <1> SUFFICES ASSUME Init PROVE Wired /\ LedgerInv
    OBVIOUS
  <1>1. Wired
    BY NoneAssumption DEF Init, Wired, NamesAreFresh, QueuesApart, ReadersAreLive, BoundOnce
  <1>2. ArrivedWasInjected /\ ArrivedOnce /\ DeliveredByReader
    BY DEF Init, ArrivedWasInjected, ArrivedOnce, DeliveredByReader, Range
  <1>3. DeliveryLedger
    <2>1. \A q \in Messages : InHand(q) = <<>>
      BY DEF Init, InHand
    <2>2. \A q \in Messages : Delivered(q) = <<>>
      <3>1. HistoryMessages = <<>>
        BY DEF Init, HistoryMessages
      <3>2. QED
        BY <3>1, KeepingEmpty DEF Delivered
    <2>3. \A q \in Messages : arrivals[q] = <<>> /\ cleared[q] = <<>> /\ content[q] = <<>>
      BY DEF Init
    <2>4. <<>> \o <<>> \o <<>> \o <<>> = <<>>
      OBVIOUS
    <2>5. QED
      BY <2>1, <2>2, <2>3, <2>4, Zenon DEF DeliveryLedger
  <1>4. QED
    BY <1>1, <1>2, <1>3 DEF LedgerInv

LEMMA LedgerStep ==
  ASSUME TypeInv, SerialInv, OnePlace, Wired, LedgerInv, [Next]_vars
  PROVE  Wired' /\ LedgerInv'
  <1> USE DEF Nameless, Dispatching, Live, Wiring, Looping, Leaving, Phases, Settled
  <1>1. ASSUME NEW m \in Messages, NEW s \in Sessions, Inject(m, s)
        PROVE  Wired' /\ LedgerInv'
    BY <1>1, InjectWired, InjectLedger
  <1>2. ASSUME NEW m \in Messages, NEW s \in Sessions, StartQuery(m, s)
        PROVE  Wired' /\ LedgerInv'
    <2>1. Quiet(m, "loading") /\ pc[m] = "new" /\ queueOf' = queueOf
          /\ sess' = [sess EXCEPT ![m] = s]
      BY <1>2 DEF StartQuery, Arrives, Goto, Quiet, loopVars, ghostVars, stateVars
    <2>2. \A x \in Messages \ {m} : sess'[x] = sess[x]
      BY <2>1 DEF TypeInv, TypeOK
    <2>3. QED
      BY <2>1, <2>2, QuietKeeps
  <1>3. ASSUME NEW m \in Messages, HandlerStep(m)
        PROVE  Wired' /\ LedgerInv'
    <2>1. CASE LoadSession(m)
      <3>1. /\ pc[m] = "loading" /\ pc' = [pc EXCEPT ![m] = "saving"]
            /\ UNCHANGED <<bound, queueOf, sess>>
        BY <2>1 DEF LoadSession, Goto
      <3>2. Wired'
        BY <3>1, SamePlan
      <3>3. QED
        BY <2>1, <3>2, LoadLedger
    <2>2. CASE RejectQuery(m)
      <3>1. Quiet(m, "rejected") /\ pc[m] \in {"loading", "saving"} /\ UNCHANGED <<queueOf, sess>>
        BY <2>2 DEF RejectQuery, Goto, Quiet, loopVars, ghostVars, stateVars
      <3>2. QED
        BY <3>1, QuietKeeps
    <2>3. CASE CreateTask(m)
      <3>1. Quiet(m, "scheduled") /\ pc[m] = "saving" /\ UNCHANGED <<queueOf, sess>>
        BY <2>3 DEF CreateTask, Goto, Quiet, loopVars, ghostVars, stateVars
      <3>2. QED
        BY <3>1, QuietKeeps
    <2>4. CASE SetRunning(m)
      <3>1. Quiet(m, "starting") /\ pc[m] = "scheduled" /\ UNCHANGED <<queueOf, sess>>
        BY <2>4 DEF SetRunning, Goto, Quiet, loopVars, ghostVars
      <3>2. QED
        BY <3>1, QuietKeeps
    <2>5. CASE Submit(m)
      <3>1. Quiet(m, "pooled") /\ pc[m] = "starting" /\ UNCHANGED <<queueOf, sess>>
        BY <2>5 DEF Submit, Goto, Quiet, loopVars, ghostVars, stateVars
      <3>2. QED
        BY <3>1, QuietKeeps
    <2>6. CASE Finalize(m)
      <3>1. Quiet(m, "done") /\ pc[m] = "returned" /\ sess' = sess
            /\ queueOf' = [queueOf EXCEPT ![sess[m]] = None]
        BY <2>6 DEF Finalize, Goto, Quiet, loopVars, ghostVars
      <3>2. sess[m] \in Sessions /\ queueOf \in [Sessions -> Messages \cup {None}]
        BY <3>1 DEF TypeInv, TypeOK, SessKnown
      <3>3. queueOf'[sess[m]] = None /\ \A s \in Sessions : queueOf'[s] \in {queueOf[s], None}
        BY <3>1, <3>2
      <3>4. QED
        BY <3>1, <3>3, QuietKeeps
    <2>7. QED
      BY <1>3, <2>1, <2>2, <2>3, <2>4, <2>5, <2>6 DEF HandlerStep
  <1>4. ASSUME NEW m \in Messages, WiringStep(m)
        PROVE  Wired' /\ LedgerInv'
    <2>1. CASE PickUp(m)
      <3>1. Quiet(m, "building") /\ pc[m] = "pooled" /\ UNCHANGED <<queueOf, sess>>
        BY <2>1 DEF PickUp, Goto, Quiet, loopVars, ghostVars, stateVars
      <3>2. QED
        BY <3>1, QuietKeeps
    <2>2. CASE SetCurrent(m)
      <3>1. Quiet(m, "binding") /\ pc[m] = "building" /\ UNCHANGED <<queueOf, sess>>
        BY <2>2 DEF SetCurrent, Goto, Quiet, loopVars, ghostVars
      <3>2. QED
        BY <3>1, QuietKeeps
    <2>3. CASE BuildFails(m)
      <3>1. /\ Quiet(m, "returned") /\ UNCHANGED <<queueOf, sess>>
            /\ pc[m] \in {"building", "binding", "registering", "ready", "entering"}
        BY <2>3 DEF BuildFails, Goto, Quiet, loopVars, stateVars
      <3>2. QED
        BY <3>1, QuietKeeps
    <2>4. CASE BindQueue(m)
      BY <2>4, BindWired, BindLedger
    <2>5. CASE Register(m)
      <3>1. Quiet(m, "ready") /\ pc[m] = "registering" /\ UNCHANGED <<queueOf, sess>>
        BY <2>5 DEF Register, Goto, Quiet, loopVars, ghostVars
      <3>2. QED
        BY <3>1, QuietKeeps
    <2>6. CASE BeginLoop(m)
      <3>1. /\ pc[m] = "ready" /\ pc' = [pc EXCEPT ![m] = "entering"]
            /\ UNCHANGED <<bound, queueOf, sess>>
        BY <2>6 DEF BeginLoop, Goto, stateVars
      <3>2. Wired'
        BY <3>1, SamePlan
      <3>3. QED
        BY <2>6, <3>2, BeginLedger
    <2>7. CASE EnterLoop(m)
      <3>1. Quiet(m, "drainTop") /\ pc[m] = "entering" /\ UNCHANGED <<queueOf, sess>>
        BY <2>7 DEF EnterLoop, Goto, Quiet, loopVars, ghostVars, stateVars
      <3>2. QED
        BY <3>1, QuietKeeps
    <2>8. QED
      BY <1>4, <2>1, <2>2, <2>3, <2>4, <2>5, <2>6, <2>7 DEF WiringStep
  <1>5. ASSUME NEW m \in Messages, LoopStep(m)
        PROVE  Wired' /\ LedgerInv'
    <2>1. CASE Take(m)
      <3>1. UNCHANGED <<bound, queueOf, sess, pc>>
        BY <2>1 DEF Take, dispatchVars, stateVars
      <3>2. QED
        BY <2>1, <3>1, SamePhases, TakeLedger
    <2>2. CASE AddTaken(m)
      <3>1. UNCHANGED <<bound, queueOf, sess, pc>>
        BY <2>2 DEF AddTaken, dispatchVars, stateVars
      <3>2. QED
        BY <2>2, <3>1, SamePhases, AddLedger
    <2>3. CASE NextIteration(m)
      <3>1. PICK p \in {"leaving", "drainMid"} : pc' = [pc EXCEPT ![m] = p]
        BY <2>3 DEF NextIteration, Goto
      <3>2. Quiet(m, p) /\ pc[m] = "drainTop" /\ UNCHANGED <<queueOf, sess>>
        BY <2>3, <3>1 DEF NextIteration, Quiet, ghostVars, stateVars
      <3>3. QED
        BY <3>1, <3>2, QuietKeeps
    <2>4. CASE CallModel(m)
      <3>1. Quiet(m, "acting") /\ pc[m] = "drainMid" /\ UNCHANGED <<queueOf, sess>>
        BY <2>4 DEF CallModel, Goto, Quiet, ghostVars, stateVars
      <3>2. QED
        BY <3>1, QuietKeeps
    <2>5. CASE Continue(m)
      <3>1. Quiet(m, "drainTop") /\ pc[m] \in {"acting", "drainMid"} /\ UNCHANGED <<queueOf, sess>>
        BY <2>5 DEF Continue, Idling, Goto, Quiet, ghostVars, stateVars
      <3>2. QED
        BY <3>1, QuietKeeps
    <2>6. CASE Break(m) \/ Raise(m)
      <3>1. Quiet(m, "leaving") /\ pc[m] \in {"acting", "drainMid"} /\ UNCHANGED <<queueOf, sess>>
        BY <2>6 DEF Break, Raise, Idling, Goto, Quiet, loopVars, ghostVars, stateVars
      <3>2. QED
        BY <3>1, QuietKeeps
    <2>7. CASE DropToken(m)
      <3>1. Quiet(m, "finalDrain") /\ pc[m] = "leaving" /\ UNCHANGED <<queueOf, sess>>
        BY <2>7 DEF DropToken, Goto, Quiet, loopVars, ghostVars, stateVars
      <3>2. QED
        BY <3>1, QuietKeeps
    <2>8. CASE Return(m)
      <3>1. Quiet(m, "returned") /\ pc[m] = "finalDrain" /\ UNCHANGED <<queueOf, sess>>
        BY <2>8 DEF Return, Goto, Quiet, loopVars, ghostVars, stateVars
      <3>2. QED
        BY <3>1, QuietKeeps
    <2>9. CASE AddFails(m)
      <3>1. /\ \E p \in {"returned", "leaving"} : pc' = [pc EXCEPT ![m] = p]
            /\ UNCHANGED <<bound, queueOf, sess>>
        BY <2>9 DEF AddFails, Goto, stateVars
      <3>2. Wired'
        BY <3>1, SamePlan
      <3>3. QED
        BY <2>9, <3>2, AddLedger
    <2>10. QED
      BY <1>5, <2>1, <2>2, <2>3, <2>4, <2>5, <2>6, <2>7, <2>8, <2>9 DEF LoopStep
  <1>6. CASE InterruptTask \/ (\E s \in Sessions : ResumeSession(s)) \/ UNCHANGED vars
    <2>1. UNCHANGED <<bound, queueOf, sess, pc, hand, content, history, arrivals, cleared>>
      BY <1>6 DEF InterruptTask, ResumeSession, dispatchVars, loopVars, stateVars, ghostVars, vars
    <2>2. QED
      BY <2>1, SamePhases, LedgerKept
  <1>7. QED
    BY <1>1, <1>2, <1>3, <1>4, <1>5, <1>6 DEF Next, RunStep

(* With clients that wait for a dispatch, every queue object accounts for  *)
(* what was put on it, in the order it came: thrown away by the run that   *)
(* started on it (EC2), added to the history, in hand, or waiting; however *)
(* many messages, queues and drains there are.                             *)
THEOREM NothingOvertakesOrIsLost ==
  ASSUME SerialClients
  PROVE  Spec => []DeliveryLedger
  <1>1. Init => TypeInv /\ SerialInv /\ OnePlace /\ Wired /\ LedgerInv
    <2>1. Init => SerialInv
      BY DEF Init, SerialInv, OneActive, LiveIsMarked, Active,
             Dispatching, Live, Wiring, Looping, Leaving
    <2>2. QED
      BY <2>1, TypeInvInit, OnePlaceInit, LedgerInit
  <1>2. TypeInv /\ SerialInv /\ OnePlace /\ Wired /\ LedgerInv /\ [Next]_vars
        => (TypeInv /\ SerialInv /\ OnePlace /\ Wired /\ LedgerInv)'
    BY TypeInvStep, SerialInvStep, OnePlaceStep, LedgerStep, SerialClients
  <1>3. LedgerInv => DeliveryLedger
    BY DEF LedgerInv
  <1>4. QED
    BY <1>1, <1>2, <1>3, PTL DEF Spec

-----------------------------------------------------------------------------
(* The refinement of QueryService.                                         *)

(* A run reads the queue of its session, and a queue that nobody has asked *)
(* for is empty.                                                           *)
OwnQueue == \A m \in Messages : pc[m] \in Bound => queueOf[sess[m]] = bound[m]

UnnamedEmpty == \A m \in Messages : pc[m] \in Nameless => content[m] = <<>>

QueueInv == OwnQueue /\ UnnamedEmpty

LEMMA QueueKept ==
  ASSUME TypeInv, QueueInv, UNCHANGED <<bound, queueOf, content>>,
         \A m \in Messages : pc[m] # "new" => sess'[m] = sess[m],
         \A m \in Messages : pc'[m] \in Bound => pc[m] \in Bound,
         \A m \in Messages : pc'[m] \in Nameless => pc[m] \in Nameless
  PROVE  QueueInv'
  <1>1. "new" \notin Bound
    BY DEF Bound, Looping
  <1>2. QED
    BY <1>1 DEF QueueInv, OwnQueue, UnnamedEmpty

LEMMA QueueInvInit == Init => QueueInv
  BY DEF Init, QueueInv, OwnQueue, UnnamedEmpty, Bound, Looping

LEMMA InjectQueue ==
  ASSUME TypeInv, Wired, QueueInv, NEW m \in Messages, NEW s \in Sessions, Inject(m, s)
  PROVE  QueueInv'
  <1> DEFINE q == QueueFor(s, m)
  <1>1. PICK p \in {"injected", "refused"} : pc' = [pc EXCEPT ![m] = p]
    BY DEF Inject, Goto
  <1>2. /\ pc[m] = "new" /\ bound' = bound /\ queueOf' = [queueOf EXCEPT ![s] = q]
        /\ sess' = [sess EXCEPT ![m] = s]
        /\ content' = [content EXCEPT ![q] = Append(content[q], m)] \/ content' = content
    BY DEF Inject, Arrives
  <1>3. /\ queueOf \in [Sessions -> Messages \cup {None}] /\ pc \in [Messages -> Phases]
        /\ sess \in [Messages -> Sessions \cup {None}]
        /\ content \in [Messages -> Seq(Messages)]
    BY DEF TypeInv, TypeOK
  <1>4. /\ pc'[m] = p /\ \A x \in Messages \ {m} : pc'[x] = pc[x] /\ sess'[x] = sess[x]
        /\ queueOf'[s] = q /\ \A t \in Sessions \ {s} : queueOf'[t] = queueOf[t]
    BY <1>1, <1>2, <1>3
  <1>5. p \notin Bound /\ p \notin Nameless
    BY <1>1 DEF Bound, Nameless, Dispatching, Looping
  <1>6. q = m \/ (q = queueOf[s] /\ queueOf[s] # None)
    BY DEF QueueFor
  <1>7. queueOf[s] = None \/ q = queueOf[s]
    BY DEF QueueFor
  <1>8. OwnQueue'
    <2> SUFFICES ASSUME NEW x \in Messages, pc'[x] \in Bound
                 PROVE  queueOf'[sess'[x]] = bound'[x]
      BY DEF OwnQueue
    <2>1. x # m /\ pc[x] \in Bound /\ sess'[x] = sess[x]
      BY <1>4, <1>5
    <2>2. queueOf[sess[x]] = bound[x] /\ bound[x] \in Messages /\ bound[x] # None
      BY <2>1, NoneAssumption DEF QueueInv, OwnQueue, TypeInv, BoundKnown
    <2>3. sess[x] \in Sessions
      BY <2>1 DEF TypeInv, SessKnown, Bound, Looping
    <2>4. QED
      BY <1>2, <1>4, <1>7, <2>1, <2>2, <2>3
  <1>9. UnnamedEmpty'
    <2> SUFFICES ASSUME NEW x \in Messages, pc'[x] \in Nameless
                 PROVE  content'[x] = <<>>
      BY DEF UnnamedEmpty
    <2>1. x # m /\ pc[x] \in Nameless
      BY <1>4, <1>5
    <2>2. x # q
      BY <1>6, <2>1 DEF Wired, NamesAreFresh
    <2>3. content[x] = <<>>
      BY <2>1 DEF QueueInv, UnnamedEmpty
    <2>4. QED
      BY <1>2, <1>3, <2>2, <2>3
  <1>10. QED
    BY <1>8, <1>9 DEF QueueInv

(* A run binds the queue of its session, or drops it when it is over.      *)
LEMMA BindAndDropQueue ==
  ASSUME TypeInv, SerialInv, QueueInv, NEW m \in Messages, BindQueue(m) \/ Finalize(m)
  PROVE  QueueInv'
  <1> DEFINE s == sess[m]
  <1>1. PICK p \in {"registering", "done"} : pc' = [pc EXCEPT ![m] = p]
    BY DEF BindQueue, Finalize, Goto
  <1>2. /\ pc[m] \in {"binding", "returned"} /\ sess' = sess /\ content' = content
        /\ \E q : queueOf' = [queueOf EXCEPT ![s] = q]
                  /\ \/ bound' = [bound EXCEPT ![m] = q] /\ p = "registering"
                     \/ bound' = bound /\ p = "done"
    <2>1. CASE BindQueue(m)
      <3>1. p = "registering"
        BY <1>1, <2>1 DEF BindQueue, Goto, TypeInv, TypeOK
      <3>2. QED
        BY <2>1, <3>1 DEF BindQueue
    <2>2. CASE Finalize(m)
      <3>1. p = "done"
        BY <1>1, <2>2 DEF Finalize, Goto, TypeInv, TypeOK
      <3>2. QED
        BY <2>2, <3>1 DEF Finalize
    <2>3. QED
      BY <2>1, <2>2
  <1>3. /\ queueOf \in [Sessions -> Messages \cup {None}] /\ pc \in [Messages -> Phases]
        /\ bound \in [Messages -> Messages \cup {None}]
        /\ s \in Sessions /\ pc[m] \in Active
    BY <1>2 DEF TypeInv, TypeOK, SessKnown, Active, Live, Wiring, Leaving
  <1>4. pc'[m] = p /\ \A x \in Messages \ {m} : pc'[x] = pc[x] /\ bound'[x] = bound[x]
    BY <1>1, <1>2, <1>3
  <1>5. OwnQueue'
    <2> SUFFICES ASSUME NEW x \in Messages, pc'[x] \in Bound
                 PROVE  queueOf'[sess'[x]] = bound'[x]
      BY DEF OwnQueue
    <2>1. CASE x = m
      <3>1. p = "registering"
        BY <1>1, <1>4, <2>1 DEF Bound, Looping
      <3>2. QED
        BY <1>2, <1>3, <2>1, <3>1
    <2>2. CASE x # m
      <3>1. pc[x] \in Bound /\ bound'[x] = bound[x] /\ queueOf[sess[x]] = bound[x]
        BY <1>4, <2>2 DEF QueueInv, OwnQueue
      <3>2. pc[x] \in Active /\ sess[x] \in Sessions
        BY <3>1 DEF Bound, Looping, Active, Live, Wiring, Leaving, TypeInv, SessKnown
      <3>3. sess[x] # s
        BY <1>3, <2>2, <3>2 DEF SerialInv, OneActive
      <3>4. QED
        BY <1>2, <1>3, <3>1, <3>2, <3>3
    <2>3. QED
      BY <2>1, <2>2
  <1>6. UnnamedEmpty'
    <2>1. p \notin Nameless
      BY <1>1 DEF Nameless, Dispatching
    <2>2. QED
      BY <1>2, <1>4, <2>1 DEF QueueInv, UnnamedEmpty
  <1>7. QED
    BY <1>5, <1>6 DEF QueueInv

(* A run takes from its queue, or empties it.                              *)
LEMMA TakeQueue ==
  ASSUME TypeInv, Wired, QueueInv, NEW m \in Messages, BeginLoop(m) \/ Take(m)
  PROVE  QueueInv'
  <1> DEFINE q == bound[m]
  <1>1. PICK p : p \in Bound /\ pc' = [pc EXCEPT ![m] = p]
    BY DEF BeginLoop, Take, Goto, dispatchVars, Bound, Looping, TypeInv, TypeOK
  <1>2. /\ pc[m] \in Bound /\ UNCHANGED <<bound, queueOf, sess>>
        /\ \E w : content' = [content EXCEPT ![q] = w]
    BY DEF BeginLoop, Take, dispatchVars, stateVars, Bound, Looping
  <1>3. /\ pc \in [Messages -> Phases] /\ content \in [Messages -> Seq(Messages)]
        /\ q \in Messages
    BY <1>2 DEF TypeInv, TypeOK, BoundKnown
  <1>4. /\ pc'[m] = p /\ \A x \in Messages \ {m} : pc'[x] = pc[x]
        /\ \A x \in Messages \ {q} : content'[x] = content[x]
    BY <1>1, <1>2, <1>3
  <1>5. p \notin Nameless
    BY <1>1 DEF Bound, Nameless, Dispatching, Looping
  <1>6. pc[q] \notin Nameless
    BY <1>3 DEF Wired, NamesAreFresh
  <1>7. OwnQueue'
    BY <1>1, <1>2, <1>4 DEF QueueInv, OwnQueue
  <1>8. UnnamedEmpty'
    BY <1>3, <1>4, <1>5, <1>6 DEF QueueInv, UnnamedEmpty
  <1>9. QED
    BY <1>7, <1>8 DEF QueueInv

(* The steps of one query that leave the queues alone.                     *)
Quietly(m) ==
    \/ LoadSession(m) \/ RejectQuery(m) \/ CreateTask(m) \/ SetRunning(m) \/ Submit(m)
    \/ PickUp(m) \/ SetCurrent(m) \/ BuildFails(m) \/ Register(m) \/ EnterLoop(m)
    \/ AddTaken(m) \/ AddFails(m) \/ NextIteration(m) \/ CallModel(m)
    \/ Continue(m) \/ Break(m) \/ Raise(m) \/ DropToken(m) \/ Return(m)

LEMMA QuietQueue ==
  ASSUME TypeInv, QueueInv, NEW m \in Messages, Quietly(m)
  PROVE  QueueInv'
  <1>1. UNCHANGED <<sess, bound, queueOf, content>>
    BY DEF Quietly, LoadSession, RejectQuery, CreateTask, SetRunning, Submit, PickUp,
           SetCurrent, BuildFails, Register, EnterLoop, AddTaken, AddFails, NextIteration,
           CallModel, Continue, Break, Raise, DropToken, Return, dispatchVars, stateVars
  <1>2. CASE pc' = pc
    BY <1>1, <1>2, QueueKept
  <1>3. ASSUME NEW p, pc' = [pc EXCEPT ![m] = p],
               p \in Bound => pc[m] \in Bound, p \in Nameless => pc[m] \in Nameless
        PROVE  QueueInv'
    <2>1. pc'[m] = p /\ \A x \in Messages \ {m} : pc'[x] = pc[x]
      BY <1>3 DEF TypeInv, TypeOK
    <2>2. QED
      BY <1>1, <1>3, <2>1, QueueKept
  <1>4. CASE LoadSession(m) \/ RejectQuery(m) \/ CreateTask(m) \/ SetRunning(m) \/ Submit(m)
             \/ PickUp(m) \/ SetCurrent(m) \/ BuildFails(m)
    BY <1>3, <1>4 DEF LoadSession, RejectQuery, CreateTask, SetRunning, Submit, PickUp,
           SetCurrent, BuildFails, Goto, Bound, Looping, Nameless, Dispatching
  <1>5. CASE Register(m) \/ EnterLoop(m) \/ AddTaken(m) \/ NextIteration(m) \/ CallModel(m)
    BY <1>2, <1>3, <1>5 DEF Register, EnterLoop, AddTaken, NextIteration, CallModel, Goto,
           Bound, Looping, Nameless, Dispatching, dispatchVars
  <1>5a. CASE AddFails(m)
    <2>1. pc[m] \in Bound
      BY <1>5a DEF AddFails, TypeInv, HandPhase, Draining, Bound, Looping
    <2>2. PICK p \in {"returned", "leaving"} : pc' = [pc EXCEPT ![m] = p]
      BY <1>5a DEF AddFails, Goto
    <2>3. p \notin Nameless
      BY DEF Nameless, Dispatching
    <2>4. QED
      BY <1>3, <2>1, <2>2, <2>3
  <1>6. CASE Continue(m) \/ Break(m) \/ Raise(m) \/ DropToken(m) \/ Return(m)
    BY <1>3, <1>6 DEF Continue, Break, Raise, DropToken, Return, Idling, Goto,
           Bound, Looping, Nameless, Dispatching
  <1>7. QED
    BY <1>4, <1>5, <1>5a, <1>6 DEF Quietly

LEMMA QueueInvStep ==
  ASSUME TypeInv, SerialInv, Wired, QueueInv, [Next]_vars
  PROVE  QueueInv'
  <1>1. ASSUME NEW m \in Messages, NEW s \in Sessions, Inject(m, s) PROVE QueueInv'
    BY <1>1, InjectQueue
  <1>2. ASSUME NEW m \in Messages, NEW s \in Sessions, StartQuery(m, s) PROVE QueueInv'
    <2>1. /\ pc[m] = "new" /\ pc' = [pc EXCEPT ![m] = "loading"]
          /\ sess' = [sess EXCEPT ![m] = s] /\ UNCHANGED <<bound, queueOf, content>>
      BY <1>2 DEF StartQuery, Arrives, Goto, stateVars
    <2>2. /\ pc'[m] = "loading" /\ \A x \in Messages \ {m} : pc'[x] = pc[x] /\ sess'[x] = sess[x]
      BY <2>1 DEF TypeInv, TypeOK
    <2>3. "loading" \notin Bound /\ pc[m] \in Nameless
      BY <2>1 DEF Bound, Looping, Nameless
    <2>4. QED
      BY <2>1, <2>2, <2>3, QueueKept
  <1>3. ASSUME NEW m \in Messages, RunStep(m) PROVE QueueInv'
    BY <1>3, BindAndDropQueue, TakeQueue, QuietQueue
       DEF RunStep, HandlerStep, WiringStep, LoopStep, Quietly
  <1>4. CASE InterruptTask \/ (\E s \in Sessions : ResumeSession(s)) \/ UNCHANGED vars
    <2>1. UNCHANGED <<bound, queueOf, sess, pc, content>>
      BY <1>4 DEF InterruptTask, ResumeSession, dispatchVars, stateVars, vars
    <2>2. QED
      BY <2>1, QueueKept
  <1>5. QED
    BY <1>1, <1>2, <1>3, <1>4 DEF Next

-----------------------------------------------------------------------------
(* What QueryService sees of a session: the query that is active, its      *)
(* stage, and the line of its queue.                                       *)

(* Of a session with one active query, that query is served.               *)
LEMMA ServedIs ==
  ASSUME NEW s \in Sessions, NEW m \in Messages
  PROVE  /\ InPhase(s, Active) = {m} => Serving(s) = m
         /\ InPhase(s, Active)' = {m} => Serving(s)' = m
         /\ InPhase(s, Active) = {} => Serving(s) = None
         /\ InPhase(s, Active)' = {} => Serving(s)' = None
  <1>1. (CHOOSE x \in {m} : TRUE) = m
    OBVIOUS
  <1>2. QED
    BY <1>1, Zenon DEF Serving

LEMMA ActiveAlone ==
  ASSUME TypeInv, NEW m \in Messages, pc[m] \in Active
  PROVE  /\ sess[m] \in Sessions
         /\ SerialInv => InPhase(sess[m], Active) = {m}
  <1>1. sess[m] \in Sessions
    BY DEF TypeInv, SessKnown, Active, Dispatching, Live, Wiring, Looping, Leaving
  <1>2. ASSUME SerialInv PROVE InPhase(sess[m], Active) = {m}
    BY <1>2 DEF InPhase, SerialInv, OneActive
  <1>3. QED
    BY <1>1, <1>2

(* A session is seen alike as long as its active query stays where it is.  *)
LEMMA SessionKept ==
  ASSUME NEW t \in Sessions,
         \A x \in Messages : (sess[x] = t /\ pc[x] \in Active)
                              <=> (sess'[x] = t /\ pc'[x] \in Active),
         \A x \in Messages : sess[x] = t /\ pc[x] \in Active
                              => pc'[x] = pc[x] /\ bound'[x] = bound[x]
  PROVE  /\ Serving(t)' = Serving(t)
         /\ Stage(Serving(t))' = Stage(Serving(t))
  <1>1. InPhase(t, Active)' = InPhase(t, Active)
    BY DEF InPhase
  <1>2. Serving(t)' = Serving(t)
    BY <1>1 DEF Serving
  <1>3. Serving(t) = None \/ Serving(t) \in InPhase(t, Active)
    BY DEF Serving
  <1>4. CASE Serving(t) = None
    BY <1>2, <1>4 DEF Stage
  <1>5. CASE Serving(t) \in InPhase(t, Active)
    <2>1. pc'[Serving(t)] = pc[Serving(t)] /\ bound'[Serving(t)] = bound[Serving(t)]
      BY <1>5 DEF InPhase
    <2>2. Stage(Serving(t))' = Stage(Serving(t))
      BY <1>2, <2>1 DEF Stage
    <2>3. QED
      BY <1>2, <2>2
  <1>6. QED
    BY <1>2, <1>3, <1>4, <1>5

(* A step of one query shows only in its own session.                      *)
LEMMA OneSessionMoves ==
  ASSUME NEW m \in Messages, NEW s \in Sessions,
         sess'[m] = s, pc[m] \in Active => sess[m] = s,
         \A x \in Messages \ {m} :
             pc'[x] = pc[x] /\ sess'[x] = sess[x] /\ bound'[x] = bound[x]
  PROVE  /\ Serves' = [Serves EXCEPT ![s] = Serving(s)']
         /\ Stages' = [Stages EXCEPT ![s] = Stage(Serving(s))']
  <1>1. ASSUME NEW t \in Sessions, t # s
        PROVE  Serving(t)' = Serving(t) /\ Stage(Serving(t))' = Stage(Serving(t))
    <2>1. \A x \in Messages : (sess[x] = t /\ pc[x] \in Active)
                               <=> (sess'[x] = t /\ pc'[x] \in Active)
      BY <1>1
    <2>2. \A x \in Messages : sess[x] = t /\ pc[x] \in Active
                               => pc'[x] = pc[x] /\ bound'[x] = bound[x]
      BY <1>1
    <2>3. QED
      BY <2>1, <2>2, SessionKept
  <1>2. QED
    BY <1>1 DEF Serves, Stages

(* The stage of a query by its phase.                                      *)
LEMMA StageOf ==
  ASSUME NEW m \in Messages
  PROVE  /\ pc[m] = "loading" => Stage(m) = "received"
         /\ pc[m] \in {"saving", "scheduled"} \cup (Wiring \ {"entering"})
                => Stage(m) = "recorded"
         /\ pc[m] = "returned" => Stage(m) = "over"
         /\ pc[m] \in {"entering", "leaving", "finalDrain"} \cup Looping
                => Stage(m) = "answering"
         /\ pc'[m] = "loading" => Stage(m)' = "received"
         /\ pc'[m] \in {"saving", "scheduled"} \cup (Wiring \ {"entering"})
                => Stage(m)' = "recorded"
         /\ pc'[m] = "returned" => Stage(m)' = "over"
         /\ pc'[m] \in {"entering", "leaving", "finalDrain"} \cup Looping
                => Stage(m)' = "answering"
  <1> USE DEF Wiring, Looping
  <1>1. m # None
    BY NoneAssumption
  <1>2. QED
    BY <1>1 DEF Stage

(* An active query moves on and stays active: its session serves it, and   *)
(* only its stage may change.                                              *)
LEMMA ActiveMoves ==
  ASSUME TypeInv, TypeInv', SerialInv, SerialInv', NEW m \in Messages, NEW p \in Active,
         pc[m] \in Active, pc' = [pc EXCEPT ![m] = p], sess' = sess,
         \A x \in Messages \ {m} : bound'[x] = bound[x]
  PROVE  /\ sess[m] \in Sessions /\ Sent' = Sent /\ Serves' = Serves
         /\ Serves[sess[m]] = m /\ Stages[sess[m]] = Stage(m)
         /\ Stages' = [Stages EXCEPT ![sess[m]] = Stage(m)']
  <1> DEFINE s == sess[m]
  <1>1. pc'[m] = p /\ \A x \in Messages \ {m} : pc'[x] = pc[x]
    BY DEF TypeInv, TypeOK
  <1>2. s \in Sessions /\ InPhase(s, Active) = {m}
    BY ActiveAlone
  <1>3. InPhase(s, Active)' = InPhase(s, Active)
    BY <1>1 DEF InPhase
  <1>4. Serving(s) = m /\ Serving(s)' = m
    BY <1>2, <1>3, ServedIs
  <1>5. /\ Serves' = [Serves EXCEPT ![s] = Serving(s)']
        /\ Stages' = [Stages EXCEPT ![s] = Stage(Serving(s))']
    BY <1>1, <1>2, OneSessionMoves
  <1>6. Serves[s] = m /\ Stages[s] = Stage(m)
    BY <1>2, <1>4 DEF Serves, Stages
  <1>7. Stage(Serving(s))' = Stage(m)'
    BY <1>4 DEF Stage
  <1>8. Serves' = Serves
    BY <1>4, <1>5, <1>6 DEF Serves
  <1>9. Sent' = Sent
    <2>1. p # "new" /\ pc[m] # "new"
      BY DEF Active, Dispatching, Live, Wiring, Looping, Leaving
    <2>2. QED
      BY <1>1, <2>1 DEF Sent
  <1>10. QED
    BY <1>2, <1>5, <1>6, <1>7, <1>8, <1>9

-----------------------------------------------------------------------------
(* Each step of the server is a step of the service, or shows nothing.     *)

ServiceInv ==
    TypeInv /\ SerialInv /\ OnePlace /\ Wired /\ LedgerInv /\ IdleIsClean /\ QueueInv

Unseen == UNCHANGED <<Sent, Serves, Stages, Lines, Log>>

(* What the service sees of a step that leaves the queues and the history. *)
LEMMA LinesKept ==
  ASSUME UNCHANGED <<bound, hand, content, queueOf>>
  PROVE  Lines' = Lines
  BY DEF Lines, Line, InHand

LEMMA LogKept ==
  ASSUME UNCHANGED history
  PROVE  Log' = Log
  BY DEF Log

(* A message that is added, or fails to be, is the last of the log.        *)
LEMMA AppendAs ==
  ASSUME NEW S, NEW w \in Seq(S), NEW x \in S
  PROVE  Append(w, x) = [i \in 1 .. Len(w) + 1 |-> IF i = Len(w) + 1 THEN x ELSE w[i]]
  <1>1. Append(w, x) \in Seq(S) /\ DOMAIN Append(w, x) = 1 .. Len(w) + 1
    OBVIOUS
  <1>2. \A v \in Seq(S) : v = [i \in DOMAIN v |-> v[i]]
    OBVIOUS
  <1>3. Append(w, x) = [i \in 1 .. Len(w) + 1 |-> Append(w, x)[i]]
    BY <1>1, <1>2, Zenon
  <1>4. \A i \in 1 .. Len(w) + 1 : Append(w, x)[i] = IF i = Len(w) + 1 THEN x ELSE w[i]
    OBVIOUS
  <1>5. QED
    BY <1>3, <1>4, Zenon

LEMMA LogGrows ==
  ASSUME TypeInv, NEW m \in Messages, NEW s \in Sessions \cup {None},
         history' = Append(history, [msg |-> m, to |-> s])
  PROVE  Log' = Append(Log, [query |-> m, kept |-> s # None])
  <1> DEFINE n == Len(history)
             e == [query |-> m, kept |-> s # None]
             L == [i \in 1 .. n |-> [query |-> history[i].msg, kept |-> history[i].to # None]]
  <1>1. [msg |-> m, to |-> s] \in Entry /\ history \in Seq(Entry)
    BY KnownMessages DEF Entry
  <1>2. /\ DOMAIN history' = 1 .. n + 1 /\ DOMAIN history = 1 .. n /\ n \in Nat
        /\ history'[n + 1] = [msg |-> m, to |-> s]
        /\ \A i \in 1 .. n : history'[i] = history[i]
    BY <1>1
  <1>3. Log = L
    BY <1>2, Zenon DEF Log
  <1>4. Log' = [i \in 1 .. n + 1 |->
                   [query |-> history'[i].msg, kept |-> history'[i].to # None]]
    BY <1>2, Zenon DEF Log
  <1>5. \A i \in 1 .. n + 1 :
            [query |-> history'[i].msg, kept |-> history'[i].to # None]
            = IF i = n + 1 THEN e ELSE L[i]
    <2>1. ASSUME NEW i \in 1 .. n + 1, i = n + 1
          PROVE  [query |-> history'[i].msg, kept |-> history'[i].to # None] = e
      <3>1. history'[i].msg = m /\ history'[i].to = s
        BY <1>2, <2>1
      <3>2. QED
        BY <3>1, Zenon
    <2>2. ASSUME NEW i \in 1 .. n + 1, i # n + 1
          PROVE  [query |-> history'[i].msg, kept |-> history'[i].to # None] = L[i]
      <3>1. i \in 1 .. n
        BY <1>2, <2>2
      <3>2. history'[i] = history[i]
        BY <1>2, <3>1
      <3>3. QED
        BY <3>1, <3>2, Zenon
    <2> HIDE DEF n, e, L
    <2>3. QED
      BY <2>1, <2>2, Zenon
  <1>6. Append(L, e) = [i \in 1 .. n + 1 |-> IF i = n + 1 THEN e ELSE L[i]]
    <2> DEFINE S == {L[i] : i \in 1 .. n} \cup {e}
    <2>1. L = [i \in 1 .. n |-> L[i]] /\ \A i \in 1 .. n : L[i] \in S
      BY Zenon
    <2> HIDE DEF e, L
    <2>2. e \in S
      OBVIOUS
    <2> HIDE DEF S
    <2>3. L \in Seq(S) /\ Len(L) = n
      BY <1>2, <2>1
    <2>4. Append(L, e) = [i \in 1 .. Len(L) + 1 |-> IF i = Len(L) + 1 THEN e ELSE L[i]]
      BY <2>2, <2>3, AppendAs
    <2>5. QED
      BY <2>3, <2>4, Zenon
  <1> HIDE DEF n, e, L
  <1>7. QED
    BY <1>3, <1>4, <1>5, <1>6, Zenon DEF e

(* A query that moves within its stage is not seen to move.                *)
LEMMA SameStage ==
  ASSUME ServiceInv, ServiceInv', NEW m \in Messages, NEW p \in Active,
         pc[m] \in Active, pc' = [pc EXCEPT ![m] = p], sess' = sess,
         \A x \in Messages \ {m} : bound'[x] = bound[x],
         Stage(m)' = Stage(m), Lines' = Lines, UNCHANGED history
  PROVE  Unseen
  <1>1. /\ sess[m] \in Sessions /\ Sent' = Sent /\ Serves' = Serves
        /\ Stages[sess[m]] = Stage(m)
        /\ Stages' = [Stages EXCEPT ![sess[m]] = Stage(m)']
    BY ActiveMoves DEF ServiceInv
  <1>2. Stages = [s \in Sessions |-> Stages[s]]
    BY DEF Stages
  <1>3. Stages' = Stages
    BY <1>1, <1>2
  <1>4. Log' = Log
    BY LogKept
  <1>5. QED
    BY <1>1, <1>3, <1>4 DEF Unseen

(* From the task of a query to the start of its loop.                      *)
LEMMA WiringUnseen ==
  ASSUME ServiceInv, ServiceInv', NEW m \in Messages,
         \/ CreateTask(m) \/ SetRunning(m) \/ Submit(m) \/ PickUp(m)
         \/ SetCurrent(m) \/ Register(m)
  PROVE  Unseen
  <1>1. PICK p \in {"scheduled"} \cup (Wiring \ {"entering"}) : pc' = [pc EXCEPT ![m] = p]
    BY DEF CreateTask, SetRunning, Submit, PickUp, SetCurrent, Register, Goto, Wiring
  <1>2. /\ pc[m] \in {"saving", "scheduled"} \cup (Wiring \ {"entering"})
        /\ UNCHANGED <<sess, bound, hand, content, queueOf, history>>
    BY DEF CreateTask, SetRunning, Submit, PickUp, SetCurrent, Register,
           loopVars, stateVars, Wiring
  <1>3. pc'[m] = p
    BY <1>1 DEF ServiceInv, TypeInv, TypeOK
  <1>4. Stage(m)' = Stage(m)
    BY <1>1, <1>2, <1>3, StageOf
  <1>5. p \in Active /\ pc[m] \in Active
    BY <1>1, <1>2 DEF Active, Dispatching, Live
  <1>6. Lines' = Lines
    BY <1>2, LinesKept
  <1>7. QED
    BY <1>1, <1>2, <1>4, <1>5, <1>6, SameStage

(* The loop, as long as it takes and adds nothing.                         *)
LEMMA LoopUnseen ==
  ASSUME ServiceInv, ServiceInv', NEW m \in Messages,
         \/ EnterLoop(m) \/ NextIteration(m) \/ CallModel(m) \/ Continue(m)
         \/ Break(m) \/ Raise(m) \/ DropToken(m)
  PROVE  Unseen
  <1>1. PICK p \in Looping \cup {"leaving", "finalDrain"} : pc' = [pc EXCEPT ![m] = p]
    BY DEF EnterLoop, NextIteration, CallModel, Continue, Break, Raise, DropToken,
           Goto, Looping
  <1>2. /\ pc[m] \in {"entering", "leaving", "finalDrain"} \cup Looping
        /\ UNCHANGED <<sess, bound, hand, content, queueOf, history>>
    BY DEF EnterLoop, NextIteration, CallModel, Continue, Break, Raise, DropToken, Idling,
           loopVars, stateVars, Looping
  <1>3. pc'[m] = p
    BY <1>1 DEF ServiceInv, TypeInv, TypeOK
  <1>4. Stage(m)' = Stage(m)
    BY <1>1, <1>2, <1>3, StageOf
  <1>5. p \in Active /\ pc[m] \in Active
    BY <1>1, <1>2 DEF Active, Live, Wiring, Leaving
  <1>6. Lines' = Lines
    BY <1>2, LinesKept
  <1>7. QED
    BY <1>1, <1>2, <1>4, <1>5, <1>6, SameStage

(* A run that ends, or fails before its loop, leaves.                      *)
LEMMA ReturnLeaves ==
  ASSUME ServiceInv, ServiceInv', NEW m \in Messages, BuildFails(m) \/ Return(m)
  PROVE  \E s \in Sessions : Service!Leave(s)
  <1>1. /\ pc' = [pc EXCEPT ![m] = "returned"]
        /\ pc[m] \in (Wiring \ {"starting", "pooled"}) \cup {"finalDrain"}
        /\ UNCHANGED <<sess, bound, hand, content, queueOf, history>>
    BY DEF BuildFails, Return, Goto, loopVars, stateVars, Wiring
  <1>2. pc[m] \in Active /\ "returned" \in Active
    BY <1>1 DEF Active, Live, Leaving
  <1>3. pc'[m] = "returned"
    BY <1>1 DEF ServiceInv, TypeInv, TypeOK
  <1>4. PICK s \in Sessions : s = sess[m]
    BY <1>2, ActiveAlone DEF ServiceInv
  <1>5. /\ Sent' = Sent /\ Serves' = Serves /\ Stages[s] = Stage(m)
        /\ Stages' = [Stages EXCEPT ![s] = Stage(m)']
    BY <1>1, <1>2, <1>4, ActiveMoves DEF ServiceInv
  <1>6. Stage(m) \in {"recorded", "answering"} /\ Stage(m)' = "over"
    BY <1>1, <1>3, StageOf
  <1>7. Lines' = Lines /\ Log' = Log
    BY <1>1, LinesKept, LogKept
  <1>8. Stages[s] \in {"recorded", "answering"} /\ Stages' = [Stages EXCEPT ![s] = "over"]
    BY <1>5, <1>6
  <1>9. Service!Leave(s)
    BY <1>5, <1>7, <1>8, Zenon DEF Service!Leave
  <1>10. QED
    BY <1>9

(* The steps of nobody in particular.                                      *)
LEMMA OthersUnseen ==
  ASSUME InterruptTask \/ (\E s \in Sessions : ResumeSession(s)) \/ UNCHANGED vars
  PROVE  Unseen
  <1>1. UNCHANGED <<pc, sess, bound, hand, content, queueOf, history>>
    BY DEF InterruptTask, ResumeSession, dispatchVars, loopVars, stateVars, vars
  <1>2. Lines' = Lines /\ Log' = Log
    BY <1>1, LinesKept, LogKept
  <1>3. Sent' = Sent /\ Serves' = Serves /\ Stages' = Stages
    BY <1>1 DEF Sent, Serves, Stages, Serving, Stage, InPhase
  <1>4. QED
    BY <1>2, <1>3 DEF Unseen

-----------------------------------------------------------------------------
(* Lines as an operator of the queues, the hands and what is on a queue.   *)
LineOf(b, h, c, q) == IF q = None THEN <<>> ELSE HeldFor(b, h, q) \o c[q]

LEMMA LinesAre ==
  /\ Lines = [s \in Sessions |-> LineOf(bound, hand, content, queueOf[s])]
  /\ Lines' = [s \in Sessions |-> LineOf(bound', hand', content', queueOf'[s])]
  <1>1. ASSUME NEW q PROVE Line(q) = LineOf(bound, hand, content, q)
    BY InHandIsHeld DEF Line, LineOf
  <1>2. ASSUME NEW q PROVE Line(q)' = LineOf(bound', hand', content', q)
    BY InHandIsHeld DEF Line, LineOf
  <1>3. QED
    BY <1>1, <1>2 DEF Lines

(* One line changes when the others have the same queue, read and filled   *)
(* as before.                                                              *)
LEMMA OneLine ==
  ASSUME NEW s \in Sessions, NEW w,
         LineOf(bound', hand', content', queueOf'[s]) = w,
         \A t \in Sessions \ {s} :
             LineOf(bound', hand', content', queueOf'[t])
             = LineOf(bound, hand, content, queueOf[t])
  PROVE  Lines' = [Lines EXCEPT ![s] = w]
  BY LinesAre

(* Another line is kept: its queue stays, and neither its reader's hand    *)
(* nor its content is touched.                                             *)
LEMMA LineSame ==
  ASSUME NEW q, NEW m \in Messages,
         q # None => content'[q] = content[q],
         \A r \in Messages \ {m} : bound'[r] = bound[r] /\ hand'[r] = hand[r],
         \/ bound[m] # q /\ bound'[m] # q
         \/ hand[m] = None /\ hand'[m] = None
         \/ hand'[m] = hand[m] /\ bound'[m] = bound[m]
  PROVE  LineOf(bound', hand', content', q) = LineOf(bound, hand, content, q)
  <1>1. /\ \A r \in Messages : (bound'[r] = q /\ hand'[r] # None)
                                <=> (bound[r] = q /\ hand[r] # None)
    OBVIOUS
  <1>2. HeldFor(bound', hand', q) = HeldFor(bound, hand, q)
    <2>1. CASE \E r \in Messages : bound[r] = q /\ hand[r] # None
      <3>1. \A r \in Messages : bound[r] = q /\ hand[r] # None => hand'[r] = hand[r]
        BY NoneAssumption
      <3> DEFINE A == {r \in Messages : bound[r] = q /\ hand[r] # None}
                 B == {r \in Messages : bound'[r] = q /\ hand'[r] # None}
      <3>2. A = B /\ A # {}
        BY <1>1, <2>1
      <3>3. hand'[CHOOSE r \in A : TRUE] = hand[CHOOSE r \in A : TRUE]
        BY <3>1, <3>2
      <3>4. HeldFor(bound, hand, q) = (IF A = {} THEN <<>> ELSE <<hand[CHOOSE r \in A : TRUE]>>)
            /\ HeldFor(bound', hand', q) = (IF B = {} THEN <<>> ELSE <<hand'[CHOOSE r \in B : TRUE]>>)
        BY DEF HeldFor
      <3> HIDE DEF A, B
      <3>5. QED
        BY <3>2, <3>3, <3>4
    <2>2. CASE ~(\E r \in Messages : bound[r] = q /\ hand[r] # None)
      <3>1. HeldFor(bound, hand, q) = <<>> /\ HeldFor(bound', hand', q) = <<>>
        BY <1>1, <2>2, HeldNone
      <3>2. QED
        BY <3>1
    <2>3. QED
      BY <2>1, <2>2
  <1>3. QED
    BY <1>2 DEF LineOf

(* The line of a session whose run reads its queue.                        *)
LEMMA LineRead ==
  ASSUME ServiceInv, NEW m \in Messages, pc[m] \in Bound
  PROVE  /\ bound[m] \in Messages /\ bound[m] # None /\ sess[m] \in Sessions
         /\ queueOf[sess[m]] = bound[m]
         /\ \A r \in Messages : bound[r] = bound[m] => r = m
         /\ \A t \in Sessions \ {sess[m]} : queueOf[t] # bound[m]
         /\ content[bound[m]] \in Seq(Messages)
         /\ hand[m] = None => Lines[sess[m]] = content[bound[m]]
         /\ hand[m] # None => Lines[sess[m]] = <<hand[m]>> \o content[bound[m]]
  <1> DEFINE q == bound[m]
             s == sess[m]
  <1>1. q \in Messages /\ q # None /\ s \in Sessions
    BY NoneAssumption DEF ServiceInv, TypeInv, BoundKnown, SessKnown, Bound, Looping
  <1>2. queueOf[s] = q /\ \A r \in Messages : bound[r] = q => r = m
    BY <1>1 DEF ServiceInv, QueueInv, OwnQueue, Wired, BoundOnce
  <1>3. \A t \in Sessions \ {s} : queueOf[t] # q
    BY <1>1, <1>2 DEF ServiceInv, Wired, QueuesApart
  <1>4. content[q] \in Seq(Messages)
    BY <1>1 DEF ServiceInv, TypeInv, TypeOK
  <1>5. Lines[s] = HeldFor(bound, hand, q) \o content[q]
    BY <1>1, <1>2, LinesAre DEF LineOf
  <1>6. ASSUME hand[m] = None PROVE Lines[s] = content[q]
    <2>1. HeldFor(bound, hand, q) = <<>>
      BY <1>2, <1>6, HeldNone
    <2>2. QED
      BY <1>4, <1>5, <2>1
  <1>7. ASSUME hand[m] # None PROVE Lines[s] = <<hand[m]>> \o content[q]
    <2>1. HeldFor(bound, hand, q) = <<hand[m]>>
      BY <1>2, <1>7, HeldOne
    <2>2. QED
      BY <1>5, <2>1
  <1>8. QED
    BY <1>1, <1>2, <1>3, <1>4, <1>6, <1>7

(* A run that names the queue of its session names an empty one.           *)
LEMMA BindUnseen ==
  ASSUME ServiceInv, ServiceInv', NEW m \in Messages, BindQueue(m)
  PROVE  Unseen
  <1> DEFINE s == sess[m]
             q == QueueFor(s, m)
  <1>1. /\ pc[m] = "binding" /\ pc' = [pc EXCEPT ![m] = "registering"]
        /\ queueOf' = [queueOf EXCEPT ![s] = q] /\ bound' = [bound EXCEPT ![m] = q]
        /\ UNCHANGED <<sess, hand, content, history>>
    BY DEF BindQueue, Goto, loopVars
  <1>2. /\ queueOf \in [Sessions -> Messages \cup {None}] /\ pc \in [Messages -> Phases]
        /\ bound \in [Messages -> Messages \cup {None}] /\ s \in Sessions
        /\ content[m] \in Seq(Messages)
    BY <1>1 DEF ServiceInv, TypeInv, TypeOK, SessKnown
  <1>3. /\ pc'[m] = "registering" /\ bound'[m] = q
        /\ \A x \in Messages \ {m} : bound'[x] = bound[x]
        /\ queueOf'[s] = q /\ \A t \in Sessions \ {s} : queueOf'[t] = queueOf[t]
    BY <1>1, <1>2
  <1>4. hand[m] = None
    BY <1>1 DEF ServiceInv, TypeInv, HandPhase, Draining
  <1>5. pc[m] \in Nameless
    BY <1>1 DEF Nameless
  <1>6. content[m] = <<>> /\ \A r \in Messages : bound[r] # m
    BY <1>5 DEF ServiceInv, QueueInv, UnnamedEmpty, Wired, NamesAreFresh
  <1>7. \A u : LineOf(bound', hand', content', u) = LineOf(bound, hand, content, u)
    BY <1>1, <1>3, <1>4, LineSame
  <1>8. LineOf(bound, hand, content, q) = LineOf(bound, hand, content, queueOf[s])
    <2>1. CASE queueOf[s] = None
      <3>1. q = m /\ m # None
        BY <2>1, NoneAssumption DEF QueueFor
      <3>2. HeldFor(bound, hand, m) = <<>>
        BY <1>6, HeldNone
      <3>3. HeldFor(bound, hand, m) \o content[m] = <<>>
        BY <1>6, <3>2
      <3>4. QED
        BY <2>1, <3>1, <3>3 DEF LineOf
    <2>2. CASE queueOf[s] # None
      BY <2>2 DEF QueueFor
    <2>3. QED
      BY <2>1, <2>2
  <1>9. Lines' = Lines
    <2>1. \A t \in Sessions : LineOf(bound', hand', content', queueOf'[t])
                               = LineOf(bound, hand, content, queueOf[t])
      BY <1>3, <1>7, <1>8
    <2>2. QED
      BY <2>1, LinesAre
  <1>10. Stage(m)' = Stage(m)
    BY <1>1, <1>3, StageOf DEF Wiring
  <1>11. pc[m] \in Active /\ "registering" \in Active
    BY <1>1 DEF Active, Live, Wiring
  <1>12. QED
    BY <1>1, <1>3, <1>9, <1>10, <1>11, SameStage

(* get_nowait moves the head of the line into the hand.                    *)
LEMMA TakeUnseen ==
  ASSUME ServiceInv, ServiceInv', NEW m \in Messages, Take(m)
  PROVE  Unseen
  <1> DEFINE q == bound[m]
             s == sess[m]
  <1>1. /\ pc[m] \in Draining /\ hand[m] = None /\ content[q] # <<>>
        /\ hand' = [hand EXCEPT ![m] = Head(content[q])]
        /\ content' = [content EXCEPT ![q] = Tail(content[q])]
        /\ UNCHANGED <<pc, sess, bound, queueOf, history>>
    BY DEF Take, dispatchVars, stateVars, Draining
  <1>2. pc[m] \in Bound
    BY <1>1 DEF Draining, Bound, Looping
  <1>3. /\ q \in Messages /\ q # None /\ s \in Sessions /\ queueOf[s] = q
        /\ \A r \in Messages : bound[r] = q => r = m
        /\ \A t \in Sessions \ {s} : queueOf[t] # q
        /\ content[q] \in Seq(Messages) /\ Lines[s] = content[q]
    BY <1>1, <1>2, LineRead
  <1>4. /\ hand \in [Messages -> Messages \cup {None}] /\ content \in [Messages -> Seq(Messages)]
    BY DEF ServiceInv, TypeInv, TypeOK
  <1>5. Head(content[q]) \in Messages /\ <<Head(content[q])>> \o Tail(content[q]) = content[q]
    BY <1>1, <1>3
  <1>6. /\ hand'[m] = Head(content[q]) /\ \A x \in Messages \ {m} : hand'[x] = hand[x]
        /\ content'[q] = Tail(content[q]) /\ \A u \in Messages \ {q} : content'[u] = content[u]
    BY <1>1, <1>3, <1>4
  <1>7. LineOf(bound', hand', content', queueOf'[s]) = content[q]
    <2>1. hand'[m] # None /\ bound'[m] = q /\ \A r \in Messages : bound'[r] = q => r = m
      BY <1>1, <1>3, <1>5, <1>6, NoneAssumption
    <2>2. <<hand'[m]>> \o content'[q] = content[q] /\ queueOf'[s] = q /\ q # None
      BY <1>1, <1>3, <1>5, <1>6
    <2> HIDE DEF q, s
    <2>3. HeldFor(bound', hand', q) = <<hand'[m]>>
      BY <2>1, HeldOne
    <2>4. LineOf(bound', hand', content', q) = HeldFor(bound', hand', q) \o content'[q]
      BY <2>2, Zenon DEF LineOf
    <2>5. QED
      BY <2>2, <2>3, <2>4, Zenon
  <1>8. ASSUME NEW t \in Sessions \ {s}
        PROVE  LineOf(bound', hand', content', queueOf'[t])
               = LineOf(bound, hand, content, queueOf[t])
    <2> DEFINE u == queueOf[t]
    <2>1. u # q /\ u \in Messages \cup {None}
      BY <1>3 DEF ServiceInv, TypeInv, TypeOK
    <2>2. /\ u # None => content'[u] = content[u]
          /\ bound[m] # u /\ bound'[m] # u
          /\ \A r \in Messages \ {m} : bound'[r] = bound[r] /\ hand'[r] = hand[r]
      BY <1>1, <1>6, <2>1
    <2>3. LineOf(bound', hand', content', u) = LineOf(bound, hand, content, u)
      BY <2>2, LineSame
    <2>4. QED
      BY <1>1, <2>3
  <1>9. Lines' = [Lines EXCEPT ![s] = content[q]]
    BY <1>3, <1>7, <1>8, OneLine
  <1>10. Lines' = Lines
    BY <1>3, <1>9 DEF Lines
  <1>11. Sent' = Sent /\ Serves' = Serves /\ Stages' = Stages
    BY <1>1 DEF Sent, Serves, Stages, Serving, Stage, InPhase
  <1>12. QED
    BY <1>1, <1>10, <1>11, LogKept DEF Unseen

(* add_message of what was taken takes the head of the line, and the log   *)
(* says whether it was kept.                                               *)
LEMMA HeadGoes ==
  ASSUME ServiceInv, NEW m \in Messages, NEW s \in Sessions, s = sess[m],
         NEW c \in Sessions \cup {None}, hand[m] # None,
         history' = Append(history, [msg |-> hand[m], to |-> c]),
         hand' = [hand EXCEPT ![m] = None],
         UNCHANGED <<sess, bound, queueOf, content>>
  PROVE  /\ pc[m] \in Active /\ Stages[s] = "answering"
         /\ Lines[s] # <<>> /\ Lines' = [Lines EXCEPT ![s] = Tail(Lines[s])]
         /\ Log' = Append(Log, [query |-> Head(Lines[s]), kept |-> c # None])
  <1> DEFINE q == bound[m]
  <1>1. pc[m] \in Draining
    BY DEF ServiceInv, TypeInv, HandPhase
  <1>2. pc[m] \in Bound /\ pc[m] \in Active
        /\ pc[m] \in {"entering", "leaving", "finalDrain"} \cup Looping
    BY <1>1 DEF Draining, Bound, Active, Live, Looping, Leaving
  <1>3. hand[m] \in Messages /\ hand \in [Messages -> Messages \cup {None}]
    BY DEF ServiceInv, TypeInv, TypeOK
  <1>4. /\ q \in Messages /\ q # None /\ queueOf[s] = q
        /\ \A r \in Messages : bound[r] = q => r = m
        /\ \A t \in Sessions \ {s} : queueOf[t] # q
        /\ content[q] \in Seq(Messages) /\ Lines[s] = <<hand[m]>> \o content[q]
    BY <1>2, LineRead
  <1>5. hand'[m] = None /\ \A x \in Messages \ {m} : hand'[x] = hand[x]
    BY <1>3
  <1>6. Lines[s] # <<>> /\ Head(Lines[s]) = hand[m] /\ Tail(Lines[s]) = content[q]
    BY <1>3, <1>4
  <1>7. Log' = Append(Log, [query |-> Head(Lines[s]), kept |-> c # None])
    <2>1. Log' = Append(Log, [query |-> hand[m], kept |-> c # None])
      BY <1>3, LogGrows DEF ServiceInv
    <2>2. QED
      BY <1>6, <2>1, Zenon
  <1>8. LineOf(bound', hand', content', queueOf'[s]) = content[q]
    <2>1. \A r \in Messages : bound'[r] = q => hand'[r] = None
      BY <1>4, <1>5
    <2>2. <<>> \o content'[q] = content[q] /\ queueOf'[s] = q /\ q # None
      BY <1>4
    <2> HIDE DEF q
    <2>3. HeldFor(bound', hand', q) = <<>>
      BY <2>1, HeldNone
    <2>4. LineOf(bound', hand', content', q) = HeldFor(bound', hand', q) \o content'[q]
      BY <2>2, Zenon DEF LineOf
    <2>5. QED
      BY <2>2, <2>3, <2>4, Zenon
  <1>9. ASSUME NEW t \in Sessions \ {s}
        PROVE  LineOf(bound', hand', content', queueOf'[t])
               = LineOf(bound, hand, content, queueOf[t])
    <2>1. /\ bound[m] # queueOf[t] /\ bound'[m] # queueOf[t] /\ content' = content
          /\ \A r \in Messages \ {m} : bound'[r] = bound[r] /\ hand'[r] = hand[r]
      BY <1>4, <1>5
    <2>2. LineOf(bound', hand', content', queueOf[t])
          = LineOf(bound, hand, content, queueOf[t])
      BY <2>1, LineSame
    <2>3. QED
      BY <2>2
  <1>10. Lines' = [Lines EXCEPT ![s] = Tail(Lines[s])]
    <2>1. PICK w : w = content[q]
      OBVIOUS
    <2>2. LineOf(bound', hand', content', queueOf'[s]) = w
      BY <1>8, <2>1, Zenon
    <2>3. Lines' = [Lines EXCEPT ![s] = w]
      BY <1>9, <2>2, OneLine
    <2>4. QED
      BY <1>6, <2>1, <2>3, Zenon
  <1>11. Stages[s] = "answering"
    <2>1. InPhase(s, Active) = {m}
      BY <1>2, ActiveAlone DEF ServiceInv
    <2>2. Serving(s) = m
      BY <2>1, ServedIs
    <2>3. QED
      BY <1>2, <2>2, StageOf DEF Stages
  <1>12. QED
    BY <1>2, <1>6, <1>7, <1>10, <1>11

LEMMA AddDelivers ==
  ASSUME ServiceInv, ServiceInv', NEW m \in Messages, AddTaken(m)
  PROVE  \E s \in Sessions : Service!Deliver(s)
  <1>1. /\ hand[m] # None /\ history' = Append(history, [msg |-> hand[m], to |-> current])
        /\ hand' = [hand EXCEPT ![m] = None]
        /\ UNCHANGED <<pc, sess, bound, queueOf, content>>
    BY DEF AddTaken, Added, dispatchVars, stateVars
  <1>2. PICK s \in Sessions : s = sess[m]
    BY <1>1 DEF ServiceInv, TypeInv, HandPhase, SessKnown, Draining
  <1>3. current \in Sessions /\ current # None
    BY <1>1, NoneAssumption
       DEF ServiceInv, TypeInv, HandPhase, CurrentKnown, Draining, Loaded, Live, Looping, Leaving
  <1>4. /\ Stages[s] = "answering" /\ Lines[s] # <<>>
        /\ Lines' = [Lines EXCEPT ![s] = Tail(Lines[s])]
        /\ Log' = Append(Log, [query |-> Head(Lines[s]), kept |-> current # None])
    BY <1>1, <1>2, <1>3, HeadGoes
  <1>5. (current # None) = TRUE
    BY <1>3, Zenon
  <1>6. Log' = Append(Log, [query |-> Head(Lines[s]), kept |-> TRUE])
    BY <1>4, <1>5, Zenon
  <1>7. Sent' = Sent /\ Serves' = Serves /\ Stages' = Stages
    BY <1>1 DEF Sent, Serves, Stages, Serving, Stage, InPhase
  <1>8. Service!Deliver(s)
    BY <1>4, <1>6, <1>7, Zenon DEF Service!Deliver
  <1>9. QED
    BY <1>8

(* When adding fails, the session stays or leaves.                         *)
LEMMA AddFailsStores ==
  ASSUME ServiceInv, ServiceInv', NEW m \in Messages, AddFails(m)
  PROVE  \E s \in Sessions : Service!StoreFails(s)
  <1>1. /\ hand[m] # None /\ hand' = [hand EXCEPT ![m] = None]
        /\ UNCHANGED <<sess, bound, queueOf, content>>
    BY DEF AddFails, stateVars
  <1>2. PICK s \in Sessions : s = sess[m]
    BY <1>1 DEF ServiceInv, TypeInv, HandPhase, SessKnown, Draining
  <1>3. current \in Sessions
    BY <1>1
       DEF ServiceInv, TypeInv, HandPhase, CurrentKnown, Draining, Loaded, Live, Looping, Leaving
  <1>4. PICK c \in Sessions \cup {None} :
            history' = Append(history, [msg |-> hand[m], to |-> c])
    BY <1>3 DEF AddFails, Added
  <1>5. /\ pc[m] \in Active /\ Stages[s] = "answering" /\ Lines[s] # <<>>
        /\ Lines' = [Lines EXCEPT ![s] = Tail(Lines[s])]
        /\ Log' = Append(Log, [query |-> Head(Lines[s]), kept |-> c # None])
    BY <1>1, <1>2, <1>4, HeadGoes
  <1>6. PICK p \in {"returned", "leaving"} : pc' = [pc EXCEPT ![m] = p]
    BY DEF AddFails, Goto
  <1>7. p \in Active /\ pc'[m] = p
    BY <1>6 DEF Active, Live, Leaving, ServiceInv, TypeInv, TypeOK
  <1>8. /\ Sent' = Sent /\ Serves' = Serves
        /\ Stages' = [Stages EXCEPT ![s] = Stage(m)']
    BY <1>1, <1>2, <1>5, <1>6, <1>7, ActiveMoves DEF ServiceInv
  <1>9. Stage(m)' \in {"answering", "over"}
    BY <1>7, StageOf
  <1>10. Stages' \in {Stages, [Stages EXCEPT ![s] = "over"]}
    BY <1>5, <1>8, <1>9 DEF Stages
  <1>11. \E kept \in BOOLEAN : Log' = Append(Log, [query |-> Head(Lines[s]), kept |-> kept])
    <2>1. (c # None) \in BOOLEAN
      OBVIOUS
    <2>2. QED
      BY <1>5, <2>1, Zenon
  <1>12. Service!StoreFails(s)
    BY <1>5, <1>8, <1>10, <1>11, Zenon DEF Service!StoreFails
  <1>13. QED
    BY <1>12

(* The start of the loop (EC2) clears the line.                            *)
LEMMA LoopAnswers ==
  ASSUME ServiceInv, ServiceInv', NEW m \in Messages, BeginLoop(m)
  PROVE  \E s \in Sessions : Service!Answer(s)
  <1> DEFINE q == bound[m]
             s == sess[m]
  <1>1. /\ pc[m] = "ready" /\ pc' = [pc EXCEPT ![m] = "entering"]
        /\ content' = [content EXCEPT ![q] = <<>>]
        /\ UNCHANGED <<sess, bound, hand, queueOf, history>>
    BY DEF BeginLoop, Goto, loopVars, stateVars
  <1>2. pc[m] \in Bound /\ pc[m] \in Active /\ "entering" \in Active /\ pc[m] \in Wiring \ {"entering"}
    BY <1>1 DEF Bound, Active, Live, Wiring, Looping
  <1>3. hand[m] = None
    BY <1>1 DEF ServiceInv, TypeInv, HandPhase, Draining
  <1>4. /\ q \in Messages /\ q # None /\ s \in Sessions /\ queueOf[s] = q
        /\ \A r \in Messages : bound[r] = q => r = m
        /\ \A t \in Sessions \ {s} : queueOf[t] # q
    BY <1>2, LineRead
  <1>5. /\ pc'[m] = "entering"
        /\ content'[q] = <<>> /\ \A u \in Messages \ {q} : content'[u] = content[u]
    BY <1>1, <1>4 DEF ServiceInv, TypeInv, TypeOK
  <1>6. LineOf(bound', hand', content', queueOf'[s]) = <<>>
    <2>1. HeldFor(bound', hand', q) = <<>>
      BY <1>1, <1>3, <1>4, HeldNone
    <2>2. LineOf(bound', hand', content', q) = <<>> \o <<>>
      BY <1>4, <1>5, <2>1 DEF LineOf
    <2>3. QED
      BY <1>1, <1>4, <2>2
  <1>7. ASSUME NEW t \in Sessions \ {s}
        PROVE  LineOf(bound', hand', content', queueOf'[t])
               = LineOf(bound, hand, content, queueOf[t])
    <2> DEFINE u == queueOf[t]
    <2>1. u # q /\ u \in Messages \cup {None}
      BY <1>4 DEF ServiceInv, TypeInv, TypeOK
    <2>2. /\ u # None => content'[u] = content[u]
          /\ bound' = bound /\ hand' = hand
      BY <1>1, <1>5, <2>1
    <2>3. LineOf(bound', hand', content', u) = LineOf(bound, hand, content, u)
      BY <2>2, LineSame
    <2>4. QED
      BY <1>1, <2>3
  <1>8. Lines' = [Lines EXCEPT ![s] = <<>>]
    BY <1>4, <1>6, <1>7, OneLine
  <1>9. /\ Sent' = Sent /\ Serves' = Serves
        /\ Stages[s] = Stage(m)
        /\ Stages' = [Stages EXCEPT ![s] = Stage(m)']
    BY <1>1, <1>2, ActiveMoves DEF ServiceInv
  <1>10. Stage(m) = "recorded" /\ Stage(m)' = "answering"
    BY <1>2, <1>5, StageOf
  <1>11. Log' = Log
    BY <1>1, LogKept
  <1>12. Service!Answer(s)
    BY <1>8, <1>9, <1>10, <1>11, Zenon DEF Service!Answer
  <1>13. QED
    BY <1>4, <1>12

(* A query that is turned away, or whose run is over, leaves its session   *)
(* idle and without a line.                                                *)
LEMMA LastEnds ==
  ASSUME ServiceInv, ServiceInv', NEW m \in Messages, RejectQuery(m) \/ Finalize(m)
  PROVE  \E s \in Sessions : Service!End(s)
  <1>1. PICK p \in {"rejected", "done"} : pc' = [pc EXCEPT ![m] = p]
    BY DEF RejectQuery, Finalize, Goto
  <1>2. /\ pc[m] \in {"loading", "saving", "returned"}
        /\ UNCHANGED <<sess, bound, hand, content, history>>
    BY DEF RejectQuery, Finalize, loopVars
  <1>3. pc[m] \in Active /\ pc[m] # "new"
    BY <1>2 DEF Active, Dispatching, Live, Leaving
  <1>4. sess[m] \in Sessions /\ InPhase(sess[m], Active) = {m}
    BY <1>3, ActiveAlone DEF ServiceInv
  <1>5. PICK s \in Sessions : s = sess[m] /\ InPhase(s, Active) = {m}
    BY <1>4
  <1>6. queueOf' = [queueOf EXCEPT ![s] = None]
    <2>1. CASE RejectQuery(m)
      <3>1. pc[m] \in {"loading", "saving"} /\ queueOf' = queueOf
        BY <2>1 DEF RejectQuery, stateVars
      <3>2. InPhase(s, Live) \subseteq InPhase(s, Active)
        BY DEF InPhase, Active
      <3>3. m \notin InPhase(s, Live)
        BY <3>1 DEF InPhase, Live, Wiring, Looping, Leaving
      <3>4. queueOf[s] = None
        BY <1>5, <3>2, <3>3 DEF ServiceInv, IdleIsClean, QueueHasRun
      <3>5. QED
        BY <1>5, <3>1, <3>4 DEF ServiceInv, TypeInv, TypeOK
    <2>2. CASE Finalize(m)
      BY <1>5, <2>2 DEF Finalize
    <2>3. QED
      BY <2>1, <2>2
  <1>7. /\ pc'[m] = p /\ \A x \in Messages \ {m} : pc'[x] = pc[x]
        /\ queueOf'[s] = None /\ \A t \in Sessions \ {s} : queueOf'[t] = queueOf[t]
    BY <1>1, <1>5, <1>6 DEF ServiceInv, TypeInv, TypeOK
  <1>8. p \notin Active /\ p # "new"
    BY <1>1 DEF Active, Dispatching, Live, Wiring, Looping, Leaving
  <1>9. Sent' = Sent
    BY <1>3, <1>7, <1>8 DEF Sent
  <1>10. InPhase(s, Active)' = {}
    BY <1>2, <1>5, <1>7, <1>8 DEF InPhase
  <1>11. Serving(s) = m /\ Serving(s)' = None
    BY <1>5, <1>10, ServedIs
  <1>12. Stage(Serving(s))' = "idle"
    BY <1>11 DEF Stage
  <1>13. /\ Serves' = [Serves EXCEPT ![s] = Serving(s)']
         /\ Stages' = [Stages EXCEPT ![s] = Stage(Serving(s))']
    BY <1>2, <1>5, <1>7, OneSessionMoves
  <1>14. Stages[s] # "idle"
    <2>1. m # None
      BY NoneAssumption
    <2>2. Stage(m) # "idle"
      BY <2>1 DEF Stage
    <2>3. QED
      BY <1>5, <1>11, <2>2 DEF Stages
  <1>15. Lines' = [Lines EXCEPT ![s] = <<>>]
    <2>1. LineOf(bound', hand', content', queueOf'[s]) = <<>>
      BY <1>7 DEF LineOf
    <2>2. \A t \in Sessions \ {s} : LineOf(bound', hand', content', queueOf'[t])
                                     = LineOf(bound, hand, content, queueOf[t])
      BY <1>2, <1>7
    <2>3. QED
      BY <1>5, <2>1, <2>2, OneLine
  <1>16. Log' = Log
    BY <1>2, LogKept
  <1>17. Service!End(s)
    BY <1>9, <1>11, <1>12, <1>13, <1>14, <1>15, <1>16, Zenon DEF Service!End
  <1>18. QED
    BY <1>5, <1>17

(* A query whose session is not running begins.                            *)
LEMMA StartBegins ==
  ASSUME SerialClients, ServiceInv, ServiceInv', NEW m \in Messages, NEW s \in Sessions,
         StartQuery(m, s)
  PROVE  Service!Begin(m, s)
  <1>1. /\ pc[m] = "new" /\ pc' = [pc EXCEPT ![m] = "loading"]
        /\ sess' = [sess EXCEPT ![m] = s] /\ s \notin running
        /\ InPhase(s, Dispatching) = {}
        /\ UNCHANGED <<bound, hand, content, queueOf, history>>
    BY SerialClients DEF StartQuery, Arrives, Goto, loopVars, stateVars
  <1>2. /\ pc'[m] = "loading" /\ sess'[m] = s
        /\ \A x \in Messages \ {m} : pc'[x] = pc[x] /\ sess'[x] = sess[x]
    BY <1>1 DEF ServiceInv, TypeInv, TypeOK
  <1>3. pc[m] \notin Active /\ "loading" \in Active
    BY <1>1 DEF Active, Dispatching, Live, Wiring, Looping, Leaving
  <1>4. InPhase(s, Active) = {}
    BY <1>1 DEF InPhase, Active, ServiceInv, SerialInv, LiveIsMarked
  <1>5. InPhase(s, Active)' = {m}
    BY <1>2, <1>3, <1>4 DEF InPhase
  <1>6. Serving(s) = None /\ Serving(s)' = m
    BY <1>4, <1>5, ServedIs
  <1>7. Stages[s] = "idle"
    BY <1>6 DEF Stages, Stage
  <1>8. Stage(Serving(s))' = "received"
    <2>1. Stage(m)' = "received"
      BY <1>2, StageOf
    <2>2. QED
      BY <1>6, <2>1 DEF Stage
  <1>9. /\ Serves' = [Serves EXCEPT ![s] = Serving(s)']
        /\ Stages' = [Stages EXCEPT ![s] = Stage(Serving(s))']
    BY <1>1, <1>2, <1>3, OneSessionMoves
  <1>10. m \notin Sent /\ Sent' = Sent \cup {m}
    BY <1>1, <1>2 DEF Sent
  <1>11. Lines' = Lines /\ Log' = Log
    BY <1>1, LinesKept, LogKept
  <1>12. QED
    BY <1>6, <1>7, <1>8, <1>9, <1>10, <1>11, Zenon DEF Service!Begin, Service!Comes

(* A query that is loaded is recorded.                                     *)
LEMMA LoadRecords ==
  ASSUME ServiceInv, ServiceInv', NEW m \in Messages, LoadSession(m)
  PROVE  \E s \in Sessions : Service!Record(s)
  <1> DEFINE s == sess[m]
  <1>1. /\ pc[m] = "loading" /\ pc' = [pc EXCEPT ![m] = "saving"]
        /\ history' = Added(m, s)
        /\ UNCHANGED <<sess, bound, hand, content, queueOf>>
    BY DEF LoadSession, Goto, loopVars
  <1>2. pc[m] \in Active /\ "saving" \in Active
    BY <1>1 DEF Active, Dispatching
  <1>3. pc'[m] = "saving"
    BY <1>1 DEF ServiceInv, TypeInv, TypeOK
  <1>4. /\ s \in Sessions /\ Sent' = Sent /\ Serves' = Serves /\ Serves[s] = m
        /\ Stages[s] = Stage(m) /\ Stages' = [Stages EXCEPT ![s] = Stage(m)']
    BY <1>1, <1>2, ActiveMoves DEF ServiceInv
  <1>5. Stage(m) = "received" /\ Stage(m)' = "recorded"
    BY <1>1, <1>3, StageOf
  <1>6. Log' = Append(Log, [query |-> m, kept |-> TRUE])
    <2>1. history' = Append(history, [msg |-> m, to |-> s])
      BY <1>1 DEF Added
    <2>2. Log' = Append(Log, [query |-> m, kept |-> s # None])
      BY <1>4, <2>1, LogGrows DEF ServiceInv
    <2>3. (s # None) = TRUE
      BY <1>4, NoneAssumption
    <2>4. QED
      BY <2>2, <2>3, Zenon
  <1>7. Lines' = Lines
    BY <1>1, LinesKept
  <1>8. Service!Record(s)
    BY <1>4, <1>5, <1>6, <1>7, Zenon DEF Service!Record
  <1>9. QED
    BY <1>4, <1>8

(* A query that finds its session running stands in line, or is refused.   *)
LEMMA InjectWaits ==
  ASSUME ServiceInv, ServiceInv', NEW m \in Messages, NEW s \in Sessions, Inject(m, s)
  PROVE  Service!Wait(m, s) \/ Service!Refuse(m, s)
  <1> DEFINE q == QueueFor(s, m)
  <1>1. PICK p \in {"injected", "refused"} : pc' = [pc EXCEPT ![m] = p]
    BY DEF Inject, Goto
  <1>2. /\ pc[m] = "new" /\ s \in running /\ sess' = [sess EXCEPT ![m] = s]
        /\ queueOf' = [queueOf EXCEPT ![s] = q]
        /\ UNCHANGED <<bound, hand, history>>
        /\ \/ content' = [content EXCEPT ![q] = Append(content[q], m)]
           \/ content' = content /\ Len(content[q]) >= Capacity
    BY DEF Inject, Arrives, loopVars
  <1>3. /\ queueOf \in [Sessions -> Messages \cup {None}] /\ pc \in [Messages -> Phases]
        /\ sess \in [Messages -> Sessions \cup {None}]
        /\ content \in [Messages -> Seq(Messages)]
    BY DEF ServiceInv, TypeInv, TypeOK
  <1>4. /\ pc'[m] = p /\ sess'[m] = s
        /\ \A x \in Messages \ {m} : pc'[x] = pc[x] /\ sess'[x] = sess[x]
        /\ queueOf'[s] = q /\ \A t \in Sessions \ {s} : queueOf'[t] = queueOf[t]
    BY <1>1, <1>2, <1>3
  <1>5. pc[m] \notin Active /\ p \notin Active /\ p # "new" /\ pc[m] \in Nameless
    BY <1>1, <1>2 DEF Active, Dispatching, Live, Wiring, Looping, Leaving, Nameless
  <1>6. Serves' = Serves /\ Stages' = Stages
    <2>1. ASSUME NEW t \in Sessions
          PROVE  Serving(t)' = Serving(t) /\ Stage(Serving(t))' = Stage(Serving(t))
      <3>1. /\ \A x \in Messages : (sess[x] = t /\ pc[x] \in Active)
                                    <=> (sess'[x] = t /\ pc'[x] \in Active)
            /\ \A x \in Messages : sess[x] = t /\ pc[x] \in Active
                                    => pc'[x] = pc[x] /\ bound'[x] = bound[x]
        BY <1>2, <1>4, <1>5
      <3>2. QED
        BY <3>1, SessionKept
    <2>2. QED
      BY <2>1 DEF Serves, Stages
  <1>7. m \notin Sent /\ Sent' = Sent \cup {m}
    BY <1>2, <1>4, <1>5 DEF Sent
  <1>8. Stages[s] \in {"recorded", "answering", "over"}
    <2>1. PICK r \in Messages : sess[r] = s /\ pc[r] \in Live
      BY <1>2 DEF ServiceInv, IdleIsClean, RunningHasRun, InPhase
    <2>2. pc[r] \in Active
      BY <2>1 DEF Active
    <2>3. InPhase(s, Active) = {r}
      BY <2>1, <2>2, ActiveAlone DEF ServiceInv
    <2>4. Serving(s) = r
      BY <2>3, ServedIs
    <2>5. Stage(r) \in {"recorded", "answering", "over"}
      BY <2>1, StageOf DEF Live, Leaving
    <2>6. QED
      BY <2>4, <2>5 DEF Stages
  <1>9. Log' = Log
    BY <1>2, LogKept
  <1>10. /\ content[m] = <<>> /\ m # None
         /\ \A r \in Messages : bound[r] # m
         /\ \A t \in Sessions : queueOf[t] # m
    BY <1>5, NoneAssumption DEF ServiceInv, QueueInv, UnnamedEmpty, Wired, NamesAreFresh
  <1>11. q \in Messages /\ q # None /\ (queueOf[s] = None => q = m)
         /\ (queueOf[s] # None => q = queueOf[s])
    BY <1>3, <1>10, NoneAssumption DEF QueueFor
  <1>12. \A t \in Sessions \ {s} : queueOf[t] # q
    BY <1>10, <1>11 DEF ServiceInv, Wired, QueuesApart
  <1>13. Lines[s] = HeldFor(bound, hand, q) \o content[q]
    <2>1. CASE queueOf[s] = None
      <3>1. Lines[s] = <<>>
        BY <2>1, LinesAre DEF LineOf
      <3>2. HeldFor(bound, hand, m) = <<>>
        BY <1>10, HeldNone
      <3>3. HeldFor(bound, hand, m) \o content[m] = <<>>
        BY <1>10, <3>2
      <3>4. QED
        BY <1>11, <2>1, <3>1, <3>3
    <2>2. CASE queueOf[s] # None
      <3>1. Lines[s] = LineOf(bound, hand, content, queueOf[s]) /\ q = queueOf[s]
        BY <1>11, <2>2, LinesAre
      <3>2. QED
        BY <1>11, <3>1, Zenon DEF LineOf
    <2>3. QED
      BY <2>1, <2>2
  <1>14. ASSUME NEW t \in Sessions \ {s}
         PROVE  LineOf(bound', hand', content', queueOf'[t])
                = LineOf(bound, hand, content, queueOf[t])
    <2> DEFINE u == queueOf[t]
    <2>1. u # q /\ u \in Messages \cup {None}
      BY <1>3, <1>12
    <2>2. u # None => content'[u] = content[u]
      BY <1>2, <1>3, <2>1
    <2>3. LineOf(bound', hand', content', u) = LineOf(bound, hand, content, u)
      BY <1>2, <2>2, LineSame
    <2>4. QED
      BY <1>4, <2>3
  <1>15. LineOf(bound', hand', content', queueOf'[s]) = HeldFor(bound, hand, q) \o content'[q]
    BY <1>2, <1>4, <1>11, Zenon DEF LineOf
  <1>16. CASE content' = [content EXCEPT ![q] = Append(content[q], m)]
    <2>1. content'[q] = Append(content[q], m) /\ content[q] \in Seq(Messages)
      BY <1>3, <1>11, <1>16
    <2>2. HeldFor(bound, hand, q) \in Seq(Messages)
      BY <1>11, LedgerTypes, InHandIsHeld DEF ServiceInv
    <2>3. ASSUME NEW v \in Seq(Messages), NEW w \in Seq(Messages)
          PROVE  v \o Append(w, m) = Append(v \o w, m)
      OBVIOUS
    <2>4. HeldFor(bound, hand, q) \o content'[q] = Append(Lines[s], m)
      BY <1>13, <2>1, <2>2, <2>3, Zenon
    <2>5. Lines' = [Lines EXCEPT ![s] = Append(Lines[s], m)]
      BY <1>14, <1>15, <2>4, OneLine
    <2>6. Service!Wait(m, s)
      BY <1>6, <1>7, <1>8, <1>9, <2>5, Zenon DEF Service!Wait, Service!Comes
    <2>7. QED
      BY <2>6
  <1>17. CASE content' = content /\ Len(content[q]) >= Capacity
    <2>1. HeldFor(bound, hand, q) \o content'[q] = Lines[s]
      BY <1>13, <1>17
    <2>2. Lines' = [Lines EXCEPT ![s] = Lines[s]]
      BY <1>14, <1>15, <2>1, OneLine
    <2>3. Lines' = Lines
      BY <2>2 DEF Lines
    <2>4. Service!Refuse(m, s)
      BY <1>6, <1>7, <1>8, <1>9, <2>3, Zenon DEF Service!Refuse, Service!Comes
    <2>5. QED
      BY <2>4
  <1>18. QED
    BY <1>2, <1>16, <1>17

LEMMA ServiceStep ==
  ASSUME SerialClients, ServiceInv, ServiceInv', [Next]_vars
  PROVE  [Service!Next]_(Service!vars)
  <1>1. Unseen <=> UNCHANGED Service!vars
    BY Zenon DEF Unseen, Service!vars
  <1>2. ASSUME NEW m \in Messages, NEW s \in Sessions, Inject(m, s) \/ StartQuery(m, s)
        PROVE  Service!Next
    BY <1>2, InjectWaits, StartBegins, SerialClients, Zenon DEF Service!Next
  <1>3. ASSUME NEW m \in Messages, RunStep(m)
        PROVE  Service!Next \/ Unseen
    <2>1. CASE LoadSession(m)
      BY <2>1, LoadRecords, Zenon DEF Service!Next
    <2>2. CASE RejectQuery(m) \/ Finalize(m)
      BY <2>2, LastEnds, Zenon DEF Service!Next
    <2>3. CASE BeginLoop(m)
      BY <2>3, LoopAnswers, Zenon DEF Service!Next
    <2>4. CASE AddTaken(m)
      BY <2>4, AddDelivers, Zenon DEF Service!Next
    <2>5. CASE Take(m) \/ BindQueue(m)
      BY <2>5, TakeUnseen, BindUnseen
    <2>6. CASE \/ CreateTask(m) \/ SetRunning(m) \/ Submit(m) \/ PickUp(m)
               \/ SetCurrent(m) \/ Register(m)
      BY <2>6, WiringUnseen
    <2>7. CASE \/ EnterLoop(m) \/ NextIteration(m) \/ CallModel(m) \/ Continue(m)
               \/ Break(m) \/ Raise(m) \/ DropToken(m)
      BY <2>7, LoopUnseen
    <2>8. CASE AddFails(m)
      BY <2>8, AddFailsStores, Zenon DEF Service!Next
    <2>9. CASE BuildFails(m) \/ Return(m)
      BY <2>9, ReturnLeaves, Zenon DEF Service!Next
    <2>10. QED
      BY <1>3, <2>1, <2>2, <2>3, <2>4, <2>5, <2>6, <2>7, <2>8, <2>9, Zenon
         DEF RunStep, HandlerStep, WiringStep, LoopStep
  <1>4. CASE InterruptTask \/ (\E s \in Sessions : ResumeSession(s)) \/ UNCHANGED vars
    BY <1>1, <1>4, OthersUnseen, Zenon
  <1>5. QED
    BY <1>1, <1>2, <1>3, <1>4, Zenon DEF Next

(* With clients that wait for a dispatch, the server answers one query per *)
(* session at a time, and what comes meanwhile stands in line, in order,   *)
(* each once, forgotten at the start and at the end of an answer only: the *)
(* handlers, execute_query and the drains implement QueryService, for any  *)
(* number of messages, sessions and workers.                               *)
THEOREM ServerImplementsQueryService ==
  ASSUME SerialClients
  PROVE  Spec => ImplementsQueryService
  <1>1. Init => ServiceInv
    <2>1. Init => SerialInv
      BY DEF Init, SerialInv, OneActive, LiveIsMarked, Active,
             Dispatching, Live, Wiring, Looping, Leaving
    <2>2. QED
      BY <2>1, TypeInvInit, OnePlaceInit, LedgerInit, IdleIsCleanInit, QueueInvInit
         DEF ServiceInv
  <1>2. ServiceInv /\ [Next]_vars => ServiceInv'
    BY TypeInvStep, SerialInvStep, OnePlaceStep, LedgerStep, IdleIsCleanStep,
       QueueInvStep, SerialClients DEF ServiceInv
  <1>3. Init => Service!Init
    <2> SUFFICES ASSUME Init PROVE Service!Init
      OBVIOUS
    <2>1. Sent = {} /\ Log = <<>>
      BY DEF Init, Sent, Log
    <2>2. Lines = [s \in Sessions |-> <<>>]
      BY DEF Init, Lines, Line
    <2>3. \A s \in Sessions : Serving(s) = None
      <3>1. \A s \in Sessions : InPhase(s, Active) = {}
        BY DEF Init, InPhase, Active, Dispatching, Live, Wiring, Looping, Leaving
      <3>2. QED
        BY <3>1, Zenon DEF Serving
    <2>4. Serves = [s \in Sessions |-> None] /\ Stages = [s \in Sessions |-> "idle"]
      BY <2>3 DEF Serves, Stages, Stage
    <2>5. QED
      BY <2>1, <2>2, <2>4, Zenon DEF Service!Init
  <1>4. ServiceInv /\ ServiceInv' /\ [Next]_vars => [Service!Next]_(Service!vars)
    BY ServiceStep, SerialClients
  <1>5. QED
    BY <1>1, <1>2, <1>3, <1>4, PTL DEF Spec, ImplementsQueryService, Service!Spec
=============================================================================
