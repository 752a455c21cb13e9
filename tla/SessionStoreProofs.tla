-------------------------- MODULE SessionStoreProofs --------------------------
(***************************************************************************)
(* Theorems about SessionStore for any number of tasks, any interval of    *)
(* the autosave and any number of messages and restarts.                   *)
(*                                                                         *)
(* That the rows are in order while no side save has begun rests on        *)
(* OrderInv: there is one saver at a time, and every object that may still *)
(* be saved rises and is nowhere below the rows, so that the message that  *)
(* follows the last row is newer than it.  If tasks do not overlap at all  *)
(* (Alone), the rows are what the object of the task under way begins with *)
(* (AloneParts), and LagKept says how far it is ahead of them; LagBounded  *)
(* and the refinement of Transcript follow.  The bound on the number of    *)
(* messages in the type invariant counts the tasks that have begun.        *)
(***************************************************************************)
EXTENDS SessionStore, Integers, FiniteSetTheorems, TLAPS

(* Phases of a task whose object is not ready for use.                     *)
Unready == {"idle", "reading", "installing"}

(* Phases in which a query works on the current session.                   *)
Working == {"starting", "running"} \cup Saving

Types ==
    /\ pc \in [Tasks -> Phases]
    /\ messages \in [Tasks -> Seq(Nat)]
    /\ target \in [Tasks -> Tasks \cup {None}]
    /\ pos \in [Tasks -> Nat]
    /\ after \in [Tasks -> {"start", "resume", "end"}]
    /\ current \in Tasks \cup {None}
    /\ turn \in Nat
    /\ rows \in Seq(Nat)
    /\ sent \in Nat

(* Only what was sent is in an object or in a row.                         *)
AllSent(w) == \A i \in DOMAIN w : w[i] <= sent
OnlySent == AllSent(rows) /\ \A o \in Tasks : AllSent(messages[o])

(* Reloads do not save, and side saves do nothing else.                    *)
Kinds ==
    /\ \A t \in Reloads : pc[t] \notin Working
    /\ \A t \in Sides : /\ pc[t] \in {"idle", "done", "dead"} \cup Saving
                        /\ pc[t] \in Saving => after[t] = "end"

(* A query that works has a current session; what is current or being      *)
(* saved is an object that has been loaded; the first save of a query is   *)
(* of its own object.                                                      *)
ObjectsReady ==
    /\ \A q \in Queries : pc[q] \in Working => current \in Tasks
    /\ current \in Tasks => pc[current] \notin Unready
    /\ \A t \in Tasks : pc[t] \in Saving => /\ target[t] \in Tasks
                                            /\ pc[target[t]] \notin Unready
                                            /\ after[t] = "start" => target[t] = t

(* One query at a time (the assumption of the module about runs).          *)
OneQuery == \A p, q \in Queries : pc[p] \in Busy /\ pc[q] \in Busy => p = q

StoreInv == Types /\ OnlySent /\ Kinds /\ ObjectsReady /\ OneQuery

-----------------------------------------------------------------------------
(* Appending the next message, or one that is known, to a sequence.        *)
LEMMA AppendSent ==
  ASSUME NEW w \in Seq(Nat), NEW n \in Nat, NEW k \in Nat, NEW x \in Nat,
         \A i \in DOMAIN w : w[i] <= n, n <= k, x <= k
  PROVE  /\ Append(w, x) \in Seq(Nat)
         /\ \A i \in DOMAIN Append(w, x) : Append(w, x)[i] <= k
  OBVIOUS

LEMMA StoreInvInit == Init => StoreInv
  <1> SUFFICES ASSUME Init PROVE StoreInv
    OBVIOUS
  <1>1. <<>> \in Seq(Nat) /\ \A i \in DOMAIN <<>> : FALSE
    OBVIOUS
  <1>2. Types
    BY <1>1 DEF Init, Types, Phases
  <1>3. OnlySent
    BY DEF Init, OnlySent, AllSent
  <1>4. Kinds /\ ObjectsReady /\ OneQuery
    BY TasksAssumption
       DEF Init, Kinds, ObjectsReady, OneQuery, Working, Saving, Busy, Tasks
  <1>5. QED
    BY <1>2, <1>3, <1>4 DEF StoreInv

(* What AddTo does: one object grows by the next message.                  *)
LEMMA AddToSound ==
  ASSUME Types, OnlySent, NEW o \in Tasks, AddTo(o), UNCHANGED rows
  PROVE  /\ messages' \in [Tasks -> Seq(Nat)] /\ sent' = sent + 1 /\ sent' \in Nat
         /\ messages'[o] = Append(messages[o], sent + 1)
         /\ \A u \in Tasks \ {o} : messages'[u] = messages[u]
         /\ OnlySent'
  <1>1. /\ messages \in [Tasks -> Seq(Nat)] /\ sent \in Nat /\ rows \in Seq(Nat)
        /\ messages[o] \in Seq(Nat)
    BY DEF Types
  <1>2. sent' = sent + 1 /\ messages' = [messages EXCEPT ![o] = Append(messages[o], sent + 1)]
    BY DEF AddTo
  <1>3. /\ messages'[o] = Append(messages[o], sent + 1)
        /\ \A u \in Tasks \ {o} : messages'[u] = messages[u]
    BY <1>1, <1>2
  <1>4. /\ Append(messages[o], sent + 1) \in Seq(Nat)
        /\ \A i \in DOMAIN Append(messages[o], sent + 1) : Append(messages[o], sent + 1)[i] <= sent + 1
    <2>1. \A i \in DOMAIN messages[o] : messages[o][i] <= sent
      BY DEF OnlySent, AllSent
    <2>2. sent + 1 \in Nat /\ sent <= sent + 1
      BY <1>1
    <2>3. QED
      BY <1>1, <2>1, <2>2, AppendSent
  <1>5. messages' \in [Tasks -> Seq(Nat)]
    BY <1>1, <1>2, <1>4
  <1>6. \A w \in Seq(Nat) : AllSent(w) => \A i \in DOMAIN w : w[i] <= sent'
    BY <1>1, <1>2 DEF AllSent
  <1>7. \A i \in DOMAIN rows : rows[i] <= sent'
    BY <1>1, <1>6 DEF OnlySent
  <1>8. \A u \in Tasks : \A i \in DOMAIN messages'[u] : messages'[u][i] <= sent'
    <2>1. ASSUME NEW u \in Tasks \ {o}
          PROVE  \A i \in DOMAIN messages'[u] : messages'[u][i] <= sent'
      BY <1>1, <1>3, <1>6, <2>1 DEF OnlySent
    <2>2. \A i \in DOMAIN messages'[o] : messages'[o][i] <= sent'
      BY <1>2, <1>3, <1>4
    <2>3. QED
      BY <2>1, <2>2
  <1>9. QED
    BY <1>1, <1>2, <1>3, <1>5, <1>7, <1>8 DEF OnlySent, AllSent

(* Each action keeps StoreInv, conjunct by conjunct.                       *)
LEMMA BeginLoadInv ==
  ASSUME StoreInv, NEW t \in Tasks, BeginLoad(t)
  PROVE  StoreInv'
  <1>1. pc[t] = "idle" /\ pc' = [pc EXCEPT ![t] = "reading"] /\ t \in Queries \cup Reloads
        /\ UNCHANGED <<messages, target, pos, after, current, turn, rows, sent>>
        /\ (t \in Queries => \A q \in Queries : pc[q] \notin Busy)
    BY DEF BeginLoad, MayBegin, Goto
  <1>2. pc \in [Tasks -> Phases]
    BY DEF StoreInv, Types
  <1>3. pc'[t] = "reading" /\ \A u \in Tasks \ {t} : pc'[u] = pc[u]
    BY <1>1, <1>2
  <1>4. Types'
    BY <1>1 DEF StoreInv, Types, Phases, Busy
  <1>5. OnlySent'
    BY <1>1 DEF StoreInv, OnlySent, AllSent
  <1>6. Kinds'
    BY <1>1, <1>3, TasksAssumption DEF StoreInv, Kinds, Working, Saving, Tasks
  <1>7. ObjectsReady'
    BY <1>1, <1>3 DEF StoreInv, ObjectsReady, Working, Saving, Unready, Tasks
  <1>8. OneQuery'
    BY <1>1, <1>3 DEF StoreInv, OneQuery, Busy, Tasks
  <1>9. QED
    BY <1>4, <1>5, <1>6, <1>7, <1>8 DEF StoreInv

LEMMA ReadRowsInv ==
  ASSUME StoreInv, NEW t \in Tasks, ReadRows(t)
  PROVE  StoreInv'
  <1>1. pc[t] = "reading" /\ pc' = [pc EXCEPT ![t] = "installing"]
        /\ messages' = [messages EXCEPT ![t] = rows]
        /\ UNCHANGED <<target, pos, after, current, turn, rows, sent>>
    BY DEF ReadRows, Goto
  <1>2. pc \in [Tasks -> Phases] /\ messages \in [Tasks -> Seq(Nat)] /\ rows \in Seq(Nat)
    BY DEF StoreInv, Types
  <1>3. pc'[t] = "installing" /\ \A u \in Tasks \ {t} : pc'[u] = pc[u]
    BY <1>1, <1>2
  <1>4. messages'[t] = rows /\ \A u \in Tasks \ {t} : messages'[u] = messages[u]
    BY <1>1, <1>2
  <1>5. Types'
    BY <1>1 DEF StoreInv, Types, Phases, Busy
  <1>6. OnlySent'
    BY <1>1, <1>4 DEF StoreInv, OnlySent, AllSent
  <1>7. Kinds'
    BY <1>1, <1>3, TasksAssumption DEF StoreInv, Kinds, Working, Saving, Tasks
  <1>8. ObjectsReady'
    BY <1>1, <1>3 DEF StoreInv, ObjectsReady, Working, Saving, Unready, Tasks
  <1>9. OneQuery'
    BY <1>1, <1>3 DEF StoreInv, OneQuery, Busy, Tasks
  <1>10. QED
    BY <1>5, <1>6, <1>7, <1>8, <1>9 DEF StoreInv

LEMMA InstallInv ==
  ASSUME StoreInv, NEW t \in Tasks, InstallForReload(t) \/ InstallForQuery(t)
  PROVE  StoreInv'
  <1>1. pc \in [Tasks -> Phases] /\ messages \in [Tasks -> Seq(Nat)]
    BY DEF StoreInv, Types
  <1>2. CASE InstallForReload(t)
    <2>1. pc[t] = "installing" /\ t \in Reloads /\ pc' = [pc EXCEPT ![t] = "done"]
          /\ current' = t /\ turn' = Len(messages[t])
          /\ UNCHANGED <<messages, target, pos, after, rows, sent>>
      BY <1>2 DEF InstallForReload, Goto
    <2>2. pc'[t] = "done" /\ \A u \in Tasks \ {t} : pc'[u] = pc[u]
      BY <1>1, <2>1
    <2>3. turn' \in Nat
      BY <1>1, <2>1
    <2>4. Types'
      BY <2>1, <2>3 DEF StoreInv, Types, Phases, Busy
    <2>5. OnlySent'
      BY <2>1 DEF StoreInv, OnlySent, AllSent
    <2>6. Kinds'
      BY <2>1, <2>2, TasksAssumption DEF StoreInv, Kinds, Working, Saving, Tasks
    <2>7. ObjectsReady'
      BY <2>1, <2>2 DEF StoreInv, ObjectsReady, Working, Saving, Unready, Tasks
    <2>8. OneQuery'
      BY <2>1, <2>2, TasksAssumption DEF StoreInv, OneQuery, Busy, Saving, Tasks
    <2>9. QED
      BY <2>4, <2>5, <2>6, <2>7, <2>8 DEF StoreInv
  <1>3. CASE InstallForQuery(t)
    <2>1. pc[t] = "installing" /\ t \in Queries /\ pc' = [pc EXCEPT ![t] = "counting"]
          /\ current' = t /\ turn' = Len(messages[t]) /\ AddTo(t)
          /\ target' = [target EXCEPT ![t] = t] /\ after' = [after EXCEPT ![t] = "start"]
          /\ UNCHANGED <<pos, rows>>
      BY <1>3 DEF InstallForQuery, Save, Goto
    <2>2. pc'[t] = "counting" /\ \A u \in Tasks \ {t} : pc'[u] = pc[u]
      BY <1>1, <2>1
    <2>3. turn' \in Nat
      BY <1>1, <2>1
    <2>4. messages' \in [Tasks -> Seq(Nat)] /\ sent' \in Nat /\ OnlySent'
      BY <2>1, AddToSound DEF StoreInv
    <2>5. Types'
      BY <2>1, <2>3, <2>4 DEF StoreInv, Types, Phases, Busy, Saving
    <2>6. Kinds'
      BY <2>1, <2>2, TasksAssumption DEF StoreInv, Types, Kinds, Working, Saving, Tasks
    <2>7. target'[t] = t /\ \A u \in Tasks \ {t} : target'[u] = target[u]
      BY <2>1 DEF StoreInv, Types
    <2>8. ObjectsReady'
      BY <2>1, <2>2, <2>7 DEF StoreInv, ObjectsReady, Working, Saving, Unready, Tasks
    <2>9. OneQuery'
      BY <2>1, <2>2 DEF StoreInv, OneQuery, Busy, Saving, Tasks
    <2>10. QED
      BY <2>4, <2>5, <2>6, <2>8, <2>9 DEF StoreInv
  <1>4. QED
    BY <1>2, <1>3

LEMMA CountRowsInv ==
  ASSUME StoreInv, NEW t \in Tasks, CountRows(t)
  PROVE  StoreInv'
  <1>1. pc[t] = "counting" /\ pc' = [pc EXCEPT ![t] = "inserting"]
        /\ pos' = [pos EXCEPT ![t] = Len(rows)]
        /\ UNCHANGED <<messages, target, after, current, turn, rows, sent>>
    BY DEF CountRows, Goto
  <1>2. pc \in [Tasks -> Phases] /\ Len(rows) \in Nat
    BY DEF StoreInv, Types
  <1>3. pc'[t] = "inserting" /\ \A u \in Tasks \ {t} : pc'[u] = pc[u]
    BY <1>1, <1>2
  <1>4. Types'
    BY <1>1, <1>2 DEF StoreInv, Types, Phases, Busy, Saving
  <1>5. OnlySent'
    BY <1>1 DEF StoreInv, OnlySent, AllSent
  <1>6. Kinds'
    BY <1>1, <1>3 DEF StoreInv, Kinds, Working, Saving, Tasks
  <1>7. ObjectsReady'
    BY <1>1, <1>3 DEF StoreInv, ObjectsReady, Working, Saving, Unready, Tasks
  <1>8. OneQuery'
    BY <1>1, <1>3 DEF StoreInv, OneQuery, Busy, Saving, Tasks
  <1>9. QED
    BY <1>4, <1>5, <1>6, <1>7, <1>8 DEF StoreInv

(* The row that is inserted is one of the object that is saved.            *)
LEMMA InsertedRow ==
  ASSUME StoreInv, NEW t \in Tasks, InsertRow(t)
  PROVE  /\ pc[t] = "inserting" /\ target[t] \in Tasks /\ pos[t] \in Nat
         /\ messages[target[t]] \in Seq(Nat) /\ rows \in Seq(Nat)
         /\ pos[t] + 1 \in DOMAIN messages[target[t]]
         /\ messages[target[t]][pos[t] + 1] \in Nat
         /\ messages[target[t]][pos[t] + 1] <= sent
         /\ rows' = Append(rows, messages[target[t]][pos[t] + 1])
         /\ pos' = [pos EXCEPT ![t] = pos[t] + 1]
         /\ UNCHANGED <<pc, messages, target, after, current, turn, sent>>
  <1>1. /\ pc[t] = "inserting" /\ pos[t] < Len(messages[target[t]])
        /\ rows' = Append(rows, messages[target[t]][pos[t] + 1])
        /\ pos' = [pos EXCEPT ![t] = pos[t] + 1]
        /\ UNCHANGED <<pc, messages, target, after, current, turn, sent>>
    BY DEF InsertRow
  <1>2. target[t] \in Tasks
    BY <1>1 DEF StoreInv, ObjectsReady, Saving
  <1>3. messages[target[t]] \in Seq(Nat) /\ pos[t] \in Nat /\ rows \in Seq(Nat)
    BY <1>2 DEF StoreInv, Types
  <1>4. pos[t] + 1 \in DOMAIN messages[target[t]]
    BY <1>1, <1>3
  <1>5. messages[target[t]][pos[t] + 1] \in Nat
    BY <1>3, <1>4
  <1>6. messages[target[t]][pos[t] + 1] <= sent
    BY <1>2, <1>4 DEF StoreInv, OnlySent, AllSent
  <1>7. QED
    BY <1>1, <1>2, <1>3, <1>4, <1>5, <1>6

LEMMA InsertRowInv ==
  ASSUME StoreInv, NEW t \in Tasks, InsertRow(t)
  PROVE  StoreInv'
  <1> DEFINE x == messages[target[t]][pos[t] + 1]
  <1>1. /\ x \in Nat /\ x <= sent /\ rows' = Append(rows, x) /\ rows \in Seq(Nat)
        /\ pos[t] \in Nat /\ pos' = [pos EXCEPT ![t] = pos[t] + 1]
        /\ UNCHANGED <<pc, messages, target, after, current, turn, sent>>
    BY InsertedRow
  <1>2. sent \in Nat /\ sent <= sent /\ \A i \in DOMAIN rows : rows[i] <= sent
    BY DEF StoreInv, Types, OnlySent, AllSent
  <1>3. rows' \in Seq(Nat) /\ \A i \in DOMAIN rows' : rows'[i] <= sent
    <2> HIDE DEF x
    <2>1. QED
      BY <1>1, <1>2, AppendSent
  <1>4. pos' \in [Tasks -> Nat]
    BY <1>1 DEF StoreInv, Types
  <1>5. Types'
    BY <1>1, <1>3, <1>4 DEF StoreInv, Types
  <1>6. OnlySent'
    BY <1>1, <1>3 DEF StoreInv, OnlySent, AllSent
  <1>7. Kinds' /\ OneQuery'
    BY <1>1 DEF StoreInv, Kinds, OneQuery
  <1>8. ObjectsReady'
    BY <1>1 DEF StoreInv, ObjectsReady
  <1>9. QED
    BY <1>5, <1>6, <1>7, <1>8 DEF StoreInv

LEMMA SavedInv ==
  ASSUME StoreInv, NEW t \in Tasks, Saved(t)
  PROVE  StoreInv'
  <1>1. pc[t] = "inserting" /\ UNCHANGED <<messages, target, pos, after, current, turn, rows, sent>>
    BY DEF Saved
  <1>2. PICK p \in {"starting", "running", "done"} :
            /\ pc' = [pc EXCEPT ![t] = p]
            /\ after[t] = "end" => p = "done"
    <2>1. CASE after[t] = "start"
      BY <2>1 DEF Saved, Goto
    <2>2. CASE after[t] = "resume"
      BY <2>2 DEF Saved, Goto
    <2>3. CASE after[t] = "end"
      BY <2>3 DEF Saved, Goto
    <2>4. QED
      BY <2>1, <2>2, <2>3 DEF StoreInv, Types
  <1>3. pc'[t] = p /\ \A u \in Tasks \ {t} : pc'[u] = pc[u]
    BY <1>2 DEF StoreInv, Types
  <1>4. Types'
    BY <1>1, <1>2 DEF StoreInv, Types, Phases, Busy
  <1>5. OnlySent'
    BY <1>1 DEF StoreInv, OnlySent, AllSent
  <1>6. Kinds'
    BY <1>1, <1>2, <1>3, TasksAssumption DEF StoreInv, Kinds, Working, Saving, Tasks
  <1>7. ObjectsReady'
    BY <1>1, <1>3 DEF StoreInv, ObjectsReady, Working, Saving, Unready, Tasks
  <1>8. OneQuery'
    BY <1>1, <1>3 DEF StoreInv, OneQuery, Busy, Saving, Tasks
  <1>9. QED
    BY <1>4, <1>5, <1>6, <1>7, <1>8 DEF StoreInv

(* A task turns to a save of the current session.                          *)
LEMMA SaveCurrentInv ==
  ASSUME StoreInv, NEW t \in Tasks, NEW a \in {"resume", "end"},
         t \in Sides => a = "end", t \notin Reloads,
         t \in Queries => pc[t] \in Busy, current \in Tasks,
         Types', OnlySent', pc' = [pc EXCEPT ![t] = "counting"],
         target' = [target EXCEPT ![t] = current], after' = [after EXCEPT ![t] = a],
         UNCHANGED current
  PROVE  StoreInv'
  <1>1. /\ pc'[t] = "counting" /\ \A u \in Tasks \ {t} : pc'[u] = pc[u]
        /\ target'[t] = current /\ \A u \in Tasks \ {t} : target'[u] = target[u]
        /\ after'[t] = a /\ \A u \in Tasks \ {t} : after'[u] = after[u]
    BY DEF StoreInv, Types
  <1>2. Kinds'
    BY <1>1 DEF StoreInv, Kinds, Working, Saving, Tasks
  <1>3. ObjectsReady'
    BY <1>1 DEF StoreInv, ObjectsReady, Working, Saving, Unready, Tasks
  <1>4. OneQuery'
    BY <1>1 DEF StoreInv, OneQuery, Busy, Saving, Tasks
  <1>5. QED
    BY <1>2, <1>3, <1>4 DEF StoreInv

LEMMA SaveFailsInv ==
  ASSUME StoreInv, NEW t \in Tasks, SaveFails(t)
  PROVE  StoreInv'
  <1>1. pc[t] \in Saving /\ UNCHANGED <<messages, pos, current, turn, rows, sent>>
    BY DEF SaveFails
  <1>2. OnlySent'
    BY <1>1 DEF StoreInv, OnlySent, AllSent
  <1>3. CASE after[t] = "resume"
    <2>1. /\ pc' = [pc EXCEPT ![t] = "counting"] /\ target' = [target EXCEPT ![t] = current]
          /\ after' = [after EXCEPT ![t] = "end"]
      BY <1>3 DEF SaveFails, Save, Goto
    <2>2. t \notin Reloads /\ t \notin Sides
      BY <1>1, <1>3 DEF StoreInv, Kinds, Working, Saving
    <2>3. current \in Tasks /\ pc[t] \in Busy
      BY <1>1, <2>2 DEF StoreInv, ObjectsReady, Working, Busy, Tasks
    <2>4. Types'
      BY <1>1, <2>1, <2>3 DEF StoreInv, Types, Phases, Busy, Saving
    <2>5. QED
      BY <1>1, <1>2, <2>1, <2>2, <2>3, <2>4, SaveCurrentInv
  <1>4. CASE after[t] # "resume"
    <2>1. pc' = [pc EXCEPT ![t] = "done"] /\ UNCHANGED <<target, after>>
      BY <1>4 DEF SaveFails, Goto
    <2>2. pc'[t] = "done" /\ \A u \in Tasks \ {t} : pc'[u] = pc[u]
      BY <2>1 DEF StoreInv, Types
    <2>3. Types'
      BY <1>1, <2>1 DEF StoreInv, Types, Phases
    <2>4. Kinds'
      BY <1>1, <2>1, <2>2 DEF StoreInv, Kinds, Working, Saving, Tasks
    <2>5. ObjectsReady'
      BY <1>1, <2>1, <2>2 DEF StoreInv, ObjectsReady, Working, Saving, Unready, Tasks
    <2>6. OneQuery'
      BY <1>1, <2>2 DEF StoreInv, OneQuery, Busy, Saving, Tasks
    <2>7. QED
      BY <1>2, <2>3, <2>4, <2>5, <2>6 DEF StoreInv
  <1>5. QED
    BY <1>3, <1>4

LEMMA StartRunInv ==
  ASSUME StoreInv, NEW t \in Tasks, StartRun(t)
  PROVE  StoreInv'
  <1>1. pc[t] = "starting" /\ pc' = [pc EXCEPT ![t] = "running"] /\ current' = t
        /\ UNCHANGED <<messages, target, pos, after, turn, rows, sent>>
    BY DEF StartRun, Goto
  <1>2. pc'[t] = "running" /\ \A u \in Tasks \ {t} : pc'[u] = pc[u]
    BY <1>1 DEF StoreInv, Types
  <1>3. Types'
    BY <1>1 DEF StoreInv, Types, Phases, Busy
  <1>4. OnlySent'
    BY <1>1 DEF StoreInv, OnlySent, AllSent
  <1>5. Kinds'
    BY <1>1, <1>2 DEF StoreInv, Kinds, Working, Saving, Tasks
  <1>6. ObjectsReady'
    BY <1>1, <1>2 DEF StoreInv, ObjectsReady, Working, Saving, Unready, Tasks
  <1>7. OneQuery'
    BY <1>1, <1>2 DEF StoreInv, OneQuery, Busy, Saving, Tasks
  <1>8. QED
    BY <1>3, <1>4, <1>5, <1>6, <1>7 DEF StoreInv

(* A task that runs is a query, and has a current session to run on.       *)
LEMMA RunningQuery ==
  ASSUME StoreInv, NEW t \in Tasks, pc[t] \in {"starting", "running"}
  PROVE  t \in Queries /\ t \notin Reloads /\ t \notin Sides /\ current \in Tasks /\ pc[t] \in Busy
  <1>1. t \notin Reloads /\ t \notin Sides
    BY DEF StoreInv, Kinds, Working, Saving
  <1>2. t \in Queries /\ pc[t] \in Busy
    BY <1>1 DEF Tasks, Busy
  <1>3. QED
    BY <1>1, <1>2 DEF StoreInv, ObjectsReady, Working

LEMMA RunAddsInv ==
  ASSUME StoreInv, NEW t \in Tasks, RunAdds(t)
  PROVE  StoreInv'
  <1>1. pc[t] = "running" /\ AddTo(current) /\ turn' = turn + 1 /\ UNCHANGED <<pos, current, rows>>
    BY DEF RunAdds
  <1>2. t \in Queries /\ t \notin Reloads /\ t \notin Sides /\ current \in Tasks /\ pc[t] \in Busy
    BY <1>1, RunningQuery
  <1>3. messages' \in [Tasks -> Seq(Nat)] /\ sent' \in Nat /\ OnlySent'
    BY <1>1, <1>2, AddToSound DEF StoreInv
  <1>4. turn' \in Nat
    BY <1>1 DEF StoreInv, Types
  <1>5. CASE /\ pc' = [pc EXCEPT ![t] = "counting"] /\ target' = [target EXCEPT ![t] = current]
             /\ after' = [after EXCEPT ![t] = "resume"]
    <2>1. Types'
      BY <1>1, <1>2, <1>3, <1>4, <1>5 DEF StoreInv, Types, Phases, Busy, Saving
    <2>2. QED
      BY <1>1, <1>2, <1>3, <1>5, <2>1, SaveCurrentInv
  <1>6. CASE UNCHANGED <<pc, target, after>>
    <2>1. Types'
      BY <1>1, <1>3, <1>4, <1>6 DEF StoreInv, Types
    <2>2. Kinds' /\ OneQuery'
      BY <1>6 DEF StoreInv, Kinds, OneQuery
    <2>3. ObjectsReady'
      BY <1>1, <1>6 DEF StoreInv, ObjectsReady
    <2>4. QED
      BY <1>3, <2>1, <2>2, <2>3 DEF StoreInv
  <1>7. QED
    BY <1>5, <1>6 DEF RunAdds, Save, Goto

LEMMA RunEndsInv ==
  ASSUME StoreInv, NEW t \in Tasks, RunEnds(t)
  PROVE  StoreInv'
  <1>1. /\ pc[t] = "running" /\ pc' = [pc EXCEPT ![t] = "counting"]
        /\ target' = [target EXCEPT ![t] = current] /\ after' = [after EXCEPT ![t] = "end"]
        /\ UNCHANGED <<messages, pos, current, turn, rows, sent>>
    BY DEF RunEnds, Save, Goto
  <1>2. t \in Queries /\ t \notin Reloads /\ t \notin Sides /\ current \in Tasks /\ pc[t] \in Busy
    BY <1>1, RunningQuery
  <1>3. Types'
    BY <1>1, <1>2 DEF StoreInv, Types, Phases, Busy, Saving
  <1>4. OnlySent'
    BY <1>1 DEF StoreInv, OnlySent, AllSent
  <1>5. QED
    BY <1>1, <1>2, <1>3, <1>4, SaveCurrentInv

LEMMA SideSaveInv ==
  ASSUME StoreInv, NEW t \in Tasks, SideSave(t)
  PROVE  StoreInv'
  <1>1. /\ t \in Sides /\ pc[t] = "idle" /\ AddTo(current)
        /\ pc' = [pc EXCEPT ![t] = "counting"] /\ target' = [target EXCEPT ![t] = current]
        /\ after' = [after EXCEPT ![t] = "end"] /\ UNCHANGED <<pos, current, turn, rows>>
    BY DEF SideSave, MayBegin, Save, Goto
  <1>2. PICK q \in Queries : pc[q] \in Working
    BY DEF SideSave, Working
  <1>3. current \in Tasks
    BY <1>2 DEF StoreInv, ObjectsReady
  <1>4. t \notin Reloads /\ t \notin Queries
    BY <1>1, TasksAssumption
  <1>5. messages' \in [Tasks -> Seq(Nat)] /\ sent' \in Nat /\ OnlySent'
    BY <1>1, <1>3, AddToSound DEF StoreInv
  <1>6. Types'
    BY <1>1, <1>3, <1>5 DEF StoreInv, Types, Phases, Busy, Saving
  <1>7. QED
    BY <1>1, <1>3, <1>4, <1>5, <1>6, SaveCurrentInv

LEMMA RestartInv ==
  ASSUME StoreInv, Restart
  PROVE  StoreInv'
  <1>1. /\ pc' = [u \in Tasks |-> IF pc[u] \in Busy THEN "dead" ELSE pc[u]]
        /\ current' = None /\ turn' = 0 /\ UNCHANGED <<messages, target, pos, after, rows, sent>>
    BY DEF Restart
  <1>2. \A u \in Tasks : pc'[u] = (IF pc[u] \in Busy THEN "dead" ELSE pc[u])
    BY <1>1
  <1>3. \A u \in Tasks : pc'[u] \in Phases /\ pc'[u] \notin Busy
    BY <1>2 DEF StoreInv, Types, Phases, Busy, Saving
  <1>4. Types'
    BY <1>1, <1>3 DEF StoreInv, Types
  <1>5. OnlySent'
    BY <1>1 DEF StoreInv, OnlySent, AllSent
  <1>6. Kinds'
    BY <1>1, <1>2, <1>3 DEF StoreInv, Kinds, Working, Busy, Saving, Tasks
  <1>7. ObjectsReady'
    BY <1>1, <1>3, TasksAssumption DEF ObjectsReady, Working, Busy, Tasks
  <1>8. OneQuery'
    BY <1>3 DEF OneQuery, Tasks
  <1>9. QED
    BY <1>4, <1>5, <1>6, <1>7, <1>8 DEF StoreInv

LEMMA StoreInvStep == StoreInv /\ [Next]_vars => StoreInv'
  <1> SUFFICES ASSUME StoreInv, [Next]_vars PROVE StoreInv'
    OBVIOUS
  <1>1. ASSUME NEW t \in Tasks, BeginLoad(t) \/ SideSave(t) \/ SaveFails(t)
        PROVE  StoreInv'
    BY <1>1, BeginLoadInv, SideSaveInv, SaveFailsInv
  <1>2. ASSUME NEW t \in Tasks, TaskStep(t)
        PROVE  StoreInv'
    BY <1>2, ReadRowsInv, InstallInv, CountRowsInv, InsertRowInv, SavedInv,
       StartRunInv, RunAddsInv, RunEndsInv DEF TaskStep
  <1>3. CASE Restart
    BY <1>3, RestartInv
  <1>4. CASE UNCHANGED vars
    <2>1. UNCHANGED <<pc, messages, target, pos, after, current, turn, rows, sent>>
      BY <1>4 DEF vars, taskVars
    <2>2. Types' /\ OnlySent'
      BY <2>1 DEF StoreInv, Types, OnlySent, AllSent
    <2>3. Kinds' /\ ObjectsReady' /\ OneQuery'
      BY <2>1 DEF StoreInv, Kinds, ObjectsReady, OneQuery
    <2>4. QED
      BY <2>2, <2>3 DEF StoreInv
  <1>5. QED
    BY <1>1, <1>2, <1>3, <1>4 DEF Next

-----------------------------------------------------------------------------
(* The order of the rows.                                                  *)

Rising(w) == \A i, j \in DOMAIN w : i < j => w[i] < w[j]

NotBelow(w, v) == \A i \in DOMAIN w \cap DOMAIN v : v[i] <= w[i]

NoSides == \A d \in Sides : pc[d] = "idle"

(* The objects that may yet be saved. *)
InUse(o) ==
    \/ o = current
    \/ pc[o] \in {"installing", "starting"}
    \/ \E q \in Queries : pc[q] \in Saving /\ target[q] = o

ObjectsFit == \A o \in Tasks : InUse(o) => Rising(messages[o]) /\ NotBelow(messages[o], rows)

(* What is about to be installed, or was installed during a save, has      *)
(* nothing yet that the table lacks.                                       *)
NothingAhead ==
    /\ \A o \in Tasks : pc[o] = "installing" => Len(messages[o]) <= Len(rows)
    /\ \A q \in Queries : pc[q] \in Saving /\ current # target[q]
                            => Len(messages[current]) <= Len(rows)

AtTheLastRow == \A q \in Queries : pc[q] = "inserting" => pos[q] = Len(rows)

InOrder == Rising(rows) /\ ObjectsFit /\ NothingAhead /\ AtTheLastRow

OrderInv == NoSides => InOrder

(* A message newer than all others, at the end of an object.               *)
LEMMA RisingAppend ==
  ASSUME NEW w \in Seq(Nat), NEW v \in Seq(Nat), NEW n \in Nat, Rising(w), NotBelow(w, v),
         \A i \in DOMAIN w : w[i] <= n, \A i \in DOMAIN v : v[i] <= n
  PROVE  Rising(Append(w, n + 1)) /\ NotBelow(Append(w, n + 1), v)
  <1>1. n + 1 \in Nat /\ \A x \in Nat : x <= n => x < n + 1 /\ x <= n + 1
    OBVIOUS
  <1>2. \A i \in DOMAIN w : w[i] \in Nat /\ i \in Nat /\ i <= Len(w)
    OBVIOUS
  <1>3. \A i \in DOMAIN v : v[i] \in Nat
    OBVIOUS
  <1>4. \A i \in DOMAIN Append(w, n + 1) :
            \/ i \in DOMAIN w /\ Append(w, n + 1)[i] = w[i]
            \/ i = Len(w) + 1 /\ Append(w, n + 1)[i] = n + 1
    BY <1>1
  <1>5. Rising(Append(w, n + 1))
    <2>1. ASSUME NEW i \in DOMAIN Append(w, n + 1), NEW j \in DOMAIN Append(w, n + 1), i < j
          PROVE  i \in DOMAIN w
      BY <1>1, <2>1
    <2>2. QED
      BY <1>1, <1>2, <1>4, <2>1 DEF Rising
  <1>6. NotBelow(Append(w, n + 1), v)
    BY <1>1, <1>3, <1>4 DEF NotBelow
  <1>7. QED
    BY <1>5, <1>6

(* The row after the last one, from an object that is not below the rows.  *)
LEMMA RisingRows ==
  ASSUME NEW w \in Seq(Nat), NEW v \in Seq(Nat), Rising(w), Rising(v), NotBelow(w, v),
         Len(v) + 1 \in DOMAIN w
  PROVE  Rising(Append(v, w[Len(v) + 1])) /\ NotBelow(w, Append(v, w[Len(v) + 1]))
  <1> DEFINE x == w[Len(v) + 1]
             u == Append(v, x)
  <1>1. x \in Nat /\ \A i \in DOMAIN v : v[i] \in Nat /\ w[i] \in Nat /\ i \in DOMAIN w /\ i < Len(v) + 1
    OBVIOUS
  <1>2. \A i \in DOMAIN v : v[i] < x
    BY <1>1 DEF Rising, NotBelow
  <1>3. \A i \in DOMAIN u : (i \in DOMAIN v /\ u[i] = v[i]) \/ (i = Len(v) + 1 /\ u[i] = x)
    BY <1>1
  <1>4. Rising(u)
    <2>1. ASSUME NEW i \in DOMAIN u, NEW j \in DOMAIN u, i < j
          PROVE  i \in DOMAIN v
      BY <1>1, <2>1
    <2> HIDE DEF u, x
    <2>2. QED
      BY <1>2, <1>3, <2>1 DEF Rising
  <1>5. NotBelow(w, u)
    <2>1. x <= w[Len(v) + 1]
      BY <1>1
    <2> HIDE DEF u, x
    <2>2. QED
      BY <1>3, <2>1 DEF NotBelow
  <1>6. QED
    BY <1>4, <1>5

LEMMA ShortStaysFit ==
  ASSUME NEW w \in Seq(Nat), NEW v \in Seq(Nat), NEW x \in Nat, NotBelow(w, v), Len(w) <= Len(v)
  PROVE  NotBelow(w, Append(v, x)) /\ Len(w) <= Len(Append(v, x))
  <1>1. \A i \in DOMAIN w : i \in DOMAIN v /\ Append(v, x)[i] = v[i]
    OBVIOUS
  <1>2. Len(w) <= Len(Append(v, x))
    OBVIOUS
  <1>3. QED
    BY <1>1, <1>2 DEF NotBelow

(* The object that grows still fits.                                       *)
LEMMA GrownFits ==
  ASSUME StoreInv, NEW o \in Tasks, AddTo(o), UNCHANGED rows,
         Rising(messages[o]), NotBelow(messages[o], rows)
  PROVE  Rising(messages'[o]) /\ NotBelow(messages'[o], rows)
  <1>1. messages'[o] = Append(messages[o], sent + 1)
    BY AddToSound DEF StoreInv
  <1>2. /\ messages[o] \in Seq(Nat) /\ rows \in Seq(Nat) /\ sent \in Nat
        /\ \A i \in DOMAIN messages[o] : messages[o][i] <= sent
        /\ \A i \in DOMAIN rows : rows[i] <= sent
    BY DEF StoreInv, Types, OnlySent, AllSent
  <1>3. QED
    BY <1>1, <1>2, RisingAppend

(* Steps that leave the objects and the rows alone.                        *)
LEMMA OrderKept ==
  ASSUME InOrder, UNCHANGED <<messages, rows>>,
         \A o \in Tasks : InUse(o)' => InUse(o),
         \A o \in Tasks : pc'[o] = "installing" => pc[o] = "installing",
         \A q \in Queries : pc'[q] \in Saving /\ current' # target'[q]
                               => Len(messages[current']) <= Len(rows),
         AtTheLastRow'
  PROVE  InOrder'
  <1>1. Rising(rows)'
    BY DEF InOrder
  <1>2. ObjectsFit'
    BY DEF InOrder, ObjectsFit
  <1>3. NothingAhead'
    BY DEF InOrder, NothingAhead
  <1>4. QED
    BY <1>1, <1>2, <1>3 DEF InOrder

LEMMA OrderInvInit == Init => OrderInv
  <1> SUFFICES ASSUME Init PROVE InOrder
    BY DEF OrderInv
  <1>1. /\ \A t \in Tasks : pc[t] = "idle"
        /\ rows = <<>> /\ current = None
    BY DEF Init
  <1>2. \A o \in Tasks : ~InUse(o)
    BY <1>1, TasksAssumption DEF InUse, Saving, Tasks
  <1>3. Rising(rows)
    BY <1>1 DEF Rising
  <1>4. ObjectsFit /\ NothingAhead /\ AtTheLastRow
    BY <1>1, <1>2 DEF ObjectsFit, NothingAhead, AtTheLastRow, Saving, Tasks
  <1>5. QED
    BY <1>3, <1>4 DEF InOrder

LEMMA LoadOrder ==
  ASSUME StoreInv, InOrder, NEW t \in Tasks,
         BeginLoad(t) \/ ReadRows(t) \/ InstallForReload(t)
  PROVE  InOrder'
  <1>0. pc \in [Tasks -> Phases] /\ messages \in [Tasks -> Seq(Nat)] /\ rows \in Seq(Nat)
    BY DEF StoreInv, Types
  <1>1. CASE BeginLoad(t)
    <2>1. /\ pc[t] = "idle" /\ pc' = [pc EXCEPT ![t] = "reading"]
          /\ UNCHANGED <<messages, target, pos, current, rows>>
      BY <1>1 DEF BeginLoad, MayBegin, Goto
    <2>2. pc'[t] = "reading" /\ \A u \in Tasks \ {t} : pc'[u] = pc[u]
      BY <1>0, <2>1
    <2>3. \A o \in Tasks : InUse(o)' => InUse(o)
      BY <2>1, <2>2 DEF InUse, Saving, Tasks
    <2>4. \A o \in Tasks : pc'[o] = "installing" => pc[o] = "installing"
      BY <2>2
    <2>5. AtTheLastRow'
      BY <2>1, <2>2 DEF InOrder, AtTheLastRow, Tasks
    <2>6. \A q \in Queries : pc'[q] \in Saving /\ current' # target'[q]
                               => Len(messages[current']) <= Len(rows)
      BY <2>1, <2>2 DEF InOrder, NothingAhead, Saving, Tasks
    <2>7. QED
      BY <2>1, <2>3, <2>4, <2>5, <2>6, OrderKept
  <1>2. CASE ReadRows(t)
    <2>1. /\ pc[t] = "reading" /\ pc' = [pc EXCEPT ![t] = "installing"]
          /\ messages' = [messages EXCEPT ![t] = rows]
          /\ UNCHANGED <<target, pos, current, rows>>
      BY <1>2 DEF ReadRows, Goto
    <2>2. pc'[t] = "installing" /\ \A u \in Tasks \ {t} : pc'[u] = pc[u]
      BY <1>0, <2>1
    <2>3. messages'[t] = rows /\ \A u \in Tasks \ {t} : messages'[u] = messages[u]
      BY <1>0, <2>1
    <2>4. \A o \in Tasks \ {t} : InUse(o)' => InUse(o)
      BY <2>1, <2>2 DEF InUse, Saving, Tasks
    <2>5. Rising(rows) /\ NotBelow(rows, rows)
      <3>1. \A i \in DOMAIN rows : rows[i] <= rows[i]
        BY <1>0
      <3>2. QED
        BY <3>1 DEF InOrder, NotBelow
    <2>6. ObjectsFit'
      BY <2>1, <2>3, <2>4, <2>5 DEF InOrder, ObjectsFit
    <2>7. current # t
      BY <2>1 DEF StoreInv, ObjectsReady, Unready
    <2>8. \A o \in Tasks : pc'[o] = "installing" => Len(messages'[o]) <= Len(rows)
      BY <1>0, <2>2, <2>3 DEF InOrder, NothingAhead
    <2>9. \A q \in Queries : pc'[q] \in Saving /\ current # target[q]
                               => Len(messages'[current]) <= Len(rows)
      <3>1. \A q \in Queries : pc'[q] \in Saving => pc[q] \in Saving
        BY <2>2 DEF Saving, Tasks
      <3>2. \A q \in Queries : pc[q] \in Saving => current \in Tasks
        BY DEF StoreInv, ObjectsReady, Working
      <3>3. QED
        BY <2>3, <2>7, <3>1, <3>2 DEF InOrder, NothingAhead
    <2>10. NothingAhead'
      BY <2>1, <2>8, <2>9 DEF NothingAhead
    <2>11. AtTheLastRow'
      BY <2>1, <2>2 DEF InOrder, AtTheLastRow, Tasks
    <2>12. QED
      BY <2>1, <2>6, <2>10, <2>11 DEF InOrder
  <1>3. CASE InstallForReload(t)
    <2>1. /\ pc[t] = "installing" /\ pc' = [pc EXCEPT ![t] = "done"] /\ current' = t
          /\ UNCHANGED <<messages, target, pos, rows>>
      BY <1>3 DEF InstallForReload, Goto
    <2>2. pc'[t] = "done" /\ \A u \in Tasks \ {t} : pc'[u] = pc[u]
      BY <1>0, <2>1
    <2>3. \A o \in Tasks : InUse(o)' => InUse(o)
      BY <2>1, <2>2 DEF InUse, Saving, Tasks
    <2>4. \A o \in Tasks : pc'[o] = "installing" => pc[o] = "installing"
      BY <2>2
    <2>5. AtTheLastRow'
      BY <2>1, <2>2 DEF InOrder, AtTheLastRow, Tasks
    <2>6. Len(messages[current']) <= Len(rows)
      BY <2>1 DEF InOrder, NothingAhead
    <2>7. QED
      BY <2>1, <2>3, <2>4, <2>5, <2>6, OrderKept
  <1>4. QED
    BY <1>1, <1>2, <1>3

(* A query adds a message to the current object, and may turn to a save.   *)
LEMMA GrowOrder ==
  ASSUME StoreInv, InOrder, NEW t \in Queries, NEW o \in Tasks, AddTo(o),
         InUse(o), pc[t] \in Busy, UNCHANGED rows, pc[t] \notin Saving, pc'[t] # "inserting",
         \A u \in Tasks \ {t} : pc'[u] = pc[u],
         \A u \in Tasks \ {t} : target'[u] = target[u],
         UNCHANGED pos, pc'[t] \notin {"installing", "starting"},
         current' = o, pc'[t] \in Saving => target'[t] = o,
         \A u \in Tasks \ {t} : pc[u] = "installing" => u # o
  PROVE  InOrder'
  <1>1. messages'[o] = Append(messages[o], sent + 1)
        /\ \A u \in Tasks \ {o} : messages'[u] = messages[u]
    BY AddToSound DEF StoreInv
  <1>2. t \in Tasks /\ \A q \in Queries \ {t} : pc[q] \notin Saving /\ pc'[q] \notin Saving
    BY DEF StoreInv, OneQuery, Busy, Tasks
  <1>3. Rising(messages'[o]) /\ NotBelow(messages'[o], rows)
    BY GrownFits DEF InOrder, ObjectsFit
  <1>4. \A u \in Tasks \ {o} : InUse(u)' => InUse(u)
    BY <1>2 DEF InUse
  <1>5. ObjectsFit'
    BY <1>1, <1>3, <1>4 DEF InOrder, ObjectsFit
  <1>6. NothingAhead'
    BY <1>1, <1>2 DEF InOrder, NothingAhead
  <1>7. AtTheLastRow'
    BY <1>2 DEF AtTheLastRow, Saving
  <1>8. Rising(rows)'
    BY DEF InOrder
  <1>9. QED
    BY <1>5, <1>6, <1>7, <1>8 DEF InOrder

LEMMA AddOrder ==
  ASSUME StoreInv, InOrder, NEW t \in Tasks, InstallForQuery(t) \/ RunAdds(t)
  PROVE  InOrder'
  <1>0. pc \in [Tasks -> Phases] /\ target \in [Tasks -> Tasks \cup {None}]
    BY DEF StoreInv, Types
  <1>1. CASE InstallForQuery(t)
    <2>1. /\ pc[t] = "installing" /\ t \in Queries /\ pc' = [pc EXCEPT ![t] = "counting"]
          /\ current' = t /\ AddTo(t) /\ target' = [target EXCEPT ![t] = t] /\ UNCHANGED <<pos, rows>>
      BY <1>1 DEF InstallForQuery, Save, Goto
    <2>2. /\ pc'[t] = "counting" /\ target'[t] = t
          /\ \A u \in Tasks \ {t} : pc'[u] = pc[u] /\ target'[u] = target[u]
      BY <1>0, <2>1
    <2>3. InUse(t) /\ pc[t] \in Busy /\ pc[t] \notin Saving
      BY <2>1 DEF InUse, Busy, Saving
    <2>4. QED
      BY <2>1, <2>2, <2>3, GrowOrder
  <1>2. CASE RunAdds(t)
    <2>1. pc[t] = "running" /\ AddTo(current) /\ UNCHANGED <<pos, current, rows>>
      BY <1>2 DEF RunAdds
    <2>2. t \in Queries /\ current \in Tasks /\ pc[t] \in Busy /\ pc[t] \notin Saving
      BY <2>1, RunningQuery DEF Saving
    <2>3. InUse(current)
      BY DEF InUse
    <2>4. \A u \in Tasks : pc[u] = "installing" => u # current
      BY DEF StoreInv, ObjectsReady, Unready
    <2>5. CASE pc' = [pc EXCEPT ![t] = "counting"] /\ target' = [target EXCEPT ![t] = current]
      <3>1. /\ pc'[t] = "counting" /\ target'[t] = current
            /\ \A u \in Tasks \ {t} : pc'[u] = pc[u] /\ target'[u] = target[u]
        BY <1>0, <2>5
      <3>2. QED
        BY <2>1, <2>2, <2>3, <2>4, <3>1, GrowOrder
    <2>6. CASE UNCHANGED <<pc, target>>
      <3>1. pc'[t] = "running" /\ "running" \notin Saving
        BY <2>1, <2>6 DEF Saving
      <3>2. QED
        BY <2>1, <2>2, <2>3, <2>4, <2>6, <3>1, GrowOrder
    <2>7. QED
      BY <1>2, <2>5, <2>6 DEF RunAdds, Save, Goto
  <1>3. QED
    BY <1>1, <1>2

LEMMA InsertOrder ==
  ASSUME StoreInv, NoSides, InOrder, NEW t \in Tasks, InsertRow(t)
  PROVE  InOrder'
  <1> DEFINE w == messages[target[t]]
  <1>1. /\ pc[t] = "inserting" /\ target[t] \in Tasks /\ w \in Seq(Nat) /\ rows \in Seq(Nat)
        /\ pos[t] \in Nat /\ pos[t] + 1 \in DOMAIN w /\ rows' = Append(rows, w[pos[t] + 1])
        /\ pos' = [pos EXCEPT ![t] = pos[t] + 1] /\ w[pos[t] + 1] \in Nat
        /\ UNCHANGED <<pc, messages, target, current>>
    BY InsertedRow
  <1>2. t \in Queries
    BY <1>1 DEF NoSides, StoreInv, Kinds, Working, Saving, Tasks
  <1>3. pos[t] = Len(rows)
    BY <1>1, <1>2 DEF InOrder, AtTheLastRow
  <1>4. Rising(w) /\ NotBelow(w, rows)
    BY <1>1, <1>2 DEF InOrder, ObjectsFit, InUse, Saving
  <1>5. Rising(rows') /\ NotBelow(w, rows')
    <2> HIDE DEF w
    <2>1. QED
      BY <1>1, <1>3, <1>4, RisingRows DEF InOrder
  <1>6. \A o \in Tasks : InUse(o)' <=> InUse(o)
    BY <1>1 DEF InUse
  <1>7. \A q \in Queries : pc[q] \in {"starting"} \cup Saving => q = t
    BY <1>1, <1>2 DEF StoreInv, OneQuery, Busy, Saving
  <1>8. ASSUME NEW o \in Tasks, InUse(o), o # target[t]
        PROVE  Len(messages[o]) <= Len(rows)
    <2>1. CASE o = current
      BY <1>1, <1>2, <1>8, <2>1 DEF InOrder, NothingAhead, Saving
    <2>2. CASE pc[o] = "installing"
      BY <2>2 DEF InOrder, NothingAhead
    <2>3. pc[o] # "starting"
      <3>1. SUFFICES ASSUME pc[o] = "starting" PROVE FALSE
        OBVIOUS
      <3>2. o \in Queries
        BY <3>1, RunningQuery
      <3>3. QED
        BY <1>1, <1>7, <3>1, <3>2
    <2>4. QED
      BY <1>7, <1>8, <2>1, <2>2, <2>3 DEF InUse
  <1>9. \A o \in Tasks : messages[o] \in Seq(Nat)
    BY DEF StoreInv, Types
  <1>10. ObjectsFit'
    <2>1. ASSUME NEW o \in Tasks, InUse(o)
          PROVE  Rising(messages[o]) /\ NotBelow(messages[o], rows')
      <3>1. CASE o = target[t]
        BY <1>4, <1>5, <3>1
      <3>2. CASE o # target[t]
        BY <1>1, <1>8, <1>9, <2>1, <3>2, ShortStaysFit DEF InOrder, ObjectsFit
      <3>3. QED
        BY <3>1, <3>2
    <2>2. QED
      BY <1>1, <1>6, <2>1 DEF ObjectsFit
  <1>11. Len(rows') = Len(rows) + 1 /\ Len(rows) \in Nat
    BY <1>1
  <1>12. NothingAhead'
    <2>1. \A q \in Queries : pc[q] \in Saving => current \in Tasks
      BY DEF StoreInv, ObjectsReady, Working
    <2>2. \A o \in Tasks : Len(messages[o]) \in Nat
      BY <1>9
    <2>3. \A o \in Tasks : Len(messages[o]) <= Len(rows) => Len(messages[o]) <= Len(rows')
      BY <1>11, <2>2
    <2>4. QED
      BY <1>1, <2>1, <2>3 DEF InOrder, NothingAhead
  <1>13. AtTheLastRow'
    <2>1. pos'[t] = Len(rows')
      BY <1>1, <1>3, <1>11 DEF StoreInv, Types
    <2>2. QED
      BY <1>1, <1>7, <2>1 DEF AtTheLastRow, Saving
  <1>14. QED
    BY <1>5, <1>10, <1>12, <1>13 DEF InOrder

LEMMA SaveOrder ==
  ASSUME StoreInv, NoSides, InOrder, NEW t \in Tasks,
         CountRows(t) \/ Saved(t) \/ SaveFails(t) \/ StartRun(t) \/ RunEnds(t)
  PROVE  InOrder'
  <1>0. /\ pc \in [Tasks -> Phases] /\ target \in [Tasks -> Tasks \cup {None}]
        /\ pos \in [Tasks -> Nat]
    BY DEF StoreInv, Types
  <1>1. CASE CountRows(t)
    <2>1. /\ pc[t] = "counting" /\ pc' = [pc EXCEPT ![t] = "inserting"]
          /\ pos' = [pos EXCEPT ![t] = Len(rows)] /\ UNCHANGED <<messages, target, current, rows>>
      BY <1>1 DEF CountRows, Goto
    <2>2. /\ pc'[t] = "inserting" /\ pos'[t] = Len(rows)
          /\ \A u \in Tasks \ {t} : pc'[u] = pc[u] /\ pos'[u] = pos[u]
      BY <1>0, <2>1
    <2>3. \A q \in Queries : pc'[q] \in Saving => pc[q] \in Saving
      BY <2>1, <2>2 DEF Saving, Tasks
    <2>4. \A o \in Tasks : InUse(o)' => InUse(o)
      BY <2>1, <2>2, <2>3 DEF InUse
    <2>5. AtTheLastRow'
      BY <2>1, <2>2 DEF InOrder, AtTheLastRow, Tasks
    <2>6. \A o \in Tasks : pc'[o] = "installing" => pc[o] = "installing"
      BY <2>2
    <2>7. \A q \in Queries : pc'[q] \in Saving /\ current' # target'[q]
                               => Len(messages[current']) <= Len(rows)
      BY <2>1, <2>3 DEF InOrder, NothingAhead
    <2>8. QED
      BY <2>1, <2>4, <2>5, <2>6, <2>7, OrderKept
  <1>2. CASE Saved(t)
    <2>1. pc[t] = "inserting" /\ UNCHANGED <<messages, target, pos, current, rows>>
      BY <1>2 DEF Saved
    <2>2. PICK p \in {"starting", "running", "done"} :
              /\ pc' = [pc EXCEPT ![t] = p]
              /\ p = "starting" => after[t] = "start"
      <3>1. CASE after[t] = "start"
        BY <1>2, <3>1 DEF Saved, Goto
      <3>2. CASE after[t] = "resume"
        BY <1>2, <3>2 DEF Saved, Goto
      <3>3. CASE after[t] = "end"
        BY <1>2, <3>3 DEF Saved, Goto
      <3>4. QED
        BY <3>1, <3>2, <3>3 DEF StoreInv, Types
    <2>3. pc'[t] = p /\ \A u \in Tasks \ {t} : pc'[u] = pc[u]
      BY <1>0, <2>2
    <2>4. t \in Queries
      BY <2>1 DEF NoSides, StoreInv, Kinds, Working, Saving, Tasks
    <2>5. \A q \in Queries : pc'[q] \in Saving => pc[q] \in Saving
      BY <2>2, <2>3 DEF Saving, Tasks
    <2>6. \A o \in Tasks : InUse(o)' => InUse(o)
      <3>1. p = "starting" => InUse(t)
        BY <2>1, <2>2, <2>4 DEF StoreInv, ObjectsReady, InUse, Saving
      <3>2. QED
        BY <2>1, <2>2, <2>3, <2>5, <3>1 DEF InUse
    <2>7. \A o \in Tasks : pc'[o] = "installing" => pc[o] = "installing"
      BY <2>2, <2>3
    <2>8. AtTheLastRow'
      BY <2>1, <2>2, <2>3 DEF InOrder, AtTheLastRow, Tasks
    <2>9. \A q \in Queries : pc'[q] \in Saving /\ current' # target'[q]
                               => Len(messages[current']) <= Len(rows)
      BY <2>1, <2>5 DEF InOrder, NothingAhead
    <2>10. QED
      BY <2>1, <2>6, <2>7, <2>8, <2>9, OrderKept
  <1>3. CASE /\ UNCHANGED <<messages, pos, current, rows>>
             /\ pc' = [pc EXCEPT ![t] = "counting"] /\ target' = [target EXCEPT ![t] = current]
    <2>1. /\ pc'[t] = "counting" /\ target'[t] = current
          /\ \A u \in Tasks \ {t} : pc'[u] = pc[u] /\ target'[u] = target[u]
      BY <1>0, <1>3
    <2>2. \A o \in Tasks : InUse(o)' => InUse(o)
      BY <1>3, <2>1 DEF InUse, Tasks
    <2>3. \A o \in Tasks : pc'[o] = "installing" => pc[o] = "installing"
      BY <2>1
    <2>4. AtTheLastRow'
      BY <1>3, <2>1 DEF InOrder, AtTheLastRow, Tasks
    <2>5. \A q \in Queries : pc'[q] \in Saving /\ current' # target'[q]
                               => Len(messages[current']) <= Len(rows)
      BY <1>3, <2>1 DEF InOrder, NothingAhead, Tasks
    <2>6. QED
      BY <1>3, <2>2, <2>3, <2>4, <2>5, OrderKept
  <1>4. CASE SaveFails(t) /\ after[t] # "resume"
    <2>1. /\ pc[t] \in Saving /\ pc' = [pc EXCEPT ![t] = "done"]
          /\ UNCHANGED <<messages, target, pos, current, rows>>
      BY <1>4 DEF SaveFails, Goto
    <2>2. pc'[t] = "done" /\ \A u \in Tasks \ {t} : pc'[u] = pc[u]
      BY <1>0, <2>1
    <2>3. \A o \in Tasks : InUse(o)' => InUse(o)
      BY <2>1, <2>2 DEF InUse, Saving, Tasks
    <2>4. \A o \in Tasks : pc'[o] = "installing" => pc[o] = "installing"
      BY <2>2
    <2>5. AtTheLastRow'
      BY <2>1, <2>2 DEF InOrder, AtTheLastRow, Tasks
    <2>6. \A q \in Queries : pc'[q] \in Saving /\ current' # target'[q]
                               => Len(messages[current']) <= Len(rows)
      BY <2>1, <2>2 DEF InOrder, NothingAhead, Saving, Tasks
    <2>7. QED
      BY <2>1, <2>3, <2>4, <2>5, <2>6, OrderKept
  <1>5. CASE StartRun(t)
    <2>1. pc[t] = "starting" /\ pc' = [pc EXCEPT ![t] = "running"] /\ current' = t
          /\ UNCHANGED <<messages, target, pos, rows>>
      BY <1>5 DEF StartRun, Goto
    <2>2. pc'[t] = "running" /\ \A u \in Tasks \ {t} : pc'[u] = pc[u]
      BY <1>0, <2>1
    <2>3. t \in Queries /\ \A q \in Queries : pc'[q] \notin Saving
      BY <2>1, <2>2, RunningQuery DEF StoreInv, OneQuery, Busy, Saving, Tasks
    <2>4. \A o \in Tasks : InUse(o)' => InUse(o)
      BY <2>1, <2>2, <2>3 DEF InUse
    <2>5. \A o \in Tasks : pc'[o] = "installing" => pc[o] = "installing"
      BY <2>2
    <2>6. AtTheLastRow'
      BY <2>3 DEF AtTheLastRow, Saving
    <2>7. QED
      BY <2>1, <2>3, <2>4, <2>5, <2>6, OrderKept
  <1>6. CASE SaveFails(t) /\ after[t] = "resume"
    BY <1>3, <1>6 DEF SaveFails, Save, Goto
  <1>7. CASE RunEnds(t)
    BY <1>3, <1>7 DEF RunEnds, Save, Goto
  <1>8. QED
    BY <1>1, <1>2, <1>4, <1>5, <1>6, <1>7

LEMMA RestartOrder ==
  ASSUME StoreInv, InOrder, Restart
  PROVE  InOrder'
  <1>1. /\ pc' = [u \in Tasks |-> IF pc[u] \in Busy THEN "dead" ELSE pc[u]]
        /\ current' = None /\ UNCHANGED <<messages, rows>>
    BY DEF Restart
  <1>2. \A u \in Tasks : pc'[u] \notin Busy
    BY <1>1 DEF Busy, Saving
  <1>3. \A u \in Tasks : pc'[u] \notin Saving \cup {"installing", "starting"}
    BY <1>2 DEF Busy
  <1>4. \A o \in Tasks : ~InUse(o)'
    BY <1>1, <1>3, TasksAssumption DEF InUse, Tasks
  <1>5. AtTheLastRow'
    BY <1>3 DEF AtTheLastRow, Saving, Tasks
  <1>6. \A o \in Tasks : pc'[o] = "installing" => pc[o] = "installing"
    BY <1>3
  <1>7. \A q \in Queries : pc'[q] \notin Saving
    BY <1>3 DEF Tasks
  <1>8. QED
    BY <1>1, <1>4, <1>5, <1>6, <1>7, OrderKept

LEMMA OrderInvStep == StoreInv /\ OrderInv /\ [Next]_vars => OrderInv'
  <1> SUFFICES ASSUME StoreInv, OrderInv, [Next]_vars, NoSides' PROVE InOrder'
    BY DEF OrderInv
  <1>0. NoSides
    <2>1. ASSUME NEW d \in Sides, pc'[d] = "idle"
          PROVE  pc[d] = "idle"
      <3>0. pc \in [Tasks -> Phases] /\ d \in Tasks
        BY DEF StoreInv, Types, Tasks
      <3>1. CASE pc' = pc
        BY <2>1, <3>1
      <3>2. CASE \E t \in Tasks, p \in Phases \ {"idle"} : pc' = [pc EXCEPT ![t] = p]
        BY <2>1, <3>0, <3>2
      <3>3. CASE pc' = [u \in Tasks |-> IF pc[u] \in Busy THEN "dead" ELSE pc[u]]
        BY <2>1, <3>0, <3>3
      <3>4. QED
        BY <3>1, <3>2, <3>3
           DEF Next, vars, taskVars, TaskStep, BeginLoad, SideSave, SaveFails, ReadRows,
               InstallForReload, InstallForQuery, CountRows, InsertRow, Saved, StartRun,
               RunAdds, RunEnds, Restart, Save, Goto, Phases, Busy, Saving
    <2>2. QED
      BY <2>1 DEF NoSides
  <1>1. InOrder
    BY <1>0 DEF OrderInv
  <1>2. ASSUME NEW t \in Tasks, BeginLoad(t) \/ SaveFails(t) \/ TaskStep(t)
        PROVE  InOrder'
    BY <1>0, <1>1, <1>2, LoadOrder, AddOrder, InsertOrder, SaveOrder DEF TaskStep
  <1>3. ASSUME NEW t \in Tasks, SideSave(t)
        PROVE  InOrder'
    <2>1. t \in Sides /\ pc' = [pc EXCEPT ![t] = "counting"]
      BY <1>3 DEF SideSave, Save, Goto
    <2>2. pc'[t] = "counting"
      BY <2>1 DEF StoreInv, Types
    <2>3. QED
      BY <2>1, <2>2 DEF NoSides
  <1>4. CASE Restart
    BY <1>1, <1>4, RestartOrder
  <1>5. CASE UNCHANGED vars
    <2>1. UNCHANGED <<pc, messages, target, pos, current, rows>>
      BY <1>5 DEF vars, taskVars
    <2>2. \A o \in Tasks : InUse(o)' <=> InUse(o)
      BY <2>1 DEF InUse
    <2>3. QED
      BY <1>1, <2>1, <2>2, OrderKept DEF InOrder, NothingAhead, AtTheLastRow
  <1>6. QED
    BY <1>2, <1>3, <1>4, <1>5 DEF Next

(* Whatever is loaded, saved, failed or restarted meanwhile: until a deep  *)
(* skill saves a message beside a run, the rows of a conversation are in   *)
(* the order its messages were accepted, and none is inserted twice        *)
(* (save_session of PgSessionManager).                                     *)
THEOREM RowsStayInOrder == Spec => []RowsInOrderWithoutSides
  <1>1. Init => StoreInv /\ OrderInv
    BY StoreInvInit, OrderInvInit
  <1>2. StoreInv /\ OrderInv /\ [Next]_vars => (StoreInv /\ OrderInv)'
    BY StoreInvStep, OrderInvStep
  <1>3. OrderInv => RowsInOrderWithoutSides
    BY DEF OrderInv, NoSides, InOrder, Rising, RowsInOrderWithoutSides, RowsInOrder
  <1>4. QED
    BY <1>1, <1>2, <1>3, PTL DEF Spec

-----------------------------------------------------------------------------
(* Tasks that do not overlap.                                              *)

OneTask == \A t, u \in Tasks : pc[t] \in Busy /\ pc[u] \in Busy => t = u

OwnSession ==
    \A q \in Queries : pc[q] \in Working =>
        /\ current = q
        /\ pc[q] \in Saving => target[q] = q

BeginsWith(w, v) == Len(v) <= Len(w) /\ \A i \in DOMAIN v : w[i] = v[i]

RowsComeFirst ==
    /\ \A q \in Queries : pc[q] \in Working => BeginsWith(messages[q], rows)
    /\ \A t \in Tasks : pc[t] = "installing" => messages[t] = rows

(* How far the run is ahead of the table, if no save has failed.           *)
LagKept ==
    \/ failed
    \/ \A q \in Queries :
          /\ pc[q] = "starting" => Len(messages[q]) <= Len(rows)
          /\ pc[q] = "running" => Len(messages[q]) <= Len(rows) + (turn % Interval)

AloneParts == NoSides /\ OneTask /\ OwnSession /\ RowsComeFirst /\ AtTheLastRow

(* Division with remainder: what is left is unique, and counting one       *)
(* further adds one to it or starts again.                                 *)
LEMMA Remainder ==
  ASSUME NEW n \in Nat \ {0}, NEW a \in Nat
  PROVE  a % n \in 0 .. (n - 1) /\ a = n * (a \div n) + (a % n) /\ a \div n \in Nat
  OBVIOUS

LEMMA SameRemainder ==
  ASSUME NEW n \in Nat \ {0}, NEW q \in Nat, NEW r \in 0 .. (n - 1),
         NEW p \in Nat, NEW s \in 0 .. (n - 1), n * q + r = n * p + s
  PROVE  r = s
  <1>1. CASE q = p
    BY <1>1
  <1>2. CASE q > p
    <2>1. PICK d \in Nat : q = p + 1 + d
      <3>1. q - p - 1 \in Nat /\ q = p + 1 + (q - p - 1)
        BY <1>2
      <3>2. QED
        BY <3>1
    <2>2. n * q = n * p + n + n * d /\ n * d >= 0
      BY <2>1
    <2>3. QED
      BY <2>2
  <1>3. CASE q < p
    <2>1. PICK d \in Nat : p = q + 1 + d
      <3>1. p - q - 1 \in Nat /\ p = q + 1 + (p - q - 1)
        BY <1>3
      <3>2. QED
        BY <3>1
    <2>2. n * p = n * q + n + n * d /\ n * d >= 0
      BY <2>1
    <2>3. QED
      BY <2>2
  <1>4. QED
    BY <1>1, <1>2, <1>3

LEMMA NextRemainder ==
  ASSUME NEW n \in Nat \ {0}, NEW a \in Nat, (a + 1) % n # 0
  PROVE  (a + 1) % n = (a % n) + 1
  <1> DEFINE q == a \div n
             r == a % n
             p == (a + 1) \div n
             s == (a + 1) % n
  <1>1. r \in 0 .. (n - 1) /\ a = n * q + r /\ q \in Nat
    BY Remainder
  <1>2. a + 1 \in Nat
    OBVIOUS
  <1>3. s \in 0 .. (n - 1) /\ a + 1 = n * p + s /\ p \in Nat
    BY <1>2, Remainder
  <1>4. s # 0
    OBVIOUS
  <1> HIDE DEF q, r, p, s
  <1>5. s - 1 \in 0 .. (n - 1) /\ n * q + r = n * p + (s - 1)
    BY <1>1, <1>3, <1>4
  <1>6. r = s - 1
    BY <1>1, <1>3, <1>5, SameRemainder
  <1>7. s = r + 1
    BY <1>1, <1>3, <1>6
  <1>8. QED
    BY <1>7 DEF r, s

LEMMA AloneInit == Init => AloneParts /\ LagKept
  <1> SUFFICES ASSUME Init PROVE AloneParts /\ LagKept
    OBVIOUS
  <1>1. \A t \in Tasks : pc[t] = "idle"
    BY DEF Init
  <1>2. \A t \in Tasks : pc[t] \notin Busy /\ pc[t] \notin Working
    BY <1>1 DEF Busy, Working, Saving
  <1>3. NoSides /\ OneTask /\ OwnSession
    BY <1>1, <1>2 DEF NoSides, OneTask, OwnSession, Tasks
  <1>4. RowsComeFirst /\ AtTheLastRow /\ LagKept
    BY <1>1, <1>2 DEF RowsComeFirst, AtTheLastRow, LagKept, Tasks
  <1>5. QED
    BY <1>3, <1>4 DEF AloneParts

(* What a working query looks like when no other task is under way.        *)
LEMMA OnlyQuery ==
  ASSUME StoreInv, AloneParts, NEW t \in Tasks, pc[t] \in Working
  PROVE  /\ t \in Queries /\ pc[t] \in Busy /\ current = t /\ BeginsWith(messages[t], rows)
         /\ pc[t] \in Saving => target[t] = t
         /\ \A u \in Tasks \ {t} : pc[u] \notin Busy /\ pc[u] \notin Working
  <1>1. t \in Queries
    BY DEF AloneParts, NoSides, StoreInv, Kinds, Working, Saving, Tasks
  <1>2. pc[t] \in Busy /\ \A u \in Tasks : pc[u] \in Working => pc[u] \in Busy
    BY DEF Working, Busy
  <1>3. QED
    BY <1>1, <1>2 DEF AloneParts, OneTask, OwnSession, RowsComeFirst

(* A step of the one task under way, after which it works or has ended.    *)
LEMMA AloneMoves ==
  ASSUME StoreInv, AloneParts, NEW t \in Tasks, pc[t] \in Busy, t \notin Sides,
         \A u \in Tasks \ {t} : pc'[u] = pc[u],
         pc'[t] \notin {"idle", "installing"},
         pc'[t] \in Working => /\ t \in Queries /\ current' = t
                               /\ pc'[t] \in Saving => target'[t] = t
                               /\ BeginsWith(messages'[t], rows'),
         pc'[t] = "inserting" => pos'[t] = Len(rows')
  PROVE  AloneParts'
  <1>1. \A u \in Tasks \ {t} : pc[u] \notin Busy
    BY DEF AloneParts, OneTask
  <1>2. \A u \in Tasks \ {t} : pc'[u] \notin Busy /\ pc'[u] \notin Working
                               /\ pc'[u] # "installing" /\ pc'[u] # "inserting"
    BY <1>1 DEF Busy, Working, Saving
  <1>3. NoSides'
    BY DEF AloneParts, NoSides, Tasks
  <1>4. OneTask'
    BY <1>2 DEF OneTask
  <1>5. OwnSession'
    BY <1>2 DEF OwnSession, Tasks
  <1>6. RowsComeFirst'
    BY <1>2 DEF RowsComeFirst, Tasks
  <1>7. AtTheLastRow'
    BY <1>2 DEF AtTheLastRow, Tasks
  <1>8. QED
    BY <1>3, <1>4, <1>5, <1>6, <1>7 DEF AloneParts

LEMMA BeginAlone ==
  ASSUME Alone, StoreInv, AloneParts, LagKept, NEW t \in Tasks, BeginLoad(t)
  PROVE  AloneParts' /\ LagKept'
  <1>1. /\ pc' = [pc EXCEPT ![t] = "reading"] /\ t \in Queries \cup Reloads
        /\ \A u \in Tasks : pc[u] \notin Busy
    BY DEF BeginLoad, MayBegin, Goto
  <1>2. pc'[t] = "reading" /\ \A u \in Tasks \ {t} : pc'[u] = pc[u] /\ pc[u] \notin Busy
    BY <1>1 DEF StoreInv, Types
  <1>3. \A u \in Tasks : pc'[u] \notin Working \cup {"installing", "inserting", "starting", "running"}
    BY <1>2 DEF Working, Busy, Saving
  <1>4. NoSides'
    BY <1>1, <1>2, TasksAssumption DEF AloneParts, NoSides, Tasks
  <1>5. OneTask'
    BY <1>2 DEF OneTask
  <1>6. OwnSession' /\ AtTheLastRow'
    BY <1>3 DEF OwnSession, AtTheLastRow, Tasks
  <1>7. RowsComeFirst' /\ LagKept'
    BY <1>3 DEF RowsComeFirst, LagKept, Tasks
  <1>8. QED
    BY <1>4, <1>5, <1>6, <1>7 DEF AloneParts

(* Nothing can be saved beside a run if tasks do not overlap.              *)
LEMMA NoSideSave ==
  ASSUME Alone, StoreInv, NEW t \in Tasks, SideSave(t)
  PROVE  FALSE
  BY DEF SideSave, MayBegin, Busy, Tasks

LEMMA InstallAlone ==
  ASSUME StoreInv, AloneParts, LagKept, NEW t \in Tasks,
         ReadRows(t) \/ InstallForReload(t) \/ InstallForQuery(t)
  PROVE  AloneParts' /\ LagKept'
  <1>0. /\ pc \in [Tasks -> Phases] /\ messages \in [Tasks -> Seq(Nat)] /\ rows \in Seq(Nat)
        /\ target \in [Tasks -> Tasks \cup {None}] /\ sent \in Nat
    BY DEF StoreInv, Types
  <1>1. pc[t] \in {"reading", "installing"} /\ pc[t] \in Busy /\ t \notin Sides
    <2>1. pc[t] \in {"reading", "installing"}
      BY DEF ReadRows, InstallForReload, InstallForQuery
    <2>2. QED
      BY <2>1 DEF Busy, AloneParts, NoSides
  <1>2. PICK p \in {"installing", "done", "counting"} :
            /\ pc' = [pc EXCEPT ![t] = p]
            /\ p = "installing" => ReadRows(t)
            /\ p = "counting" => InstallForQuery(t)
    BY DEF ReadRows, InstallForReload, InstallForQuery, Save, Goto
  <1>3. pc'[t] = p /\ \A u \in Tasks \ {t} : pc'[u] = pc[u] /\ pc[u] \notin Busy
    BY <1>0, <1>1, <1>2 DEF AloneParts, OneTask
  <1>4. LagKept'
    <2>1. \A q \in Queries : pc'[q] \notin {"starting", "running"}
      BY <1>2, <1>3 DEF Busy, Tasks
    <2>2. QED
      BY <2>1 DEF LagKept
  <1>5. CASE p = "installing"
    <2>1. messages' = [messages EXCEPT ![t] = rows] /\ UNCHANGED <<rows, current>>
      BY <1>2, <1>5 DEF ReadRows
    <2>2. messages'[t] = rows'
      BY <1>0, <2>1
    <2>3. \A u \in Tasks : pc'[u] \notin Working /\ pc'[u] # "inserting"
      BY <1>3, <1>5 DEF Working, Saving, Busy
    <2>4. NoSides' /\ OneTask'
      BY <1>1, <1>3 DEF AloneParts, NoSides, OneTask, Tasks
    <2>5. OwnSession' /\ AtTheLastRow'
      BY <2>3 DEF OwnSession, AtTheLastRow, Tasks
    <2>6. RowsComeFirst'
      BY <1>3, <2>2, <2>3 DEF RowsComeFirst, Busy, Tasks
    <2>7. QED
      BY <1>4, <2>4, <2>5, <2>6 DEF AloneParts
  <1>6. CASE p = "done"
    <2>1. p \notin {"idle", "installing", "inserting"} /\ p \notin Working
      BY <1>6 DEF Working, Saving
    <2>2. QED
      BY <1>1, <1>3, <1>4, <2>1, AloneMoves
  <1>7. CASE p = "counting"
    <2>1. /\ pc[t] = "installing" /\ t \in Queries /\ AddTo(t) /\ current' = t
          /\ target' = [target EXCEPT ![t] = t] /\ UNCHANGED rows
      BY <1>2, <1>7 DEF InstallForQuery, Save
    <2>2. messages[t] = rows
      BY <2>1 DEF AloneParts, RowsComeFirst
    <2>3. messages'[t] = Append(rows, sent + 1) /\ target'[t] = t
      BY <1>0, <2>1, <2>2, AddToSound DEF StoreInv
    <2>4. BeginsWith(messages'[t], rows')
      BY <1>0, <2>1, <2>3 DEF BeginsWith
    <2>5. p \notin {"idle", "installing", "inserting"}
      BY <1>7
    <2>6. QED
      BY <1>1, <1>3, <1>4, <2>1, <2>3, <2>4, <2>5, AloneMoves
  <1>8. QED
    BY <1>5, <1>6, <1>7

(* The next message of an object that begins with the rows.                *)
LEMMA BeginsFurther ==
  ASSUME NEW w \in Seq(Nat), NEW v \in Seq(Nat), BeginsWith(w, v), Len(v) + 1 \in DOMAIN w
  PROVE  /\ Len(Append(v, w[Len(v) + 1])) = Len(v) + 1 /\ Len(v) < Len(w)
         /\ BeginsWith(w, Append(v, w[Len(v) + 1]))
  <1>1. w[Len(v) + 1] \in Nat /\ Len(v) \in Nat /\ Len(w) \in Nat
    OBVIOUS
  <1>2. Len(Append(v, w[Len(v) + 1])) = Len(v) + 1 /\ Len(v) < Len(w)
    BY <1>1
  <1>3. \A i \in DOMAIN Append(v, w[Len(v) + 1]) :
            \/ i \in DOMAIN v /\ Append(v, w[Len(v) + 1])[i] = v[i]
            \/ i = Len(v) + 1 /\ Append(v, w[Len(v) + 1])[i] = w[Len(v) + 1]
    BY <1>1
  <1>4. \A i \in DOMAIN Append(v, w[Len(v) + 1]) : w[i] = Append(v, w[Len(v) + 1])[i]
    BY <1>3 DEF BeginsWith
  <1>5. Len(Append(v, w[Len(v) + 1])) <= Len(w)
    BY <1>1, <1>2
  <1>6. QED
    BY <1>2, <1>4, <1>5 DEF BeginsWith

LEMMA InsertAlone ==
  ASSUME StoreInv, AloneParts, LagKept, NEW t \in Tasks, InsertRow(t)
  PROVE  /\ AloneParts' /\ LagKept'
         /\ pc[t] \in Working /\ UNCHANGED <<pc, messages, failed>>
         /\ Len(rows') = Len(rows) + 1 /\ Len(rows) < Len(messages[t])
  <1>1. /\ pc[t] = "inserting" /\ messages[target[t]] \in Seq(Nat) /\ rows \in Seq(Nat)
        /\ pos[t] \in Nat /\ pos[t] + 1 \in DOMAIN messages[target[t]]
        /\ rows' = Append(rows, messages[target[t]][pos[t] + 1])
        /\ messages[target[t]][pos[t] + 1] \in Nat
        /\ pos' = [pos EXCEPT ![t] = pos[t] + 1]
        /\ UNCHANGED <<pc, messages, target, after, current, turn, sent>>
    BY InsertedRow
  <1>2. pc[t] \in Working /\ pc[t] \in Saving
    BY <1>1 DEF Working, Saving
  <1>3. /\ t \in Queries /\ pc[t] \in Busy /\ current = t /\ BeginsWith(messages[t], rows)
        /\ target[t] = t /\ \A u \in Tasks \ {t} : pc[u] \notin Busy
    BY <1>2, OnlyQuery
  <1>4. pos[t] = Len(rows)
    BY <1>1, <1>3 DEF AloneParts, AtTheLastRow
  <1>5. Len(rows') = Len(rows) + 1 /\ Len(rows) < Len(messages[t]) /\ BeginsWith(messages[t], rows')
    <2> DEFINE w == messages[t]
    <2>1. /\ w \in Seq(Nat) /\ Len(rows) + 1 \in DOMAIN w /\ w[Len(rows) + 1] \in Nat
          /\ rows' = Append(rows, w[Len(rows) + 1]) /\ BeginsWith(w, rows)
      BY <1>1, <1>3, <1>4
    <2> HIDE DEF w
    <2>2. Len(rows') = Len(rows) + 1 /\ Len(rows) < Len(w) /\ BeginsWith(w, rows')
      BY <1>1, <2>1, BeginsFurther
    <2>3. QED
      BY <2>2 DEF w
  <1>6. pos'[t] = Len(rows')
    BY <1>1, <1>4, <1>5 DEF StoreInv, Types
  <1>7. t \notin Sides /\ pc[t] \notin {"idle", "installing"}
    BY <1>1, <1>3, TasksAssumption
  <1>8. AloneParts'
    BY <1>1, <1>2, <1>3, <1>5, <1>6, <1>7, AloneMoves
  <1>9. LagKept'
    <2>1. \A q \in Queries : pc'[q] \notin {"starting", "running"}
      BY <1>1, <1>3 DEF Busy, Tasks
    <2>2. QED
      BY <2>1 DEF LagKept
  <1>10. UNCHANGED failed
    BY DEF InsertRow
  <1>11. QED
    BY <1>1, <1>2, <1>5, <1>8, <1>9, <1>10

(* A working query that changes neither its object nor the rows.           *)
LEMMA WorkAlone ==
  ASSUME StoreInv, AloneParts, NEW t \in Tasks, pc[t] \in Working,
         UNCHANGED <<messages, rows>>, current' = t,
         NEW p \in {"running", "starting", "counting", "inserting", "done"}, pc' = [pc EXCEPT ![t] = p],
         p \in Saving => target'[t] = t,
         p = "inserting" => pos'[t] = Len(rows)
  PROVE  /\ AloneParts' /\ pc'[t] = p /\ t \in Queries
         /\ \A u \in Tasks \ {t} : pc'[u] = pc[u] /\ pc'[u] \notin Busy
  <1>1. /\ t \in Queries /\ pc[t] \in Busy /\ current = t /\ BeginsWith(messages[t], rows)
        /\ \A u \in Tasks \ {t} : pc[u] \notin Busy
    BY OnlyQuery
  <1>2. pc'[t] = p /\ \A u \in Tasks \ {t} : pc'[u] = pc[u]
    BY DEF StoreInv, Types
  <1>3. t \notin Sides
    BY <1>1, TasksAssumption
  <1>4. BeginsWith(messages'[t], rows')
    BY <1>1
  <1>5. p \notin {"idle", "installing"}
    OBVIOUS
  <1>6. AloneParts'
    BY <1>1, <1>2, <1>3, <1>4, <1>5, AloneMoves
  <1>7. QED
    BY <1>1, <1>2, <1>6

(* A save that has come to its end has put the whole object in the table.  *)
LEMMA SavedIsAll ==
  ASSUME StoreInv, AloneParts, NEW t \in Tasks, Saved(t)
  PROVE  /\ pc[t] \in Working /\ target[t] = t /\ current = t
         /\ messages[t] \in Seq(Nat) /\ rows \in Seq(Nat) /\ messages[t] = rows
         /\ UNCHANGED <<messages, target, pos, after, current, turn, rows, failed>>
  <1>1. /\ pc[t] = "inserting" /\ pos[t] >= Len(messages[target[t]])
        /\ UNCHANGED <<messages, target, pos, after, current, turn, rows, failed>>
    BY DEF Saved
  <1>2. pc[t] \in Working /\ pc[t] \in Saving
    BY <1>1 DEF Working, Saving
  <1>3. t \in Queries /\ target[t] = t /\ current = t /\ BeginsWith(messages[t], rows)
    BY <1>2, OnlyQuery
  <1>4. pos[t] = Len(rows)
    BY <1>1, <1>3 DEF AloneParts, AtTheLastRow
  <1>5. messages[t] \in Seq(Nat) /\ rows \in Seq(Nat)
    BY DEF StoreInv, Types
  <1>6. Len(rows) >= Len(messages[t]) /\ Len(rows) <= Len(messages[t])
        /\ \A i \in DOMAIN rows : messages[t][i] = rows[i]
    BY <1>1, <1>3, <1>4 DEF BeginsWith
  <1>7. messages[t] = rows
    <2> DEFINE w == messages[t]
    <2>1. w \in Seq(Nat) /\ Len(w) = Len(rows) /\ \A i \in DOMAIN rows : w[i] = rows[i]
      BY <1>5, <1>6
    <2> HIDE DEF w
    <2>2. w = [i \in 1 .. Len(w) |-> w[i]] /\ rows = [i \in 1 .. Len(rows) |-> rows[i]]
      BY <1>5, <2>1
    <2>3. \A i \in 1 .. Len(rows) : w[i] = rows[i]
      BY <1>5, <2>1
    <2>4. w = rows
      BY <2>1, <2>2, <2>3
    <2>5. QED
      BY <2>4 DEF w
  <1>8. QED
    BY <1>1, <1>2, <1>3, <1>5, <1>7

LEMMA SaveAlone ==
  ASSUME StoreInv, AloneParts, LagKept, NEW t \in Tasks,
         CountRows(t) \/ Saved(t) \/ SaveFails(t) \/ StartRun(t) \/ RunEnds(t)
  PROVE  AloneParts' /\ LagKept'
  <1>0. /\ target \in [Tasks -> Tasks \cup {None}] /\ pos \in [Tasks -> Nat]
        /\ turn \in Nat /\ messages \in [Tasks -> Seq(Nat)] /\ rows \in Seq(Nat)
    BY DEF StoreInv, Types
  <1>1. pc[t] \in Working
    BY DEF CountRows, Saved, SaveFails, StartRun, RunEnds, Working, Saving
  <1>2. current = t /\ (pc[t] \in Saving => target[t] = t)
    BY <1>1, OnlyQuery
  <1>3. turn % Interval \in Nat /\ Len(rows) \in Nat
    BY <1>0, BoundsAssumption, Remainder
  <1>4. CASE CountRows(t)
    <2>1. /\ pc[t] = "counting" /\ pc' = [pc EXCEPT ![t] = "inserting"]
          /\ pos' = [pos EXCEPT ![t] = Len(rows)] /\ UNCHANGED <<messages, target, current, rows>>
      BY <1>4 DEF CountRows, Goto
    <2>2. target'[t] = t /\ pos'[t] = Len(rows) /\ current' = t
      BY <1>0, <1>2, <2>1 DEF Saving
    <2>3. /\ AloneParts' /\ pc'[t] = "inserting"
          /\ \A u \in Tasks \ {t} : pc'[u] = pc[u] /\ pc'[u] \notin Busy
      BY <1>1, <2>1, <2>2, WorkAlone
    <2>4. \A q \in Queries : pc'[q] \notin {"starting", "running"}
      BY <2>3 DEF Busy, Tasks
    <2>5. QED
      BY <2>3, <2>4 DEF LagKept
  <1>5. CASE Saved(t)
    <2>1. messages[t] = rows /\ UNCHANGED <<messages, target, pos, after, current, turn, rows, failed>>
      BY <1>5, SavedIsAll
    <2>2. PICK p \in {"starting", "running", "done"} : pc' = [pc EXCEPT ![t] = p]
      <3>1. CASE after[t] = "start"
        BY <1>5, <3>1 DEF Saved, Goto
      <3>2. CASE after[t] = "resume"
        BY <1>5, <3>2 DEF Saved, Goto
      <3>3. CASE after[t] = "end"
        BY <1>5, <3>3 DEF Saved, Goto
      <3>4. QED
        BY <3>1, <3>2, <3>3 DEF StoreInv, Types
    <2>3. current' = t /\ p \notin Saving
      BY <1>2, <2>1 DEF Saving
    <2>4. /\ AloneParts' /\ pc'[t] = p
          /\ \A u \in Tasks \ {t} : pc'[u] = pc[u] /\ pc'[u] \notin Busy
      BY <1>1, <2>1, <2>2, <2>3, WorkAlone
    <2>5. Len(messages'[t]) <= Len(rows') /\ Len(messages'[t]) <= Len(rows') + (turn' % Interval)
      BY <1>3, <2>1
    <2>6. LagKept'
      BY <2>4, <2>5 DEF LagKept, Busy, Tasks
    <2>7. QED
      BY <2>4, <2>6
  <1>6. CASE SaveFails(t)
    <2>1. failed' /\ pc[t] \in Saving /\ UNCHANGED <<messages, pos, current, rows>>
      BY <1>6 DEF SaveFails
    <2>2. LagKept'
      BY <2>1 DEF LagKept
    <2>3. CASE after[t] = "resume"
      <3>1. pc' = [pc EXCEPT ![t] = "counting"] /\ target' = [target EXCEPT ![t] = current]
        BY <1>6, <2>3 DEF SaveFails, Save, Goto
      <3>2. target'[t] = t /\ current' = t
        BY <1>0, <1>2, <2>1, <3>1
      <3>3. AloneParts'
        BY <1>1, <2>1, <3>1, <3>2, WorkAlone
      <3>4. QED
        BY <2>2, <3>3
    <2>4. CASE after[t] # "resume"
      <3>1. pc' = [pc EXCEPT ![t] = "done"] /\ current' = t /\ "done" \notin Saving
        BY <1>2, <1>6, <2>1, <2>4 DEF SaveFails, Goto, Saving
      <3>2. AloneParts'
        BY <1>1, <2>1, <3>1, WorkAlone
      <3>3. QED
        BY <2>2, <3>2
    <2>5. QED
      BY <2>3, <2>4
  <1>7. CASE StartRun(t)
    <2>1. /\ pc[t] = "starting" /\ pc' = [pc EXCEPT ![t] = "running"] /\ current' = t
          /\ "running" \notin Saving /\ UNCHANGED <<messages, turn, rows, failed>>
      BY <1>7 DEF StartRun, Goto, Saving
    <2>2. /\ AloneParts' /\ pc'[t] = "running" /\ t \in Queries
          /\ \A u \in Tasks \ {t} : pc'[u] = pc[u] /\ pc'[u] \notin Busy
      BY <1>1, <2>1, WorkAlone
    <2>3. ~failed => Len(messages[t]) <= Len(rows)
      BY <2>1, <2>2 DEF LagKept
    <2>4. Len(messages[t]) \in Nat
      BY <1>0
    <2>5. ~failed => Len(messages'[t]) <= Len(rows') + (turn' % Interval)
      BY <1>3, <2>1, <2>3, <2>4
    <2>6. LagKept'
      BY <2>1, <2>2, <2>5 DEF LagKept, Busy, Tasks
    <2>7. QED
      BY <2>2, <2>6
  <1>8. CASE RunEnds(t)
    <2>1. /\ pc' = [pc EXCEPT ![t] = "counting"] /\ target' = [target EXCEPT ![t] = current]
          /\ UNCHANGED <<messages, current, rows>>
      BY <1>8 DEF RunEnds, Save, Goto
    <2>2. target'[t] = t /\ current' = t
      BY <1>0, <1>2, <2>1
    <2>3. /\ AloneParts' /\ pc'[t] = "counting"
          /\ \A u \in Tasks \ {t} : pc'[u] = pc[u] /\ pc'[u] \notin Busy
      BY <1>1, <2>1, <2>2, WorkAlone
    <2>4. \A q \in Queries : pc'[q] \notin {"starting", "running"}
      BY <2>3 DEF Busy, Tasks
    <2>5. QED
      BY <2>3, <2>4 DEF LagKept
  <1>9. QED
    BY <1>4, <1>5, <1>6, <1>7, <1>8

LEMMA RunAddsAlone ==
  ASSUME StoreInv, AloneParts, LagKept, NEW t \in Tasks, RunAdds(t)
  PROVE  /\ AloneParts' /\ LagKept'
         /\ pc[t] \in Working /\ pc'[t] \in Working /\ UNCHANGED <<rows, failed>>
         /\ messages'[t] = Append(messages[t], sent + 1) /\ sent < MaxMessages
  <1>0. /\ target \in [Tasks -> Tasks \cup {None}] /\ pc \in [Tasks -> Phases]
        /\ turn \in Nat /\ messages \in [Tasks -> Seq(Nat)] /\ rows \in Seq(Nat) /\ sent \in Nat
    BY DEF StoreInv, Types
  <1>1. /\ pc[t] = "running" /\ AddTo(current) /\ turn' = turn + 1 /\ sent < MaxMessages
        /\ UNCHANGED <<pos, current, rows, failed>>
    BY DEF RunAdds
  <1>2. pc[t] \in Working
    BY <1>1 DEF Working
  <1>3. /\ t \in Queries /\ pc[t] \in Busy /\ current = t /\ BeginsWith(messages[t], rows)
        /\ \A u \in Tasks \ {t} : pc[u] \notin Busy
    BY <1>2, OnlyQuery
  <1>4. messages'[t] = Append(messages[t], sent + 1)
    BY <1>1, <1>3, AddToSound DEF StoreInv
  <1>5. BeginsWith(messages'[t], rows') /\ Len(messages'[t]) = Len(messages[t]) + 1
    BY <1>0, <1>1, <1>3, <1>4 DEF BeginsWith
  <1>6. t \notin Sides
    BY <1>3, TasksAssumption
  <1>7. CASE turn' % Interval = 0
    <2>1. pc' = [pc EXCEPT ![t] = "counting"] /\ target' = [target EXCEPT ![t] = current]
      BY <1>7 DEF RunAdds, Save, Goto
    <2>2. pc'[t] = "counting" /\ \A u \in Tasks \ {t} : pc'[u] = pc[u]
      BY <1>0, <2>1
    <2>3. target'[t] = t /\ current' = t
      BY <1>0, <1>1, <1>3, <2>1
    <2>4. AloneParts'
      BY <1>3, <1>5, <1>6, <2>2, <2>3, AloneMoves
    <2>5. \A q \in Queries : pc'[q] \notin {"starting", "running"}
      BY <1>3, <2>2 DEF Busy, Tasks
    <2>6. LagKept' /\ pc'[t] \in Working
      BY <2>2, <2>5 DEF LagKept, Working, Saving
    <2>7. QED
      BY <1>1, <1>2, <1>4, <2>4, <2>6
  <1>8. CASE turn' % Interval # 0
    <2>1. UNCHANGED <<pc, target>>
      BY <1>8 DEF RunAdds
    <2>2. current' = t /\ pc'[t] = "running" /\ "running" \notin Saving
      BY <1>1, <1>3, <2>1 DEF Saving
    <2>3. AloneParts'
      BY <1>3, <1>5, <1>6, <2>1, <2>2, AloneMoves
    <2>4. turn' % Interval = (turn % Interval) + 1 /\ turn % Interval \in Nat
      <3>1. Interval \in Nat \ {0} /\ (turn + 1) % Interval # 0
        BY <1>1, <1>8, BoundsAssumption
      <3>2. (turn + 1) % Interval = (turn % Interval) + 1
        BY <1>0, <3>1, NextRemainder
      <3>3. turn % Interval \in 0 .. (Interval - 1)
        BY <1>0, <3>1, Remainder
      <3>4. QED
        BY <1>1, <3>1, <3>2, <3>3
    <2>5. failed \/ Len(messages[t]) <= Len(rows) + (turn % Interval)
      BY <1>1, <1>3 DEF LagKept
    <2>6. Len(messages[t]) \in Nat /\ Len(rows) \in Nat
      BY <1>0
    <2>7. failed' \/ Len(messages'[t]) <= Len(rows') + (turn' % Interval)
      BY <1>1, <1>5, <2>4, <2>5, <2>6
    <2>8. LagKept'
      BY <1>1, <1>3, <2>1, <2>2, <2>7 DEF LagKept, Busy, Tasks
    <2>9. QED
      BY <1>1, <1>2, <1>4, <2>1, <2>3, <2>8
  <1>9. QED
    BY <1>7, <1>8

LEMMA RestartAlone ==
  ASSUME StoreInv, AloneParts, Restart
  PROVE  AloneParts' /\ LagKept' /\ \A u \in Tasks : pc'[u] \notin Busy
  <1>1. pc' = [u \in Tasks |-> IF pc[u] \in Busy THEN "dead" ELSE pc[u]] /\ failed'
    BY DEF Restart
  <1>2. \A u \in Tasks : pc'[u] = (IF pc[u] \in Busy THEN "dead" ELSE pc[u])
    BY <1>1
  <1>3. \A u \in Tasks : pc'[u] \notin Busy
    BY <1>2 DEF Busy, Saving
  <1>4. \A u \in Tasks : pc'[u] \notin Working /\ pc'[u] # "installing" /\ pc'[u] # "inserting"
    BY <1>3 DEF Busy, Working, Saving
  <1>5. NoSides'
    BY <1>2 DEF AloneParts, NoSides, Busy, Saving, Tasks
  <1>6. OneTask' /\ OwnSession'
    BY <1>3, <1>4 DEF OneTask, OwnSession, Tasks
  <1>7. RowsComeFirst' /\ AtTheLastRow'
    BY <1>4 DEF RowsComeFirst, AtTheLastRow, Tasks
  <1>8. QED
    BY <1>1, <1>3, <1>5, <1>6, <1>7 DEF AloneParts, LagKept

LEMMA AloneStep ==
  ASSUME Alone
  PROVE  StoreInv /\ AloneParts /\ LagKept /\ [Next]_vars => (AloneParts /\ LagKept)'
  <1> SUFFICES ASSUME StoreInv, AloneParts, LagKept, [Next]_vars PROVE AloneParts' /\ LagKept'
    OBVIOUS
  <1>1. ASSUME NEW t \in Tasks, BeginLoad(t) \/ SideSave(t) \/ SaveFails(t)
        PROVE  AloneParts' /\ LagKept'
    BY <1>1, BeginAlone, NoSideSave, SaveAlone
  <1>2. ASSUME NEW t \in Tasks, TaskStep(t)
        PROVE  AloneParts' /\ LagKept'
    BY <1>2, InstallAlone, SaveAlone, InsertAlone, RunAddsAlone DEF TaskStep
  <1>3. CASE Restart
    BY <1>3, RestartAlone
  <1>4. CASE UNCHANGED vars
    <2>1. UNCHANGED <<pc, messages, target, pos, current, turn, rows, failed>>
      BY <1>4 DEF vars, taskVars
    <2>2. NoSides' /\ OneTask' /\ OwnSession' /\ AtTheLastRow'
      BY <2>1 DEF AloneParts, NoSides, OneTask, OwnSession, AtTheLastRow
    <2>3. RowsComeFirst' /\ LagKept'
      BY <2>1 DEF AloneParts, RowsComeFirst, BeginsWith, LagKept
    <2>4. QED
      BY <2>2, <2>3 DEF AloneParts
  <1>5. QED
    BY <1>1, <1>2, <1>3, <1>4 DEF Next

(* In a conversation touched by one task at a time, whatever the interval  *)
(* of the autosave: as long as no save fails, a run is never a whole       *)
(* interval ahead of the table (the modulus test of add_message in         *)
(* PgSessionManager).                                                      *)
THEOREM CrashLosesLittle ==
  ASSUME Alone
  PROVE  Spec => []LagBounded
  <1>1. Init => StoreInv /\ AloneParts /\ LagKept
    BY StoreInvInit, AloneInit
  <1>2. StoreInv /\ AloneParts /\ LagKept /\ [Next]_vars
           => (StoreInv /\ AloneParts /\ LagKept)'
    BY StoreInvStep, AloneStep
  <1>3. StoreInv /\ AloneParts /\ LagKept => LagBounded
    <2> SUFFICES ASSUME StoreInv, AloneParts, LagKept, NEW t \in Tasks, pc[t] = "running", ~failed
                 PROVE  Len(messages[current]) < Len(rows) + Interval
      BY DEF LagBounded
    <2>1. t \in Queries /\ current = t
      BY OnlyQuery DEF Working
    <2>2. Len(messages[t]) <= Len(rows) + (turn % Interval)
      BY <2>1 DEF LagKept
    <2>3. turn \in Nat /\ Len(messages[t]) \in Nat /\ Len(rows) \in Nat
      BY DEF StoreInv, Types
    <2>4. turn % Interval \in 0 .. (Interval - 1)
      BY <2>3, BoundsAssumption, Remainder
    <2>5. QED
      BY <2>1, <2>2, <2>3, <2>4, BoundsAssumption
  <1>4. QED
    BY <1>1, <1>2, <1>3, PTL DEF Spec

-----------------------------------------------------------------------------
(* The refinement of Transcript.                                           *)

(* Each query sends one message of its own, beside those of the runs.      *)
Begun == {q \in Queries : pc[q] \notin Unready}

SentBounded == sent <= MaxMessages + Cardinality(Begun)

LEMMA LogOfQuery ==
  ASSUME NEW t \in Queries, pc[t] \in Working, \A q \in Queries \ {t} : pc[q] \notin Working
  PROVE  Log = messages[t]
  <1>1. Live = {t}
    BY DEF Live, Working
  <1>2. QED
    BY <1>1 DEF Log

LEMMA LogOfQueryNext ==
  ASSUME NEW t \in Queries, pc'[t] \in Working, \A q \in Queries \ {t} : pc'[q] \notin Working
  PROVE  Log' = messages'[t]
  <1>1. Live' = {t}
    BY DEF Live, Working
  <1>2. QED
    BY <1>1 DEF Log

LEMMA LogAtRest ==
  ASSUME \A q \in Queries : pc[q] \notin Working
  PROVE  Log = rows
  <1>1. Live = {}
    BY DEF Live, Working
  <1>2. QED
    BY <1>1 DEF Log

LEMMA LogAtRestNext ==
  ASSUME \A q \in Queries : pc'[q] \notin Working
  PROVE  Log' = rows'
  <1>1. Live' = {}
    BY DEF Live, Working
  <1>2. QED
    BY <1>1 DEF Log

LEMMA CutToRows ==
  ASSUME NEW w \in Seq(Nat), NEW v \in Seq(Nat), BeginsWith(w, v)
  PROVE  SubSeq(w, 1, Len(v)) = v
  <1>1. Len(v) \in Nat /\ Len(w) \in Nat /\ Len(v) <= Len(w)
    BY DEF BeginsWith
  <1>2. SubSeq(w, 1, Len(v)) = [i \in 1 .. Len(v) |-> w[i]]
    BY <1>1
  <1>3. \A i \in 1 .. Len(v) : w[i] = v[i]
    BY DEF BeginsWith
  <1>4. v = [i \in 1 .. Len(v) |-> v[i]]
    OBVIOUS
  <1>5. QED
    BY <1>2, <1>3, <1>4

(* The task under way, before and after a step in which it works on.       *)
LEMMA WorkSeen ==
  ASSUME StoreInv, AloneParts, NEW t \in Tasks, pc[t] \in Working
  PROVE  /\ Log = messages[t] /\ t \in Queries
         /\ SubSeq(Log, 1, Len(rows)) = rows
  <1>1. /\ t \in Queries /\ BeginsWith(messages[t], rows)
        /\ \A u \in Tasks \ {t} : pc[u] \notin Working
    BY OnlyQuery
  <1>2. Log = messages[t]
    BY <1>1, LogOfQuery DEF Tasks
  <1>3. messages[t] \in Seq(Nat) /\ rows \in Seq(Nat)
    BY DEF StoreInv, Types
  <1>4. QED
    BY <1>1, <1>2, <1>3, CutToRows

LEMMA BoundedInit ==
  ASSUME IsFiniteSet(Queries \cup Sides)
  PROVE  Init => SentBounded
  <1> SUFFICES ASSUME Init PROVE SentBounded
    OBVIOUS
  <1>1. Begun = {}
    BY DEF Init, Begun, Unready, Tasks
  <1>2. Cardinality(Begun) = 0
    BY <1>1, FS_EmptySet
  <1>3. QED
    BY <1>2, BoundsAssumption DEF Init, SentBounded

LEMMA BegunFinite ==
  ASSUME IsFiniteSet(Queries \cup Sides)
  PROVE  /\ IsFiniteSet(Begun) /\ Cardinality(Begun) \in Nat
         /\ IsFiniteSet(Begun') /\ Cardinality(Begun') \in Nat
         /\ Cardinality(Begun') <= Cardinality(Queries \cup Sides)
         /\ Cardinality(Queries \cup Sides) \in Nat
  <1>1. Begun \subseteq Queries \cup Sides /\ Begun' \subseteq Queries \cup Sides
    BY DEF Begun
  <1>2. QED
    BY <1>1, FS_Subset, FS_CardinalityType

(* What is begun stays so, and the first save of a query is its beginning. *)
LEMMA BegunGrows ==
  ASSUME StoreInv, [Next]_vars
  PROVE  Begun \subseteq Begun'
  <1>1. ASSUME NEW q \in Queries, pc[q] \notin Unready
        PROVE  pc'[q] \notin Unready
    <2>0. pc \in [Tasks -> Phases] /\ q \in Tasks
      BY DEF StoreInv, Types, Tasks
    <2>1. CASE pc' = pc
      BY <1>1, <2>1
    <2>2. CASE \E t \in Tasks, p \in Phases \ Unready : pc' = [pc EXCEPT ![t] = p]
      BY <1>1, <2>0, <2>2
    <2>3. CASE \E t \in Tasks : pc[t] \in Unready /\ \E p \in Phases : pc' = [pc EXCEPT ![t] = p]
      BY <1>1, <2>0, <2>3
    <2>4. CASE pc' = [u \in Tasks |-> IF pc[u] \in Busy THEN "dead" ELSE pc[u]]
      BY <1>1, <2>0, <2>4 DEF Unready
    <2>5. QED
      BY <2>1, <2>2, <2>3, <2>4
         DEF Next, vars, taskVars, TaskStep, BeginLoad, MayBegin, SideSave, SaveFails, ReadRows,
             InstallForReload, InstallForQuery, CountRows, InsertRow, Saved, StartRun,
             RunAdds, RunEnds, Restart, Save, Goto, Phases, Busy, Saving, Unready
  <1>2. QED
    BY <1>1 DEF Begun

LEMMA BoundedStep ==
  ASSUME Alone, IsFiniteSet(Queries \cup Sides), StoreInv, SentBounded, [Next]_vars
  PROVE  /\ SentBounded'
         /\ \A t \in Tasks : InstallForQuery(t) \/ RunAdds(t) => sent + 1 \in Message
  <1>1. /\ IsFiniteSet(Begun) /\ Cardinality(Begun) \in Nat
        /\ IsFiniteSet(Begun') /\ Cardinality(Begun') \in Nat
        /\ Cardinality(Begun') <= Cardinality(Queries \cup Sides)
        /\ Cardinality(Queries \cup Sides) \in Nat
    BY BegunFinite
  <1>2. Begun \subseteq Begun'
    BY BegunGrows
  <1>3. Cardinality(Begun) <= Cardinality(Begun')
    BY <1>1, <1>2, FS_Subset
  <1>4. sent \in Nat /\ MaxMessages \in Nat /\ sent <= MaxMessages + Cardinality(Begun)
    BY BoundsAssumption DEF StoreInv, Types, SentBounded
  <1>5. CASE sent' = sent /\ \A t \in Tasks : ~InstallForQuery(t) /\ ~RunAdds(t)
    BY <1>1, <1>3, <1>4, <1>5 DEF SentBounded
  <1>6. ASSUME NEW t \in Tasks, RunAdds(t)
        PROVE  sent' = sent + 1 /\ sent + 1 <= MaxMessages
    BY <1>4, <1>6 DEF RunAdds, AddTo
  <1>7. ASSUME NEW t \in Tasks, InstallForQuery(t)
        PROVE  sent' = sent + 1 /\ Cardinality(Begun) + 1 <= Cardinality(Begun')
    <2>1. /\ pc[t] = "installing" /\ t \in Queries /\ pc' = [pc EXCEPT ![t] = "counting"]
          /\ sent' = sent + 1
      BY <1>7 DEF InstallForQuery, AddTo, Save, Goto
    <2>2. pc'[t] = "counting"
      BY <2>1 DEF StoreInv, Types
    <2>3. t \notin Begun /\ t \in Begun'
      BY <2>1, <2>2 DEF Begun, Unready
    <2>4. Cardinality(Begun \cup {t}) = Cardinality(Begun) + 1 /\ IsFiniteSet(Begun \cup {t})
      BY <1>1, <2>3, FS_AddElement
    <2>5. Begun \cup {t} \subseteq Begun'
      BY <1>2, <2>3
    <2>6. Cardinality(Begun \cup {t}) <= Cardinality(Begun')
      BY <1>1, <2>5, FS_Subset
    <2>7. QED
      BY <2>1, <2>4, <2>6
  <1>8. \A t \in Tasks : InstallForQuery(t) \/ RunAdds(t) => sent + 1 \in Message
    <2>1. ASSUME NEW t \in Tasks, InstallForQuery(t) \/ RunAdds(t)
          PROVE  sent + 1 \in 1 .. (MaxMessages + Cardinality(Queries \cup Sides))
      BY <1>1, <1>4, <1>6, <1>7, <2>1
    <2>2. QED
      BY <2>1 DEF Message
  <1>9. SentBounded'
    <2>1. CASE \E t \in Tasks : RunAdds(t)
      BY <1>1, <1>4, <1>6, <2>1 DEF SentBounded
    <2>2. CASE \E t \in Tasks : InstallForQuery(t)
      BY <1>1, <1>4, <1>7, <2>2 DEF SentBounded
    <2>3. CASE UNCHANGED sent
      BY <1>1, <1>3, <1>4, <2>3 DEF SentBounded
    <2>4. QED
      BY <2>1, <2>2, <2>3, NoSideSave
         DEF Next, vars, TaskStep, BeginLoad, SaveFails, ReadRows, InstallForReload,
             CountRows, InsertRow, Saved, StartRun, RunEnds, Restart
  <1>10. QED
    BY <1>8, <1>9

(* Steps before a query works: nothing of them shows.                      *)
LEMMA LoadRefines ==
  ASSUME Alone, StoreInv, AloneParts, StoreInv', AloneParts', NEW t \in Tasks,
         BeginLoad(t) \/ ReadRows(t) \/ InstallForReload(t)
  PROVE  UNCHANGED <<Log, Len(rows), failed>>
  <1>1. /\ pc[t] \notin Working /\ UNCHANGED <<rows, failed>>
        /\ \E p \in {"reading", "installing", "done"} : pc' = [pc EXCEPT ![t] = p]
    BY DEF BeginLoad, MayBegin, ReadRows, InstallForReload, Goto, Working, Saving
  <1>2. pc'[t] \notin Working /\ \A u \in Tasks \ {t} : pc'[u] = pc[u]
    BY <1>1 DEF StoreInv, Types, Working, Saving
  <1>3. \A u \in Tasks \ {t} : pc[u] \notin Working
    <2>1. pc[t] \in Busy \/ \A u \in Tasks : pc[u] \notin Busy
      BY DEF BeginLoad, MayBegin, ReadRows, InstallForReload, Busy
    <2>2. \A u \in Tasks \ {t} : pc[u] \notin Busy
      BY <2>1 DEF AloneParts, OneTask
    <2>3. QED
      BY <2>2 DEF Working, Busy
  <1>4. Log = rows
    BY <1>1, <1>3, LogAtRest DEF Tasks
  <1>5. Log' = rows'
    BY <1>2, <1>3, LogAtRestNext DEF Tasks
  <1>6. QED
    BY <1>1, <1>4, <1>5

(* The two ways in which a message is accepted.                            *)
LEMMA AcceptRefines ==
  ASSUME StoreInv, AloneParts, StoreInv', AloneParts', LagKept, NEW t \in Tasks,
         InstallForQuery(t) \/ RunAdds(t), sent + 1 \in Message
  PROVE  T!Accept(sent + 1)
  <1>1. /\ Log' = Append(Log, sent + 1) /\ UNCHANGED <<rows, failed>>
    <2>1. CASE RunAdds(t)
      <3>1. /\ pc[t] \in Working /\ pc'[t] \in Working /\ UNCHANGED <<rows, failed>>
            /\ messages'[t] = Append(messages[t], sent + 1)
        BY <2>1, RunAddsAlone
      <3>2. Log = messages[t] /\ t \in Queries
        BY <3>1, WorkSeen
      <3>3. pc[t] \in Busy /\ \A q \in Queries \ {t} : pc[q] \notin Working /\ pc'[q] = pc[q]
        <4>1. \A q \in Queries \ {t} : pc[q] \notin Working
          BY <3>1, OnlyQuery DEF Tasks
        <4>2. \A q \in Queries \ {t} : pc'[q] = pc[q]
          BY <2>1 DEF RunAdds, Save, Goto, StoreInv, Types, Tasks
        <4>3. QED
          BY <3>1, <4>1, <4>2 DEF Busy, Working
      <3>4. Log' = messages'[t]
        BY <3>1, <3>2, <3>3, LogOfQueryNext
      <3>5. QED
        BY <3>1, <3>2, <3>4
    <2>2. CASE InstallForQuery(t)
      <3>1. /\ pc[t] = "installing" /\ t \in Queries /\ pc' = [pc EXCEPT ![t] = "counting"]
            /\ AddTo(t) /\ UNCHANGED <<rows, failed>>
        BY <2>2 DEF InstallForQuery, Save, Goto
      <3>2. messages[t] = rows
        BY <3>1 DEF AloneParts, RowsComeFirst
      <3>3. messages'[t] = Append(rows, sent + 1)
        BY <3>1, <3>2, AddToSound DEF StoreInv
      <3>4. pc'[t] = "counting" /\ \A u \in Tasks \ {t} : pc'[u] = pc[u] /\ pc[u] \notin Busy
        BY <3>1 DEF StoreInv, Types, AloneParts, OneTask, Busy
      <3>5. \A q \in Queries \ {t} : pc[q] \notin Working /\ pc'[q] \notin Working
        BY <3>4 DEF Busy, Working, Tasks
      <3>6. pc[t] \notin Working /\ pc'[t] \in Working
        BY <3>1, <3>4 DEF Working, Saving
      <3>7. Log = rows
        BY <3>5, <3>6, LogAtRest
      <3>8. Log' = messages'[t]
        BY <3>1, <3>5, <3>6, LogOfQueryNext
      <3>9. QED
        BY <3>1, <3>3, <3>7, <3>8
    <2>3. QED
      BY <2>1, <2>2
  <1>2. QED
    BY <1>1 DEF T!Accept

LEMMA InsertRefines ==
  ASSUME StoreInv, AloneParts, LagKept, NEW t \in Tasks, InsertRow(t)
  PROVE  T!Persist
  <1>1. /\ pc[t] \in Working /\ UNCHANGED <<pc, messages, failed>>
        /\ Len(rows') = Len(rows) + 1 /\ Len(rows) < Len(messages[t])
    BY InsertAlone
  <1>2. Log = messages[t] /\ t \in Queries
    BY <1>1, WorkSeen
  <1>3. \A q \in Queries \ {t} : pc'[q] \notin Working
    BY <1>1, OnlyQuery DEF Tasks
  <1>4. Log' = messages'[t]
    BY <1>1, <1>2, <1>3, LogOfQueryNext
  <1>5. QED
    BY <1>1, <1>2, <1>4 DEF T!Persist

(* Steps of a save or of a run that put nothing into the table.            *)
LEMMA SaveRefines ==
  ASSUME StoreInv, AloneParts, NEW t \in Tasks,
         CountRows(t) \/ Saved(t) \/ SaveFails(t) \/ StartRun(t) \/ RunEnds(t)
  PROVE  T!Fail \/ T!Forget \/ UNCHANGED <<Log, Len(rows), failed>>
  <1>1. /\ pc[t] \in Working /\ UNCHANGED <<messages, rows>>
        /\ \E p \in {"inserting", "starting", "running", "counting", "done"} :
              pc' = [pc EXCEPT ![t] = p]
    <2>1. CASE Saved(t)
      <3>1. pc[t] \in Working /\ UNCHANGED <<messages, rows>>
        BY <2>1, SavedIsAll
      <3>2. CASE after[t] = "start"
        BY <2>1, <3>1, <3>2 DEF Saved, Goto
      <3>3. CASE after[t] = "resume"
        BY <2>1, <3>1, <3>3 DEF Saved, Goto
      <3>4. CASE after[t] = "end"
        BY <2>1, <3>1, <3>4 DEF Saved, Goto
      <3>5. QED
        BY <3>2, <3>3, <3>4 DEF StoreInv, Types
    <2>2. CASE CountRows(t) \/ SaveFails(t) \/ StartRun(t) \/ RunEnds(t)
      BY <2>2 DEF CountRows, SaveFails, StartRun, RunEnds, Save, Goto, Working, Saving
    <2>3. QED
      BY <2>1, <2>2
  <1>2. Log = messages[t] /\ t \in Queries /\ SubSeq(Log, 1, Len(rows)) = rows
    BY <1>1, WorkSeen
  <1>3. \A q \in Queries \ {t} : pc'[q] \notin Working
    <2>1. \A q \in Queries \ {t} : pc[q] \notin Working
      BY <1>1, OnlyQuery DEF Tasks
    <2>2. \A q \in Queries \ {t} : pc'[q] = pc[q]
      BY <1>1 DEF StoreInv, Types, Tasks
    <2>3. QED
      BY <2>1, <2>2
  <1>4. CASE pc'[t] \in Working
    <2>1. Log' = messages'[t]
      BY <1>2, <1>3, <1>4, LogOfQueryNext
    <2>2. Log' = Log
      BY <1>1, <1>2, <2>1
    <2>3. CASE SaveFails(t)
      BY <1>1, <2>2, <2>3 DEF SaveFails, T!Fail
    <2>4. CASE CountRows(t) \/ Saved(t) \/ StartRun(t) \/ RunEnds(t)
      BY <1>1, <2>2, <2>4 DEF CountRows, Saved, StartRun, RunEnds
    <2>5. QED
      BY <2>3, <2>4
  <1>5. CASE pc'[t] \notin Working
    <2>1. Log' = rows
      BY <1>1, <1>3, <1>5, LogAtRestNext
    <2>2. CASE SaveFails(t)
      BY <1>1, <1>2, <2>1, <2>2 DEF SaveFails, T!Forget
    <2>3. CASE Saved(t)
      BY <1>1, <1>2, <2>1, <2>3, SavedIsAll
    <2>4. CASE CountRows(t) \/ StartRun(t) \/ RunEnds(t)
      <3>1. pc'[t] \in {"inserting", "running", "counting"}
        BY <2>4 DEF CountRows, StartRun, RunEnds, Save, Goto, StoreInv, Types
      <3>2. QED
        BY <1>5, <3>1 DEF Working, Saving
    <2>5. QED
      BY <2>2, <2>3, <2>4
  <1>6. QED
    BY <1>4, <1>5

LEMMA RestartRefines ==
  ASSUME StoreInv, AloneParts, Restart
  PROVE  T!Forget
  <1>1. failed' /\ UNCHANGED rows
    BY DEF Restart
  <1>2. \A q \in Queries : pc'[q] \notin Working
    BY RestartAlone DEF Busy, Working, Tasks
  <1>3. Log' = rows
    BY <1>1, <1>2, LogAtRestNext
  <1>4. SubSeq(Log, 1, Len(rows)) = rows
    <2>1. CASE \E t \in Tasks : pc[t] \in Working
      BY <2>1, WorkSeen
    <2>2. CASE \A t \in Tasks : pc[t] \notin Working
      <3>1. Log = rows /\ rows \in Seq(Nat)
        BY <2>2, LogAtRest DEF Tasks, StoreInv, Types
      <3>2. BeginsWith(rows, rows)
        BY <3>1 DEF BeginsWith
      <3>3. QED
        BY <3>1, <3>2, CutToRows
    <2>3. QED
      BY <2>1, <2>2
  <1>5. failed' = TRUE
    BY DEF Restart
  <1>6. QED
    BY <1>1, <1>3, <1>4, <1>5 DEF T!Forget

LEMMA TranscriptStep ==
  ASSUME Alone, IsFiniteSet(Queries \cup Sides)
  PROVE  /\ StoreInv /\ AloneParts /\ LagKept /\ SentBounded
         /\ StoreInv' /\ AloneParts' /\ [Next]_vars
         => [T!Next]_(T!vars)
  <1> SUFFICES ASSUME StoreInv, AloneParts, LagKept, SentBounded, StoreInv', AloneParts', [Next]_vars
               PROVE  T!Next \/ UNCHANGED <<Log, Len(rows), failed>>
    BY DEF T!vars
  <1>1. ASSUME NEW t \in Tasks, BeginLoad(t) \/ ReadRows(t) \/ InstallForReload(t)
        PROVE  UNCHANGED <<Log, Len(rows), failed>>
    BY <1>1, LoadRefines
  <1>2. ASSUME NEW t \in Tasks, InstallForQuery(t) \/ RunAdds(t)
        PROVE  T!Next
    <2>1. sent + 1 \in Message
      BY <1>2, BoundedStep
    <2>2. T!Accept(sent + 1)
      BY <1>2, <2>1, AcceptRefines
    <2>3. QED
      BY <2>1, <2>2 DEF T!Next
  <1>3. ASSUME NEW t \in Tasks, InsertRow(t)
        PROVE  T!Next
    BY <1>3, InsertRefines DEF T!Next
  <1>4. ASSUME NEW t \in Tasks,
               CountRows(t) \/ Saved(t) \/ SaveFails(t) \/ StartRun(t) \/ RunEnds(t)
        PROVE  T!Next \/ UNCHANGED <<Log, Len(rows), failed>>
    BY <1>4, SaveRefines DEF T!Next
  <1>5. ASSUME NEW t \in Tasks, SideSave(t)
        PROVE  FALSE
    BY <1>5, NoSideSave
  <1>6. CASE Restart
    BY <1>6, RestartRefines DEF T!Next
  <1>7. CASE UNCHANGED vars
    <2>1. UNCHANGED <<pc, messages, rows, failed>>
      BY <1>7 DEF vars, taskVars
    <2>2. Log' = Log
      BY <2>1 DEF Log, Live
    <2>3. QED
      BY <2>1, <2>2
  <1>8. QED
    BY <1>1, <1>2, <1>3, <1>4, <1>5, <1>6, <1>7 DEF Next, TaskStep

(* A conversation that is touched by one task at a time keeps what         *)
(* Transcript promises: its messages are accepted one by one, the table    *)
(* takes them one by one in that order, and what is not in it is forgotten *)
(* only by a failed save or a restart (save_session and load_session of    *)
(* PgSessionManager).                                                      *)
THEOREM StoreImplementsTranscript ==
  ASSUME Alone, IsFiniteSet(Queries \cup Sides)
  PROVE  Spec => ImplementsTranscript
  <1>1. Init => StoreInv /\ AloneParts /\ LagKept /\ SentBounded
    BY StoreInvInit, AloneInit, BoundedInit
  <1>2. StoreInv /\ AloneParts /\ LagKept /\ SentBounded /\ [Next]_vars
           => (StoreInv /\ AloneParts /\ LagKept /\ SentBounded)'
    BY StoreInvStep, AloneStep, BoundedStep
  <1>3. Init => T!Init
    <2> SUFFICES ASSUME Init PROVE T!Init
      OBVIOUS
    <2>1. \A q \in Queries : pc[q] \notin Working
      BY DEF Init, Working, Saving, Tasks
    <2>2. Log = rows /\ rows = <<>> /\ failed = FALSE
      BY <2>1, LogAtRest DEF Init
    <2>3. QED
      BY <2>2 DEF T!Init
  <1>4. /\ StoreInv /\ AloneParts /\ LagKept /\ SentBounded
        /\ StoreInv' /\ AloneParts' /\ [Next]_vars
        => [T!Next]_(T!vars)
    BY TranscriptStep
  <1>5. QED
    BY <1>1, <1>2, <1>3, <1>4, PTL DEF Spec, ImplementsTranscript, T!Spec

-----------------------------------------------------------------------------
(* The types of the run's invariant: tasks of any number may overlap.      *)

(* A query sends one message of its own, a side save is one.               *)
BegunTasks == Begun \cup {d \in Sides : pc[d] # "idle"}

Extras == sent <= MaxMessages + Cardinality(BegunTasks)

Numbered ==
    /\ messages \in [Tasks -> Seq(Nat \ {0})]
    /\ rows \in Seq(Nat \ {0})
    /\ restarts \in 0 .. MaxRestarts
    /\ failed \in BOOLEAN

LEMMA BegunTasksFinite ==
  ASSUME IsFiniteSet(Queries \cup Sides)
  PROVE  /\ IsFiniteSet(BegunTasks) /\ Cardinality(BegunTasks) \in Nat
         /\ IsFiniteSet(BegunTasks') /\ Cardinality(BegunTasks') \in Nat
         /\ Cardinality(BegunTasks) <= Cardinality(Queries \cup Sides)
         /\ Cardinality(Queries \cup Sides) \in Nat
  <1>1. BegunTasks \subseteq Queries \cup Sides /\ BegunTasks' \subseteq Queries \cup Sides
    BY DEF BegunTasks, Begun
  <1>2. QED
    BY <1>1, FS_Subset, FS_CardinalityType

LEMMA BegunTasksGrow ==
  ASSUME StoreInv, [Next]_vars
  PROVE  BegunTasks \subseteq BegunTasks'
  <1>1. ASSUME NEW d \in Sides, pc[d] # "idle"
        PROVE  pc'[d] # "idle"
    <2>0. pc \in [Tasks -> Phases] /\ d \in Tasks
      BY DEF StoreInv, Types, Tasks
    <2>1. CASE pc' = pc
      BY <1>1, <2>1
    <2>2. CASE \E t \in Tasks, p \in Phases \ {"idle"} : pc' = [pc EXCEPT ![t] = p]
      BY <1>1, <2>0, <2>2
    <2>3. CASE pc' = [u \in Tasks |-> IF pc[u] \in Busy THEN "dead" ELSE pc[u]]
      BY <1>1, <2>0, <2>3
    <2>4. QED
      BY <2>1, <2>2, <2>3
         DEF Next, vars, taskVars, TaskStep, BeginLoad, SideSave, SaveFails, ReadRows,
             InstallForReload, InstallForQuery, CountRows, InsertRow, Saved, StartRun,
             RunAdds, RunEnds, Restart, Save, Goto, Phases, Busy, Saving
  <1>2. QED
    BY <1>1, BegunGrows DEF BegunTasks

(* A task that begins to count among those begun.                          *)
LEMMA OneMoreBegun ==
  ASSUME IsFiniteSet(Queries \cup Sides), StoreInv, [Next]_vars, Extras,
         NEW t, t \notin BegunTasks, t \in BegunTasks', sent' = sent + 1
  PROVE  Extras'
  <1>1. /\ IsFiniteSet(BegunTasks) /\ Cardinality(BegunTasks) \in Nat
        /\ IsFiniteSet(BegunTasks') /\ Cardinality(BegunTasks') \in Nat
    BY BegunTasksFinite
  <1>2. Cardinality(BegunTasks \cup {t}) = Cardinality(BegunTasks) + 1
        /\ IsFiniteSet(BegunTasks \cup {t})
    BY <1>1, FS_AddElement
  <1>3. BegunTasks \cup {t} \subseteq BegunTasks'
    BY BegunTasksGrow
  <1>4. Cardinality(BegunTasks \cup {t}) <= Cardinality(BegunTasks')
    BY <1>1, <1>3, FS_Subset
  <1>5. sent \in Nat /\ MaxMessages \in Nat
    BY BoundsAssumption DEF StoreInv, Types
  <1>6. QED
    BY <1>1, <1>2, <1>4, <1>5 DEF Extras

LEMMA ExtrasStep ==
  ASSUME IsFiniteSet(Queries \cup Sides), StoreInv, Extras, [Next]_vars
  PROVE  Extras'
  <1>1. /\ IsFiniteSet(BegunTasks) /\ Cardinality(BegunTasks) \in Nat
        /\ IsFiniteSet(BegunTasks') /\ Cardinality(BegunTasks') \in Nat
    BY BegunTasksFinite
  <1>2. BegunTasks \subseteq BegunTasks'
    BY BegunTasksGrow
  <1>3. Cardinality(BegunTasks) <= Cardinality(BegunTasks')
    BY <1>1, <1>2, FS_Subset
  <1>4. sent \in Nat /\ MaxMessages \in Nat /\ pc \in [Tasks -> Phases]
    BY BoundsAssumption DEF StoreInv, Types
  <1>5. CASE UNCHANGED sent
    BY <1>1, <1>3, <1>4, <1>5 DEF Extras
  <1>6. ASSUME NEW t \in Tasks, RunAdds(t)
        PROVE  Extras'
    BY <1>1, <1>4, <1>6 DEF RunAdds, AddTo, Extras
  <1>7. ASSUME NEW t \in Tasks, InstallForQuery(t)
        PROVE  Extras'
    <2>1. /\ pc[t] = "installing" /\ t \in Queries /\ pc' = [pc EXCEPT ![t] = "counting"]
          /\ sent' = sent + 1
      BY <1>7 DEF InstallForQuery, AddTo, Save, Goto
    <2>2. pc'[t] = "counting"
      BY <1>4, <2>1
    <2>3. t \notin BegunTasks /\ t \in BegunTasks'
      BY <2>1, <2>2, TasksAssumption DEF BegunTasks, Begun, Unready
    <2>4. QED
      BY <2>1, <2>3, OneMoreBegun
  <1>8. ASSUME NEW t \in Tasks, SideSave(t)
        PROVE  Extras'
    <2>1. /\ pc[t] = "idle" /\ t \in Sides /\ pc' = [pc EXCEPT ![t] = "counting"]
          /\ sent' = sent + 1
      BY <1>8 DEF SideSave, MayBegin, AddTo, Save, Goto
    <2>2. pc'[t] = "counting"
      BY <1>4, <2>1
    <2>3. t \notin BegunTasks /\ t \in BegunTasks'
      BY <2>1, <2>2, TasksAssumption DEF BegunTasks, Begun, Unready
    <2>4. QED
      BY <2>1, <2>3, OneMoreBegun
  <1>9. QED
    BY <1>5, <1>6, <1>7, <1>8
       DEF Next, vars, TaskStep, BeginLoad, SaveFails, ReadRows, InstallForReload,
           CountRows, InsertRow, Saved, StartRun, RunEnds, Restart

LEMMA NumberedStep ==
  ASSUME StoreInv, Numbered, [Next]_vars
  PROVE  Numbered'
  <1>1. /\ messages \in [Tasks -> Seq(Nat \ {0})] /\ rows \in Seq(Nat \ {0})
        /\ sent \in Nat /\ restarts \in 0 .. MaxRestarts /\ failed \in BOOLEAN
    BY DEF StoreInv, Types, Numbered
  <1>2. UNCHANGED <<restarts, failed>> \/ (failed' = TRUE /\ restarts' \in 0 .. MaxRestarts)
    BY <1>1, BoundsAssumption
       DEF Next, vars, TaskStep, BeginLoad, SideSave, SaveFails, ReadRows, InstallForReload,
           InstallForQuery, CountRows, InsertRow, Saved, StartRun, RunAdds, RunEnds, Restart
  <1>3. restarts' \in 0 .. MaxRestarts /\ failed' \in BOOLEAN
    BY <1>1, <1>2
  <1>4. CASE UNCHANGED <<messages, rows>>
    BY <1>1, <1>3, <1>4 DEF Numbered
  <1>5. ASSUME NEW t \in Tasks, ReadRows(t)
        PROVE  Numbered'
    <2>1. messages' = [messages EXCEPT ![t] = rows] /\ rows' = rows
      BY <1>5 DEF ReadRows
    <2>2. QED
      BY <1>1, <1>3, <2>1 DEF Numbered
  <1>6. ASSUME NEW o, AddTo(o), UNCHANGED rows
        PROVE  Numbered'
    <2>1. messages' = [messages EXCEPT ![o] = Append(messages[o], sent + 1)]
      BY <1>6 DEF AddTo
    <2>2. CASE o \notin Tasks
      <3>1. messages' = messages
        BY <1>1, <2>1, <2>2
      <3>2. QED
        BY <1>6, <3>1, <1>4
    <2>3. CASE o \in Tasks
      <3>1. messages[o] \in Seq(Nat \ {0}) /\ sent + 1 \in Nat \ {0}
        BY <1>1, <2>3
      <3>2. Append(messages[o], sent + 1) \in Seq(Nat \ {0})
        BY <3>1
      <3>3. messages' \in [Tasks -> Seq(Nat \ {0})]
        BY <1>1, <2>1, <3>2
      <3>4. QED
        BY <1>1, <1>3, <1>6, <3>3 DEF Numbered
    <2>4. QED
      BY <2>2, <2>3
  <1>7. ASSUME NEW t \in Tasks, InsertRow(t)
        PROVE  Numbered'
    <2>1. /\ target[t] \in Tasks /\ pos[t] + 1 \in DOMAIN messages[target[t]]
          /\ rows' = Append(rows, messages[target[t]][pos[t] + 1]) /\ messages' = messages
      BY <1>7, InsertedRow
    <2>2. messages[target[t]] \in Seq(Nat \ {0})
      BY <1>1, <2>1
    <2>3. messages[target[t]][pos[t] + 1] \in Nat \ {0}
      BY <2>1, <2>2
    <2>4. rows' \in Seq(Nat \ {0})
      BY <1>1, <2>1, <2>3
    <2>5. QED
      BY <1>1, <1>3, <2>1, <2>4 DEF Numbered
  <1>8. \/ UNCHANGED <<messages, rows>>
        \/ \E t \in Tasks : ReadRows(t) \/ InsertRow(t)
        \/ \E o : AddTo(o) /\ UNCHANGED rows
    BY DEF Next, vars, taskVars, TaskStep, BeginLoad, SideSave, SaveFails, InstallForReload,
           InstallForQuery, CountRows, Saved, StartRun, RunAdds, RunEnds, Restart
  <1>9. QED
    BY <1>4, <1>5, <1>6, <1>7, <1>8

(* A sequence of numbers, of which none is above n.                        *)
LEMMA OfMessages ==
  ASSUME NEW w \in Seq(Nat \ {0}), NEW n \in Nat, \A i \in DOMAIN w : w[i] <= n
  PROVE  w \in Seq(1 .. n)
  <1>1. \A i \in 1 .. Len(w) : w[i] \in 1 .. n
    OBVIOUS
  <1>2. QED
    BY <1>1

(* However tasks and saves overlap, and whatever fails: an object and the  *)
(* table hold only messages that were accepted, of which there is one for  *)
(* each query and side save beside those the runs were held to             *)
(* (PgSessionManager and save_session).                                    *)
THEOREM StoreTypesHold ==
  ASSUME IsFiniteSet(Queries \cup Sides)
  PROVE  Spec => []TypeOK
  <1>1. Init => StoreInv /\ Numbered /\ Extras
    <2> SUFFICES ASSUME Init PROVE Numbered /\ Extras
      BY StoreInvInit
    <2>1. Numbered
      <3>1. <<>> \in Seq(Nat \ {0})
        OBVIOUS
      <3>2. messages \in [Tasks -> Seq(Nat \ {0})] /\ rows \in Seq(Nat \ {0})
        BY <3>1 DEF Init
      <3>3. restarts \in 0 .. MaxRestarts
        BY BoundsAssumption DEF Init
      <3>4. failed \in BOOLEAN
        BY Zenon DEF Init
      <3>5. QED
        BY <3>2, <3>3, <3>4 DEF Numbered
    <2>2. BegunTasks = {}
      BY DEF Init, BegunTasks, Begun, Unready, Tasks
    <2>3. Cardinality(BegunTasks) = 0
      BY <2>2, FS_EmptySet
    <2>4. QED
      BY <2>1, <2>3, BoundsAssumption DEF Init, Extras
  <1>2. StoreInv /\ Numbered /\ Extras /\ [Next]_vars => (StoreInv /\ Numbered /\ Extras)'
    BY StoreInvStep, NumberedStep, ExtrasStep
  <1>3. StoreInv /\ Numbered /\ Extras => TypeOK
    <2> SUFFICES ASSUME StoreInv, Numbered, Extras PROVE TypeOK
      OBVIOUS
    <2>1. /\ Cardinality(BegunTasks) \in Nat /\ Cardinality(Queries \cup Sides) \in Nat
          /\ Cardinality(BegunTasks) <= Cardinality(Queries \cup Sides)
      BY BegunTasksFinite
    <2>2. MaxMessages + Cardinality(Queries \cup Sides) \in Nat
          /\ sent \in Nat /\ sent <= MaxMessages + Cardinality(Queries \cup Sides)
      BY <2>1, BoundsAssumption DEF StoreInv, Types, Extras
    <2>3. \A w \in Seq(Nat \ {0}) : AllSent(w) => w \in Seq(Message)
      <3> SUFFICES ASSUME NEW w \in Seq(Nat \ {0}), AllSent(w)
                   PROVE  w \in Seq(Message)
        OBVIOUS
      <3>1. \A i \in DOMAIN w : w[i] \in Nat /\ w[i] <= sent
        BY DEF AllSent
      <3>2. \A i \in DOMAIN w : w[i] <= MaxMessages + Cardinality(Queries \cup Sides)
        BY <2>2, <3>1
      <3>3. QED
        BY <2>2, <3>2, OfMessages DEF Message
    <2>4. messages \in [Tasks -> Seq(Message)] /\ rows \in Seq(Message)
      BY <2>3 DEF StoreInv, OnlySent, Numbered
    <2>5. sent \in Message \cup {0}
      BY <2>2 DEF Message
    <2>6. QED
      BY <2>4, <2>5 DEF StoreInv, Types, Numbered, TypeOK
  <1>4. QED
    BY <1>1, <1>2, <1>3, PTL DEF Spec
=============================================================================
