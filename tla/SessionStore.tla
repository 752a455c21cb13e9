----------------------------- MODULE SessionStore -----------------------------
(***************************************************************************)
(* How the messages of one conversation reach the database: PgSessionManager*)
(* with its one current_session, the Session objects that several loads of *)
(* the same conversation create, and the coroutines that add to them and   *)
(* save them.                                                              *)
(*                                                                         *)
(* save_session counts the rows of the conversation and inserts, one await *)
(* per row, the messages of the object from that position on.  The tasks   *)
(* are a query (the handler that loads the session and saves the user's    *)
(* message, then the run, which adds through the manager, autosaves, and   *)
(* saves at the end), a reload (a client opens the conversation), and a    *)
(* side save (the callbacks of the deep skills, scheduled during a run).   *)
(* Runs of the conversation do not overlap: WebRuns says when they may.    *)
(***************************************************************************)
EXTENDS Naturals, Sequences, FiniteSets, SequencesExt

CONSTANTS
    Queries,        \* tasks that answer a query
    Reloads,        \* tasks that open the conversation
    Sides,          \* tasks that save a message beside the run
    None,           \* no task, no session object
    Interval,       \* auto_save_interval (5)
    MaxMessages,    \* bound of the model: messages after which no run adds one
    MaxRestarts,    \* bound of the model: restarts of the server
    Failures,       \* a save may fail
    Alone           \* a task begins only when no other is under way

Tasks == Queries \cup Reloads \cup Sides

ASSUME TasksAssumption ==
    /\ Queries \cap Reloads = {}
    /\ Queries \cap Sides = {}
    /\ Reloads \cap Sides = {}
    /\ None \notin Tasks

ASSUME BoundsAssumption ==
    Interval \in Nat \ {0} /\ MaxMessages \in Nat /\ MaxRestarts \in Nat

ASSUME FlagsAssumption == Failures \in BOOLEAN /\ Alone \in BOOLEAN

VARIABLES
    pc,         \* where each task is
    messages,   \* the messages of the Session object each task has loaded
    target,     \* the object a task is saving, named by the task that made it
    pos,        \* the position its save has reached
    after,      \* what it does after its save
    current,    \* PgSessionManager.current_session
    turn,       \* PgSessionManager.turn_count
    rows,       \* the rows of the conversation
    sent,       \* messages so far; a message is its number
    restarts,
    failed      \* history variable: a save has failed, or the server stopped

taskVars == <<pc, messages, target, pos, after>>
vars == <<taskVars, current, turn, rows, sent, restarts, failed>>

-----------------------------------------------------------------------------
Saving == {"counting", "inserting"}
Busy   == {"reading", "installing", "starting", "running"} \cup Saving
Phases == {"idle", "done", "dead"} \cup Busy

Goto(t, p) == pc' = [pc EXCEPT ![t] = p]

MayBegin(t) ==
    /\ pc[t] = "idle"
    /\ Alone => \A u \in Tasks : pc[u] \notin Busy

(* session.add_message, of a new message. *)
AddTo(o) ==
    /\ sent' = sent + 1
    /\ messages' = [messages EXCEPT ![o] = Append(@, sent + 1)]

(* save_session(o), and what the task does next. *)
Save(t, o, next) ==
    /\ target' = [target EXCEPT ![t] = o]
    /\ after' = [after EXCEPT ![t] = next]
    /\ Goto(t, "counting")

-----------------------------------------------------------------------------
(* load_session. *)

BeginLoad(t) ==
    /\ t \in Queries \cup Reloads
    /\ MayBegin(t)
    /\ t \in Queries => \A q \in Queries : pc[q] \notin Busy
    /\ Goto(t, "reading")
    /\ UNCHANGED <<messages, target, pos, after, current, turn, rows, sent, restarts, failed>>

ReadRows(t) ==
    /\ pc[t] = "reading"
    /\ messages' = [messages EXCEPT ![t] = rows]
    /\ Goto(t, "installing")
    /\ UNCHANGED <<target, pos, after, current, turn, rows, sent, restarts, failed>>

(* The new object becomes the current session.  The handler of a query adds *)
(* the user's message to it, past the manager, and saves it.                *)
InstallForReload(t) ==
    /\ pc[t] = "installing"
    /\ t \in Reloads
    /\ current' = t
    /\ turn' = Len(messages[t])
    /\ Goto(t, "done")
    /\ UNCHANGED <<messages, target, pos, after, rows, sent, restarts, failed>>

InstallForQuery(t) ==
    /\ pc[t] = "installing"
    /\ t \in Queries
    /\ current' = t
    /\ turn' = Len(messages[t])
    /\ AddTo(t)
    /\ Save(t, t, "start")
    /\ UNCHANGED <<pos, rows, restarts, failed>>

-----------------------------------------------------------------------------
(* save_session. *)

(* Mutant: everything is inserted again. *)
CountNothing(t) ==
    /\ pc[t] = "counting"
    /\ pos' = [pos EXCEPT ![t] = 0]
    /\ Goto(t, "inserting")
    /\ UNCHANGED <<messages, target, after, current, turn, rows, sent, restarts, failed>>

CountRows(t) ==
    /\ pc[t] = "counting"
    /\ pos' = [pos EXCEPT ![t] = Len(rows)]
    /\ Goto(t, "inserting")
    /\ UNCHANGED <<messages, target, after, current, turn, rows, sent, restarts, failed>>

InsertRow(t) ==
    /\ pc[t] = "inserting"
    /\ pos[t] < Len(messages[target[t]])
    /\ rows' = Append(rows, messages[target[t]][pos[t] + 1])
    /\ pos' = [pos EXCEPT ![t] = @ + 1]
    /\ UNCHANGED <<pc, messages, target, after, current, turn, sent, restarts, failed>>

Saved(t) ==
    /\ pc[t] = "inserting"
    /\ pos[t] >= Len(messages[target[t]])
    /\ Goto(t, CASE after[t] = "start" -> "starting"
                 [] after[t] = "resume" -> "running"
                 [] OTHER -> "done")
    /\ UNCHANGED <<messages, target, pos, after, current, turn, rows, sent, restarts, failed>>

(* The save raises.  An autosave takes the run out of its loop, to its last *)
(* save; the error of a last save is logged; that of a handler is answered. *)
SaveFails(t) ==
    /\ Failures
    /\ pc[t] \in Saving
    /\ failed' = TRUE
    /\ IF after[t] = "resume"
       THEN Save(t, current, "end")
       ELSE Goto(t, "done") /\ UNCHANGED <<target, after>>
    /\ UNCHANGED <<messages, pos, current, turn, rows, sent, restarts>>

-----------------------------------------------------------------------------
(* The run, and what happens beside it. *)

StartRun(t) ==
    /\ pc[t] = "starting"
    /\ current' = t
    /\ Goto(t, "running")
    /\ UNCHANGED <<messages, target, pos, after, turn, rows, sent, restarts, failed>>

(* Mutant: the counter of turns starts again after an autosave. *)
RunAddsLate(t) ==
    /\ pc[t] = "running"
    /\ sent < MaxMessages
    /\ AddTo(current)
    /\ turn' = turn + 1
    /\ IF turn' % (Interval + 1) = 0
       THEN Save(t, current, "resume")
       ELSE UNCHANGED <<pc, target, after>>
    /\ UNCHANGED <<pos, current, rows, restarts, failed>>

(* add_message of the manager: every Interval turns it saves. *)
RunAdds(t) ==
    /\ pc[t] = "running"
    /\ sent < MaxMessages
    /\ AddTo(current)
    /\ turn' = turn + 1
    /\ IF turn' % Interval = 0
       THEN Save(t, current, "resume")
       ELSE UNCHANGED <<pc, target, after>>
    /\ UNCHANGED <<pos, current, rows, restarts, failed>>

(* Mutant: the run ends without its last save. *)
RunEndsUnsaved(t) ==
    /\ pc[t] = "running"
    /\ Goto(t, "done")
    /\ UNCHANGED <<messages, target, after, pos, current, turn, rows, sent, restarts, failed>>

RunEnds(t) ==
    /\ pc[t] = "running"
    /\ Save(t, current, "end")
    /\ UNCHANGED <<messages, pos, current, turn, rows, sent, restarts, failed>>

(* The message is added to the current session, past the manager. *)
SideSave(t) ==
    /\ t \in Sides
    /\ MayBegin(t)
    /\ \E q \in Queries : pc[q] = "running" \/ (pc[q] \in Saving /\ after[q] # "start")
    /\ AddTo(current)
    /\ Save(t, current, "end")
    /\ UNCHANGED <<pos, current, turn, rows, restarts, failed>>

(* The server stops and starts again with no current session. *)
Restart ==
    /\ restarts < MaxRestarts
    /\ restarts' = restarts + 1
    /\ failed' = TRUE
    /\ pc' = [t \in Tasks |-> IF pc[t] \in Busy THEN "dead" ELSE pc[t]]
    /\ current' = None
    /\ turn' = 0
    /\ UNCHANGED <<messages, target, pos, after, rows, sent>>

-----------------------------------------------------------------------------
Init ==
    /\ pc = [t \in Tasks |-> "idle"]
    /\ messages = [t \in Tasks |-> <<>>]
    /\ target = [t \in Tasks |-> None]
    /\ pos = [t \in Tasks |-> 0]
    /\ after = [t \in Tasks |-> "end"]
    /\ current = None
    /\ turn = 0
    /\ rows = <<>>
    /\ sent = 0
    /\ restarts = 0
    /\ failed = FALSE

(* What a task that is under way does. *)
TaskStep(t) ==
    \/ ReadRows(t) \/ InstallForReload(t) \/ InstallForQuery(t)
    \/ CountRows(t) \/ InsertRow(t) \/ Saved(t)
    \/ StartRun(t) \/ RunAdds(t) \/ RunEnds(t)

Next ==
    \/ \E t \in Tasks : BeginLoad(t) \/ SideSave(t) \/ TaskStep(t) \/ SaveFails(t)
    \/ Restart

Spec == Init /\ [][Next]_vars

(* The event loop runs what is ready and a run ends; nothing has to fail.  *)
FairSpec == Spec /\ \A t \in Tasks : WF_vars(TaskStep(t))
-----------------------------------------------------------------------------
(* Properties. *)

(* One more message per query and side save than the runs are held to. *)
Message == 1..(MaxMessages + Cardinality(Queries \cup Sides))

TypeOK ==
    /\ pc \in [Tasks -> Phases]
    /\ messages \in [Tasks -> Seq(Message)]
    /\ target \in [Tasks -> Tasks \cup {None}]
    /\ pos \in [Tasks -> Nat]
    /\ after \in [Tasks -> {"start", "resume", "end"}]
    /\ current \in Tasks \cup {None}
    /\ turn \in Nat
    /\ rows \in Seq(Message)
    /\ sent \in Message \cup {0}
    /\ restarts \in 0..MaxRestarts
    /\ failed \in BOOLEAN

(* save_session means to "only insert messages that aren't yet persisted": *)
(* the rows are in the order the messages were accepted, none twice.       *)
RowsInOrder == \A i, j \in DOMAIN rows : i < j => rows[i] < rows[j]

(* Clients may open the conversation while a run adds to it, and saves may *)
(* fail half-way: the rows stay in order until a deep skill saves a        *)
(* message beside the run.                                                 *)
RowsInOrderWithoutSides == (\A d \in Sides : pc[d] = "idle") => RowsInOrder

(* While a run goes on and no save has failed, fewer than Interval         *)
(* messages wait for the next autosave: a crash loses no more              *)
(* (PgSessionManager.add_message).                                         *)
LagBounded ==
    \A t \in Tasks :
        pc[t] = "running" /\ ~failed => Len(messages[current]) < Len(rows) + Interval

(* The conversation as its one live task sees it. *)
Live == {t \in Queries : pc[t] \in {"starting", "running"} \cup Saving}

Log == IF Live = {} THEN rows ELSE messages[CHOOSE t \in Live : TRUE]

(* A conversation that is only touched by one task at a time implements    *)
(* the transcript: nothing is lost, repeated or reordered on its way to    *)
(* the table, and only a failure or a restart forgets what is not there.   *)
T == INSTANCE Transcript WITH
        Message <- Message,
        log <- Log,
        saved <- Len(rows)

ImplementsTranscript == T!Spec

(* Again and again all that was accepted is in the table, unless something *)
(* failed.                                                                 *)
EventuallyPersisted ==
    []<>(failed \/ \A m \in 1 .. sent : Contains(rows, m))
=============================================================================
