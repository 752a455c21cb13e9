------------------------------- MODULE WebRuns -------------------------------
(***************************************************************************)
(* The life of a query in the web server: from the handler that receives   *)
(* it (websocket._handle_query and routes/chat.send_query, which take the  *)
(* same steps), through AgentExecutor.execute_query and _run_agent_sync,   *)
(* to the ReAct loop of ReactExecutor.execute that answers it.             *)
(*                                                                         *)
(* Every query is a message m.  A message that finds its session running   *)
(* is put on the session's injection queue; any other message starts a run *)
(* of its own, and that run is named by the message.  Handlers run on the  *)
(* event loop, so what they do between two awaits is one action; a run's   *)
(* body is a pool thread, which takes one action per access to shared      *)
(* state.  The waits of a run for a human are the module PendingReviews;   *)
(* which messages reach the database is the module SessionStore.           *)
(***************************************************************************)
EXTENDS Naturals, Sequences, FiniteSets, Functions, FilteredSequences

CONSTANTS
    Messages,       \* the queries clients send
    Sessions,       \* the conversations
    None,           \* no message, no session
    Capacity,       \* maxsize of an injection queue (10 in the code)
    DrainMax,       \* max_per_drain (3)
    MaxIterations,  \* MAX_REACT_ITERATIONS (200)
    Workers,        \* max_workers of the run pool (4)
    MaxInterrupts,  \* bound of the model: presses of the interrupt button
    SerialClients   \* clients wait for a query's dispatch before the next one

ASSUME BoundsAssumption ==
    /\ Capacity \in Nat \ {0}
    /\ DrainMax \in Nat \ {0}
    /\ MaxIterations \in Nat
    /\ Workers \in Nat \ {0}
    /\ MaxInterrupts \in Nat

ASSUME NoneAssumption == None \notin Messages \cup Sessions

ASSUME SerialAssumption == SerialClients \in BOOLEAN

VARIABLES
    pc,         \* where each query is
    sess,       \* the session each query is for
    bound,      \* the queue object a run reads (_injection_queue)
    hand,       \* the message a run has taken and not yet added
    taken,      \* messages taken in the current drain (count)
    iter,       \* ctx.iteration_count
    token,      \* _active_interrupt_token: "none", "armed" or "requested"
    running,    \* WebState._running_sessions
    queueOf,    \* WebState._injection_queues: session -> queue object
    content,    \* what each queue object holds
    registry,   \* AgentExecutor._current_react_executors
    current,    \* PgSessionManager.current_session (its id)
    flag,       \* WebState._interrupt_requested
    presses,    \* interrupts requested so far
    history,    \* every message a run added, oldest first, and to which
                \* session; to None if adding it failed
    arrivals,   \* history variable: all that was ever put on a queue object
    cleared,    \* history variable: what the start of a run threw away
    aborted     \* history variable: runs an exception ended outside the loop

dispatchVars == <<pc, sess>>
loopVars     == <<hand, taken, iter>>
stateVars    == <<running, queueOf, registry, current>>
ghostVars    == <<arrivals, cleared, aborted>>
vars == <<pc, sess, bound, hand, taken, iter, token, running, queueOf, content,
          registry, current, flag, presses, history, arrivals, cleared, aborted>>

-----------------------------------------------------------------------------
(* A query is "new"; then injected, refused, rejected, or dispatched in the *)
(* handler (Dispatching) and run (Live) until it is done.                   *)
Dispatching == {"loading", "saving", "scheduled"}
Wiring      == {"starting", "pooled", "building", "binding", "registering", "ready",
                "entering"}
Looping     == {"drainTop", "drainMid", "acting"}
Leaving     == {"leaving", "finalDrain", "returned"}
Live        == Wiring \cup Looping \cup Leaving
Settled     == {"injected", "refused", "rejected", "done"}
Phases      == {"new"} \cup Dispatching \cup Live \cup Settled

OnWorker == {"building", "binding", "registering", "ready", "entering", "leaving",
             "finalDrain"} \cup Looping

InPhase(s, P) == {m \in Messages : sess[m] = s /\ pc[m] \in P}

Goto(m, p) == pc' = [pc EXCEPT ![m] = p]

(* get_injection_queue: the session's queue, created on first use.  A queue *)
(* object is named by the message whose handler or run asked for it first.  *)
QueueFor(s, m) == IF queueOf[s] = None THEN m ELSE queueOf[s]

Added(m, s) == Append(history, [msg |-> m, to |-> s])

-----------------------------------------------------------------------------
(* The handler. *)

Arrives(m, s) ==
    /\ pc[m] = "new"
    /\ SerialClients => InPhase(s, Dispatching) = {}
    /\ sess' = [sess EXCEPT ![m] = s]

(* The session is running: put the message on its queue. *)
Inject(m, s) ==
    LET q == QueueFor(s, m) IN
    /\ Arrives(m, s)
    /\ s \in running
    /\ queueOf' = [queueOf EXCEPT ![s] = q]
    /\ \/ /\ Len(content[q]) < Capacity
          /\ content' = [content EXCEPT ![q] = Append(@, m)]
          /\ arrivals' = [arrivals EXCEPT ![q] = Append(@, m)]
          /\ Goto(m, "injected")
       \/ /\ Len(content[q]) >= Capacity
          /\ Goto(m, "refused")
          /\ UNCHANGED <<content, arrivals>>
    /\ UNCHANGED <<bound, loopVars, token, running, registry, current, flag,
                   presses, history, cleared, aborted>>

(* The session is not running: start to load it. *)
StartQuery(m, s) ==
    /\ Arrives(m, s)
    /\ s \notin running
    /\ Goto(m, "loading")
    /\ UNCHANGED <<bound, loopVars, token, stateVars, content, flag, presses,
                   history, ghostVars>>

(* get_session_by_id has loaded the session, and made it the current one;  *)
(* the query is added to it.                                               *)
LoadSession(m) ==
    /\ pc[m] = "loading"
    /\ current' = sess[m]
    /\ history' = Added(m, sess[m])
    /\ Goto(m, "saving")
    /\ UNCHANGED <<sess, bound, loopVars, token, running, queueOf, registry,
                   content, flag, presses, ghostVars>>

(* The session is unknown or another user's, or saving it fails. *)
RejectQuery(m) ==
    /\ pc[m] \in {"loading", "saving"}
    /\ Goto(m, "rejected")
    /\ UNCHANGED <<sess, bound, loopVars, token, stateVars, content, flag,
                   presses, history, ghostVars>>

(* Saved and broadcast: create_task(execute_query). *)
CreateTask(m) ==
    /\ pc[m] = "saving"
    /\ Goto(m, "scheduled")
    /\ UNCHANGED <<sess, bound, loopVars, token, stateVars, content, flag,
                   presses, history, ghostVars>>

-----------------------------------------------------------------------------
(* execute_query on the event loop. *)

(* Mutant: the task forgets to mark its session. *)
SetRunningUnmarked(m) ==
    /\ pc[m] = "scheduled"
    /\ Goto(m, "starting")
    /\ UNCHANGED <<sess, bound, loopVars, token, stateVars, content, flag,
                   presses, history, ghostVars>>

SetRunning(m) ==
    /\ pc[m] = "scheduled"
    /\ running' = running \cup {sess[m]}
    /\ Goto(m, "starting")
    /\ UNCHANGED <<sess, bound, loopVars, token, queueOf, registry, current,
                   content, flag, presses, history, ghostVars>>

(* run_in_executor hands the run to the pool. *)
Submit(m) ==
    /\ pc[m] = "starting"
    /\ Goto(m, "pooled")
    /\ UNCHANGED <<sess, bound, loopVars, token, stateVars, content, flag,
                   presses, history, ghostVars>>

(* Mutant: the injection queue outlives the run. *)
FinalizeKeepsQueue(m) ==
    LET s == sess[m] IN
    /\ pc[m] = "returned"
    /\ registry' = [registry EXCEPT ![s] = None]
    /\ running' = running \ {s}
    /\ Goto(m, "done")
    /\ UNCHANGED <<sess, bound, loopVars, token, queueOf, current, content, flag,
                   presses, history, ghostVars>>


(* The finally clause of execute_query, which has no await before its last *)
(* broadcast: the session's entries are dropped, whoever made them.        *)
Finalize(m) ==
    LET s == sess[m] IN
    /\ pc[m] = "returned"
    /\ registry' = [registry EXCEPT ![s] = None]
    /\ running' = running \ {s}
    /\ queueOf' = [queueOf EXCEPT ![s] = None]
    /\ Goto(m, "done")
    /\ UNCHANGED <<sess, bound, loopVars, token, current, content, flag,
                   presses, history, ghostVars>>

-----------------------------------------------------------------------------
(* _run_agent_sync on a pool thread. *)

PickUp(m) ==
    /\ pc[m] = "pooled"
    /\ Cardinality({r \in Messages : pc[r] \in OnWorker}) < Workers
    /\ flag' = FALSE
    /\ Goto(m, "building")
    /\ UNCHANGED <<sess, bound, loopVars, token, stateVars, content, presses,
                   history, ghostVars>>

(* The runtime is built and the session manager pointed at the session. *)
SetCurrent(m) ==
    /\ pc[m] = "building"
    /\ current' = sess[m]
    /\ Goto(m, "binding")
    /\ UNCHANGED <<sess, bound, loopVars, token, running, queueOf, registry,
                   content, flag, presses, history, ghostVars>>

(* Something raises before the loop: in building the runtime, the prompt   *)
(* or the executor, in a hook, or in execute before its try.  The run ends *)
(* without its finally clause and final drain; execute_query cleans up.    *)
BuildFails(m) ==
    /\ pc[m] \in {"building", "binding", "registering", "ready", "entering"}
    /\ aborted' = aborted \cup {m}
    /\ Goto(m, "returned")
    /\ UNCHANGED <<sess, bound, loopVars, token, stateVars, content, flag,
                   presses, history, arrivals, cleared>>

BindQueue(m) ==
    LET q == QueueFor(sess[m], m) IN
    /\ pc[m] = "binding"
    /\ queueOf' = [queueOf EXCEPT ![sess[m]] = q]
    /\ bound' = [bound EXCEPT ![m] = q]
    /\ Goto(m, "registering")
    /\ UNCHANGED <<sess, loopVars, token, running, registry, current, content,
                   flag, presses, history, ghostVars>>

Register(m) ==
    /\ pc[m] = "registering"
    /\ registry' = [registry EXCEPT ![sess[m]] = m]
    /\ Goto(m, "ready")
    /\ UNCHANGED <<sess, bound, loopVars, token, running, queueOf, current,
                   content, flag, presses, history, ghostVars>>

-----------------------------------------------------------------------------
(* ReactExecutor.execute on the same thread. *)

(* Clear the queue (EC2) and create the interrupt token. *)
BeginLoop(m) ==
    LET q == bound[m] IN
    /\ pc[m] = "ready"
    /\ content' = [content EXCEPT ![q] = <<>>]
    /\ cleared' = [cleared EXCEPT ![q] = @ \o content[q]]
    /\ token' = [token EXCEPT ![m] = "armed"]
    /\ Goto(m, "entering")
    /\ UNCHANGED <<sess, bound, loopVars, stateVars, flag, presses, history,
                   arrivals, aborted>>

(* The context, the costs and the snapshots are set up: enter the try. *)
EnterLoop(m) ==
    /\ pc[m] = "entering"
    /\ Goto(m, "drainTop")
    /\ UNCHANGED <<sess, bound, loopVars, token, stateVars, content, flag,
                   presses, history, ghostVars>>

(* Mutant: the message is read and stays on the queue. *)
TakePeeks(m) ==
    LET q == bound[m] IN
    /\ pc[m] \in {"drainTop", "drainMid", "finalDrain"}
    /\ hand[m] = None
    /\ pc[m] # "finalDrain" => taken[m] < DrainMax
    /\ content[q] # <<>>
    /\ hand' = [hand EXCEPT ![m] = Head(content[q])]
    /\ UNCHANGED <<dispatchVars, bound, taken, iter, token, stateVars, content,
                   flag, presses, history, ghostVars>>

(* Mutant: the newest message first. *)
TakeNewest(m) ==
    LET q == bound[m] IN
    /\ pc[m] \in {"drainTop", "drainMid", "finalDrain"}
    /\ hand[m] = None
    /\ pc[m] # "finalDrain" => taken[m] < DrainMax
    /\ content[q] # <<>>
    /\ hand' = [hand EXCEPT ![m] = content[q][Len(content[q])]]
    /\ content' = [content EXCEPT ![q] = SubSeq(@, 1, Len(@) - 1)]
    /\ UNCHANGED <<dispatchVars, bound, taken, iter, token, stateVars, flag,
                   presses, history, ghostVars>>

(* get_nowait, in a drain of the loop or in the final one. *)
Take(m) ==
    LET q == bound[m] IN
    /\ pc[m] \in {"drainTop", "drainMid", "finalDrain"}
    /\ hand[m] = None
    /\ pc[m] # "finalDrain" => taken[m] < DrainMax
    /\ content[q] # <<>>
    /\ hand' = [hand EXCEPT ![m] = Head(content[q])]
    /\ content' = [content EXCEPT ![q] = Tail(@)]
    /\ UNCHANGED <<dispatchVars, bound, taken, iter, token, stateVars, flag,
                   presses, history, ghostVars>>

(* session_manager.add_message: into whichever session is current. *)
AddTaken(m) ==
    /\ hand[m] # None
    /\ history' = Added(hand[m], current)
    /\ hand' = [hand EXCEPT ![m] = None]
    /\ taken' = [taken EXCEPT ![m] = IF pc[m] = "finalDrain" THEN @ ELSE @ + 1]
    /\ UNCHANGED <<dispatchVars, bound, iter, token, stateVars, content, flag,
                   presses, ghostVars>>

(* add_message raises.  If its autosave did, the message is in the session *)
(* by then; otherwise it is lost.  In the loop the finally clause and the  *)
(* final drain follow; the final drain catches an empty queue only, and    *)
(* leaves behind what is still on it.                                      *)
AddFails(m) ==
    /\ hand[m] # None
    /\ history' \in {Added(hand[m], current), Added(hand[m], None)}
    /\ hand' = [hand EXCEPT ![m] = None]
    /\ Goto(m, IF pc[m] = "finalDrain" THEN "returned" ELSE "leaving")
    /\ aborted' = IF pc[m] = "finalDrain" THEN aborted \cup {m} ELSE aborted
    /\ UNCHANGED <<sess, bound, taken, iter, token, stateVars, content, flag,
                   presses, arrivals, cleared>>

Drained(m) ==
    /\ hand[m] = None
    /\ content[bound[m]] = <<>> \/ taken[m] = DrainMax

(* The head of the loop after its drain: stop, or run one iteration. *)
StopsHere(m) == token[m] = "requested" \/ iter[m] + 1 > MaxIterations

(* Mutant: the iteration is not counted. *)
NextIterationUncounted(m) ==
    /\ pc[m] = "drainTop"
    /\ Drained(m)
    /\ taken' = [taken EXCEPT ![m] = 0]
    /\ Goto(m, IF StopsHere(m) THEN "leaving" ELSE "drainMid")
    /\ UNCHANGED <<sess, bound, hand, iter, token, stateVars, content, flag,
                   presses, history, ghostVars>>

NextIteration(m) ==
    /\ pc[m] = "drainTop"
    /\ Drained(m)
    /\ iter' = [iter EXCEPT ![m] = @ + 1]
    /\ taken' = [taken EXCEPT ![m] = 0]
    /\ Goto(m, IF StopsHere(m) THEN "leaving" ELSE "drainMid")
    /\ UNCHANGED <<sess, bound, hand, token, stateVars, content, flag, presses,
                   history, ghostVars>>

(* The drain before the action phase (EC4) is over: call the model. *)
CallModel(m) ==
    /\ pc[m] = "drainMid"
    /\ Drained(m)
    /\ taken' = [taken EXCEPT ![m] = 0]
    /\ Goto(m, "acting")
    /\ UNCHANGED <<sess, bound, hand, iter, token, stateVars, content, flag,
                   presses, history, ghostVars>>

(* LoopAction.CONTINUE, and BREAK with a message waiting on the queue.     *)
(* An iteration may also break before its drain: an interrupted or failing *)
(* thinking phase.                                                         *)
Idling(m) == pc[m] = "acting" \/ (pc[m] = "drainMid" /\ hand[m] = None)

Continue(m) ==
    /\ Idling(m)
    /\ pc[m] = "acting" \/ content[bound[m]] # <<>>
    /\ taken' = [taken EXCEPT ![m] = 0]
    /\ Goto(m, "drainTop")
    /\ UNCHANGED <<sess, bound, hand, iter, token, stateVars, content, flag,
                   presses, history, ghostVars>>

(* LoopAction.BREAK with the queue empty. *)
Break(m) ==
    /\ Idling(m)
    /\ content[bound[m]] = <<>>
    /\ Goto(m, "leaving")
    /\ UNCHANGED <<sess, bound, loopVars, token, stateVars, content, flag,
                   presses, history, ghostVars>>

(* An exception leaves the loop whatever is on the queue. *)
Raise(m) ==
    /\ Idling(m)
    /\ Goto(m, "leaving")
    /\ UNCHANGED <<sess, bound, loopVars, token, stateVars, content, flag,
                   presses, history, ghostVars>>

(* The finally clause of execute. *)
DropToken(m) ==
    /\ pc[m] = "leaving"
    /\ token' = [token EXCEPT ![m] = "none"]
    /\ Goto(m, "finalDrain")
    /\ UNCHANGED <<sess, bound, loopVars, stateVars, content, flag, presses,
                   history, ghostVars>>

(* Mutant: the run returns without looking at the queue again. *)
ReturnUndrained(m) ==
    /\ pc[m] = "finalDrain"
    /\ hand[m] = None
    /\ Goto(m, "returned")
    /\ UNCHANGED <<sess, bound, loopVars, token, stateVars, content, flag,
                   presses, history, ghostVars>>

(* The final drain (EC1) has found the queue empty: save and return. *)
Return(m) ==
    /\ pc[m] = "finalDrain"
    /\ hand[m] = None
    /\ content[bound[m]] = <<>>
    /\ Goto(m, "returned")
    /\ UNCHANGED <<sess, bound, loopVars, token, stateVars, content, flag,
                   presses, history, ghostVars>>

-----------------------------------------------------------------------------
(* Other handlers of the event loop. *)

(* interrupt_task: set the flag, then the token of every registered run. *)
Interrupted(m) == registry[sess[m]] = m /\ token[m] = "armed"

InterruptTask ==
    /\ presses < MaxInterrupts
    /\ presses' = presses + 1
    /\ flag' = TRUE
    /\ token' = [m \in Messages |->
                    IF sess[m] # None /\ Interrupted(m) THEN "requested" ELSE token[m]]
    /\ UNCHANGED <<dispatchVars, bound, loopVars, stateVars, content, history,
                   ghostVars>>

(* A client opens a session, which makes it the current one. *)
ResumeSession(s) ==
    /\ current # s
    /\ current' = s
    /\ UNCHANGED <<dispatchVars, bound, loopVars, token, running, queueOf,
                   registry, content, flag, presses, history, ghostVars>>

-----------------------------------------------------------------------------
Init ==
    /\ pc = [m \in Messages |-> "new"]
    /\ sess = [m \in Messages |-> None]
    /\ bound = [m \in Messages |-> None]
    /\ hand = [m \in Messages |-> None]
    /\ taken = [m \in Messages |-> 0]
    /\ iter = [m \in Messages |-> 0]
    /\ token = [m \in Messages |-> "none"]
    /\ running = {}
    /\ queueOf = [s \in Sessions |-> None]
    /\ content = [q \in Messages |-> <<>>]
    /\ registry = [s \in Sessions |-> None]
    /\ current = None
    /\ flag = FALSE
    /\ presses = 0
    /\ history = <<>>
    /\ arrivals = [q \in Messages |-> <<>>]
    /\ cleared = [q \in Messages |-> <<>>]
    /\ aborted = {}

HandlerStep(m) ==
    \/ LoadSession(m) \/ RejectQuery(m) \/ CreateTask(m)
    \/ SetRunning(m) \/ Submit(m) \/ Finalize(m)

WiringStep(m) ==
    \/ PickUp(m) \/ SetCurrent(m) \/ BuildFails(m) \/ BindQueue(m)
    \/ Register(m) \/ BeginLoop(m) \/ EnterLoop(m)

LoopStep(m) ==
    \/ Take(m) \/ AddTaken(m) \/ AddFails(m) \/ NextIteration(m) \/ CallModel(m)
    \/ Continue(m) \/ Break(m) \/ Raise(m) \/ DropToken(m) \/ Return(m)

RunStep(m) == HandlerStep(m) \/ WiringStep(m) \/ LoopStep(m)

Next ==
    \/ \E m \in Messages, s \in Sessions : Inject(m, s) \/ StartQuery(m, s)
    \/ \E m \in Messages : RunStep(m)
    \/ InterruptTask
    \/ \E s \in Sessions : ResumeSession(s)

Spec == Init /\ [][Next]_vars

(* The event loop and the pool threads keep running what they have begun;  *)
(* nobody has to send a query, press interrupt or open a session.          *)
Fairness == \A m \in Messages : WF_vars(RunStep(m))

FairSpec == Spec /\ Fairness
-----------------------------------------------------------------------------
(* Properties. *)

Entry == [msg : Messages, to : Sessions \cup {None}]

(* Every variable has the type its comment says; in particular a message  *)
(* is only ever added while some session is current ("No active session"). *)
TypeOK ==
    /\ pc \in [Messages -> Phases]
    /\ sess \in [Messages -> Sessions \cup {None}]
    /\ bound \in [Messages -> Messages \cup {None}]
    /\ hand \in [Messages -> Messages \cup {None}]
    /\ taken \in [Messages -> Nat]
    /\ iter \in [Messages -> Nat]
    /\ token \in [Messages -> {"none", "armed", "requested"}]
    /\ running \subseteq Sessions
    /\ queueOf \in [Sessions -> Messages \cup {None}]
    /\ content \in [Messages -> Seq(Messages)]
    /\ registry \in [Sessions -> Messages \cup {None}]
    /\ current \in Sessions \cup {None}
    /\ flag \in BOOLEAN
    /\ presses \in Nat
    /\ history \in Seq(Entry)
    /\ arrivals \in [Messages -> Seq(Messages)]
    /\ cleared \in [Messages -> Seq(Messages)]
    /\ aborted \subseteq Messages

(* When the last run of a session is over, nothing of it is left in shared *)
(* state: a session is marked running or owns a queue only while a run of  *)
(* it lives, and what the interrupt handler finds registered for it is a   *)
(* live run of that session.  Runs of one session may overlap and clear    *)
(* each other's entries (the finally clause of execute_query).             *)
RunningHasRun == \A s \in running : InPhase(s, Live) # {}

QueueHasRun == \A s \in Sessions : queueOf[s] # None => InPhase(s, Live) # {}

RegisteredIsLive ==
    \A s \in Sessions : registry[s] # None => registry[s] \in InPhase(s, Live)

IdleIsClean == RunningHasRun /\ QueueHasRun /\ RegisteredIsLive

(* However runs share a queue, no message reaches the history twice, or is *)
(* both in it and still on its way there (_drain_injected_messages and the *)
(* final drain of execute).                                                *)
Copies(m) ==
    Cardinality({i \in DOMAIN history : history[i].msg = m})
    + Cardinality({r \in Messages : hand[r] = m})
    + Cardinality(UNION {{<<q, i>> : i \in {j \in DOMAIN content[q] : content[q][j] = m}} :
                            q \in Messages})

NoMessageTwice == \A m \in Messages : Copies(m) <= 1

(* A session never has two runs: a query that finds it running is injected *)
(* "rather than starting a second execution" (routes/chat.py).             *)
OneRunPerSession ==
    \A s \in Sessions : \A m, n \in InPhase(s, Live) : m = n

(* What was put on a queue is, in the order it came: first what the start  *)
(* of the run threw away, then what was added, or lost in adding, then the *)
(* message in hand, then what still waits.  Nothing else is lost, nothing  *)
(* overtakes (put_nowait, the drains and EC2 of ReactExecutor).            *)
HistoryMessages == [i \in DOMAIN history |-> history[i].msg]

Delivered(q) == Keeping(HistoryMessages, Range(arrivals[q]))

InHand(q) ==
    LET holders == {r \in Messages : bound[r] = q /\ hand[r] # None}
    IN  IF holders = {} THEN <<>> ELSE <<hand[CHOOSE r \in holders : TRUE]>>

DeliveryLedger ==
    \A q \in Messages :
        arrivals[q] = cleared[q] \o Delivered(q) \o InHand(q) \o content[q]

(* For such clients the server implements QueryService: one query at a     *)
(* time and per session, and what comes meanwhile in order, forgotten only *)
(* when a run begins or ends (execute_query, put_nowait, the drains).      *)
Active == Dispatching \cup Live

Serving(s) ==
    LET active == InPhase(s, Active)
    IN  IF active = {} THEN None ELSE CHOOSE m \in active : TRUE

Stage(m) ==
    CASE m = None -> "idle"
      [] m # None /\ pc[m] = "loading" -> "received"
      [] m # None /\ pc[m] \in {"saving", "scheduled"} \cup (Wiring \ {"entering"})
            -> "recorded"
      [] m # None /\ pc[m] = "returned" -> "over"
      [] OTHER -> "answering"

Line(q) == IF q = None THEN <<>> ELSE InHand(q) \o content[q]

Sent    == {m \in Messages : pc[m] # "new"}
Serves  == [s \in Sessions |-> Serving(s)]
Stages  == [s \in Sessions |-> Stage(Serving(s))]
Lines   == [s \in Sessions |-> Line(queueOf[s])]
Log     == [i \in DOMAIN history |->
              [query |-> history[i].msg, kept |-> history[i].to # None]]

Service == INSTANCE QueryService WITH
    sent <- Sent, serving <- Serves, stage <- Stages, line <- Lines,
    log <- Log

ImplementsQueryService == Service!Spec

InHistory(m) == \E i \in DOMAIN history : history[i].msg = m

(* The final drain persists "any late-arriving injected messages" (EC1 in  *)
(* executor.py): a run that is done leaves nothing on the queue it read.   *)
(* Asked of clients that never overlap two runs, and of runs that got to   *)
(* the end of their final drain.                                           *)
LateArrivalsArePersisted ==
    \A r \in Messages :
        pc[r] = "done" /\ bound[r] # None /\ r \notin aborted =>
            content[bound[r]] = <<>>

(* A run is pointed at its own session "to avoid race conditions with      *)
(* concurrent requests" (agent_executor.py): what it adds goes there.      *)
WritesStayInSession ==
    \A i \in DOMAIN history : history[i].to \in {sess[history[i].msg], None}

(* Every query is settled in the end, and its run gives its session back:  *)
(* the iteration limit stops a loop that would go on for ever.             *)
EveryQuerySettles == \A m \in Messages : pc[m] # "new" ~> pc[m] \in Settled

(* A message waiting on the queue of a run in its loop is taken and added, *)
(* even if an interrupt, the iteration limit, a failing model or a message *)
(* that could not be added before it ends the loop: it is lost only if     *)
(* adding the message itself fails, which the history says, or adding      *)
(* another one in the final drain, which aborts the run (the drains and    *)
(* the finally clause of execute).                                         *)
Waiting(m, r) ==
    pc[r] \in Looping /\ m \in Range(content[bound[r]])

LoopAnswersItsQueue ==
    \A m, r \in Messages : Waiting(m, r) ~> InHistory(m) \/ r \in aborted
=============================================================================
