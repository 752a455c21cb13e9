------------------------------ MODULE ReactTurn ------------------------------
(***************************************************************************)
(* The iterations of one run: what ReactExecutor._run_iteration and        *)
(* _process_tool_calls make of each answer of the model, which is either a *)
(* text or a batch of tool calls.  They execute the calls, answer them in  *)
(* the message list, and push the model back to work with nudges, each     *)
(* kind of which has a budget of its own.                                  *)
(*                                                                         *)
(* Of the message list the module keeps the calls that are not answered    *)
(* yet (ValidatedMessageList) and how the last tool message reads.  The    *)
(* iteration limit is left out, so that the budgets alone have to end the  *)
(* loop; with the limit, the queue and the final drain the loop is in      *)
(* WebRuns.  skip_next_thinking and planner_pending only choose prompts    *)
(* and are left out.                                                       *)
(***************************************************************************)
EXTENDS Naturals, Sequences, FiniteSets

CONSTANTS
    Calls,              \* the tool calls, equal when name and arguments are
    Tool,               \* the kind of tool each of them calls
    Batches,            \* the batches of calls the model may answer with
    MaxNudgeAttempts,   \* texts after a failed tool (3)
    MaxTodoNudges,      \* MAX_TODO_NUDGES (4)
    MaxDoomNudges,      \* the strike that stops a doom loop (3)
    DoomThreshold,      \* DOOM_LOOP_THRESHOLD (3)
    MaxCycleLen,        \* MAX_CYCLE_LEN (3)
    ExploreAfter,       \* batches of reads before exploring is asked for (3)
    ConcludeAfter,      \* batches of reads before concluding is asked for (5)
    DrainMax,           \* max_per_drain (3)
    MaxInjected         \* bound of the model: messages injected

(* "read" is parallelizable and one of READ_OPERATIONS, "explore" spawns   *)
(* Code-Explorer and "spawn" a subagent that has to wait for it; "background" is a deep    *)
(* skill that goes on after its call, "complete" is task_complete.         *)
Tools == {"read", "write", "todo", "spawn", "explore", "plan", "background", "complete"}

ASSUME CallsAssumption ==
    /\ Tool \in [Calls -> Tools]
    /\ Batches \subseteq Seq(Calls) \ {<<>>}

ASSUME BudgetsAssumption ==
    /\ MaxNudgeAttempts \in Nat \ {0}
    /\ MaxTodoNudges \in Nat
    /\ MaxDoomNudges \in Nat \ {0}
    /\ DoomThreshold \in Nat \ {0}
    /\ MaxCycleLen \in Nat \ {0}
    /\ ExploreAfter \in Nat \ {0}
    /\ ConcludeAfter \in Nat \ {0}
    /\ DrainMax \in Nat \ {0}
    /\ MaxInjected \in Nat

VARIABLES
    pc,                 \* where the thread of the run is
    why,                \* why it breaks the loop, or has left it
    batch,              \* the calls being executed
    results,            \* how those executed so far ended
    unanswered,         \* _pending_tool_ids: positions in the batch
    lastTool,           \* the last tool message: "none", "ok" or "error"
    misses,             \* consecutive_no_tool_calls
    todoNudges,         \* todo_nudge_count
    doomNudges,         \* doom_loop_nudge_count
    recent,             \* the end of recent_tool_calls
    reads,              \* consecutive_reads
    explored,           \* has_explored
    planApproved,       \* plan_approved_signal_injected
    completionNudged,   \* completion_nudge_sent
    todosOpen,          \* the todo list has todos that are not done
    waiting,            \* messages on the injection queue
    injected,           \* messages injected so far
    requested           \* the interrupt token is requested

batchVars == <<batch, results>>
listVars  == <<unanswered, lastTool>>
nudgeVars == <<misses, todoNudges, doomNudges, recent, reads, completionNudged>>
flagVars  == <<explored, planApproved>>
userVars  == <<waiting, injected, requested>>
vars == <<pc, why, batchVars, listVars, nudgeVars, flagVars, todosOpen, userVars>>

Reasons == {"error", "interrupted", "accepted", "completed", "gaveUp", "stuck",
            "background", "raised"}

Outcomes == {"ok", "approved", "started", "error", "denied", "cancelled"}

-----------------------------------------------------------------------------
(* LoopAction.CONTINUE and LoopAction.BREAK. *)
Continue == pc' = "top" /\ UNCHANGED why

Break(reason) == pc' = "breaking" /\ why' = reason

(* An exception leaves the loop without a look at the queue. *)
Leave(reason) == pc' = "over" /\ why' = reason

Lower(m, n) == IF m < n THEN m ELSE n

(* _drain_injected_messages takes up to DrainMax messages. *)
Drainable == Lower(waiting, DrainMax)

(* Mutant: an appended message leaves unanswered calls unanswered. *)
AppendedWithoutRepair(some) == UNCHANGED listVars

(* Before a message what is unanswered is answered with an error           *)
(* (_auto_complete_pending).                                               *)
Appended(some) ==
    IF some /\ unanswered # {}
    THEN unanswered' = {} /\ lastTool' = "error"
    ELSE UNCHANGED listVars

-----------------------------------------------------------------------------
(* The head of the loop, and the thinking phase. *)

(* Mutant: the token is cleared with every iteration. *)
StartIterationCleared ==
    /\ pc = "top"
    /\ waiting' = waiting - Drainable
    /\ Appended(Drainable > 0)
    /\ requested' = FALSE
    /\ pc' = "thinking"
    /\ UNCHANGED <<why, batchVars, nudgeVars, flagVars, todosOpen, injected>>

StartIteration ==
    /\ pc = "top"
    /\ waiting' = waiting - Drainable
    /\ Appended(Drainable > 0)
    /\ IF requested
       THEN Leave("interrupted")
       ELSE pc' = "thinking" /\ UNCHANGED why
    /\ UNCHANGED <<batchVars, nudgeVars, flagVars, todosOpen, injected, requested>>

(* Compaction may cut off the last tool message. *)
Compact == lastTool' \in {lastTool, "none"} /\ UNCHANGED unanswered

(* Nothing is unanswered here (ModelSeesAnswers), so the thinking trace,   *)
(* the signals and the messages drained (EC4) are only appended.           *)
Think ==
    /\ pc = "thinking"
    /\ ~requested
    /\ waiting' = waiting - Drainable
    /\ Compact
    /\ pc' = "acting"
    /\ UNCHANGED <<why, batchVars, nudgeVars, flagVars, todosOpen, injected, requested>>

(* _check_interrupt at one of the boundaries, before or after the drain. *)
StopThinking ==
    /\ pc = "thinking"
    /\ requested
    /\ \E drained \in {0, Drainable} : waiting' = waiting - drained
    /\ Compact
    /\ Break("interrupted")
    /\ UNCHANGED <<batchVars, nudgeVars, flagVars, todosOpen, injected, requested>>

(* The call of the model fails, or is interrupted. *)
ModelFails ==
    /\ pc = "acting"
    /\ \E reason \in {"error"} \cup IF requested THEN {"interrupted"} ELSE {} : Break(reason)
    /\ UNCHANGED <<batchVars, listVars, nudgeVars, flagVars, todosOpen, userVars>>

(* Compaction, the call or the storing of an answer raises. *)
Raise ==
    /\ pc \in {"thinking", "acting"}
    /\ Leave("raised")
    /\ UNCHANGED <<batchVars, listVars, nudgeVars, flagVars, todosOpen, userVars>>

-----------------------------------------------------------------------------
(* The model answers with a text: _handle_no_tool_calls. *)

CanNudgeTodos == todosOpen /\ todoNudges < MaxTodoNudges

Attempted == misses + 1 >= MaxNudgeAttempts

RetryFailedTool ==
    /\ lastTool = "error"
    /\ ~Attempted
    /\ misses' = misses + 1
    /\ Appended(TRUE)
    /\ Continue
    /\ UNCHANGED <<todoNudges, completionNudged>>

(* Mutant: the nudge for todos after a failure is not counted. *)
NudgeTodosAfterFailureUncounted ==
    /\ lastTool = "error"
    /\ Attempted
    /\ CanNudgeTodos
    /\ misses' = 0
    /\ Appended(TRUE)
    /\ Continue
    /\ UNCHANGED <<todoNudges, completionNudged>>

NudgeTodosAfterFailure ==
    /\ lastTool = "error"
    /\ Attempted
    /\ CanNudgeTodos
    /\ todoNudges' = todoNudges + 1
    /\ misses' = 0
    /\ Appended(TRUE)
    /\ Continue
    /\ UNCHANGED completionNudged

(* Mutant: after enough attempts a failure is accepted whatever is to do. *)
AcceptFailureAnyway ==
    /\ lastTool = "error"
    /\ Attempted
    /\ misses' = misses + 1
    /\ Break("accepted")
    /\ UNCHANGED <<listVars, todoNudges, completionNudged>>

AcceptFailure ==
    /\ lastTool = "error"
    /\ Attempted
    /\ ~CanNudgeTodos
    /\ misses' = misses + 1
    /\ Break("accepted")
    /\ UNCHANGED <<listVars, todoNudges, completionNudged>>

NudgeTodos ==
    /\ lastTool # "error"
    /\ CanNudgeTodos
    /\ todoNudges' = todoNudges + 1
    /\ Appended(TRUE)
    /\ Continue
    /\ UNCHANGED <<misses, completionNudged>>

(* Messages wait: the text completes nothing. *)
DeferToQueue ==
    /\ lastTool # "error"
    /\ ~CanNudgeTodos
    /\ waiting > 0
    /\ \E content \in BOOLEAN : Appended(content)
    /\ Continue
    /\ UNCHANGED <<misses, todoNudges, completionNudged>>

RemindOfTask ==
    /\ lastTool = "ok"
    /\ ~CanNudgeTodos
    /\ waiting = 0
    /\ ~completionNudged
    /\ completionNudged' = TRUE
    /\ Appended(TRUE)
    /\ Continue
    /\ UNCHANGED <<misses, todoNudges>>

Accept ==
    /\ lastTool # "error"
    /\ ~CanNudgeTodos
    /\ waiting = 0
    /\ lastTool = "ok" => completionNudged
    /\ Break("accepted")
    /\ UNCHANGED <<listVars, misses, todoNudges, completionNudged>>

AnswerText ==
    /\ pc = "acting"
    /\ \/ RetryFailedTool \/ NudgeTodosAfterFailure \/ AcceptFailure
       \/ NudgeTodos \/ DeferToQueue \/ RemindOfTask \/ Accept
    /\ UNCHANGED <<batchVars, doomNudges, recent, reads, flagVars, todosOpen,
                   userVars>>

-----------------------------------------------------------------------------
(* The model answers with tool calls: _process_tool_calls. *)

ToolsOf(b) == {Tool[b[i]] : i \in DOMAIN b}

(* Of the deque only what _detect_doom_loop may look at again is kept: a   *)
(* batch adds a call at least.                                             *)
Latest(s) ==
    LET n == MaxCycleLen * DoomThreshold - 1
    IN  IF Len(s) > n THEN SubSeq(s, Len(s) - n + 1, Len(s)) ELSE s

Cyclic(s, len) ==
    LET n == len * DoomThreshold IN
    /\ Len(s) >= n
    /\ \A i \in (Len(s) - n + 1)..(Len(s) - len) : s[i] = s[i + len]

(* _detect_doom_loop, on the recent calls with those of the batch. *)
Doomed(s) == \E len \in 1..MaxCycleLen : Cyclic(s, len)

(* Warn, and stop at the last strike: nothing is executed. *)
BreakCycle(b) ==
    /\ Doomed(recent \o b)
    /\ recent' = <<>>
    /\ doomNudges' = doomNudges + 1
    /\ IF doomNudges + 1 >= MaxDoomNudges THEN Break("stuck") ELSE Continue
    /\ Appended(TRUE)
    /\ UNCHANGED <<batchVars, todoNudges, reads, flagVars>>

Proceeds(b) ==
    /\ ~Doomed(recent \o b)
    /\ recent' = Latest(recent \o b)
    /\ UNCHANGED doomNudges

(* task_complete among the calls decides alone; its arguments may not      *)
(* parse, and its status may be other than success.                        *)
CompleteTask(b) ==
    /\ "complete" \in ToolsOf(b)
    /\ Proceeds(b)
    /\ \/ Leave("raised") /\ UNCHANGED <<todoNudges, listVars>>
       \/ /\ CanNudgeTodos
          /\ todoNudges' = todoNudges + 1
          /\ Continue
          /\ Appended(TRUE)
       \/ \E success \in BOOLEAN :
              /\ success => ~CanNudgeTodos
              /\ \/ waiting > 0 /\ Continue /\ Appended(TRUE)
                 \/ /\ waiting = 0
                    /\ Break(IF success THEN "completed" ELSE "gaveUp")
                    /\ UNCHANGED listVars
              /\ UNCHANGED todoNudges
    /\ UNCHANGED <<batchVars, reads, flagVars>>

AllReads(b) == ToolsOf(b) = {"read"}

ReadsWith(b) == IF AllReads(b) THEN reads + 1 ELSE 0

MayAct == explored \/ planApproved

(* Explore first: the calls are answered with a nudge and not executed. *)
BlockReads(b) ==
    /\ AllReads(b) /\ ~MayAct /\ ReadsWith(b) >= ExploreAfter
    /\ Proceeds(b)
    /\ reads' = 0
    /\ lastTool' = "ok"
    /\ unanswered' = {}
    /\ Continue
    /\ UNCHANGED <<batchVars, todoNudges, flagVars>>

BlockSpawn(b) ==
    /\ "complete" \notin ToolsOf(b)
    /\ "spawn" \in ToolsOf(b) /\ ~MayAct
    /\ Proceeds(b)
    /\ reads' = 0
    /\ lastTool' = "ok"
    /\ unanswered' = {}
    /\ Continue
    /\ UNCHANGED <<batchVars, todoNudges, flagVars>>

Execute(b) ==
    /\ "complete" \notin ToolsOf(b)
    /\ ~MayAct => "spawn" \notin ToolsOf(b) /\ ~(AllReads(b) /\ ReadsWith(b) >= ExploreAfter)
    /\ Proceeds(b)
    /\ reads' = ReadsWith(b)
    /\ explored' = (explored \/ "explore" \in ToolsOf(b))
    /\ batch' = b
    /\ results' = <<>>
    /\ unanswered' = DOMAIN b
    /\ pc' = "executing"
    /\ UNCHANGED <<why, todoNudges, planApproved, lastTool>>

CallTools(b) ==
    /\ pc = "acting"
    /\ misses' = 0
    /\ BreakCycle(b) \/ CompleteTask(b) \/ BlockReads(b) \/ BlockSpawn(b) \/ Execute(b)
    /\ UNCHANGED <<completionNudged, todosOpen, userVars>>

-----------------------------------------------------------------------------
(* The calls are executed. *)

Together ==
    /\ Len(batch) > 1
    /\ ToolsOf(batch) \subseteq {"read"} \/ ToolsOf(batch) \subseteq {"spawn", "explore"}

(* How a call may end; a denied call of a parallel batch counts as         *)
(* cancelled.                                                              *)
Ends(call) ==
    {"ok", "error", "denied", "cancelled"}
        \cup IF Tool[call] = "plan" THEN {"approved"} ELSE {}
        \cup IF Tool[call] = "background" THEN {"started"} ELSE {}

(* A batch of reads or of subagents, on the threads of the parallel pool.  *)
ExecuteTogether ==
    /\ pc = "executing" /\ results = <<>>
    /\ Together
    /\ IF requested
       THEN results' = [i \in DOMAIN batch |-> "cancelled"]
       ELSE results' \in [DOMAIN batch -> {"ok", "error", "cancelled"}]
    /\ pc' = "answering"
    /\ UNCHANGED <<why, batch, listVars, nudgeVars, flagVars, todosOpen, userVars>>

(* One call of any other batch; the token is looked at before each. *)
ExecuteNext ==
    LET call == batch[Len(results) + 1] IN
    /\ pc = "executing" /\ ~Together
    /\ \E end \in IF requested THEN {"cancelled"} ELSE Ends(call) :
            /\ results' = Append(results, end)
            /\ IF end = "approved" \/ (end = "ok" /\ Tool[call] = "todo")
               THEN todosOpen' \in BOOLEAN
               ELSE UNCHANGED todosOpen
            /\ pc' = IF end \in {"denied", "cancelled"} \/ Len(results') = Len(batch)
                     THEN "answering" ELSE "executing"
    /\ UNCHANGED <<why, batch, listVars, nudgeVars, flagVars, userVars>>

(* A tool raises InterruptedError, which ends the iteration, or anything   *)
(* else, which ends the loop; its batch stays unanswered.  The workers of  *)
(* a parallel batch raise nothing, but arguments that do not parse do, as  *)
(* the batch is announced (subagents) or shown (reads).                    *)
ToolRaises ==
    /\ pc = "executing"
    /\ \/ ~Together /\ Break("interrupted")
       \/ Leave("raised")
    /\ UNCHANGED <<batchVars, listVars, nudgeVars, flagVars, todosOpen, userVars>>

(* validate_tool_results_complete: what was not executed has failed. *)
Result(i) == IF i <= Len(results) THEN results[i] ELSE "error"

Happened(end) == \E i \in DOMAIN results : results[i] = end


(* The results are appended in the order of the calls; a plan, a task in   *)
(* the background or a cancelled call decides how to go on; else the step  *)
(* is stored.                                                              *)
AnswerCalls ==
    /\ pc = "answering"
    /\ unanswered' = {}
    /\ lastTool' = IF Result(Len(batch)) \in {"ok", "approved", "started"} THEN "ok" ELSE "error"
    /\ planApproved' = (planApproved \/ Happened("approved"))
    /\ batch' = <<>> /\ results' = <<>>
    /\ \/ Happened("started") /\ Break("background") /\ UNCHANGED reads
       \/ /\ ~Happened("started")
          /\ Happened("cancelled")
          /\ Break("interrupted")
          /\ UNCHANGED reads
       \/ /\ ~Happened("started") /\ ~Happened("cancelled")
          /\ \/ Leave("raised") /\ UNCHANGED reads
             \/ Continue /\ reads' = IF reads >= ConcludeAfter THEN 0 ELSE reads
    /\ UNCHANGED <<misses, todoNudges, doomNudges, recent, completionNudged, explored,
                   todosOpen, userVars>>

(* BREAK: with messages on the queue the loop goes on. *)
LeaveOrGoOn ==
    /\ pc = "breaking"
    /\ IF waiting > 0
       THEN pc' = "top" /\ why' = "none"
       ELSE pc' = "over" /\ UNCHANGED why
    /\ UNCHANGED <<batchVars, listVars, nudgeVars, flagVars, todosOpen, userVars>>

-----------------------------------------------------------------------------
(* The user. *)

Inject ==
    /\ injected < MaxInjected
    /\ pc # "over"
    /\ injected' = injected + 1
    /\ waiting' = waiting + 1
    /\ UNCHANGED <<pc, why, batchVars, listVars, nudgeVars, flagVars, todosOpen, requested>>

Interrupt ==
    /\ pc # "over" /\ ~requested
    /\ requested' = TRUE
    /\ UNCHANGED <<pc, why, batchVars, listVars, nudgeVars, flagVars, todosOpen, waiting,
                   injected>>

-----------------------------------------------------------------------------
(* The list begins with the messages of earlier runs, and the todo list is *)
(* as they left it.                                                        *)
Init ==
    /\ pc = "top" /\ why = "none"
    /\ batch = <<>> /\ results = <<>>
    /\ unanswered = {}
    /\ lastTool \in {"none", "ok", "error"}
    /\ misses = 0 /\ todoNudges = 0 /\ doomNudges = 0 /\ reads = 0
    /\ recent = <<>>
    /\ explored = FALSE /\ planApproved = FALSE /\ completionNudged = FALSE
    /\ todosOpen \in BOOLEAN
    /\ waiting = 0 /\ injected = 0 /\ requested = FALSE

ModelStep == ModelFails \/ Raise \/ AnswerText \/ \E b \in Batches : CallTools(b)

ToolStep == ExecuteTogether \/ ExecuteNext \/ ToolRaises \/ AnswerCalls

LoopStep == StartIteration \/ Think \/ StopThinking \/ ModelStep \/ ToolStep \/ LeaveOrGoOn

Next == LoopStep \/ Inject \/ Interrupt

Spec == Init /\ [][Next]_vars

(* The thread runs, the model answers and the tools return. *)
FairSpec == Spec /\ WF_vars(LoopStep)
-----------------------------------------------------------------------------
(* Properties. *)

TypeOK ==
    /\ pc \in {"top", "thinking", "acting", "executing", "answering", "breaking", "over"}
    /\ why \in Reasons \cup {"none"}
    /\ batch \in Seq(Calls) /\ results \in Seq(Outcomes)
    /\ Len(results) <= Len(batch)
    /\ unanswered \subseteq DOMAIN batch
    /\ lastTool \in {"none", "ok", "error"}
    /\ misses \in Nat /\ todoNudges \in 0..MaxTodoNudges /\ doomNudges \in Nat
    /\ recent \in Seq(Calls)
    /\ reads \in Nat
    /\ explored \in BOOLEAN /\ planApproved \in BOOLEAN /\ completionNudged \in BOOLEAN
    /\ todosOpen \in BOOLEAN
    /\ waiting \in Nat /\ injected \in Nat /\ requested \in BOOLEAN

(* The model is never shown a call without an answer ("Message pair        *)
(* integrity is enforced at write time", iteration.py): what a tool that   *)
(* raised leaves behind is answered before the loop goes on to it.         *)
ModelSeesAnswers == pc \in {"thinking", "acting"} => unanswered = {}

(* A run that ends with a success, by task_complete or by a text, leaves   *)
(* todos open only when every nudge for them has been spent, however often *)
(* tools failed and messages came in between (MAX_TODO_NUDGES).            *)
SuccessSpentItsNudges ==
    pc \in {"breaking", "over"} /\ why \in {"accepted", "completed"} /\ todosOpen
        => todoNudges = MaxTodoNudges

(* The budgets end every loop that makes no new calls, with no help from   *)
(* the iteration limit: if from some point on the model answers with texts *)
(* and with one and the same batch, in any mixture, the run ends.          *)
RepeatingModelIsStopped ==
    \A b \in Batches :
        Len(b) <= MaxCycleLen =>
            \/ <>(pc = "over")
            \/ []<><<\E c \in Batches \ {b} : CallTools(c)>>_vars

(* An interrupt ends the loop whatever the model does, even if messages    *)
(* wait on the queue.                                                      *)
InterruptEndsLoop == requested ~> pc = "over"
=============================================================================
