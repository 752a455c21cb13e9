----------------------------- MODULE SubagentLoop -----------------------------
(* RunLoopMixin.run_sync: the loop a subagent runs inside a tool call of   *)
(* its parent, from the first iteration to the result.  It has no limit of *)
(* iterations (execute_subagent passes none) and nobody feeds its queue.   *)
(* The registry, and with it the todo list, is the one of the parent.      *)
(* The messages are reduced to the calls of the last response that have no *)
(* answer yet and to how the last tool message reads.                      *)
EXTENDS Naturals, Sequences, FiniteSets

CONSTANTS
    MaxFails,      \* MAX_NUDGE_ATTEMPTS
    MaxTodoHints,  \* MAX_TODO_NUDGES
    MaxTries,      \* MAX_API_RETRIES
    MaxPerAnswer   \* bound of the model: tool calls in one response

ASSUME LoopAssumption ==
    /\ MaxFails \in Nat \ {0} /\ MaxTodoHints \in Nat /\ MaxTries \in Nat \ {0}
    /\ MaxPerAnswer \in Nat

VARIABLES
    subAt,       \* where the loop is
    subTry,      \* api_attempt
    subFails,    \* consecutive_no_tool_calls
    subHints,    \* todo_nudge_count
    subAsked,    \* completion_nudge_sent
    subExplored, \* has_explored
    subBatch,    \* the calls of the last response
    subNext,     \* the one whose turn it is
    subOpen,     \* those without an answer in the list
    subLast,     \* the last tool message: "none", "ok" or "error"
    subStop,     \* the parent's interrupt token
    parentTodos, \* the parent's list: nothing left, something left, an item in progress
    subRefused,  \* history: task_complete was refused in this response
    subLate,     \* history: a result was added to a call already answered in it
    subResult    \* what the parent gets
subCounters == <<subTry, subFails, subHints, subAsked, subExplored>>
subCalls    == <<subBatch, subNext, subOpen, subLast, subRefused, subLate>>
subVars == <<subAt, subCounters, subCalls, subStop, parentTodos, subResult>>

(* read: PARALLELIZABLE_TOOLS; finish: task_complete with status success;  *)
(* stop: with another status; explore and agent: spawn_subagent.           *)
CallKinds == {"read", "write", "explore", "agent", "finish", "stop"}
Responses == UNION { [1 .. n -> CallKinds] : n \in 1 .. MaxPerAnswer }
Unfinished == parentTodos # "clear"

SubInit ==
    /\ subAt = "idle" /\ subTry = 0 /\ subFails = 0 /\ subHints = 0
    /\ subAsked = FALSE /\ subExplored = FALSE
    /\ subBatch = <<>> /\ subNext = 1 /\ subOpen = {} /\ subLast = "none"
    /\ subStop = FALSE /\ parentTodos \in {"clear", "left", "doing"}
    /\ subRefused = FALSE /\ subLate = FALSE /\ subResult = "none"

(* Every way out passes the finally block: _reset_stuck_todos takes what   *)
(* the parent is doing back to "todo".                                     *)
ResetTodos == parentTodos' = IF parentTodos = "doing" THEN "left" ELSE parentTodos
End(result) == subAt' = "ended" /\ subResult' = result /\ ResetTodos

Proceed(where) == subAt' = where /\ UNCHANGED <<parentTodos, subResult>>
-----------------------------------------------------------------------------
(* The parent's call of spawn_subagent reaches run_sync, which begins with *)
(* a list of its own, the prompt of the subagent and the task.             *)
Spawn ==
    /\ subAt = "idle" /\ Proceed("head")
    /\ UNCHANGED <<subCounters, subCalls, subStop>>

(* The head of the loop looks at the token, then calls the model.          *)
StartIteration ==
    /\ subAt = "head"
    /\ \/ subStop /\ End("interrupted") /\ UNCHANGED subTry
       \/ ~subStop /\ Proceed("calling") /\ subTry' = 0
    /\ UNCHANGED <<subFails, subHints, subAsked, subExplored, subCalls, subStop>>

(* post_json came back without a response that can be used: its retries    *)
(* are spent, or it saw the token.  The last attempt ends the run as a     *)
(* failure, an interrupt included; an answer that no retry can mend does   *)
(* so at once.                                                             *)
CallFails ==
    /\ subAt = "calling"
    /\ IF subTry + 1 < MaxTries
       THEN (Proceed("waiting") /\ subTry' = subTry + 1) \/ (End("failed") /\ UNCHANGED subTry)
       ELSE End("failed") /\ UNCHANGED subTry
    /\ UNCHANGED <<subFails, subHints, subAsked, subExplored, subCalls, subStop>>

(* The back-off polls the token; it may be set after the last look.        *)
BackOff ==
    /\ subAt = "waiting"
    /\ \/ subStop /\ End("interrupted")
       \/ Proceed("calling")
    /\ UNCHANGED <<subCounters, subCalls, subStop>>

(* An answer without tool calls.  After a failed tool it is a reason to    *)
(* nudge; then todos are, and once the task itself; then it is accepted.   *)
FailHint == subLast = "error" /\ subFails + 1 < MaxFails
(* Mutant: a nudge about the todos is not counted.                         *)
UncountedHint == Unfinished /\ subHints < MaxTodoHints /\ UNCHANGED subHints
TodoHint == Unfinished /\ subHints < MaxTodoHints /\ subHints' = subHints + 1
NoTodoHint == ~(Unfinished /\ subHints < MaxTodoHints) /\ UNCHANGED subHints
AnswerText ==
    /\ subAt = "calling"
    /\ subFails' = IF subLast = "error" THEN subFails + 1 ELSE subFails
    /\ \/ FailHint /\ Proceed("head") /\ UNCHANGED <<subHints, subAsked>>
       \/ ~FailHint /\ TodoHint /\ Proceed("head") /\ UNCHANGED subAsked
       \/ ~FailHint /\ NoTodoHint /\ ~subAsked /\ subAsked' = TRUE /\ Proceed("head")
       \/ ~FailHint /\ NoTodoHint /\ subAsked /\ End("accepted") /\ UNCHANGED subAsked
    /\ UNCHANGED <<subTry, subExplored, subCalls, subStop>>

(* An answer with tool calls.  Before the code was explored, one call of   *)
(* another subagent has all calls answered unexecuted; that Code-Explorer  *)
(* is called counts as explored before it runs.                            *)
Together(b) == Len(b) > 1 /\ \A i \in DOMAIN b : b[i] = "read"
Blocked(b) == ~subExplored /\ \E i \in DOMAIN b : b[i] = "agent"
CallTools(b) ==
    /\ subAt = "calling"
    /\ subFails' = 0
    /\ subBatch' = b /\ subNext' = 1 /\ subRefused' = FALSE /\ subLate' = FALSE
    /\ \/ Blocked(b) /\ Proceed("head") /\ subOpen' = {} /\ subLast' = "ok" /\ UNCHANGED subExplored
       \/ /\ ~Blocked(b)
          /\ Proceed(IF Together(b) THEN "together" ELSE "tools")
          /\ subOpen' = DOMAIN b /\ UNCHANGED subLast
          /\ subExplored' = (subExplored \/ \E i \in DOMAIN b : b[i] = "explore")
    /\ UNCHANGED <<subTry, subHints, subAsked, subStop>>

-----------------------------------------------------------------------------
(* _execute_tools_parallel waits for all; the first result that was        *)
(* interrupted ends the run, the calls after it without an answer.         *)
RunTogether ==
    /\ subAt = "together"
    /\ \/ \E n \in subOpen : subOpen' = { i \in subOpen : i >= n } /\ End("interrupted") /\ subLast' \in {subLast, "ok", "error"}
       \/ subOpen' = {} /\ Proceed("head") /\ subLast' \in {"ok", "error"}
    /\ UNCHANGED <<subCounters, subBatch, subNext, subRefused, subLate, subStop>>

Turn(kinds) == subAt = "tools" /\ subNext \in DOMAIN subBatch /\ subBatch[subNext] \in kinds

(* A call in its turn: the result is appended, whether the list still      *)
(* waits for it or not (the list is permissive).  A refusal by the user    *)
(* also comes back as interrupted.                                         *)
RunTool ==
    /\ Turn({"read", "write", "explore", "agent"})
    /\ \/ /\ subOpen' = subOpen \ {subNext}
          /\ subLate' = (subLate \/ subNext \notin subOpen)
          /\ subLast' \in {"ok", "error"}
          /\ subNext' = subNext + 1
          /\ Proceed("tools")
       \/ End("interrupted") /\ UNCHANGED <<subOpen, subLate, subLast, subNext>>
    /\ UNCHANGED <<subCounters, subBatch, subRefused, subStop>>

(* task_complete.  With todos left it is refused by a user message, which  *)
(* makes the list answer every open call with an error; the calls after it *)
(* are executed all the same.                                              *)
Refuse ==
    /\ Turn({"finish"}) /\ TodoHint
    /\ subOpen' = {} /\ subLast' = IF subOpen = {} THEN subLast ELSE "error"
    /\ subRefused' = TRUE
    /\ subNext' = subNext + 1
    /\ Proceed("tools")
    /\ UNCHANGED <<subTry, subFails, subAsked, subExplored, subBatch, subLate, subStop>>
Complete ==
    /\ \/ Turn({"finish"}) /\ NoTodoHint /\ End("completed")
       \/ Turn({"stop"}) /\ UNCHANGED subHints /\ \E r \in {"partial", "failed"} : End(r)
    /\ UNCHANGED <<subTry, subFails, subAsked, subExplored, subCalls, subStop>>

ToolsDone ==
    /\ subAt = "tools" /\ subNext > Len(subBatch)
    /\ Proceed("head")
    /\ UNCHANGED <<subCounters, subCalls, subStop>>

(* Arguments that are no JSON, a response that is none, a tool that raises *)
(* InterruptedError: the exception leaves the loop through the finally.    *)
Raise ==
    /\ subAt \in {"calling", "together", "tools"} /\ End("raised")
    /\ UNCHANGED <<subCounters, subCalls, subStop>>

(* The user interrupts the parent's run.                                   *)
Interrupt == ~subStop /\ subStop' = TRUE /\ UNCHANGED <<subAt, subCounters, subCalls, parentTodos, subResult>>
(* Another subagent of the same parent comes to its end.                   *)
SiblingEnds ==
    /\ parentTodos = "doing" /\ ResetTodos
    /\ UNCHANGED <<subAt, subCounters, subCalls, subStop, subResult>>

SubCallsTools == \E b \in Responses : CallTools(b)
SubStep ==
    \/ StartIteration \/ CallFails \/ BackOff \/ AnswerText \/ SubCallsTools
    \/ RunTogether \/ RunTool \/ Refuse \/ Complete \/ ToolsDone \/ Raise
SubNext == SubStep \/ Spawn \/ Interrupt \/ SiblingEnds
SubSpec == SubInit /\ [][SubNext]_subVars /\ WF_subVars(SubStep)
-----------------------------------------------------------------------------
SubTypeOK ==
    /\ subAt \in {"idle", "head", "calling", "waiting", "together", "tools", "ended"}
    /\ subTry \in 0 .. MaxTries - 1 /\ subHints \in 0 .. MaxTodoHints /\ subFails \in Nat
    /\ subAsked \in BOOLEAN /\ subExplored \in BOOLEAN
    /\ subBatch \in Seq(CallKinds) /\ subNext \in Nat \ {0} /\ subOpen \subseteq DOMAIN subBatch
    /\ subLast \in {"none", "ok", "error"} /\ subStop \in BOOLEAN
    /\ parentTodos \in {"clear", "left", "doing"}
    /\ subRefused \in BOOLEAN /\ subLate \in BOOLEAN
    /\ subResult \in {"none", "accepted", "completed", "partial", "failed", "interrupted", "raised"}

(* A result is added to a call that has one already only in a response     *)
(* whose task_complete was refused: nothing else makes the list answer in  *)
(* the place of a tool that is yet to run.                                 *)
LateOnlyAfterRefusal == subLate => subRefused

(* The model is never called with a call it made unanswered.               *)
SubSendsAnswered == subAt \in {"head", "calling", "waiting"} => subOpen = {}

(* A run that is accepted on a mere text was reminded of its task, and of  *)
(* its todos until the budget was spent or there were none.                *)
AcceptedSpentItsHints ==
    subResult = "accepted" => subAsked /\ (Unfinished => subHints = MaxTodoHints)

(* Without a limit of iterations, an interrupt ends the run, and so does a *)
(* model that calls no more tools: the budgets of the nudges run out.      *)
SubagentLetsGo ==
    <>(subAt = "head") /\ (<>subStop \/ <>[][~SubCallsTools]_subVars) => <>(subAt = "ended")
=============================================================================
