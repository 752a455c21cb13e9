--------------------------- MODULE ReactTurnProofs ---------------------------
(***************************************************************************)
(* Theorems about ReactTurn for any tools, batches, budgets and messages.  *)
(*                                                                         *)
(* The calls of a tool that raised stay unanswered until a message is      *)
(* appended.  What the invariant adds to the properties is why one always  *)
(* is before the model is called again: the loop only goes on because a    *)
(* message waits (RepairIsDue), and its head appends that message.         *)
(***************************************************************************)
EXTENDS ReactTurn, TLAPS

(* While a call is to be executed it is in the batch.                      *)
CallIsLeft == pc = "executing" => Len(results) < Len(batch)

(* The loop is at its head with unanswered calls only if a message waits.  *)
RepairIsDue == pc = "top" => unanswered = {} \/ waiting > 0

Safe ==
    /\ TypeOK
    /\ CallIsLeft
    /\ RepairIsDue
    /\ ModelSeesAnswers
    /\ SuccessSpentItsNudges

-----------------------------------------------------------------------------
(* What a drain leaves, and that it takes a message when one waits.        *)
LEMMA Drain ==
    ASSUME waiting \in Nat
    PROVE  /\ Drainable \in Nat /\ waiting - Drainable \in Nat
           /\ waiting > 0 => Drainable > 0
  BY BudgetsAssumption DEF Drainable, Lower

LEMMA LatestIsSeq ==
    ASSUME NEW s \in Seq(Calls)
    PROVE  Latest(s) \in Seq(Calls)
  <1> DEFINE n == MaxCycleLen * DoomThreshold - 1
  <1>1. n \in Nat
    BY BudgetsAssumption
  <1>2. CASE Len(s) > n
    <2>1. Len(s) - n + 1 \in Nat \ {0}
      BY <1>1, <1>2
    <2>2. SubSeq(s, Len(s) - n + 1, Len(s)) \in Seq(Calls)
      BY <1>1, <2>1
    <2> QED
      BY <1>2, <2>2 DEF Latest
  <1>3. CASE ~(Len(s) > n)
    BY <1>3 DEF Latest
  <1> QED
    BY <1>2, <1>3

LEMMA BatchIsSeq ==
    ASSUME NEW b \in Batches
    PROVE  b \in Seq(Calls) /\ Len(b) > 0
  BY CallsAssumption

LEMMA ProceedsType ==
    ASSUME TypeOK, NEW b \in Batches, Proceeds(b)
    PROVE  recent' \in Seq(Calls) /\ doomNudges' \in Nat
  <1>1. recent \o b \in Seq(Calls)
    BY BatchIsSeq DEF TypeOK
  <1> QED
    BY <1>1, LatestIsSeq DEF Proceeds, TypeOK

-----------------------------------------------------------------------------
LEMMA SafeInit == Init => Safe
  <1> SUFFICES ASSUME Init PROVE Safe
    OBVIOUS
  <1>1. <<>> \in Seq(Calls) /\ <<>> \in Seq(Outcomes) /\ Len(<<>>) = 0
    OBVIOUS
  <1>2. batch = <<>> /\ results = <<>> /\ recent = <<>> /\ unanswered = {}
    BY DEF Init
  <1>3. 0 \in 0..MaxTodoNudges
    BY BudgetsAssumption
  <1>4. batch \in Seq(Calls) /\ results \in Seq(Outcomes) /\ recent \in Seq(Calls)
    BY <1>1, <1>2
  <1>5. Len(results) <= Len(batch)
    BY <1>1, <1>2
  <1>6. TypeOK
    BY <1>2, <1>3, <1>4, <1>5 DEF Init, TypeOK
  <1> QED
    BY <1>2, <1>6 DEF Init, Safe, CallIsLeft, RepairIsDue, ModelSeesAnswers, SuccessSpentItsNudges

(* The head of the loop, and the thinking phase.                           *)
LEMMA HeadStep ==
    ASSUME Safe, StartIteration \/ Think \/ StopThinking \/ ModelFails \/ Raise \/ LeaveOrGoOn
    PROVE  Safe'
  <1> USE DEF Safe, TypeOK, CallIsLeft, RepairIsDue, ModelSeesAnswers, SuccessSpentItsNudges,
        Reasons, Break, Leave, Compact, batchVars, listVars, nudgeVars, flagVars, userVars
  <1>1. CASE StartIteration
    BY <1>1, Drain DEF StartIteration, Appended
  <1>2. CASE Think
    BY <1>2, Drain DEF Think
  <1>3. CASE StopThinking
    BY <1>3, Drain DEF StopThinking
  <1>4. CASE ModelFails
    BY <1>4 DEF ModelFails
  <1>5. CASE Raise
    BY <1>5 DEF Raise
  <1>6. CASE LeaveOrGoOn
    BY <1>6 DEF LeaveOrGoOn
  <1> QED
    BY <1>1, <1>2, <1>3, <1>4, <1>5, <1>6

LEMMA TextStep ==
    ASSUME Safe, AnswerText
    PROVE  Safe'
  <1> USE BudgetsAssumption DEF Safe, TypeOK, CallIsLeft, RepairIsDue, ModelSeesAnswers,
        SuccessSpentItsNudges, Reasons, Break, Continue, Appended, CanNudgeTodos,
        batchVars, listVars, nudgeVars, flagVars, userVars
  <1>1. UNCHANGED <<batchVars, doomNudges, recent, reads, flagVars, todosOpen, userVars>>
    BY DEF AnswerText
  <1>2. CASE RetryFailedTool
    BY <1>1, <1>2 DEF AnswerText, RetryFailedTool
  <1>3. CASE NudgeTodosAfterFailure
    BY <1>1, <1>3 DEF AnswerText, NudgeTodosAfterFailure
  <1>4. CASE AcceptFailure
    BY <1>1, <1>4 DEF AnswerText, AcceptFailure
  <1>5. CASE NudgeTodos
    BY <1>1, <1>5 DEF AnswerText, NudgeTodos
  <1>6. CASE DeferToQueue
    BY <1>1, <1>6 DEF AnswerText, DeferToQueue
  <1>7. CASE RemindOfTask
    BY <1>1, <1>7 DEF AnswerText, RemindOfTask
  <1>8. CASE Accept
    BY <1>1, <1>8 DEF AnswerText, Accept
  <1> QED
    BY <1>2, <1>3, <1>4, <1>5, <1>6, <1>7, <1>8 DEF AnswerText

(* The model answers with a batch.                                         *)
LEMMA BreakCycleStep ==
    ASSUME Safe, NEW b \in Batches, CallTools(b), BreakCycle(b)
    PROVE  Safe'
  <1>1. recent' \in Seq(Calls)
    BY DEF BreakCycle
  <1> QED
    BY <1>1
       DEF CallTools, BreakCycle, Break, Continue, Appended, Safe, TypeOK, CallIsLeft, RepairIsDue,
           ModelSeesAnswers, SuccessSpentItsNudges, Reasons, batchVars, listVars, nudgeVars,
           flagVars, userVars

LEMMA CompleteTaskStep ==
    ASSUME Safe, NEW b \in Batches, CallTools(b), CompleteTask(b)
    PROVE  Safe'
  <1>1. recent' \in Seq(Calls) /\ doomNudges' \in Nat
    BY ProceedsType DEF CompleteTask, Safe
  <1>2. UNCHANGED <<batchVars, reads, flagVars, completionNudged, todosOpen, userVars>> /\ misses' = 0
    BY DEF CompleteTask, CallTools
  <1>3. todoNudges \in 0..MaxTodoNudges /\ MaxTodoNudges \in Nat
    BY BudgetsAssumption DEF Safe, TypeOK
  <1> USE <1>1, <1>2, <1>3
        DEF Break, Continue, Leave, Appended, CanNudgeTodos, Safe, TypeOK, CallIsLeft, RepairIsDue,
            ModelSeesAnswers, SuccessSpentItsNudges, Reasons, batchVars, listVars, nudgeVars,
            flagVars, userVars
  <1>4. CASE Leave("raised") /\ UNCHANGED <<todoNudges, listVars>>
    BY <1>4
  <1>5. CASE CanNudgeTodos /\ todoNudges' = todoNudges + 1 /\ Continue /\ Appended(TRUE)
    BY <1>5
  <1>6. ASSUME NEW success \in BOOLEAN, success => ~CanNudgeTodos, UNCHANGED todoNudges,
               waiting > 0, Continue, Appended(TRUE)
        PROVE  Safe'
    BY <1>6
  <1>7. ASSUME NEW success \in BOOLEAN, success => ~CanNudgeTodos, UNCHANGED todoNudges,
               Break(IF success THEN "completed" ELSE "gaveUp"), UNCHANGED listVars
        PROVE  Safe'
    <2>1. CASE success
      BY <1>7, <2>1
    <2>2. CASE ~success
      BY <1>7, <2>2
    <2> QED
      BY <2>1, <2>2
  <1> QED
    BY <1>4, <1>5, <1>6, <1>7 DEF CompleteTask

LEMMA BlockStep ==
    ASSUME Safe, NEW b \in Batches, CallTools(b), BlockReads(b) \/ BlockSpawn(b)
    PROVE  Safe'
  <1>1. recent' \in Seq(Calls) /\ doomNudges' \in Nat
    BY ProceedsType DEF BlockReads, BlockSpawn, Safe
  <1> QED
    BY <1>1
       DEF CallTools, BlockReads, BlockSpawn, Continue, Safe, TypeOK, CallIsLeft, RepairIsDue,
           ModelSeesAnswers, SuccessSpentItsNudges, batchVars, nudgeVars, flagVars, userVars

LEMMA ExecuteStep ==
    ASSUME Safe, NEW b \in Batches, CallTools(b), Execute(b)
    PROVE  Safe'
  <1>1. recent' \in Seq(Calls) /\ doomNudges' \in Nat
    BY ProceedsType DEF Execute, Safe
  <1>2. batch' \in Seq(Calls) /\ results' \in Seq(Outcomes)
    BY BatchIsSeq DEF Execute
  <1>3. Len(results') = 0 /\ Len(batch') > 0
    BY BatchIsSeq DEF Execute
  <1>4. explored' \in BOOLEAN
    BY DEF Execute, Safe, TypeOK
  <1>5. reads' \in Nat
    BY DEF Execute, ReadsWith, Safe, TypeOK
  <1>6. TypeOK'
    BY <1>1, <1>2, <1>3, <1>4, <1>5 DEF CallTools, Execute, Safe, TypeOK, userVars
  <1> QED
    BY <1>3, <1>6
       DEF CallTools, Execute, Safe, CallIsLeft, RepairIsDue, ModelSeesAnswers,
           SuccessSpentItsNudges

-----------------------------------------------------------------------------
(* The calls are executed and answered.                                    *)
LEMMA TogetherStep ==
    ASSUME Safe, ExecuteTogether
    PROVE  Safe'
  <1>1. results' \in [DOMAIN batch -> Outcomes]
    BY DEF ExecuteTogether, Outcomes
  <1>2. results' \in Seq(Outcomes) /\ Len(results') = Len(batch)
    <2>1. batch \in Seq(Calls)
      BY DEF Safe, TypeOK
    <2>2. DOMAIN batch = 1..Len(batch) /\ Len(batch) \in Nat
      BY <2>1
    <2> QED
      BY <1>1, <2>2
  <1> QED
    BY <1>2
       DEF ExecuteTogether, Safe, TypeOK, CallIsLeft, RepairIsDue, ModelSeesAnswers,
           SuccessSpentItsNudges, listVars, nudgeVars, flagVars, userVars

LEMMA NextCallStep ==
    ASSUME Safe, ExecuteNext
    PROVE  Safe'
  <1>1. PICK end \in Outcomes :
            /\ results' = Append(results, end)
            /\ pc' = IF end \in {"denied", "cancelled"} \/ Len(results') = Len(batch)
                     THEN "answering" ELSE "executing"
    BY DEF ExecuteNext, Ends, Outcomes
  <1>2. results \in Seq(Outcomes) /\ batch \in Seq(Calls) /\ Len(results) < Len(batch)
    BY DEF ExecuteNext, Safe, TypeOK, CallIsLeft
  <1>3. results' \in Seq(Outcomes) /\ Len(results') = Len(results) + 1
    BY <1>1, <1>2
  <1>4. Len(results') <= Len(batch) /\ (pc' = "executing" => Len(results') < Len(batch))
    BY <1>1, <1>2, <1>3
  <1>5. todosOpen' \in BOOLEAN
    BY DEF ExecuteNext, Safe, TypeOK
  <1> QED
    BY <1>1, <1>3, <1>4, <1>5
       DEF ExecuteNext, Safe, TypeOK, CallIsLeft, RepairIsDue, ModelSeesAnswers,
           SuccessSpentItsNudges, listVars, nudgeVars, flagVars, userVars

LEMMA RaiseStep ==
    ASSUME Safe, ToolRaises
    PROVE  Safe'
  BY DEF ToolRaises, Break, Leave, Safe, TypeOK, CallIsLeft, RepairIsDue, ModelSeesAnswers,
         SuccessSpentItsNudges, Reasons, batchVars, listVars, nudgeVars, flagVars, userVars

LEMMA AnswerStep ==
    ASSUME Safe, AnswerCalls
    PROVE  Safe'
  <1>1. batch' \in Seq(Calls) /\ results' \in Seq(Outcomes) /\ Len(results') <= Len(batch')
    BY DEF AnswerCalls
  <1>2. planApproved' \in BOOLEAN /\ reads' \in Nat /\ lastTool' \in {"ok", "error"}
    BY DEF AnswerCalls, Safe, TypeOK
  <1>3. /\ pc' \in {"top", "breaking", "over"}
        /\ pc' # "top" => why' \in {"background", "interrupted", "raised"}
        /\ pc' = "top" => why' = why
    BY DEF AnswerCalls, Break, Leave, Continue
  <1>4. unanswered' = {}
    BY DEF AnswerCalls
  <1>5. TypeOK'
    BY <1>1, <1>2, <1>3, <1>4 DEF AnswerCalls, Safe, TypeOK, Reasons, userVars
  <1> QED
    BY <1>3, <1>4, <1>5
       DEF Safe, CallIsLeft, RepairIsDue, ModelSeesAnswers, SuccessSpentItsNudges

-----------------------------------------------------------------------------
LEMMA UserStep ==
    ASSUME Safe, Inject \/ Interrupt
    PROVE  Safe'
  <1> USE DEF Safe, TypeOK, CallIsLeft, RepairIsDue, ModelSeesAnswers, SuccessSpentItsNudges,
        batchVars, listVars, nudgeVars, flagVars
  <1>1. CASE Inject
    <2>1. waiting' \in Nat /\ injected' \in Nat /\ (waiting > 0 => waiting' > 0)
      BY <1>1 DEF Inject
    <2> QED
      BY <1>1, <2>1 DEF Inject
  <1>2. CASE Interrupt
    BY <1>2 DEF Interrupt
  <1> QED
    BY <1>1, <1>2

LEMMA SafeStep == Safe /\ [Next]_vars => Safe'
  <1> SUFFICES ASSUME Safe, [Next]_vars PROVE Safe'
    OBVIOUS
  <1>1. ASSUME ModelStep PROVE Safe'
    BY <1>1, HeadStep, TextStep, BreakCycleStep, CompleteTaskStep, BlockStep, ExecuteStep
       DEF ModelStep, CallTools
  <1>2. ASSUME ToolStep PROVE Safe'
    BY <1>2, TogetherStep, NextCallStep, RaiseStep, AnswerStep DEF ToolStep
  <1>3. ASSUME StartIteration \/ Think \/ StopThinking \/ LeaveOrGoOn PROVE Safe'
    BY <1>3, HeadStep
  <1>4. ASSUME Inject \/ Interrupt PROVE Safe'
    BY <1>4, UserStep
  <1>5. CASE UNCHANGED vars
    BY <1>5
       DEF vars, Safe, TypeOK, CallIsLeft, RepairIsDue, ModelSeesAnswers, SuccessSpentItsNudges,
           batchVars, listVars, nudgeVars, flagVars, userVars
  <1> QED
    BY <1>1, <1>2, <1>3, <1>4, <1>5 DEF Next, LoopStep

(* The invariant the theorems rest on, for every instance.                 *)
THEOREM SafeHolds == Spec => []Safe
  BY SafeInit, SafeStep, PTL DEF Spec

(* TypeOK holds for any tools, batches and budgets.                        *)
THEOREM TypesHold == Spec => []TypeOK
  <1>1. Safe => TypeOK
    BY DEF Safe
  <1> QED
    BY <1>1, SafeHolds, PTL

(* Whatever tools raise and whenever messages come, the model is never     *)
(* called with an unanswered tool call in the message list.                *)
THEOREM AnswersAreSeen == Spec => []ModelSeesAnswers
  <1>1. Safe => ModelSeesAnswers
    BY DEF Safe
  <1> QED
    BY <1>1, SafeHolds, PTL

(* However the loop went, a success leaves todos open only when all the    *)
(* nudges for them have been spent.                                        *)
THEOREM NudgesAreSpent == Spec => []SuccessSpentItsNudges
  <1>1. Safe => SuccessSpentItsNudges
    BY DEF Safe
  <1> QED
    BY <1>1, SafeHolds, PTL
=============================================================================
