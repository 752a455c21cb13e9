------------------------------ MODULE SkillJobs ------------------------------
(* The jobs of the deep_analyze skill.  The tool submits a job to the pool *)
(* of its engine and waits a while for its first results; the run then     *)
(* ends (unless a message came in meanwhile, or the tool was called by a   *)
(* subagent) and the job goes on by itself, through phases that ask the    *)
(* user (the waits are those of PendingReviews) and between which it looks *)
(* at its cancel event.  Each run builds its tools, and with them an       *)
(* engine and a registry of jobs, anew.                                    *)
EXTENDS Naturals, FiniteSets

CONSTANTS
    MaxJobs,     \* bound of the model: calls of deep_analyze
    Workers,     \* max_workers of the registry's pool
    MaxRounds,   \* MAX_ITERATIONS of the clarification
    MaxReviews,  \* bound of the model: changes to the plan a user asks for
    MaxRuns      \* bound of the model: runs after the first

ASSUME JobAssumption ==
    /\ Workers \in Nat \ {0} /\ MaxRounds \in Nat
    /\ MaxJobs \in Nat /\ MaxReviews \in Nat /\ MaxRuns \in Nat

VARIABLES
    jobAt,       \* where each job is in run_job
    jobRun,      \* the run whose engine has it
    jobCancel,   \* cancel_event
    jobReady,    \* _profile_ready
    jobRound,    \* rounds of clarification asked
    jobReviews,  \* changes to the plan asked for
    jobCaller,   \* the call of deep_analyze: not made, waiting, or what it returned
    runNow,      \* the run in progress
    jobNags      \* history: questions asked after the cancel event was set
jobVars == <<jobAt, jobRun, jobCancel, jobReady, jobRound, jobReviews, jobCaller, runNow, jobNags>>

Jobs == 1 .. MaxJobs     \* in the order of the calls
JobPhases == {"loading", "profiling", "exploring", "clarifying", "judging", "planning", "planned",
           "reviewing", "extracting", "rendering", "synthesizing", "reporting", "announcing"}
Over == {"done", "failed", "cancelled"}
Told == {"profile", "nothing", "error"}

JobInit ==
    /\ jobAt = [j \in Jobs |-> "none"] /\ jobRun = [j \in Jobs |-> 0]
    /\ jobCancel = [j \in Jobs |-> FALSE] /\ jobReady = [j \in Jobs |-> FALSE]
    /\ jobRound = [j \in Jobs |-> 0] /\ jobReviews = [j \in Jobs |-> 0]
    /\ jobCaller = [j \in Jobs |-> "none"] /\ runNow = 0
    /\ jobNags = [j \in Jobs |-> 0]

Move(j, p) == jobAt' = [jobAt EXCEPT ![j] = p]
(* Mutant: nobody looks at the event after a change of the plan.           *)
MoveFromReview(j, p) == Move(j, IF jobCancel[j] /\ jobAt[j] # "reviewing" THEN "cancelled" ELSE p)
(* Mutant: nor before the report.                                          *)
MoveToReport(j, p) == Move(j, IF jobCancel[j] /\ jobAt[j] # "synthesizing" THEN "cancelled" ELSE p)
(* _check_cancel at the end of a phase.                                    *)
MoveUnlessCancelled(j, p) == Move(j, IF jobCancel[j] THEN "cancelled" ELSE p)
CountNag(j) == jobNags' = [jobNags EXCEPT ![j] = @ + IF jobCancel[j] THEN 1 ELSE 0]
-----------------------------------------------------------------------------
(* DeepAnalyzeEngine.deep_analyze on the run's thread: the job goes to the *)
(* pool, and the caller waits for the profile.                             *)
StartJob(j) ==
    /\ jobAt[j] = "none" /\ \A k \in Jobs : jobCaller[k] # "waiting"
    /\ \A k \in 1 .. j - 1 : jobAt[k] # "none"
    /\ Move(j, "queued")
    /\ jobRun' = [jobRun EXCEPT ![j] = runNow]
    /\ jobCaller' = [jobCaller EXCEPT ![j] = "waiting"]
    /\ UNCHANGED <<jobCancel, jobReady, jobRound, jobReviews, runNow, jobNags>>

(* It returns what it finds when it is woken, or after 90 seconds without. *)
CallReturns(j) ==
    /\ jobCaller[j] = "waiting"
    /\ jobCaller' = [jobCaller EXCEPT ![j] =
            IF ~jobReady[j] THEN "nothing" ELSE IF jobAt[j] = "failed" THEN "error" ELSE "profile"]
    /\ UNCHANGED <<jobAt, jobRun, jobCancel, jobReady, jobRound, jobReviews, runNow, jobNags>>

(* A later query builds its tools anew.                                    *)
NewRun ==
    /\ runNow < MaxRuns /\ \A j \in Jobs : jobCaller[j] # "waiting"
    /\ runNow' = runNow + 1
    /\ UNCHANGED <<jobAt, jobRun, jobCancel, jobReady, jobRound, jobReviews, jobCaller, jobNags>>

(* cancel_analyze: the model knows the identifier once the call returned,  *)
(* and only an engine of the same run knows the job.                       *)
Known(j) == jobCaller[j] \in Told /\ jobRun[j] = runNow
CancelAnalyze(j) ==
    /\ Known(j) /\ jobAt[j] \notin Over \cup {"announcing"}     \* where the status is "done"
    /\ jobCancel' = [jobCancel EXCEPT ![j] = TRUE]
    /\ UNCHANGED <<jobAt, jobRun, jobReady, jobRound, jobReviews, jobCaller, runNow, jobNags>>

-----------------------------------------------------------------------------
(* run_job on a thread of the pool. *)
AtWork(r) == { j \in Jobs : jobRun[j] = r /\ jobAt[j] \in JobPhases }
PickUpJob(j) ==
    /\ jobAt[j] = "queued" /\ Cardinality(AtWork(jobRun[j])) < Workers
    /\ Move(j, "loading")
    /\ UNCHANGED <<jobRun, jobCancel, jobReady, jobRound, jobReviews, jobCaller, runNow, jobNags>>
Load(j) ==
    /\ jobAt[j] = "loading" /\ MoveUnlessCancelled(j, "profiling")
    /\ UNCHANGED <<jobRun, jobCancel, jobReady, jobRound, jobReviews, jobCaller, runNow, jobNags>>
Profile(j) ==
    /\ jobAt[j] = "profiling" /\ MoveUnlessCancelled(j, "exploring")
    /\ jobReady' = [jobReady EXCEPT ![j] = TRUE]
    /\ UNCHANGED <<jobRun, jobCancel, jobRound, jobReviews, jobCaller, runNow, jobNags>>

(* A round of questions: asked without looking at the event, looked at     *)
(* once the answers, or none after ten minutes, are merged.                *)
Clarify(j) ==
    /\ jobAt[j] \in {"exploring", "judging"} /\ jobRound[j] < MaxRounds
    /\ Move(j, "clarifying") /\ CountNag(j)
    /\ jobRound' = [jobRound EXCEPT ![j] = @ + 1]
    /\ UNCHANGED <<jobRun, jobCancel, jobReady, jobReviews, jobCaller, runNow>>
Clarified(j) ==
    /\ jobAt[j] = "clarifying" /\ MoveUnlessCancelled(j, "judging")
    /\ UNCHANGED <<jobRun, jobCancel, jobReady, jobRound, jobReviews, jobCaller, runNow, jobNags>>
(* There is nothing to ask, the callback failed, the confidence suffices   *)
(* or the rounds are used up.                                              *)
Explored(j) ==
    /\ jobAt[j] \in {"exploring", "clarifying", "judging"}
    /\ MoveUnlessCancelled(j, "planning")
    /\ UNCHANGED <<jobRun, jobCancel, jobReady, jobRound, jobReviews, jobCaller, runNow, jobNags>>

(* The plan, and its review until the user accepts it or does not answer.  *)
Plan(j) ==
    /\ jobAt[j] = "planning" /\ MoveUnlessCancelled(j, "planned")
    /\ UNCHANGED <<jobRun, jobCancel, jobReady, jobRound, jobReviews, jobCaller, runNow, jobNags>>
AskReview(j) ==
    /\ jobAt[j] = "planned" /\ Move(j, "reviewing") /\ CountNag(j)
    /\ UNCHANGED <<jobRun, jobCancel, jobReady, jobRound, jobReviews, jobCaller, runNow>>
(* A context without a callback has nobody to review the plan.             *)
SkipReview(j) ==
    /\ jobAt[j] = "planned" /\ jobReviews[j] = 0 /\ Move(j, "extracting")
    /\ UNCHANGED <<jobRun, jobCancel, jobReady, jobRound, jobReviews, jobCaller, runNow, jobNags>>
ChangePlan(j) ==
    /\ jobAt[j] = "reviewing" /\ jobReviews[j] < MaxReviews
    /\ MoveUnlessCancelled(j, "planned")
    /\ jobReviews' = [jobReviews EXCEPT ![j] = @ + 1]
    /\ UNCHANGED <<jobRun, jobCancel, jobReady, jobRound, jobCaller, runNow, jobNags>>
AcceptPlan(j) ==
    /\ jobAt[j] = "reviewing" /\ Move(j, "extracting")
    /\ UNCHANGED <<jobRun, jobCancel, jobReady, jobRound, jobReviews, jobCaller, runNow, jobNags>>

(* A sub-table, a chart or a section that fails is noted and passed over;  *)
(* the agents that make the sub-tables have no limit of iterations and do  *)
(* not see the event: that they end is what the fairness assumes.          *)
After == [extracting |-> "rendering", rendering |-> "synthesizing", synthesizing |-> "reporting"]
FanOut(j) ==
    /\ jobAt[j] \in DOMAIN After /\ MoveUnlessCancelled(j, After[jobAt[j]])
    /\ UNCHANGED <<jobRun, jobCancel, jobReady, jobRound, jobReviews, jobCaller, runNow, jobNags>>
(* The report is not followed by a look at the event.  The status is       *)
(* "done" before the last message is made, which may yet fail the job.     *)
Report(j) ==
    /\ jobAt[j] = "reporting" /\ Move(j, "announcing")
    /\ UNCHANGED <<jobRun, jobCancel, jobReady, jobRound, jobReviews, jobCaller, runNow, jobNags>>
Announce(j) ==
    /\ jobAt[j] = "announcing" /\ Move(j, "done")
    /\ UNCHANGED <<jobRun, jobCancel, jobReady, jobRound, jobReviews, jobCaller, runNow, jobNags>>

(* Any other exception fails the job and wakes the caller.                 *)
Fail(j) ==
    /\ jobAt[j] \in JobPhases /\ Move(j, "failed")
    /\ jobReady' = [jobReady EXCEPT ![j] = TRUE]
    /\ UNCHANGED <<jobRun, jobCancel, jobRound, jobReviews, jobCaller, runNow, jobNags>>
JobStep(j) ==
    \/ PickUpJob(j) \/ Load(j) \/ Profile(j) \/ Clarify(j) \/ Clarified(j) \/ Explored(j)
    \/ Plan(j) \/ AskReview(j) \/ SkipReview(j) \/ ChangePlan(j) \/ AcceptPlan(j) \/ FanOut(j)
    \/ Report(j) \/ Announce(j) \/ Fail(j)
JobNext ==
    \/ \E j \in Jobs : StartJob(j) \/ CallReturns(j) \/ CancelAnalyze(j) \/ JobStep(j)
    \/ NewRun
(* The threads of the pool go on; a user who does not answer is waited for *)
(* ten minutes at a time, and an extraction is assumed to end.             *)
JobSpec == JobInit /\ [][JobNext]_jobVars /\ \A j \in Jobs : WF_jobVars(JobStep(j))
-----------------------------------------------------------------------------
JobTypeOK ==
    /\ jobAt \in [Jobs -> {"none", "queued"} \cup JobPhases \cup Over]
    /\ jobRun \in [Jobs -> 0 .. MaxRuns] /\ runNow \in 0 .. MaxRuns
    /\ jobCancel \in [Jobs -> BOOLEAN] /\ jobReady \in [Jobs -> BOOLEAN]
    /\ jobRound \in [Jobs -> 0 .. MaxRounds] /\ jobReviews \in [Jobs -> 0 .. MaxReviews]
    /\ jobCaller \in [Jobs -> {"none", "waiting"} \cup Told] /\ jobNags \in [Jobs -> Nat]

(* A job that was cancelled asks the user at most once more: between two   *)
(* questions of any two phases there is a look at the event.               *)
AtMostOneMoreQuestion == \A j \in Jobs : jobNags[j] <= 1

(* The call of deep_analyze does not sit out its 90 seconds on a job that  *)
(* has come to its end: a failure wakes it, and nobody can cancel a job    *)
(* before its call has returned.                                           *)
NobodyWaitsForTheDead ==
    \A j \in Jobs : jobAt[j] \in Over /\ jobCaller[j] = "waiting" => jobReady[j]

(* A cancelled job does not deliver: unless it was at its report already,  *)
(* it ends cancelled (or failed), whatever the user answers meanwhile.     *)
CancelTakesEffect ==
    \A j \in Jobs :
        (jobCancel[j] /\ jobAt[j] \notin Over \cup {"reporting", "announcing"}) ~> jobAt[j] \in {"cancelled", "failed"}
=============================================================================
