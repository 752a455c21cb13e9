----------------------------- MODULE ToolsProofs -----------------------------
(* Theorems about what the tools of a run set going: the loop of a         *)
(* subagent, for any budgets and any number of calls in a response; the    *)
(* jobs of deep_analyze, for any number of jobs, pool threads, rounds of   *)
(* questions, changes of the plan and runs; the status of a background     *)
(* task, for any set of calls of kill_task; and the connections to MCP     *)
(* servers, for any finite sets of requests and of servers.                *)
EXTENDS SubagentLoop, SkillJobs, BackgroundTasks, McpConnections, FiniteSetTheorems, TLAPS

-----------------------------------------------------------------------------
(* The loop of a subagent.                                                 *)

(* Between two responses every call is answered, and among the calls of    *)
(* one in turn those that are to come are open unless a task_complete was  *)
(* refused: the list answers nothing else before its turn.                 *)
CallsToCome ==
    /\ subAt = "tools" =>
            /\ \A i \in subOpen : i >= subNext
            /\ ~subRefused => \A i \in DOMAIN subBatch : i >= subNext => i \in subOpen
    /\ subAt = "together" => ~subLate
    /\ subAt = "idle" => subOpen = {}

(* A result is there exactly when the run is over.                         *)
ResultAtTheEnd == subAt # "ended" => subResult = "none"

SubInv ==
    /\ SubTypeOK
    /\ CallsToCome
    /\ ResultAtTheEnd
    /\ LateOnlyAfterRefusal
    /\ SubSendsAnswered
    /\ AcceptedSpentItsHints

-----------------------------------------------------------------------------
LEMMA ResponseIsSeq ==
    ASSUME NEW b \in Responses
    PROVE  b \in Seq(CallKinds) /\ Len(b) \in Nat /\ DOMAIN b = 1 .. Len(b)
  <1>1. PICK n \in 1 .. MaxPerAnswer : b \in [1 .. n -> CallKinds]
    BY DEF Responses
  <1>2. n \in Nat
    BY LoopAssumption
  <1>3. b \in Seq(CallKinds)
    BY <1>1, <1>2
  <1> QED
    BY <1>3

LEMMA SubInvInit == SubInit => SubInv
  <1> SUFFICES ASSUME SubInit PROVE SubInv
    OBVIOUS
  <1>1. <<>> \in Seq(CallKinds)
    OBVIOUS
  <1>2. subBatch \in Seq(CallKinds) /\ subOpen = {}
    BY <1>1 DEF SubInit
  <1>3. subTry \in 0 .. MaxTries - 1 /\ subHints \in 0 .. MaxTodoHints
    BY LoopAssumption DEF SubInit
  <1>4. SubTypeOK
    <2>1. 1 \in Nat \ {0} /\ 0 \in Nat
      OBVIOUS
    <2> QED
      BY <1>2, <1>3, <2>1 DEF SubInit, SubTypeOK
  <1> QED
    BY <1>4 DEF SubInit, SubInv, CallsToCome, ResultAtTheEnd, LateOnlyAfterRefusal,
           SubSendsAnswered, AcceptedSpentItsHints

(* The loop around the calls: its head, the calls of the model and texts.  *)
LEMMA SubLoopStep ==
    ASSUME SubInv, StartIteration \/ CallFails \/ BackOff \/ AnswerText \/ Raise
    PROVE  SubInv'
  <1> USE LoopAssumption
        DEF SubInv, SubTypeOK, CallsToCome, ResultAtTheEnd, LateOnlyAfterRefusal,
            SubSendsAnswered, AcceptedSpentItsHints, Unfinished, End, ResetTodos, Proceed,
            subCalls, subCounters
  <1>1. CASE StartIteration
    BY <1>1 DEF StartIteration
  <1>2. CASE CallFails
    BY <1>2 DEF CallFails
  <1>3. CASE BackOff
    BY <1>3 DEF BackOff
  <1>4. CASE AnswerText
    <2>1. subFails' \in Nat
      BY <1>4 DEF AnswerText
    <2>2. CASE FailHint /\ Proceed("head") /\ UNCHANGED <<subHints, subAsked>>
      BY <1>4, <2>1, <2>2 DEF AnswerText
    <2>3. CASE TodoHint /\ Proceed("head") /\ UNCHANGED subAsked
      BY <1>4, <2>1, <2>3 DEF AnswerText, TodoHint
    <2>4. CASE NoTodoHint /\ ~subAsked /\ subAsked' = TRUE /\ Proceed("head")
      BY <1>4, <2>1, <2>4 DEF AnswerText, NoTodoHint
    <2>5. CASE NoTodoHint /\ subAsked /\ End("accepted") /\ UNCHANGED subAsked
      BY <1>4, <2>1, <2>5 DEF AnswerText, NoTodoHint
    <2> QED
      BY <1>4, <2>2, <2>3, <2>4, <2>5 DEF AnswerText
  <1>5. CASE Raise
    BY <1>5 DEF Raise
  <1> QED
    BY <1>1, <1>2, <1>3, <1>4, <1>5

(* The model answers with calls.                                           *)
LEMMA CallToolsStep ==
    ASSUME SubInv, NEW b \in Responses, CallTools(b)
    PROVE  SubInv'
  <1>1. /\ b \in Seq(CallKinds) /\ Len(b) \in Nat /\ DOMAIN b = 1 .. Len(b)
        /\ subBatch' = b /\ subNext' = 1 /\ ~subRefused' /\ ~subLate'
    BY ResponseIsSeq DEF CallTools
  <1>2. subOpen' \subseteq DOMAIN subBatch' /\ \A i \in subOpen' : i >= subNext'
    BY <1>1 DEF CallTools
  <1>3. subExplored' \in BOOLEAN /\ subLast' \in {"none", "ok", "error"}
    BY DEF CallTools, SubInv, SubTypeOK
  <1>4. /\ UNCHANGED <<subTry, subHints, subAsked, subStop, parentTodos, subResult>> /\ subFails' = 0
        /\ subAt = "calling" /\ subAt' \in {"head", "together", "tools"}
        /\ subAt' = "head" => subOpen' = {}
        /\ subAt' = "tools" => subOpen' = DOMAIN b
    BY DEF CallTools, Proceed
  <1>5. SubTypeOK'
    <2>1. (SubTypeOK)
      BY DEF SubInv
    <2>2. subNext' \in Nat \ {0} /\ subFails' \in Nat
      BY <1>1, <1>4
    <2>3. subRefused' \in BOOLEAN /\ subLate' \in BOOLEAN
      BY DEF CallTools
    <2> QED
      BY <1>1, <1>2, <1>3, <1>4, <2>1, <2>2, <2>3 DEF SubTypeOK
  <1> QED
    BY <1>1, <1>2, <1>4, <1>5
       DEF SubInv, CallsToCome, ResultAtTheEnd, LateOnlyAfterRefusal, SubSendsAnswered,
           AcceptedSpentItsHints, Unfinished

(* The calls of a response are executed.                                   *)
LEMMA ToolStep ==
    ASSUME SubInv, RunTogether \/ RunTool \/ Refuse \/ Complete \/ ToolsDone
    PROVE  SubInv'
  <1> USE LoopAssumption
        DEF SubInv, SubTypeOK, CallsToCome, ResultAtTheEnd, LateOnlyAfterRefusal,
            SubSendsAnswered, AcceptedSpentItsHints, Unfinished, End, ResetTodos, Proceed,
            subCalls, subCounters
  <1>1. CASE RunTogether
    BY <1>1 DEF RunTogether
  <1>2. CASE RunTool
    BY <1>2 DEF RunTool, Turn
  <1>3. CASE Refuse
    BY <1>3 DEF Refuse, Turn, TodoHint
  <1>4. CASE Complete
    BY <1>4 DEF Complete, Turn, NoTodoHint
  <1>5. CASE ToolsDone
    <2>1. DOMAIN subBatch = 1 .. Len(subBatch)
      OBVIOUS
    <2>2. subOpen = {}
      BY <1>5, <2>1 DEF ToolsDone
    <2> QED
      BY <1>5, <2>2 DEF ToolsDone
  <1> QED
    BY <1>1, <1>2, <1>3, <1>4, <1>5

(* The parent and the siblings.                                            *)
LEMMA OutsideStep ==
    ASSUME SubInv, Spawn \/ Interrupt \/ SiblingEnds \/ UNCHANGED subVars
    PROVE  SubInv'
  <1> USE DEF SubInv, SubTypeOK, CallsToCome, ResultAtTheEnd, LateOnlyAfterRefusal,
        SubSendsAnswered, AcceptedSpentItsHints, Unfinished, ResetTodos, Proceed, subCalls,
        subCounters
  <1>1. CASE Spawn
    BY <1>1 DEF Spawn
  <1>2. CASE Interrupt
    BY <1>2 DEF Interrupt
  <1>3. CASE SiblingEnds
    BY <1>3 DEF SiblingEnds
  <1>4. CASE UNCHANGED subVars
    BY <1>4 DEF subVars
  <1> QED
    BY <1>1, <1>2, <1>3, <1>4

LEMMA SubInvHolds == SubSpec => []SubInv
  <1>1. SubInv /\ [SubNext]_subVars => SubInv'
    BY SubLoopStep, CallToolsStep, ToolStep, OutsideStep DEF SubNext, SubStep, SubCallsTools
  <1> QED
    BY <1>1, SubInvInit, PTL DEF SubSpec

-----------------------------------------------------------------------------
(* Every variable of SubagentLoop has its type; in particular the nudges   *)
(* and the attempts stay within their budgets.                             *)
THEOREM SubTypesHold == SubSpec => []SubTypeOK
  <1>1. SubInv => SubTypeOK
    BY DEF SubInv
  <1> QED
    BY <1>1, SubInvHolds, PTL

(* However many calls there are in a response: only a task_complete that   *)
(* was refused makes the list answer a call whose tool is yet to run.      *)
THEOREM LateResultsComeFromRefusals == SubSpec => []LateOnlyAfterRefusal
  <1>1. SubInv => LateOnlyAfterRefusal
    BY DEF SubInv
  <1> QED
    BY <1>1, SubInvHolds, PTL

(* The model is never called while a call of its last response is          *)
(* unanswered, whichever way the loop went round.                          *)
THEOREM SubagentModelSeesAnswers == SubSpec => []SubSendsAnswered
  <1>1. SubInv => SubSendsAnswered
    BY DEF SubInv
  <1> QED
    BY <1>1, SubInvHolds, PTL

(* A mere text is accepted only after the reminder of the task, and with   *)
(* todos left only once their nudges are spent.                            *)
THEOREM AcceptanceComesLast == SubSpec => []AcceptedSpentItsHints
  <1>1. SubInv => AcceptedSpentItsHints
    BY DEF SubInv
  <1> QED
    BY <1>1, SubInvHolds, PTL

-----------------------------------------------------------------------------
(* The jobs of deep_analyze.                                               *)

Fresh == {"none", "queued", "loading", "profiling", "exploring", "judging", "planning", "planned"}
Profiled == (JobPhases \ {"loading", "profiling"}) \cup {"done", "failed"}

(* Before a question there is always a look at the event: in the phases    *)
(* from which a job may ask, it has not asked in vain yet.                 *)
NoNagYet ==
    \A j \in Jobs :
        /\ ~jobCancel[j] => jobNags[j] = 0
        /\ jobAt[j] \in Fresh => jobNags[j] = 0

(* Who can be cancelled, and who has been woken.                           *)
CallerComesFirst ==
    \A j \in Jobs :
        /\ jobAt[j] = "none" => jobCaller[j] = "none"
        /\ jobCaller[j] \in {"none", "waiting"} => ~jobCancel[j]
        /\ jobAt[j] = "cancelled" => jobCancel[j]
        /\ jobAt[j] \in Profiled => jobReady[j]

JobInv == JobTypeOK /\ NoNagYet /\ AtMostOneMoreQuestion /\ CallerComesFirst

-----------------------------------------------------------------------------
LEMMA JobInvInit == JobInit => JobInv
  BY JobAssumption
     DEF JobInit, JobInv, JobTypeOK, NoNagYet, AtMostOneMoreQuestion, CallerComesFirst, Profiled,
         JobPhases, Over, Told

(* What a step of one job, on its thread of the pool, does to that job; the *)
(* others keep what they have.                                              *)
LEMMA JobStepKeeps ==
    ASSUME JobInv, NEW j \in Jobs, JobStep(j)
    PROVE  JobInv'
  <1> USE JobAssumption
        DEF JobInv, JobTypeOK, NoNagYet, AtMostOneMoreQuestion, CallerComesFirst, Fresh, Profiled,
            JobPhases, Over, Told, Move, MoveUnlessCancelled, CountNag
  <1>1. CASE PickUpJob(j)
    BY <1>1 DEF PickUpJob
  <1>2. CASE Load(j)
    BY <1>2 DEF Load
  <1>3. CASE Profile(j)
    BY <1>3 DEF Profile
  <1>4. CASE Clarify(j)
    BY <1>4 DEF Clarify
  <1>5. CASE Clarified(j)
    BY <1>5 DEF Clarified
  <1>6. CASE Explored(j)
    BY <1>6 DEF Explored
  <1>7. CASE Plan(j)
    BY <1>7 DEF Plan
  <1>8. CASE AskReview(j)
    BY <1>8 DEF AskReview
  <1>9. CASE ChangePlan(j)
    BY <1>9 DEF ChangePlan
  <1>10. CASE AcceptPlan(j)
    BY <1>10 DEF AcceptPlan
  <1>11. CASE FanOut(j)
    BY <1>11 DEF FanOut, After
  <1>12. CASE Report(j)
    BY <1>12 DEF Report
  <1>14. CASE SkipReview(j)
    BY <1>14 DEF SkipReview
  <1>15. CASE Announce(j)
    BY <1>15 DEF Announce
  <1>13. CASE Fail(j)
    BY <1>13 DEF Fail
  <1> QED
    BY <1>1, <1>2, <1>3, <1>4, <1>5, <1>6, <1>7, <1>8, <1>9, <1>10, <1>11, <1>12, <1>13,
       <1>14, <1>15 DEF JobStep

LEMMA JobInvStep == JobInv /\ [JobNext]_jobVars => JobInv'
  <1> SUFFICES ASSUME JobInv, [JobNext]_jobVars PROVE JobInv'
    OBVIOUS
  <1> USE JobAssumption
        DEF JobInv, JobTypeOK, NoNagYet, AtMostOneMoreQuestion, CallerComesFirst, Fresh, Profiled,
            JobPhases, Over, Told, Move
  <1>1. ASSUME NEW j \in Jobs, StartJob(j) PROVE JobInv'
    BY <1>1 DEF StartJob
  <1>2. ASSUME NEW j \in Jobs, CallReturns(j) PROVE JobInv'
    BY <1>2 DEF CallReturns
  <1>3. ASSUME NEW j \in Jobs, CancelAnalyze(j) PROVE JobInv'
    BY <1>3 DEF CancelAnalyze, Known
  <1>4. CASE NewRun
    BY <1>4 DEF NewRun
  <1>5. CASE UNCHANGED jobVars
    BY <1>5 DEF jobVars
  <1> QED
    BY <1>1, <1>2, <1>3, <1>4, <1>5, JobStepKeeps DEF JobNext

LEMMA JobInvHolds == JobSpec => []JobInv
  BY JobInvInit, JobInvStep, PTL DEF JobSpec

-----------------------------------------------------------------------------
(* Every variable of SkillJobs has its type, whatever the number of jobs.  *)
THEOREM JobTypesHold == JobSpec => []JobTypeOK
  <1>1. JobInv => JobTypeOK
    BY DEF JobInv
  <1> QED
    BY <1>1, JobInvHolds, PTL

(* A job that was cancelled asks the user at most once more: from a        *)
(* question to the next, in whichever phases, run_job looks at the event.  *)
THEOREM CancelledJobsStopAsking == JobSpec => []AtMostOneMoreQuestion
  <1>1. JobInv => AtMostOneMoreQuestion
    BY DEF JobInv
  <1> QED
    BY <1>1, JobInvHolds, PTL

(* The call of deep_analyze does not wait for a job that is over: it fails *)
(* only after it woke the call, and cannot be cancelled while it waits.    *)
THEOREM NobodyWaitsInVain == JobSpec => []NobodyWaitsForTheDead
  <1>1. JobInv => NobodyWaitsForTheDead
    BY DEF JobInv, CallerComesFirst, NobodyWaitsForTheDead, Over, Profiled
  <1> QED
    BY <1>1, JobInvHolds, PTL

-----------------------------------------------------------------------------
(* Background tasks.                                                       *)

Statuses == Finals \cup {"running"}
TellsEnd(s) == \E i \in DOMAIN s : s[i] \in Finals

(* Nobody deals with a task before it is listed, and its output thread is  *)
(* started after that.                                                     *)
ListedFirst ==
    /\ register = "new" => /\ status = "none"
                           /\ \A k \in Killers : killer[k] \in {"new", "false"}
    /\ register \in {"new", "listed"} => streamer = "none"

(* Whoever is about to write a final status has seen the command end, and  *)
(* an exit does not change.                                                *)
WritersSawTheEnd ==
    /\ seen \in Exits => seen = process
    /\ streamer = "writing" => seen \in Exits
    /\ \A k \in Killers : killer[k] \in {"marking", "announcing"} => Exited

(* A final status stays final, and whoever wrote it is about to announce.  *)
AnnouncementsComeLater ==
    /\ streamer = "announcing" => status \in Finals
    /\ status \in Finals =>
          \/ TellsEnd(notices)
          \/ streamer = "announcing"
          \/ \E k \in Killers : killer[k] = "announcing"

BgInv ==
    /\ BgTypeOK
    /\ ListedFirst
    /\ WritersSawTheEnd
    /\ StatusTellsExit
    /\ AnnouncementsComeLater

-----------------------------------------------------------------------------
LEMMA StatusOfExit ==
    ASSUME NEW e \in Exits
    PROVE  /\ StatusOf(e) \in Finals
           /\ StatusOf(e) = "completed" => e = "ok"
           /\ StatusOf(e) = "failed" => e = "error"
  BY DEF Exits, Finals, StatusOf

(* A further notice takes none back.                                       *)
LEMMA OneMoreNotice ==
    ASSUME NEW s \in Seq(Statuses), NEW x \in Statuses
    PROVE  /\ Append(s, x) \in Seq(Statuses)
           /\ TellsEnd(s) \/ x \in Finals => TellsEnd(Append(s, x))
  <1>1. Append(s, x) \in Seq(Statuses) /\ Len(Append(s, x)) = Len(s) + 1
    OBVIOUS
  <1>2. Append(s, x)[Len(s) + 1] = x
    OBVIOUS
  <1>3. \A i \in DOMAIN s : i \in DOMAIN Append(s, x) /\ Append(s, x)[i] = s[i]
    OBVIOUS
  <1>4. Len(s) + 1 \in DOMAIN Append(s, x)
    OBVIOUS
  <1> QED
    BY <1>1, <1>2, <1>3, <1>4 DEF TellsEnd

LEMMA BgInvInit == BgInit => BgInv
  <1> SUFFICES ASSUME BgInit PROVE BgInv
    OBVIOUS
  <1>1. <<>> \in Seq(Statuses)
    OBVIOUS
  <1> QED
    BY <1>1 DEF BgInit, BgInv, BgTypeOK, ListedFirst, WritersSawTheEnd, StatusTellsExit,
                AnnouncementsComeLater, Exits, Exited, Finals, Statuses

(* The command ends, or the task is registered.                            *)
LEMMA RegisterStep ==
    ASSUME BgInv, ProcessEnds \/ Register \/ StartStreaming \/ RecordStopEvent \/ AnnounceRunning
    PROVE  BgInv'
  <1> USE DEF BgInv, BgTypeOK, ListedFirst, WritersSawTheEnd, StatusTellsExit,
        AnnouncementsComeLater, Exits, Exited, Finals
  <1>1. CASE ProcessEnds
    <2>1. process \notin Exits /\ process' \in Exits /\ seen \notin Exits /\ status \notin Finals
      BY <1>1 DEF ProcessEnds
    <2>2. UNCHANGED <<register, streamer, seen, stopEvent, status, killer, notices>>
      BY <1>1 DEF ProcessEnds
    <2> QED
      BY <2>1, <2>2
  <1>2. CASE Register
    BY <1>2 DEF Register
  <1>3. CASE StartStreaming
    BY <1>3 DEF StartStreaming
  <1>4. CASE RecordStopEvent
    BY <1>4 DEF RecordStopEvent
  <1>5. CASE AnnounceRunning
    <2>1. notices' \in Seq(Statuses) /\ (TellsEnd(notices) => TellsEnd(notices'))
      BY <1>5, OneMoreNotice DEF AnnounceRunning, Notify, Statuses
    <2> QED
      BY <1>5, <2>1 DEF AnnounceRunning, Statuses
  <1> QED
    BY <1>1, <1>2, <1>3, <1>4, <1>5

(* The output thread, and the getters.                                     *)
LEMMA WatchStep ==
    ASSUME BgInv, StreamStops \/ StreamStep \/ GetStatus
    PROVE  BgInv'
  <1> USE DEF BgInv, BgTypeOK, ListedFirst, WritersSawTheEnd, StatusTellsExit,
        AnnouncementsComeLater, Exited
  <1>1. CASE StreamStops
    BY <1>1 DEF StreamStops
  <1>2. CASE StreamPolls
    BY <1>2 DEF StreamPolls, Exits
  <1>3. CASE StreamWrites
    BY <1>3, StatusOfExit DEF StreamWrites
  <1>4. CASE StreamAnnounces
    <2>1. notices' \in Seq(Statuses) /\ TellsEnd(notices')
      BY <1>4, OneMoreNotice DEF StreamAnnounces, Notify, Statuses
    <2> QED
      BY <1>4, <2>1 DEF StreamAnnounces, Statuses
  <1>5. CASE GetStatus
    <2>1. status' \in Finals /\ (status' = "completed" => process = "ok")
          /\ (status' = "failed" => process = "error")
      BY <1>5, StatusOfExit DEF GetStatus
    <2>2. notices' \in Seq(Statuses) /\ TellsEnd(notices')
      BY <1>5, <2>1, OneMoreNotice DEF GetStatus, Notify, Statuses
    <2> QED
      BY <1>5, <2>1, <2>2 DEF GetStatus, Statuses, Finals
  <1> QED
    BY <1>1, <1>2, <1>3, <1>4, <1>5 DEF StreamStep

LEMMA KillStepKeeps ==
    ASSUME BgInv, NEW k \in Killers, KillStep(k)
    PROVE  BgInv'
  <1> USE DEF BgInv, BgTypeOK, ListedFirst, WritersSawTheEnd, StatusTellsExit,
        AnnouncementsComeLater, Exited, KillGoes, SameTask
  <1>1. CASE KillChecks(k)
    BY <1>1 DEF KillChecks
  <1>2. CASE KillStopsStream(k)
    BY <1>2 DEF KillStopsStream
  <1>3. CASE KillSignals(k)
    BY <1>3 DEF KillSignals
  <1>4. CASE KillSeesEnd(k)
    BY <1>4 DEF KillSeesEnd
  <1>5. CASE KillTimesOut(k)
    BY <1>5 DEF KillTimesOut
  <1>6. CASE KillMarks(k)
    BY <1>6 DEF KillMarks, Finals
  <1>7. CASE KillAnnounces(k)
    <2>1. notices' \in Seq(Statuses) /\ TellsEnd(notices')
      BY <1>7, OneMoreNotice DEF KillAnnounces, Notify, Statuses, Finals
    <2> QED
      BY <1>7, <2>1 DEF KillAnnounces, Statuses
  <1> QED
    BY <1>1, <1>2, <1>3, <1>4, <1>5, <1>6, <1>7 DEF KillStep

LEMMA BgInvHolds == BgSpec => []BgInv
  <1>1. BgInv /\ UNCHANGED bgVars => BgInv'
    BY DEF BgInv, BgTypeOK, ListedFirst, WritersSawTheEnd, StatusTellsExit,
           AnnouncementsComeLater, Exited, bgVars
  <1>2. BgInv /\ [BgNext]_bgVars => BgInv'
    BY <1>1, RegisterStep, WatchStep, KillStepKeeps DEF BgNext
  <1> QED
    BY <1>2, BgInvInit, PTL DEF BgSpec

-----------------------------------------------------------------------------
(* Every variable of BackgroundTasks has its type.                         *)
THEOREM BgTypesHold == BgSpec => []BgTypeOK
  <1>1. BgInv => BgTypeOK
    BY DEF BgInv
  <1> QED
    BY <1>1, BgInvHolds, PTL

(* However many calls of kill_task race with the output thread and the     *)
(* getters: a final status is only ever written of a command that has      *)
(* ended, and "completed" and "failed" only if it ended so.                *)
THEOREM StatusIsNeverInvented == BgSpec => []StatusTellsExit
  <1>1. BgInv => StatusTellsExit
    BY DEF BgInv
  <1> QED
    BY <1>1, BgInvHolds, PTL

(* Whoever wrote the final status first: once nobody is on the way to      *)
(* announcing it, the listeners have been told of an end.                  *)
THEOREM EndIsAlwaysAnnounced == BgSpec => []FinalIsAnnounced
  <1>1. BgInv => FinalIsAnnounced
    BY DEF BgInv, AnnouncementsComeLater, FinalIsAnnounced, TellsEnd
  <1> QED
    BY <1>1, BgInvHolds, PTL

-----------------------------------------------------------------------------
(* Connections to MCP servers.                                             *)

(* A coroutine that is under way has somewhere to go and somebody who      *)
(* asked for it; a request that is not submitted yet has no coroutine.     *)
CallersMatch ==
    \A r \in Requests :
        /\ coro[r] \in {"next"} \cup Suspended => work[r] # <<>>
        /\ Running(r) => caller[r] \in {"waiting", "timeout"}
        /\ caller[r] \in {"new", "locking", "submitting"} => coro[r] = "none"
        /\ asked[r] = "call" => coro[r] \notin Changing

(* Who goes for one server only and got past its lock has it until he is   *)
(* answered or gives up.                                                   *)
LocksAreHeld ==
    \A r \in Requests :
        /\ caller[r] = "locking" => asked[r] \in Locked /\ Len(work[r]) = 1
        /\ caller[r] \in {"submitting", "waiting"} /\ asked[r] \in Locked =>
               Len(work[r]) = 1 /\ serverLock[Target(r)] = r

(* A server two coroutines change is contested.                            *)
LoneWorkers ==
    \A q, r \in Requests :
        /\ q # r /\ coro[q] \in Changing /\ coro[r] \in Changing
        /\ Target(q) = Target(r)
        => Target(r) \in contested

(* On a server that is not, a coroutine finds what it left before its      *)
(* await.                                                                  *)
KnowsItsServer(r) ==
    /\ coro[r] = "closing" => held[r] = client[Target(r)] /\ held[r] # NoClient
    /\ coro[r] \in {"opening", "cleaning"} => client[Target(r)] = NoClient
    /\ coro[r] = "discovering" => client[Target(r)] = r
WorkersKnow == \A r \in Requests : Target(r) \notin contested => KnowsItsServer(r)

(* Stderr is kept by the coroutines that open or close a client, and,      *)
(* while no two suppressions overlap, by one that will give it back.       *)
OneHoldsStderr ==
    /\ \A r \in Requests : saved[r] # "none" <=> coro[r] \in {"closing", "opening"}
    /\ ~nested => \A r \in Requests : saved[r] # "none" =>
                      saved[r] = "terminal" /\ \A q \in Requests \ {r} : saved[q] = "none"

Turns == CallersMatch /\ LocksAreHeld
Tables == LoneWorkers /\ WorkersKnow /\ TablesTellTruth
Stderr == OneHoldsStderr /\ StderrComesBack
McpInv == McpTypeOK /\ Turns /\ Tables /\ Stderr
-----------------------------------------------------------------------------
LEMMA ListsServers ==
    ASSUME NEW S \in SUBSET Servers
    PROVE  SetToSeq(S) \in Seq(Servers)
  <1>1. IsFiniteSet(S)
    BY McpAssumption, FS_Subset
  <1> DEFINE n == Cardinality(S)
  <1>2. n \in Nat /\ ExistsBijection(1 .. n, S)
    BY <1>1, FS_CardinalityType
  <1>3. \E f \in [1 .. n -> S] : IsInjective(f)
    BY <1>2 DEF ExistsBijection, Bijection, Injection
  <1>4. SetToSeq(S) \in [1 .. n -> S]
    BY <1>3 DEF SetToSeq
  <1>5. \A k \in Nat : \A f \in [1 .. k -> Servers] : f \in Seq(Servers)
    OBVIOUS
  <1>6. SetToSeq(S) \in [1 .. n -> Servers]
    BY <1>4
  <1> QED
    BY <1>2, <1>5, <1>6

LEMMA HeadAndTail ==
    ASSUME NEW w \in Seq(Servers), w # <<>>
    PROVE  /\ Head(w) \in Servers /\ Len(w) \in Nat \ {0}
           /\ Tail(w) \in Seq(Servers)
           /\ Len(w) # 1 => Tail(w) # <<>>
  <1>1. Len(w) \in Nat /\ Len(w) # 0
    OBVIOUS
  <1>2. Head(w) \in Servers
    OBVIOUS
  <1>3. Tail(w) \in Seq(Servers) /\ Len(Tail(w)) = Len(w) - 1
    OBVIOUS
  <1>4. \A t \in Seq(Servers) : t = <<>> => Len(t) = 0
    OBVIOUS
  <1>5. ASSUME Len(w) # 1 PROVE Tail(w) # <<>>
    <2> DEFINE t == Tail(w)
    <2>1. t \in Seq(Servers) /\ Len(t) = Len(w) - 1
      BY <1>3
    <2> HIDE DEF t
    <2>2. Len(t) # 0
      BY <1>1, <1>5, <2>1
    <2>3. t # <<>>
      BY <1>4, <2>1, <2>2
    <2> QED
      BY <2>3 DEF t
  <1> QED
    BY <1>1, <1>2, <1>3, <1>5

LEMMA TargetIsServer ==
    ASSUME McpTypeOK, CallersMatch, NEW r \in Requests, coro[r] \in {"next"} \cup Suspended
    PROVE  /\ Target(r) \in Servers /\ Target(r) # NoClient /\ work[r] # <<>>
           /\ Len(work[r]) \in Nat \ {0} /\ Tail(work[r]) \in Seq(Servers)
           /\ Len(work[r]) # 1 => Tail(work[r]) # <<>>
  <1>1. work[r] # <<>> /\ work[r] \in Seq(Servers)
    BY DEF CallersMatch, McpTypeOK
  <1>2. Target(r) = Head(work[r])
    BY <1>1 DEF Target
  <1> QED
    BY <1>1, <1>2, HeadAndTail, McpAssumption

LEMMA TargetOfOne ==
    ASSUME McpTypeOK, NEW r \in Requests, Len(work[r]) = 1
    PROVE  Target(r) \in Servers
  <1>1. \A t \in Seq(Servers) : t = <<>> => Len(t) = 0
    OBVIOUS
  <1>2. work[r] \in Seq(Servers)
    BY DEF McpTypeOK
  <1>3. work[r] # <<>>
    BY <1>1, <1>2
  <1> QED
    BY <1>2, <1>3, HeadAndTail DEF Target

LEMMA McpInvInit == McpInit => McpInv
  <1> SUFFICES ASSUME McpInit PROVE McpInv
    OBVIOUS
  <1>1. McpTypeOK
    <2>1. <<>> \in Seq(Servers)
      OBVIOUS
    <2> QED
      BY <2>1 DEF McpInit, McpTypeOK, Returned, Suspended, Kinds
  <1>2. Turns
    BY DEF McpInit, Turns, CallersMatch, LocksAreHeld, Running, Suspended, Changing
  <1>3. Tables
    BY DEF McpInit, Tables, LoneWorkers, WorkersKnow, KnowsItsServer, TablesTellTruth, Suspended, Changing
  <1>4. Stderr
    BY DEF McpInit, Stderr, OneHoldsStderr, StderrComesBack
  <1> QED
    BY <1>1, <1>2, <1>3, <1>4 DEF McpInv
-----------------------------------------------------------------------------
(* What the threads do.                                                    *)
LEMMA ThreadTypes ==
    ASSUME McpInv, NEW r \in Requests,
           \/ \E s \in Servers, k \in Kinds : Ask(r, k, s)
           \/ \E s \in Servers : DeleteIdle(r, s)
           \/ ThreadStep(r)
    PROVE  McpTypeOK'
  <1> USE DEF McpInv, McpTypeOK, Caller, Await, Release, SameLoop, Returned
  <1>1. ASSUME NEW s \in Servers, NEW k \in Kinds, Ask(r, k, s) PROVE McpTypeOK'
    <2>1. <<>> \in Seq(Servers) /\ <<s>> \in Seq(Servers)
      OBVIOUS
    <2>2. work' \in [Requests -> Seq(Servers)]
      BY <1>1, <2>1 DEF Ask
    <2>3. caller' \in [Requests -> {"new", "locking", "submitting", "waiting"} \cup Returned]
      BY <1>1 DEF Ask
    <2> QED
      BY <1>1, <2>2, <2>3 DEF Ask
  <1>2. ASSUME NEW s \in Servers, DeleteIdle(r, s) PROVE McpTypeOK'
    BY <1>2 DEF DeleteIdle, Kinds
  <1>3. CASE TakeLock(r)
    BY <1>3 DEF TakeLock
  <1>4. CASE Submit(r)
    BY <1>4 DEF Submit
  <1>5. CASE Return(r)
    BY <1>5 DEF Return
  <1>6. CASE TimeOut(r)
    BY <1>6 DEF TimeOut
  <1> QED
    BY <1>1, <1>2, <1>3, <1>4, <1>5, <1>6 DEF ThreadStep

LEMMA ThreadTurns ==
    ASSUME McpInv, NEW r \in Requests,
           \/ \E s \in Servers, k \in Kinds : Ask(r, k, s)
           \/ \E s \in Servers : DeleteIdle(r, s)
           \/ ThreadStep(r)
    PROVE  Turns'
  <1> USE DEF McpInv, McpTypeOK, Caller, Await, SameLoop, Turns, CallersMatch, LocksAreHeld,
        Running, Suspended, Changing
  <1>1. ASSUME NEW s \in Servers, NEW k \in Kinds, Ask(r, k, s) PROVE Turns'
    <2>1. Len(<<s>>) = 1
      OBVIOUS
    <2>2. k \in Locked => k \notin {"sweep", "closeAll"}
      BY DEF Locked
    <2>3. \A q \in Requests \ {r} : work'[q] = work[q] /\ Target(q)' = Target(q)
      BY <1>1 DEF Ask, Target
    <2>4. coro'[r] = "none" /\ coro' = coro /\ serverLock' = serverLock
      BY <1>1 DEF Ask
    <2>5. caller'[r] = "locking" => asked'[r] \in Locked /\ Len(work'[r]) = 1
      BY <1>1, <2>1, <2>2 DEF Ask
    <2>6. caller'[r] \in {"locking", "submitting"} /\ (asked'[r] \in Locked => caller'[r] = "locking")
      BY <1>1 DEF Ask
    <2>7. \A q \in Requests \ {r} : asked'[q] = asked[q] /\ caller'[q] = caller[q]
      BY <1>1 DEF Ask
    <2> QED
      BY <2>3, <2>4, <2>5, <2>6, <2>7
  <1>2. ASSUME NEW s \in Servers, DeleteIdle(r, s) PROVE Turns'
    <2>1. \A q \in Requests : Target(q)' = Target(q)
      BY <1>2 DEF DeleteIdle, Target
    <2>2. \A q \in Requests \ {r} : caller'[q] = caller[q] /\ asked'[q] = asked[q]
      BY <1>2 DEF DeleteIdle
    <2>3. caller[r] = "new" /\ caller'[r] = "answered" /\ asked'[r] = "delete"
      BY <1>2 DEF DeleteIdle, Kinds
    <2>4. UNCHANGED <<serverLock, coro, work>>
      BY <1>2 DEF DeleteIdle
    <2>5. CallersMatch'
      BY <2>2, <2>3, <2>4
    <2>6. LocksAreHeld'
      BY <2>1, <2>2, <2>3, <2>4
    <2> QED
      BY <2>5, <2>6
  <1>3. CASE TakeLock(r)
    <2>1. \A q \in Requests : Target(q)' = Target(q)
      BY <1>3 DEF TakeLock, Target
    <2>2. \A q \in Requests \ {r} : caller'[q] = caller[q]
      BY <1>3 DEF TakeLock
    <2>3. caller[r] = "locking" /\ caller'[r] = "submitting"
      BY <1>3 DEF TakeLock
    <2>4. UNCHANGED <<asked, coro, work>>
      BY <1>3 DEF TakeLock
    <2>5. Target(r) \in Servers
      BY <2>3, TargetOfOne
    <2>6. serverLock'[Target(r)] = r
      BY <1>3, <2>5 DEF TakeLock
    <2>7. \A q \in Requests : serverLock[Target(q)] = q /\ Len(work[q]) = 1 => serverLock'[Target(q)] = q
      BY <1>3, <2>5, McpAssumption DEF TakeLock
    <2>8. CallersMatch'
      BY <2>2, <2>3, <2>4
    <2>9. LocksAreHeld'
      BY <2>1, <2>2, <2>3, <2>4, <2>6, <2>7
    <2> QED
      BY <2>8, <2>9
  <1>4. CASE Submit(r)
    <2>1. \A q \in Requests : Target(q)' = Target(q)
      BY <1>4 DEF Submit, Target
    <2> QED
      BY <1>4, <2>1 DEF Submit
  <1>5. CASE Return(r) \/ TimeOut(r)
    <2>1. \A q \in Requests : Target(q)' = Target(q)
      BY <1>5 DEF Return, TimeOut, Target
    <2>2. \A q \in Requests \ {r} : caller'[q] = caller[q] /\ coro'[q] = coro[q]
      BY <1>5 DEF Return, TimeOut
    <2>3. caller'[r] \in {"answered", "failed", "timeout"} /\ UNCHANGED <<asked, work>>
      BY <1>5 DEF Return, TimeOut
    <2>4. \A q \in Requests \ {r} :
              Len(work[q]) = 1 /\ serverLock[Target(q)] = q => serverLock'[Target(q)] = q
      BY <1>5, TargetOfOne DEF Return, TimeOut, Release
    <2>5. coro'[r] = coro[r] \/ coro'[r] = "done"
      BY <1>5 DEF Return, TimeOut
    <2>6. Running(r)' => caller'[r] = "timeout"
      BY <1>5 DEF Return, TimeOut
    <2>7. CallersMatch'
      BY <2>2, <2>3, <2>5, <2>6
    <2>8. LocksAreHeld'
      BY <2>1, <2>2, <2>3, <2>4
    <2> QED
      BY <2>7, <2>8
  <1> QED
    BY <1>1, <1>2, <1>3, <1>4, <1>5 DEF ThreadStep

(* A step that leaves the tables and stderr alone, and lets no coroutine   *)
(* begin or end a change.                                                  *)
LEMMA QuietStep ==
    ASSUME McpInv, SameLoop,
           \A q \in Requests :
              /\ coro'[q] \in Changing <=> coro[q] \in Changing
              /\ coro[q] \in Changing => coro'[q] = coro[q] /\ Target(q)' = Target(q)
    PROVE  Tables' /\ Stderr'
  <1> USE DEF McpInv, SameLoop, Changing, Suspended
  <1>1. LoneWorkers'
    BY DEF Tables, LoneWorkers
  <1>2. WorkersKnow'
    BY DEF Tables, WorkersKnow, KnowsItsServer
  <1>3. TablesTellTruth'
    BY DEF Tables, TablesTellTruth
  <1>4. Stderr'
    BY DEF Stderr, OneHoldsStderr, StderrComesBack
  <1> QED
    BY <1>1, <1>2, <1>3, <1>4 DEF Tables

LEMMA ThreadStepsKeep ==
    ASSUME McpInv, NEW r \in Requests,
           \/ \E s \in Servers, k \in Kinds : Ask(r, k, s)
           \/ \E s \in Servers : DeleteIdle(r, s)
           \/ ThreadStep(r)
    PROVE  McpInv'
  <1>1. SameLoop
    BY DEF Ask, DeleteIdle, ThreadStep, TakeLock, Submit, Return, TimeOut
  <1>2. \A q \in Requests \ {r} : coro'[q] = coro[q] /\ Target(q)' = Target(q)
    <2>1. \A q \in Requests \ {r} : coro'[q] = coro[q] /\ work'[q] = work[q]
      BY DEF Ask, DeleteIdle, ThreadStep, TakeLock, Submit, Return, TimeOut, Await, McpInv, McpTypeOK
    <2> QED
      BY <2>1 DEF Target
  <1>3. coro[r] \in Changing => coro'[r] = coro[r] /\ work'[r] = work[r]
    BY DEF Ask, DeleteIdle, ThreadStep, TakeLock, Submit, Return, TimeOut, Await, McpInv, McpTypeOK,
           Turns, CallersMatch, Changing, Suspended
  <1>4. coro'[r] \in Changing => coro[r] \in Changing
    BY DEF Ask, DeleteIdle, ThreadStep, TakeLock, Submit, Return, TimeOut, Await, McpInv, McpTypeOK,
           Changing, Suspended
  <1>5. coro[r] \in Changing => Target(r)' = Target(r)
    BY <1>3 DEF Target
  <1> QED
    BY <1>1, <1>2, <1>3, <1>4, <1>5, QuietStep, ThreadTypes, ThreadTurns DEF McpInv
-----------------------------------------------------------------------------
(* What the coroutines do.                                                 *)
LEMMA SnapshotLists ==
    ASSUME McpInv, NEW r \in Requests, Snapshot(r)
    PROVE  /\ work' = [work EXCEPT ![r] = work'[r]] /\ work'[r] \in Seq(Servers)
           /\ asked[r] \notin {"sweep", "closeAll"} => work' = work
  <1> USE DEF McpInv, McpTypeOK
  <1>1. SetToSeq(configured) \in Seq(Servers)
    BY ListsServers
  <1>2. SetToSeq({s \in Servers : client[s] # NoClient}) \in Seq(Servers)
    BY ListsServers
  <1>3. CASE asked[r] = "sweep"
    <2>1. work' = [work EXCEPT ![r] = SetToSeq(configured)]
      BY <1>3 DEF Snapshot
    <2> QED
      BY <1>1, <1>3, <2>1
  <1>4. CASE asked[r] = "closeAll"
    <2>1. work' = [work EXCEPT ![r] = SetToSeq({s \in Servers : client[s] # NoClient})]
      BY <1>4 DEF Snapshot
    <2> QED
      BY <1>2, <1>4, <2>1
  <1>5. CASE asked[r] \notin {"sweep", "closeAll"}
    <2>1. work' = [work EXCEPT ![r] = @]
      BY <1>5 DEF Snapshot
    <2>2. work' = work
      BY <2>1
    <2> QED
      BY <1>5, <2>1, <2>2
  <1> QED
    BY <1>3, <1>4, <1>5

(* A coroutine that goes on to its next server has one.                    *)
LEMMA Advance ==
    ASSUME McpInv, NEW r \in Requests, coro[r] \in {"next"} \cup Suspended
    PROVE  LET rest == IF Len(work[r]) = 1 THEN work[r] ELSE Tail(work[r]) IN
           /\ rest \in Seq(Servers) /\ rest # <<>>
           /\ Finish(r) \in {"done", "next"} /\ work[r] # <<>>
           /\ Target(r) \in Servers /\ work[r] \in Seq(Servers)
  BY TargetIsServer DEF Finish, McpInv, Turns, McpTypeOK

(* What every step of a coroutine has in common.                           *)
LEMMA LoopFrame ==
    ASSUME McpInv, NEW r \in Requests, LoopStep(r)
    PROVE  /\ SameCallers /\ coro[r] \notin {"none", "done"}
           /\ coro' = [coro EXCEPT ![r] = coro'[r]]
           /\ coro'[r] \in {"next", "done"} \cup Suspended
           /\ work' = [work EXCEPT ![r] = work'[r]] /\ work'[r] \in Seq(Servers)
           /\ coro'[r] \in {"next"} \cup Suspended => work'[r] # <<>>
           /\ asked[r] = "call" => coro'[r] \notin Changing
           /\ asked[r] \in Locked /\ Len(work[r]) = 1 => work' = work
  <1> USE DEF McpInv, McpTypeOK, SameCallers, Await, Suspended, Changing, Locked
  <1>1. CASE Snapshot(r)
    BY <1>1, SnapshotLists DEF Snapshot
  <1>2. CASE Skip(r)
    BY <1>2, Advance DEF Skip
  <1>3. CASE BeginClose(r) \/ BeginOpen(r) \/ BeginCall(r)
    BY <1>3, Advance DEF BeginClose, BeginOpen, BeginCall, Opening
  <1>4. CASE Close(r)
    <2>1. asked[r] # "call"
      BY <1>4 DEF Close, Turns, CallersMatch
    <2>2. CASE asked[r] \in Opening
      BY <1>4, <2>1, <2>2, Advance DEF Close
    <2>3. CASE asked[r] \notin Opening
      <3> DEFINE rest == IF Len(work[r]) = 1 THEN work[r] ELSE Tail(work[r])
      <3>1. work' = [work EXCEPT ![r] = rest] \/ work' = [work EXCEPT ![r] = work[r]]
        BY <1>4, <2>3 DEF Close
      <3>2. coro' = [coro EXCEPT ![r] = "done"] \/ coro' = [coro EXCEPT ![r] = Finish(r)]
        BY <1>4, <2>3 DEF Close
      <3>3. coro[r] = "closing" /\ SameCallers
        BY <1>4 DEF Close
      <3>4. rest \in Seq(Servers) /\ rest # <<>> /\ Finish(r) \in {"done", "next"}
            /\ work[r] # <<>> /\ work[r] \in Seq(Servers)
        BY <3>3, Advance
      <3>5. Len(work[r]) = 1 => rest = work[r]
        OBVIOUS
      <3> HIDE DEF rest
      <3> QED
        BY <3>1, <3>2, <3>3, <3>4, <3>5
    <2> QED
      BY <2>2, <2>3
  <1>5. CASE Opened(r) \/ OpenFails(r)
    BY <1>5, Advance DEF Opened, OpenFails, Turns, CallersMatch
  <1>6. CASE Clean(r) \/ Discovered(r)
    BY <1>6, Advance DEF Clean, Discovered
  <1>7. CASE Called(r)
    BY <1>7, Advance DEF Called
  <1> QED
    BY <1>1, <1>2, <1>3, <1>4, <1>5, <1>6, <1>7 DEF LoopStep

LEMMA LoopTurns ==
    ASSUME McpInv, NEW r \in Requests, LoopStep(r)
    PROVE  Turns' /\ \A q \in Requests \ {r} : coro'[q] = coro[q] /\ Target(q)' = Target(q)
  <1> USE DEF McpInv, McpTypeOK
  <1>1. \A q \in Requests \ {r} : coro'[q] = coro[q] /\ work'[q] = work[q]
    BY LoopFrame
  <1>2. \A q \in Requests \ {r} : Target(q)' = Target(q)
    BY <1>1 DEF Target
  <1>3. work'[r] = work[r] => Target(r)' = Target(r)
    BY DEF Target
  <1>4. UNCHANGED <<asked, caller, serverLock>>
    BY LoopFrame DEF SameCallers
  <1>5. Running(r) /\ coro'[r] # "none"
    BY LoopFrame DEF Running, Suspended
  <1>6. CallersMatch'
    BY <1>1, <1>4, <1>5, LoopFrame DEF Turns, CallersMatch, Running
  <1>7. LocksAreHeld'
    <2>1. caller[r] \in {"waiting", "timeout"}
      BY <1>5 DEF Turns, CallersMatch
    <2>2. asked[r] \in Locked /\ Len(work[r]) = 1 => work'[r] = work[r]
      BY LoopFrame
    <2>3. SUFFICES ASSUME NEW q \in Requests, caller[q] \in {"submitting", "waiting"}, asked[q] \in Locked
          PROVE  Len(work'[q]) = 1 /\ serverLock[Target(q)'] = q
      BY <1>1, <1>4, <2>1 DEF Turns, LocksAreHeld
    <2>4. Len(work[q]) = 1 /\ serverLock[Target(q)] = q
      BY <2>3 DEF Turns, LocksAreHeld
    <2>5. work'[q] = work[q] /\ Target(q)' = Target(q)
      BY <1>1, <1>2, <1>3, <2>2, <2>3, <2>4
    <2> QED
      BY <2>4, <2>5
  <1> QED
    BY <1>1, <1>2, <1>6, <1>7 DEF Turns

LEMMA LoopTypes ==
    ASSUME McpInv, NEW r \in Requests, LoopStep(r)
    PROVE  McpTypeOK'
  <1>1. /\ configured' \subseteq Servers
        /\ serverLock' \in [Servers -> Requests \cup {NoClient}]
        /\ asked' \in [Requests -> Kinds \cup {"none"}]
        /\ caller' \in [Requests -> {"new", "locking", "submitting", "waiting"} \cup Returned]
    BY LoopFrame DEF McpInv, McpTypeOK, SameCallers
  <1>2. /\ coro' \in [Requests -> {"none", "start", "next", "done"} \cup Suspended]
        /\ work' \in [Requests -> Seq(Servers)]
    BY LoopFrame DEF McpInv, McpTypeOK
  <1>3. coro[r] \in {"next"} \cup Suspended => Target(r) \in Servers
    BY Advance
  <1>4. coro[r] \in {"closing", "opening"} => saved[r] \in {"terminal", "null"}
    BY DEF McpInv, McpTypeOK, Stderr, OneHoldsStderr
  <1>5. /\ client' \in [Servers -> Requests \cup {NoClient}]
        /\ tools' \in [Servers -> Requests \cup {NoClient}]
        /\ alive' \subseteq Requests \X Servers
    <2> USE DEF McpInv, McpTypeOK, SameLoop
    <2>1. CASE Snapshot(r) \/ Skip(r) \/ BeginClose(r) \/ BeginOpen(r) \/ BeginCall(r) \/ Called(r)
      BY <2>1 DEF Snapshot, Skip, BeginClose, BeginOpen, BeginCall, Called
    <2>2. CASE Close(r)
      BY <2>2 DEF Close
    <2>3. CASE Opened(r)
      BY <1>3, <2>3 DEF Opened, Suspended
    <2>4. CASE OpenFails(r) \/ Clean(r) \/ Discovered(r)
      BY <2>4 DEF OpenFails, Clean, Discovered
    <2> QED
      BY <2>1, <2>2, <2>3, <2>4 DEF LoopStep
  <1>6. /\ held' \in [Requests -> Requests \cup {NoClient}]
        /\ contested' \subseteq Servers
    <2> USE DEF McpInv, McpTypeOK, SameLoop
    <2>1. CASE Snapshot(r) \/ Skip(r) \/ BeginCall(r) \/ Called(r)
      BY <2>1 DEF Snapshot, Skip, BeginCall, Called
    <2>2. CASE BeginClose(r) \/ BeginOpen(r)
      BY <1>3, <2>2 DEF BeginClose, BeginOpen, Contest
    <2>3. CASE Close(r) \/ Opened(r) \/ OpenFails(r) \/ Clean(r) \/ Discovered(r)
      BY <2>3 DEF Close, Opened, OpenFails, Clean, Discovered
    <2> QED
      BY <2>1, <2>2, <2>3 DEF LoopStep
  <1>7. /\ saved' \in [Requests -> {"none", "terminal", "null"}]
        /\ fd2' \in {"terminal", "null"} /\ nested' \in BOOLEAN
    <2> USE DEF McpInv, McpTypeOK, SameLoop
    <2>1. CASE Snapshot(r) \/ Skip(r) \/ BeginCall(r) \/ Called(r) \/ Clean(r) \/ Discovered(r)
      BY <2>1 DEF Snapshot, Skip, BeginCall, Called, Clean, Discovered, NoStderr
    <2>2. CASE BeginClose(r) \/ BeginOpen(r)
      BY <2>2 DEF BeginClose, BeginOpen, Suppress
    <2>3. CASE Close(r)
      BY <1>4, <2>3 DEF Close, Restore
    <2>4. CASE Opened(r) \/ OpenFails(r)
      BY <1>4, <2>4 DEF Opened, OpenFails, Restore
    <2> QED
      BY <2>1, <2>2, <2>3, <2>4 DEF LoopStep
  <1> QED
    BY <1>1, <1>2, <1>5, <1>6, <1>7 DEF McpTypeOK

(* Stderr is taken by a step that begins an opening or a closing and given *)
(* back by the one that ends it.                                           *)
LEMMA SuppressKeeps ==
    ASSUME McpInv, NEW r \in Requests, Suppress(r), coro[r] = "next",
           coro' = [coro EXCEPT ![r] = coro'[r]], coro'[r] \in {"closing", "opening"}
    PROVE  Stderr'
  BY DEF McpInv, McpTypeOK, Stderr, OneHoldsStderr, StderrComesBack, Suppress

LEMMA RestoreKeeps ==
    ASSUME McpInv, NEW r \in Requests, Restore(r), UNCHANGED nested,
           coro[r] \in {"closing", "opening"},
           coro' = [coro EXCEPT ![r] = coro'[r]], coro'[r] \notin {"closing", "opening"}
    PROVE  Stderr'
  BY DEF McpInv, McpTypeOK, Stderr, OneHoldsStderr, StderrComesBack, Restore

LEMMA LoopStderr ==
    ASSUME McpInv, NEW r \in Requests, LoopStep(r)
    PROVE  Stderr'
  <1>1. coro' = [coro EXCEPT ![r] = coro'[r]]
    BY LoopFrame
  <1>2. CASE Snapshot(r) \/ Skip(r) \/ BeginCall(r) \/ Called(r) \/ Clean(r) \/ Discovered(r)
    <2>1. NoStderr
      BY <1>2 DEF Snapshot, Skip, BeginCall, Called, Clean, Discovered, NoStderr, SameLoop
    <2>2. coro[r] \notin {"closing", "opening"}
      BY <1>2 DEF Snapshot, Skip, BeginCall, Called, Clean, Discovered
    <2>3. coro'[r] \notin {"closing", "opening"}
      BY <1>2 DEF McpInv, McpTypeOK, Snapshot, Skip, BeginCall, Called, Clean, Discovered, Await, Finish
    <2> QED
      BY <1>1, <2>1, <2>2, <2>3
         DEF McpInv, McpTypeOK, NoStderr, Stderr, OneHoldsStderr, StderrComesBack
  <1>3. CASE BeginClose(r) \/ BeginOpen(r)
    <2>1. Suppress(r) /\ coro[r] = "next"
      BY <1>3 DEF BeginClose, BeginOpen
    <2>2. coro'[r] \in {"closing", "opening"}
      BY <1>3 DEF BeginClose, BeginOpen, Await, McpInv, McpTypeOK
    <2> QED
      BY <1>1, <2>1, <2>2, SuppressKeeps
  <1>4. CASE Close(r)
    <2>1. coro[r] = "closing" /\ UNCHANGED nested
      BY <1>4 DEF Close
    <2>2. CASE asked[r] \in Opening
      <3>1. coro'[r] = "opening" /\ UNCHANGED saved /\ fd2' = "null"
        BY <1>4, <2>2 DEF Close, Await, McpInv, McpTypeOK
      <3> QED
        BY <1>1, <2>1, <3>1 DEF McpInv, McpTypeOK, Stderr, OneHoldsStderr, StderrComesBack
    <2>3. CASE asked[r] \notin Opening
      <3>1. Restore(r)
        BY <1>4, <2>3 DEF Close
      <3>2. coro'[r] \notin {"closing", "opening"}
        BY <1>4, <2>3 DEF Close, Await, Finish, McpInv, McpTypeOK
      <3> QED
        BY <1>1, <2>1, <3>1, <3>2, RestoreKeeps
    <2> QED
      BY <2>2, <2>3
  <1>5. CASE Opened(r) \/ OpenFails(r)
    <2>1. Restore(r) /\ coro[r] = "opening" /\ UNCHANGED nested
      BY <1>5 DEF Opened, OpenFails
    <2>2. coro'[r] \notin {"closing", "opening"}
      BY <1>5 DEF Opened, OpenFails, Await, McpInv, McpTypeOK
    <2> QED
      BY <1>1, <2>1, <2>2, RestoreKeeps
  <1> QED
    BY <1>2, <1>3, <1>4, <1>5 DEF LoopStep

(* A coroutine changes the tables for its own server only, after an await; *)
(* it stays with this server until it has dealt with it, and notes whom it *)
(* meets there.                                                            *)
LEMMA LoopTouches ==
    ASSUME McpInv, NEW r \in Requests, LoopStep(r)
    PROVE  /\ \A s \in Servers : s # Target(r) \/ coro[r] \notin Changing =>
                 /\ client'[s] = client[s] /\ tools'[s] = tools[s]
                 /\ \A q \in Requests : <<q, s>> \in alive' <=> <<q, s>> \in alive
           /\ \A q \in Requests \ {r} : held'[q] = held[q]
           /\ contested \subseteq contested'
           /\ coro'[r] \in Changing =>
                 /\ Target(r)' = Target(r)
                 /\ \/ coro[r] \in Changing /\ contested' = contested
                    \/ coro[r] \notin Changing /\ Contest(r, Target(r))
  <1> USE DEF McpInv, McpTypeOK, Await
  <1>1. CASE Snapshot(r) \/ Skip(r) \/ BeginCall(r) \/ Called(r)
    <2>1. SameLoop
      BY <1>1 DEF Snapshot, Skip, BeginCall, Called
    <2>2. coro'[r] \notin Changing
      BY <1>1 DEF Snapshot, Skip, BeginCall, Called, Finish, Changing, Suspended
    <2> QED
      BY <2>1, <2>2 DEF SameLoop
  <1>2. CASE BeginClose(r) \/ BeginOpen(r)
    <2>1. UNCHANGED <<client, tools, alive, work>> /\ Contest(r, Target(r))
      BY <1>2 DEF BeginClose, BeginOpen
    <2>2. coro[r] \notin Changing
      BY <1>2 DEF BeginClose, BeginOpen, Changing, Suspended
    <2>3. \A q \in Requests \ {r} : held'[q] = held[q]
      BY <1>2 DEF BeginClose, BeginOpen
    <2> QED
      BY <2>1, <2>2, <2>3 DEF Contest, Target
  <1>3. CASE Close(r)
    <2>1. coro[r] \in Changing /\ contested' = contested
      BY <1>3 DEF Close, Changing, Suspended
    <2>2. coro'[r] \in Changing => work' = work
      BY <1>3 DEF Close, Finish, Changing, Suspended
    <2>3. \A s \in Servers \ {Target(r)} :
              /\ client'[s] = client[s] /\ tools'[s] = tools[s]
              /\ \A q \in Requests : <<q, s>> \in alive' <=> <<q, s>> \in alive
      BY <1>3 DEF Close
    <2>4. \A q \in Requests \ {r} : held'[q] = held[q]
      BY <1>3 DEF Close
    <2> QED
      BY <2>1, <2>2, <2>3, <2>4 DEF Target
  <1>4. CASE Opened(r) \/ OpenFails(r)
    <2>1. coro[r] \in Changing /\ UNCHANGED <<contested, work, held>>
      BY <1>4 DEF Opened, OpenFails, Changing, Suspended
    <2>2. \A s \in Servers \ {Target(r)} :
              /\ client'[s] = client[s] /\ tools'[s] = tools[s]
              /\ \A q \in Requests : <<q, s>> \in alive' <=> <<q, s>> \in alive
      BY <1>4 DEF Opened, OpenFails
    <2> QED
      BY <2>1, <2>2 DEF Target
  <1>5. CASE Clean(r) \/ Discovered(r)
    <2>1. coro[r] \in Changing /\ UNCHANGED <<contested, held, alive>>
      BY <1>5 DEF Clean, Discovered, Changing, Suspended
    <2>2. coro'[r] \notin Changing
      BY <1>5 DEF Clean, Discovered, Finish, Changing, Suspended
    <2>3. \A s \in Servers \ {Target(r)} : client'[s] = client[s] /\ tools'[s] = tools[s]
      BY <1>5 DEF Clean, Discovered
    <2> QED
      BY <2>1, <2>2, <2>3
  <1> QED
    BY <1>1, <1>2, <1>3, <1>4, <1>5 DEF LoopStep

(* On its own server, if that is not contested.                            *)
LEMMA OwnServer ==
    ASSUME McpInv, NEW r \in Requests, LoopStep(r), coro[r] \in Changing, Target(r) \notin contested
    PROVE  LET s == Target(r) IN
           /\ coro'[r] \notin {"closing"}
           /\ coro'[r] \in {"opening", "cleaning"} => client'[s] = NoClient
           /\ coro'[r] = "discovering" => client'[s] = r
           /\ \A q \in Requests : <<q, s>> \in alive' => client'[s] = q
           /\ tools'[s] # NoClient => client'[s] = tools'[s]
  <1> DEFINE s == Target(r)
  <1>1. s \in Servers
    BY Advance DEF Changing
  <1>2. KnowsItsServer(r)
    BY DEF McpInv, Tables, WorkersKnow
  <1>3. /\ \A q \in Requests : <<q, s>> \in alive => client[s] = q
        /\ tools[s] # NoClient => client[s] = tools[s]
    BY <1>1 DEF McpInv, Tables, TablesTellTruth
  <1> USE DEF McpInv, McpTypeOK, Await, KnowsItsServer
  <1>4. CASE Close(r)
    <2>1. client[s] # NoClient /\ held[r] = client[s]
      BY <1>2, <1>4 DEF Close
    <2>2. client'[s] = NoClient /\ tools'[s] = NoClient
      BY <1>1, <1>4, <2>1 DEF Close
    <2>3. \A q \in Requests : <<q, s>> \notin alive'
      BY <1>3, <1>4, <2>1 DEF Close
    <2>4. coro'[r] \in {"opening", "done", "next"}
      BY <1>4 DEF Close, Finish
    <2> QED
      BY <2>2, <2>3, <2>4
  <1>5. CASE Opened(r)
    <2>1. client[s] = NoClient
      BY <1>2, <1>5 DEF Opened
    <2>2. tools'[s] = NoClient /\ client'[s] = r
      BY <1>1, <1>3, <1>5, <2>1 DEF Opened
    <2>3. \A q \in Requests : <<q, s>> \in alive' => q = r
      BY <1>3, <1>5, <2>1, McpAssumption DEF Opened
    <2>4. coro'[r] = "discovering"
      BY <1>5 DEF Opened
    <2> QED
      BY <2>2, <2>3, <2>4
  <1>6. CASE OpenFails(r)
    BY <1>2, <1>3, <1>6 DEF OpenFails
  <1>7. CASE Clean(r)
    <2>1. client[s] = NoClient
      BY <1>2, <1>7 DEF Clean
    <2>2. client'[s] = NoClient /\ tools'[s] = NoClient /\ alive' = alive
      BY <1>1, <1>7 DEF Clean
    <2>3. coro'[r] \in {"done", "next"}
      BY <1>7 DEF Clean, Finish
    <2> QED
      BY <1>3, <2>1, <2>2, <2>3
  <1>8. CASE Discovered(r)
    <2>1. client[s] = r
      BY <1>2, <1>8 DEF Discovered
    <2>2. client' = client /\ tools'[s] = r /\ alive' = alive
      BY <1>1, <1>8 DEF Discovered
    <2>3. coro'[r] \in {"done", "next"}
      BY <1>8 DEF Discovered, Finish
    <2> QED
      BY <1>3, <2>1, <2>2, <2>3
  <1> QED
    BY <1>4, <1>5, <1>6, <1>7, <1>8
       DEF LoopStep, Snapshot, Skip, BeginClose, BeginOpen, BeginCall, Called, Changing, Suspended

LEMMA LoopTables ==
    ASSUME McpInv, NEW r \in Requests, LoopStep(r)
    PROVE  Tables'
  <1>1. \A q \in Requests \ {r} : coro'[q] = coro[q] /\ Target(q)' = Target(q)
    BY LoopTurns
  <1>2. contested \subseteq contested'
    BY LoopTouches
  <1>3. LoneWorkers'
    <2>1. \A q \in Requests \ {r} :
              coro'[r] \in Changing /\ coro[q] \in Changing /\ Target(q) = Target(r) =>
                  Target(r) \in contested'
      <3> SUFFICES ASSUME NEW q \in Requests \ {r}, coro'[r] \in Changing, coro[q] \in Changing,
                          Target(q) = Target(r)
                   PROVE  Target(r) \in contested'
        OBVIOUS
      <3>1. CASE coro[r] \in Changing
        BY <1>2, <3>1 DEF McpInv, Tables, LoneWorkers
      <3>2. CASE Contest(r, Target(r))
        BY <3>2 DEF Contest
      <3> QED
        BY <3>1, <3>2, LoopTouches
    <2>2. coro'[r] \in Changing => Target(r)' = Target(r)
      BY LoopTouches
    <2> QED
      BY <1>1, <1>2, <2>1, <2>2 DEF McpInv, Tables, LoneWorkers
  <1>4. WorkersKnow'
    <2>1. ASSUME NEW q \in Requests \ {r}, Target(q) \notin contested'
          PROVE  KnowsItsServer(q)'
      <3>1. CASE coro[q] \in Changing
        <4>1. Target(q) \in Servers /\ KnowsItsServer(q)
          BY <1>2, <2>1, <3>1, Advance DEF Changing, McpInv, Tables, WorkersKnow
        <4>2. Target(q) # Target(r) \/ coro[r] \notin Changing
          BY <1>2, <2>1, <3>1 DEF McpInv, Tables, LoneWorkers
        <4>3. client'[Target(q)] = client[Target(q)] /\ held'[q] = held[q]
          BY <4>1, <4>2, LoopTouches
        <4> QED
          BY <1>1, <4>1, <4>3 DEF KnowsItsServer
      <3>2. CASE coro[q] \notin Changing
        BY <1>1, <3>2 DEF KnowsItsServer, Changing, Suspended
      <3> QED
        BY <3>1, <3>2
    <2>2. ASSUME Target(r)' \notin contested'
          PROVE  KnowsItsServer(r)'
      <3>1. CASE coro'[r] \notin Changing
        BY <3>1 DEF KnowsItsServer, Changing, Suspended
      <3>2. CASE coro'[r] \in Changing /\ coro[r] \in Changing
        <4>1. Target(r)' = Target(r) /\ Target(r) \notin contested
          BY <1>2, <2>2, <3>2, LoopTouches
        <4> QED
          BY <3>2, <4>1, OwnServer DEF KnowsItsServer
      <3>3. CASE coro'[r] \in Changing /\ coro[r] \notin Changing
        <4>1. Target(r)' = Target(r)
          BY <3>3, LoopTouches
        <4>2. BeginClose(r) \/ BeginOpen(r)
          BY <3>3 DEF LoopStep, Snapshot, Skip, BeginCall, Called, Close, Opened, OpenFails, Clean,
                      Discovered, Await, Finish, Changing, Suspended, McpInv, McpTypeOK
        <4>3. CASE BeginClose(r)
          <5>1. coro'[r] = "closing" /\ held'[r] = client[Target(r)] /\ client[Target(r)] # NoClient
                /\ client' = client
            BY <4>3 DEF BeginClose, Await, McpInv, McpTypeOK
          <5> QED
            BY <4>1, <5>1 DEF KnowsItsServer
        <4>4. CASE BeginOpen(r)
          <5>1. coro'[r] = "opening" /\ client[Target(r)] = NoClient /\ client' = client
            BY <4>4 DEF BeginOpen, Await, McpInv, McpTypeOK
          <5> QED
            BY <4>1, <5>1 DEF KnowsItsServer
        <4> QED
          BY <4>2, <4>3, <4>4
      <3> QED
        BY <3>1, <3>2, <3>3
    <2> QED
      BY <1>1, <2>1, <2>2 DEF WorkersKnow
  <1>5. TablesTellTruth'
    <2> SUFFICES ASSUME NEW s \in Servers \ contested'
                 PROVE  /\ \A q \in Requests : <<q, s>> \in alive' => client'[s] = q
                        /\ tools'[s] # NoClient => client'[s] = tools'[s]
      BY DEF TablesTellTruth
    <2>1. CASE s # Target(r) \/ coro[r] \notin Changing
      BY <1>2, <2>1, LoopTouches DEF McpInv, Tables, TablesTellTruth
    <2>2. CASE s = Target(r) /\ coro[r] \in Changing
      BY <1>2, <2>2, OwnServer
    <2> QED
      BY <2>1, <2>2
  <1> QED
    BY <1>3, <1>4, <1>5 DEF Tables
-----------------------------------------------------------------------------
LEMMA McpInvHolds == McpSpec => []McpInv
  <1>1. McpInit => McpInv
    BY McpInvInit
  <1>2. McpInv /\ [McpNext]_mcpVars => McpInv'
    <2> SUFFICES ASSUME McpInv, [McpNext]_mcpVars PROVE McpInv'
      OBVIOUS
    <2>1. CASE McpNext
      <3>1. PICK r \in Requests :
                \/ \E s \in Servers, k \in Kinds : Ask(r, k, s)
                \/ \E s \in Servers : DeleteIdle(r, s)
                \/ ThreadStep(r)
                \/ LoopStep(r)
        BY <2>1 DEF McpNext
      <3>2. CASE LoopStep(r)
        BY <3>2, LoopTypes, LoopTurns, LoopTables, LoopStderr DEF McpInv
      <3>3. CASE ~LoopStep(r)
        BY <3>1, <3>3, ThreadStepsKeep
      <3> QED
        BY <3>2, <3>3
    <2>2. CASE UNCHANGED mcpVars
      <3>1. McpTypeOK'
        BY <2>2 DEF mcpVars, McpInv, McpTypeOK
      <3>2. \A r \in Requests : Target(r)' = Target(r)
        BY <2>2 DEF mcpVars, Target
      <3>3. Turns'
        BY <2>2, <3>2 DEF mcpVars, McpInv, Turns, CallersMatch, LocksAreHeld, Running
      <3>4. Tables' /\ Stderr'
        BY <2>2, <3>2, QuietStep DEF mcpVars, SameLoop
      <3> QED
        BY <3>1, <3>3, <3>4 DEF McpInv
    <2> QED
      BY <2>1, <2>2
  <1> QED
    BY <1>1, <1>2, PTL DEF McpSpec

(* Every variable of McpConnections has its type, whatever the servers do  *)
(* and whoever times out.                                                  *)
THEOREM McpTypesHold == McpSpec => []McpTypeOK
  <1>1. McpInv => McpTypeOK
    BY DEF McpInv
  <1> QED
    BY <1>1, McpInvHolds, PTL

(* However many requests there are: on a server that no two coroutines     *)
(* changed at once, a client that is open can be closed and tools are      *)
(* those of the registered client.                                         *)
THEOREM UncontestedTablesTellTruth == McpSpec => []TablesTellTruth
  <1>1. McpInv => TablesTellTruth
    BY DEF McpInv, Tables
  <1> QED
    BY <1>1, McpInvHolds, PTL

(* The per-server lock does what it is for, until a request times out.     *)
THEOREM LocksKeepApart == McpSpec => []LockedWorkAlone
  <1>1. McpInv => LockedWorkAlone
    <2> SUFFICES ASSUME McpInv, NEW q \in Requests, NEW r \in Requests,
                        q # r, Target(q) = Target(r), Running(q), Running(r),
                        {asked[q], asked[r]} \subseteq Locked, "timeout" \notin {caller[q], caller[r]}
                 PROVE  FALSE
      BY DEF LockedWorkAlone
    <2>1. caller[q] = "waiting" /\ caller[r] = "waiting"
      BY DEF McpInv, Turns, CallersMatch
    <2>2. serverLock[Target(q)] = q /\ serverLock[Target(r)] = r
      BY <2>1 DEF McpInv, Turns, LocksAreHeld
    <2> QED
      BY <2>2
  <1> QED
    BY <1>1, McpInvHolds, PTL

(* While no two suppressions overlap, stderr comes back.                   *)
THEOREM StderrIsGivenBack == McpSpec => []StderrComesBack
  <1>1. McpInv => StderrComesBack
    BY DEF McpInv, Stderr
  <1> QED
    BY <1>1, McpInvHolds, PTL
=============================================================================
