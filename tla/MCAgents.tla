------------------------------- MODULE MCAgents -------------------------------
(* Small instances for TLC of what the tools of a run set going: the loop  *)
(* of a subagent and the jobs of deep_analyze.  They share no state: in    *)
(* each behaviour one of them moves and the other rests.                   *)
EXTENDS SubagentLoop, SkillJobs

VARIABLE part     \* which of them moves
agentsVars == <<part, subVars, jobVars>>

AgentsInit ==
    /\ part \in {"subagent", "jobs"} /\ SubInit /\ JobInit
    /\ part # "subagent" => parentTodos = "clear"
AgentsNext ==
    /\ UNCHANGED part
    /\ \/ part = "subagent" /\ SubNext /\ UNCHANGED jobVars
       \/ part = "jobs" /\ JobNext /\ UNCHANGED subVars

(* The fairness of the two modules.                                        *)
AgentsSpec ==
    /\ AgentsInit /\ [][AgentsNext]_agentsVars
    /\ WF_subVars(part = "subagent" /\ SubStep)
    /\ \A j \in Jobs : WF_jobVars(part = "jobs" /\ JobStep(j))

AgentsTypeOK == SubTypeOK /\ JobTypeOK
=============================================================================
