------------------------------ MODULE MCTools ------------------------------
(* The tools and what stands around them, each on its own: they share no    *)
(* state, so a behaviour is one of a single part while the others rest in   *)
(* one initial state.                                                       *)
EXTENDS MCLegacyTools, EventReceiver, MCIntentParams, MCWorkflows, Paging, MCGovernance,
        MCPlanning, MCStaffJobs, VersionProfile

VARIABLE part

MCToolRows == MCRows \cup MCJobRows
MCToolWorlds == MCWorlds \cup MCJobWorlds \cup {{}}
MCReleases == <<"8.13", "9.x">>

\* Worlds are for the parts that read them, calls of ops_ask for the jobs.
StartingWorlds ==
  CASE part = "flows" -> MCWorlds [] part = "jobs" -> MCJobWorlds [] OTHER -> {{}}
StartingCalls == IF part = "jobs" THEN JobCalls ELSE {CHOOSE a \in JobCalls : TRUE}

RestingLists == listing = <<>> /\ counts = FALSE /\ PagingStart
RestingParams == scope = "none" /\ params = <<>> /\ stage = "draft" /\ judged = 0 /\ sent = <<>>
RestingRegistry ==
  LET d == CHOOSE d \in Setups : ~d.registryFile
  IN setup = d /\ source = d.inline /\ GovernanceInit

(* By symmetry one installation; a grant that is missing from the start only
   refuses. *)
StartingPlanner ==
  PlanningInit /\ process.installation = "live" /\ grants = [who \in Planners |-> Full]

ToolsInit ==
  /\ part \in {"legacy", "events", "params", "flows", "lists", "registry", "plans", "jobs",
              "profile"}
  /\ LegacyInit /\ EventInit
  /\ IF part = "params" THEN ParamsInit ELSE RestingParams
  /\ world \in StartingWorlds /\ FlowsInit
  /\ request \in StartingCalls /\ JobsStart
  /\ ProfileInit
  /\ IF part = "lists" THEN PagingInit ELSE RestingLists
  /\ IF part = "registry" THEN GovernanceInit ELSE RestingRegistry
  /\ StartingPlanner

ToolsNext ==
  \/ /\ part = "legacy" /\ LegacyNext
     /\ UNCHANGED <<part, eventVars, paramVars, workflowVars, jobVars, pagingVars,
                      governance, planningVars, profileVars>>
  \/ /\ part = "events" /\ EventNext
     /\ UNCHANGED <<part, legacyVars, paramVars, workflowVars, jobVars, pagingVars,
                      governance, planningVars, profileVars>>
  \/ /\ part = "params" /\ ParamsNext
     /\ UNCHANGED <<part, legacyVars, eventVars, workflowVars, jobVars, pagingVars,
                      governance, planningVars, profileVars>>
  \/ /\ part = "flows" /\ FlowsNext
     /\ UNCHANGED <<part, legacyVars, eventVars, paramVars, jobVars, pagingVars, governance,
                      planningVars, profileVars>>
  \/ /\ part = "jobs" /\ StaffNext
     /\ UNCHANGED <<part, legacyVars, eventVars, paramVars, callVars, flowVars, pagingVars,
                      governance, planningVars, profileVars>>
  \/ /\ part = "lists" /\ PagingNext
     /\ UNCHANGED <<part, legacyVars, eventVars, paramVars, workflowVars, jobVars,
                      governance, planningVars, profileVars>>
  \/ /\ part = "registry" /\ GovernanceNext
     /\ UNCHANGED <<part, legacyVars, eventVars, paramVars, workflowVars, jobVars,
                      pagingVars, planningVars, profileVars>>
  \/ /\ part = "plans" /\ PlanningNext
     /\ UNCHANGED <<part, legacyVars, eventVars, paramVars, workflowVars, jobVars,
                      pagingVars, governance, profileVars>>
  \/ /\ part = "profile" /\ ProfileNext
     /\ UNCHANGED <<part, legacyVars, eventVars, paramVars, workflowVars, jobVars,
                      pagingVars, governance, planningVars>>

toolsVars ==
  <<part, legacyVars, eventVars, paramVars, workflowVars, jobVars, pagingVars, governance,
    planningVars, profileVars>>

ToolsSpec == ToolsInit /\ [][ToolsNext]_toolsVars

(* Sections of an aggregator's, a workflow's or a job's answer.              *)
AnswersExplained ==
  /\ part = "flows" => AbsenceExplained
  /\ part = "jobs" => AnswerExplained
============================================================================
