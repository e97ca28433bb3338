------------------------------ MODULE Planning ------------------------------
(* The operations planner: candidates compiled into plans on the evidence   *)
(* that WHMCS supports what they need, preflights that gather it by probes  *)
(* while grants, permissions and the process change, and drafts made from   *)
(* plans that their holders present whenever they like.                     *)
EXTENDS Integers, Sequences, FiniteSets, FiniteSetsExt, SequencesExt

CONSTANTS
  Preflights,    \* preflight_operation_plan calls
  Planners,      \* consumers of the registry
  Catalog,       \* operation -> effect, WHMCS actions, write scope, fan-out, calls
  Probeable,     \* PREFLIGHT_OPERATION_ALLOWLIST
  Candidates,    \* candidate plans: mode, catalog version, steps
  GrantSets,     \* what operators may grant a consumer
  Processes,     \* configurations a process may start with
  EvidenceTtl,   \* DEFAULT_EVIDENCE_TTL_MS
  SharedReads,   \* MCP_READ_CACHE_ACTIONS, with caching or coalescing on
  AnswerLag,     \* MCP_READ_CACHE_TTL_MS and the longest that one request is under way
  PlanTtls,      \* values of ttl_ms
  PreflightTtl,  \* the ttl of a plan that a preflight compiles
  MaxPlanTtl,    \* DEFAULT_PLANNING_LIMITS.maxTtlMs
  MaxFanOut,     \* DEFAULT_PLANNING_LIMITS.maxFanOut
  MaxPlanCalls,  \* DEFAULT_PLANNING_LIMITS.maxWhmcsCalls
  MaxTick,       \* bound on the clock
  MaxUpheavals   \* bound on edits of grants, of permissions and on restarts

ASSUME PlanningTimes ==
  /\ {EvidenceTtl, AnswerLag, PreflightTtl, MaxPlanTtl, MaxFanOut, MaxPlanCalls, MaxTick,
      MaxUpheavals} \subseteq Nat
  /\ PlanTtls \subseteq Nat \ {0}

ASSUME StepsAreLists == \A candidate \in Candidates : candidate.steps \in Seq(ToSet(candidate.steps))

VARIABLES
  process,    \* config of the running process, with the version of its catalog
  tick,       \* Date.now
  grants,     \* consumer -> its entry in the registry, as it was last loaded
  permitted,  \* the actions WHMCS lets these credentials take
  revokedAt,  \* action -> when this process last saw it forbidden, 0 never
  evidence,   \* evidenceStore of governance/capabilityEvidence.ts
  plans,      \* the plan that a caller holds, if any
  preflight,  \* call -> where it stands
  drafting,   \* the draft_operation_plan call under way
  draftScopes, \* the scopes of which drafts were made
  provenAt,   \* history: until when WHMCS is known to have granted what a probe was told,
              \* 0 never
  upheavals   \* edits of grants and permissions and restarts so far

planningVars ==
  <<process, tick, grants, permitted, revokedAt, evidence, plans, preflight, drafting, draftScopes, provenAt,
    upheavals>>

around == <<process, tick, grants, permitted, revokedAt, upheavals>>
outcome == <<drafting, draftScopes, provenAt>>

Effect(step) == Catalog[step.op].effect
Actions(step) == Catalog[step.op].actions
IsDraft(step) == Effect(step) \in {"draft", "write"}
Steps(candidate) == ToSet(candidate.steps)
Referenced(step) == {step.client} \ {"none", "slot"}

-----------------------------------------------------------------------------
(* Who asks, from where (tools/planning.ts planningContext).                 *)

Context(who) ==
  [who |-> who, caps |-> grants[who].caps, scopes |-> grants[who].scopes,
   contracts |-> grants[who].contracts, draft |-> grants[who].draft,
   clients |-> process.clients]

TargetOf(p) == [installation |-> p.installation, version |-> p.version]
Target == TargetOf(process)

OperationVisible(step, context) ==
  /\ step.op \in process.tools
  /\ IsDraft(step) => Catalog[step.op].scope \in context.scopes
  /\ Actions(step) \subseteq context.caps

MeetsRequirement(step, context) ==
  step.needs = "none" \/ step.needs \in context.caps \cup context.scopes

ContractAllowed(step, context) ==
  step.contract = "none" \/ step.contract \in context.contracts

ClientsAllowed(step, context) == Referenced(step) \subseteq context.clients

-----------------------------------------------------------------------------
(* Capability evidence (governance/capabilityEvidence.ts).                   *)

(* listCapabilityEvidence and getCapabilityEvidence forget what has expired. *)
Live(store, t) ==
  [key \in {k \in DOMAIN store : store[k].expires > t} |-> store[key]]

Listed(t) ==
  LET live == Live(evidence, t)
  IN [key \in {k \in DOMAIN live : k.target = Target} |-> live[key]]

EvidenceKey(step, action) == [target |-> Target, action |-> action, shape |-> step.client]

About(listed, action) == {k \in DOMAIN listed : k.action = action}

(* liveEvidenceFor: of several probes of one action the worst status counts. *)
Supported(listed, action) ==
  /\ About(listed, action) # {}
  /\ \A k \in About(listed, action) : listed[k].status = "supported"

-----------------------------------------------------------------------------
(* Compilation (planning/compiler.ts, planning/validator.ts). Schemas and    *)
(* parameters are checked alike at every boundary and left out here.         *)

ModeAllows(mode, effect) ==
  CASE mode = "analyse" -> effect = "pure"
    [] mode = "read_only" -> effect \in {"pure", "read"}
    [] mode = "draft_only" -> TRUE

(* validateGraph: dependencies point backwards. *)
Ordered(candidate) ==
  \A i \in DOMAIN candidate.steps : candidate.steps[i].after \subseteq 1..(i - 1)

StepValid(step, mode, context) ==
  /\ step.op \in DOMAIN Catalog
  /\ step.expected = Effect(step)
  /\ ModeAllows(mode, Effect(step))
  /\ Catalog[step.op].fanOut <= MaxFanOut
  /\ Actions(step) \subseteq context.caps
  /\ ContractAllowed(step, context)
  /\ MeetsRequirement(step, context)
  /\ IsDraft(step) => Catalog[step.op].scope \in context.scopes /\ context.draft
  /\ ClientsAllowed(step, context)

PlanCalls(candidate) ==
  FoldSeq(LAMBDA step, sum : sum + Catalog[step.op].calls, 0, candidate.steps)

(* validateCandidatePlan but for the evidence. *)
Acceptable(candidate, context) ==
  /\ candidate.version = process.version
  /\ Ordered(candidate)
  /\ \A step \in Steps(candidate) : StepValid(step, candidate.mode, context)
  /\ PlanCalls(candidate) <= MaxPlanCalls

Proven(candidate, listed) ==
  \A step \in Steps(candidate) : \A action \in Actions(step) : Supported(listed, action)

Needed(candidate) == UNION {Actions(step) : step \in Steps(candidate)}

(* The first evidence found for each action counts; which one that is depends *)
(* on a hash of the probe.                                                    *)
Expiries(candidate, listed, t, ttl) ==
  LET cap == IF ttl < MaxPlanTtl THEN ttl ELSE MaxPlanTtl
      choices == {found \in [Needed(candidate) -> DOMAIN listed] :
                    \A a \in Needed(candidate) : found[a].action = a}
  IN {Min({t + cap} \cup {listed[found[a]].expires : a \in DOMAIN found}) : found \in choices}

(* compileOperationPlan: the plan binds the evidence target and the grants.  *)
Compiled(candidate, context, listed, t, ttl) ==
  IF Acceptable(candidate, context) /\ Proven(candidate, listed)
    THEN {[candidate |-> candidate, expires |-> expires, target |-> Target, policy |-> context]
            : expires \in Expiries(candidate, listed, t, ttl)}
    ELSE {}

(* The caller keeps the plan it has or takes the new one. *)
Hold(made) == plans' \in {plans} \cup {{plan} : plan \in made}

(* compile_operation_plan. *)
Compile(who, candidate, ttl) ==
  /\ drafting = {} /\ grants[who].known
  /\ LET made == Compiled(candidate, Context(who), Listed(tick), tick, ttl)
     IN Hold(made)
  /\ evidence' = Live(evidence, tick)
  /\ UNCHANGED <<around, preflight, outcome>>

-----------------------------------------------------------------------------
(* Preflight.                                                                *)

(* verifyCompiledPlan with the provenance. *)
Verified(plan, context) ==
  /\ plan.target = Target
  /\ plan.expires > tick
  /\ plan.policy = context

(* currentPlanContextIssues finds none. *)
StillGranted(plan, context) ==
  \A step \in Steps(plan.candidate) :
    /\ OperationVisible(step, context)
    /\ ContractAllowed(step, context)
    /\ MeetsRequirement(step, context)
    /\ ClientsAllowed(step, context)

(* runSafePreflightStep, one probe per action of an eligible read; the steps *)
(* take turns as the candidate orders them.                                  *)
Probes(candidate, context) ==
  LET eligible == {i \in DOMAIN candidate.steps :
        LET step == candidate.steps[i]
        IN step.op \in Probeable /\ Effect(step) = "read"
           /\ step.client # "slot" /\ OperationVisible(step, context)}
  IN UNION {{[turn |-> i, key |-> EvidenceKey(candidate.steps[i], a)]
               : a \in Actions(candidate.steps[i])} : i \in eligible}

NoPreflight == [at |-> "idle"]

Await(x, candidate, context, answers) ==
  preflight' = [preflight EXCEPT ![x] =
    [at |-> "probing", candidate |-> candidate, context |-> context, since |-> tick,
     todo |-> Probes(candidate, context), answers |-> answers,
     aborted |-> FALSE, served |-> "none"]]

(* preflight_operation_plan of a candidate; Date.now is read here, once. *)
PreflightCandidate(x, who, candidate) ==
  /\ drafting = {} /\ preflight[x].at = "idle" /\ grants[who].known
  /\ Acceptable(candidate, Context(who))
  /\ Await(x, candidate, Context(who), TRUE)
  /\ evidence' = Live(evidence, tick)
  /\ UNCHANGED <<around, plans, outcome>>

(* preflight_operation_plan of a plan. *)
PreflightPlan(x, who, plan) ==
  /\ drafting = {} /\ preflight[x].at = "idle" /\ grants[who].known
  /\ Verified(plan, Context(who)) /\ StillGranted(plan, Context(who))
  /\ Await(x, plan.candidate, Context(who), FALSE)
  /\ UNCHANGED <<around, evidence, plans, outcome>>

(* Evidence is dated from the start of the call, not from the answer. *)
ObservedAtAnswer(x) == tick
ObservedAt(x) == preflight[x].since

NextTurn(x) ==
  CHOOSE p \in preflight[x].todo : \A q \in preflight[x].todo : p.turn <= q.turn

ProbeKey(x) == NextTurn(x).key

NextProbe(x) ==
  preflight' = [preflight EXCEPT ![x].todo = @ \ {NextTurn(x)}, ![x].at = "probing",
                                 ![x].served = "none"]

(* probeCapability finds live evidence of this very probe, or sends a read.   *)
Probe(x) ==
  /\ drafting = {} /\ preflight[x].at = "probing"
  /\ preflight[x].todo # {} /\ ~preflight[x].aborted
  /\ \/ /\ ProbeKey(x) \in DOMAIN Live(evidence, preflight[x].since)
        /\ NextProbe(x)
        /\ UNCHANGED evidence
     \/ /\ ProbeKey(x) \notin DOMAIN Live(evidence, preflight[x].since)
        /\ evidence' = Live(evidence, preflight[x].since)
        /\ preflight' = [preflight EXCEPT ![x].at = "reading"]
  /\ UNCHANGED <<around, plans, outcome>>

Grant(x) ==
  /\ preflight' = [preflight EXCEPT ![x].served = "supported"]
  /\ UNCHANGED <<around, evidence, plans, drafting, draftScopes>>

(* WHMCS serves the read, and the answer is on its way. *)
ServeProbe(x) ==
  /\ preflight[x].at = "reading" /\ preflight[x].served = "none"
  /\ \/ /\ ProbeKey(x).action \in permitted
        /\ Grant(x)
        /\ provenAt' = [provenAt EXCEPT ![ProbeKey(x).target][ProbeKey(x).action] = tick]
     \/ /\ ProbeKey(x).action \notin permitted
        /\ preflight' = [preflight EXCEPT ![x].served = "not_authorized"]
        /\ UNCHANGED <<around, evidence, plans, outcome>>

(* The reader that runSafePreflightStep hands to probeCapability drops the   *)
(* bypassCache and bypassCoalescing it is called with: a shared read may be  *)
(* answered with what WHMCS served before it forbade the action.             *)
ShareProbe(x) ==
  LET key == ProbeKey(x)
      granted == revokedAt[key.action]
  IN /\ preflight[x].at = "reading" /\ preflight[x].served = "none"
     /\ key.action \in SharedReads \ permitted
     /\ granted > 0 /\ tick <= granted + AnswerLag
     /\ Grant(x)
     /\ provenAt' = [provenAt EXCEPT ![key.target][key.action] =
                      IF granted > @ THEN granted ELSE @]

Record(x, status) ==
  evidence' = [key \in DOMAIN evidence \cup {ProbeKey(x)} |->
                 IF key = ProbeKey(x)
                   THEN [status |-> status, expires |-> ObservedAt(x) + EvidenceTtl]
                   ELSE evidence[key]]

(* An answer, also one that came before the call was cancelled, a refusal or a
   transport error. *)
ProbeAnswered(x) ==
  /\ drafting = {} /\ preflight[x].at = "reading"
  /\ \/ preflight[x].served = "supported" /\ Record(x, "supported")
     \/ /\ ~preflight[x].aborted
        /\ \E status \in {preflight[x].served, "degraded"} \ {"none", "supported"} :
             Record(x, status)
  /\ NextProbe(x)
  /\ UNCHANGED <<around, plans, outcome>>

(* A cancelled read throws: nothing is recorded. *)
ProbeCancelled(x) ==
  /\ drafting = {} /\ preflight[x].at = "reading" /\ preflight[x].aborted
  /\ NextProbe(x)
  /\ UNCHANGED <<around, evidence, plans, outcome>>

(* After the last probe an abort changes nothing any more. *)
AbortPreflight(x) ==
  /\ preflight[x].at # "idle" /\ preflight[x].todo # {} /\ ~preflight[x].aborted
  /\ preflight' = [preflight EXCEPT ![x].aborted = TRUE]
  /\ UNCHANGED <<around, evidence, plans, outcome>>

(* A candidate is compiled again, cancelled or not, in the context and at the *)
(* time of its start.                                                         *)
PreflightEnds(x) ==
  /\ drafting = {} /\ preflight[x].at = "probing"
  /\ preflight[x].todo = {} \/ preflight[x].aborted
  /\ LET call == preflight[x]
         made == IF call.answers
                   THEN Compiled(call.candidate, call.context, Listed(call.since),
                                 call.since, PreflightTtl)
                   ELSE {}
     IN /\ Hold(made)
        /\ evidence' = IF call.answers THEN Live(evidence, call.since) ELSE evidence
  /\ preflight' = [preflight EXCEPT ![x] = NoPreflight]
  /\ UNCHANGED <<around, outcome>>

-----------------------------------------------------------------------------
(* Drafting. The handler does not await, but the registry may be reloaded   *)
(* between two drafts of it.                                                *)

DraftSteps(plan) == SelectSeq(plan.candidate.steps, IsDraft)

(* draft_operation_plan: any blocker, a slot left open among them, and nothing
   is drafted. *)
BeginDrafts(who, plan) ==
  /\ drafting = {} /\ grants[who].known /\ grants[who].draft
  /\ Verified(plan, Context(who)) /\ StillGranted(plan, Context(who))
  /\ plan.candidate.mode = "draft_only"
  /\ \A step \in Steps(plan.candidate) : IsDraft(step) => step.client # "slot"
  /\ DraftSteps(plan) # <<>>
  /\ drafting' = {[who |-> who, plan |-> plan, todo |-> DraftSteps(plan), at |-> tick]}
  /\ UNCHANGED <<around, evidence, plans, preflight, draftScopes, provenAt>>

(* draftWorkflowIntent resolves the consumer and its scope again; the first
   denial ends the call. *)
DraftNext ==
  \E d \in drafting :
    LET entry == Head(d.todo)
        granted == /\ grants[d.who].known /\ grants[d.who].draft
                   /\ Catalog[entry.op].scope \in grants[d.who].scopes
        scope == IF granted THEN {Catalog[entry.op].scope} ELSE {}
    IN /\ draftScopes' = draftScopes \cup scope
       /\ \/ drafting' = {}
          \/ /\ granted /\ Len(d.todo) > 1
             /\ drafting' = {[d EXCEPT !.todo = Tail(@)]}
  /\ UNCHANGED <<around, evidence, plans, preflight, provenAt>>

-----------------------------------------------------------------------------
(* Around the planner.                                                      *)

Upheaval == upheavals < MaxUpheavals /\ upheavals' = upheavals + 1

EditGrants(who) ==
  /\ Upheaval
  /\ \E g \in GrantSets \ {grants[who]} : grants' = [grants EXCEPT ![who] = g]
  /\ UNCHANGED <<process, tick, permitted, revokedAt, evidence, plans, preflight, outcome>>

KnownActions == UNION {Catalog[op].actions : op \in DOMAIN Catalog}

PermissionsChange ==
  /\ Upheaval
  /\ permitted' \in (SUBSET KnownActions) \ {permitted}
  /\ revokedAt' = [a \in KnownActions |-> IF a \in permitted \ permitted' THEN tick
                                                                    ELSE revokedAt[a]]
  /\ UNCHANGED <<process, tick, grants, evidence, plans, preflight, outcome>>

(* A process starts with no evidence and no answers to share; plans are kept
   by those who hold them. *)
ProcessRestarts ==
  /\ Upheaval
  /\ process' \in Processes
  /\ evidence' = <<>> /\ drafting' = {}
  /\ revokedAt' = [a \in KnownActions |-> 0]
  /\ preflight' = [x \in Preflights |-> NoPreflight]
  /\ UNCHANGED <<tick, grants, permitted, plans, draftScopes, provenAt>>

TickPasses ==
  /\ tick < MaxTick /\ tick' = tick + 1
  /\ UNCHANGED <<process, grants, permitted, revokedAt, upheavals, evidence, plans, preflight,
                 outcome>>

PlanningStart ==
  /\ tick = 1 /\ permitted = KnownActions /\ upheavals = 0
  /\ revokedAt = [a \in KnownActions |-> 0]
  /\ evidence = <<>> /\ plans = {} /\ drafting = {} /\ draftScopes = {}
  /\ preflight = [x \in Preflights |-> NoPreflight]
  /\ provenAt = [target \in {TargetOf(p) : p \in Processes} |-> [a \in KnownActions |-> 0]]

PlanningInit ==
  /\ process \in Processes
  /\ grants \in [Planners -> GrantSets]
  /\ PlanningStart

PlanningNext ==
  \/ \E who \in Planners :
       \/ \E candidate \in Candidates :
            \/ \E ttl \in PlanTtls : Compile(who, candidate, ttl)
            \/ \E x \in Preflights : PreflightCandidate(x, who, candidate)
       \/ \E plan \in plans :
            \/ \E x \in Preflights : PreflightPlan(x, who, plan)
            \/ BeginDrafts(who, plan)
       \/ EditGrants(who)
  \/ \E x \in Preflights :
       \/ Probe(x) \/ ServeProbe(x) \/ ShareProbe(x) \/ ProbeAnswered(x) \/ ProbeCancelled(x)
       \/ AbortPreflight(x) \/ PreflightEnds(x)
  \/ DraftNext \/ PermissionsChange \/ ProcessRestarts \/ TickPasses

PlanningSpec == PlanningInit /\ [][PlanningNext]_planningVars

-----------------------------------------------------------------------------
Slack(action) == IF action \in SharedReads THEN AnswerLag ELSE 0

(* DraftsBacked: whatever is drafted from a plan, WHMCS itself granted every *)
(* action the plan relies on less than one evidence lifetime before the plan *)
(* was presented, and granted it to the installation and the catalog that    *)
(* draft: across slow and cancelled probes, plans kept over a restart,       *)
(* several preflights that share evidence, and ttl_ms however long. For an   *)
(* action whose reads are shared, an answer's greatest age is added.         *)
DraftsBacked ==
  [][\A d \in drafting' \ drafting : \A action \in Needed(d.plan.candidate) :
       /\ provenAt[Target][action] > 0
       /\ d.at < provenAt[Target][action] + EvidenceTtl + Slack(action)]_planningVars
=============================================================================
