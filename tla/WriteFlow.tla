----------------------------- MODULE WriteFlow -----------------------------
(***************************************************************************)
(* The governed single-call write path of src/tools/writeFlow.ts: draft,   *)
(* validate, approve, execute and the one-call `write` tool, over the      *)
(* intent store, the idempotency ledger, the audit log, the approvals map  *)
(* and the daily tally.                                                    *)
(*                                                                         *)
(* The process is one Node event loop.  A handler runs without            *)
(* interruption from one await to the next, so every action below is one   *)
(* such run of a handler; a handler suspended at an await is a member of   *)
(* Calls with its place in `call`.  A crash may strike anywhere, also      *)
(* inside a run: CrashInCommit splits the one run whose durable writes     *)
(* could be left half done in a way that matters.                          *)
(***************************************************************************)
EXTENDS Naturals, FiniteSets, FiniteSetsExt, Functions

CONSTANTS
  Intents,          \* the drafts callers may make, one uuid each
  Calls,            \* tool invocations that may be suspended at once
  Consumers,        \* registered consumers
  Scopes,           \* write scopes
  Targets,          \* natural keys a caller may state
  Request,          \* what each intent asks for: drafter, scope, target, amount
  Risk,             \* SCOPE_RISK
  Action,           \* SCOPE_ACTION: the WHMCS action behind each scope
  Prechecked,       \* scopes with a read before the mutation (service:domain_rename)
  Destructive,      \* DESTRUCTIVE_WRITE_SCOPES: gated by a typed phrase alone
  Confirmed,        \* the intents drafted with the configured phrase
  Blocked,          \* scopes never executable, and not opted into either
  StrictScopes,     \* MCP_WRITE_STRICT_SCOPES
  Executors,        \* consumers whose writeCapability is execution_allowed
  Approvers,        \* consumers whose writeCapability permits approval
  DistinctApprover, \* MCP_WRITE_REQUIRE_DISTINCT_APPROVER
  Elicitation,      \* does the client advertise elicitation?
  PerActionCap, DailyCap,                   \* MCP_PROD_HIGH_RISK_*_CAP
  StoreDurable, LedgerDurable, TallyDurable, \* is there a file, written without error?
  Window,           \* the dedupe window, in ticks
  TTL,              \* the life of an intent, in ticks
  DayLength,        \* ticks in a UTC day
  Edited,           \* bound: the scopes operators grant or revoke meanwhile
  MaxTime, MaxCrashes, \* bounds on the clock and on the crashes
  NoOne             \* nobody: no approval on record, no intent in hand

ConfigAssumption ==
  /\ Request \in [Intents -> [drafter : Consumers, scope : Scopes,
                              target : Targets, amount : Nat]]
  /\ Risk \in [Scopes -> {"low", "medium", "high"}]
  /\ DOMAIN Action = Scopes
  /\ Prechecked \subseteq Scopes
  /\ \A s \in Prechecked : Risk[s] # "high"
  /\ \A s \in Destructive, t \in Scopes \ Destructive : Action[s] # Action[t]
  /\ Edited \subseteq Scopes
  /\ Approvers \subseteq Consumers
  /\ NoOne \notin Consumers \cup Intents
  /\ {DistinctApprover, Elicitation, StoreDurable, LedgerDurable, TallyDurable}
        \subseteq BOOLEAN
  /\ {PerActionCap, DailyCap, MaxTime, MaxCrashes} \subseteq Nat
  /\ {Window, TTL, DayLength} \subseteq Nat \ {0}
  /\ IsFiniteSet(Intents) /\ IsFiniteSet(Calls) /\ Calls # {}

ASSUME ConfigAssumption

VARIABLES
  now,       \* the clock, in ticks
  st,        \* the state of each intent in the store
  created,   \* when each intent was drafted
  approver,  \* the approvals map: the consumer that approved, process-local
  grants,    \* scopes the consumer registry file grants now
  allow,     \* scopes the production allowlist file authorizes now
  ledger,    \* the idempotency ledger: keys with their expiry
  journal,   \* intents with a durable "attempting" audit event
  tally,     \* today's executed high-risk amount per WHMCS action
  call,      \* where each suspended invocation stands
  crashes,   \* crashes so far
  sent,      \* history: dispatches to WHMCS per intent
  sentAt,    \* history: when the intent was last dispatched
  paidOn     \* history: 1 + the day the dispatch was reported done, 0 if never

vars == <<now, st, created, approver, grants, allow, ledger, journal, tally,
          call, crashes, sent, sentAt, paidOn>>

stored  == <<created, approver>>
policy  == <<grants, allow>>
effects == <<ledger, journal, sent, sentAt>>
money   == <<tally, paidOn>>

-----------------------------------------------------------------------------
Actions == {Action[s] : s \in Scopes}

ActionOf(i) == Action[Request[i].scope]

(* The intent state machine of src/write/intents.ts.                       *)

WriteIntentState == {"draft", "validated", "rejected", "approved",
                     "execution_blocked", "executed", "verified", "failed"}

(* An id is "undrafted" before store.put and "gone" once pruned or lost.   *)
StoreState == WriteIntentState \cup {"undrafted", "gone"}

TRANSITIONS ==
  {<<"draft", "validated">>, <<"draft", "rejected">>,
   <<"validated", "approved">>, <<"validated", "rejected">>,
   <<"approved", "execution_blocked">>, <<"approved", "executed">>,
   <<"executed", "verified">>, <<"executed", "failed">>}

InStore(i) == st[i] \in WriteIntentState

\* Variant with a defect: a move to the state already reached is accepted.
CanMoveOrStay(s, i, target) == s[i] = target \/ <<s[i], target>> \in TRANSITIONS

CanMove(s, i, target) == <<s[i], target>> \in TRANSITIONS

\* Variant with a defect: the transition table is not consulted.
MovedUnchecked(s, i, target) ==
  IF s[i] \in WriteIntentState THEN [s EXCEPT ![i] = target] ELSE s

(* store.transition: an illegal move or an unknown id throws, and the      *)
(* handler ends there with the store as it was.                            *)
Moved(s, i, target) ==
  IF CanMove(s, i, target) THEN [s EXCEPT ![i] = target] ELSE s

-----------------------------------------------------------------------------
(* The idempotency ledger of src/write/idempotency.ts.                     *)

Key(i) == <<Request[i].drafter, Request[i].scope, Request[i].target,
            created[i] \div Window>>

Seen(i) == \E e \in ledger : e.key = Key(i) /\ e.expires > now

\* Variant with a defect: the entry lives to the end of the draft's window bucket.
RecordedToBucketEnd(i) ==
  {e \in ledger : e.key # Key(i)}
    \cup {[key |-> Key(i), expires |-> (created[i] \div Window + 1) * Window]}

\* Variant with a defect: the entry lives for two windows.
RecordedTwoWindows(i) ==
  {e \in ledger : e.key # Key(i)}
    \cup {[key |-> Key(i), expires |-> now + 2 * Window]}

(* record: sets the key's entry and (re)starts its window.                 *)
Recorded(i) ==
  {e \in ledger : e.key # Key(i)}
    \cup {[key |-> Key(i), expires |-> now + Window]}

\* Variant with a defect: the attempt is written best effort, as other events are.
AppendBestEffort(i) == journal' \in {journal, journal \cup {i}}

(* audit.appendDurable, when it does not throw.                            *)
AppendDurable(i) == journal' = journal \cup {i}

-----------------------------------------------------------------------------
(* The risk-tiered gate of src/write/executionGate.ts for an approved      *)
(* intent, with the process's static configuration as constants.           *)

High(i) == Risk[Request[i].scope] = "high"

Destroys(i) == Request[i].scope \in Destructive

AllowlistRequired(i) ==
  ~Destroys(i) /\ (High(i) \/ Request[i].scope \in StrictScopes)

PreAuthorized(i) ==
  /\ Request[i].drafter \in Executors
  /\ ~Seen(i)
  /\ Request[i].scope \notin Blocked
  /\ Destroys(i) => i \in Confirmed
  /\ AllowlistRequired(i) => Request[i].scope \in allow

\* Variant with a defect: the daily total is not consulted.
WithinPerActionCap(i) ==
  0 < Request[i].amount /\ Request[i].amount <= PerActionCap

WithinCaps(i) ==
  /\ 0 < Request[i].amount
  /\ Request[i].amount <= PerActionCap
  /\ tally[ActionOf(i)] + Request[i].amount <= DailyCap

\* Variant with a defect: any approval counts, the drafter's own included.
AuthorizedByAnyone(i) ==
  PreAuthorized(i) /\ (High(i) => approver[i] # NoOne /\ WithinCaps(i))

Authorized(i) ==
  /\ PreAuthorized(i)
  /\ High(i) /\ ~Destroys(i) =>
        /\ approver[i] # NoOne
        /\ approver[i] # Request[i].drafter
        /\ WithinCaps(i)
  /\ ~High(i) /\ ~Destroys(i) /\ DistinctApprover
        => approver[i] # Request[i].drafter

-----------------------------------------------------------------------------
(* Suspended invocations.                                                  *)

Pc == {"idle", "validating", "write_validating", "eliciting", "prechecking",
       "mutating", "verifying"}

Idle == [pc |-> "idle", intent |-> NoOne]

Suspended == [pc : Pc \ {"idle"}, intent : Intents]

At(c, pc) == call[c].pc = pc

Suspend(c, pc, i) == call' = [call EXCEPT ![c] = [pc |-> pc, intent |-> i]]

Return(c) == call' = [call EXCEPT ![c] = Idle]

-----------------------------------------------------------------------------
(* The execute path, run on the store s the handler has reached.           *)

(* appendDurable throws: the write is refused.                             *)
RefuseUnaudited(c, i, s) ==
  /\ st' = Moved(s, i, "execution_blocked")
  /\ Return(c)
  /\ UNCHANGED effects

(* Another invocation executed the intent meanwhile: the transition throws.*)
Overtaken(c, i, s) ==
  /\ ~CanMove(s, i, "executed")
  /\ st' = s
  /\ Return(c)
  /\ UNCHANGED <<sent, sentAt>>

(* The parameter mapper or an output assertion throws before the call.     *)
MapperThrows(c, i, s) ==
  /\ CanMove(s, i, "executed")
  /\ st' = [s EXCEPT ![i] = "failed"]
  /\ Return(c)
  /\ UNCHANGED <<sent, sentAt>>

Mutate(c, i, s) ==
  /\ CanMove(s, i, "executed")
  /\ st' = [s EXCEPT ![i] = "executed"]
  /\ sent' = [sent EXCEPT ![i] = @ + 1]
  /\ sentAt' = [sentAt EXCEPT ![i] = now]
  /\ Suspend(c, "mutating", i)

(* From the durable audit event to the handing over of the WHMCS call.     *)
Commit(c, i, s) ==
  \/ RefuseUnaudited(c, i, s)
  \/ /\ AppendDurable(i)
     /\ ledger' = Recorded(i)
     /\ Overtaken(c, i, s) \/ MapperThrows(c, i, s) \/ Mutate(c, i, s)

(* intent_not_approved: the denial is returned in place.                   *)
NotApproved(c, i, s) ==
  /\ s[i] # "approved"
  /\ st' = s
  /\ Return(c)
  /\ UNCHANGED effects

Allowed(i) == Request[i].scope \in grants /\ Authorized(i)

(* The scope was revoked since it was drafted, or the gate denies.         *)
Denied(c, i, s) ==
  /\ s[i] = "approved"
  /\ ~Allowed(i)
  /\ st' = Moved(s, i, "execution_blocked")
  /\ Return(c)
  /\ UNCHANGED effects

(* executeRun, up to its first await.                                      *)
ExecuteRun(c, i, s) ==
  \/ NotApproved(c, i, s)
  \/ Denied(c, i, s)
  \/ /\ s[i] = "approved"
     /\ Allowed(i)
     /\ IF Request[i].scope \in Prechecked
        THEN /\ st' = s
             /\ Suspend(c, "prechecking", i)
             /\ UNCHANGED effects
        ELSE Commit(c, i, s)

-----------------------------------------------------------------------------
(* The tools.                                                              *)

Draft(i) ==
  /\ st[i] = "undrafted"
  /\ Request[i].scope \in grants
  /\ st' = [st EXCEPT ![i] = "draft"]
  /\ created' = [created EXCEPT ![i] = now]
  /\ UNCHANGED <<now, approver, policy, effects, money, call, crashes>>

BeginValidate(c, i) ==
  /\ At(c, "idle")
  /\ InStore(i)
  /\ Suspend(c, "validating", i)
  /\ UNCHANGED <<now, st, stored, policy, effects, money, crashes>>

EndValidate(c, ok) ==
  LET i == call[c].intent IN
  /\ At(c, "validating")
  /\ st' = Moved(st, i, IF ok THEN "validated" ELSE "rejected")
  /\ Return(c)
  /\ UNCHANGED <<now, stored, policy, effects, money, crashes>>

Approve(i, who, yes) ==
  /\ Request[i].scope \in grants
  /\ st[i] = "validated"
  /\ st' = [st EXCEPT ![i] = IF yes THEN "approved" ELSE "rejected"]
  /\ approver' = [approver EXCEPT ![i] = IF yes THEN who ELSE NoOne]
  /\ UNCHANGED <<now, created, policy, effects, money, call, crashes>>

Execute(c, i) ==
  /\ At(c, "idle")
  /\ InStore(i)
  /\ ExecuteRun(c, i, st)
  /\ UNCHANGED <<now, stored, policy, money, crashes>>

(* precheckDomainRename answers: the gate is not asked again.              *)
EndPrecheck(c, ok) ==
  LET i == call[c].intent IN
  /\ At(c, "prechecking")
  /\ \/ /\ ~ok
        /\ st' = Moved(st, i, "execution_blocked")
        /\ Return(c)
        /\ UNCHANGED effects
     \/ /\ ok
        /\ Commit(c, i, st)
  /\ UNCHANGED <<now, stored, policy, money, crashes>>

(* The one-call `write` tool drafts, then awaits the validation context.   *)
BeginWrite(c, i) ==
  /\ At(c, "idle")
  /\ st[i] = "undrafted"
  /\ Request[i].scope \in grants
  /\ st' = [st EXCEPT ![i] = "draft"]
  /\ created' = [created EXCEPT ![i] = now]
  /\ Suspend(c, "write_validating", i)
  /\ UNCHANGED <<now, approver, policy, effects, money, crashes>>

(* High-risk scopes, and consumers that may not execute, stop here.        *)
OneCall(i) == ~High(i) /\ Request[i].drafter \in Executors

MustConfirm(i) == Risk[Request[i].scope] = "medium" /\ Elicitation

WriteValidated(c, ok) ==
  LET i == call[c].intent
      target == IF ok THEN "validated" ELSE "rejected"
      auto == ok /\ OneCall(i) /\ CanMove(st, i, target)
  IN
  /\ At(c, "write_validating")
  /\ \/ /\ ~auto
        /\ st' = Moved(st, i, target)
        /\ Return(c)
        /\ UNCHANGED effects
     \/ /\ auto
        /\ MustConfirm(i)
        /\ st' = [st EXCEPT ![i] = "validated"]
        /\ Suspend(c, "eliciting", i)
        /\ UNCHANGED effects
     \/ /\ auto
        /\ ~MustConfirm(i)
        /\ ExecuteRun(c, i, [st EXCEPT ![i] = "approved"])
  /\ UNCHANGED <<now, stored, policy, money, crashes>>

(* The client confirms (or its elicitation errors), or it declines.        *)
EndElicitation(c, proceed) ==
  LET i == call[c].intent
      auto == proceed /\ CanMove(st, i, "approved")
  IN
  /\ At(c, "eliciting")
  /\ \/ /\ ~auto
        /\ st' = IF proceed THEN st ELSE Moved(st, i, "rejected")
        /\ Return(c)
        /\ UNCHANGED effects
     \/ /\ auto
        /\ ExecuteRun(c, i, [st EXCEPT ![i] = "approved"])
  /\ UNCHANGED <<now, stored, policy, money, crashes>>

Day(t) == t \div DayLength

(* WHMCS reports success: tally the amount, then read back.                *)
MutateSucceeds(c) ==
  LET i == call[c].intent IN
  /\ At(c, "mutating")
  /\ tally' = IF High(i)
              THEN [tally EXCEPT ![ActionOf(i)] = @ + Request[i].amount]
              ELSE tally
  /\ paidOn' = [paidOn EXCEPT ![i] = 1 + Day(now)]
  /\ Suspend(c, "verifying", i)
  /\ UNCHANGED <<now, st, stored, policy, effects, crashes>>

(* WHMCS answers with an error, or the outcome is unknown.                 *)
MutateFails(c) ==
  /\ At(c, "mutating")
  /\ st' = Moved(st, call[c].intent, "failed")
  /\ Return(c)
  /\ UNCHANGED <<now, stored, policy, effects, money, crashes>>

\* Variant with a defect: a read-back mismatch is reported as a failed write.
EndVerifyOrFail(c, ok) ==
  /\ At(c, "verifying")
  /\ st' = Moved(st, call[c].intent, IF ok THEN "verified" ELSE "failed")
  /\ Return(c)
  /\ UNCHANGED <<now, stored, policy, effects, money, crashes>>

EndVerify(c, ok) ==
  /\ At(c, "verifying")
  /\ st' = IF ok THEN Moved(st, call[c].intent, "verified") ELSE st
  /\ Return(c)
  /\ UNCHANGED <<now, stored, policy, effects, money, crashes>>

-----------------------------------------------------------------------------
(* The surroundings: expiry, operators, time and crashes.                  *)

(* IntentStore.prune, run by every list of intents.                        *)
Prune ==
  LET expired == {i \in Intents : InStore(i) /\ created[i] + TTL <= now} IN
  /\ expired # {}
  /\ st' = [i \in Intents |-> IF i \in expired THEN "gone" ELSE st[i]]
  /\ UNCHANGED <<now, stored, policy, effects, money, call, crashes>>

Toggle(S, x) == IF x \in S THEN S \ {x} ELSE S \cup {x}

(* Operators edit the registry file or the live allowlist file.            *)
EditRegistry(s) ==
  /\ grants' = Toggle(grants, s)
  /\ UNCHANGED <<now, st, stored, allow, effects, money, call, crashes>>

EditAllowlist(s) ==
  /\ allow' = Toggle(allow, s)
  /\ UNCHANGED <<now, st, stored, grants, effects, money, call, crashes>>

(* The daily tally is keyed by the UTC date.                               *)
Tick ==
  /\ now < MaxTime
  /\ now' = now + 1
  /\ tally' = IF Day(now + 1) = Day(now) THEN tally
              ELSE [a \in Actions |-> 0]
  /\ UNCHANGED <<st, stored, policy, effects, paidOn, call, crashes>>

(* What a restarted process finds, if the store file holds s and the       *)
(* ledger file holds l.  A snapshot torn by the crash loads as empty.      *)
Lost(s) == [i \in Intents |-> IF s[i] = "undrafted" THEN s[i] ELSE "gone"]

Restart(s, l) ==
  /\ crashes < MaxCrashes
  /\ crashes' = crashes + 1
  /\ \/ StoreDurable /\ st' = s
     \/ st' = Lost(s)
  /\ ledger' = IF LedgerDurable THEN l ELSE {}
  /\ tally' = IF TallyDurable THEN tally ELSE [a \in Actions |-> 0]
  /\ approver' = [i \in Intents |-> NoOne]
  /\ call' = [c \in Calls |-> Idle]
  /\ UNCHANGED <<now, created, policy, sent, sentAt, paidOn>>

Crash ==
  /\ Restart(st, ledger)
  /\ UNCHANGED journal

(* Is there an invocation whose next run reaches Commit on intent i?       *)
Committing(i) ==
  \/ /\ st[i] = "approved"
     /\ Allowed(i)
  \/ \E c \in Calls : At(c, "prechecking") /\ call[c].intent = i
  \/ \E c \in Calls :
       /\ call[c].intent = i
       /\ OneCall(i) /\ Allowed(i)
       /\ \/ At(c, "write_validating") /\ st[i] = "draft" /\ ~MustConfirm(i)
          \/ At(c, "eliciting") /\ st[i] = "validated"

(* The process dies inside Commit, before the WHMCS call is made: the      *)
(* audit event is durable, the ledger entry and the new snapshot may be.   *)
CrashInCommit(i) ==
  LET s == [st EXCEPT ![i] = IF @ \in {"draft", "validated"}
                             THEN "approved" ELSE @] IN
  /\ Committing(i)
  /\ AppendDurable(i)
  /\ \/ Restart(s, ledger)
     \/ Restart(s, Recorded(i))
     \/ Restart(Moved(s, i, "executed"), Recorded(i))

-----------------------------------------------------------------------------
Init ==
  /\ now = 0
  /\ st = [i \in Intents |-> "undrafted"]
  /\ created = [i \in Intents |-> 0]
  /\ approver = [i \in Intents |-> NoOne]
  /\ grants = Scopes
  /\ allow = Scopes
  /\ ledger = {}
  /\ journal = {}
  /\ tally = [a \in Actions |-> 0]
  /\ call = [c \in Calls |-> Idle]
  /\ crashes = 0
  /\ sent = [i \in Intents |-> 0]
  /\ sentAt = [i \in Intents |-> 0]
  /\ paidOn = [i \in Intents |-> 0]

Next ==
  \/ \E i \in Intents : Draft(i)
  \/ \E c \in Calls, i \in Intents : BeginValidate(c, i)
  \/ \E c \in Calls, ok \in BOOLEAN : EndValidate(c, ok)
  \/ \E i \in Intents, who \in Approvers, yes \in BOOLEAN : Approve(i, who, yes)
  \/ \E c \in Calls, i \in Intents : Execute(c, i)
  \/ \E c \in Calls, ok \in BOOLEAN : EndPrecheck(c, ok)
  \/ \E c \in Calls, i \in Intents : BeginWrite(c, i)
  \/ \E c \in Calls, ok \in BOOLEAN : WriteValidated(c, ok)
  \/ \E c \in Calls, proceed \in BOOLEAN : EndElicitation(c, proceed)
  \/ \E c \in Calls : MutateSucceeds(c)
  \/ \E c \in Calls : MutateFails(c)
  \/ \E c \in Calls, ok \in BOOLEAN : EndVerify(c, ok)
  \/ Prune
  \/ \E s \in Edited : EditRegistry(s)
  \/ \E s \in Edited : EditAllowlist(s)
  \/ Tick
  \/ Crash
  \/ \E i \in Intents : CrashInCommit(i)

Spec == Init /\ [][Next]_vars

-----------------------------------------------------------------------------
(* Properties.                                                             *)

(* Every variable has its type; a ledger entry never outlives one window   *)
(* from now.                                                               *)
TypeOK ==
  /\ now \in Nat
  /\ st \in [Intents -> StoreState]
  /\ created \in [Intents -> Nat]
  /\ approver \in [Intents -> Consumers \cup {NoOne}]
  /\ grants \subseteq Scopes
  /\ allow \subseteq Scopes
  /\ \A e \in ledger : e.expires \in Nat /\ e.expires <= now + Window
  /\ journal \subseteq Intents
  /\ tally \in [Actions -> Nat]
  /\ call \in [Calls -> {Idle} \cup Suspended]
  /\ crashes \in Nat
  /\ sent \in [Intents -> Nat]
  /\ sentAt \in [Intents -> Nat]
  /\ paidOn \in [Intents -> Nat]

(* An intent is handed to WHMCS at most once in its life, whatever         *)
(* executions of it interleave (executeRun suspends in the domain-rename   *)
(* precheck) and wherever the process crashes.                             *)
AtMostOneDispatch == \A i \in Intents : sent[i] <= 1

(* No mutation without a durable "attempting" event, in any crash.         *)
DispatchRecorded == \A i \in Intents : sent[i] > 0 => i \in journal

(* An intent the store shows as not executed, rejected or                  *)
(* execution_blocked was never handed to WHMCS: "attempted: false" is true *)
(* even when another execution of the intent was under way.                *)
UnexecutedMeansUntouched ==
  \A i \in Intents :
    st[i] \in {"undrafted", "draft", "validated", "rejected", "approved",
              "execution_blocked"} => sent[i] = 0

(* A verified intent was accepted by WHMCS, a failed one was not reported  *)
(* as done: the late answers of suspended calls never cross.               *)
OutcomeHonest ==
  \A i \in Intents :
    /\ st[i] = "verified" => paidOn[i] > 0
    /\ st[i] = "failed" => paidOn[i] = 0

SameKeyDispatched(i, j) ==
  i # j /\ Key(i) = Key(j) /\ sent[i] > 0 /\ sent[j] > 0

Apart(a, b) == a + Window <= b \/ b + Window <= a

(* Two drafts of the same request are dispatched a whole dedupe window     *)
(* apart, across restarts when the ledger is durable.  Prechecked scopes   *)
(* are excepted: see ConcurrentAttemptIsReplay.                            *)
NoReplayInWindow ==
  LedgerDurable =>
    \A i, j \in Intents :
      SameKeyDispatched(i, j) /\ Request[i].scope \notin Prechecked
        => Apart(sentAt[i], sentAt[j])

(* At the very step that hands an intent to WHMCS, the caller may execute, *)
(* the scope is not permanently blocked, a destructive intent carries the  *)
(* phrase, and another high-risk one holds an approval of this process's   *)
(* life by another consumer; outside the prechecked scopes the registry    *)
(* and the allowlist authorize the scope at that step, however long an     *)
(* approval or a confirmation took.                                        *)
AuthorizedAtDispatch(i) ==
  LET r == Request[i] IN
  /\ r.drafter \in Executors
  /\ r.scope \notin Blocked
  /\ Destroys(i) => i \in Confirmed
  /\ High(i) /\ ~Destroys(i) => approver[i] \in Approvers \ {r.drafter}
  /\ r.scope \notin Prechecked =>
        /\ r.scope \in grants
        /\ AllowlistRequired(i) => r.scope \in allow

DispatchAuthorized ==
  [][\A i \in Intents : sent'[i] # sent[i] => AuthorizedAtDispatch(i)]_vars

(* What an action moved today as WHMCS reported it, and what is in flight. *)
SpentToday(a) ==
  LET paid == {i \in Intents : High(i) /\ ActionOf(i) = a /\ paidOn[i] = 1 + Day(now)}
  IN SumFunction([i \in paid |-> Request[i].amount])

InFlight(a) ==
  LET flying == {c \in Calls : /\ At(c, "mutating")
                               /\ High(call[c].intent)
                               /\ ActionOf(call[c].intent) = a}
  IN SumFunction([c \in flying |-> Request[call[c].intent].amount])

(* The daily cap can be overshot, as the tally is read before the WHMCS    *)
(* call and written after it, but never by more than the other calls in    *)
(* flight could each carry.  Destructive actions have no cap.              *)
DailySpendBounded ==
  TallyDurable \/ crashes = 0 =>
    \A a \in {Action[s] : s \in Scopes \ Destructive} :
      SpentToday(a) + InFlight(a)
        <= DailyCap + (Cardinality(Calls) - 1) * PerActionCap

(* A rejected, blocked, lost or dispatched intent can never be dispatched. *)
Closed ==
  {i \in Intents : st[i] \notin {"undrafted", "draft", "validated", "approved"}}

(* The write path keeps the promise of WriteOnce.                          *)
Once == INSTANCE WriteOnce WITH closed <- Closed

KeepsPromise == Once!Spec

(* Comment in executeRun: idempotency is recorded before the call "so a    *)
(* concurrent/retry attempt is treated as a replay".                       *)
ConcurrentAttemptIsReplay ==
  LedgerDurable =>
    \A i, j \in Intents :
      SameKeyDispatched(i, j) => Apart(sentAt[i], sentAt[j])

=============================================================================
