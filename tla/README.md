# Verification of the WHMCS MCP server

This directory holds TLA+ models of the server in `src/src/`, the TLC
configurations that check them on small instances, and proofs checked by TLAPS
for every value of the constants. `PROJECT.json` lists the components, the
runs, the correspondence between definitions and source lines ("map"), the
hazards the properties are aimed at, and the theorems. Paths below are relative
to `src/src/` unless they start with `docs/` or `README`.

## 1. The system

The server is one Node process that offers WHMCS (a billing system) to language
model clients over MCP. It has no database of its own: it reads WHMCS through
its HTTP API, and writes to it through a governed path. Handlers run on one
event loop: a handler is atomic between two `await`s, and everything else can
happen at an `await`.

| component | state it keeps | operations | interacts with | hard behaviour | what makes it correct |
|---|---|---|---|---|---|
| Governed writes (`tools/writeFlow.ts`, `write/intents.ts`, `idempotency.ts`, `executionGate.ts`, `audit.ts`, `dayAmountsStore.ts`) | intents and their states, approvals (memory only), ledger of recent keys, daily amounts, audit log; each optionally in a file | `draft`, `validate`, `approve`, `execute`, `write`, `transfer_client_credit`, `list` (prunes) | registry and allowlist files operators edit; WHMCS; the client's elicitation | handlers suspended in validation, confirmation, precheck, mutation, read-back; crash between durable writes; expiry; policy edits | one dispatch per intent, after a durable event, authorized at that moment; no replay within the window; states tell the truth; spending bounded |
| Client credit transfer (`write/creditTransfer.ts`) | transfer records (append-only file), locks per client pair | execute, retry, reverse | WHMCS `AddCredit`, client reads | two mutations without a transaction, wrong or late answers, compensation, promise-chain lock, crash between put and mutation | one debit per request; the record agrees with the credit rows; no loss off the record; calls return |
| Price-restore and service-transfer batches (`tools/writeFlow.ts:881-1388`) | per-target ledger keys, a local running total | two-phase batch | as governed writes | halts half way, retry skips recorded targets | every target at most once; a true total |
| Service ownership transfer (`write/transferCascade.ts`, `whmcs/WhmcsDb.ts`) | none | guarded SQL transaction, read-back | WHMCS database | owner changed meanwhile | all or nothing, only from the expected owner; invoices go along |
| Write parameters (`write/validation.ts`, `write/paramMapping.ts`) | none | validate, map | the gate's amount, WHMCS | forty-nine scopes whose amount has several names and types | what the caps judged is what is sent |
| Read coordination (`whmcs/readCoordinator.ts`) | queues per consumer, cursor, slots, in-flight shared reads | run, abort, deadline, pump | request pipeline | round-robin over a shrinking list; joining and leaving a shared read | no slot lost or idle, a read somebody waits for is not cancelled, queued reads run |
| Read cache (`whmcs/readCache.ts`, `cachePolicy.ts`, `WhmcsClient.ts`) | entries with tags, cache epoch | get, set, invalidate | coordinator, mutations | a read that spans a mutation | a cached value is not older than the last acknowledged mutation |
| Request pipeline and allowlist healing (`whmcs/request/`, `ipAllowlistHeal.ts`) | attempt counters per call; one shared updater run, its cooldown | execute with retries, heal, reconnect | WHMCS, updater script | retries, repairs, deadline and abort compete | a write is posted at most once; bounded attempts; unknown outcomes are reported as unknown |
| HTTP transport (`http/httpServer.ts`, `httpServerV2.ts`) | sessions, last-seen times, exchanges in flight | initialize, request, close, sweep, drain | MCP server factory | cap checked before registration; sweep and eviction against live requests; drain timeout | bounded sessions, honest drain |
| Event receiver (`http/eventReceiver.ts`) | seen event ids | verify, deduplicate, forward | WHMCS, notifier | redelivery, failed forward, lazy sweep | repeats are dropped for a window, and not much longer |
| Rate limiter and legacy tools (`rateLimiter.ts`, `tools/billing.ts`, `orders.ts`, `clients.ts`, `domains.ts`, `support.ts`) | token bucket, result cache | tryConsume, lookup, store | WHMCS | lookup and store around an awaited mutation; a clock that steps back | a matter is settled once; admission is bounded |
| Read tools, workflows, lists (`tools/aggregators.ts`, `workflows.ts`, `listTools.ts`, `reportingListTools.ts`) | none | compose reads, draft, page | WHMCS, governed writes | reads that fail or fill a page; lists that change between pages | what is missing is explained; what matches is drafted or accounted for |
| Governance (`governance/`) | cached registry | resolve, check, project | registry file | cache against edits | a revocation takes effect within the cache's lifetime |
| Planning (`planning/`, `tools/planning.ts`, `governance/capabilityEvidence.ts`) | evidence; plans are the callers' | compile, verify, preflight, draft | WHMCS probes, governed writes | slow probes, plans kept over restarts and edits | drafts rest on live evidence |
| Staff jobs (`tools/opsAsk.ts`, `jobs/opsAsk.ts`, `identity/resolvePrincipal.ts`) | none | ask: deny, link, resolve a client, read its sections | WHMCS, version profile | a lookup that fails is replaced by a search that sees less | a job is about the client that was asked for; missing rows are explained |
| Version profile (`whmcs/versionProfile.ts`) | one cached profile | get, with a probe of three reads | WHMCS; validation of drafts, plans, jobs | overlapping probes across an upgrade | an answer is no older than one lifetime |
| Authentication, MCP surface, audits, logging, entry | configuration | per request | all | none that interleaves | outside the models |

Every component, with its files and its status, is in `PROJECT.json`.

## 2. Plan

Modules, most important behaviour first. `*` marks what is done.

1. `*` `WriteFlow`: the single-call governed write path; `*` `WriteOnce`, what it
   promises; `*` `WriteFlowProofs`, for both.
2. `*` `CreditTransfer`; `*` `TransferOnce`, what it promises; `*`
   `CreditTransferProofs`, for both; `*` `TransferIntents`, the governed side around it.
3. `*` `ReadCoordinator` (slots, lanes, coalescing, aborts); `*` `RequestPipeline`
   (attempts, repairs, deadline, single-flight healing) and `*` `WhmcsClient`, which
   extends it by cache, epochs and coalescing.
4. `*` `PriceRestore` and `*` `OwnerTransfer`: the two batches.
5. `*` `HttpSessions`, `*` `EventReceiver`, `*` `LegacyTools`.
6. `*` `IntentParams`: validation, the judged amount and the mappers.
7. `*` `SectionReads`, `Aggregators`, `Workflows`, `Paging`: reads composed to answers.
8. `*` `Governance`, `*` `Planning`; `*` `StaffJobs`, `*` `VersionProfile`.
9. Proofs for 3-8: `*` `PipelineProofs` (`RequestPipeline`, `WhmcsClient`), `*`
   `GatewayProofs` (`HttpSessions`, `ReadCoordinator`), `*` `BatchProofs` (`PriceRestore`,
   `OwnerTransfer`, `TransferIntents`), `*` `ToolProofs` and `*` `AnswerProofs` (the parts
   of `MCTools`: the one those that keep a state of their own, the other the reads), on
   `*` `SumTheorems`, what finite sums obey.
10. Several processes on one set of files (the daily amounts), `consumerBridge`.

## 3. The modules

### WriteFlow

One variable per store of `writeFlow.ts`: `st` and `created` (IntentStore),
`approver` (the approvals map), `ledger` (IdempotencyLedger), `journal` (the
durable audit events), `tally` (DayAmountsStore, per WHMCS action), `grants` and
`allow` (the registry and allowlist files as they read now), and `call`, where
each suspended invocation stands. `sent`, `sentAt` and `paidOn` are history.

| action | code |
|---|---|
| `Draft`, `BeginWrite` | `draft_write_intent` and `write` up to `store.put` |
| `BeginValidate`, `EndValidate`, `WriteValidated` | around the awaited validation context |
| `Approve` | `approve_write_intent`, confirmation included |
| `EndElicitation` | the answer of `confirmViaElicitation`; an error of it counts as "unsupported" in the code and proceeds |
| `Execute`, `EndPrecheck` | `executeRun`, split at `precheckDomainRename` |
| `Commit` (operator) | durable audit, ledger entry, `transition(executed)`, mapper and assertions, `whmcs.mutate` up to its await |
| `MutateSucceeds`, `MutateFails`, `EndVerify` | the answers of the mutation and of the read-back |
| `Prune` | `IntentStore.list`, which alone looks at `expires_at` |
| `EditRegistry`, `EditAllowlist`, `Tick` | operators and the clock |
| `Crash`, `CrashInCommit` | restart, also between the durable writes of `Commit` |

A snapshot of intents is written whole and may be torn by a crash, in which case
it loads as empty (`Lost`). Approvals and suspended handlers never survive.

Abstractions: a request is a drafter, a scope, a target and an amount; what
validation and mappers decide is a free choice (`IntentParams` has the rules);
the file writes of the stores other than the audit log succeed (`StoreDurable`,
`LedgerDurable`, `TallyDurable` say whether there is a file); the registry's cache
is absorbed in `EditRegistry` (`Governance` has it); grants are shared by consumers;
the kill switch and the read-only mode, which deny everything, are not modelled.
One process. `prepare_domain_order` drafts and validates like `write` of a high-risk
scope. `Blocked` is what is never executable and not opted into; a destructive
scope that is opted into passes the gate on its typed phrase alone
(`Destructive`, `Confirmed`), without approval, allowlist or caps, as the code
has it; the proofs cover such scopes, the runs have none.

### WriteOnce

The promise: `Record`, `Dispatch`, `Close`, with no tools or tokens. `WriteFlow`
implements it with `closed <- Closed`, the intents that are rejected, blocked,
executed, pruned or lost; the run `write_flow` checks `Once!Spec` and
`WriteFlowProofs` proves it.

### CreditTransfer

One action per stretch of `executeUnlocked` between awaits, with the lock map of
`executeClientCreditTransfer`. `ApplyCredit`, external, is WHMCS applying a
mutation it was sent, at any later time: an error answer says nothing about it,
a success answer implies it. `Woken = {}` in the guards says that promise
continuations run before new input. `sent` and `posted` are the mutations sent
and the credit rows, by leg (`out`, `in`, `back`). A reversal may be asked
through other clients than the original's, as the code takes the clients from
the record only after it took the lock of the clients stated.

Abstractions: both clients' balances are read at one instant; a `Promise.all` is
one step; other people's credit changes are absent, so `Exact` can only fail
through the transfers themselves; a record is loaded whole.

### TransferOnce

The promise to whoever asks for a transfer under a request id, with no executions,
locks, awaits, balances or restarts: `Move` is a leg moving in WHMCS, the debit first,
each once, and only while the transfer is on record and not completed; `Note` puts
requests on record and settles them, once, as what the legs that have moved bear out
(`BorneOut`). The mapping reads `outcome` from the record of the request, of which
"compensated" counts when the run that audits it is over, and `moved` from the credit
rows of all its executions. `SettlesOnce` is this promise in terms of `CreditTransfer`;
it presumes a durable record store (`StateDurable`), as a process that forgets its
records transfers a request again.

### TransferIntents

`transfer_client_credit` and the branch of `executeRun` for its scope: validation,
the two reads of the tax setting (one for the answer, one for the gate), approval
by a finance approver when it is required, the gate with the caps, the lock, the
record, and what follows the transfer in one turn: ledger, daily total and state.
`CreditTransfer` is here no more than a record per request id: `PutRecord` starts a
transfer, `Conclude` ends it, as completed or otherwise settled, and a crash may leave
it open, or come between the end of the transfer, however it ended, and the bookkeeping
(`CrashTransfers`). The theorem `RecordsTurnOnce` says that these records turn as the
outcomes of `TransferOnce` do.

Abstractions: what the gate denies without looking at money or approvals is a free
choice; the tax setting read is the one at the moment its answer arrives; a key runs
out at any moment (`ExpireKey`), and a crash may lose ledger and total, whose files are
optional; the records are on file (`RecordsOnDisk`) or are lost.

### PriceRestore, OwnerTransfer

`PriceRestore`: `run` is where each execution of a batch stands, with its snapshots
and its copy of the day's total. `BeginRestore` to `Snapshot` is phase 1; `HandOver`
the replay check, the caps, the audit event and the key of one target; then the
mutation may be applied, fail or be answered (`Applied`, `MutationFails`,
`MutationAnswered`), and `VerifyRead` adds what really changed. An intent stays
`approved` until its batch ends, so two executions may overlap. `bucket` is the window
in which an intent was drafted, part of its keys, and a key lives for `DedupeWindow`
from the moment it was recorded (`SeenTarget`): a run suspended for longer, or an intent
drafted in the next window, hands a target over again. Others `Reprice` services or
terminate them; `CrashRestore` forgets approvals, and ledger and total unless they have
files (`LedgerDurable`, `DayDurable`).

`OwnerTransfer`: `Preflight` and the per-invoice locks, one `MoveService` per guarded
UPDATE, `Commit` and its answer, which may be lost. InnoDB is external: plain
SELECTs read the snapshot of the first, locking reads and UPDATEs see what is
committed, a waiter may be rolled back. Others reassign services, raise and pay
invoices. Addons and certificates go with the row of their service.

`MCBatches` runs them with `TransferIntents` and `WhmcsClient` in one run: they share no
intent, row or key, so `branch` says which one a behaviour is about.

### ReadCoordinator, HttpSessions

`sched` is what `schedule`, `removeQueuedTask`, `nextTask` and `pump` change in one
turn of the event loop: the phase of each operation, the queue of each consumer, the
list `lanes` (`consumers` in the code), `cursor`, `last` and `active`. `flight` and
`subscribers` are `inflight` and its counters, `waits` what each caller awaits. An
operation has the name of the call that started it. `Start` and `Join` are `run`,
alone and on a read in flight; `Leave` is an abort or a deadline with the
cancellation it may cause; `Settle` the operation's answer, its subscribers'
answers, the slot and the pump.

Abstractions: deadlines and signals are one free choice; what settles in
consecutive microtasks (a cancellation, the `finally` that deletes the key, the
callers' rejections) is one step; values, clones and telemetry are left out. A
call may be made again once its operation is over, so callers never run out. `pump`'s
loop is a recursive function of how often it has gone round: it fills one slot each time,
so that as many rounds as there are slots do what the code's loop does.

`HttpSessions` names a session by the request that initializes it. `Receive` is the
awaited body, `Initialize` the cap, the eviction and the connection of a server,
`SessionInitialized` the SDK's callback that registers it; `Ride`, `Served`,
`Deleted` are requests on a session, `Sweep` the interval. `BeginExchange` and
`EndExchange` are the modern adapter's requests, classified before they count;
`BeginClose` to `ConnectionsEnded` is `close()`: the drain, the adapter, one await per
transport, the open connections. The gates that a request passes before its body
is read keep no state. `MCGateway` runs the two, and `RequestPipeline`, in one run, in
which `turn` says which one a behaviour is about.

### RequestPipeline, WhmcsClient

`exec[c]` is one execution of `WhmcsRequestPipeline.execute`: where it is suspended,
its attempts, ordinary and repair budgets, its verdict, and, external, whether its
request reached WHMCS (`wire`). `Execute`, `AnswerOk`, `AnswerRefused`,
`AnswerTransient`, `AnswerEmptyForbidden`, `AnswerInvalidIp`, `Wake` and `Abort` are the
exits of the loop's awaits; `UpdaterEnds` ends the shared updater run and resumes
everybody who joined it. `Serve`, external, is WHMCS executing what was posted, at
any later time; `AddressChanges` drops the server from the allowlist.

`WhmcsClient` adds `read` and `mutate`: `entries` with their tags and limit, `epoch`,
shared operations in `flight`, and WHMCS's data as a version per entity (`db`, `seen`,
`acked`). `ReadCached`, `ReadMissed`, `RunRead`, `EndRead`, `Mutate`, `EndMutation` are
the code between awaits; the pipeline's actions are joined with what they deliver
(`Delivered`). An entry is the version it holds and the keys whose entries are older, which is
the order in which entries make room. Of the coordinator only what a cache can tell is kept: an operation
starts some time after it was scheduled and serves everybody who joined it. `Expire`
is the entry's age; the oldest entries make room at `MaxEntries`, the bytes of an entry
are left out. `Covered` and `Apart` name what invalidation does not reach: see 4.
A read that is scheduled and waits for its slot has `exec[c].at = "idle"`; with such a
read taken for one cancelled before it began, the client refines the pipeline
(`ClientRunsPipeline`).

### LegacyTools, EventReceiver

`LegacyTools`: a handler is the sequence of WHMCS actions it awaits; before the first
it takes a token and looks its key up (`CallTool`), between two it judges what it
read (`Judged`), after the last it stores its answer (`FinishCall`). `Whmcs(c)` is the
action in WHMCS, whose answer arrives or is lost, and `Declined` a gateway that refuses a
capture, which the next one has to be forced past. A payment is of the amount stated, or
of the balance; an invoice is `Unpaid` until a payment or a credit covers what is due
(`Paid`, `Credited`), which is all that a payment is judged by. WHMCS is not taken to
refuse a transaction id that it has seen. The clock may step back. Refusals by
configuration alone change nothing and are left out; `GetInvoice` and `GetClients` are
not among the shared reads (`MCP_READ_CACHE_ACTIONS`, by default static references).

`EventReceiver`: `Deliver` is a verified event, with the sweep that looking one up
triggers; `ForwardEnds` the forward nobody waits for; `Restart` empties the store.

### IntentParams

An intent from draft to wire: `Validate` is `validateDraftParams` with the rules of
each scope, `Block` the gate's per-action cap on `AmountOf` (`amountContextFor`),
`Execute` sends `IntentToWhmcsParams`. Parameters of a draft and of a mapper are joined by
`Both`. A value is one of the JSON values that some
rule tells apart: `"'-2'"` is the string -2, `"[ok,ok]"` a list of two good entries.

### SectionReads, Aggregators, Workflows, Paging

`SectionReads` is the way a section of an answer is read: a query answers one page of
rows, fills it or not, or fails into `partial_errors`. `Aggregators` says for each of
the thirteen tools which queries run together and in which order, what it keeps and
which flag it computes; the reconciliation findings are operators on what was got.
`Workflows` extends it with the six workflows: their candidates, limits, per-item reads,
and what they draft or skip. `Paging` is a chain of calls that follows `nextCursor`
through three ways of paging, with a scan that stops at its bounds; `Fitting` is what a
filter leaves of a list, row by row and in order. `Others`,
`Insert`, `RemoveRow`, `Edit` are people who work in WHMCS meanwhile. The reads are not
shared: an operator who lists their actions in `MCP_READ_CACHE_ACTIONS` gets answers
about an earlier moment, as `WhmcsClient` has it. Discrepancies of a month's end are cut
at the limit as the code cuts them, duplicates first (`Discrepancies`, `Annotated`).

### Governance, Planning

`Governance`: `loaded` and `loadedAt` are the registry cache, `call` the call being
served, resolved by token on stdio and by authenticated id over HTTP, `past` what the
source held at each moment. Over HTTP the id is the one that the registry inline at
start-up gives to the token (`KnownAtStart`), whatever the file says of the token now.
`Consult` is `getConsumerRegistry`, `AnswerGoverned`,
`AnswerLegacy`, `AnswerDraft` the pipeline's exits, `View` the projection of canonical
leaves through a contract's policy.

`Planning`: `evidence` is the store of probe results, `plans` what callers hold,
`preflight` where each preflight stands, `drafting` the drafting of a plan's steps.
`Compiled`, `Verified` and `StillGranted` are the checks of compile, verify and draft;
`Probe`, `ServeProbe`, `ProbeAnswered`, `ProbeCancelled` one probe. A probe of an action
in `SharedReads` may be answered by the read cache or a read in flight, up to `AnswerLag`
late (`ShareProbe`), as the planner's reader drops the bypass that the probe asks for;
`revokedAt` is when WHMCS last took a permission away. Operators edit grants,
WHMCS permissions change, the process restarts with another installation. Each probe of
a preflight has its turn, as the code awaits one after the other. Plans are
compared by value, where the code compares hashes; a hash has no key, so that who rewrites
a plan and hashes it anew is not modelled: plans are what the compiler made.

### StaffJobs, VersionProfile

`StaffJobs` extends `SectionReads` with ops_ask: `AskOps` is the handler up to its first
read (`Verdict` says how it may end there), `LookUp` the reads of `resolvePrincipal`
and the choice of `requireSingleClient`, `JobReads` the sections of the job, `Advice`
what next_best_action makes of them. The rate limit before and the two audit logs
around it are left out. The row of a client says which clients its
users have, which the code reads from `users` and `clients` where WHMCS sends them.

`VersionProfile` is `getWhmcsVersionProfile`: `AskFamily` answers from the cache or
begins a probe, `Serve` is WHMCS, `VersionArrives` and `NoVersion` end a stage. A stage in
`SharedStages` (the first or the third, the second is an "admin" read and barred) may be
answered with what WHMCS said up to `StageLag` before (`Share`).

`MCTools` runs these nine parts (legacy tools, events, parameters, workflows with the
aggregators, staff jobs, lists, registry, planner, version profile) in one run: they
share no state, so `part` says which one acts and the others rest in one initial state.

## 4. The runs

| run | question | result |
|---|---|---|
| `write_flow` | at most one dispatch, on durable record, truthful states, `WriteOnce` | holds, 534,140 states |
| `write_pay` | replay within the window, daily spending, authorization at the step of the dispatch | holds, 1,107,136 states |
| `credit_transfer` | one debit per request, loss on record, records match rows | holds, 812,206 states |
| `credit_lock` | the executions of a request implement `TransferOnce`; every execution returns | holds, 178,354 states |
| `batches` | targets once a window, totals true, spending bounded; transfers whole, invoices follow; credit transfers accounted for; reads and cache no older than acknowledged mutations | holds, 951,631 states |
| `gateway` | sessions and slots exact, honest drain, shutdown ends; a write posted once, unknown outcomes reported, executions end; of three consumers none starves while one is silent | holds, 62,048 states |
| `tools` | eleven properties of the nine parts of `MCTools` | holds, 2,170,703 states |
| `rename_replay` | "a concurrent/retry attempt is treated as a replay" (`writeFlow.ts:2100`) | violated |
| `stale_join` | "does not repopulate the cache from a read that began before a mutation" (`tests/whmcs/whmcsClientCache.test.ts:339`) | violated |
| `stated_amount` | "Per-action cap for high-risk write scopes" (`README.md:295`) | violated |
| `lane_starves` | "queued reads are fair and abortable" (`README.md:276`) | violated |
| `token_rotation` | "live rotation (re-read past the cache TTL, no restart)" (`README.md:285`) | violated |

The properties of the composed runs:

- `TargetOnce`: two mutations of a target under one key lie a window apart, also by
  overlapping executions, by one that was suspended for longer and by an intent drafted
  again after a crash that the ledger survives. It does not say that a target whose key is
  recorded was changed: a batch that fails there is over, and a retry skips it.
  `TallyTrue`: overlapping runs keep copies of the day's total, and yet no move is missing
  from the total, and the cap is exceeded by one cap per further run at most. A target
  handed over again after its window is counted twice, from the old snapshot.
- `TransferWhole`: a commit moves all services, from the expected owner.
  `InvoicesFollow`: invoices go with their services, but those raised in between.
- `TransfersAccounted`: what intents say of a credit transfer is true of its record,
  a required finance approval is never the drafter's own, and every transfer is in
  the day's total.
- `SessionsBounded`: the cap is checked before the awaits that register a session;
  it is exceeded by the initializations that overlapped, less one. `DrainHonest`: an
  answer is cut only by the drain's timeout. `ShutdownEnds`.
- `SlotsExact`, `WantedIffAlive`: no slot is lost or idle while a read waits, and a read
  runs exactly while somebody wants it. `PairServed`: a queued read has its turn if some
  consumer of the three is silent from some moment on; with all three calling it may
  starve, which is the run `lane_starves` (`QueuedReadRuns`).
- `ReadsFresh`, `CacheFresh`: what a read returns, and what the cache holds, is no
  older than the newest mutation acknowledged before it.
- `AttemptsBounded` (posts of a call, and runs of the updater per cooldown),
  `CleanCancelUntouched` (a cancellation without the warning of an unknown outcome is of
  a write that was never sent), `ExecutionsEnd`.
- `SettledOnce`: what WHMCS did before a legacy call began is not done again by it,
  though the answer was lost or the key forgotten: an invoice paid in full is not paid
  again, and no more refunded than paid (a part may be paid again, and calls that overlap
  may both pay); `AdmittedBounded`: a clock that steps back admits nobody beyond the burst
  and the refill (it takes tokens away, which no property forbids); `RepeatsJudged`: repeated events are dropped for a window and not
  beyond one and a half; `JudgedInFull`: what the caps judged is what is sent, under
  every name and type of an amount; `AnswersExplained`, `MatchesAccounted`: rows that
  an answer or a workflow leaves out are explained by an error, a flag or a limit;
  `ChainComplete`: a caller who follows the cursors gets every row that stayed, or is
  told; `RevocationBites`: what a call was given, some registry of the last
  lifetime grants, on stdio to the bearer of the token, over HTTP to the consumer of
  the id that the start-up registry gives to the token; `DraftsBacked`: a draft from a
  plan rests on live evidence of this installation and catalog, by one `AnswerLag` older
  for an action whose reads are shared.
- `PrincipalBacked`: a job asked for by address is about a client that the answering
  lookup led to, and the only one there. `AnswersExplained` for jobs: what stood for the
  whole call is in a job's answer or explained, and "none" is advised to nobody with a
  steady signal, unless the answer says what it could not read. `FamilyCurrent`: a family
  is WHMCS's of less than one lifetime ago, however slow the probe, and by one `StageLag`
  older where reads are shared.

**Bounds.** `write_flow`: a domain rename (medium risk, the one scope with a
precheck) and a client note (low risk, the scope whose grant and allowlist entry
are edited), two invocations, one tick (enough to expire an intent, a ledger
entry and a window bucket, as `TTL = Window = 1`) and one crash. Two invocations
are what it takes for one to overtake the other at each await; an intent's
properties mention one intent, and the second is there for the shared stores.
`write_pay`: three payments of amount 1 under caps of 1, two with one key, so
that the second is a replay and the third exceeds the cap; a day of one tick;
two invocations; grant and allowlist entry edited at any moment; no crash, as
crashes are in `write_flow`. Calls are symmetric in both, and `p1` and `p2`.
`credit_transfer`: a transfer, a retry of its request, a transfer the other way
on the same lock, a reversal on another lock, opening balances of 1 so that a
second debit is refused or overdraws, one crash. `credit_lock` drops the reversal, as its
two temporal properties would need more than five minutes with it; the request that is
retried is the case where two executions share one promise.
`batches`: two equal requests for two services each, a dry run and a request for three, more
than two runs may change within the cap; a cap of 1 that the second target meets, a window of two ticks in two, so that a key ends under a run
that is suspended and a request drafted again falls into the next bucket, one crash or
outside edit; two ownership transfers that want one service for different clients, two
invoices and a third that may be raised, three steps of others; two intents of one
credit request, a daily cap of two transfers, one crash or change of the tax setting;
a cached read and a mutation of one entity, two coalesced reads of another, a cache of
one entry, so that storing evicts.
`gateway`: two sessions under a cap of one, so that one evicts the other or both
register, a deletion, a modern exchange, one tick; four reads in one slot, by three
consumers, two of them of one shared key; two reads and a write, an attempt budget of 2,
a cooldown of 2 in one tick: a read joins a run of the updater that another started.
`tools`: two legacy calls, payments of a part and of the balance, a key window of two
seconds in three, a cache of one result; two events in a window of 3 of 9 ticks, as a sweep
takes place every half window; every scope with its required parameters and those
options that a rule looks at; worlds of up to three rows of invoices and payments, so
that a page of two may leave one out, or two of other lists, and one change;
lists of up to four rows, pages of one and two, one change; a registry file edited
once, four deployments, three ticks over a lifetime of one; two preflights of a
candidate with a read and two drafts, evidence of one tick and plans of two in two,
one upheaval; two clients for the jobs, one of whom may have a second user or share a
user with the other, a list that fills its page of two or the signals of one client,
one change; two callers of the profile, a lifetime of two ticks in three, one upgrade.
Clock, crash and edit bounds are in the guards of the actions.

**Deadlock** is checked for `write_flow` and `write_pay`: time may stop, but callers
come again. In the other passing runs the
system stops when all calls are done and the bounds are used up, and they say
`CHECK_DEADLOCK FALSE`; a violation run ends at its counterexample.

**Fairness.** Weak fairness of what a handler does once it has been called, as every
WHMCS call ends at least by the client's timeout and the event loop runs every
continuation; callers, crashes, edits and WHMCS's late effects are not fair.
`CreditTransfer`: `Advance(c)`, which is all `CalledReturns` needs. `ReadCoordinator`:
`Settle(t)`. `RequestPipeline`: an answer or a timer of each execution, and the end of the
updater run, which is killed at its own timeout. `HttpSessions`: the steps of `close()`,
the drain timeout among them, and each request's, except that a stream ends when
its client likes: `ShutdownEnds` is about behaviours without streams, as a stream on
a session that registered behind the closing loop keeps `close()` waiting.
`WhmcsClient` states fairness, and the run that has it checks its safety only. `PairServed`
needs no fairness of callers: a consumer is silent who calls no more.

**What the violations show.** Each is a behaviour of the code, against a line of
the repository. `rename_replay`: the gate is asked before the precheck's await and
not after it. `stale_join`: `read` compares the epoch with the one at its own start,
but may have joined an operation that was posted before a mutation was acknowledged,
and stores its older value. `stated_amount`: a capture is judged by the amount its
caller states, which is not sent; WHMCS charges what is due. `lane_starves`: a lane that
empties leaves the list while the cursor stays past its end, and the next lane to be
listed lands under the cursor, before one that has waited since; only the deadline of the
waiting read ends it. `token_rotation`: the HTTP transport reads the registry once, at its
start and from `MCP_CONSUMER_REGISTRY`, and resolves tokens against that, so that an edit
of `MCP_CONSUMER_REGISTRY_FILE` changes what a consumer may see and not who a token is.

**Other differences between code and words**, read while modelling. The models have
the code's behaviour, and the properties are stated so as to hold with it.

- Writes: nothing but `list` looks at `expires_at`, against "stale drafts can't be
  replayed late" (design document, 10(c)). The daily total is read before the call
  and added after it, so the "daily aggregate cap" (`README.md:296`) is exceeded as
  `DailySpendBounded` says; `dayAmountsStore.ts:11-12` speaks of a cap across processes,
  while each keeps its own total. The comment on `confirmViaElicitation`
  (`writeFlow.ts:2269-2270`) says an elicitation error blocks, while its `catch` answers
  "unsupported" and the write proceeds. Of two overlapping executions of a batch one
  ends blocked although the other commits. The ledger and the keys of batches live for
  five minutes (`idempotency.ts:22`); a batch suspended for longer, as its reads and
  mutations may be, hands targets over again and adds them to the total again. A second intent for a credit transfer that was
  made adds its amount to the day's total again.
- Credit: all waiters of one predecessor wake together and none looks at the lock
  again, so that two reversals of one transfer may complete, against "only one
  completed reversal is allowed" (runbook). The lock is keyed by the pair, where
  `creditTransfer.ts:300` speaks of "transfers sharing either client".
- Reads: listings tagged by `userid` stay cached after an `UpdateClient`. The planner's
  reader (`tools/planning.ts:322-325`) takes no third argument and so drops the
  `bypassCache` and `bypassCoalescing` of a probe, "against the live WHMCS install"
  (`governance/capabilities.ts:285`).
- Legacy tools: a payment in part leaves an invoice `Unpaid`, so that it is booked
  again when its answer was lost or its key is over; overlapping calls both mutate.
- Parameters: custom fields of nulls encode an empty map; `billing:quote:update` with
  no items sends an empty list; the sign of an amount given as a string is caught
  by the gate only.
- Answers: `new_client_onboarding` drafts after a search that failed; the
  contracts of automations drop `partial_errors`, "summarized for the automations" by
  `aggregators.ts:507-510`, since a list whose class is not allowed is dropped whole;
  `list_invoices` hands out a last cursor at the scan's cap though `complete_scan` says so
  (`reportingListTools.ts:156`); an insertion while pages are scanned may hide a row;
  `suspend_for_nonpayment` filters services by a parameter WHMCS does not have.
- Identity: when the lookup of an address fails, for whatever reason, a search answers
  instead, whose rows know no users, so that a user of two clients is taken for the one
  that the search finds, against "Never guess a clientid when more than one client
  matches" (`resolvePrincipal.ts:6`). A client is listed once for each of its users, and
  two entries are refused as "multiple WHMCS clients" (`resolvePrincipal.ts:158`).
- Governance and planning: of two probes of one
  action the last to answer wins; evidence is not looked at again when a plan is
  drafted, only the plan's expiry; a draft that was stored is reported failed when its
  audit throws; the planner compares actions by name where
  the governed tools expand them, and takes an empty list of allowed actions as none.

## 5. What is proved

All for any finite or infinite sets of calls, clients, requests, events and so on, any
configuration, any number of ticks and crashes, from the `ASSUME`s of the modules alone
and from the hypotheses that a theorem states. The assumptions are the types of the
constants and what the code or its configuration schema refuses: `PerActionCap` and the
like are naturals, windows and limits positive, a transfer has two different clients, a
prechecked scope is not high-risk, an entry of the registry has the fields of its zod
schema (`EntriesHaveSchema`, `governance/consumers.ts:80`), two releases of WHMCS
differ, steps and users come as lists, a payment is positive, WHMCS holds finitely many
rows and one per id (`SectionAssumption`), no id or client has the name of a section
(they are numbers, `ItemsApart`), and the limit of a workflow is positive
(`LimitIsPositive`). Where a property adds or counts, its index set is finite: intents
and calls of `WriteFlow`, intents of `TransferIntents`, `Runs`, `ToolCalls`.

| theorem | statement | argument |
|---|---|---|
| `WriteFlowProofs!TypeCorrect` | `Spec => []TypeOK` | inductive as it stands, one lemma per action |
| `DispatchedOnce` | `Spec => []OnceInv` | an intent still before `executed` was never sent, a sent one was sent once and is in the journal, a suspended mutation belongs to an executed intent |
| `OneDispatch`, `RecordedDispatch`, `UntouchedUnexecuted` | at most one dispatch, only on durable record, none before `executed` | from `OnceInv` |
| `Implements` | `Spec => Once!Spec` | each step maps to `Record`, `Close`, `Dispatch` or a stutter, using `OnceInv` |
| `GatePassed` | `Spec => []GateInv` | a suspended execution passed the gate; while its window lasts, the key of a sent intent is in a durable ledger |
| `NoReplay`, `AuthorizedDispatch` | `NoReplayInWindow`, `DispatchAuthorized` | from `GateInv`, for scopes without a precheck where the property says so |
| `FlightCorrect`, `OutcomesHonest` | `OutcomeHonest` | `FlightInv`: two calls never carry one intent between dispatch and answer, and the intent carried is still `executed` (or pruned) |
| `SpendCorrect`, `SpendBounded` | `DailySpendBounded` | `SpendInv`: spent today is in the tally, what is in the air passed its own cap; an answer moves its amount from the air to the tally, a dispatch was let through by the tally of its own step |
| `CreditTransferProofs!TypeCorrect` | types, and nobody waits for itself | with `LockInv` |
| `RecordsHold` | `Spec => []RecordInv` | the place of an execution fixes what its record says, what it sent and what was applied; records have distinct request ids (`UniqueInv`), as `put` refuses another's |
| `OneDebit`, `RecordsMatch`, `LossRecorded`, `FinalStays` | the three properties of `credit_transfer`, and that a completed record, or one that needs repair, is never rewritten | from `RecordInv` |
| `TransfersSettleOnce` | `StateDurable /\ Spec => SettlesOnce` | each step maps to `Note`, `Move` or a stutter: a debit is posted before the other legs (`DebitFirst`), a row stays, and what a record comes to say is what `RecordInv` and the rows bear out |
| `NobodyWaitsInACircle` | `Spec => []WaitsForStarted` | inductive with `LockInv`: whoever holds a lock has started, and one that has started never waits again |
| `ReversalsAreGrounded` | `Spec => [](ReversalsGrounded /\ LinksHonest)` | a completed record stays one, and a crash that forgets the records forgets links and runs with them |
| `PipelineProofs!PipelineCorrect`, `PostsBounded`, `CleanCancels` | `AttemptsBounded`, `CleanCancelUntouched` | `PipelineInv`: attempts are paid for from three budgets (ordinary, repair, reset), a write has one; runs of the updater lie a cooldown apart |
| `ClientCorrect`, `CacheIsFresh`, `ReadsAreFresh`, `ClientPosts`, `ClientTypesCorrect` | `CacheFresh`, `ReadsFresh`, and the pipeline's two with cache and coalescing on top | `ClientInv`: while the epoch is the one a read began in, nothing newer was acknowledged than when it began, and what it was served is no older than that |
| `ClientRunsPipeline` | `Spec => RunsPipeline`, the pipeline's `Init /\ [][Next]_vars` under `exec <- shown` | nothing is left of an earlier run in an idle execution (`IdleInv`); no step after a call makes an execution idle or lets a read wait anew, so that each maps to itself; a read that joins another stutters, one that is scheduled is a call already cancelled |
| `BatchProofs!TransferCorrect`, `InvoicesDoFollow`, `TransfersCommitWhole` | `BooksAgree => InvoicesFollow`, `TransferWhole` | `TransferInv`: a transaction that moves has locked every invoice in its scope, and it moves only rows it locked |
| `RestoreCorrect`, `TargetsOnce` | `TargetOnce` | `HandedInv`: the mutations of a key are a window apart, and its entry in the ledger ends no sooner than a window after the last; a key is looked up in the turn that hands its target over, so that a mutation finds that entry over |
| `TallyIsTrue` | `TallyTrue` | `TallyInv`: while others leave the services alone, a price is the first one or what is asked, and so is what a run has read of it unless it is the price still (`PriceTrue`, `SnapTrue`), so that the difference a run adds is never less than what its mutation moved (`HandTrue`); the total and what is acknowledged and not yet added (`Owed`) reach what was moved, the total and what the runs in hand may still add (`Left`) stay within one cap for each run |
| `CreditCorrect`, `MoneyAccounted` | `TransfersAccounted` | `CreditInv`: one call moves a request's money at a time; state, record, ledger and total of an intent change in one turn |
| `RecordsTurnOnce` | `CreditSpec => [][\A r \in RequestIds : RecordTurns(r)]_record` | from `CreditInv`: whoever concludes a transfer is the only call at work on it, and its record is open |
| `GatewayProofs!HttpCorrect`, `SessionCap`, `HonestDrain` | `SessionsBounded`, `DrainHonest` | `RoomInv`: sessions and those connecting count against the peak of overlapping initializations |
| `CoordinatorCorrect`, `SlotsAreExact`, `WantedAlive` | `SlotsExact`, `WantedIffAlive` | every step leaves the schedule orderly and one slot short at most, which one round of the pump fills; a shared read counts exactly those who await it |
| `ToolProofs!RepeatsAreJudged` | `RepeatsJudged` | what the map no longer holds is older than the window, and the last sweep left nothing older in it |
| `AdmissionBounded` | `AdmittedBounded` | admitted plus left is no more than what was filled up to the last refill; a clock that steps back takes tokens away |
| `FamilyIsCurrent` | `FamilyCurrent` | what a probe was served was so after its call began, or less than `StageLag` before where reads are shared, and an entry expires one lifetime after the call |
| `RevocationHolds` | `RevocationBites` | the registry loaded is one that the source held at some moment since it was loaded; over HTTP the id of a call in hand is one that the start-up registry gives to its token (`IdentityInv`) |
| `JudgedFully` | `JudgedInFull` | scope by scope: the mapper sends the parameter that `AmountOf` judged, or none |
| `DraftsAreBacked` | `DraftsBacked` | evidence, plans and drafts each carry a moment until which WHMCS's grant is good, later by `Slack` than what a shared read proves; an action forbidden now was granted until `revokedAt` (`RevokedInv`) |
| `SettledBefore` | `SettledOnce` | `SettleInv`: between its reading and its mutation a call may only proceed on what leaves its matter unsettled by those before it; refunds of an invoice sum to what WHMCS shows of it |
| `AnswerProofs!MatchesAreAccounted` | `FlowsSpec => []MatchesAccounted` | `WorkInv`: every query of a section is still to be read, is answered with all that its section keeps, or has an error or a full page to its name; what is in hand, or done, of a section's matches is what it drafted, skipped, reported or has yet to turn to |
| `AnswersAreExplained` | `ToolsSpec => []AnswersExplained` | `AnswersInv`: the same of aggregators (`AggregateInv`), of workflows, and of jobs (`JobInv`), where the counts of a client are also at least what stands of it all the time |
| `PrincipalIsBacked` | `Page > 1 /\ AddressesApart => []PrincipalBacked` | `PrincipalInv`: a page that shows one client and could hold two shows all there are |
| `ChainIsComplete` | `PagingSpec => []ChainComplete` | `PagingInv`: what has matched since the first call was served or ranks behind the cursor among what matches (`NoneLost`), and what a scan has kept is what the filter leaves of the rows it has read (`ScanKeeps`); rows that others insert between calls only move a row back |

Without the strengthenings none of the invariants is inductive: `sent[i] <= 1`
says nothing about an intent that is approved and already sent, which is the
state `OnceInv` excludes, and a record's state says nothing about the rows
without the place that put it there.

The hypotheses: `BooksAgree` says that at the start invoices belong to the owner of their
services, as an ownership transfer cannot mend books that were wrong before it.
`AddressesApart` says that WHMCS has one client per address and one row per client, which
WHMCS enforces; every world of the run `tools` satisfies it. `Page > 1` is `limitnum: 25`
(`identity/resolvePrincipal.ts:122`): a search for one row would always find one client.

`SumTheorems` has what proofs need of `SumFunctionOnSet`. It is a recursive function on
the subsets of its index set; that it exists, and what it sums to when one value changes,
is proved by a smallest subset for which it would fail, since the induction theorems of
the library take an operator. `ToolProofs` and `GatewayProofs` argue by a least number in
the same way.

The durable record of a dispatch is also part of `WriteOnce`, which the run checks.
Only model-checked are the liveness properties (`CalledReturns`, `PairServed`,
`ShutdownEnds`, `ExecutionsEnd`), out of the prover's reach, as is what ENABLED would
say. Every invariant and every other property of the passing runs is a theorem. The
refinement `ClientRunsPipeline` is about steps, not about fairness.

## 6. Not modelled

Several processes on one set of files. Presentation (resources, prompts, tool
descriptions, remediation texts), logging, telemetry and redaction, audits of reads,
field-by-field shaping of WHMCS answers (`canonical/`), the single-call read tools,
`consumerBridge.ts`, the hashes of plans and the scan of their values, the catalog's
own validation, database health checks, token verification (OAuth and static tokens
are a pure verdict per request over fixed configuration), and offline tools
(`auditHarness`, `testProgram`, `scripts/`, `deploy/`). They keep no state that
another step depends on.
