---------------------------- MODULE PriceRestore ----------------------------
(***************************************************************************)
(* executePriceRestoreBatch of src/tools/writeFlow.ts and the branch of    *)
(* executeRun around it: snapshots of every target first, then one target  *)
(* after the other, each with an idempotency key, a cap check and a        *)
(* durable audit event of its own.                                         *)
(*                                                                         *)
(* An intent stays `approved` until its batch has ended, so executions of  *)
(* one intent may overlap, and one may be suspended for longer than the    *)
(* ledger keeps a key.  Drafting up to approval is WriteFlow's.  A         *)
(* behaviour lies within one UTC day, the period of dayAmountsStore.       *)
(***************************************************************************)
EXTENDS Integers, FiniteSets, FiniteSetsExt, Functions, Sequences

CONSTANTS
  Batches,      \* intents of scope service:price_restore
  Runs,         \* tool invocations that may be suspended at once
  Services,     \* services of WHMCS
  Asked,        \* the targets of each batch: service, new price, expected one
  NaturalKey,   \* natural key of each batch, a name of its caller's
  DryRun,       \* batches with dry_run
  StartPrice,   \* what each service costs at first
  AnyPrice,     \* no expected_old_amount
  PerTargetCap, RestoreCap, \* MCP_PROD_HIGH_RISK_*_CAP
  DedupeWindow, \* ticks a key is kept, and the width of its bucket (5 minutes)
  LedgerDurable, DayDurable, \* MCP_WRITE_IDEMPOTENCY_PATH, _DAY_AMOUNTS_PATH set
  MaxClock,     \* bound on the clock
  MaxEvents,    \* bound on the crashes and on what others change, together
  NoBatch       \* no batch in hand

RestoreAssumption ==
  /\ IsFiniteSet(Runs)
  /\ StartPrice \in [Services -> Nat]
  /\ AnyPrice \notin Nat
  /\ \A b \in Batches : Asked[b] \in
       Seq([svc : Services, new : Nat \ {0}, old : Nat \cup {AnyPrice}]) \ {<<>>}
  /\ DryRun \subseteq Batches
  /\ {PerTargetCap, RestoreCap, MaxClock, MaxEvents} \subseteq Nat
  /\ DedupeWindow \in Nat \ {0}
  /\ {LedgerDurable, DayDurable} \subseteq BOOLEAN
  /\ NoBatch \notin Batches

ASSUME RestoreAssumption

VARIABLES
  bst,       \* the state of each intent
  bucket,    \* the window each intent was drafted in, part of its keys
  approvals, \* the approvals map, process-local
  run,       \* where each suspended execution stands
  done,      \* the ledger: the moment each per-target key expires
  tally,     \* dayAmountsStore: the day's total
  clock,     \* the time of day
  price,     \* external: what each service costs
  dead,      \* external: services terminated or cancelled
  restarts, edits, \* crashes and outside edits so far
  handed,    \* history: when mutations were handed to WHMCS, per key
  moved      \* history: by how much acknowledged mutations changed prices

restoreVars == <<bst, bucket, approvals, run, done, tally, clock, price, dead,
                 restarts, edits, handed, moved>>

Resting ==
  [pc |-> "idle", batch |-> NoBatch, k |-> 0, snap |-> <<>>, failed |-> FALSE,
   day |-> 0, applied |-> 0]

Target(c, k) == Asked[run[c].batch][k]
Last(c) == Len(Asked[run[c].batch])

(* idempotencyKey, of a target: of the request, its window and the service.*)
TargetKey(b, k) == <<NaturalKey[b], bucket[b], Asked[b][k].svc>>

TargetKeys == {NaturalKey[b] : b \in Batches} \X (0..MaxClock) \X Services

\* An empty ledger.
Unkeyed == [e \in TargetKeys |-> 0]

\* ledger.seen
SeenTarget(b, k) == done[TargetKey(b, k)] > clock

Difference(a, b) == IF a < b THEN b - a ELSE a - b
Delta(c, k) == Difference(Target(c, k).new, run[c].snap[k])

(* store.transition, which throws on an illegal move.                      *)
BatchMoved(b, target) == IF bst[b] = "approved" THEN [bst EXCEPT ![b] = target] ELSE bst

End(c, target) ==
  /\ bst' = BatchMoved(run[c].batch, target)
  /\ run' = [run EXCEPT ![c] = Resting]

-----------------------------------------------------------------------------
(* Phase 1.                                                                *)

(* Drafted, validated and approved by another consumer, which may take     *)
(* longer than a window.                                                   *)
Prepare(b) ==
  /\ bst[b] = "undrafted"
  /\ bst' = [bst EXCEPT ![b] = "approved"]
  /\ \E n \in 0..clock :
       n * DedupeWindow <= clock /\ bucket' = [bucket EXCEPT ![b] = n]
  /\ approvals' = approvals \cup {b}
  /\ UNCHANGED <<run, done, tally, clock, price, dead, restarts, edits,
                 handed, moved>>

(* Steps 1 to 7 of the gate deny, or the approval is gone.                 *)
RefuseRestore(b) ==
  /\ bst[b] = "approved"
  /\ bst' = [bst EXCEPT ![b] = "execution_blocked"]
  /\ UNCHANGED <<bucket, approvals, run, done, tally, clock, price, dead,
                 restarts, edits, handed, moved>>

BeginRestore(c, b) ==
  /\ run[c].pc = "idle"
  /\ bst[b] = "approved"
  /\ b \in approvals
  /\ run' = [run EXCEPT ![c] = [Resting EXCEPT !.pc = "snapshot", !.batch = b, !.k = 1]]
  /\ UNCHANGED <<bst, bucket, approvals, done, tally, clock, price, dead,
                 restarts, edits, handed, moved>>

(* What a read of target k adds: its price, or that the batch has failed.  *)
(* A target done by an earlier run needs no expected price.                *)
Taken(c, current) ==
  LET t == Target(c, run[c].k)
      expected == t.old \in {AnyPrice, current}
                    \/ SeenTarget(run[c].batch, run[c].k)
  IN [run EXCEPT ![c].snap = Append(@, current),
                 ![c].failed = @ \/ ~expected,
                 ![c].k = @ + 1]

-----------------------------------------------------------------------------
(* Phase 2, from one await to the next.                                    *)

\* Variant with a defect: each target is compared with the cap alone.
WithinTargetCap(day, delta) ==
  PerTargetCap > 0 /\ RestoreCap > 0 /\ delta <= PerTargetCap /\ delta <= RestoreCap

WithinRestoreCaps(day, delta) ==
  /\ PerTargetCap > 0 /\ RestoreCap > 0
  /\ delta <= PerTargetCap
  /\ day + delta <= RestoreCap

(* The batch is over: whatever was halted or failed, it is "executed".     *)
Finish(c) ==
  /\ End(c, "executed")
  /\ UNCHANGED <<done, handed>>

(* A cap, the output assertion or the durable audit refuses target k.      *)
Halt(c) ==
  /\ End(c, "execution_blocked")
  /\ UNCHANGED <<done, handed>>

\* Variant with a defect: the key is to be recorded when the target is verified.
HandOverUnrecorded(c, r, k) ==
  LET key == TargetKey(r.batch, k) IN
  /\ handed' = [handed EXCEPT ![key] = Append(@, clock)]
  /\ run' = [run EXCEPT ![c] = [r EXCEPT !.pc = "mutating", !.k = k]]
  /\ UNCHANGED <<bst, done>>

(* Audited and recorded, target k is handed to WHMCS.                      *)
HandOver(c, r, k) ==
  LET key == TargetKey(r.batch, k) IN
  /\ done' = [done EXCEPT ![key] = clock + DedupeWindow]
  /\ handed' = [handed EXCEPT ![key] = Append(@, clock)]
  /\ run' = [run EXCEPT ![c] = [r EXCEPT !.pc = "mutating", !.k = k]]
  /\ UNCHANGED bst

(* The loop from target `from` on, for the run as r: targets whose key is  *)
(* recorded are skipped.                                                   *)
Continue(c, r, from) ==
  LET todo == {k \in from..Len(Asked[r.batch]) : ~SeenTarget(r.batch, k)} IN
  IF todo = {} THEN Finish(c)
  ELSE LET k == Min(todo)
           delta == Difference(Asked[r.batch][k].new, r.snap[k])
       IN \/ Halt(c)
          \/ WithinRestoreCaps(r.day, delta) /\ HandOver(c, r, k)

(* GetClientsProducts answers for a target of phase 1.                     *)
Snapshot(c) ==
  LET t == Target(c, run[c].k)
      ok == t.svc \notin dead
  IN
  /\ run[c].pc = "snapshot"
  /\ \E read \in BOOLEAN :
       LET next == IF read /\ ok THEN Taken(c, price[t.svc])
                   ELSE [run EXCEPT ![c].failed = TRUE, ![c].k = @ + 1,
                                    ![c].snap = Append(@, 0)]
           r == next[c]
       IN
       IF r.k <= Last(c)
       THEN run' = next /\ UNCHANGED <<bst, done, handed>>
       ELSE \/ r.failed /\ Halt(c)
            \/ /\ ~r.failed /\ run[c].batch \in DryRun
               /\ run' = [run EXCEPT ![c] = Resting]
               /\ UNCHANGED <<bst, done, handed>>
            \/ /\ ~r.failed /\ run[c].batch \notin DryRun
               /\ Continue(c, [r EXCEPT !.day = tally], 1)
  /\ UNCHANGED <<bucket, approvals, tally, clock, price, dead, restarts,
                 edits, moved>>

(* External: WHMCS changes the price.                                      *)
Applied(c) ==
  LET t == Target(c, run[c].k) IN
  /\ run[c].pc = "mutating"
  /\ price' = [price EXCEPT ![t.svc] = t.new]
  /\ run' = [run EXCEPT ![c].pc = "applied",
                        ![c].applied = Difference(t.new, price[t.svc])]
  /\ UNCHANGED <<bst, bucket, approvals, done, tally, clock, dead, restarts,
                 edits, handed, moved>>

(* UpdateClientProduct fails, or its answer does: the batch stops there.   *)
MutationFails(c) ==
  /\ run[c].pc \in {"mutating", "applied"}
  /\ End(c, "executed")
  /\ UNCHANGED <<bucket, approvals, done, tally, clock, price, dead, restarts,
                 edits, handed, moved>>

MutationAnswered(c) ==
  /\ run[c].pc = "applied"
  /\ run' = [run EXCEPT ![c].pc = "verifying"]
  /\ moved' = moved + run[c].applied
  /\ UNCHANGED <<bst, bucket, approvals, done, tally, clock, price, dead,
                 restarts, edits, handed>>

\* Variant with a defect: the local copy of the total is written back.
AddedLocally(c, delta) == run[c].day + delta

(* dayAmounts.add: on the store's own total.                               *)
Added(c, delta) == tally + delta

(* The read-back: verified or not, the target counts and the loop goes on. *)
VerifyRead(c) ==
  LET k == run[c].k
      t == Target(c, k)
      delta == Delta(c, k)
      r == [run[c] EXCEPT !.day = @ + delta, !.applied = 0]
  IN
  /\ run[c].pc = "verifying"
  /\ tally' = Added(c, delta)
  /\ Continue(c, r, k + 1)
  /\ UNCHANGED <<bucket, approvals, clock, price, dead, restarts, edits,
                 moved>>

-----------------------------------------------------------------------------
(* Crashes, and others who work in WHMCS.                                  *)

(* A ledger or a total without a file is lost; expired keys are not loaded.*)
CrashRestore ==
  /\ restarts + edits < MaxEvents
  /\ restarts' = restarts + 1
  /\ run' = [c \in Runs |-> Resting]
  /\ approvals' = {}
  /\ done' = IF LedgerDurable THEN done ELSE Unkeyed
  /\ tally' = IF DayDurable THEN tally ELSE 0
  /\ UNCHANGED <<bst, bucket, clock, price, dead, edits, handed,
                 moved>>

Reprice(s) ==
  /\ restarts + edits < MaxEvents
  /\ edits' = edits + 1
  /\ \/ price' = [price EXCEPT ![s] = @ + 1] /\ UNCHANGED dead
     \/ dead' = dead \cup {s} /\ UNCHANGED price
  /\ UNCHANGED <<bst, bucket, approvals, run, done, tally, clock, restarts,
                 handed, moved>>

PassTime ==
  /\ clock < MaxClock
  /\ clock' = clock + 1
  /\ UNCHANGED <<bst, bucket, approvals, run, done, tally, price, dead, restarts,
                 edits, handed, moved>>

RestoreInit ==
  /\ bst = [b \in Batches |-> "undrafted"]
  /\ bucket = [b \in Batches |-> 0]
  /\ approvals = {}
  /\ run = [c \in Runs |-> Resting]
  /\ done = Unkeyed
  /\ tally = 0
  /\ clock = 0
  /\ price = StartPrice
  /\ dead = {}
  /\ restarts = 0
  /\ edits = 0
  /\ handed = [e \in TargetKeys |-> <<>>]
  /\ moved = 0

RestoreNext ==
  \/ \E b \in Batches : Prepare(b) \/ RefuseRestore(b)
  \/ \E c \in Runs, b \in Batches : BeginRestore(c, b)
  \/ \E c \in Runs :
       \/ Snapshot(c) \/ Applied(c) \/ MutationFails(c)
       \/ MutationAnswered(c) \/ VerifyRead(c)
  \/ CrashRestore \/ PassTime
  \/ \E s \in Services : Reprice(s)

RestoreSpec == RestoreInit /\ [][RestoreNext]_restoreVars

-----------------------------------------------------------------------------
(* Properties.                                                             *)

(* Within one window a target of a request is handed to WHMCS once, however*)
(* many executions of its intent or of intents drafted again overlap, one  *)
(* of them suspended for a window or more, and across a crash that the     *)
(* ledger survives: two mutations under one key lie a window apart.        *)
TargetOnce ==
  LedgerDurable \/ restarts = 0 =>
    \A e \in TargetKeys : \A m, n \in DOMAIN handed[e] :
      m < n => handed[e][m] + DedupeWindow <= handed[e][n]

(* All who ask for a service ask for one price, and nobody else changes it.*)
Alone ==
  /\ edits = 0
  /\ \A a, b \in Batches : \A k \in DOMAIN Asked[a], l \in DOMAIN Asked[b] :
       Asked[a][k].svc = Asked[b][l].svc => Asked[a][k].new = Asked[b][l].new

Unverified == {c \in Runs : run[c].pc = "verifying"}

(* The day's total never falls short of what acknowledged mutations really *)
(* changed, those still being read back apart: overlapping runs lose no    *)
(* increment, though each keeps a copy of the total and took its snapshots *)
(* before the other's mutations.  (A target handed over again after its    *)
(* window may be counted twice.)  Each run respects the daily cap over what*)
(* it knew at its start, so that overlapping runs exceed it by no more than*)
(* the cap each.                                                           *)
TallyTrue ==
  Alone /\ restarts = 0 =>
    /\ tally + SumFunction([c \in Unverified |-> run[c].applied]) >= moved
    /\ moved <= RestoreCap * Cardinality(Runs)

=============================================================================
