-------------------------- MODULE TransferIntents --------------------------
(***************************************************************************)
(* The governed side of a client credit transfer: transfer_client_credit   *)
(* and the branch of executeRun for billing:credit:transfer (both in       *)
(* src/tools/writeFlow.ts), around executeClientCreditTransfer.            *)
(*                                                                         *)
(* WriteFlow has the tools that draft, validate and approve; what a        *)
(* transfer does is CreditTransfer's, here no more than its record per     *)
(* request id.  Whatever the gate denies without looking at money or       *)
(* approvals is a free choice.  The clock is left out: a ledger entry may  *)
(* expire at any moment.  A behaviour lies within one UTC day.             *)
(***************************************************************************)
EXTENDS Naturals, FiniteSets, Functions

CONSTANTS
  CreditIntents,  \* intents of scope billing:credit:transfer, of one consumer
  CreditCalls,    \* tool invocations that may be suspended at once
  Move,           \* each intent's request id, natural key and amount
  Drafter,        \* the consumer that drafts
  CreditApprovers, \* consumers that may approve, the drafter among them or not
  FinanceApprovers, \* MCP_CREDIT_TRANSFER_FINANCE_APPROVER_IDS
  FinanceAlways, FinanceWhenTaxed, \* MCP_CREDIT_TRANSFER_REQUIRE_FINANCE_*
  TransferCap, TransferDailyCap, \* MCP_PROD_HIGH_RISK_*_CAP
  RecordsOnDisk,  \* MCP_CREDIT_TRANSFER_STATE_PATH is set
  MaxMishaps,     \* bound on the edits of TaxEnabled and on the crashes, together
  Nobody          \* no approval on record, no intent in hand

CreditAssumption ==
  /\ \A i \in CreditIntents : Move[i].amount \in Nat \ {0}
  /\ FinanceApprovers \subseteq CreditApprovers
  /\ {FinanceAlways, FinanceWhenTaxed, RecordsOnDisk} \subseteq BOOLEAN
  /\ {TransferCap, TransferDailyCap, MaxMishaps} \subseteq Nat
  /\ Nobody \notin CreditIntents \cup CreditApprovers \cup {Drafter}
  /\ IsFiniteSet(CreditIntents)

ASSUME CreditAssumption

VARIABLES
  cst,        \* the state of each intent
  approvedBy, \* the approvals map, process-local
  taxed,      \* external: TaxEnabled of WHMCS
  keys,       \* the live entries of the idempotency ledger
  spent,      \* dayAmountsStore: the day's total
  record,     \* creditTransferStore: the transfer record of each request id
  at,         \* where each suspended invocation stands
  taxEdits, creditCrashes

creditVars == <<cst, approvedBy, taxed, keys, spent, record, at, taxEdits, creditCrashes>>

files == <<keys, spent, record>>
around == <<taxed, taxEdits, creditCrashes>>

RequestIds == {Move[i].request : i \in CreditIntents}

Unrecorded == [state |-> "none", amount |-> 0, by |-> Nobody]
NoRecords == [r \in RequestIds |-> Unrecorded]

Settled == {"completed", "compensated", "audit_repair_required"}

Unsuspended == [pc |-> "idle", intent |-> Nobody]

CreditStep(i, target) == <<cst[i], target>> \in
  {<<"draft", "validated">>, <<"draft", "rejected">>, <<"validated", "approved">>,
   <<"validated", "rejected">>, <<"approved", "execution_blocked">>,
   <<"approved", "executed">>, <<"executed", "verified">>, <<"executed", "failed">>}

(* store.transition, which throws on an illegal move or a pruned intent.   *)
CreditMoved(i, target) == IF CreditStep(i, target) THEN [cst EXCEPT ![i] = target] ELSE cst

In(c, pc) == at[c].pc = pc
Now(c) == at[c].intent

Go(c, pc, i) == at' = [at EXCEPT ![c] = [pc |-> pc, intent |-> i]]

(* The handler answers or throws, and leaves the intent as `target`.       *)
Reply(c, target) ==
  /\ at' = [at EXCEPT ![c] = Unsuspended]
  /\ cst' = CreditMoved(Now(c), target)

Throw(c) == at' = [at EXCEPT ![c] = Unsuspended] /\ UNCHANGED cst

(* resolveCreditTransferApprovalPolicy, on what WHMCS answers now.         *)
FinanceRequired == FinanceAlways \/ (taxed /\ FinanceWhenTaxed)

-----------------------------------------------------------------------------
(* transfer_client_credit: draft, await the validation context, await the  *)
(* tax setting, approve for itself and execute.                            *)

BeginTransferTool(c, i) ==
  /\ In(c, "idle")
  /\ cst[i] = "undrafted"
  /\ cst' = [cst EXCEPT ![i] = "draft"]
  /\ Go(c, "tool_validating", i)
  /\ UNCHANGED <<approvedBy, files, around>>

(* A consumer that may not execute stops with a validated intent.          *)
ToolValidated(c) ==
  /\ In(c, "tool_validating")
  /\ \/ \E target \in {"rejected", "validated"} : Reply(c, target)
     \/ /\ CreditStep(Now(c), "validated")
        /\ cst' = CreditMoved(Now(c), "validated")
        /\ Go(c, "tool_taxing", Now(c))
  /\ UNCHANGED <<approvedBy, files, around>>

(* Up to the await of executeRun, or to its denial of the scope.           *)
ToolTaxed(c) ==
  /\ In(c, "tool_taxing")
  /\ \/ Throw(c)
     \/ /\ ~FinanceRequired /\ CreditStep(Now(c), "approved")
        /\ \/ /\ cst' = [cst EXCEPT ![Now(c)] = "approved"]
              /\ Go(c, "taxing", Now(c))
           \/ /\ cst' = [cst EXCEPT ![Now(c)] = "execution_blocked"]
              /\ at' = [at EXCEPT ![c] = Unsuspended]
  /\ UNCHANGED <<approvedBy, files, around>>

-----------------------------------------------------------------------------
(* The tools of WriteFlow, as far as a transfer needs them.                *)

(* draft_write_intent and validate_write_intent.                           *)
DraftTransfer(i) ==
  /\ cst[i] = "undrafted"
  /\ cst' = [cst EXCEPT ![i] = "validated"]
  /\ UNCHANGED <<approvedBy, files, around, at>>

ApproveTransfer(i, who) ==
  /\ cst[i] = "validated"
  /\ \/ /\ cst' = CreditMoved(i, "approved")
        /\ approvedBy' = [approvedBy EXCEPT ![i] = who]
     \/ cst' = CreditMoved(i, "rejected") /\ UNCHANGED approvedBy
  /\ UNCHANGED <<files, around, at>>

(* executeRun up to getCreditTransferTaxPolicy, or the scope was revoked.  *)
ExecuteTransfer(c, i) ==
  /\ In(c, "idle")
  /\ cst[i] = "approved"
  /\ \/ Go(c, "taxing", i) /\ UNCHANGED cst
     \/ cst' = CreditMoved(i, "execution_blocked") /\ UNCHANGED at
  /\ UNCHANGED <<approvedBy, files, around>>

-----------------------------------------------------------------------------
(* The branch of executeRun, from one await to the next.                   *)

WithinTransferCaps(i) ==
  /\ Move[i].amount <= TransferCap
  /\ spent + Move[i].amount <= TransferDailyCap

(* defaultExecutionAuthorizer with allowHighRiskSelfApproval unless finance*)
(* is required, then the check of the finance approver.  The intent was    *)
(* read as approved before the await.                                      *)
AuthorizedTransfer(i) ==
  /\ Move[i].key \notin keys
  /\ approvedBy[i] # Drafter
  /\ WithinTransferCaps(i)
  /\ FinanceRequired => approvedBy[i] \in FinanceApprovers

(* Denied, or the audit log cannot be written: execution_blocked.  A move  *)
(* that is no longer legal throws, as does a failed read of the setting.   *)
TaxAnswered(c) ==
  LET i == Now(c) IN
  /\ In(c, "taxing")
  /\ \/ Throw(c)
     \/ Reply(c, "execution_blocked")
     \/ /\ AuthorizedTransfer(i)
        /\ CreditStep(i, "executed")
        /\ cst' = CreditMoved(i, "executed")
        /\ Go(c, IF FinanceRequired THEN "waiting_finance" ELSE "waiting", i)
  /\ UNCHANGED <<approvedBy, files, around>>

(* executeClientCreditTransfer threw: no ledger entry, and no amount.      *)
TransferThrows(c) ==
  /\ Reply(c, "failed")
  /\ UNCHANGED <<keys, spent>>

\* Variant with a defect: a final state that cannot be stored loses the amount.
TransferReturnsLate(c, state) ==
  LET i == Now(c)
      final == CASE state = "completed" -> "verified"
                 [] state = "compensated" -> "failed"
                 [] OTHER -> cst[i]
  IN
  /\ keys' = keys \cup {Move[i].key}
  /\ Reply(c, final)
  /\ spent' = IF state = "completed" /\ CreditStep(i, final)
              THEN spent + Move[i].amount ELSE spent

(* It returned a record in `state`: ledger, daily amount, final state.     *)
(* One that needs repair leaves the intent executed.                       *)
TransferReturns(c, state) ==
  LET i == Now(c) IN
  /\ keys' = keys \cup {Move[i].key}
  /\ spent' = IF state = "completed" THEN spent + Move[i].amount ELSE spent
  /\ Reply(c, CASE state = "completed" -> "verified"
                 [] state = "compensated" -> "failed"
                 [] OTHER -> cst[i])

(* The lock is ours: the record of the request, if there is one, answers.  *)
ConsultRecord(c) ==
  LET i == Now(c)
      r == record[Move[i].request]
      known == r.state = "completed" /\ r.amount = Move[i].amount
      next == IF In(c, "waiting") THEN "reading" ELSE "reading_finance"
  IN
  /\ In(c, "waiting") \/ In(c, "waiting_finance")
  /\ \/ r = Unrecorded /\ Go(c, next, i) /\ UNCHANGED <<cst, keys, spent>>
     \/ r # Unrecorded /\ known /\ TransferReturns(c, "completed")
     \/ r # Unrecorded /\ ~known /\ TransferThrows(c)
  /\ UNCHANGED <<approvedBy, record, around>>

(* Clients and invoices are read: the record is put, unless a read fails,  *)
(* a check refuses or another execution has put it.                        *)
PutRecord(c) ==
  LET i == Now(c)
      by == IF In(c, "reading") THEN Drafter ELSE approvedBy[i]
  IN
  /\ In(c, "reading") \/ In(c, "reading_finance")
  /\ \/ /\ record[Move[i].request] = Unrecorded
        /\ record' = [record EXCEPT ![Move[i].request] =
             [state |-> "open", amount |-> Move[i].amount, by |-> by]]
        /\ Go(c, "moving", i)
        /\ UNCHANGED <<cst, keys, spent>>
     \/ TransferThrows(c) /\ UNCHANGED record
  /\ UNCHANGED <<approvedBy, around>>

(* The transfer ends in a record, or throws and leaves it open.            *)
Conclude(c) ==
  /\ In(c, "moving")
  /\ \/ \E state \in Settled :
          /\ record' = [record EXCEPT ![Move[Now(c)].request].state = state]
          /\ TransferReturns(c, state)
     \/ TransferThrows(c) /\ UNCHANGED record
  /\ UNCHANGED <<approvedBy, around>>

-----------------------------------------------------------------------------
(* Expiry, WHMCS's own settings, crashes.                                  *)

PruneTransfer(i) ==
  /\ cst[i] \notin {"undrafted", "gone"}
  /\ cst' = [cst EXCEPT ![i] = "gone"]
  /\ UNCHANGED <<approvedBy, files, around, at>>

ExpireKey(key) ==
  /\ key \in keys
  /\ keys' = keys \ {key}
  /\ UNCHANGED <<cst, approvedBy, spent, record, at, around>>

SetTax ==
  /\ taxEdits + creditCrashes < MaxMishaps
  /\ taxEdits' = taxEdits + 1
  /\ taxed' = ~taxed
  /\ UNCHANGED <<cst, approvedBy, files, at, creditCrashes>>

\* What a transfer under way may have made of the records.
Concluded ==
  {[record EXCEPT ![Move[Now(c)].request].state = state] :
     c \in {d \in CreditCalls : In(d, "moving")}, state \in Settled}

(* Also between the record of a transfer and what executeRun does with it. *)
(* A snapshot of the intents that is torn loads as empty, as do intents,   *)
(* ledger and total whose paths are not set.                               *)
CrashTransfers ==
  /\ taxEdits + creditCrashes < MaxMishaps
  /\ creditCrashes' = creditCrashes + 1
  /\ approvedBy' = [i \in CreditIntents |-> Nobody]
  /\ at' = [c \in CreditCalls |-> Unsuspended]
  /\ record' \in IF RecordsOnDisk THEN {record} \cup Concluded ELSE {NoRecords}
  /\ cst' \in {cst, [i \in CreditIntents |-> IF cst[i] = "undrafted" THEN cst[i] ELSE "gone"]}
  /\ keys' \in {keys, {}}
  /\ spent' \in {spent, 0}
  /\ UNCHANGED <<taxed, taxEdits>>

CreditInit ==
  /\ cst = [i \in CreditIntents |-> "undrafted"]
  /\ approvedBy = [i \in CreditIntents |-> Nobody]
  /\ taxed \in BOOLEAN
  /\ keys = {}
  /\ spent = 0
  /\ record = NoRecords
  /\ at = [c \in CreditCalls |-> Unsuspended]
  /\ taxEdits = 0
  /\ creditCrashes = 0

CreditNext ==
  \/ \E c \in CreditCalls, i \in CreditIntents : BeginTransferTool(c, i) \/ ExecuteTransfer(c, i)
  \/ \E c \in CreditCalls :
       \/ ToolValidated(c) \/ ToolTaxed(c) \/ TaxAnswered(c)
       \/ ConsultRecord(c) \/ PutRecord(c) \/ Conclude(c)
  \/ \E i \in CreditIntents : DraftTransfer(i) \/ PruneTransfer(i)
  \/ \E i \in CreditIntents, who \in CreditApprovers : ApproveTransfer(i, who)
  \/ \E i \in CreditIntents : ExpireKey(Move[i].key)
  \/ SetTax
  \/ CrashTransfers

CreditSpec == CreditInit /\ [][CreditNext]_creditVars

-----------------------------------------------------------------------------
(* Properties.                                                             *)

Transferred == {r \in RequestIds : record[r].state = "completed"}

(* The part of TransfersAccounted about records:                           *)
(*  - a verified intent's request has a completed transfer, unless a crash *)
(*    lost the records;                                                    *)
(*  - no request whose intents all were refused has a record;              *)
(*  - with finance approval required throughout, none is the drafter's own.*)
RecordsHonest ==
  /\ RecordsOnDisk \/ creditCrashes = 0 =>
       \A i \in CreditIntents : cst[i] = "verified" => Move[i].request \in Transferred
  /\ \A r \in RequestIds : record[r] # Unrecorded =>
       \E i \in CreditIntents :
         Move[i].request = r /\ cst[i] \in {"executed", "verified", "failed", "gone"}
  /\ FinanceRequired /\ (FinanceAlways \/ taxEdits = 0) => \A r \in RequestIds : record[r].by # Drafter

(* The money of the completed transfers.                                   *)
MovedMoney == SumFunction([r \in Transferred |-> record[r].amount])

(* What the tools say of a transfer is true of its record, and the money   *)
(* they moved stays in sight of the daily cap, whichever executions of one *)
(* request or one intent overlap while the tax setting is read, a lock     *)
(* awaited or a transfer made, and although an intent may expire or be     *)
(* approved meanwhile, and a ledger entry expire: unless a crash came      *)
(* between, the day's total holds every transfer.                          *)
TransfersAccounted ==
  /\ RecordsHonest
  /\ creditCrashes = 0 => spent >= MovedMoney
=============================================================================
