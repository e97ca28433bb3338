---------------------------- MODULE OwnerTransfer ----------------------------
(***************************************************************************)
(* executeServiceTransferBatch (src/tools/writeFlow.ts) and runServiceMoves *)
(* (src/write/transferCascade.ts): services, their addons and invoices     *)
(* change owner in one transaction of WHMCS's own database.                *)
(*                                                                         *)
(* External: InnoDB at REPEATABLE READ.  Plain SELECTs see the snapshot of *)
(* the first one; SELECT ... FOR UPDATE and UPDATE see what is committed   *)
(* and hold the row until the transaction ends; who waits may be rolled    *)
(* back.  Addons and SSL orders go with the row of their service.          *)
(***************************************************************************)
EXTENDS Naturals, FiniteSets

CONSTANTS
  Transfers,   \* intents of scope service:transfer_owner
  Executions,  \* tool invocations that may be suspended at once
  Clients,
  Hosting,     \* services of WHMCS
  Invoices,    \* rows of tblinvoices, existing or not yet
  Wanted,      \* each intent's source, dest, services, mode and dry_run
  FirstOwner,  \* the owner of each service at first
  FirstInvoices, \* the invoices at first: owner, lines, paid
  MaxOutside,  \* bound on the steps of others
  MaxBatch,    \* MCP_TRANSFER_MAX_BATCH
  Free         \* nobody holds the row

Row == Hosting \cup Invoices

(* The lines of an invoice: hosting lines name a service, others do not.   *)
Lines == SUBSET (Hosting \cup {"other"})

InvoiceRow == [owner : Clients, lines : Lines, paid : BOOLEAN]

TransferAssumption ==
  /\ Wanted \in [Transfers -> [source : Clients, dest : Clients,
                               services : SUBSET Hosting,
                               mode : {"none", "unpaid_only", "all"}, dry : BOOLEAN]]
  /\ \A t \in Transfers : Wanted[t].source # Wanted[t].dest /\ Wanted[t].services # {}
  /\ FirstOwner \in [Hosting -> Clients]
  /\ DOMAIN FirstInvoices \subseteq Invoices
  /\ \A i \in DOMAIN FirstInvoices : FirstInvoices[i] \in InvoiceRow
  /\ {MaxOutside, MaxBatch} \subseteq Nat
  /\ Free \notin Executions

ASSUME TransferAssumption

VARIABLES
  tst,      \* the state of each intent
  owner,    \* committed: tblhosting.userid
  invoice,  \* committed: tblinvoices with its items
  holder,   \* who holds the lock of each row
  tx,       \* where each execution stands
  outside,  \* steps of others so far
  late      \* history: invoices raised while an execution was in flight

transferVars == <<tst, owner, invoice, holder, tx, outside, late>>

NoTx == [at |-> "idle", of |-> Free, scope |-> {}, locked |-> {}, moved |-> {},
         failed |-> FALSE]

Of(x) == Wanted[tx[x].of]

TransferMoved(t, target) == IF tst[t] = "approved" THEN [tst EXCEPT ![t] = target] ELSE tst

Released(x) == [r \in Row |-> IF holder[r] = x THEN Free ELSE holder[r]]

(* The transaction is over without a change, and the intent is `target`.   *)
Leave(x, target) ==
  /\ tst' = TransferMoved(tx[x].of, target)
  /\ tx' = [tx EXCEPT ![x] = NoTx]
  /\ holder' = Released(x)
  /\ UNCHANGED <<owner, invoice>>

-----------------------------------------------------------------------------
(* Phase 1.                                                                *)

(* The gate denies, the database is not configured, the batch is too big.  *)
RefuseTransfer(t) ==
  /\ tst[t] = "approved"
  /\ tst' = [tst EXCEPT ![t] = "execution_blocked"]
  /\ UNCHANGED <<owner, invoice, holder, tx, outside, late>>

InScope(t) ==
  {i \in DOMAIN invoice :
     /\ invoice[i].lines \cap Wanted[t].services # {}
     /\ \/ Wanted[t].mode = "all"
        \/ Wanted[t].mode = "unpaid_only" /\ ~invoice[i].paid}

(* The SELECTs of clients, services and invoices, all of one snapshot.     *)
Preflight(x, t) ==
  /\ tx[x].at = "idle"
  /\ tst[t] = "approved"
  /\ Cardinality(Wanted[t].services) <= MaxBatch
  /\ IF \A s \in Wanted[t].services : owner[s] = Wanted[t].source
     THEN /\ tx' = [tx EXCEPT ![x] = [NoTx EXCEPT !.at = "locking", !.of = t,
                                                  !.scope = InScope(t)]]
          /\ UNCHANGED tst
     ELSE /\ tst' = TransferMoved(t, "execution_blocked")
          /\ UNCHANGED tx
  /\ UNCHANGED <<owner, invoice, holder, outside, late>>

\* Variant with a defect: only the owner of the invoice is compared.
MixedOwner(t, i) == invoice[i].owner # Wanted[t].source

(* An invoice that is not wholly about the selected services of the source.*)
Mixed(t, i) ==
  \/ invoice[i].owner # Wanted[t].source
  \/ invoice[i].lines = {}
  \/ ~(invoice[i].lines \subseteq Wanted[t].services)

Grabbed(x, r) == holder[r] = Free /\ holder' = [holder EXCEPT ![r] = x]

(* SELECT ... FOR UPDATE of an invoice and its items.                      *)
LockInvoice(x, i) ==
  /\ tx[x].at = "locking"
  /\ i \in tx[x].scope \ tx[x].locked
  /\ Grabbed(x, i)
  /\ tx' = [tx EXCEPT ![x].locked = @ \cup {i}, ![x].failed = @ \/ Mixed(tx[x].of, i)]
  /\ UNCHANGED <<tst, owner, invoice, outside, late>>

(* All invoices are locked: mixed_invoice_scope, dry_run, or on to phase 2 *)
(* with a durable audit event, whose failure is thrown.                    *)
EndPreflight(x) ==
  /\ tx[x].at = "locking"
  /\ tx[x].locked = tx[x].scope
  /\ \/ tx[x].failed /\ Leave(x, "execution_blocked")
     \/ ~tx[x].failed /\ Leave(x, "approved")
     \/ /\ ~tx[x].failed /\ ~Of(x).dry
        /\ tx' = [tx EXCEPT ![x].at = "moving"]
        /\ UNCHANGED <<tst, owner, invoice, holder>>
  /\ UNCHANGED <<outside, late>>

-----------------------------------------------------------------------------
(* Phase 2.                                                                *)

\* Variant with a defect: no row was updated, and nobody looks.
MoveUnchecked(x, s) ==
  /\ tx[x].at = "moving"
  /\ s \in Of(x).services \ tx[x].moved
  /\ Grabbed(x, s)
  /\ tx' = [tx EXCEPT ![x].moved = @ \cup {s}]
  /\ UNCHANGED <<tst, owner, invoice, outside, late>>

(* The UPDATEs of one service: no row of the source, TransferRollback.     *)
MoveService(x, s) ==
  /\ tx[x].at = "moving"
  /\ s \in Of(x).services \ tx[x].moved
  /\ IF owner[s] = Of(x).source
     THEN /\ Grabbed(x, s)
          /\ tx' = [tx EXCEPT ![x].moved = @ \cup {s}]
          /\ UNCHANGED <<tst, owner, invoice>>
     ELSE /\ holder[s] = Free
          /\ Leave(x, "execution_blocked")
  /\ UNCHANGED <<outside, late>>

(* What COMMIT makes visible: rows of the source, and only those, moved.   *)
Committed(x) ==
  /\ owner' = [s \in Hosting |->
                 IF s \in tx[x].moved /\ owner[s] = Of(x).source
                 THEN Of(x).dest ELSE owner[s]]
  /\ invoice' = [i \in DOMAIN invoice |->
                   IF i \in tx[x].scope /\ invoice[i].owner = Of(x).source
                   THEN [invoice[i] EXCEPT !.owner = Of(x).dest] ELSE invoice[i]]

Commit(x) ==
  /\ tx[x].at = "moving"
  /\ tx[x].moved = Of(x).services
  /\ Committed(x)
  /\ holder' = Released(x)
  /\ tx' = [tx EXCEPT ![x].at = "committed"]
  /\ UNCHANGED <<tst, outside, late>>

(* The answer to COMMIT arrives, or never does and the executor throws.    *)
CommitAnswered(x) ==
  /\ tx[x].at = "committed"
  /\ tst' \in {tst, TransferMoved(tx[x].of, "executed")}
  /\ tx' = [tx EXCEPT ![x] = NoTx]
  /\ UNCHANGED <<owner, invoice, holder, outside, late>>

(* A deadlock, a lock timeout, a lost connection or a crash: rolled back.  *)
TransactionFails(x) ==
  /\ tx[x].at \in {"locking", "moving"}
  /\ Leave(x, "approved")
  /\ UNCHANGED <<outside, late>>

-----------------------------------------------------------------------------
(* Others who work in WHMCS, one row at a time.                            *)

Others(rows) ==
  /\ outside < MaxOutside
  /\ outside' = outside + 1
  /\ \A r \in rows : holder[r] = Free
  /\ UNCHANGED <<tst, holder, tx>>

(* A service that shares no invoice gets another owner, with its invoices. *)
Reassign(s, to) ==
  LET own == {i \in DOMAIN invoice : s \in invoice[i].lines} IN
  /\ \A i \in own : invoice[i].lines = {s}
  /\ Others({s} \cup own)
  /\ owner' = [owner EXCEPT ![s] = to]
  /\ invoice' = [i \in DOMAIN invoice |->
                   IF i \in own THEN [invoice[i] EXCEPT !.owner = to] ELSE invoice[i]]
  /\ UNCHANGED late

(* An invoice is raised for services of one owner.                         *)
Raise(i, lines) ==
  /\ Others({})
  /\ i \notin DOMAIN invoice
  /\ \E u \in Clients :
       /\ \A s \in lines \ {"other"} : owner[s] = u
       /\ invoice' = [j \in DOMAIN invoice \cup {i} |->
                        IF j = i THEN [owner |-> u, lines |-> lines, paid |-> FALSE]
                        ELSE invoice[j]]
  /\ late' = IF \E x \in Executions : tx[x].at \in {"locking", "moving"}
             THEN late \cup {i} ELSE late
  /\ UNCHANGED owner

Pay(i) ==
  /\ Others({i})
  /\ i \in DOMAIN invoice
  /\ invoice' = [invoice EXCEPT ![i].paid = TRUE]
  /\ UNCHANGED <<owner, late>>

TransferInit ==
  /\ tst = [t \in Transfers |-> "approved"]
  /\ owner = FirstOwner
  /\ invoice = FirstInvoices
  /\ holder = [r \in Row |-> Free]
  /\ tx = [x \in Executions |-> NoTx]
  /\ outside = 0
  /\ late = {}

TransferNext ==
  \/ \E t \in Transfers : RefuseTransfer(t)
  \/ \E x \in Executions, t \in Transfers : Preflight(x, t)
  \/ \E x \in Executions, i \in Invoices : LockInvoice(x, i)
  \/ \E x \in Executions, s \in Hosting : MoveService(x, s)
  \/ \E x \in Executions :
       EndPreflight(x) \/ Commit(x) \/ CommitAnswered(x) \/ TransactionFails(x)
  \/ \E s \in Hosting, to \in Clients : Reassign(s, to)
  \/ \E i \in Invoices, lines \in Lines \ {{}} : Raise(i, lines)
  \/ \E i \in Invoices : Pay(i)

TransferSpec == TransferInit /\ [][TransferNext]_transferVars

-----------------------------------------------------------------------------
(* Properties.                                                             *)

(* README, Atomicity: a commit finds every service with the source and     *)
(* leaves all of them with the destination, however others moved services  *)
(* between the preflight and the last UPDATE.                              *)
TransferWhole ==
  [][\A x \in Executions :
       tx[x].at = "moving" /\ tx'[x].at = "committed" =>
         \A s \in Of(x).services : owner[s] = Of(x).source /\ owner'[s] = Of(x).dest]_transferVars

(* When every intent takes invoices along, no unpaid invoice is left whose *)
(* services belong to somebody else, but those raised while a transaction  *)
(* that did not see them was in flight; with `all`, no paid one either.    *)
InvoicesFollow ==
  \A i \in DOMAIN invoice \ late :
    /\ \A t \in Transfers : Wanted[t].mode \in (IF invoice[i].paid THEN {} ELSE {"unpaid_only"})
                                               \cup {"all"}
    => \A s \in invoice[i].lines \ {"other"} : owner[s] = invoice[i].owner
=============================================================================
