---------------------------- MODULE Aggregators ----------------------------
(***************************************************************************)
(* The read-only aggregators (src/tools/aggregators.ts): which lists each  *)
(* of the thirteen tools reads, in which order, what it keeps of them and  *)
(* which of its sections say when a page was full.  Refusals before the    *)
(* first read (auth, client mode, rate limit) change nothing.              *)
(*                                                                         *)
(* States of rows: services "due" soon, due and at "risk", "suspended" or  *)
(* "active"; domains expiring "soon", at "risk" or "late"; invoices        *)
(* "unpaid", "overdue", "paid" within a report's window or "settled"       *)
(* before; orders that "serve" the service asked for or "other" ones;      *)
(* transactions "in", "out" or "old".                                      *)
(***************************************************************************)
EXTENDS SectionReads

CONSTANTS
  Clients,  \* clientid of the callers
  Reports,  \* aggregators that are called
  Touched   \* rows that others change meanwhile

Aggregates ==
  {"get_account_360", "get_billing_snapshot", "get_support_snapshot", "get_renewal_snapshot",
   "get_domain_portfolio_snapshot", "get_accounts_receivable_aging", "get_activity_timeline",
   "get_reconciliation_snapshot", "get_provisioning_snapshot", "get_risk_snapshot",
   "get_service_lifecycle", "get_revenue_report", "get_reconciliation_export"}

ASSUME CalledAggregates == Reports \subseteq Aggregates /\ Touched \subseteq Rows

VARIABLES
  report,     \* the aggregator that runs, or "none"
  client    \* the clientid it is asked for

callVars == <<report, client>>
aggregateVars == <<worldVars, readVars, callVars>>

Open == {"unpaid", "overdue"}

\* A section with a read of one list.
Section(section, list, states, keep, flagged) ==
  {Query(section, list, states, keep, flagged)}

ClientDetails == Section("client", "clients", AnyState, AnyState, FALSE)
TicketsOf == Section("tickets", "tickets", AnyState, AnyState, FALSE)
OrdersOf == Section("orders", "orders", AnyState, AnyState, FALSE)
InvoicesOf == Section("invoices", "invoices", AnyState, AnyState, FALSE)
Transactions(keep, flagged) == Section("transactions", "transactions", AnyState, keep, flagged)

Account360 ==
  <<ClientDetails, Section("services", "services", AnyState, AnyState, FALSE),
    Section("domains", "domains", AnyState, AnyState, FALSE), InvoicesOf, OrdersOf, TicketsOf>>

BillingSnapshot ==
  <<ClientDetails, Section("unpaid", "invoices", Open, AnyState, FALSE),
    Section("overdue", "invoices", {"overdue"}, AnyState, FALSE)>>

(* Departments are read for everybody, whoever asks.                       *)
SupportSnapshot == <<Section("departments", "departments", AnyState, AnyState, FALSE), TicketsOf>>

RenewalSnapshot ==
  <<Section("services", "services", AnyState, {"due", "risk"}, TRUE),
    Section("domains", "domains", AnyState, {"soon", "risk"}, TRUE)>>

DomainPortfolioSnapshot ==
  <<Section("tld_pricing", "prices", AnyState, AnyState, FALSE),
    Section("domains", "domains", AnyState, AnyState, TRUE)>>

(* Both lists at once: an overdue invoice may be in either.                *)
AccountsReceivableAging ==
  <<Section("invoices", "invoices", Open, AnyState, FALSE)
      \cup Section("invoices", "invoices", {"overdue"}, AnyState, FALSE)>>

ActivityTimeline ==
  <<Section("activity", "activity", AnyState, AnyState, FALSE), InvoicesOf, OrdersOf>>

(* GetTransactions is read if the capability registry has it as supported. *)
ReconciliationSnapshot(supported) ==
  IF supported THEN <<InvoicesOf, Transactions(AnyState, TRUE)>> ELSE <<InvoicesOf>>

ProvisioningSnapshot == <<Section("services", "services", AnyState, AnyState, FALSE), OrdersOf>>

RiskSnapshot ==
  <<Section("overdue", "invoices", {"overdue"}, AnyState, FALSE),
    Section("suspended_services", "services", AnyState, {"suspended"}, FALSE)>>

ServiceLifecycle ==
  <<Section("service", "services", AnyState, AnyState, FALSE),
    Section("orders", "orders", AnyState, {"serve"}, FALSE)>>

RevenueReport(supported) ==
  <<Section("invoices", "invoices", {"paid", "settled"}, {"paid"}, FALSE)>>
    \o (IF supported THEN <<Transactions({"in", "out"}, FALSE)>> ELSE <<>>)

ReconciliationExport(supported) ==
  <<InvoicesOf>> \o (IF supported THEN <<Transactions(AnyState, FALSE)>> ELSE <<>>)

Groups(t, supported) ==
  CASE t = "get_account_360" -> Account360
    [] t = "get_billing_snapshot" -> BillingSnapshot
    [] t = "get_support_snapshot" -> SupportSnapshot
    [] t = "get_renewal_snapshot" -> RenewalSnapshot
    [] t = "get_domain_portfolio_snapshot" -> DomainPortfolioSnapshot
    [] t = "get_accounts_receivable_aging" -> AccountsReceivableAging
    [] t = "get_activity_timeline" -> ActivityTimeline
    [] t = "get_reconciliation_snapshot" -> ReconciliationSnapshot(supported)
    [] t = "get_provisioning_snapshot" -> ProvisioningSnapshot
    [] t = "get_risk_snapshot" -> RiskSnapshot
    [] t = "get_service_lifecycle" -> ServiceLifecycle
    [] t = "get_revenue_report" -> RevenueReport(supported)
    [] t = "get_reconciliation_export" -> ReconciliationExport(supported)

(* Lists of the installation, which no clientid narrows.                   *)
Global == {"departments", "prices"}

For(group, c) ==
  {[q EXCEPT !.who = IF q.list \in Global THEN "all" ELSE c] : q \in group}

Queries(t, c, supported) ==
  LET groups == Groups(t, supported) IN [i \in DOMAIN groups |-> For(groups[i], c)]

-----------------------------------------------------------------------------
(* The analysis of get_reconciliation_snapshot.                            *)

Receipts(txns) == {t \in txns : t.state \in {"in", "old"}}

\* Variant with a defect: an invoice in the overdue state is not unpaid.
UnpaidThoughUnpaidOnly(txns, invoices) ==
  {i \in invoices : i.state = "unpaid" /\ \E t \in txns : t.of = i.id /\ t.state = "in"}

(* unpaid_with_recent_payment: a recent receipt for an invoice still open. *)
UnpaidThoughPaid(txns, invoices) ==
  {i \in invoices : i.state \in Open /\ \E t \in txns : t.of = i.id /\ t.state = "in"}

(* duplicate_risk: receipts for one invoice, of one amount, days apart.    *)
DuplicateRisk(txns) ==
  {t \in Receipts(txns) : \E u \in Receipts(txns) \ {t} : u.of = t.of /\ u.state = t.state}

-----------------------------------------------------------------------------

Call(t, c) ==
  /\ report = "none"
  /\ report' = t
  /\ client' = c
  /\ \E supported \in BOOLEAN : Begin(Queries(t, c, supported))

ReadOn ==
  /\ Settle
  /\ UNCHANGED <<world, steady, moves, callVars>>

Move(r) == Others(r) /\ UNCHANGED callVars

AggregatesInit == ReadsInit /\ report = "none" /\ client = "all"

AggregatesNext ==
  \/ \E t \in Reports, c \in Clients : Call(t, c)
  \/ ReadOn
  \/ \E r \in Touched : Move(r)

AggregatesSpec == AggregatesInit /\ [][AggregatesNext]_aggregateVars

-----------------------------------------------------------------------------
(* Properties.                                                             *)

Done == report # "none" /\ pending = <<>>

(* The queries that the answer had a section for.                          *)
Sections(supported) == UNION Range(Queries(report, client, supported))

Composed == "transactions" \in DOMAIN got

(* What an answer lacks is explained: a row that was there, unchanged, for *)
(* the whole call and that its section keeps is in the answer, unless the  *)
(* section failed and says so, or its page was full, which it says where a *)
(* flag is computed; an open invoice with a recent receipt is flagged.     *)
AbsenceExplained ==
  Done =>
    /\ \A q \in Sections(Composed) : Expected(q) \subseteq got[q.section] \/ Explained(q)
    /\ report = "get_reconciliation_snapshot" /\ Composed =>
         LET of(list) == {r \in steady : r.list = list /\ r.who = client} IN
         \/ {i \in of("invoices") : i.state \in Open
               /\ \E t \in of("transactions") : t.state = "in" /\ t.of = i.id}
              \subseteq UnpaidThoughPaid(got["transactions"], got["invoices"])
         \/ \E q \in Sections(TRUE) : Explained(q)
=============================================================================
