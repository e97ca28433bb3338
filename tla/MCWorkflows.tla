---------------------------- MODULE MCWorkflows ----------------------------
(* Rows of two clients in each of the lists, a few lists at a time, and    *)
(* pages of two rows.                                                      *)
EXTENDS Workflows

Row(list, id, who, state, of) ==
  [list |-> list, id |-> id, who |-> who, state |-> state, of |-> of]

MCBilling ==
  {Row("invoices", "i1", "ann", "unpaid", "none"),
   Row("invoices", "i1", "ann", "overdue", "none"),
   Row("invoices", "i1", "ann", "paid", "none"),
   Row("invoices", "i2", "bob", "unpaid", "none"),
   Row("transactions", "t1", "ann", "in", "i1"),
   Row("transactions", "t2", "ann", "in", "i1")}

MCServices ==
  {Row("invoices", "i1", "ann", "unpaid", "none"),
   Row("services", "s1", "ann", "due", "none"),
   Row("services", "s1", "ann", "risk", "none"),
   Row("services", "s2", "ann", "suspended", "none"),
   Row("domains", "d1", "ann", "risk", "none"),
   Row("orders", "o1", "ann", "serve", "none")}

MCPeople ==
  {Row("clients", "c1", "ann", "mail", "none"),
   Row("clients", "c2", "bob", "alike", "none"),
   Row("tickets", "k1", "ann", "open", "none"),
   Row("tickets", "k2", "bob", "open", "none"),
   Row("prices", "p1", "nobody", "any", "none")}

MCRows == MCBilling \cup MCServices \cup MCPeople

MCWorlds ==
  {w \in SUBSET MCBilling \cup SUBSET MCServices \cup SUBSET MCPeople :
     /\ Cardinality(w) <= IF w \subseteq MCBilling THEN 3 ELSE 2
     /\ \A r, s \in w : r.id = s.id => r = s}

MCReports ==
  {"get_account_360", "get_billing_snapshot", "get_support_snapshot",
   "get_renewal_snapshot", "get_domain_portfolio_snapshot",
   "get_accounts_receivable_aging", "get_activity_timeline",
   "get_reconciliation_snapshot", "get_provisioning_snapshot",
   "get_risk_snapshot", "get_service_lifecycle", "get_revenue_report",
   "get_reconciliation_export"}

MCGranted ==
  {{"client_note:write", "ticket:create", "ticket:note", "client:create", "service:suspend"},
   {"billing:credit:add", "ticket:status"}}
=============================================================================
