---------------------------- MODULE MCStaffJobs ----------------------------
(* Calls of ops_ask about two clients, of whom one may have a second user,  *)
(* or a user that the other shares.                                         *)
EXTENDS StaffJobs

JobRow(list, id, who, state, of) ==
  [list |-> list, id |-> id, who |-> who, state |-> state, of |-> of]

MCUsers == [two |-> <<"ann", "ann">>, shared |-> <<"ann", "bob">>]

MCAccounts ==
  {JobRow("clients", "c1", "ann", "mail", of) : of \in {"none", "two", "shared"}}
    \cup {JobRow("clients", "c2", "bob", "alike", "none")}

MCOverdue ==
  {JobRow("invoices", "i1", "ann", "overdue", "none"),
   JobRow("invoices", "i2", "bob", "overdue", "none"),
   JobRow("invoices", "i3", "ann", "overdue", "none")}

MCSignals ==
  {JobRow("invoices", "i1", "ann", "unpaid", "none"),
   JobRow("invoices", "i1", "ann", "overdue", "none"),
   JobRow("tickets", "k1", "ann", "open", "none"),
   JobRow("services", "s2", "ann", "suspended", "none")}

MCJobRows == MCAccounts \cup MCOverdue \cup MCSignals

MCOthersDo == MCAccounts \cup MCSignals

(* Of one client all signals, or the installation's overdue invoices, or    *)
(* the clients alone.                                                       *)
MCJobWorlds ==
  {w \in SUBSET MCAccounts \cup SUBSET MCOverdue
          \cup {s \cup {JobRow("clients", "c1", "ann", "mail", "none")} : s \in SUBSET MCSignals} :
     \A r, s \in w : r.id = s.id => r = s}

MCJobs == StaffJobs \cup CustomerJobs \cup {"credit_notes"}

JobCall(job, consumer, sub, permitted, email, clientid) ==
  [job |-> job, consumer |-> consumer, sub |-> sub, permitted |-> permitted,
   email |-> email, clientid |-> clientid]

MCJobCalls ==
  {JobCall(j, "desk", "none", TRUE, e, c) :
     j \in {"next_best_action"}, e \in BOOLEAN, c \in {"none", "ann", "bob"}}
  \cup {JobCall(j, "desk", "none", TRUE, FALSE, "ann") : j \in ClientJobs}
  \cup {JobCall(j, "desk", "none", TRUE, FALSE, "none") : j \in MCJobs}
  \cup {JobCall(j, "portal", s, TRUE, FALSE, "none") :
          j \in {"overdue_digest", "handoff_pack"}, s \in {"operator", "visitor"}}
  \cup {JobCall("overdue_digest", "desk", "none", FALSE, FALSE, "none")}
============================================================================
