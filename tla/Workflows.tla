----------------------------- MODULE Workflows -----------------------------
(***************************************************************************)
(* The six workflow tools (src/tools/workflows.ts): each reads lists like  *)
(* an aggregator and drafts write intents for what it finds.  Nothing is   *)
(* validated, approved or executed here.  A draft that the consumer or its *)
(* scopes do not allow is skipped, and the answer says so.                 *)
(* Besides the states of rows of Aggregators: "open" tickets, clients that *)
(* have the "mail" asked for or are "alike" to GetClients' search.         *)
(***************************************************************************)
EXTENDS Aggregators

CONSTANTS
  Limit,   \* parameter limit: candidates that a workflow takes at most
  Granted  \* sets of write scopes that the caller may have

ASSUME LimitIsPositive == Limit \in Nat \ {0}

(* Neither an id nor a client has the name of a section.                   *)
ASSUME ItemsApart ==
  \A r \in Rows : {r.id, r.who} \cap {"invoices", "services", "domains", "tickets",
                                       "transactions", "clients", "none"} = {}

VARIABLES
  flow,     \* the workflow that runs, or "none"
  granted,  \* the write scopes of its caller
  goodwill, \* the parameter goodwill_credit
  todo,     \* tickets or clients that are still to be looked into
  item,     \* the one whose read is awaited, or "none"
  drafted,  \* the intents drafted
  skipped,  \* those that were denied
  phase     \* "reading", "items" or "done"

flowVars == <<flow, granted, goodwill, todo, item, drafted, skipped, phase>>
workflowVars == <<worldVars, readVars, callVars, flowVars>>

Flows == {"dunning_sweep", "renewal_risk_triage", "ticket_triage_to_resolution",
          "month_end_close", "suspend_for_nonpayment", "new_client_onboarding"}

FirstReads(w) ==
  CASE w = "dunning_sweep" ->
         <<Section("invoices", "invoices", {"unpaid"}, AnyState, FALSE)
             \cup Section("invoices", "invoices", {"overdue"}, AnyState, FALSE)>>
    [] w = "renewal_risk_triage" ->
         <<Section("services", "services", AnyState, {"due", "risk"}, FALSE),
           Section("domains", "domains", AnyState, {"soon", "risk"}, FALSE)>>
    [] w = "ticket_triage_to_resolution" ->
         <<Section("tickets", "tickets", {"open"}, AnyState, FALSE)>>
    [] w = "month_end_close" -> <<Transactions(AnyState, FALSE), InvoicesOf>>
    [] w = "suspend_for_nonpayment" ->
         <<Section("invoices", "invoices", {"unpaid"}, AnyState, FALSE)>>
    [] w = "new_client_onboarding" ->
         <<Section("clients", "clients", {"mail", "alike"}, AnyState, FALSE)>>

(* The read for one ticket (GetTicket) or one client (GetClientsProducts). *)
ItemRead(i) ==
  IF flow = "suspend_for_nonpayment"
  THEN [Query(i, "services", AnyState, AnyState, FALSE) EXCEPT !.who = i]
  ELSE Query(i, "threads", AnyState, AnyState, FALSE)

Intent(scope, ref) == [scope |-> scope, ref |-> ref]

Owners(rows) == {r.who : r \in rows}
Ids(rows) == {r.id : r \in rows}

(* The first limit candidates, when some of them come before the others.   *)
FirstFew(all, before) ==
  {t \in IF Cardinality(all) <= Limit THEN {all} ELSE kSubset(Limit, all) :
     before \subseteq t \/ t \subseteq before}

(* Renewals at risk come first.                                            *)
Taken(rows) == FirstFew(rows, {r \in rows : r.state = "risk"})

TakenIds(ids) == FirstFew(ids, {})

(* What is drafted for the sections read.                                  *)
Reminders(owners) ==
  {Intent("client_note:write", c) : c \in owners}
    \cup (IF goodwill THEN {Intent("billing:credit:add", c) : c \in owners} ELSE {})

Discrepancy(kind, id) == [kind |-> kind, id |-> id]

(* One for each invoice and amount received twice; they come first, and one *)
(* of an invoice that was not read has no client to annotate.               *)
Duplicates ==
  {Discrepancy(t.state, t.of) : t \in {u \in DuplicateRisk(got["transactions"]) : u.of # "none"}}

Discrepancies ==
  Duplicates
    \cup {Discrepancy("unpaid_with_recent_payment", i.id) :
            i \in UnpaidThoughPaid(got["transactions"], got["invoices"])}

Annotated(flagged) == {d.id : d \in flagged} \cap Ids(got["invoices"])

Duplicate == \E c \in got["clients"] : c.state = "mail"

Wanted ==
  CASE flow = "dunning_sweep" -> {Reminders(o) : o \in TakenIds(Owners(got["invoices"]))}
    [] flow = "renewal_risk_triage" ->
         {{Intent("ticket:create", r.id) : r \in {s \in t : s.state = "risk"}} :
            t \in Taken(got["services"] \cup got["domains"])}
    [] flow = "month_end_close" ->
         {{Intent("client_note:write", i) : i \in Annotated(flagged)} :
            flagged \in FirstFew(Discrepancies, Duplicates)}
    [] flow = "new_client_onboarding" ->
         {IF Duplicate THEN {} ELSE {Intent("client:create", "mail")}}

(* What is drafted for one ticket or client; a thread that could not be    *)
(* read counts as one without replies.                                     *)
WantedForItem ==
  IF flow = "suspend_for_nonpayment"
  THEN {Intent("service:suspend", r.id) : r \in got[item]}
  ELSE {Intent("ticket:note", item), Intent("ticket:status", item)}

\* Variant with a defect: a denial leaves no trace.
Denied(wanted) == {}

(* draftOrSkip: what the grant does not cover is skipped.                  *)
Skips(wanted) == {d \in wanted : d.scope \notin granted}

DraftOrSkip(wanted) ==
  /\ drafted' = drafted \cup {d \in wanted : d.scope \in granted}
  /\ skipped' = skipped \cup Skips(wanted)

-----------------------------------------------------------------------------

NoFlow ==
  /\ flow = "none" /\ granted = {} /\ goodwill = FALSE
  /\ todo = {} /\ item = "none" /\ drafted = {} /\ skipped = {} /\ phase = "reading"

StartFlow(w) ==
  /\ flow = "none"
  /\ flow' = w
  /\ granted' \in Granted
  /\ goodwill' \in IF w = "dunning_sweep" THEN BOOLEAN ELSE {FALSE}
  /\ Begin(FirstReads(w))
  /\ UNCHANGED <<callVars, todo, item, drafted, skipped, phase>>

ReadForFlow ==
  /\ flow # "none"
  /\ Settle
  /\ UNCHANGED <<worldVars, callVars, flowVars>>

Swept ==
  /\ phase = "reading" /\ flow \in Flows /\ pending = <<>>
  /\ UNCHANGED <<worldVars, readVars, callVars, flow, granted, goodwill, item>>

(* Most workflows draft everything at once.                                *)
DraftAll ==
  /\ Swept
  /\ flow \notin {"ticket_triage_to_resolution", "suspend_for_nonpayment"}
  /\ \E wanted \in Wanted : DraftOrSkip(wanted)
  /\ phase' = "done"
  /\ UNCHANGED todo

(* Two read on for each ticket or client that they found.                  *)
PickItems ==
  /\ Swept
  /\ \/ flow = "ticket_triage_to_resolution" /\ todo' \in TakenIds(Ids(got["tickets"]))
     \/ flow = "suspend_for_nonpayment" /\ todo' \in TakenIds(Owners(got["invoices"]))
  /\ phase' = "items"
  /\ UNCHANGED <<drafted, skipped>>

LookInto(i) ==
  /\ phase = "items" /\ item = "none" /\ i \in todo
  /\ item' = i
  /\ todo' = todo \ {i}
  /\ pending' = <<{ItemRead(i)}>>
  /\ got' = [s \in DOMAIN got \cup {i} |-> IF s = i THEN {} ELSE got[s]]
  /\ UNCHANGED <<worldVars, callVars, full, truncated, errors, flow, granted, goodwill,
                 drafted, skipped, phase>>

DraftForItem ==
  /\ item # "none" /\ pending = <<>>
  /\ DraftOrSkip(WantedForItem)
  /\ item' = "none"
  /\ UNCHANGED <<worldVars, readVars, callVars, flow, granted, goodwill, todo, phase>>

ItemsDone ==
  /\ phase = "items" /\ item = "none" /\ todo = {}
  /\ phase' = "done"
  /\ UNCHANGED <<worldVars, readVars, callVars, flow, granted, goodwill, todo, item,
                 drafted, skipped>>

FlowMove(r) == Others(r) /\ UNCHANGED <<callVars, flowVars>>

FlowsInit == AggregatesInit /\ NoFlow

FlowsNext ==
  \/ NoFlow /\ AggregatesNext /\ UNCHANGED flowVars
  \/ /\ report = "none"
     /\ \/ \E w \in Flows : StartFlow(w)
        \/ ReadForFlow \/ DraftAll \/ PickItems \/ DraftForItem \/ ItemsDone
        \/ \E i \in Ids(Rows) \cup Owners(Rows) : LookInto(i)
        \/ \E r \in Touched : flow # "none" /\ FlowMove(r)

FlowsSpec == FlowsInit /\ [][FlowsNext]_workflowVars

-----------------------------------------------------------------------------
(* Properties.                                                             *)

Accounted(scope, ref) == Intent(scope, ref) \in drafted \cup skipped

Steadily(list, states) == {r \in steady : r.list = list /\ r.state \in states}

(* Why a match may be left out: its read failed or answered a whole page,  *)
(* or the limit of candidates was reached.                                 *)
Excused(sections, candidates) ==
  sections \cap (errors \cup full) # {} \/ candidates >= Limit

(* A workflow's answer accounts for every row that was there, unchanged,   *)
(* for the whole call and that calls for a draft: the draft was made, or   *)
(* its denial is listed, or the answer shows why it may be missing.  At    *)
(* the limit, a renewal at risk gives way only to others at risk.          *)
MatchesAccounted ==
  phase = "done" =>
    CASE flow = "dunning_sweep" ->
           \A r \in Steadily("invoices", Open) :
             Accounted("client_note:write", r.who)
               \/ Excused({"invoices"}, Cardinality(Owners(got["invoices"])))
      [] flow = "renewal_risk_triage" ->
           \A list \in {"services", "domains"} : \A r \in Steadily(list, {"risk"}) :
             Accounted("ticket:create", r.id)
               \/ Excused({list}, Cardinality({d \in drafted \cup skipped :
                                                 d.scope = "ticket:create"}))
      [] flow = "ticket_triage_to_resolution" ->
           \A r \in Steadily("tickets", {"open"}) :
             \/ Accounted("ticket:note", r.id) /\ Accounted("ticket:status", r.id)
             \/ Excused({"tickets"}, Cardinality(got["tickets"]))
      [] flow = "month_end_close" ->
           \A r \in Steadily("invoices", Open), t \in Steadily("transactions", {"in"}) :
             t.of = r.id =>
               Accounted("client_note:write", r.id)
                 \/ Excused({"invoices", "transactions"}, Cardinality(Discrepancies))
      [] flow = "suspend_for_nonpayment" ->
           \A r \in Steadily("invoices", {"unpaid"}), s \in Steadily("services", AnyState) :
             s.who = r.who =>
               Accounted("service:suspend", s.id)
                 \/ Excused({"invoices", r.who}, Cardinality(Owners(got["invoices"])))
      [] flow = "new_client_onboarding" ->
           Steadily("clients", {"mail"}) = {} =>
             \/ Accounted("client:create", "mail")
             \/ \E r \in got["clients"] : r.state = "mail"

=============================================================================
