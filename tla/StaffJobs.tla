----------------------------- MODULE StaffJobs -----------------------------
(***************************************************************************)
(* ops_ask (src/tools/opsAsk.ts): a job of the catalog is denied, answered *)
(* with a link for customers, or run for staff (src/jobs/opsAsk.ts).  A    *)
(* job about one client first resolves whom it is about                    *)
(* (src/identity/resolvePrincipal.ts), then reads section by section.      *)
(*                                                                         *)
(* The row of a client is in the state "mail" if its address is the one    *)
(* asked for, "alike" if GetClients' search finds it as well; its field of *)
(* names the clients of its users, if WHMCS answers with users.  Tickets   *)
(* that are "open" await a reply, "active" ones do not.                    *)
(***************************************************************************)
EXTENDS SectionReads, SequencesExt

CONSTANTS
  JobCalls,      \* calls: job, consumer, OIDC sub or "none", permitted (allowedActions),
             \* by email or not, clientid or "none"
  Users,     \* the clients of each user, one after the other, by the name in a row
  JobRows,   \* rows that others change meanwhile
  StaffIds,  \* MCP_STAFF_CONSUMER_IDS
  StaffSubs  \* MCP_STAFF_OIDC_SUBS

ASSUME UsersAreLists ==
  \A u \in DOMAIN Users : Users[u] \in Seq(Range(Users[u])) /\ "none" \notin Range(Users[u])

ASSUME JobsAssumption ==
  /\ \A a \in JobCalls : a.permitted \in BOOLEAN /\ a.email \in BOOLEAN
  /\ JobRows \subseteq Rows
  /\ \A r \in Rows : r.list = "clients" => r.who # "none"

VARIABLES
  request,  \* the call that is served
  standing, \* "idle", "resolving", "running", or how it was refused
  lookup,   \* the read of resolvePrincipal that is awaited: "none", "details", "search"
  matched,  \* clients of the resolution, as often as they were found
  origin,   \* where they come from: "none", "details" or "search"
  subject,  \* the client that the job is about, or "none"
  counted,  \* what the stats of GetClientsDetails said
  known     \* the rows of clients that WHMCS held at some time since the call

principalVars == <<lookup, matched, origin, subject>>
jobVars == <<request, standing, principalVars, counted, known>>
staffVars == <<worldVars, readVars, jobVars>>

ClientRows(rows) == {r \in rows : r.list = "clients"}

\* The clients of a row's users, or its own client when it has no users.
Links(r) == IF r.of \in DOMAIN Users THEN Users[r.of] ELSE <<r.who>>

-----------------------------------------------------------------------------
(* The catalog and the reads of each job.                                  *)

StaffJobs == {"morning_digest", "overdue_digest", "ticket_inbox", "next_best_action",
              "close_pack", "system_health", "draft_work", "billing_card",
              "gdpr_export_pack"}
CustomerJobs == {"billing_card", "renewal_digest", "ticket_status", "handoff_pack"}

Audience(a) ==
  IF a.consumer \in StaffIds \cup StaffSubs \/ a.sub \in StaffSubs THEN "staff" ELSE "customer"

AllowedJob(job, audience) ==
  CASE job = "credit_notes" -> audience = "staff"
    [] audience = "staff" -> job \in StaffJobs
    [] OTHER -> job \in CustomerJobs

Read(section, list, states) == {Query(section, list, states, AnyState, FALSE)}

OpenInvoices == {"unpaid", "overdue"}
Overdue == Read("overdue", "invoices", {"overdue"})
Unpaid(section) == Read(section, "invoices", OpenInvoices)
Awaiting(section) == Read(section, "tickets", {"open"})
Details == Read("client", "clients", AnyState)

\* Jobs about the installation; the version of WHMCS is read in VersionProfile.
GlobalReads(job) ==
  CASE job = "morning_digest" -> <<Overdue, Unpaid("unpaid"), Awaiting("tickets")>>
    [] job = "overdue_digest" -> <<Overdue>>
    [] job = "ticket_inbox" ->
         <<Awaiting("awaiting"), Read("active", "tickets", {"open", "active"})>>
    [] job = "system_health" -> <<Read("admin", "admins", AnyState)>>
    [] job \in {"draft_work", "credit_notes"} -> <<>>

ClientReads(job) ==
  CASE job = "billing_card" ->
         <<Details, Overdue, Unpaid("unpaid"), Read("credits", "credits", AnyState),
           Read("transactions", "transactions", AnyState)>>
    [] job = "next_best_action" -> <<Details, Read("services", "services", AnyState)>>
    [] job = "close_pack" -> <<Details, Unpaid("invoices")>>
    [] job = "gdpr_export_pack" ->
         <<Details, Read("invoices", "invoices", AnyState),
           Read("tickets", "tickets", AnyState), Read("activity", "activity", AnyState)>>

ClientJobs == {"billing_card", "next_best_action", "close_pack", "gdpr_export_pack"}

OfClient(groups, c) ==
  [i \in DOMAIN groups |-> {[q EXCEPT !.who = c] : q \in groups[i]}]

-----------------------------------------------------------------------------
(* Whom a job is about.                                                    *)

\* Variant with a defect: of several clients the first one is taken.
ChosenFirst(clients) ==
  IF request.clientid # "none" THEN Range(clients) \cap {request.clientid}
  ELSE IF clients # <<>> THEN {Head(clients)} ELSE {}

\* requireSingleClient: the client to take, if any.
Chosen(clients) ==
  IF request.clientid # "none" THEN Range(clients) \cap {request.clientid}
  ELSE IF Len(clients) = 1 THEN {Head(clients)} ELSE {}

TakePrincipal(clients, from) ==
  /\ matched' = clients
  /\ origin' = from
  /\ lookup' = "none"
  /\ \/ /\ Chosen(clients) = {}
        /\ standing' = "picker_required"
        /\ UNCHANGED <<subject, pending, got>>
     \/ \E c \in Chosen(clients) :
          /\ standing' = "running"
          /\ subject' = c
          /\ pending' = OfClient(ClientReads(request.job), c)
          /\ got' = [s \in {q.section : q \in UNION Range(pending')} |-> {}]

\* GetClientsDetails, by address or by id, answers the row of a client.
DetailsAnswer ==
  /\ lookup = "details"
  /\ \E r \in ClientRows(world) :
       /\ IF request.email THEN r.state = "mail" ELSE r.who = request.clientid
       /\ TakePrincipal(Links(r), "details")

(* It fails, or there is no such client: an address is searched for next,  *)
(* for an id ops_ask throws.                                               *)
DetailsFail ==
  /\ lookup = "details"
  /\ IF request.email
     THEN lookup' = "search" /\ UNCHANGED standing
     ELSE lookup' = "none" /\ standing' = "error"
  /\ UNCHANGED <<matched, origin, subject, pending, got>>

\* GetClients with the address as its search: one page of clients.
SearchAnswer ==
  /\ lookup = "search"
  /\ \E page \in Pages(CHOOSE q \in Read("clients", "clients", {"mail", "alike"}) : TRUE) :
       TakePrincipal(SetToSeq({r.who : r \in page}), "search")

SearchFail ==
  /\ lookup = "search"
  /\ lookup' = "none"
  /\ standing' = "error"
  /\ UNCHANGED <<matched, origin, subject, pending, got>>

-----------------------------------------------------------------------------

Verdict(a) ==
  CASE ~a.permitted -> "action_denied"
    [] a.permitted /\ ~AllowedJob(a.job, Audience(a)) -> "job_denied"
    [] a.permitted /\ AllowedJob(a.job, Audience(a)) ->
         IF Audience(a) = "customer" THEN "link_required"
         ELSE IF a.job \notin ClientJobs THEN "running"
         ELSE IF a.email \/ a.clientid # "none" THEN "resolving"
         ELSE "picker_required"

NoCounts == [overdue |-> FALSE, unpaid |-> FALSE, tickets |-> FALSE]

\* The handler up to its first read of WHMCS.
AskOps(a) ==
  /\ standing = "idle"
  /\ request' = a
  /\ standing' = Verdict(a)
  /\ lookup' = IF Verdict(a) = "resolving" THEN "details" ELSE "none"
  /\ Begin(IF Verdict(a) = "running" THEN GlobalReads(a.job) ELSE <<>>)
  /\ known' = ClientRows(world)
  /\ UNCHANGED <<matched, origin, subject, counted>>

LookUp ==
  /\ DetailsAnswer \/ DetailsFail \/ SearchAnswer \/ SearchFail
  /\ UNCHANGED <<worldVars, full, truncated, errors, request, counted, known>>

(* The stats of a client: numoverdueinvoices, numunpaidinvoices and        *)
(* numactivetickets, as far as they are more than none.                    *)
Counts(c) ==
  LET of(list) == {r.state : r \in {s \in world : s.list = list /\ s.who = c}} IN
  [overdue |-> "overdue" \in of("invoices"),
   unpaid |-> of("invoices") \cap OpenInvoices # {},
   tickets |-> of("tickets") # {}]

\* The read of a client that is not there fails, and nothing is counted then.
StatsRead(q) ==
  IF q.section # "client" THEN UNCHANGED counted
  ELSE /\ Matching(q) = {} => q.section \in errors'
       /\ counted' = IF q.section \in errors' THEN NoCounts ELSE Counts(subject)

JobReads ==
  /\ standing = "running"
  /\ Settle
  /\ \A q \in Head(pending) : StatsRead(q)
  /\ UNCHANGED <<worldVars, request, standing, principalVars, known>>

Changes(r) ==
  /\ standing # "idle"
  /\ Others(r)
  /\ known' = known \cup ClientRows(world')
  /\ UNCHANGED <<request, standing, principalVars, counted>>

\* What next_best_action proposes.
Advice ==
  LET suspended == \E s \in got["services"] : s.state = "suspended"
      due == {a \in {"collect_overdue", "follow_up_unpaid", "reply_open_tickets",
                     "review_suspended_services"} :
                CASE a = "collect_overdue" -> counted.overdue
                  [] a = "follow_up_unpaid" -> counted.unpaid /\ ~counted.overdue
                  [] a = "reply_open_tickets" -> counted.tickets
                  [] a = "review_suspended_services" -> suspended}
  IN IF due = {} THEN {"none"} ELSE due

JobsStart ==
  /\ standing = "idle"
  /\ lookup = "none" /\ matched = <<>> /\ origin = "none" /\ subject = "none"
  /\ counted = NoCounts
  /\ known = {}

StaffInit == ReadsInit /\ request \in JobCalls /\ JobsStart

StaffNext ==
  \/ AskOps(request)
  \/ LookUp
  \/ JobReads
  \/ \E r \in JobRows : Changes(r)

StaffSpec == StaffInit /\ [][StaffNext]_staffVars

-----------------------------------------------------------------------------
(* Properties.                                                             *)

JobDone == standing = "running" /\ pending = <<>>

ByAddressAlone == subject # "none" /\ request.email /\ request.clientid = "none"

(* A job asked for by address is about a client that the address led to    *)
(* while it was asked, through a row or the users of one; without a        *)
(* clientid, no second client stood beside it for the whole call among     *)
(* what the answering lookup sees.                                         *)
PrincipalBacked ==
  /\ subject # "none" /\ request.email =>
       \E r \in known : CASE origin = "details" -> r.state = "mail" /\ subject \in Range(Links(r))
                         [] origin = "search" -> subject = r.who
  /\ ByAddressAlone =>
       \A r \in ClientRows(steady) :
         CASE origin = "details" -> r.state = "mail" => Range(Links(r)) = {subject}
           [] origin = "search" -> r.who = subject

(* What stood for the whole call is in the answer, or the answer says why  *)
(* not; and next_best_action does not call a client without signals who    *)
(* had one all the time, unless a section failed or its page was full.     *)
AnswerExplained ==
  JobDone =>
    LET groups == IF subject = "none" THEN GlobalReads(request.job)
                  ELSE OfClient(ClientReads(request.job), subject)
        of(list, states) ==
          \E r \in steady : r.list = list /\ r.who = subject /\ r.state \in states
    IN /\ \A q \in UNION Range(groups) : Expected(q) \subseteq got[q.section] \/ Explained(q)
       /\ request.job = "next_best_action" =>
            /\ of("invoices", {"overdue"}) =>
                 "collect_overdue" \in Advice \/ "client" \in errors
            /\ of("invoices", {"unpaid"}) =>
                 Advice \cap {"collect_overdue", "follow_up_unpaid"} # {} \/ "client" \in errors
            /\ of("tickets", AnyState) =>
                 "reply_open_tickets" \in Advice \/ "client" \in errors
            /\ of("services", {"suspended"}) =>
                 "review_suspended_services" \in Advice
                   \/ {"services"} \cap (errors \cup full) # {}
=============================================================================
