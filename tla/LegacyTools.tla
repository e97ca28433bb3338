---------------------------- MODULE LegacyTools ----------------------------
(***************************************************************************)
(* The legacy tools that write to WHMCS outside the governed flow          *)
(* (src/tools/billing.ts, orders.ts, clients.ts, domains.ts, support.ts)   *)
(* with the rate limiter and the idempotency cache (src/rateLimiter.ts).   *)
(*                                                                         *)
(* A handler is the sequence of WHMCS actions it awaits: before the first  *)
(* it asks for a token and, if keyed, looks its key up; between two it     *)
(* judges what it read; after the last, if keyed, it stores its answer.    *)
(* Refusals that the process's configuration alone decides (auth token,    *)
(* client mode, read-only mode, missing confirmation) change nothing and   *)
(* are left out.  GetInvoice and GetClients are read from WHMCS: the       *)
(* operator has not listed them in MCP_READ_CACHE_ACTIONS.                 *)
(***************************************************************************)
EXTENDS Integers, Sequences, FiniteSets, FiniteSetsExt, SequencesExt

CONSTANTS
  ToolCalls,   \* invocations
  Asks,        \* what they may ask for: tool, id, amount, variant
  Rate,        \* MCP_RATE_LIMIT: tokens a second, and the most there are
  KeyWindow,   \* idempotencyWindowMs, in seconds
  CacheLimit,  \* MAX_CACHE_SIZE
  Evicted,     \* how many of the oldest entries make room: a tenth of it
  Total,       \* what every invoice is for
  LookAlikes,  \* the addresses that a search for an address finds besides it
  MaxSeconds   \* bound on the clock

ToolNames ==
  {"mark_invoice_paid", "capture_payment", "record_refund", "create_invoice", "add_credit",
   "apply_credit", "accept_order", "create_client", "update_client", "register_domain",
   "renew_domain", "transfer_domain", "create_ticket", "reply_ticket"}

LegacyAssumption ==
  /\ IsFiniteSet(ToolCalls)
  /\ \A q \in Asks :
       /\ q.tool \in ToolNames /\ q.amount \in Nat
       /\ q.tool = "record_refund" =>
            q.amount > 0 /\ q.variant \in {"gateway", "credit", "applied"}
  /\ Rate \in Nat \ {0}
  /\ KeyWindow \in Nat \ {0}
  /\ CacheLimit \in Nat \ {0}
  /\ Evicted \in 1..CacheLimit
  /\ Total \in Nat \ {0}
  /\ LookAlikes \in [{q.id : q \in Asks} -> SUBSET {q.id : q \in Asks}]
  /\ MaxSeconds \in Nat

ASSUME LegacyAssumption

VARIABLES
  tool,      \* the state of each invocation
  tokens,    \* tokens left
  refilled,  \* lastRefill
  cache,     \* idempotencyCache, in the order of insertion
  seconds,   \* Date.now()
  newest,    \* the latest reading of the clock
  admitted,  \* how many calls had their token
  invoices,  \* external: payments, refunds, credit and status of each invoice
  clients,   \* external: the e-mail addresses of the clients
  forgotten  \* keys that left the cache

limiterVars == <<tokens, refilled, admitted>>
clockVars == <<seconds, newest>>
shopVars == <<invoices, clients>>
legacyVars == <<tool, limiterVars, cache, clockVars, shopVars, forgotten>>

AskIds == {q.id : q \in Asks}

-----------------------------------------------------------------------------
(* The handlers: the WHMCS actions each awaits, in order.                  *)

MarkInvoicePaid == <<"GetInvoice", "AddInvoicePayment">>

CapturePayment == <<"GetInvoice", "CapturePayment">>

(* refund_type, and apply_to_invoice for a credit.                         *)
RecordRefund(variant) ==
  CASE variant = "gateway" -> <<"GetInvoice", "AddTransaction">>
    [] variant = "credit"  -> <<"GetInvoice", "AddCredit">>
    [] variant = "applied" -> <<"GetInvoice", "AddCredit", "ApplyCredit">>

CreateInvoice == <<"CreateInvoice">>

AddCredit == <<"AddCredit">>

ApplyCredit == <<"ApplyCredit">>

AcceptOrder == <<"AcceptOrder">>

(* mode: reuse_if_exists searches by the normalized address first.         *)
CreateClient(variant) ==
  IF variant = "reuse" THEN <<"GetClients", "AddClient">> ELSE <<"AddClient">>

UpdateClient == <<"UpdateClient">>

(* The nameservers follow when both of the first two are given.            *)
RegisterDomain(variant) ==
  IF variant = "nameservers" THEN <<"DomainRegister", "DomainUpdateNameservers">>
  ELSE <<"DomainRegister">>

RenewDomain == <<"DomainRenew">>

TransferDomain == <<"DomainTransfer">>

CreateTicket == <<"OpenTicket">>

(* AdminNote is an action of its own.                                      *)
ReplyTicket(variant) ==
  IF variant = "note" THEN <<"AddTicketNote">> ELSE <<"AddTicketReply">>

Awaits(q) ==
  CASE q.tool = "mark_invoice_paid" -> MarkInvoicePaid
    [] q.tool = "capture_payment"   -> CapturePayment
    [] q.tool = "record_refund"     -> RecordRefund(q.variant)
    [] q.tool = "create_invoice"    -> CreateInvoice
    [] q.tool = "add_credit"        -> AddCredit
    [] q.tool = "apply_credit"      -> ApplyCredit
    [] q.tool = "accept_order"      -> AcceptOrder
    [] q.tool = "create_client"     -> CreateClient(q.variant)
    [] q.tool = "update_client"     -> UpdateClient
    [] q.tool = "register_domain"   -> RegisterDomain(q.variant)
    [] q.tool = "renew_domain"      -> RenewDomain
    [] q.tool = "transfer_domain"   -> TransferDomain
    [] q.tool = "create_ticket"     -> CreateTicket
    [] q.tool = "reply_ticket"      -> ReplyTicket(q.variant)

Keyed == {"mark_invoice_paid", "record_refund", "capture_payment",
          "add_credit", "accept_order"}

Payments == {"mark_invoice_paid", "capture_payment"}

-----------------------------------------------------------------------------
(* The rate limiter.                                                       *)

(* refill: a clock that stepped back takes tokens away.                    *)
Refill == Min({Rate, tokens + Rate * (seconds - refilled)})

\* Variant with a defect: an empty bucket admits one more.
AdmitsEmpty == Refill >= 0

Admits == Refill >= 1

TryConsume ==
  /\ Admits
  /\ tokens' = Refill - 1
  /\ refilled' = seconds
  /\ admitted' = admitted + 1

Limited ==
  /\ ~Admits
  /\ tokens' = Refill
  /\ refilled' = seconds
  /\ UNCHANGED admitted

-----------------------------------------------------------------------------
(* The idempotency cache.                                                  *)

(* generateIdempotencyKey: tool, primary id and time bucket.               *)
Key(q) == <<q.tool, q.id, seconds \div KeyWindow>>

Unexpired(e) == seconds - e.at <= KeyWindow

(* getCachedResult.                                                        *)
CacheHit(key) == \E e \in ToSet(cache) : e.key = key /\ Unexpired(e)

AfterLookup(key) == SelectSeq(cache, LAMBDA e : e.key # key \/ Unexpired(e))

(* cacheResult: a full cache loses its oldest entries; a key that is there *)
(* keeps its place.                                                        *)
Kept(key) ==
  LET room == IF Len(cache) >= CacheLimit
              THEN SubSeq(cache, Evicted + 1, Len(cache)) ELSE cache
      entry == [key |-> key, at |-> seconds]
  IN IF \E k \in DOMAIN room : room[k].key = key
     THEN [k \in DOMAIN room |-> IF room[k].key = key THEN entry ELSE room[k]]
     ELSE Append(room, entry)

Forgets(next) ==
  forgotten' = forgotten \cup ({e.key : e \in ToSet(cache)} \ {e.key : e \in ToSet(next)})

(* The cleanup interval.                                                   *)
CleanupCache ==
  LET next == SelectSeq(cache, Unexpired) IN
  /\ next # cache
  /\ cache' = next
  /\ Forgets(next)
  /\ UNCHANGED <<tool, limiterVars, clockVars, shopVars>>

-----------------------------------------------------------------------------
(* The invocations.                                                        *)

NoAsk == [tool |-> "none", id |-> "none", amount |-> 0, variant |-> "none"]

(* What a read may bring: an invoice, or the row of a client.              *)
Nothing ==
  [row |-> "none", unpaid |-> TRUE, paid |-> 0, out |-> 0, credit |-> 0, failed |-> FALSE]

Balance(invoice) ==
  IF invoice.paid + invoice.credit < Total + invoice.out
  THEN Total + invoice.out - invoice.paid - invoice.credit ELSE 0

NotCalled ==
  [ask |-> NoAsk, at |-> 0, key |-> <<>>, got |-> Nothing,
   served |-> FALSE, mutated |-> FALSE, answer |-> "none",
   began |-> Nothing, known |-> FALSE]

Called(c) == tool[c].ask # NoAsk
Pending(c) == tool[c].at > 0
Action(c) == Awaits(tool[c].ask)[tool[c].at]
Reading(action) == action \in {"GetInvoice", "GetClients"}

Answered(t, how) == [t EXCEPT !.at = 0, !.answer = how, !.served = FALSE,
                              !.got = NotCalled.got]

(* Everything up to the first await.                                       *)
CallTool(c, q) ==
  LET t == [NotCalled EXCEPT !.ask = q, !.key = Key(q),
              !.began = invoices[q.id], !.known = q.id \in clients]
      hit == q.tool \in Keyed /\ CacheHit(Key(q))
      next == IF q.tool \in Keyed THEN AfterLookup(Key(q)) ELSE cache
  IN
  /\ ~Called(c)
  /\ \/ /\ TryConsume
        /\ tool' = [tool EXCEPT ![c] = IF hit THEN Answered(t, "cached")
                                               ELSE [t EXCEPT !.at = 1]]
        /\ cache' = next
        /\ Forgets(next)
     \/ /\ Limited
        /\ tool' = [tool EXCEPT ![c] = Answered(t, "limited")]
        /\ UNCHANGED <<cache, forgotten>>
  /\ UNCHANGED <<clockVars, shopVars>>

(* External: a search matches parts of addresses, and the call asks for    *)
(* one row only.                                                           *)
FirstRow(id) == {x \in clients : x = id \/ x \in LookAlikes[id]}

(* External: a payment in full settles an invoice for good.                *)
Paid(invoice, sum) ==
  [invoice EXCEPT !.paid = @ + sum, !.unpaid = @ /\ sum < Balance(invoice)]

Credited(invoice, sum) ==
  [invoice EXCEPT !.credit = @ + sum, !.unpaid = @ /\ sum < Balance(invoice)]

(* The amount of mark_invoice_paid or apply_credit, or the balance.        *)
SumOf(q) == IF q.amount > 0 THEN q.amount ELSE Balance(invoices[q.id])

(* External: WHMCS does what the call awaits.  It applies no more credit   *)
(* than is due.                                                            *)
Whmcs(c) ==
  LET q == tool[c].ask
      action == Action(c)
      invoice == invoices[q.id]
  IN
  /\ Pending(c)
  /\ ~tool[c].served
  /\ action = "ApplyCredit" => SumOf(q) <= Balance(invoice)
  /\ \E got \in CASE action = "GetInvoice" -> {invoice}
                  [] action = "GetClients" /\ FirstRow(q.id) # {} ->
                         {[Nothing EXCEPT !.row = x] : x \in FirstRow(q.id)}
                  [] OTHER -> {Nothing} :
       tool' = [tool EXCEPT ![c].served = TRUE, ![c].got = got,
                            ![c].mutated = @ \/ ~Reading(action)]
  /\ invoices' = [invoices EXCEPT ![q.id] =
       CASE action = "AddInvoicePayment" -> Paid(invoice, SumOf(q))
         [] action = "CapturePayment" -> Paid(invoice, Balance(invoice))
         [] action = "AddTransaction" -> [invoice EXCEPT !.out = @ + q.amount]
         [] action = "ApplyCredit" -> Credited(invoice, SumOf(q))
         [] OTHER -> invoice]
  /\ clients' = IF action = "AddClient" THEN clients \cup {q.id} ELSE clients
  /\ UNCHANGED <<limiterVars, cache, clockVars, forgotten>>

(* External: the gateway declines, and the invoice lists the attempt.      *)
Declined(c) ==
  /\ Pending(c)
  /\ ~tool[c].served
  /\ Action(c) = "CapturePayment"
  /\ invoices' = [invoices EXCEPT ![tool[c].ask.id].failed = TRUE]
  /\ tool' = [tool EXCEPT ![c] = Answered(@, "error")]
  /\ UNCHANGED <<limiterVars, cache, clockVars, clients, forgotten>>

\* Variant with a defect: the invoice is read for its defaults only.
JudgedUnseen(t) == "go on"

(* What the handler makes of the read: it goes on, refuses, asks to be     *)
(* forced (the clock does not reach 24 hours), or is done.                 *)
Judged(t) ==
  CASE t.ask.tool \in Payments /\ ~t.got.unpaid -> "refused"
    [] t.ask.tool = "capture_payment" /\ Balance(t.got) = 0 -> "refused"
    [] t.ask.tool = "capture_payment" /\ t.ask.variant # "force" /\ t.got.failed -> "confirm"
    [] t.ask.tool = "record_refund" /\ t.ask.amount > t.got.paid - t.got.out -> "refused"
    [] t.ask.tool = "create_client" /\ t.got.row = t.ask.id -> "ok"
    [] OTHER -> "go on"

FinishCall(c) ==
  /\ tool' = [tool EXCEPT ![c] = Answered(@, "ok")]
  /\ IF tool[c].ask.tool \in Keyed
     THEN /\ cache' = Kept(tool[c].key)
          /\ Forgets(Kept(tool[c].key))
     ELSE UNCHANGED <<cache, forgotten>>

AnswerReceived(c) ==
  LET t == tool[c]
      last == t.at = Len(Awaits(t.ask))
      verdict == IF Reading(Action(c)) THEN Judged(t) ELSE "go on"
  IN
  /\ Pending(c)
  /\ t.served
  /\ \/ /\ verdict # "go on"
        /\ tool' = [tool EXCEPT ![c] = Answered(t, verdict)]
        /\ UNCHANGED <<cache, forgotten>>
     \/ /\ verdict = "go on"
        /\ ~last
        /\ tool' = [tool EXCEPT ![c].at = @ + 1, ![c].served = FALSE,
                                ![c].got = NotCalled.got]
        /\ UNCHANGED <<cache, forgotten>>
     \/ verdict = "go on" /\ last /\ FinishCall(c)
  /\ UNCHANGED <<limiterVars, clockVars, shopVars>>

(* WHMCS refuses, or the answer is lost whether or not it acted: the client*)
(* throws, and nothing is cached.                                          *)
AnswerLost(c) ==
  /\ Pending(c)
  /\ tool' = [tool EXCEPT ![c] = Answered(@, "error")]
  /\ UNCHANGED <<limiterVars, cache, clockVars, shopVars, forgotten>>

ClockTicks ==
  /\ seconds < MaxSeconds
  /\ seconds' = seconds + 1
  /\ newest' = Max({newest, seconds + 1})
  /\ UNCHANGED <<tool, limiterVars, cache, shopVars, forgotten>>

(* Bound: one second behind the latest reading.                            *)
ClockStepsBack ==
  /\ seconds > 0
  /\ seconds = newest
  /\ seconds' = seconds - 1
  /\ UNCHANGED <<tool, limiterVars, cache, newest, shopVars, forgotten>>

(* Invoices named "paid" were paid before.                                 *)
LegacyInit ==
  /\ tool = [c \in ToolCalls |-> NotCalled]
  /\ tokens = Rate
  /\ refilled = 0
  /\ cache = <<>>
  /\ seconds = 0
  /\ newest = 0
  /\ admitted = 0
  /\ invoices = [i \in AskIds |->
       IF i = "paid" THEN Paid(Nothing, Total) ELSE Nothing]
  /\ clients = {}
  /\ forgotten = {}

LegacyNext ==
  \/ \E c \in ToolCalls :
       \/ \E q \in Asks : CallTool(c, q)
       \/ Whmcs(c) \/ Declined(c) \/ AnswerReceived(c) \/ AnswerLost(c)
  \/ CleanupCache
  \/ ClockTicks
  \/ ClockStepsBack

LegacySpec == LegacyInit /\ [][LegacyNext]_legacyVars

-----------------------------------------------------------------------------
(* Properties.                                                             *)

GatewayRefund(q) == q.tool = "record_refund" /\ q.variant = "gateway"

(* What was done before the call began leaves what it asks for to be done. *)
Unsettled(c) ==
  LET q == tool[c].ask IN
  /\ q.tool \in Payments => tool[c].began.unpaid
  /\ GatewayRefund(q) => tool[c].began.out + q.amount <= invoices[q.id].paid
  /\ q.tool = "create_client" /\ q.variant = "reuse" /\ LookAlikes[q.id] = {} =>
       ~tool[c].known

(* What was settled in WHMCS before a call began is not settled again by   *)
(* it, though the answer was lost then, the key's bucket is over or the    *)
(* cache lost the key: an invoice paid in full, by whichever tools, is not *)
(* paid again, a client whose address resembles no other not created again,*)
(* and no more is refunded than was paid.  Calls that overlap can, and so  *)
(* can those that pay a part: the invoice is Unpaid as before.             *)
SettledOnce == \A c \in ToolCalls : tool[c].mutated => Unsettled(c)

(* Whatever the clock does, the calls that had their token are no more     *)
(* than the bucket held and the time that really passed can refill.        *)
AdmittedBounded == admitted <= Rate * (newest + 1)
=============================================================================
