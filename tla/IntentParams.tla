---------------------------- MODULE IntentParams ----------------------------
(***************************************************************************)
(* What the parameters of a write intent go through: validation            *)
(* (src/write/validation.ts), the amount that the caps judge               *)
(* (src/tools/writeFlow.ts) and the mapping to the parameters of the WHMCS *)
(* action (src/write/paramMapping.ts).                                     *)
(*                                                                         *)
(* A value is one of a few JSON values, written as text: "'2'" is the      *)
(* string 2 and "2" the number; "host", "mail" and "member" are strings of *)
(* the shape that the parameter asks for, "dot" is the string "."; "[ok]"  *)
(* is a list of one well-formed entry, "{null}" an object of one null.     *)
(***************************************************************************)
EXTENDS Integers, FiniteSets

CONSTANTS
  Drafts,   \* pairs of a scope and its params that callers may draft
  Family,   \* the version family that WHMCS answered: "8.x", "9.x", "unknown"
  Cap,      \* the per-action cap, in halves of a currency unit
  Due       \* external: what is due on an invoice, in halves

ParamsAssumption == Family \in {"8.x", "9.x", "unknown"} /\ Cap \in Nat /\ Due \in Nat

ASSUME ParamsAssumption

VARIABLES
  scope, params, \* the intent's
  stage,         \* how far it came
  judged,        \* the amount the caps judged, in halves
  sent           \* what WHMCS was asked with

paramVars == <<scope, params, stage, judged, sent>>

-----------------------------------------------------------------------------
(* Values.                                                                 *)

Strings == {"blank", "text", "'2'", "'-2'", "host", "dot", "mail", "member",
            "draft", "product", "configoptions", "addon"}
Booleans == {"true", "false"}
Lists == {"[]", "[ok]", "[ok,ok]", "[free]", "[dot]", "[frac]", "[self]", "[bad]"}
Objects == {"{}", "{ok}", "{null}", "{nested}"}

Value(p, k) == IF k \in DOMAIN p THEN p[k] ELSE "undefined"

Present(v) == v \notin {"undefined", "null", "blank"}

PosInt(v) == v \in {"1", "2"}
Positive(v) == v \in {"0.5", "1", "2"}

(* normalizeDomain and DOMAIN_RE: "." is left empty.                       *)
Hostname(v) == v \in {"host", "text", "'2'"}

Optional(v, good) == v = "undefined" \/ v \in good

(* Number(), as the amounts read it; what is no number counts as 0.        *)
Worth(v) ==
  CASE v \in {"2", "'2'"} -> 4
    [] v = "1" -> 2
    [] v = "0.5" -> 1
    [] v = "-1" -> -2
    [] v = "'-2'" -> -4
    [] OTHER -> 0

(* The prices of the rows of a domain order.                               *)
PriceOf(list) ==
  CASE list \in {"[ok]", "[dot]", "[frac]"} -> 4
    [] list = "[ok,ok]" -> 8
    [] OTHER -> 0

-----------------------------------------------------------------------------
(* The validator.                                                          *)

ClientUpdatable ==
  {"firstname", "lastname", "email", "companyname", "address1", "address2",
   "city", "state", "postcode", "country", "phonenumber", "password2",
   "currency", "clientgroup", "notes", "customfields"}

ContactUpdatable ==
  {"firstname", "lastname", "email", "companyname", "address1", "address2",
   "city", "state", "postcode", "country", "phonenumber"}

QuoteUpdatable == {"subject", "stage", "validuntil", "currency", "customernotes"}

Required(s) ==
  CASE s = "client_note:write" -> {"clientid", "note"}
    [] s = "ticket:create" -> {"deptid", "subject", "message"}
    [] s \in {"ticket:reply", "ticket:note"} -> {"ticketid", "message"}
    [] s = "ticket:status" -> {"ticketid", "status"}
    [] s = "ticket:merge" -> {"ticketid", "mergeticketids"}
    [] s = "billing:invoice:create" -> {"userid", "items"}
    [] s \in {"billing:payment:add", "billing:credit:apply"} -> {"invoiceid", "amount"}
    [] s = "billing:credit:add" -> {"clientid", "amount", "description"}
    [] s = "billing:credit:transfer" ->
         {"source_clientid", "destination_clientid", "amount", "reason",
          "request_id", "confirm"}
    [] s = "billing:refund:record" ->
         {"invoiceid", "amount", "refund_type", "paymentmethod"}
    [] s \in {"billing:payment:capture", "billing:invoice:update"} -> {"invoiceid"}
    [] s = "billing:billable_item:add" -> {"clientid", "description", "amount"}
    [] s = "billing:billable_item:update" -> {"itemid"}
    [] s = "billing:quote:create" -> {"subject", "stage", "validuntil"}
    [] s \in {"billing:quote:update", "billing:quote:send", "billing:quote:accept"} ->
         {"quoteid"}
    [] s = "billing:invoice:reassign" -> {"invoice_id", "dest_clientid"}
    [] s = "service:price_restore" -> {"targets"}
    [] s = "service:domain_rename" -> {"serviceid", "domain"}
    [] s \in {"service:suspend", "service:unsuspend", "service:terminate",
              "service:change_package"} -> {"serviceid"}
    [] s = "service:product:set" -> {"serviceid", "pid"}
    [] s = "service:customfields:update" -> {"serviceid", "customfields"}
    [] s \in {"service:upgrade", "support:cancel_request:add"} -> {"serviceid", "type"}
    [] s = "service:transfer_owner" ->
         {"source_clientid", "dest_clientid", "service_ids", "invoice_mode"}
    [] s = "domain:nameservers:update" -> {"domainid", "nameservers"}
    [] s \in {"domain:register", "domain:epp:request", "domain:record:update"} ->
         {"domainid"}
    [] s = "domain:renew" -> {"domainid", "regperiod"}
    [] s = "domain:idprotect:toggle" -> {"domainid", "idprotect"}
    [] s = "domain:lock:toggle" -> {"domainid", "lockstatus"}
    [] s \in {"order:accept", "order:cancel", "order:pending"} -> {"orderid"}
    [] s = "order:create" -> {"clientid", "domains", "paymentmethod"}
    [] s = "client:create" -> {"firstname", "lastname", "email"}
    [] s \in {"client:update", "client:contact:add", "client:close"} -> {"clientid"}
    [] s \in {"client:contact:update", "client:contact:delete"} -> {"contactid"}

AllRequired(s, p) == \A k \in Required(s) : Present(Value(p, k))

EmailShaped(p) == Present(Value(p, "email")) => Value(p, "email") = "mail"

TicketIdentity(p) ==
  \/ Present(Value(p, "clientid"))
  \/ Present(Value(p, "name")) /\ Present(Value(p, "email"))

TicketStatus(p) == Present(Value(p, "status")) => Value(p, "status") = "member"

InvoiceItems(p) == Optional(Value(p, "items"), {"[ok]", "[ok,ok]"})

RefundType(p) == Present(Value(p, "refund_type")) => Value(p, "refund_type") = "member"

(* Only a status that is a string is looked at.                            *)
DraftInvoiceOnNine(p) ==
  Family = "9.x" => Value(p, "status") \notin Strings \ {"draft"}

(* A sign is looked for in numbers only.                                   *)
CreditNotNegative(p) == Value(p, "amount") # "-1"

RefundNotNegative(p) == Value(p, "amount") # "-1"

PaymentPositive(p) == Value(p, "amount") \notin {"-1", "0"}

CreditTransferInput(p) ==
  /\ \A k \in {"source_clientid", "destination_clientid"} : Value(p, k) \in {"1", "2", "'2'"}
  /\ Worth(Value(p, "source_clientid")) # Worth(Value(p, "destination_clientid"))
  /\ Value(p, "amount") = "'2'"
  /\ Value(p, "confirm") = "true"
  /\ Value(p, "reason") = "text" /\ Value(p, "request_id") = "text"

PriceTargets(p) ==
  /\ Value(p, "targets") \in {"[ok]", "[ok,ok]"}
  /\ Optional(Value(p, "dry_run"), Booleans)

TransferOwnerInput(p) ==
  /\ \A k \in {"source_clientid", "dest_clientid"} : PosInt(Value(p, k))
  /\ Value(p, "source_clientid") # Value(p, "dest_clientid")
  /\ Value(p, "service_ids") \in {"[ok]", "[ok,ok]", "[self]"}
  /\ Value(p, "invoice_mode") = "member"
  /\ Optional(Value(p, "dry_run"), Booleans)

ReassignInput(p) == PosInt(Value(p, "invoice_id")) /\ PosInt(Value(p, "dest_clientid"))

DomainRenameInput(p) ==
  /\ PosInt(Value(p, "serviceid"))
  /\ Hostname(Value(p, "domain"))
  /\ Present(Value(p, "expected_old_domain")) => Hostname(Value(p, "expected_old_domain"))

LifecycleInput(p) == PosInt(Value(p, "serviceid"))

NameserversInput(p) == PosInt(Value(p, "domainid")) /\ Value(p, "nameservers") = "[ok,ok]"

CaptureInput(p) == PosInt(Value(p, "invoiceid"))

CreditApplyInput(p) ==
  /\ PosInt(Value(p, "invoiceid"))
  /\ Present(Value(p, "amount")) => Positive(Value(p, "amount"))

RegisterInput(p) ==
  /\ PosInt(Value(p, "domainid"))
  /\ Present(Value(p, "ns1")) => Hostname(Value(p, "ns1"))

(* regperiod: 1 to 10.                                                     *)
RenewInput(p) == PosInt(Value(p, "domainid")) /\ PosInt(Value(p, "regperiod"))

OrderAcceptInput(p) ==
  /\ PosInt(Value(p, "orderid"))
  /\ \A flag \in {"autosetup", "sendemail"} : Optional(Value(p, flag), Booleans)

(* A name is not normalized here: "." passes.                              *)
OrderCreateInput(p) ==
  /\ Value(p, "domains") \in {"[ok]", "[free]", "[dot]"}
  /\ Optional(Value(p, "noemail"), {"true"})

ClientCreateInput(p) ==
  /\ \A k \in {"firstname", "lastname"} :
       Present(Value(p, k)) => Value(p, k) \in Strings
  /\ EmailShaped(p)

ClientUpdateInput(p) ==
  /\ PosInt(Value(p, "clientid"))
  /\ \E k \in ClientUpdatable : Present(Value(p, k))
  /\ EmailShaped(p)

ProductSetInput(p) ==
  /\ PosInt(Value(p, "serviceid"))
  /\ PosInt(Value(p, "pid"))
  /\ Optional(Value(p, "billingcycle"), Strings \ {"blank"})

(* At least one key, whatever its value.                                   *)
CustomFieldsInput(p) ==
  PosInt(Value(p, "serviceid")) /\ Value(p, "customfields") \in {"{ok}", "{null}"}

UpgradeInput(p) ==
  /\ PosInt(Value(p, "serviceid"))
  /\ \/ Value(p, "type") = "product" /\ PosInt(Value(p, "newproductid"))
     \/ Value(p, "type") = "configoptions" /\ Value(p, "configoptions") \in Objects \cup Lists
     \/ Value(p, "type") = "addon" /\ PosInt(Value(p, "addonid"))

ToggleInput(p, flag) == PosInt(Value(p, "domainid")) /\ Value(p, flag) \in Booleans

ContactInput(p, id) ==
  /\ PosInt(Value(p, id))
  /\ \E k \in ContactUpdatable : Present(Value(p, k))
  /\ EmailShaped(p)

BillableInput(p) ==
  /\ PosInt(Value(p, "clientid"))
  /\ Present(Value(p, "description")) => Value(p, "description") \in Strings
  /\ Present(Value(p, "amount")) => Positive(Value(p, "amount"))

(* An entry's amount must be a number for Number().                        *)
QuoteItems(p) == Value(p, "items") # "[bad]"

QuoteStage(p) == Present(Value(p, "stage")) => Value(p, "stage") = "member"

QuoteCreateInput(p) ==
  /\ QuoteStage(p)
  /\ PosInt(Value(p, "userid")) \/ Value(p, "email") = "mail"
  /\ Value(p, "items") \in {"[ok]", "[ok,ok]"}

QuoteUpdateInput(p) ==
  /\ PosInt(Value(p, "quoteid"))
  /\ QuoteStage(p)
  /\ \/ \E k \in QuoteUpdatable : Present(Value(p, k))
     \/ Value(p, "items") \in Lists \ {"[]"}
  /\ QuoteItems(p)

QuoteIdInput(p) == PosInt(Value(p, "quoteid"))

TicketNoteInput(p) == PosInt(Value(p, "ticketid"))

(* "[self]" holds the ticket's own id.                                     *)
MergeInput(p) ==
  PosInt(Value(p, "ticketid")) /\ Value(p, "mergeticketids") \in {"[ok]", "[ok,ok]"}

(* The checks of one scope; scopes that are not listed have no more than   *)
(* their required params.                                                  *)
ScopeInput(s, p) ==
  CASE s = "ticket:create" -> TicketIdentity(p)
    [] s = "ticket:status" -> TicketStatus(p)
    [] s = "ticket:note" -> TicketNoteInput(p)
    [] s = "ticket:merge" -> MergeInput(p)
    [] s = "billing:invoice:create" -> InvoiceItems(p)
    [] s = "billing:invoice:update" -> DraftInvoiceOnNine(p)
    [] s = "billing:invoice:reassign" -> ReassignInput(p)
    [] s = "billing:credit:add" -> CreditNotNegative(p)
    [] s = "billing:credit:apply" -> CreditApplyInput(p)
    [] s = "billing:credit:transfer" -> CreditTransferInput(p)
    [] s = "billing:refund:record" -> RefundType(p) /\ RefundNotNegative(p)
    [] s = "billing:payment:add" -> PaymentPositive(p)
    [] s = "billing:payment:capture" -> CaptureInput(p)
    [] s = "billing:billable_item:add" -> BillableInput(p)
    [] s = "billing:quote:create" -> QuoteCreateInput(p)
    [] s = "billing:quote:update" -> QuoteUpdateInput(p)
    [] s \in {"billing:quote:send", "billing:quote:accept"} -> QuoteIdInput(p)
    [] s = "service:price_restore" -> PriceTargets(p)
    [] s = "service:transfer_owner" -> TransferOwnerInput(p)
    [] s = "service:domain_rename" -> DomainRenameInput(p)
    [] s \in {"service:suspend", "service:unsuspend", "service:terminate",
              "service:change_package"} -> LifecycleInput(p)
    [] s = "service:product:set" -> ProductSetInput(p)
    [] s = "service:customfields:update" -> CustomFieldsInput(p)
    [] s = "service:upgrade" -> UpgradeInput(p)
    [] s = "domain:nameservers:update" -> NameserversInput(p)
    [] s = "domain:register" -> RegisterInput(p)
    [] s = "domain:renew" -> RenewInput(p)
    [] s = "domain:idprotect:toggle" -> ToggleInput(p, "idprotect")
    [] s = "domain:lock:toggle" -> ToggleInput(p, "lockstatus")
    [] s = "order:accept" -> OrderAcceptInput(p)
    [] s = "order:create" -> OrderCreateInput(p)
    [] s = "client:create" -> ClientCreateInput(p)
    [] s = "client:update" -> ClientUpdateInput(p)
    [] s = "client:contact:add" -> ContactInput(p, "clientid")
    [] s = "client:contact:update" -> ContactInput(p, "contactid")
    [] OTHER -> TRUE
-----------------------------------------------------------------------------
(* The mapper: the parameters of the WHMCS action.  A key whose value is   *)
(* undefined is not sent.                                                  *)

Item(name, v) == [k \in (IF v = "undefined" THEN {} ELSE {name}) |-> v]

Both(f, g) == [k \in DOMAIN f \cup DOMAIN g |-> IF k \in DOMAIN f THEN f[k] ELSE g[k]]

Pick(p, keys) == [k \in {j \in keys : Value(p, j) # "undefined"} |-> p[k]]

ContactFields ==
  {"firstname", "lastname", "email", "companyname", "address1", "address2",
   "city", "state", "postcode", "country", "phonenumber"}

ClientFields ==
  {"firstname", "lastname", "email", "companyname", "address1", "address2",
   "city", "state", "postcode", "country", "phonenumber", "password2",
   "currency", "clientgroup", "notes", "customfields"}

MapNote(p) ==
  Both(Item("userid", Value(p, "clientid")),
       Both(Item("notes", Value(p, "note")), Item("sticky", Value(p, "sticky"))))

TicketFields(s) ==
  CASE s = "ticket:create" ->
         {"deptid", "subject", "message", "clientid", "name", "email", "priority", "serviceid"}
    [] s = "ticket:reply" -> {"ticketid", "message", "clientid", "name", "email"}
    [] s = "ticket:status" -> {"ticketid", "status"}

(* The items become numbered keys.                                         *)
MapInvoice(p) ==
  Both(Pick(p, {"userid", "status", "date", "duedate", "paymentmethod", "taxrate",
                "taxrate2", "notes"}),
       Item("itemamounts", Value(p, "items")))

(* The transaction id is the caller's, or the same for each attempt.       *)
Transid(p) == IF Value(p, "transid") \in {"undefined", "null", "blank"}
              THEN "of the key" ELSE Value(p, "transid")

MapPayment(p) ==
  Both(Pick(p, {"invoiceid", "amount", "date"}),
       Both(Item("transid", Transid(p)),
            Item("gateway", IF Value(p, "gateway") \in {"null", "blank"}
                            THEN "undefined" ELSE Value(p, "gateway"))))

MapCredit(p) == Pick(p, {"clientid", "amount", "description"})

MapRefund(p) ==
  Both(Both(Pick(p, {"invoiceid", "paymentmethod"}), Item("amountout", Value(p, "amount"))),
       Both(Item("transid", "of the key"),
            Item("description", IF Present(Value(p, "description"))
                                THEN Value(p, "description") ELSE "text")))

(* normalizeDomain.                                                        *)
MapRename(p) ==
  Both(Pick(p, {"serviceid"}),
       Item("domain", IF Value(p, "domain") \in Strings \ {"dot", "blank"}
                      THEN Value(p, "domain") ELSE "blank"))

MapSuspend(p) ==
  Pick(p, {"serviceid"} \cup {k \in {"suspendreason"} : Present(Value(p, k))})

MapNameservers(p) ==
  Both(Pick(p, {"domainid"}), Item("ns", Value(p, "nameservers")))

MapRegister(p) ==
  Pick(p, {"domainid"} \cup {k \in {"ns1"} : Value(p, k) \in Strings \ {"blank"}})

Flag(v) == IF v = "true" THEN "true" ELSE "false"

MapAccept(p) ==
  Both(Pick(p, {"orderid"}),
       Both(Item("autosetup", Flag(Value(p, "autosetup"))),
            Item("sendemail", Flag(Value(p, "sendemail")))))

OrderThrows(p) ==
  \/ Value(p, "domains") \notin {"[ok]", "[free]"}
  \/ Value(p, "paymentmethod") \notin Strings \ {"blank"}

MapOrder(p) ==
  Both(Both(Pick(p, {"clientid", "paymentmethod"}),
            Item("domainpriceoverride", Value(p, "domains"))),
       Both(Item("noinvoice", "false"), Item("noemail", "true")))

MapClient(p, ids) == Pick(p, ids \cup ClientFields)

MapContact(p, id) == Pick(p, {id} \cup ContactFields)

MapProduct(p) ==
  Pick(p, {"serviceid", "pid"} \cup {k \in {"billingcycle"} : Present(Value(p, k))})

(* Fields that are null are left out of the encoded map.                   *)
MapCustomFields(p) ==
  Both(Pick(p, {"serviceid"}),
       Item("customfields", IF Value(p, "customfields") = "{ok}" THEN "{ok}" ELSE "{}"))

MapUpgrade(p) ==
  Pick(p, {"serviceid", "type", "newproductid", "newproductbillingcycle",
           "configoptions", "addonid", "promocode", "paymentmethod"})

MapToggle(p, flag) == Both(Pick(p, {"domainid"}), Item(flag, Flag(Value(p, flag))))

MapBillable(p) ==
  Pick(p, {"clientid", "description", "amount", "recur", "recurcycle", "recurfor",
           "invoiceaction", "duedate"})

MapQuoteCreate(p) ==
  Both(Pick(p, {"subject", "stage", "validuntil", "userid", "firstname", "lastname",
                "companyname", "email", "currency", "datecreated", "customernotes"}),
       Item("lineitems", IF Value(p, "items") \in Lists THEN Value(p, "items") ELSE "[]"))

(* An empty list of items is sent too.                                     *)
MapQuoteUpdate(p) ==
  Both(Pick(p, {"quoteid"} \cup QuoteUpdatable),
       Item("lineitems", IF Value(p, "items") \in Lists THEN Value(p, "items") ELSE "undefined"))

MapMerge(p) == Pick(p, {"ticketid", "mergeticketids"})

(* The dispatcher's own lists.                                             *)
BroadFields(s) ==
  CASE s = "order:cancel" -> {"orderid", "cancelsub"}
    [] s = "order:pending" -> {"orderid"}
    [] s = "billing:invoice:update" ->
         {"invoiceid", "status", "paymentmethod", "notes", "date", "duedate",
          "datepaid", "credit", "taxrate", "taxrate2"}
    [] s = "billing:billable_item:update" ->
         {"itemid", "description", "amount", "invoiceaction", "duedate"}
    [] s = "domain:epp:request" -> {"domainid"}
    [] s = "domain:record:update" ->
         {"domainid", "status", "nextduedate", "expirydate", "recurringamount",
          "registrar", "paymentmethod", "dnsmanagement", "emailforwarding",
          "idprotection"}
    [] s = "support:cancel_request:add" -> {"serviceid", "type", "reason"}
    [] s = "client:close" -> {"clientid"}
    [] s = "client:contact:delete" -> {"contactid"}

IntentToWhmcsParams(s, p) ==
  CASE s = "client_note:write" -> MapNote(p)
    [] s \in {"ticket:create", "ticket:reply", "ticket:status"} -> Pick(p, TicketFields(s))
    [] s = "billing:invoice:create" -> MapInvoice(p)
    [] s = "billing:payment:add" -> MapPayment(p)
    [] s = "billing:credit:add" -> MapCredit(p)
    [] s = "billing:credit:transfer" ->
         Pick(p, {"source_clientid", "destination_clientid", "amount",
                  "request_id", "reverses_transfer_id"})
    [] s = "billing:refund:record" -> MapRefund(p)
    [] s = "service:domain_rename" -> MapRename(p)
    [] s = "service:suspend" -> MapSuspend(p)
    [] s \in {"service:unsuspend", "service:terminate", "service:change_package"} ->
         Pick(p, {"serviceid"})
    [] s = "domain:nameservers:update" -> MapNameservers(p)
    [] s = "billing:payment:capture" -> Pick(p, {"invoiceid"})
    [] s = "billing:credit:apply" -> Pick(p, {"invoiceid", "amount"})
    [] s = "domain:register" -> MapRegister(p)
    [] s = "domain:renew" -> Pick(p, {"domainid", "regperiod"})
    [] s = "order:accept" -> MapAccept(p)
    [] s = "order:create" -> MapOrder(p)
    [] s = "client:create" -> MapClient(p, {})
    [] s = "client:update" -> MapClient(p, {"clientid"})
    [] s = "service:product:set" -> MapProduct(p)
    [] s = "service:customfields:update" -> MapCustomFields(p)
    [] s = "service:upgrade" -> MapUpgrade(p)
    [] s = "domain:idprotect:toggle" -> MapToggle(p, "idprotect")
    [] s = "domain:lock:toggle" -> MapToggle(p, "lockstatus")
    [] s = "client:contact:add" -> MapContact(p, "clientid")
    [] s = "client:contact:update" -> MapContact(p, "contactid")
    [] s = "billing:billable_item:add" -> MapBillable(p)
    [] s = "billing:quote:create" -> MapQuoteCreate(p)
    [] s = "billing:quote:update" -> MapQuoteUpdate(p)
    [] s \in {"billing:quote:send", "billing:quote:accept"} -> Pick(p, {"quoteid"})
    [] s = "ticket:note" -> Pick(p, {"ticketid", "message"})
    [] s = "ticket:merge" -> MapMerge(p)
    [] OTHER -> Pick(p, BroadFields(s))

-----------------------------------------------------------------------------
(* The way of an intent.                                                   *)

(* The mapping backstop, which knows that a batch is not mapped as one.    *)
Maps(s, p) == s = "order:create" => ~OrderThrows(p)

ValidateIntent(s, p) == AllRequired(s, p) /\ ScopeInput(s, p) /\ Maps(s, p)

HighRisk ==
  {"billing:payment:add", "billing:credit:add", "billing:credit:transfer",
   "billing:refund:record", "service:price_restore", "service:terminate",
   "billing:payment:capture", "billing:credit:apply", "domain:register",
   "domain:renew", "order:create", "service:upgrade", "billing:quote:accept",
   "service:transfer_owner", "billing:invoice:reassign", "client:contact:delete"}

(* Scopes with an executor of their own, or none.                          *)
Composite == {"service:price_restore", "service:transfer_owner",
              "billing:invoice:reassign", "billing:credit:transfer"}

Destructive == {"service:terminate", "client:contact:delete"}

\* Variant with a defect: what the caller states comes before the rows.
StatedAmount(s, p) ==
  IF Present(Value(p, "amount")) THEN Worth(Value(p, "amount"))
  ELSE IF s = "order:create" THEN PriceOf(Value(p, "domains")) ELSE 0

(* amountContextFor: a priced order goes by its rows.                      *)
AmountOf(s, p) ==
  IF s = "order:create" /\ PriceOf(Value(p, "domains")) > 0
  THEN PriceOf(Value(p, "domains")) ELSE Worth(Value(p, "amount"))

Validate ==
  /\ stage = "draft"
  /\ stage' = IF ValidateIntent(scope, params) THEN "validated" ELSE "rejected"
  /\ UNCHANGED <<scope, params, judged, sent>>

(* The monetary part of the gate; the rest of it is in WriteFlow.          *)
WithinCap == scope \in HighRisk \ Destructive =>
               0 < AmountOf(scope, params) /\ AmountOf(scope, params) <= Cap

Block ==
  /\ stage = "validated"
  /\ scope \notin Composite
  /\ ~WithinCap
  /\ stage' = "execution_blocked"
  /\ UNCHANGED <<scope, params, judged, sent>>

(* The mapper runs last: what it throws fails an executed intent.          *)
Execute ==
  /\ stage = "validated"
  /\ scope \notin Composite
  /\ WithinCap
  /\ judged' = AmountOf(scope, params)
  /\ LET throws == scope = "order:create" /\ OrderThrows(params) IN
     /\ stage' = IF throws THEN "failed" ELSE "executed"
     /\ sent' = IF throws THEN sent ELSE IntentToWhmcsParams(scope, params)
  /\ UNCHANGED <<scope, params>>

ParamsInit ==
  /\ \E d \in Drafts : scope = d[1] /\ params = d[2]
  /\ stage = "draft"
  /\ judged = 0
  /\ sent = <<>>

ParamsNext == Validate \/ Block \/ Execute

ParamsSpec == ParamsInit /\ [][ParamsNext]_paramVars

-----------------------------------------------------------------------------
(* Properties.                                                             *)

(* What WHMCS is asked to move, by the keys it reads.                      *)
Moves ==
  LET of(k) == IF k \in DOMAIN sent THEN Worth(sent[k]) ELSE 0 IN
  of("amount") + of("amountout")
    + (IF "domainpriceoverride" \in DOMAIN sent
       THEN PriceOf(sent["domainpriceoverride"]) ELSE 0)

(* An amount that a high-risk scope sends was judged by the caps in full,  *)
(* as string, number or rows, and is never negative: validation looks for  *)
(* a sign in numbers only, and three mappers name the amount otherwise.    *)
JudgedInFull ==
  stage = "executed" /\ scope \in HighRisk \ Destructive => 0 <= Moves /\ Moves <= judged

(* External: a capture takes what is due on the invoice, which is not in   *)
(* its parameters.                                                         *)
Charged == IF scope = "billing:payment:capture" THEN Due ELSE Moves

(* README.md: "Per-action cap for high-risk write scopes": no execution    *)
(* moves more than the cap.                                                *)
PerActionCapHolds ==
  stage = "executed" /\ scope \in HighRisk \ Destructive => Charged <= Cap
=============================================================================
