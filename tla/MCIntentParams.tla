--------------------------- MODULE MCIntentParams ---------------------------
(* Drafts of every scope: each required param and some optional ones, each *)
(* at one of the values that the code tells apart for it.                  *)
EXTENDS IntentParams, FiniteSetsExt, TLC

MCIds == {"clientid", "userid", "ticketid", "deptid", "invoiceid", "invoice_id", "itemid",
          "serviceid", "pid", "domainid", "orderid", "contactid", "quoteid",
          "source_clientid", "destination_clientid", "dest_clientid",
          "newproductid", "addonid", "regperiod"}

MCMembers == {"stage", "refund_type", "invoice_mode"}

MCChoices(s, k) ==
  CASE k \in MCIds -> {"undefined", "1", "2", "0.5"}
    [] s = "billing:credit:transfer" /\ k \in {"reason", "request_id", "confirm"} ->
         {"blank", "text", "true"}
    [] k = "amount" -> {"undefined", "blank", "text", "-1", "0", "1", "2", "'2'", "'-2'"}
    [] k \in MCMembers -> {"undefined", "text", "member"}
    [] k = "status" -> {"undefined", "text", "member", "draft"}
    [] k = "type" -> {"text", "product", "configoptions", "addon"}
    [] k = "email" -> {"undefined", "text", "mail"}
    [] k \in {"domain", "ns1"} -> {"undefined", "blank", "host", "dot", "1"}
    [] k \in {"confirm", "idprotect", "lockstatus", "dry_run", "autosetup", "noemail"} ->
         {"undefined", "true", "false", "text"}
    [] k = "domains" -> {"undefined", "[]", "[ok]", "[ok,ok]", "[free]", "[dot]", "[frac]", "[bad]"}
    [] k \in {"items", "targets", "service_ids", "nameservers"} ->
         {"undefined", "text", "[]", "[ok]", "[ok,ok]", "[bad]"}
    [] k = "paymentmethod" -> {"undefined", "blank", "text", "1"}
    [] k = "mergeticketids" -> {"undefined", "[]", "[ok]", "[self]", "[bad]"}
    [] k \in {"customfields", "configoptions"} -> {"undefined", "{}", "{ok}", "{null}", "{nested}"}
    [] OTHER -> {"undefined", "blank", "text"}

(* The sets of params that drafts of a scope come with.                    *)
MCShapes(s) ==
  LET with(ks) == {Required(s) \cup {k} : k \in ks} IN
  CASE s = "ticket:create" -> {{"deptid", "subject", "message", "clientid", "name", "email"}}
    [] s \in {"client:update", "client:contact:add", "client:contact:update"} ->
         with(ClientUpdatable \cup {"status"})
    [] s = "client:create" -> with({"notes", "status"})
    [] s = "billing:quote:update" -> with(QuoteUpdatable \cup {"items", "email"})
    [] s = "billing:quote:create" -> {Required(s) \cup {"items", "email"}}
    [] s \in {"service:price_restore", "service:transfer_owner"} -> with({"dry_run"})
    [] s = "service:domain_rename" -> with({"expected_old_domain"})
    [] s = "service:upgrade" -> with({"newproductid", "configoptions", "addonid", "amount"})
    [] s = "service:product:set" -> with({"billingcycle"})
    [] s = "billing:invoice:update" -> with({"status"})
    [] s = "order:accept" -> with({"autosetup", "amount"})
    [] s = "order:create" -> with({"amount", "noemail"})
    [] s = "domain:register" -> with({"ns1", "amount"})
    [] s = "billing:payment:add" -> with({"transid", "gateway"})
    [] s = "service:suspend" -> with({"suspendreason"})
    [] s \in HighRisk -> with({"amount"})
    [] OTHER -> {Required(s)}

MCAll(s, keys) ==
  LET all[ks \in SUBSET keys] ==
        IF ks = {} THEN {<<>>}
        ELSE LET k == CHOOSE j \in ks : TRUE IN
             {(k :> v) @@ f : v \in MCChoices(s, k), f \in all[ks \ {k}]}
  IN all[keys]

MCScopes ==
  {"client_note:write", "ticket:create", "ticket:reply", "ticket:status",
   "billing:invoice:create", "billing:payment:add", "billing:credit:add",
   "billing:credit:transfer", "billing:refund:record", "service:price_restore",
   "service:domain_rename", "service:suspend", "service:unsuspend",
   "service:terminate", "domain:nameservers:update", "billing:payment:capture",
   "billing:credit:apply", "domain:register", "domain:renew", "order:accept",
   "order:create", "client:create", "client:update", "service:change_package",
   "service:product:set", "service:customfields:update", "service:upgrade",
   "domain:idprotect:toggle", "domain:lock:toggle", "client:contact:add",
   "client:contact:update", "billing:billable_item:add", "billing:quote:create",
   "billing:quote:update", "billing:quote:send", "billing:quote:accept",
   "ticket:note", "ticket:merge", "service:transfer_owner",
   "billing:invoice:reassign", "order:cancel", "order:pending",
   "billing:invoice:update", "billing:billable_item:update",
   "domain:epp:request", "domain:record:update", "support:cancel_request:add",
   "client:close", "client:contact:delete"}

MCDrafts == UNION {UNION {{<<s, p>> : p \in MCAll(s, keys)} : keys \in MCShapes(s)} : s \in MCScopes}

MCCaptures == {<<"billing:payment:capture", p>> :
                 p \in MCAll("billing:payment:capture", {"invoiceid", "amount"})}
=============================================================================
