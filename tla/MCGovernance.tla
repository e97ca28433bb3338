--------------------------- MODULE MCGovernance ---------------------------
(* A registry of an operator and a deliberate anonymous entry that is       *)
(* narrowed, rotated, revoked and broken in four deployments.               *)
EXTENDS Governance

Ops == [id |-> "ops", token |-> "t1", defaultContract |-> "ops_operator",
        allowedContracts |-> {"ops_operator", "admin_full_trusted", "debug_local"},
        allowedActions |-> {}, envRestrictions |-> {}, writeCapability |-> "execution_allowed",
        scopes |-> {"ticket:note"}, anonymous |-> FALSE]

Anyone == [Ops EXCEPT !.id = "anon", !.token = "t0", !.defaultContract = "llm_safe_summary",
             !.allowedContracts = {"llm_safe_summary"}, !.writeCapability = "false",
             !.scopes = {}, !.anonymous = TRUE]

Narrowed == [Ops EXCEPT !.defaultContract = "billing_reconciliation",
               !.allowedContracts = {"billing_reconciliation"}, !.allowedActions = {"get_ticket"},
               !.writeCapability = "draft_only"]

Rotated == [Ops EXCEPT !.token = "t2", !.envRestrictions = {"staging"}, !.allowedActions = {"GetTickets"}]

MCVersions ==
  {[readable |-> TRUE, entries |-> {Ops, Anyone}],
   [readable |-> TRUE, entries |-> {Narrowed}],
   [readable |-> TRUE, entries |-> {Rotated, Anyone}],
   [readable |-> TRUE, entries |-> {Ops, Narrowed}],
   [readable |-> FALSE, entries |-> {}]}

Deployment(transport, env, governed, defaultToken, registryFile, inline) ==
  [transport |-> transport, env |-> env, governed |-> governed, defaultToken |-> defaultToken,
   registryFile |-> registryFile, inline |-> [readable |-> TRUE, entries |-> inline],
   allowAnon |-> TRUE, extraScopes |-> {"client_note:create"}]

MCSetups ==
  {Deployment("stdio", "staging", TRUE, "t1", TRUE, {}),
   Deployment("stdio", "production", TRUE, "none", TRUE, {}),
   Deployment("http", "production", TRUE, "none", TRUE, {Ops, Anyone}),
   Deployment("stdio", "local", FALSE, "none", FALSE, {Ops})}

(* A deployment over HTTP whose file rotates the token of its only consumer. *)
MCOverHttp == {Deployment("http", "staging", TRUE, "none", TRUE, {Ops})}

MCRotation ==
  {[readable |-> TRUE, entries |-> {Ops}],
   [readable |-> TRUE, entries |-> {[Ops EXCEPT !.token = "t2"]}]}

Ask(token, kind, contract, action, scope) ==
  [token |-> token, kind |-> kind, contract |-> contract, action |-> action, scope |-> scope]

MCRequests ==
  {Ask("t1", "read", "admin_full_trusted", "list_tickets", "none"),
   Ask("t2", "read", "none", "list_tickets", "none"),
   Ask("none", "read", "debug_local", "list_invoices", "none"),
   Ask("t1", "draft", "none", "none", "ticket:note"),
   Ask("t2", "draft", "none", "none", "client_note:create")}

MCFamilies == {{"list_tickets", "list_client_tickets", "GetTickets"}, {"list_invoices", "GetInvoices"}}

MCLeaves ==
  {[class |-> "pii.email", gates |-> {}, text |-> TRUE],
   [class |-> "pii.tax", gates |-> {}, text |-> FALSE],
   [class |-> "secret.credential", gates |-> {}, text |-> TRUE],
   [class |-> "untrusted.free_text", gates |-> {}, text |-> TRUE],
   [class |-> "system.status", gates |-> {"system.diagnostic"}, text |-> TRUE],
   [class |-> "unmapped", gates |-> {}, text |-> TRUE]}
============================================================================
