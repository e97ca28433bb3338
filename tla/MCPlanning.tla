---------------------------- MODULE MCPlanning ----------------------------
(* A candidate that reads before it drafts twice, two preflights, a consumer *)
(* that may lose its scope, and two installations.                           *)
EXTENDS Planning

Operation(effect, actions, scope, calls) ==
  [effect |-> effect, actions |-> actions, scope |-> scope, calls |-> calls, fanOut |-> calls]

MCCatalog ==
  [aging |-> Operation("read", {"GetInvoices"}, "none", 1),
   suspend |-> Operation("draft", {}, "service:suspend", 0)]

Step(op, expected, after, client) ==
  [op |-> op, expected |-> expected, after |-> after, client |-> client,
   contract |-> "none", needs |-> "none"]

Suspend == [version |-> 4, mode |-> "draft_only",
            steps |-> <<Step("aging", "read", {}, "c1"), Step("suspend", "draft", {1}, "none"),
                        Step("suspend", "draft", {1}, "none")>>]

MCCandidates == {Suspend}

Full == [known |-> TRUE, caps |-> {"GetInvoices"}, scopes |-> {"service:suspend"},
         contracts |-> {}, draft |-> TRUE]

MCGrantSets == {Full, [Full EXCEPT !.scopes = {}]}

MCProcesses ==
  {[installation |-> i, version |-> 4, tools |-> {"aging", "suspend"}, clients |-> {"c1"}]
     : i \in {"live", "copy"}}
===========================================================================
