---------------------------- MODULE MCWriteFlow ----------------------------
(* A domain rename (medium risk, prechecked) and a client note (low risk), *)
(* or two drafts of one domain rename, by one consumer.                    *)
EXTENDS WriteFlow, TLC

CONSTANTS r1, r2, alice, bob, h1, h2

MCConsumers == {alice, bob}

MCScopes == {"service:domain_rename", "client_note:write"}

MCMixed == [i \in Intents |->
  [drafter |-> alice, target |-> "svc", amount |-> 0,
   scope |-> IF i = r1 THEN "service:domain_rename" ELSE "client_note:write"]]

MCRename == [i \in Intents |->
  [drafter |-> alice, scope |-> "service:domain_rename", target |-> "svc",
   amount |-> 0]]

MCRisk == [s \in MCScopes |->
             IF s = "service:domain_rename" THEN "medium" ELSE "low"]

MCAction == [s \in MCScopes |-> IF s = "service:domain_rename"
                                THEN "UpdateClientProduct" ELSE "AddClientNote"]

MCSymmetry == Permutations({h1, h2})
=============================================================================
