---------------------------- MODULE MCWritePay -----------------------------
(* High-risk money writes by one consumer: p1 and p2 ask for the same      *)
(* payment, p3 for another one under the same daily cap.                   *)
EXTENDS WriteFlow, TLC

CONSTANTS p1, p2, p3, alice, bob, h1, h2

MCConsumers == {alice, bob}

MCScopes == {"billing:payment:add"}

MCRequest == [i \in Intents |->
  [drafter |-> alice, scope |-> "billing:payment:add",
   target |-> IF i = p3 THEN "invoice 2" ELSE "invoice 1", amount |-> 1]]

MCRisk == [s \in MCScopes |-> "high"]

MCAction == [s \in MCScopes |-> "AddInvoicePayment"]

MCSymmetry == Permutations({h1, h2}) \cup Permutations({p1, p2})
=============================================================================
