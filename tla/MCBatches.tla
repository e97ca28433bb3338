----------------------------- MODULE MCBatches -----------------------------
(* The composite branches of executeRun, and the client that all of them   *)
(* read and write through.  They share no intent, row or key here, so a    *)
(* behaviour is one of a single part; the branches use the same names for  *)
(* the invocations, and price restores and credit transfers for the        *)
(* intents.                                                                *)
EXTENDS PriceRestore, OwnerTransfer, TransferIntents, MCWhmcsClient, TLC

-----------------------------------------------------------------------------
(* b1 and b2 make the same request for two services, b3 previews part of it*)
(* and b4 asks for three, more than two runs may change within the cap; the*)
(* caller names them all alike.                                            *)

CONSTANTS b1, b2, b3, b4, c1, c2

MCServices == {"s1", "s2", "s3"}

MCAnyPrice == 0 - 1

To(service, expected) == [svc |-> service, new |-> 2, old |-> expected]

MCAsked == [b \in Batches |->
  CASE b \in {b1, b2} -> <<To("s1", 1), To("s2", MCAnyPrice)>>
    [] b = b3 -> <<To("s2", MCAnyPrice)>>
    [] b = b4 -> <<To("s1", 1), To("s2", MCAnyPrice), To("s3", 1)>>]

MCNaturalKey == [b \in Batches |-> "request"]

MCStartPrice == [s \in MCServices |-> 1]

RestoreSymmetry == Permutations(Runs) \cup Permutations({b1, b2})

-----------------------------------------------------------------------------
(* t1 and t2 want services of one client for two others; one invoice is    *)
(* about both services, one about the second alone.                        *)

CONSTANTS t1, t2, i1, i2, i3

MCClients == {"ann", "ben", "cem"}

MCHosting == {"h1", "h2"}

MCWanted == [t \in Transfers |->
  [source |-> "ann", dest |-> IF t = t1 THEN "ben" ELSE "cem",
   services |-> IF t = t1 THEN MCHosting ELSE {"h2"}, 
   mode |-> IF t = t1 THEN "all" ELSE "unpaid_only", dry |-> FALSE]]

MCFirstOwner == [s \in MCHosting |-> "ann"]

MCFirstInvoices ==
  (i1 :> [owner |-> "ann", lines |-> MCHosting, paid |-> TRUE])
  @@ (i2 :> [owner |-> "ann", lines |-> {"h2"}, paid |-> TRUE])

TransferSymmetry == Permutations(Executions)

-----------------------------------------------------------------------------
(* Two intents ask for one transfer; the drafter is itself a finance       *)
(* approver.                                                               *)

MCMove == [i \in CreditIntents |-> [request |-> "request", key |-> "request", amount |-> 1]]

CreditSymmetry == Permutations(CreditCalls) \cup Permutations(CreditIntents)

-----------------------------------------------------------------------------
(* One part at a time.                                                     *)

VARIABLE branch

Only(batches) == \A b \in Batches \ batches : bst'[b] = "undrafted"

BatchesInit ==
  /\ branch \in {"price_restore", "price_preview", "price_more", "transfer_owner",
                "credit_transfer", "whmcs_client"}
  /\ RestoreInit /\ TransferInit /\ CreditInit /\ Init
  /\ branch # "credit_transfer" => ~taxed

BatchesNext ==
  /\ UNCHANGED branch
  /\ \/ /\ branch = "price_restore" /\ RestoreNext /\ Only({b1, b2})
        /\ UNCHANGED <<price["s3"], dead \cap {"s3"}>>
        /\ UNCHANGED <<transferVars, creditVars, vars>>
     \/ /\ branch = "price_preview" /\ RestoreNext
        /\ \E b \in {b1, b2} : Only({b, b3})
        /\ UNCHANGED <<price["s3"], dead \cap {"s3"}>>
        /\ UNCHANGED <<transferVars, creditVars, vars>>
     \/ /\ branch = "price_more" /\ RestoreNext /\ Only({b4})
        /\ UNCHANGED <<transferVars, creditVars, vars>>
     \/ /\ branch = "transfer_owner" /\ TransferNext
        /\ UNCHANGED <<restoreVars, creditVars, vars>>
     \/ /\ branch = "credit_transfer" /\ CreditNext
        /\ UNCHANGED <<restoreVars, transferVars, vars>>
     \/ /\ branch = "whmcs_client" /\ Next
        /\ UNCHANGED <<restoreVars, transferVars, creditVars>>

BatchesSpec ==
  BatchesInit /\ [][BatchesNext]_<<branch, restoreVars, transferVars, creditVars, vars>>

BatchesSymmetry == RestoreSymmetry \cup TransferSymmetry \cup CreditSymmetry
=============================================================================
