-------------------------- MODULE MCCreditTransfer --------------------------
(* t and its retry u move credit from ann to ben, v moves credit back from *)
(* ben to ann, and w reverses whatever request A did while it states other *)
(* clients, so that it takes another pair's lock.                          *)
EXTENDS CreditTransfer

CONSTANTS t, u, v, w, ann, ben, cat

Ask(request, source, destination, reverses) ==
  [request |-> request, source |-> source, destination |-> destination,
   amount |-> 1, reverses |-> reverses]

MCInput == [c \in Calls |->
  CASE c \in {t, u} -> Ask("A", ann, ben, NoOne)
    [] c = v -> Ask("B", ben, ann, NoOne)
    [] c = w -> Ask("R", ann, cat, "A")]

MCOpening == [x \in Clients |-> 1]
=============================================================================
