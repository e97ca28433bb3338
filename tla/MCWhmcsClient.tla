--------------------------- MODULE MCWhmcsClient ---------------------------
(* A cached read and a mutation of one client; two reads of the products   *)
(* that coalesce, one of them past the cache, and a mutation of those.     *)
EXTENDS WhmcsClient

CONSTANTS r1, r2, r3, r4, w1, w2

Ask(key, cached, shared) == [key |-> key, cached |-> cached, shared |-> shared]

MCEffect == [c \in Calls |-> IF c \in {w1, w2} THEN "write" ELSE "read"]

MCEntityOf == [k \in Keys |-> IF k = "products" THEN "shop" ELSE "client"]

MCInput == [c \in Calls |->
  CASE c = r1 -> Ask("details", TRUE, FALSE)
    [] c \in {r2, r3} -> Ask("products", TRUE, TRUE)
    [] c = r4 -> Ask("products", FALSE, TRUE)
    [] c = w1 -> Ask("details", FALSE, FALSE)
    [] c = w2 -> Ask("products", FALSE, FALSE)]
=============================================================================
