----------------------------- MODULE MCGateway -----------------------------
(* What lets requests in and reads out: the HTTP transport, the read       *)
(* coordinator and the request pipeline.  They share no state here, so a   *)
(* behaviour is one of a single part while the others rest.                *)
EXTENDS HttpSessions, ReadCoordinator, RequestPipeline

-----------------------------------------------------------------------------
(* Two sessions under a cap of one, the deletion of the first, which may   *)
(* be evicted before it, and a modern exchange.                            *)

CONSTANTS n1, n2, q1, m1

MCKind == [r \in Requests |->
  CASE r \in {n1, n2} -> "init"
    [] r = q1 -> "delete"
    [] r = m1 -> "modern"]

MCTarget == [r \in Requests |-> IF r = n2 THEN n2 ELSE n1]

MCConsumer == [r \in Requests |-> IF r = n2 THEN "ben" ELSE "ann"]

-----------------------------------------------------------------------------
(* Two callers of one shared read and one of another, and one read that is *)
(* not shared, by three consumers.                                         *)

CONSTANTS a1, a2, b1, c1, ann, ben, cat

Ask(x, k, shared) == [consumer |-> x, key |-> k, coalesce |-> shared]

MCShared == [c \in ReadCalls |->
  CASE c = a1 -> Ask(ann, "k", TRUE)
    [] c = a2 -> Ask(ann, "m", TRUE)
    [] c = b1 -> Ask(ben, "m", FALSE)
    [] c = c1 -> Ask(cat, "k", TRUE)]

(* Two reads of one consumer and one of each other, without coalescing.    *)
MCOwn == [c \in ReadCalls |->
  Ask(CASE c \in {a1, a2} -> ann [] c = b1 -> ben [] c = c1 -> cat, "k", FALSE)]

-----------------------------------------------------------------------------
(* Two reads and a write, so that a read is reset or healed beside another *)
(* read that joins and a write that is hit.                                *)

CONSTANTS r1, r2, w1

MCEffect == [c \in Calls |-> IF c = w1 THEN "write" ELSE "read"]

-----------------------------------------------------------------------------
(* One part at a time.                                                     *)

VARIABLE turn

GatewayInit ==
  /\ turn \in {"http", "lanes", "pipeline"}
  /\ HttpInit /\ Init /\ PipelineInit

GatewayNext ==
  /\ UNCHANGED turn
  /\ \/ turn = "http" /\ HttpNext /\ UNCHANGED <<vars, pipelineVars>>
     \/ turn = "lanes" /\ Next /\ UNCHANGED <<httpVars, pipelineVars>>
     \/ turn = "pipeline" /\ PipelineNext /\ UNCHANGED <<httpVars, vars>>

GatewaySpec ==
  /\ GatewayInit
  /\ [][GatewayNext]_<<turn, httpVars, vars, pipelineVars>>
  /\ HttpFairness /\ Fairness /\ PipelineFairness
=============================================================================
