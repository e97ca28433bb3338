----------------------------- MODULE WriteOnce -----------------------------
(***************************************************************************)
(* What governed writes promise a caller, with no tools, tokens, tiers,    *)
(* ledgers or awaits: a write request is handed to WHMCS at most once,     *)
(* only after the attempt was put on durable record, and a request that    *)
(* was closed (rejected, blocked, lost, pruned or already dispatched) is   *)
(* never dispatched afterwards.                                            *)
(***************************************************************************)
EXTENDS Naturals

CONSTANT Intents

VARIABLES
  journal,   \* the intents whose attempt is on durable record
  closed,    \* the intents that can no longer be dispatched
  sent       \* how often each intent was handed to WHMCS

vars == <<journal, closed, sent>>

Init ==
  /\ journal = {}
  /\ closed = {}
  /\ sent = [i \in Intents |-> 0]

(* Put an attempt on record; recording alone dispatches nothing.           *)
Record(i) ==
  /\ journal' = journal \cup {i}
  /\ \E S \in SUBSET Intents : closed' = closed \cup S
  /\ UNCHANGED sent

(* Give up on some requests: a rejection, a denial, a crash, an expiry.    *)
Close(S) ==
  /\ closed' = closed \cup S
  /\ UNCHANGED <<journal, sent>>

(* The one dispatch of an open, recorded request, which closes it.         *)
Dispatch(i) ==
  /\ i \notin closed
  /\ sent[i] = 0
  /\ journal' = journal \cup {i}
  /\ closed' = closed \cup {i}
  /\ sent' = [sent EXCEPT ![i] = 1]

Next ==
  \/ \E i \in Intents : Record(i) \/ Dispatch(i)
  \/ \E S \in SUBSET Intents : Close(S)

Spec == Init /\ [][Next]_vars
=============================================================================
