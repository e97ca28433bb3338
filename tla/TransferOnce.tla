---------------------------- MODULE TransferOnce ----------------------------
(***************************************************************************)
(* What a credit transfer promises whoever asks for it under a request id, *)
(* with no executions, locks, awaits, balances, answers or restarts: each  *)
(* leg moves at most once and none before the transfer is on record; the   *)
(* transfer is settled once, as what the legs that have moved bear out;    *)
(* and nothing moves for a completed one.                                  *)
(***************************************************************************)
EXTENDS Naturals

CONSTANT Requests   \* request ids

VARIABLES
  outcome,   \* what is on record of each request
  moved      \* how often each leg has moved in WHMCS: debit, credit, credit back

vars == <<outcome, moved>>

Legs == {"out", "in", "back"}

Settled == {"completed", "compensated", "repair"}

Outcomes == {"none", "open"} \cup Settled

Init ==
  /\ outcome = [r \in Requests |-> "none"]
  /\ moved = [r \in Requests |-> [leg \in Legs |-> 0]]

(* The legs that have moved bear the settlement out.  A credit that was    *)
(* given up may still arrive after the source was compensated.             *)
BorneOut(how, m) ==
  /\ m["out"] = 1
  /\ how = "completed" => m["in"] = 1 /\ m["back"] = 0
  /\ how = "compensated" => m["back"] = 1

Turns(old, new, m) ==
  \/ new = old
  \/ old = "none" /\ new = "open"
  \/ old = "open" /\ new \in Settled /\ BorneOut(new, m)

(* Transfers go on record or are settled: several at once when a restart   *)
(* ends what was under way.                                                *)
Note ==
  /\ outcome' \in [Requests -> Outcomes]
  /\ \A r \in Requests : Turns(outcome[r], outcome'[r], moved[r])
  /\ UNCHANGED moved

(* A leg moves: the debit first, each leg once, and only on record.        *)
Move(r, leg) ==
  /\ outcome[r] \notin {"none", "completed"}
  /\ moved[r][leg] = 0
  /\ leg # "out" => moved[r]["out"] = 1
  /\ moved' = [moved EXCEPT ![r][leg] = 1]
  /\ UNCHANGED outcome

Next == Note \/ \E r \in Requests, leg \in Legs : Move(r, leg)

Spec == Init /\ [][Next]_vars
=============================================================================
