--------------------------- MODULE CreditTransfer ---------------------------
(***************************************************************************)
(* The composite client-credit transfer of src/write/creditTransfer.ts:    *)
(* WHMCS has no atomic transfer, so a run debits the source, credits the   *)
(* destination, compensates the source when the credit fails, reads both   *)
(* balances back and writes audit artifacts, and keeps a durable record.   *)
(*                                                                         *)
(* An action is one run of executeUnlocked from an await to the next.  A   *)
(* mutation is answered separately from being applied: WHMCS may apply it  *)
(* and the answer may still be an error (a timeout, a dropped connection), *)
(* or apply it after the run gave up on it or the process died.            *)
(***************************************************************************)
EXTENDS Integers, FiniteSets

CONSTANTS
  Calls,         \* executions of the transfer, each with a transfer id of its own
  Clients,       \* WHMCS clients
  Requests,      \* request ids callers choose
  Input,         \* what each execution is asked: see Inputs
  Opening,       \* opening balances
  StateDurable,  \* is MCP_CREDIT_TRANSFER_STATE_PATH configured?
  MaxCrashes,    \* bound on the crashes
  NoOne          \* no execution, no request

Inputs == [request : Requests, source : Clients, destination : Clients,
           amount : Nat \ {0}, reverses : Requests \cup {NoOne}]

TransferAssumption ==
  /\ Input \in [Calls -> Inputs]
  /\ \A c \in Calls : Input[c].source # Input[c].destination
  /\ Opening \in [Clients -> Int]
  /\ StateDurable \in BOOLEAN
  /\ MaxCrashes \in Nat
  /\ NoOne \notin Calls \cup Requests

ASSUME TransferAssumption

VARIABLES
  pc,         \* where each execution stands
  behind,     \* the execution a waiting one waits for
  lock,       \* the locks map: the last execution to take each client pair
  run,        \* source, destination, amount and the balances the run read
  rec,        \* the state of each transfer's record, "none" if there is none
  reversedBy, \* reversed_by_transfer_id of each record
  credit,     \* WHMCS: the clients' balances
  posted,     \* WHMCS: the credit rows, as <<execution, leg>>
  crashes,    \* crashes so far
  sent        \* history: the mutations sent to WHMCS, as <<execution, leg>>

vars == <<pc, behind, lock, run, rec, reversedBy, credit, posted, crashes, sent>>

queue == <<behind, lock>>
store == <<rec, reversedBy>>
whmcs == <<credit, posted>>

CreditTransferState == {"prepared", "source_debited", "financially_completed",
                        "completed", "compensated", "audit_repair_required"}

Mutating == {"debiting", "crediting", "compensating"}

Pc == {"idle", "waiting", "reading", "preparing", "confirming", "comp_auditing",
       "checking", "auditing", "done"} \cup Mutating

-----------------------------------------------------------------------------
(* The record store.                                                       *)

(* The transfers on record under a request id (or under the transfer id    *)
(* that request produced, which names the same record).                    *)
OnRecord(request) ==
  {d \in Calls : rec[d] # "none" /\ Input[d].request = request}

Reversible(d) == rec[d] = "completed" /\ reversedBy[d] = NoOne

\* Variant with a defect: put does not look the request id up.
PutAnyway(c) == TRUE

(* CreditTransferStore.put of a new record throws if the request id        *)
(* belongs to another transfer.                                            *)
CanPut(c) == OnRecord(Input[c].request) \subseteq {c}

Put(c, state) == rec' = [rec EXCEPT ![c] = state]

(* An AddCredit: the source's debit, the destination's credit, or the      *)
(* credit that gives the source its money back.                            *)
Legs == {"out", "in", "back"}

Send(c, leg) == sent' = sent \cup {<<c, leg>>}

-----------------------------------------------------------------------------
(* The lock on a client pair: a chain of promises.                         *)

LockKey(c) == {Input[c].source, Input[c].destination}

\* Variant with a defect: the execution enters the map before it looks.
HolderAfterSet(c) == IF lock[LockKey(c)] = NoOne THEN NoOne ELSE c

(* locks.get: whom an execution that is called now has to wait for.        *)
Holder(c) == lock[LockKey(c)]

(* The `finally` of an execution: it clears the lock only if it holds it.  *)
ReleasedBy(c) ==
  [k \in DOMAIN lock |-> IF k = LockKey(c) /\ lock[k] = c THEN NoOne ELSE lock[k]]

Goto(c, place) == pc' = [pc EXCEPT ![c] = place]

(* The execution returns or throws.                                        *)
Finish(c) ==
  /\ Goto(c, "done")
  /\ lock' = ReleasedBy(c)
  /\ UNCHANGED behind

(* A waiter whose predecessor has settled runs before any new input.       *)
Woken == {c \in Calls : pc[c] = "waiting" /\ pc[behind[c]] = "done"}

(* What the execution will move: a reversal swaps the original's clients.  *)
Plan(c) ==
  LET in == Input[c] IN
  IF in.reverses = NoOne
  THEN [source |-> in.source, destination |-> in.destination,
        amount |-> in.amount, before |-> <<0, 0>>]
  ELSE LET d == CHOOSE d \in OnRecord(in.reverses) : TRUE IN
       [source |-> run[d].destination, destination |-> run[d].source,
        amount |-> run[d].amount, before |-> <<0, 0>>]

(* executeUnlocked up to its first await.                                  *)
StartRun(c) ==
  LET refused == \/ OnRecord(Input[c].request) # {}
                 \/ /\ Input[c].reverses # NoOne
                    /\ ~\E d \in OnRecord(Input[c].reverses) : Reversible(d)
  IN
  \/ /\ refused
     /\ Goto(c, "done")
     /\ lock' = [lock EXCEPT ![LockKey(c)] = NoOne]
     /\ UNCHANGED run
  \/ /\ ~refused
     /\ Goto(c, "reading")
     /\ lock' = [lock EXCEPT ![LockKey(c)] = c]
     /\ run' = [run EXCEPT ![c] = Plan(c)]

-----------------------------------------------------------------------------
(* executeClientCreditTransfer.                                            *)

Begin(c) ==
  /\ pc[c] = "idle"
  /\ Woken = {}
  /\ IF Holder(c) = NoOne
     THEN StartRun(c) /\ UNCHANGED behind
     ELSE /\ Goto(c, "waiting")
          /\ behind' = [behind EXCEPT ![c] = Holder(c)]
          /\ UNCHANGED <<lock, run>>
  /\ UNCHANGED <<store, whmcs, crashes, sent>>

(* The awaited predecessor settled: go on, without looking at the lock.    *)
Wake(c) ==
  /\ c \in Woken
  /\ StartRun(c)
  /\ UNCHANGED <<behind, store, whmcs, crashes, sent>>

(* Both clients are read; inactive, unknown or poor clients end the run.   *)
ReadClients(c, ok) ==
  LET balance == credit[run[c].source] IN
  /\ pc[c] = "reading"
  /\ Woken = {}
  /\ \/ /\ ok
        /\ balance >= run[c].amount
        /\ run' = [run EXCEPT ![c].before = <<balance, credit[run[c].destination]>>]
        /\ Goto(c, "preparing")
        /\ UNCHANGED queue
     \/ /\ ~ok \/ balance < run[c].amount
        /\ Finish(c)
        /\ UNCHANGED run
  /\ UNCHANGED <<store, whmcs, crashes, sent>>

(* Tax posture and invoice counts are read; then the record is put and the *)
(* debit is sent.                                                          *)
Prepare(c, ok) ==
  /\ pc[c] = "preparing"
  /\ Woken = {}
  /\ \/ /\ ok /\ CanPut(c)
        /\ Put(c, "prepared")
        /\ Goto(c, "debiting")
        /\ Send(c, "out")
        /\ UNCHANGED queue
     \/ /\ ~ok \/ ~CanPut(c)
        /\ Finish(c)
        /\ UNCHANGED <<rec, sent>>
  /\ UNCHANGED <<run, reversedBy, whmcs, crashes>>

(* WHMCS applies an AddCredit it was sent, maybe long after the answer.    *)
Applied(c, leg) == <<c, leg>> \in posted

ApplyCredit(c, leg) ==
  LET r == run[c]
      client == IF leg = "in" THEN r.destination ELSE r.source
  IN
  /\ <<c, leg>> \in sent \ posted
  /\ posted' = posted \cup {<<c, leg>>}
  /\ credit' = [credit EXCEPT ![client] =
                  IF leg = "out" THEN @ - r.amount ELSE @ + r.amount]
  /\ UNCHANGED <<pc, queue, run, store, crashes, sent>>

(* The answer to the debit: an error ends the run with the record as it is.*)
DebitAnswered(c, ok) ==
  /\ pc[c] = "debiting"
  /\ ok => Applied(c, "out")
  /\ Woken = {}
  /\ \/ /\ ok
        /\ Put(c, "source_debited")
        /\ Send(c, "in")
        /\ Goto(c, "crediting")
        /\ UNCHANGED queue
     \/ /\ ~ok
        /\ Finish(c)
        /\ UNCHANGED <<rec, sent>>
  /\ UNCHANGED <<run, reversedBy, whmcs, crashes>>

\* Variant with a defect: an error of the credit is taken as its success.
CreditTrusted(c, ok) ==
  /\ pc[c] = "crediting"
  /\ ok => Applied(c, "in")
  /\ Woken = {}
  /\ Goto(c, "auditing")
  /\ UNCHANGED <<queue, run, store, whmcs, crashes, sent>>

(* The answer to the credit: an error sends the compensation.              *)
CreditAnswered(c, ok) ==
  /\ pc[c] = "crediting"
  /\ ok => Applied(c, "in")
  /\ Woken = {}
  /\ \/ ok /\ Goto(c, "checking") /\ UNCHANGED sent
     \/ ~ok /\ Goto(c, "compensating") /\ Send(c, "back")
  /\ UNCHANGED <<queue, run, store, whmcs, crashes>>

\* Variant with a defect: a failed compensation is reported as done.
CompensationTrusted(c, ok) ==
  /\ pc[c] = "compensating"
  /\ ok => Applied(c, "back")
  /\ Woken = {}
  /\ Goto(c, "confirming")
  /\ UNCHANGED <<queue, run, store, whmcs, crashes, sent>>

CompensationAnswered(c, ok) ==
  /\ pc[c] = "compensating"
  /\ ok => Applied(c, "back")
  /\ Woken = {}
  /\ IF ok THEN Goto(c, "confirming") /\ UNCHANGED <<queue, rec>>
           ELSE Finish(c) /\ Put(c, "audit_repair_required")
  /\ UNCHANGED <<run, reversedBy, whmcs, crashes, sent>>

(* The source's balance is read after the compensation.                    *)
Confirmed(c, ok) ==
  /\ pc[c] = "confirming"
  /\ Woken = {}
  /\ IF ok THEN Put(c, "compensated") /\ Goto(c, "comp_auditing") /\ UNCHANGED queue
           ELSE Put(c, "audit_repair_required") /\ Finish(c)
  /\ UNCHANGED <<run, reversedBy, whmcs, crashes, sent>>

(* Credit rows, activity entries and notes of a compensated transfer.      *)
CompensationAudited(c, ok) ==
  /\ pc[c] = "comp_auditing"
  /\ Woken = {}
  /\ Put(c, IF ok THEN "compensated" ELSE "audit_repair_required")
  /\ Finish(c)
  /\ UNCHANGED <<run, reversedBy, whmcs, crashes, sent>>

(* The balances read back are the balances read before, moved exactly.     *)
Exact(r) ==
  /\ credit[r.source] = r.before[1] - r.amount
  /\ credit[r.destination] = r.before[2] + r.amount

\* Variant with a defect: a failed reconciliation falls through to the audit.
ReadBackGoesOn(c, ok) ==
  /\ pc[c] = "checking"
  /\ Woken = {}
  /\ ok
  /\ Put(c, IF Exact(run[c]) THEN "financially_completed"
                              ELSE "audit_repair_required")
  /\ Goto(c, "auditing")
  /\ UNCHANGED <<queue, run, reversedBy, whmcs, crashes, sent>>

(* Both credit rows and both balances are read back.                       *)
ReadBack(c, ok) ==
  /\ pc[c] = "checking"
  /\ Woken = {}
  /\ \/ \* a row is missing or a read fails: the run throws
        /\ ~ok
        /\ Finish(c)
        /\ UNCHANGED rec
     \/ /\ ok /\ Exact(run[c])
        /\ Put(c, "financially_completed")
        /\ Goto(c, "auditing")
        /\ UNCHANGED queue
     \/ /\ ok /\ ~Exact(run[c])
        /\ Put(c, "audit_repair_required")
        /\ Finish(c)
  /\ UNCHANGED <<run, reversedBy, whmcs, crashes, sent>>

(* Activity entries, notes and invoice counts; then the original of a      *)
(* reversal is linked to it.                                               *)
Audited(c, ok) ==
  /\ pc[c] = "auditing"
  /\ Woken = {}
  /\ Put(c, IF ok THEN "completed" ELSE "audit_repair_required")
  /\ reversedBy' = [d \in Calls |->
                      IF ok /\ Input[c].reverses # NoOne
                            /\ d \in OnRecord(Input[c].reverses)
                      THEN c ELSE reversedBy[d]]
  /\ Finish(c)
  /\ UNCHANGED <<run, whmcs, crashes, sent>>

-----------------------------------------------------------------------------
(* The process dies: running executions and locks are gone.                *)
Restart(records) ==
  /\ crashes < MaxCrashes
  /\ crashes' = crashes + 1
  /\ pc' = [c \in Calls |-> IF pc[c] = "idle" THEN "idle" ELSE "done"]
  /\ lock' = [k \in DOMAIN lock |-> NoOne]
  /\ IF StateDurable
     THEN rec' = records /\ UNCHANGED reversedBy
     ELSE /\ rec' = [c \in Calls |-> "none"]
          /\ reversedBy' = [c \in Calls |-> NoOne]
  /\ UNCHANGED <<behind, run, whmcs, sent>>

Crash == Restart(rec)

(* It dies between two puts or between a put and the mutation it precedes. *)
CrashAfterPut(c) ==
  \/ /\ pc[c] = "preparing" /\ CanPut(c)
     /\ Restart([rec EXCEPT ![c] = "prepared"])
  \/ /\ pc[c] = "checking"
     /\ Restart([rec EXCEPT ![c] = "financially_completed"])
  \/ /\ pc[c] = "auditing"
     /\ Restart([rec EXCEPT ![c] = "completed"])

-----------------------------------------------------------------------------
Init ==
  /\ pc = [c \in Calls |-> "idle"]
  /\ behind = [c \in Calls |-> NoOne]
  /\ lock = [k \in {LockKey(c) : c \in Calls} |-> NoOne]
  /\ run = [c \in Calls |-> [source |-> Input[c].source,
                             destination |-> Input[c].destination,
                             amount |-> Input[c].amount, before |-> <<0, 0>>]]
  /\ rec = [c \in Calls |-> "none"]
  /\ reversedBy = [c \in Calls |-> NoOne]
  /\ credit = Opening
  /\ posted = {}
  /\ crashes = 0
  /\ sent = {}

(* What an execution does of itself once it has been called.               *)
Advance(c) ==
  \/ Wake(c)
  \/ \E ok \in BOOLEAN :
       \/ ReadClients(c, ok) \/ Prepare(c, ok)
       \/ DebitAnswered(c, ok) \/ CreditAnswered(c, ok)
       \/ CompensationAnswered(c, ok) \/ Confirmed(c, ok)
       \/ CompensationAudited(c, ok) \/ ReadBack(c, ok) \/ Audited(c, ok)

Next ==
  \/ \E c \in Calls : Begin(c) \/ Advance(c) \/ CrashAfterPut(c)
  \/ \E c \in Calls, leg \in Legs : ApplyCredit(c, leg)
  \/ Crash

(* Every WHMCS call is answered, if only by its timeout, and the event     *)
(* loop runs every continuation; nothing makes callers call.               *)
Fairness == \A c \in Calls : WF_vars(Advance(c))

Spec == Init /\ [][Next]_vars /\ Fairness

-----------------------------------------------------------------------------
(* Properties.                                                             *)

(* Every variable has its type, and a waiting execution waits for another. *)
TypeOK ==
  /\ pc \in [Calls -> Pc]
  /\ behind \in [Calls -> Calls \cup {NoOne}]
  /\ \A c \in Calls : pc[c] = "waiting" => behind[c] \in Calls \ {c}
  /\ lock \in [{LockKey(c) : c \in Calls} -> Calls \cup {NoOne}]
  /\ run \in [Calls -> [source : Clients, destination : Clients,
                       amount : Nat \ {0}, before : Int \X Int]]
  /\ rec \in [Calls -> CreditTransferState \cup {"none"}]
  /\ reversedBy \in [Calls -> Calls \cup {NoOne}]
  /\ credit \in [Clients -> Int]
  /\ sent \subseteq Calls \X Legs
  /\ posted \subseteq sent
  /\ crashes \in Nat

Moved(c) == {leg \in Legs : Applied(c, leg)}

Over(c) == pc[c] \in {"idle", "waiting", "done"}

Remembering == StateDurable \/ crashes = 0

(* A request id sends at most one debit, whoever retries it, concurrently, *)
(* through another client pair's lock, or after a crash.                   *)
OneDebitPerRequest ==
  Remembering =>
    \A c, d \in Calls :
      {<<c, "out">>, <<d, "out">>} \subseteq sent /\ Input[c].request = Input[d].request
        => c = d

(* Credit taken from a source and neither delivered nor given back is      *)
(* always on record as a transfer that needs reconciliation.               *)
LossOnRecord ==
  Remembering =>
    \A c \in Calls :
      Over(c) /\ Moved(c) = {"out"}
        => rec[c] \in {"prepared", "source_debited", "audit_repair_required"}

(* A completed transfer moved its amount exactly once, and a compensated   *)
(* one gave it back.                                                       *)
RecordMatchesRows ==
  \A c \in Calls :
    /\ rec[c] \in {"financially_completed", "completed"} => Moved(c) = {"out", "in"}
    /\ rec[c] = "compensated" => {"out", "back"} \subseteq Moved(c)

(* A record that says completed or that needs repair is final: no retry,   *)
(* reversal, late answer or restart of a durable store rewrites its state. *)
Final == {"completed", "audit_repair_required"}

FinalRecordStays ==
  [][\A c \in Calls : rec[c] \in Final /\ StateDurable => rec'[c] = rec[c]]_vars

(* What a record says to its requester; "compensated" counts once the run  *)
(* that audits the compensation is over.                                   *)
HowItEnded(place, state) ==
  CASE state \in {"none", "completed"} -> state
    [] state = "compensated" /\ place # "comp_auditing" -> "compensated"
    [] state = "audit_repair_required" -> "repair"
    [] OTHER -> "open"

outcomes ==
  [r \in Requests |->
     LET on == OnRecord(r)
         c == CHOOSE d \in on : TRUE
     IN IF on = {} THEN "none" ELSE HowItEnded(pc[c], rec[c])]

(* How often each leg of a request has moved, whichever execution sent it. *)
MovedFor(r, leg) == {row \in posted : row[2] = leg /\ Input[row[1]].request = r}

moves == [r \in Requests |-> [leg \in Legs |-> Cardinality(MovedFor(r, leg))]]

(* With a durable record store, all the executions of a request id keep    *)
(* the promise of TransferOnce together.                                   *)
Transfers == INSTANCE TransferOnce WITH outcome <- outcomes, moved <- moves

SettlesOnce == Transfers!Spec

(* An execution that was called returns: the promise chain of a client     *)
(* pair never stalls, although a run may clear a lock another one holds.   *)
CalledReturns ==
  \A c \in Calls : pc[c] \notin {"idle", "done"} ~> pc[c] = "done"

=============================================================================
