-------------------------- MODULE ReadCoordinator --------------------------
(***************************************************************************)
(* The scheduler of src/whmcs/readCoordinator.ts: reads of WHMCS wait in   *)
(* one lane per consumer, a bounded number runs at once, identical reads   *)
(* may share one operation, and callers may abort or reach their deadline  *)
(* at any time.                                                            *)
(*                                                                         *)
(* Everything between two awaits is one action: what settles in one turn   *)
(* of the event loop (a cancellation, its `finally`, the pump) is settled  *)
(* before the next caller comes.  A call that starts an operation gives it *)
(* its name; the operation may outlive the call.                           *)
(***************************************************************************)
EXTENDS Naturals, FiniteSets, Sequences, SequencesExt

CONSTANTS
  ReadCalls,      \* invocations of run
  Consumers,      \* consumer keys, a lane each
  Keys,           \* coordination keys
  Input,          \* what each call asks: consumer, key, and whether it coalesces
  MaxConcurrency, \* MCP_READ_MAX_CONCURRENCY
  NoOne           \* no call, no consumer

CoordinatorAssumption ==
  /\ Input \in [ReadCalls -> [consumer : Consumers, key : Keys, coalesce : BOOLEAN]]
  /\ MaxConcurrency \in Nat \ {0}
  /\ NoOne \notin ReadCalls \cup Consumers

ASSUME CoordinatorAssumption

VARIABLES
  sched,       \* phases of the operations (an abandoned one was aborted while
               \* it ran and holds its slot), the lanes, the cursor and the slots
  waits,       \* the operation each caller awaits
  flight,      \* inflight: the shared operation of each key
  subscribers  \* callers counted on each shared operation

vars == <<sched, waits, flight, subscribers>>

-----------------------------------------------------------------------------
(* Lanes.                                                                  *)

Lane(t) == Input[t].consumer

(* indexOf, for a member of s.                                             *)
Position(s, x) == (CHOOSE k \in 1..Len(s) : s[k] = x) - 1

(* splice at indexOf.                                                      *)
Without(s, x) == RemoveAt(s, Position(s, x) + 1)

(* A task joins the end of its lane; a new lane joins the end of the list. *)
Enqueued(s, t) ==
  [s EXCEPT !.task[t] = "queued",
            !.queue[Lane(t)] = Append(@, t),
            !.lanes = IF Contains(@, Lane(t)) THEN @ ELSE Append(@, Lane(t))]

(* removeQueuedTask: an emptied lane is dropped and the cursor adjusted.   *)
Removed(s, t) ==
  LET x == Lane(t)
      rest == Without(s.queue[x], t)
      lanes == Without(s.lanes, x)
      cursor == IF Position(s.lanes, x) < s.cursor THEN s.cursor - 1 ELSE s.cursor
  IN IF rest # <<>>
     THEN [s EXCEPT !.queue[x] = rest]
     ELSE [s EXCEPT !.queue[x] = <<>>,
                    !.lanes = lanes,
                    !.cursor = IF cursor >= Len(lanes) THEN 0 ELSE cursor]

\* Variant with a defect: the lane listed last is served first.
TurnOfNewest(s) == Len(s.lanes) - 1

(* The lane whose turn it is: the one after the last served, if that one   *)
(* is still listed, else the one at the cursor.                            *)
Turn(s) ==
  IF Contains(s.lanes, s.last)
  THEN (Position(s.lanes, s.last) + 1) % Len(s.lanes)
  ELSE s.cursor % Len(s.lanes)

(* nextTask and the start of its task in a slot.                           *)
Dispatched(s) ==
  LET at == Turn(s)
      x == s.lanes[at + 1]
      t == Head(s.queue[x])
      alone == Len(s.queue[x]) = 1
  IN [s EXCEPT !.task[t] = "running",
               !.active = @ + 1,
               !.last = x,
               !.queue[x] = Tail(@),
               !.lanes = IF alone THEN RemoveAt(@, at + 1) ELSE @,
               !.cursor = IF alone THEN at ELSE (at + 1) % Len(s.lanes)]

(* One iteration of pump.                                                  *)
Filled(s) ==
  IF s.active < MaxConcurrency /\ s.lanes # <<>> THEN Dispatched(s) ELSE s

(* pump: every iteration takes a slot, so MaxConcurrency of them suffice.  *)
Pumped(s) ==
  LET pump[k \in 0..MaxConcurrency] == IF k = 0 THEN s ELSE Filled(pump[k - 1])
  IN pump[MaxConcurrency]

\* Variant with a defect: aborting a running operation frees its slot at once.
CancelledAndFreed(s, t) ==
  IF s.task[t] = "queued"
  THEN Pumped([Removed(s, t) EXCEPT !.task[t] = "none"])
  ELSE Pumped([s EXCEPT !.task[t] = "abandoned", !.active = @ - 1])

(* The abort of an operation: out of its lane, or running for nobody.      *)
CancelledRead(s, t) ==
  IF s.task[t] = "queued"
  THEN Pumped([Removed(s, t) EXCEPT !.task[t] = "none"])
  ELSE Pumped([s EXCEPT !.task[t] = "abandoned"])

(* The operation settles and gives its slot back.                          *)
Released(s, t) == Pumped([s EXCEPT !.task[t] = "none", !.active = @ - 1])

-----------------------------------------------------------------------------
(* run.                                                                    *)

Shared(c) == Input[c].coalesce /\ flight[Input[c].key] # NoOne

(* inflight.delete, if the operation is the one in flight for its key.     *)
Landed(t) == [k \in Keys |-> IF flight[k] = t THEN NoOne ELSE flight[k]]

Join(c) ==
  LET t == flight[Input[c].key] IN
  /\ waits[c] = NoOne
  /\ Shared(c)
  /\ waits' = [waits EXCEPT ![c] = t]
  /\ subscribers' = [subscribers EXCEPT ![t] = @ + 1]
  /\ UNCHANGED <<sched, flight>>

Start(c) ==
  /\ waits[c] = NoOne
  /\ ~Shared(c)
  /\ sched.task[c] = "none"
  /\ sched' = Pumped(Enqueued(sched, c))
  /\ waits' = [waits EXCEPT ![c] = c]
  /\ IF Input[c].coalesce
     THEN /\ flight' = [flight EXCEPT ![Input[c].key] = c]
          /\ subscribers' = [subscribers EXCEPT ![c] = 1]
     ELSE UNCHANGED <<flight, subscribers>>

\* Variant with a defect: the caller that started a shared read takes it along.
LeaveAsOwner(c) ==
  LET t == waits[c] IN
  /\ t # NoOne
  /\ waits' = [waits EXCEPT ![c] = NoOne]
  /\ IF c # t
     THEN /\ subscribers' = [subscribers EXCEPT ![t] = @ - 1]
          /\ UNCHANGED <<sched, flight>>
     ELSE /\ subscribers' = [subscribers EXCEPT ![t] = 0]
          /\ sched' = CancelledRead(sched, t)
          /\ flight' = Landed(t)

(* The caller's signal aborts or its deadline passes; the last caller to   *)
(* leave a shared operation aborts it.                                     *)
Leave(c) ==
  LET t == waits[c] IN
  /\ t # NoOne
  /\ waits' = [waits EXCEPT ![c] = NoOne]
  /\ IF Input[c].coalesce /\ subscribers[t] > 1
     THEN /\ subscribers' = [subscribers EXCEPT ![t] = @ - 1]
          /\ UNCHANGED <<sched, flight>>
     ELSE /\ subscribers' = [subscribers EXCEPT ![t] = 0]
          /\ sched' = CancelledRead(sched, t)
          /\ flight' = Landed(t)

(* The operation answers, fails or honours its abort.                      *)
Settle(t) ==
  /\ sched.task[t] \in {"running", "abandoned"}
  /\ sched' = Released(sched, t)
  /\ waits' = [c \in ReadCalls |-> IF waits[c] = t THEN NoOne ELSE waits[c]]
  /\ subscribers' = [subscribers EXCEPT ![t] = 0]
  /\ flight' = Landed(t)

Init ==
  /\ sched = [task |-> [t \in ReadCalls |-> "none"],
              queue |-> [x \in Consumers |-> <<>>],
              lanes |-> <<>>, cursor |-> 0, last |-> NoOne, active |-> 0]
  /\ waits = [c \in ReadCalls |-> NoOne]
  /\ flight = [k \in Keys |-> NoOne]
  /\ subscribers = [t \in ReadCalls |-> 0]

Next ==
  \/ \E c \in ReadCalls : Join(c) \/ Start(c) \/ Leave(c)
  \/ \E t \in ReadCalls : Settle(t)

(* Every operation ends, if only by the transport's timeout; callers are   *)
(* not obliged to call or to give up.                                      *)
Fairness == \A t \in ReadCalls : WF_vars(Settle(t))

Spec == Init /\ [][Next]_vars /\ Fairness

-----------------------------------------------------------------------------
(* Properties.                                                             *)

(* The slots are neither leaked nor overdrawn by any interleaving of       *)
(* aborts, joins and answers, none is idle while a read is queued, and the *)
(* list holds the lanes that are not empty, which hold what is queued, once. *)
SlotsExact ==
  LET holding == {t \in ReadCalls : sched.task[t] \in {"running", "abandoned"}} IN
  /\ sched.active = Cardinality(holding)
  /\ sched.active <= MaxConcurrency
  /\ sched.lanes # <<>> => sched.active = MaxConcurrency
  /\ IsInjective(sched.lanes)
  /\ ToSet(sched.lanes) = {x \in Consumers : sched.queue[x] # <<>>}
  /\ \A x \in Consumers :
       /\ IsInjective(sched.queue[x])
       /\ ToSet(sched.queue[x]) = {t \in ReadCalls : sched.task[t] = "queued" /\ Lane(t) = x}

(* A read somebody awaits is queued or running, never cancelled by another *)
(* caller's abort; a read nobody awaits is neither.                        *)
WantedIffAlive ==
  \A t \in ReadCalls :
    sched.task[t] \in {"queued", "running"} <=> \E c \in ReadCalls : waits[c] = t

Silent(x) == \A t \in ReadCalls : Lane(t) = x => sched.task[t] = "none"

(* Once no more than two consumers read any more, a queued read is run or  *)
(* given up by its callers, however busy the other consumer is and         *)
(* wherever the reads of the rest have left the cursor.                    *)
PairServed ==
  (\E pair \in SUBSET Consumers :
     Cardinality(pair) = 2 /\ <>[](\A x \in Consumers \ pair : Silent(x))) =>
       \A t \in ReadCalls : sched.task[t] = "queued" ~> sched.task[t] # "queued"

(* The same however many consumers wait: the README says of reads that     *)
(* they "are fair and abortable" when queued, the class comment calls the  *)
(* scheduler fair, and the design document says it "round-robins queued    *)
(* consumer lanes".                                                        *)
QueuedReadRuns ==
  \A t \in ReadCalls : sched.task[t] = "queued" ~> sched.task[t] # "queued"
=============================================================================
