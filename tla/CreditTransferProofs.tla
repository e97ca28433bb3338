------------------------ MODULE CreditTransferProofs ------------------------
(***************************************************************************)
(* Proofs about CreditTransfer for every value of its constants: types,    *)
(* one debit per request, records that agree with the credit rows, the     *)
(* refinement of TransferOnce, and who waits for and who reverses whom.    *)
(***************************************************************************)
EXTENDS CreditTransfer, FiniteSetTheorems, TLAPS

Keys == {LockKey(c) : c \in Calls}

Runs == [source : Clients, destination : Clients, amount : Nat \ {0},
         before : Int \X Int]

(* Whoever holds a lock has started.                                       *)
LockInv == \A k \in Keys : lock[k] # NoOne => pc[lock[k]] \notin {"idle", "waiting"}

TypeInv == TypeOK /\ LockInv

LEMMA PlanType ==
  ASSUME TypeOK, NEW c \in Calls,
         Input[c].reverses # NoOne => OnRecord(Input[c].reverses) # {}
  PROVE  Plan(c) \in Runs
<1>1. CASE Input[c].reverses = NoOne
  BY <1>1, TransferAssumption DEF Plan, Runs, TransferAssumption, Inputs
<1>2. CASE Input[c].reverses # NoOne
  <2> DEFINE d == CHOOSE d \in OnRecord(Input[c].reverses) : TRUE
  <2>1. d \in Calls
    BY <1>2 DEF OnRecord
  <2>2. run[d] \in Runs
    BY <2>1 DEF TypeOK, Runs
  <2> HIDE DEF d
  <2> QED
    BY <1>2, <2>2 DEF Plan, Runs, d
<1> QED
  BY <1>1, <1>2

(* Finish, Goto and Put move one execution.                                *)
LEMMA FinishKeeps ==
  ASSUME TypeInv, NEW c \in Calls, Finish(c), pc[c] # "waiting"
  PROVE  /\ pc' \in [Calls -> Pc]
         /\ lock' \in [Keys -> Calls \cup {NoOne}]
         /\ \A d \in Calls : pc'[d] = "waiting" => behind'[d] \in Calls \ {d}
         /\ LockInv'
  BY DEF TypeInv, TypeOK, LockInv, Finish, Goto, ReleasedBy, Pc, Mutating, Keys

LEMMA GotoKeeps ==
  ASSUME TypeInv, NEW c \in Calls, NEW place \in Pc \ {"idle", "waiting"},
         Goto(c, place), UNCHANGED queue
  PROVE  /\ pc' \in [Calls -> Pc]
         /\ lock' \in [Keys -> Calls \cup {NoOne}]
         /\ \A d \in Calls : pc'[d] = "waiting" => behind'[d] \in Calls \ {d}
         /\ LockInv'
  BY DEF TypeInv, TypeOK, LockInv, Goto, queue, Keys

LEMMA StartKeeps ==
  ASSUME TypeInv, NEW c \in Calls, StartRun(c), UNCHANGED behind
  PROVE  /\ pc' \in [Calls -> Pc]
         /\ lock' \in [Keys -> Calls \cup {NoOne}]
         /\ run' \in [Calls -> Runs]
         /\ \A d \in Calls : pc'[d] = "waiting" => behind'[d] \in Calls \ {d}
         /\ LockInv'
<1>0. NoOne \notin Calls /\ LockKey(c) \in Keys
  BY TransferAssumption DEF TransferAssumption, Keys
<1>1. CASE Goto(c, "done") /\ lock' = [lock EXCEPT ![LockKey(c)] = NoOne]
           /\ UNCHANGED run
  BY <1>0, <1>1 DEF TypeInv, TypeOK, LockInv, Goto, Pc, Keys, Runs
<1>2. CASE /\ Input[c].reverses # NoOne => OnRecord(Input[c].reverses) # {}
           /\ Goto(c, "reading")
           /\ lock' = [lock EXCEPT ![LockKey(c)] = c]
           /\ run' = [run EXCEPT ![c] = Plan(c)]
  <2>1. run' \in [Calls -> Runs]
    BY <1>2, PlanType DEF TypeInv, TypeOK, Runs
  <2> QED
    BY <1>0, <1>2, <2>1 DEF TypeInv, TypeOK, LockInv, Goto, Pc, Keys
<1> QED
  BY <1>1, <1>2 DEF StartRun

(* Every variable keeps its type, and nobody ever waits for itself.        *)
LEMMA TypeStep ==
  ASSUME TypeInv, [Next]_vars
  PROVE  TypeInv'
<1> USE DEF TypeInv
<1>1. ASSUME NEW c \in Calls, Begin(c) PROVE TypeInv'
  <2>0. NoOne \notin Calls /\ LockKey(c) \in Keys
    BY TransferAssumption DEF TransferAssumption, Keys
  <2>1. CASE StartRun(c) /\ UNCHANGED behind
    <3>1. UNCHANGED <<behind, store, whmcs, crashes, sent>>
      BY <1>1, <2>1 DEF Begin
    <3> QED
      BY <2>1, <3>1, StartKeeps DEF TypeOK, Keys, Runs, store, whmcs
  <2>2. CASE /\ Holder(c) # NoOne
             /\ Goto(c, "waiting")
             /\ behind' = [behind EXCEPT ![c] = Holder(c)]
             /\ UNCHANGED <<lock, run>>
    <3>1. Holder(c) \in Calls \ {c}
      BY <1>1, <2>0, <2>2 DEF Holder, TypeOK, LockInv, Begin, Keys
    <3> QED
      BY <1>1, <2>0, <2>2, <3>1
         DEF Begin, TypeOK, LockInv, Goto, Pc, Keys, store, whmcs
  <2> QED
    BY <1>1, <2>1, <2>2 DEF Begin
<1>2. ASSUME NEW c \in Calls, Wake(c) PROVE TypeInv'
  BY <1>2, StartKeeps DEF Wake, TypeOK, Keys, Runs, store, whmcs
<1>3. ASSUME NEW c \in Calls, NEW ok \in BOOLEAN, ReadClients(c, ok)
      PROVE  TypeInv'
  <2>0. /\ run[c] \in Runs /\ pc[c] # "waiting"
        /\ UNCHANGED <<store, whmcs, crashes, sent>>
    BY <1>3 DEF ReadClients, TypeOK, Runs
  <2>1. CASE /\ run' = [run EXCEPT ![c].before =
                          <<credit[run[c].source], credit[run[c].destination]>>]
             /\ Goto(c, "preparing")
             /\ UNCHANGED queue
    <3>1. run' \in [Calls -> Runs]
      BY <2>0, <2>1 DEF TypeOK, Runs
    <3> QED
      BY <2>0, <2>1, <3>1, GotoKeeps
         DEF TypeOK, Keys, Runs, Pc, store, whmcs, queue
  <2>2. CASE Finish(c) /\ UNCHANGED run
    BY <2>0, <2>2, FinishKeeps DEF TypeOK, Keys, Runs, store, whmcs, Finish
  <2> QED
    BY <1>3, <2>1, <2>2 DEF ReadClients
<1>4. ASSUME NEW c \in Calls, pc[c] # "waiting",
             \/ Finish(c)
             \/ \E place \in Pc \ {"idle", "waiting"} :
                   Goto(c, place) /\ UNCHANGED queue,
             rec' \in [Calls -> CreditTransferState \cup {"none"}],
             reversedBy' \in [Calls -> Calls \cup {NoOne}],
             sent' = sent \/ \E leg \in Legs : Send(c, leg),
             UNCHANGED <<run, whmcs, crashes>>
      PROVE  TypeInv'
  <2>1. UNCHANGED behind
    BY <1>4 DEF Finish, queue
  <2>2. sent' \subseteq Calls \X Legs /\ posted' \subseteq sent'
    BY <1>4 DEF Send, TypeOK, whmcs
  <2>3. credit' \in [Clients -> Int]
    BY <1>4 DEF TypeOK, whmcs
  <2> QED
    BY <1>4, <2>1, <2>2, <2>3, FinishKeeps, GotoKeeps DEF TypeOK, Keys, whmcs
<1>5. ASSUME NEW c \in Calls, NEW ok \in BOOLEAN, Prepare(c, ok) PROVE TypeInv'
  <2>1. rec' \in [Calls -> CreditTransferState \cup {"none"}]
    BY <1>5 DEF Prepare, Put, TypeOK, CreditTransferState
  <2> QED
    BY <1>4, <1>5, <2>1 DEF Prepare, Pc, Mutating, TypeOK, Legs
<1>6. ASSUME NEW c \in Calls, NEW leg \in Legs, ApplyCredit(c, leg) PROVE TypeInv'
  <2>1. run[c] \in Runs
    BY <1>6 DEF ApplyCredit, TypeOK, Runs
  <2>2. credit' \in [Clients -> Int]
    BY <1>6, <2>1 DEF ApplyCredit, TypeOK, Runs
  <2> QED
    BY <1>6, <2>1, <2>2 DEF ApplyCredit, TypeOK, LockInv, queue, store
<1>7. ASSUME NEW c \in Calls, NEW ok \in BOOLEAN,
             \/ DebitAnswered(c, ok) \/ CreditAnswered(c, ok)
             \/ CompensationAnswered(c, ok)
      PROVE  TypeInv'
  <2>1. rec' \in [Calls -> CreditTransferState \cup {"none"}]
    BY <1>7 DEF DebitAnswered, CreditAnswered, CompensationAnswered, store, Put,
                TypeOK, CreditTransferState
  <2> QED
    BY <1>4, <1>7, <2>1
       DEF DebitAnswered, CreditAnswered, CompensationAnswered, store, Pc,
           Mutating, TypeOK, Legs
<1>8. ASSUME NEW c \in Calls, NEW ok \in BOOLEAN,
             Confirmed(c, ok) \/ CompensationAudited(c, ok) \/ ReadBack(c, ok)
      PROVE  TypeInv'
  <2>1. rec' \in [Calls -> CreditTransferState \cup {"none"}]
    BY <1>8 DEF Confirmed, CompensationAudited, ReadBack, Put, TypeOK,
                CreditTransferState
  <2> QED
    BY <1>4, <1>8, <2>1
       DEF Confirmed, CompensationAudited, ReadBack, Pc, Mutating, TypeOK
<1>9. ASSUME NEW c \in Calls, NEW ok \in BOOLEAN, Audited(c, ok) PROVE TypeInv'
  <2>1. /\ rec' \in [Calls -> CreditTransferState \cup {"none"}]
        /\ reversedBy' \in [Calls -> Calls \cup {NoOne}]
    BY <1>9 DEF Audited, Put, TypeOK, CreditTransferState
  <2> QED
    BY <1>4, <1>9, <2>1 DEF Audited, TypeOK
<1>10. ASSUME NEW r \in [Calls -> CreditTransferState \cup {"none"}], Restart(r)
       PROVE  TypeInv'
  <2>1. pc' \in [Calls -> Pc] /\ \A c \in Calls : pc'[c] # "waiting"
    BY <1>10 DEF Restart, Pc
  <2> QED
    BY <1>10, <2>1 DEF Restart, TypeOK, LockInv, Keys, whmcs
<1>11. ASSUME Crash \/ \E c \in Calls : CrashAfterPut(c) PROVE TypeInv'
  BY <1>10, <1>11 DEF Crash, CrashAfterPut, TypeOK, CreditTransferState
<1>12. CASE UNCHANGED vars
  BY <1>12 DEF vars, TypeOK, LockInv
<1> QED
  BY <1>1, <1>2, <1>3, <1>5, <1>6, <1>7, <1>8, <1>9, <1>11, <1>12
     DEF Next, Advance

LEMMA TypeStart == Init => TypeInv
<1> SUFFICES ASSUME Init PROVE TypeInv
  OBVIOUS
<1>1. \A c \in Calls : Input[c] \in Inputs
  BY TransferAssumption DEF TransferAssumption
<1>2. run \in [Calls -> Runs]
  BY <1>1 DEF Init, Runs, Inputs
<1> QED
  BY <1>2, TransferAssumption
     DEF Init, TypeInv, TypeOK, LockInv, Runs, Keys, Pc, TransferAssumption

(* Types hold in every reachable state, and no execution waits for itself. *)
THEOREM TypeCorrect == Spec => []TypeOK
<1>1. TypeInv /\ [Next]_vars => TypeInv'
  BY TypeStep
<1>2. TypeInv => TypeOK
  BY DEF TypeInv
<1> QED
  BY <1>1, <1>2, TypeStart, PTL DEF Spec

-----------------------------------------------------------------------------

Out(c) == <<c, "out">> \in posted
In(c) == <<c, "in">> \in posted
Back(c) == <<c, "back">> \in posted

Unsent(c, leg) == <<c, leg>> \notin sent

(* What the place of an execution says of its record and its credit rows.  *)
PlaceFits(c, place, state) ==
  /\ place \in {"idle", "waiting", "reading", "preparing"} =>
        state = "none" /\ \A leg \in Legs : Unsent(c, leg)
  /\ place = "debiting" => state = "prepared" /\ Unsent(c, "in") /\ Unsent(c, "back")
  /\ place = "crediting" => state = "source_debited" /\ Out(c) /\ Unsent(c, "back")
  /\ place = "compensating" => state = "source_debited" /\ Out(c)
  /\ place = "checking" =>
        state = "source_debited" /\ Out(c) /\ In(c) /\ Unsent(c, "back")
  /\ place = "auditing" =>
        state = "financially_completed" /\ Out(c) /\ In(c) /\ Unsent(c, "back")
  /\ place = "confirming" => state = "source_debited" /\ Out(c) /\ Back(c)
  /\ place = "comp_auditing" => state = "compensated" /\ Out(c) /\ Back(c)

(* What a record says of the credit rows, once and for all.                *)
RowsFit(c, state) ==
  /\ state \in {"financially_completed", "completed"} =>
        Out(c) /\ In(c) /\ Unsent(c, "back")
  /\ state = "compensated" => Out(c) /\ Back(c)
  /\ state = "none" /\ Remembering => \A leg \in Legs : Unsent(c, leg)

RecordInv == \A c \in Calls : PlaceFits(c, pc[c], rec[c]) /\ RowsFit(c, rec[c])

UniqueInv ==
  \A c, d \in Calls :
    rec[c] # "none" /\ rec[d] # "none" /\ Input[c].request = Input[d].request
      => c = d

(* The other executions are not touched.                                   *)
OthersKept(c) ==
  \A d \in Calls \ {c} :
    /\ pc'[d] = pc[d] /\ rec'[d] = rec[d]
    /\ \A leg \in Legs : /\ <<d, leg>> \in sent' <=> <<d, leg>> \in sent
                         /\ <<d, leg>> \in posted' <=> <<d, leg>> \in posted

LEMMA OneMoves ==
  ASSUME RecordInv, NEW c \in Calls, OthersKept(c), UNCHANGED crashes,
         (PlaceFits(c, pc[c], rec[c]) /\ RowsFit(c, rec[c]))'
  PROVE  RecordInv'
<1>1. ASSUME NEW d \in Calls \ {c}
      PROVE  (PlaceFits(d, pc[d], rec[d]) /\ RowsFit(d, rec[d]))'
  BY <1>1 DEF RecordInv, OthersKept, PlaceFits, RowsFit, Out, In, Back, Unsent, Legs,
              Remembering
<1> QED
  BY <1>1 DEF RecordInv

(* A step that moves one execution and its record and posts nothing.       *)
LEMMA MoveRecord ==
  ASSUME TypeOK, RecordInv, NEW c \in Calls, NEW place, NEW state,
         pc' = [pc EXCEPT ![c] = place], rec' = [rec EXCEPT ![c] = state],
         sent' = sent \/ \E leg \in Legs : Send(c, leg),
         UNCHANGED <<whmcs, crashes>>,
         PlaceFits(c, place, state)', RowsFit(c, state)'
  PROVE  RecordInv'
<1>1. OthersKept(c)
  BY DEF OthersKept, TypeOK, whmcs, Send
<1>2. pc'[c] = place /\ rec'[c] = state
  BY DEF TypeOK
<1>3. (PlaceFits(c, pc[c], rec[c]) /\ RowsFit(c, rec[c]))'
  BY <1>2
<1> QED
  BY <1>1, <1>3, OneMoves

LEMMA RecordStep ==
  ASSUME TypeOK, TypeOK', RecordInv, [Next]_vars
  PROVE  RecordInv'
<1> USE DEF RecordInv
<1>0. \A c \in Calls : rec = [rec EXCEPT ![c] = rec[c]]
  BY DEF TypeOK
<1>1. ASSUME NEW c \in Calls, Begin(c) \/ Wake(c) PROVE RecordInv'
  <2>1. /\ pc[c] \in {"idle", "waiting"}
        /\ PlaceFits(c, pc[c], rec[c])
        /\ UNCHANGED <<store, whmcs, crashes, sent>>
    BY <1>1 DEF Begin, Wake, Woken
  <2>2. PICK place \in {"waiting", "reading", "done"} :
           pc' = [pc EXCEPT ![c] = place]
    BY <1>1 DEF Begin, Wake, StartRun, Goto
  <2>3. rec' = [rec EXCEPT ![c] = "none"]
    BY <2>1, <1>0 DEF store, PlaceFits
  <2>4. PlaceFits(c, place, "none")' /\ RowsFit(c, "none")'
    BY <2>1, <2>2 DEF PlaceFits, RowsFit, Unsent
  <2> QED
    BY <2>1, <2>2, <2>3, <2>4, MoveRecord DEF whmcs
<1>2. ASSUME NEW c \in Calls, NEW ok \in BOOLEAN, ReadClients(c, ok)
      PROVE  RecordInv'
  <2>1. /\ UNCHANGED <<store, whmcs, crashes, sent>>
        /\ PlaceFits(c, "reading", rec[c])
    BY <1>2 DEF ReadClients
  <2>2. PICK place \in {"preparing", "done"} : pc' = [pc EXCEPT ![c] = place]
    BY <1>2 DEF ReadClients, Goto, Finish
  <2>3. rec' = [rec EXCEPT ![c] = "none"]
    BY <2>1, <1>0 DEF store, PlaceFits
  <2>4. PlaceFits(c, place, "none")' /\ RowsFit(c, "none")'
    BY <2>1, <2>2 DEF PlaceFits, RowsFit, Unsent
  <2> QED
    BY <2>1, <2>2, <2>3, <2>4, MoveRecord DEF whmcs
<1>3. ASSUME NEW c \in Calls, NEW ok \in BOOLEAN, Prepare(c, ok)
      PROVE  RecordInv'
  <2>1. UNCHANGED <<whmcs, crashes>> /\ PlaceFits(c, "preparing", rec[c])
    BY <1>3 DEF Prepare
  <2>2. CASE ok /\ CanPut(c)
    <3>1. /\ pc' = [pc EXCEPT ![c] = "debiting"]
          /\ rec' = [rec EXCEPT ![c] = "prepared"]
          /\ Send(c, "out")
      BY <1>3, <2>2 DEF Prepare, Goto, Put
    <3>2. PlaceFits(c, "debiting", "prepared")' /\ RowsFit(c, "prepared")'
      BY <2>1, <3>1 DEF PlaceFits, RowsFit, Unsent, Legs, Send
    <3> QED
      BY <2>1, <3>1, <3>2, MoveRecord DEF Legs
  <2>3. CASE ~(ok /\ CanPut(c))
    <3>1. /\ pc' = [pc EXCEPT ![c] = "done"]
          /\ rec' = [rec EXCEPT ![c] = "none"]
          /\ sent' = sent
      BY <1>3, <2>1, <2>3, <1>0 DEF Prepare, Goto, Finish, PlaceFits
    <3>2. PlaceFits(c, "done", "none")' /\ RowsFit(c, "none")'
      BY <2>1, <3>1 DEF PlaceFits, RowsFit, Unsent
    <3> QED
      BY <2>1, <3>1, <3>2, MoveRecord
  <2> QED
    BY <2>2, <2>3
<1>4. ASSUME NEW c \in Calls, NEW leg \in Legs, ApplyCredit(c, leg)
      PROVE  RecordInv'
  <2>1. posted' = posted \cup {<<c, leg>>} /\ UNCHANGED <<pc, rec, crashes, sent>>
    BY <1>4 DEF ApplyCredit, store
  <2>2. OthersKept(c)
    BY <2>1 DEF OthersKept
  <2>3. (PlaceFits(c, pc[c], rec[c]) /\ RowsFit(c, rec[c]))'
    BY <2>1 DEF PlaceFits, RowsFit, Out, In, Back, Unsent, Remembering
  <2> QED
    BY <2>1, <2>2, <2>3, OneMoves
<1>5. ASSUME NEW c \in Calls, NEW ok \in BOOLEAN, DebitAnswered(c, ok)
      PROVE  RecordInv'
  <2>1. UNCHANGED <<whmcs, crashes>> /\ PlaceFits(c, pc[c], rec[c])
    BY <1>5 DEF DebitAnswered
  <2>2. CASE ok
    <3>1. /\ pc' = [pc EXCEPT ![c] = "crediting"]
          /\ rec' = [rec EXCEPT ![c] = "source_debited"]
          /\ Send(c, "in")
      BY <1>5, <2>2, <1>0 DEF DebitAnswered, Goto, Put, Finish, store
    <3>2. PlaceFits(c, "crediting", "source_debited")' /\ RowsFit(c, "source_debited")'
      BY <1>5, <2>1, <2>2, <3>1
         DEF DebitAnswered, PlaceFits, RowsFit, Out, In, Back, Unsent, Legs, Send, whmcs, Applied
    <3> QED
      BY <2>1, <3>1, <3>2, MoveRecord DEF Legs
  <2>3. CASE ~ok
    <3>1. /\ pc' = [pc EXCEPT ![c] = "done"]
          /\ rec' = [rec EXCEPT ![c] = rec[c]]
          /\ sent' = sent
      BY <1>5, <2>3, <1>0 DEF DebitAnswered, Goto, Put, Finish, store
    <3>2. ASSUME NEW state, state = rec[c]
          PROVE  PlaceFits(c, "done", state)' /\ RowsFit(c, state)'
      BY <1>5, <2>1, <2>3, <3>1, <3>2
         DEF DebitAnswered, PlaceFits, RowsFit, Out, In, Back, Unsent, Legs, whmcs,
             Remembering
    <3> QED
      BY <2>1, <3>1, <3>2, MoveRecord DEF Legs
  <2> QED
    BY <1>5, <2>2, <2>3 DEF DebitAnswered
<1>6. ASSUME NEW c \in Calls, NEW ok \in BOOLEAN, CreditAnswered(c, ok)
      PROVE  RecordInv'
  <2>1. UNCHANGED <<whmcs, crashes>> /\ PlaceFits(c, pc[c], rec[c])
    BY <1>6 DEF CreditAnswered
  <2>2. CASE ok
    <3>1. /\ pc' = [pc EXCEPT ![c] = "checking"]
          /\ rec' = [rec EXCEPT ![c] = rec[c]]
          /\ sent' = sent
      BY <1>6, <2>2, <1>0 DEF CreditAnswered, Goto, Put, Finish, store
    <3>2. ASSUME NEW state, state = rec[c]
          PROVE  PlaceFits(c, "checking", state)' /\ RowsFit(c, state)'
      BY <1>6, <2>1, <2>2, <3>1, <3>2
         DEF CreditAnswered, PlaceFits, RowsFit, Out, In, Back, Unsent, Legs, whmcs, Applied,
             Remembering
    <3> QED
      BY <2>1, <3>1, <3>2, MoveRecord DEF Legs
  <2>3. CASE ~ok
    <3>1. /\ pc' = [pc EXCEPT ![c] = "compensating"]
          /\ rec' = [rec EXCEPT ![c] = rec[c]]
          /\ Send(c, "back")
      BY <1>6, <2>3, <1>0 DEF CreditAnswered, Goto, Put, Finish, store
    <3>2. ASSUME NEW state, state = rec[c]
          PROVE  PlaceFits(c, "compensating", state)' /\ RowsFit(c, state)'
      BY <1>6, <2>1, <2>3, <3>1, <3>2
         DEF CreditAnswered, PlaceFits, RowsFit, Out, In, Back, Unsent, Legs, Send, whmcs,
             Remembering
    <3> QED
      BY <2>1, <3>1, <3>2, MoveRecord DEF Legs
  <2> QED
    BY <1>6, <2>2, <2>3 DEF CreditAnswered
<1>7. ASSUME NEW c \in Calls, NEW ok \in BOOLEAN, CompensationAnswered(c, ok)
      PROVE  RecordInv'
  <2>1. UNCHANGED <<whmcs, crashes>> /\ PlaceFits(c, pc[c], rec[c])
    BY <1>7 DEF CompensationAnswered
  <2>2. CASE ok
    <3>1. /\ pc' = [pc EXCEPT ![c] = "confirming"]
          /\ rec' = [rec EXCEPT ![c] = rec[c]]
          /\ sent' = sent
      BY <1>7, <2>2, <1>0 DEF CompensationAnswered, Goto, Put, Finish, store
    <3>2. ASSUME NEW state, state = rec[c]
          PROVE  PlaceFits(c, "confirming", state)' /\ RowsFit(c, state)'
      BY <1>7, <2>1, <2>2, <3>1, <3>2
         DEF CompensationAnswered, PlaceFits, RowsFit, Out, In, Back, Unsent, Legs, whmcs, Applied,
             Remembering
    <3> QED
      BY <2>1, <3>1, <3>2, MoveRecord DEF Legs
  <2>3. CASE ~ok
    <3>1. /\ pc' = [pc EXCEPT ![c] = "done"]
          /\ rec' = [rec EXCEPT ![c] = "audit_repair_required"]
          /\ sent' = sent
      BY <1>7, <2>3, <1>0 DEF CompensationAnswered, Goto, Put, Finish, store
    <3>2. PlaceFits(c, "done", "audit_repair_required")' /\ RowsFit(c, "audit_repair_required")'
      BY <1>7, <2>1, <2>3, <3>1
         DEF CompensationAnswered, PlaceFits, RowsFit, Out, In, Back, Unsent, Legs, whmcs
    <3> QED
      BY <2>1, <3>1, <3>2, MoveRecord DEF Legs
  <2> QED
    BY <1>7, <2>2, <2>3 DEF CompensationAnswered
<1>8. ASSUME NEW c \in Calls, NEW ok \in BOOLEAN, Confirmed(c, ok)
      PROVE  RecordInv'
  <2>1. UNCHANGED <<whmcs, crashes>> /\ PlaceFits(c, pc[c], rec[c])
    BY <1>8 DEF Confirmed
  <2>2. CASE ok
    <3>1. /\ pc' = [pc EXCEPT ![c] = "comp_auditing"]
          /\ rec' = [rec EXCEPT ![c] = "compensated"]
          /\ sent' = sent
      BY <1>8, <2>2, <1>0 DEF Confirmed, Goto, Put, Finish, store
    <3>2. PlaceFits(c, "comp_auditing", "compensated")' /\ RowsFit(c, "compensated")'
      BY <1>8, <2>1, <2>2, <3>1
         DEF Confirmed, PlaceFits, RowsFit, Out, In, Back, Unsent, Legs, whmcs
    <3> QED
      BY <2>1, <3>1, <3>2, MoveRecord DEF Legs
  <2>3. CASE ~ok
    <3>1. /\ pc' = [pc EXCEPT ![c] = "done"]
          /\ rec' = [rec EXCEPT ![c] = "audit_repair_required"]
          /\ sent' = sent
      BY <1>8, <2>3, <1>0 DEF Confirmed, Goto, Put, Finish, store
    <3>2. PlaceFits(c, "done", "audit_repair_required")' /\ RowsFit(c, "audit_repair_required")'
      BY <1>8, <2>1, <2>3, <3>1
         DEF Confirmed, PlaceFits, RowsFit, Out, In, Back, Unsent, Legs, whmcs
    <3> QED
      BY <2>1, <3>1, <3>2, MoveRecord DEF Legs
  <2> QED
    BY <1>8, <2>2, <2>3 DEF Confirmed
<1>9. ASSUME NEW c \in Calls, NEW ok \in BOOLEAN, CompensationAudited(c, ok)
      PROVE  RecordInv'
  <2>1. UNCHANGED <<whmcs, crashes>> /\ PlaceFits(c, pc[c], rec[c])
    BY <1>9 DEF CompensationAudited
  <2>2. CASE ok
    <3>1. /\ pc' = [pc EXCEPT ![c] = "done"]
          /\ rec' = [rec EXCEPT ![c] = "compensated"]
          /\ sent' = sent
      BY <1>9, <2>2, <1>0 DEF CompensationAudited, Goto, Put, Finish, store
    <3>2. PlaceFits(c, "done", "compensated")' /\ RowsFit(c, "compensated")'
      BY <1>9, <2>1, <2>2, <3>1
         DEF CompensationAudited, PlaceFits, RowsFit, Out, In, Back, Unsent, Legs, whmcs
    <3> QED
      BY <2>1, <3>1, <3>2, MoveRecord DEF Legs
  <2>3. CASE ~ok
    <3>1. /\ pc' = [pc EXCEPT ![c] = "done"]
          /\ rec' = [rec EXCEPT ![c] = "audit_repair_required"]
          /\ sent' = sent
      BY <1>9, <2>3, <1>0 DEF CompensationAudited, Goto, Put, Finish, store
    <3>2. PlaceFits(c, "done", "audit_repair_required")' /\ RowsFit(c, "audit_repair_required")'
      BY <1>9, <2>1, <2>3, <3>1
         DEF CompensationAudited, PlaceFits, RowsFit, Out, In, Back, Unsent, Legs, whmcs
    <3> QED
      BY <2>1, <3>1, <3>2, MoveRecord DEF Legs
  <2> QED
    BY <1>9, <2>2, <2>3 DEF CompensationAudited
<1>10. ASSUME NEW c \in Calls, NEW ok \in BOOLEAN, ReadBack(c, ok)
      PROVE  RecordInv'
  <2>1. UNCHANGED <<whmcs, crashes>> /\ PlaceFits(c, pc[c], rec[c])
    BY <1>10 DEF ReadBack
  <2>2. CASE ~ok
    <3>1. /\ pc' = [pc EXCEPT ![c] = "done"]
          /\ rec' = [rec EXCEPT ![c] = rec[c]]
          /\ sent' = sent
      BY <1>10, <2>2, <1>0 DEF ReadBack, Goto, Put, Finish, store
    <3>2. ASSUME NEW state, state = rec[c]
          PROVE  PlaceFits(c, "done", state)' /\ RowsFit(c, state)'
      BY <1>10, <2>1, <2>2, <3>1, <3>2
         DEF ReadBack, PlaceFits, RowsFit, Out, In, Back, Unsent, Legs, whmcs,
             Remembering
    <3> QED
      BY <2>1, <3>1, <3>2, MoveRecord DEF Legs
  <2>3. CASE ok /\ Exact(run[c])
    <3>1. /\ pc' = [pc EXCEPT ![c] = "auditing"]
          /\ rec' = [rec EXCEPT ![c] = "financially_completed"]
          /\ sent' = sent
      BY <1>10, <2>3, <1>0 DEF ReadBack, Goto, Put, Finish, store
    <3>2. PlaceFits(c, "auditing", "financially_completed")' /\ RowsFit(c, "financially_completed")'
      BY <1>10, <2>1, <2>3, <3>1
         DEF ReadBack, PlaceFits, RowsFit, Out, In, Back, Unsent, Legs, whmcs
    <3> QED
      BY <2>1, <3>1, <3>2, MoveRecord DEF Legs
  <2>4. CASE ok /\ ~Exact(run[c])
    <3>1. /\ pc' = [pc EXCEPT ![c] = "done"]
          /\ rec' = [rec EXCEPT ![c] = "audit_repair_required"]
          /\ sent' = sent
      BY <1>10, <2>4, <1>0 DEF ReadBack, Goto, Put, Finish, store
    <3>2. PlaceFits(c, "done", "audit_repair_required")' /\ RowsFit(c, "audit_repair_required")'
      BY <1>10, <2>1, <2>4, <3>1
         DEF ReadBack, PlaceFits, RowsFit, Out, In, Back, Unsent, Legs, whmcs
    <3> QED
      BY <2>1, <3>1, <3>2, MoveRecord DEF Legs
  <2> QED
    BY <1>10, <2>2, <2>3, <2>4 DEF ReadBack
<1>11. ASSUME NEW c \in Calls, NEW ok \in BOOLEAN, Audited(c, ok)
      PROVE  RecordInv'
  <2>1. UNCHANGED <<whmcs, crashes>> /\ PlaceFits(c, pc[c], rec[c])
    BY <1>11 DEF Audited
  <2>2. CASE ok
    <3>1. /\ pc' = [pc EXCEPT ![c] = "done"]
          /\ rec' = [rec EXCEPT ![c] = "completed"]
          /\ sent' = sent
      BY <1>11, <2>2, <1>0 DEF Audited, Goto, Put, Finish, store
    <3>2. PlaceFits(c, "done", "completed")' /\ RowsFit(c, "completed")'
      BY <1>11, <2>1, <2>2, <3>1
         DEF Audited, PlaceFits, RowsFit, Out, In, Back, Unsent, Legs, whmcs
    <3> QED
      BY <2>1, <3>1, <3>2, MoveRecord DEF Legs
  <2>3. CASE ~ok
    <3>1. /\ pc' = [pc EXCEPT ![c] = "done"]
          /\ rec' = [rec EXCEPT ![c] = "audit_repair_required"]
          /\ sent' = sent
      BY <1>11, <2>3, <1>0 DEF Audited, Goto, Put, Finish, store
    <3>2. PlaceFits(c, "done", "audit_repair_required")' /\ RowsFit(c, "audit_repair_required")'
      BY <1>11, <2>1, <2>3, <3>1
         DEF Audited, PlaceFits, RowsFit, Out, In, Back, Unsent, Legs, whmcs
    <3> QED
      BY <2>1, <3>1, <3>2, MoveRecord DEF Legs
  <2> QED
    BY <1>11, <2>2, <2>3 DEF Audited
<1>12. ASSUME NEW r \in [Calls -> CreditTransferState \cup {"none"}], Restart(r),
             \A c \in Calls : r[c] = rec[c]
                \/ (pc[c] = "preparing" /\ r[c] = "prepared")
                \/ (pc[c] = "checking" /\ r[c] = "financially_completed")
                \/ (pc[c] = "auditing" /\ r[c] = "completed")
      PROVE  RecordInv'
  <2> SUFFICES ASSUME NEW c \in Calls
             PROVE  (PlaceFits(c, pc[c], rec[c]) /\ RowsFit(c, rec[c]))'
    OBVIOUS
  <2>1. /\ posted' = posted /\ sent' = sent
        /\ pc'[c] = IF pc[c] = "idle" THEN "idle" ELSE "done"
        /\ rec'[c] = IF StateDurable THEN r[c] ELSE "none"
    BY <1>12 DEF Restart, whmcs
  <2>2. Remembering' => StateDurable
    BY <1>12, TransferAssumption DEF Restart, Remembering, TypeOK, TransferAssumption
  <2>3. StateDurable => Remembering
    BY DEF Remembering
  <2>4. PlaceFits(c, pc[c], rec[c]) /\ RowsFit(c, rec[c])
    OBVIOUS
  <2>5. CASE StateDurable
    <3>1. rec'[c] = r[c] /\ Remembering
      BY <2>1, <2>3, <2>5
    <3>2. RowsFit(c, r[c])
      <4>1. CASE r[c] = rec[c]
        BY <4>1, <2>4
      <4>2. CASE pc[c] = "preparing" /\ r[c] = "prepared"
        BY <4>2 DEF RowsFit
      <4>3. CASE pc[c] = "checking" /\ r[c] = "financially_completed"
        BY <4>3, <2>4 DEF PlaceFits, RowsFit
      <4>4. CASE pc[c] = "auditing" /\ r[c] = "completed"
        BY <4>4, <2>4 DEF PlaceFits, RowsFit
      <4> QED
        BY <1>12, <4>1, <4>2, <4>3, <4>4
    <3>3. RowsFit(c, rec[c])'
      BY <2>1, <3>1, <3>2 DEF RowsFit, Out, In, Back, Unsent
    <3>4. pc[c] = "idle" => r[c] = rec[c]
      BY <1>12
    <3>5. PlaceFits(c, pc[c], rec[c])'
      BY <2>1, <2>4, <3>1, <3>4 DEF PlaceFits, Unsent
    <3> QED
      BY <3>3, <3>5
  <2>6. CASE ~StateDurable
    <3>1. rec'[c] = "none" /\ ~Remembering'
      BY <2>1, <2>2, <2>6
    <3>2. RowsFit(c, rec[c])'
      BY <3>1 DEF RowsFit
    <3>3. PlaceFits(c, pc[c], rec[c])'
      BY <2>1, <2>4, <3>1 DEF PlaceFits, Unsent
    <3> QED
      BY <3>2, <3>3
  <2> QED
    BY <2>5, <2>6
<1>13. ASSUME Crash \/ \E c \in Calls : CrashAfterPut(c) PROVE RecordInv'
  BY <1>12, <1>13 DEF Crash, CrashAfterPut, TypeOK, CreditTransferState
<1>14. CASE UNCHANGED vars
  <2>1. /\ pc' = pc /\ rec' = rec /\ sent' = sent /\ posted' = posted
        /\ crashes' = crashes
    BY <1>14 DEF vars
  <2>2. Remembering' <=> Remembering
    BY <2>1 DEF Remembering
  <2>3. ASSUME NEW c \in Calls PROVE RowsFit(c, rec[c])'
    <3>1. RowsFit(c, rec[c])
      OBVIOUS
    <3> QED
      BY <2>1, <2>2, <3>1 DEF RowsFit, Out, In, Back, Unsent
  <2>4. ASSUME NEW c \in Calls PROVE PlaceFits(c, pc[c], rec[c])'
    <3>1. PlaceFits(c, pc[c], rec[c])
      OBVIOUS
    <3> QED
      BY <2>1, <3>1 DEF PlaceFits, Out, In, Back, Unsent
  <2> QED
    BY <2>3, <2>4
<1> QED
  BY <1>1, <1>2, <1>3, <1>4, <1>5, <1>6, <1>7, <1>8, <1>9, <1>10, <1>11,
     <1>13, <1>14 DEF Next, Advance

-----------------------------------------------------------------------------

(* A step puts no new record, or one whose request id is free.             *)
NewRecordsFree ==
  \/ \A d \in Calls : rec'[d] # "none" => rec[d] # "none"
  \/ \E c \in Calls : /\ CanPut(c)
                      /\ \A d \in Calls \ {c} : rec'[d] # "none" => rec[d] # "none"

LEMMA RecordsFree ==
  ASSUME TypeOK, RecordInv, [Next]_vars
  PROVE  NewRecordsFree
<1>1. ASSUME NEW c \in Calls,
             \/ Begin(c) \/ Wake(c) \/ \E leg \in Legs : ApplyCredit(c, leg)
             \/ \E ok \in BOOLEAN : ReadClients(c, ok) \/ CreditAnswered(c, ok)
      PROVE  NewRecordsFree
  BY <1>1 DEF Begin, Wake, ApplyCredit, ReadClients, CreditAnswered, store,
              NewRecordsFree
<1>2. ASSUME NEW c \in Calls, NEW ok \in BOOLEAN, Prepare(c, ok)
      PROVE  NewRecordsFree
  BY <1>2 DEF Prepare, Put, NewRecordsFree, TypeOK
<1>3. ASSUME NEW c \in Calls, rec[c] # "none", \A d \in Calls \ {c} : rec'[d] = rec[d]
      PROVE  NewRecordsFree
  BY <1>3 DEF NewRecordsFree
<1>4. ASSUME NEW c \in Calls, NEW ok \in BOOLEAN,
             DebitAnswered(c, ok) \/ CompensationAnswered(c, ok)
      PROVE  NewRecordsFree
  BY <1>3, <1>4
     DEF DebitAnswered, CompensationAnswered, Put, RecordInv, PlaceFits, TypeOK
<1>5. ASSUME NEW c \in Calls, NEW ok \in BOOLEAN,
             Confirmed(c, ok) \/ CompensationAudited(c, ok)
      PROVE  NewRecordsFree
  BY <1>3, <1>5
     DEF Confirmed, CompensationAudited, Put, RecordInv, PlaceFits, TypeOK
<1>6. ASSUME NEW c \in Calls, NEW ok \in BOOLEAN,
             ReadBack(c, ok) \/ Audited(c, ok)
      PROVE  NewRecordsFree
  BY <1>3, <1>6 DEF ReadBack, Audited, Put, RecordInv, PlaceFits, TypeOK
<1>7. ASSUME Crash \/ UNCHANGED vars PROVE NewRecordsFree
  BY <1>7 DEF Crash, Restart, vars, NewRecordsFree
<1>8. ASSUME NEW c \in Calls, CrashAfterPut(c) PROVE NewRecordsFree
  BY <1>8 DEF CrashAfterPut, Restart, NewRecordsFree, RecordInv, PlaceFits, TypeOK
<1> QED
  BY <1>1, <1>2, <1>4, <1>5, <1>6, <1>7, <1>8 DEF Next, Advance

LEMMA UniqueStep ==
  ASSUME UniqueInv, NewRecordsFree
  PROVE  UniqueInv'
  BY DEF UniqueInv, NewRecordsFree, CanPut, OnRecord

(* Every execution's record says what its credit rows are, and a request   *)
(* id names one record.                                                    *)
THEOREM RecordsHold == Spec => [](RecordInv /\ UniqueInv)
<1>1. Init => RecordInv /\ UniqueInv
  BY DEF Init, RecordInv, UniqueInv, PlaceFits, RowsFit, Out, In, Back, Unsent
<1>2. TypeOK /\ TypeOK' /\ RecordInv /\ UniqueInv /\ [Next]_vars
        => RecordInv' /\ UniqueInv'
  BY RecordStep, RecordsFree, UniqueStep
<1> QED
  BY <1>1, <1>2, TypeCorrect, PTL DEF Spec

(* A request id sends at most one debit, whoever retries it, through       *)
(* whichever lock, before or after a crash.                                *)
THEOREM OneDebit == Spec => []OneDebitPerRequest
<1>1. TypeOK /\ RecordInv /\ UniqueInv => OneDebitPerRequest
  BY DEF TypeOK, RecordInv, RowsFit, UniqueInv, OneDebitPerRequest, Unsent, Legs
<1> QED
  BY <1>1, TypeCorrect, RecordsHold, PTL

(* A completed transfer moved its amount exactly once, and a compensated   *)
(* one gave it back.                                                       *)
THEOREM RecordsMatch == Spec => []RecordMatchesRows
<1>1. TypeOK /\ RecordInv => RecordMatchesRows
  BY DEF TypeOK, RecordInv, RowsFit, RecordMatchesRows, Moved, Applied, Legs, Out, In,
         Back, Unsent
<1> QED
  BY <1>1, TypeCorrect, RecordsHold, PTL

(* Credit that left a source and arrived nowhere is on record as such.     *)
THEOREM LossRecorded == Spec => []LossOnRecord
<1>1. TypeOK /\ RecordInv => LossOnRecord
  <2> SUFFICES ASSUME TypeOK, RecordInv, Remembering, NEW c \in Calls,
                      Over(c), Moved(c) = {"out"}
               PROVE  rec[c] \in {"prepared", "source_debited",
                                  "audit_repair_required"}
    BY DEF LossOnRecord
  <2>1. Out(c) /\ ~In(c) /\ ~Back(c)
    BY DEF Moved, Applied, Legs, Out, In, Back
  <2> QED
    BY <2>1 DEF TypeOK, CreditTransferState, RecordInv, RowsFit, Unsent, Out, Legs
<1> QED
  BY <1>1, TypeCorrect, RecordsHold, PTL

(* A step rewrites the record of a running execution only; a restart keeps *)
(* what a durable store holds of the others.                               *)
LEMMA DoneKept ==
  ASSUME TypeOK, [Next]_vars, NEW d \in Calls, pc[d] = "done", StateDurable
  PROVE  rec'[d] = rec[d]
<1>1. ASSUME NEW c \in Calls,
             \/ Begin(c) \/ Wake(c) \/ \E leg \in Legs : ApplyCredit(c, leg)
             \/ \E ok \in BOOLEAN : ReadClients(c, ok) \/ CreditAnswered(c, ok)
      PROVE  rec'[d] = rec[d]
  BY <1>1 DEF Begin, Wake, ApplyCredit, ReadClients, CreditAnswered, store
<1>2. ASSUME NEW c \in Calls, NEW ok \in BOOLEAN,
             \/ Prepare(c, ok) \/ DebitAnswered(c, ok)
             \/ CompensationAnswered(c, ok)
      PROVE  rec'[d] = rec[d]
  BY <1>2 DEF Prepare, DebitAnswered, CompensationAnswered, Put, TypeOK
<1>3. ASSUME NEW c \in Calls, NEW ok \in BOOLEAN,
             \/ Confirmed(c, ok) \/ CompensationAudited(c, ok)
             \/ ReadBack(c, ok) \/ Audited(c, ok)
      PROVE  rec'[d] = rec[d]
  BY <1>3 DEF Confirmed, CompensationAudited, ReadBack, Audited, Put, TypeOK
<1>4. ASSUME Crash \/ UNCHANGED vars \/ \E c \in Calls : CrashAfterPut(c)
      PROVE  rec'[d] = rec[d]
  <2>1. ASSUME NEW c \in Calls, CrashAfterPut(c)
        PROVE  rec'[d] = rec[d]
    <3>1. \E s : pc[c] # "done" /\ rec' = [rec EXCEPT ![c] = s]
      BY <2>1 DEF CrashAfterPut, Restart
    <3> QED
      BY <3>1 DEF TypeOK
  <2>2. Crash \/ UNCHANGED vars => rec' = rec
    BY DEF Crash, Restart, vars
  <2> QED
    BY <1>4, <2>1, <2>2
<1> QED
  BY <1>1, <1>2, <1>3, <1>4 DEF Next, Advance

(* A completed or repair-required record is never rewritten.               *)
THEOREM FinalStays == Spec => FinalRecordStays
<1>1. TypeOK /\ RecordInv /\ [Next]_vars
        => [\A c \in Calls : rec[c] \in Final /\ StateDurable
                              => rec'[c] = rec[c]]_vars
  <2> SUFFICES ASSUME TypeOK, RecordInv, [Next]_vars, NEW c \in Calls,
                      rec[c] \in Final, StateDurable
               PROVE  rec'[c] = rec[c]
    OBVIOUS
  <2>1. pc[c] = "done"
    BY DEF TypeOK, Pc, Mutating, RecordInv, PlaceFits, Final
  <2> QED
    BY <2>1, DoneKept
<1> QED
  BY <1>1, TypeCorrect, RecordsHold, PTL DEF Spec, FinalRecordStays

-----------------------------------------------------------------------------

(* Only WHMCS posts credit rows.                                           *)
LEMMA PostedStays ==
  ASSUME [Next]_vars
  PROVE  posted' = posted \/ \E c \in Calls, leg \in Legs : ApplyCredit(c, leg)
  BY DEF Next, Advance, Begin, Wake, ReadClients, Prepare, DebitAnswered, whmcs,
         CreditAnswered, CompensationAnswered, Confirmed, CompensationAudited,
         ReadBack, Audited, CrashAfterPut, Crash, Restart, vars

(* No leg moves before the debit has.                                      *)
DebitFirst == \A c \in Calls : ~Unsent(c, "in") \/ ~Unsent(c, "back") => Out(c)

LEMMA DebitStep ==
  ASSUME TypeOK, RecordInv, DebitFirst, [Next]_vars
  PROVE  DebitFirst'
<1>1. posted \subseteq posted'
  BY PostedStays DEF ApplyCredit
<1>2. ASSUME NEW c \in Calls, NEW ok \in BOOLEAN,
             Prepare(c, ok) \/ DebitAnswered(c, ok) \/ CreditAnswered(c, ok)
      PROVE  DebitFirst'
  <2>1. \/ sent' = sent
        \/ Send(c, "out")
        \/ (Send(c, "in") \/ Send(c, "back")) /\ Out(c)
    BY <1>2 DEF Prepare, DebitAnswered, CreditAnswered, Applied, Out, RecordInv,
                PlaceFits
  <2> QED
    BY <1>1, <2>1 DEF DebitFirst, Send, Unsent, Out
<1>3. ASSUME sent' = sent PROVE DebitFirst'
  BY <1>1, <1>3 DEF DebitFirst, Unsent, Out
<1>4. ASSUME NEW c \in Calls, NEW ok \in BOOLEAN,
             \/ ReadClients(c, ok) \/ CompensationAnswered(c, ok) \/ Confirmed(c, ok)
             \/ CompensationAudited(c, ok) \/ ReadBack(c, ok) \/ Audited(c, ok)
      PROVE  sent' = sent
  BY <1>4 DEF ReadClients, CompensationAnswered, Confirmed, CompensationAudited,
              ReadBack, Audited
<1>5. ASSUME NEW c \in Calls, Begin(c) \/ Wake(c) \/ CrashAfterPut(c)
      PROVE  sent' = sent
  BY <1>5 DEF Begin, Wake, CrashAfterPut, Restart
<1>6. ASSUME \/ Crash \/ UNCHANGED vars
             \/ \E c \in Calls, leg \in Legs : ApplyCredit(c, leg)
      PROVE  sent' = sent
  BY <1>6 DEF Crash, Restart, vars, ApplyCredit
<1> QED
  BY <1>2, <1>3, <1>4, <1>5, <1>6 DEF Next, Advance

-----------------------------------------------------------------------------

(* What the mapping shows of the request of an execution on record, and of *)
(* a request that has no record; before and after a step.                  *)
LEMMA OutcomeOf ==
  ASSUME UniqueInv, NEW c \in Calls, NEW r \in Requests,
         rec[c] # "none", Input[c].request = r
  PROVE  outcomes[r] = HowItEnded(pc[c], rec[c])
<1>1. OnRecord(r) = {c}
  BY DEF UniqueInv, OnRecord
<1>2. (CHOOSE d \in OnRecord(r) : TRUE) = c /\ OnRecord(r) # {}
  BY <1>1
<1> QED
  BY <1>2 DEF outcomes

LEMMA OutcomeAfter ==
  ASSUME UniqueInv', NEW c \in Calls, NEW r \in Requests,
         rec'[c] # "none", Input[c].request = r
  PROVE  outcomes'[r] = HowItEnded(pc'[c], rec'[c])
<1>1. OnRecord(r)' = {c}
  BY DEF UniqueInv, OnRecord
<1>2. (CHOOSE d \in OnRecord(r)' : TRUE) = c /\ OnRecord(r)' # {}
  BY <1>1
<1> QED
  BY <1>2 DEF outcomes

LEMMA NoOutcome ==
  ASSUME NEW r \in Requests
  PROVE  /\ OnRecord(r) = {} => outcomes[r] = "none"
         /\ OnRecord(r)' = {} => outcomes'[r] = "none"
  BY DEF outcomes

(* The legs of a request are those of its execution on record.             *)
LEMMA MovedOf ==
  ASSUME TypeOK, RecordInv, UniqueInv, Remembering,
         NEW c \in Calls, NEW r \in Requests, NEW leg \in Legs,
         rec[c] # "none", Input[c].request = r
  PROVE  MovedFor(r, leg) = IF Applied(c, leg) THEN {<<c, leg>>} ELSE {}
<1>1. ASSUME NEW row \in MovedFor(r, leg) PROVE row = <<c, leg>>
  <2>1. PICK d \in Calls, l \in Legs : row = <<d, l>>
    BY <1>1 DEF MovedFor, TypeOK
  <2>2. l = leg /\ Input[d].request = r /\ ~Unsent(d, l)
    BY <1>1, <2>1 DEF MovedFor, TypeOK, Unsent
  <2>3. rec[d] # "none"
    BY <2>2 DEF RecordInv, RowsFit
  <2> QED
    BY <2>1, <2>2, <2>3 DEF UniqueInv
<1>2. <<c, leg>> \in MovedFor(r, leg) <=> Applied(c, leg)
  BY DEF MovedFor, Applied
<1>3. CASE Applied(c, leg)
  BY <1>1, <1>2, <1>3
<1>4. CASE ~Applied(c, leg)
  BY <1>1, <1>2, <1>4
<1> QED
  BY <1>3, <1>4

LEMMA MovesOf ==
  ASSUME TypeOK, RecordInv, UniqueInv, Remembering,
         NEW c \in Calls, NEW r \in Requests, NEW leg \in Legs,
         rec[c] # "none", Input[c].request = r
  PROVE  moves[r][leg] = IF Applied(c, leg) THEN 1 ELSE 0
<1>1. moves[r][leg] = Cardinality(MovedFor(r, leg))
  BY DEF moves
<1> QED
  BY <1>1, MovedOf, FS_EmptySet, FS_Singleton

(* How a step may change what the record of one execution says.            *)
Turned(c) ==
  LET old == HowItEnded(pc[c], rec[c])
      new == HowItEnded(pc'[c], rec'[c])
  IN
  \/ new = old
  \/ rec[c] = "none" /\ new = "open"
  \/ old = "open" /\ new = "completed" /\ Out(c) /\ In(c) /\ ~Back(c)
  \/ old = "open" /\ new = "compensated" /\ Out(c) /\ Back(c)
  \/ old = "open" /\ new = "repair" /\ Out(c)

(* A record stays; one that is put for the first time is open.             *)
RecordTurns(c) ==
  /\ rec[c] # "none" => rec'[c] # "none" /\ Turned(c)
  /\ rec[c] = "none" /\ rec'[c] # "none" => HowItEnded(pc'[c], rec'[c]) = "open"

LEMMA SameTurns ==
  ASSUME NEW c \in Calls, rec'[c] = rec[c],
         pc'[c] = pc[c] \/ rec[c] # "compensated"
  PROVE  RecordTurns(c)
  BY DEF RecordTurns, Turned, HowItEnded

(* A step of one execution.                                                *)
LEMMA TurnsStep ==
  ASSUME TypeOK, RecordInv, [Next]_vars, StateDurable, NEW d \in Calls
  PROVE  RecordTurns(d)
<1>1. ASSUME NEW c \in Calls,
             \/ Begin(c) \/ Wake(c) \/ \E leg \in Legs : ApplyCredit(c, leg)
             \/ \E ok \in BOOLEAN : ReadClients(c, ok) \/ CreditAnswered(c, ok)
      PROVE  RecordTurns(d)
  <2>1. rec' = rec
    BY <1>1 DEF Begin, Wake, ApplyCredit, ReadClients, CreditAnswered, store
  <2>2. PlaceFits(d, pc[d], rec[d])
    BY DEF RecordInv
  <2>3. CASE pc'[d] = pc[d]
    BY <2>1, <2>3, SameTurns
  <2>4. CASE pc'[d] # pc[d]
    <3>1. pc[d] \in {"idle", "waiting", "reading", "crediting"}
      <4>1. CASE Begin(c) \/ Wake(c)
        BY <2>4, <4>1 DEF Begin, Wake, Woken, Goto, StartRun, TypeOK
      <4>2. CASE \E ok \in BOOLEAN : ReadClients(c, ok) \/ CreditAnswered(c, ok)
        BY <2>4, <4>2 DEF ReadClients, CreditAnswered, Goto, Finish, TypeOK
      <4>3. CASE \E leg \in Legs : ApplyCredit(c, leg)
        BY <2>4, <4>3 DEF ApplyCredit
      <4> QED
        BY <1>1, <4>1, <4>2, <4>3
    <3>2. rec[d] # "compensated"
      BY <2>2, <3>1 DEF PlaceFits
    <3> QED
      BY <2>1, <3>2, SameTurns
  <2> QED
    BY <2>3, <2>4
<1>2. ASSUME NEW c \in Calls, NEW ok \in BOOLEAN,
             \/ Prepare(c, ok) \/ DebitAnswered(c, ok) \/ CompensationAnswered(c, ok)
             \/ Confirmed(c, ok) \/ CompensationAudited(c, ok) \/ ReadBack(c, ok)
             \/ Audited(c, ok)
      PROVE  RecordTurns(d)
  <2>1. PlaceFits(c, pc[c], rec[c])
    BY DEF RecordInv
  <2>2. CASE d # c
    <3>1. pc'[d] = pc[d] /\ rec'[d] = rec[d]
      BY <1>2, <2>2 DEF Prepare, DebitAnswered, CompensationAnswered, Confirmed,
                        CompensationAudited, ReadBack, Audited, Goto, Finish, Put,
                        TypeOK
    <3> QED
      BY <3>1, SameTurns
  <2>3. CASE d = c
    <3>1. CASE Prepare(c, ok) \/ DebitAnswered(c, ok)
      BY <2>1, <2>3, <3>1
         DEF Prepare, DebitAnswered, Goto, Finish, Put, PlaceFits, TypeOK,
             RecordTurns, Turned, HowItEnded
    <3>2. CASE CompensationAnswered(c, ok) \/ Confirmed(c, ok)
      BY <2>1, <2>3, <3>2
         DEF CompensationAnswered, Confirmed, Goto, Finish, Put, PlaceFits, TypeOK,
             RecordTurns, Turned, HowItEnded
    <3>3. CASE CompensationAudited(c, ok)
      BY <2>1, <2>3, <3>3
         DEF CompensationAudited, Goto, Finish, Put, PlaceFits, TypeOK,
             RecordTurns, Turned, HowItEnded
    <3>4. CASE ReadBack(c, ok)
      BY <2>1, <2>3, <3>4
         DEF ReadBack, Goto, Finish, Put, PlaceFits, TypeOK,
             RecordTurns, Turned, HowItEnded
    <3>5. CASE Audited(c, ok)
      <4>1. Out(c) /\ In(c) /\ ~Back(c) /\ rec[c] = "financially_completed"
        BY <2>1, <3>5 DEF Audited, PlaceFits, Unsent, Back, TypeOK
      <4>2. rec'[c] \in {"completed", "audit_repair_required"}
        BY <3>5 DEF Audited, Put, TypeOK
      <4> QED
        BY <2>3, <4>1, <4>2 DEF RecordTurns, Turned, HowItEnded
    <3> QED
      BY <1>2, <3>1, <3>2, <3>3, <3>4, <3>5
  <2> QED
    BY <2>2, <2>3
<1>3. ASSUME NEW c \in Calls, CrashAfterPut(c) PROVE RecordTurns(d)
  <2>1. pc'[d] = pc[d] \/ pc'[d] = "done"
    BY <1>3 DEF CrashAfterPut, Restart, TypeOK
  <2>2. PlaceFits(d, pc[d], rec[d])
    BY DEF RecordInv
  <2>3. CASE d # c
    <3>1. rec'[d] = rec[d]
      BY <1>3, <2>3 DEF CrashAfterPut, Restart, TypeOK
    <3> QED
      BY <2>1, <2>2, <3>1 DEF RecordTurns, Turned, HowItEnded, PlaceFits
  <2>4. CASE d = c
    <3>1. \/ rec[d] = "none" /\ rec'[d] = "prepared"
          \/ rec[d] = "source_debited" /\ rec'[d] = "financially_completed"
          \/ /\ rec[d] = "financially_completed" /\ rec'[d] = "completed"
             /\ Out(d) /\ In(d) /\ ~Back(d)
      BY <1>3, <2>2, <2>4
         DEF CrashAfterPut, Restart, TypeOK, PlaceFits, Unsent, Back
    <3> QED
      BY <3>1 DEF RecordTurns, Turned, HowItEnded
  <2> QED
    BY <2>3, <2>4
<1>4. ASSUME Crash \/ UNCHANGED vars PROVE RecordTurns(d)
  <2>1. rec'[d] = rec[d] /\ (pc'[d] = pc[d] \/ pc'[d] = "done")
    BY <1>4 DEF Crash, Restart, vars, TypeOK
  <2>2. PlaceFits(d, pc[d], rec[d])
    BY DEF RecordInv
  <2> QED
    BY <2>1, <2>2 DEF RecordTurns, Turned, HowItEnded, PlaceFits
<1> QED
  BY <1>1, <1>2, <1>3, <1>4 DEF Next, Advance

-----------------------------------------------------------------------------

(* What the steps need to know of the state they start from.               *)
SettleInv == TypeOK /\ RecordInv /\ UniqueInv /\ DebitFirst

LEMMA HowItEndedType ==
  ASSUME NEW place, NEW state
  PROVE  HowItEnded(place, state) \in Transfers!Outcomes
  BY DEF HowItEnded, Transfers!Outcomes, Transfers!Settled

LEMMA OutcomesType ==
  ASSUME UniqueInv'
  PROVE  outcomes' \in [Requests -> Transfers!Outcomes]
<1>1. ASSUME NEW r \in Requests PROVE outcomes'[r] \in Transfers!Outcomes
  <2>1. CASE OnRecord(r)' = {}
    BY <2>1, NoOutcome DEF Transfers!Outcomes
  <2>2. CASE OnRecord(r)' # {}
    <3>1. PICK c \in Calls : rec'[c] # "none" /\ Input[c].request = r
      BY <2>2 DEF OnRecord
    <3> QED
      BY <3>1, OutcomeAfter, HowItEndedType
  <2> QED
    BY <2>1, <2>2
<1>2. outcomes' = [r \in Requests |-> outcomes'[r]]
  BY DEF outcomes
<1> QED
  BY <1>1, <1>2

(* A step that posts no credit row notes what records say.                 *)
LEMMA NoteStep ==
  ASSUME SettleInv, UniqueInv', [Next]_vars, StateDurable, posted' = posted
  PROVE  Transfers!Note
<1> USE DEF SettleInv
<1>1. UNCHANGED moves
  BY DEF moves, MovedFor
<1>2. ASSUME NEW r \in Requests
      PROVE  Transfers!Turns(outcomes[r], outcomes'[r], moves[r])
  <2>1. CASE OnRecord(r) = {} /\ OnRecord(r)' = {}
    BY <2>1, NoOutcome DEF Transfers!Turns
  <2>2. ASSUME NEW c \in Calls, Input[c].request = r, rec[c] # "none"
        PROVE  Transfers!Turns(outcomes[r], outcomes'[r], moves[r])
    <3>1. rec'[c] # "none" /\ Turned(c)
      BY <2>2, TurnsStep DEF RecordTurns
    <3>2. /\ outcomes[r] = HowItEnded(pc[c], rec[c])
          /\ outcomes'[r] = HowItEnded(pc'[c], rec'[c])
      BY <2>2, <3>1, OutcomeOf, OutcomeAfter
    <3>3. \A leg \in Legs : moves[r][leg] = IF Applied(c, leg) THEN 1 ELSE 0
      BY <2>2, MovesOf DEF Remembering
    <3>4. /\ Out(c) => moves[r]["out"] = 1
          /\ In(c) => moves[r]["in"] = 1
          /\ Back(c) => moves[r]["back"] = 1
          /\ ~Back(c) => moves[r]["back"] = 0
      BY <3>3 DEF Legs, Applied, Out, In, Back
    <3> QED
      BY <2>2, <3>1, <3>2, <3>4
         DEF Turned, Transfers!Turns, Transfers!BorneOut, Transfers!Settled
  <2>3. ASSUME NEW c \in Calls, Input[c].request = r, rec'[c] # "none",
               OnRecord(r) = {}
        PROVE  Transfers!Turns(outcomes[r], outcomes'[r], moves[r])
    <3>1. HowItEnded(pc'[c], rec'[c]) = "open"
      BY <2>3, TurnsStep DEF RecordTurns, OnRecord
    <3>2. outcomes[r] = "none" /\ outcomes'[r] = "open"
      BY <2>3, <3>1, NoOutcome, OutcomeAfter
    <3> QED
      BY <3>2 DEF Transfers!Turns
  <2> QED
    BY <2>1, <2>2, <2>3 DEF OnRecord
<1> QED
  BY <1>1, <1>2, OutcomesType DEF Transfers!Note

(* WHMCS applies a credit: one leg of one request moves.                   *)
LEMMA MoveStep ==
  ASSUME SettleInv, SettleInv', StateDurable, NEW c \in Calls, NEW leg \in Legs,
         ApplyCredit(c, leg)
  PROVE  Transfers!Move(Input[c].request, leg)
<1> DEFINE r == Input[c].request
<1> USE DEF SettleInv
<1>1. /\ ~Unsent(c, leg) /\ ~Applied(c, leg)
      /\ posted' = posted \cup {<<c, leg>>} /\ UNCHANGED <<pc, rec>>
  BY DEF ApplyCredit, Unsent, Applied, store
<1>2. r \in Requests
  BY TransferAssumption DEF TransferAssumption, Inputs
<1>3. rec[c] # "none" /\ Remembering
  BY <1>1 DEF RecordInv, RowsFit, Remembering
<1> HIDE DEF r
<1>4. outcomes[r] = HowItEnded(pc[c], rec[c])
  BY <1>2, <1>3, OutcomeOf DEF r
<1>5. outcomes[r] \notin {"none", "completed"}
  <2>1. rec[c] # "completed"
    BY <1>1 DEF RecordInv, RowsFit, Unsent, Applied, Out, In, Legs
  <2> QED
    BY <1>3, <1>4, <2>1 DEF HowItEnded, TypeOK, CreditTransferState
<1>6. \A l \in Legs : moves[r][l] = IF Applied(c, l) THEN 1 ELSE 0
  BY <1>2, <1>3, MovesOf DEF r
<1>7. moves[r][leg] = 0
  BY <1>1, <1>6
<1>8. leg # "out" => moves[r]["out"] = 1
  BY <1>1, <1>6 DEF Legs, DebitFirst, Out, Applied
<1>9. moves' = [moves EXCEPT ![r][leg] = 1]
  <2>1. MovedFor(r, leg) = {}
    BY <1>1, <1>2, <1>3, MovedOf DEF r
  <2>2. MovedFor(r, leg)' = {<<c, leg>>}
    BY <1>1, <2>1 DEF MovedFor, r
  <2>3. ASSUME NEW q \in Requests, NEW l \in Legs, <<q, l>> # <<r, leg>>
        PROVE  MovedFor(q, l)' = MovedFor(q, l)
    BY <1>1, <2>3 DEF MovedFor, r
  <2>4. Cardinality(MovedFor(r, leg)') = 1
    BY <2>2, FS_Singleton
  <2>5. moves' = [q \in Requests |-> [l \in Legs |-> Cardinality(MovedFor(q, l)')]]
    BY DEF moves
  <2>6. moves = [q \in Requests |-> [l \in Legs |-> Cardinality(MovedFor(q, l))]]
    BY DEF moves
  <2>7. \A q \in Requests, l \in Legs :
          Cardinality(MovedFor(q, l)') =
            IF q = r /\ l = leg THEN 1 ELSE Cardinality(MovedFor(q, l))
    BY <2>3, <2>4
  <2>8. [moves EXCEPT ![r][leg] = 1] =
          [q \in Requests |-> [l \in Legs |->
             IF q = r /\ l = leg THEN 1 ELSE Cardinality(MovedFor(q, l))]]
    BY <1>2, <2>6
  <2> QED
    BY <2>5, <2>7, <2>8
<1>10. UNCHANGED outcomes
  BY <1>1 DEF outcomes, OnRecord
<1> QED
  BY <1>5, <1>7, <1>8, <1>9, <1>10 DEF Transfers!Move, r

(* With a durable store the executions of each request id, however many    *)
(* retries, reversals, lost answers and restarts there are, implement one  *)
(* transfer: on record before its debit moves, no leg moved twice, settled *)
(* once and as its credit rows bear out, and left alone when completed.    *)
THEOREM TransfersSettleOnce == StateDurable /\ Spec => SettlesOnce
<1> SUFFICES ASSUME StateDurable PROVE Spec => SettlesOnce
  OBVIOUS
<1>1. Init => Transfers!Init
  <2> SUFFICES ASSUME Init PROVE Transfers!Init
    OBVIOUS
  <2>1. outcomes = [r \in Requests |-> "none"]
    BY DEF Init, outcomes, OnRecord
  <2>2. \A r \in Requests, leg \in Legs : MovedFor(r, leg) = {}
    BY DEF Init, MovedFor
  <2>3. \A r \in Requests, leg \in Legs : Cardinality(MovedFor(r, leg)) = 0
    BY <2>2, FS_EmptySet
  <2>4. moves = [r \in Requests |-> [leg \in Legs |-> 0]]
    BY <2>3 DEF moves
  <2> QED
    BY <2>1, <2>4 DEF Transfers!Init, Transfers!Legs, Legs
<1>2. Init => DebitFirst
  BY DEF Init, DebitFirst, Unsent
<1>3. TypeOK /\ RecordInv /\ DebitFirst /\ [Next]_vars => DebitFirst'
  BY DebitStep
<1>4. SettleInv /\ SettleInv' /\ [Next]_vars => [Transfers!Next]_(Transfers!vars)
  <2> SUFFICES ASSUME SettleInv, SettleInv', [Next]_vars
               PROVE  Transfers!Next
    OBVIOUS
  <2>1. CASE posted' = posted
    <3>1. Transfers!Note
      BY <2>1, NoteStep DEF SettleInv
    <3> QED
      BY <3>1 DEF Transfers!Next
  <2>2. ASSUME NEW c \in Calls, NEW leg \in Legs, ApplyCredit(c, leg)
        PROVE  Transfers!Next
    <3>1. Transfers!Move(Input[c].request, leg)
      BY <2>2, MoveStep
    <3>2. Input[c].request \in Requests /\ leg \in Transfers!Legs
      BY TransferAssumption DEF TransferAssumption, Inputs, Legs, Transfers!Legs
    <3> QED
      BY <3>1, <3>2 DEF Transfers!Next
  <2> QED
    BY <2>1, <2>2, PostedStays
<1> QED
  BY <1>1, <1>2, <1>3, <1>4, TypeCorrect, RecordsHold, PTL
     DEF Spec, SettlesOnce, Transfers!Spec, SettleInv

-----------------------------------------------------------------------------
(* Waiting and reversing.                                                  *)

(* Whoever waits, waits for an execution that has started.                 *)
WaitsForStarted ==
  \A c \in Calls : pc[c] = "waiting" => pc[behind[c]] \notin {"idle", "waiting"}

(* Steps that move one execution, not to wait.                             *)
LEMMA StartedStays ==
  ASSUME TypeOK, WaitsForStarted, NEW c \in Calls, UNCHANGED behind,
         NEW place \in Pc \ {"idle", "waiting"}, pc' = [pc EXCEPT ![c] = place]
  PROVE  WaitsForStarted'
  BY DEF WaitsForStarted, TypeOK

LEMMA WaitStep ==
  ASSUME TypeInv, WaitsForStarted, [Next]_vars
  PROVE  WaitsForStarted'
<1> USE DEF TypeInv
<1>1. ASSUME NEW c \in Calls, Begin(c) PROVE WaitsForStarted'
  <2>1. CASE StartRun(c) /\ UNCHANGED behind
    <3>1. \E place \in {"done", "reading"} : pc' = [pc EXCEPT ![c] = place]
      BY <2>1 DEF StartRun, Goto
    <3> QED
      BY <2>1, <3>1, StartedStays DEF Pc
  <2>2. CASE /\ Holder(c) # NoOne
             /\ Goto(c, "waiting")
             /\ behind' = [behind EXCEPT ![c] = Holder(c)]
    <3>1. /\ Holder(c) \in Calls
          /\ pc[Holder(c)] \notin {"idle", "waiting"}
          /\ pc[c] = "idle"
      BY <1>1, <2>2 DEF Begin, Holder, LockInv, TypeOK, Keys
    <3>2. \A d \in Calls : pc[d] = "waiting" => behind[d] # c
      BY <3>1 DEF WaitsForStarted
    <3> QED
      BY <2>2, <3>1, <3>2 DEF WaitsForStarted, TypeOK, Goto
  <2> QED
    BY <1>1, <2>1, <2>2 DEF Begin
<1>2. ASSUME NEW c \in Calls, Wake(c) PROVE WaitsForStarted'
  <2>1. UNCHANGED behind /\ \E place \in {"done", "reading"} : pc' = [pc EXCEPT ![c] = place]
    BY <1>2 DEF Wake, StartRun, Goto
  <2> QED
    BY <2>1, StartedStays DEF Pc
<1>3. ASSUME NEW c \in Calls, NEW ok \in BOOLEAN,
             \/ ReadClients(c, ok) \/ Prepare(c, ok) \/ DebitAnswered(c, ok)
             \/ CreditAnswered(c, ok) \/ CompensationAnswered(c, ok)
      PROVE  WaitsForStarted'
  <2>1. /\ UNCHANGED behind
        /\ \E place \in {"preparing", "debiting", "crediting", "checking", "compensating",
                         "confirming", "done"} : pc' = [pc EXCEPT ![c] = place]
    BY <1>3 DEF ReadClients, Prepare, DebitAnswered, CreditAnswered,
                CompensationAnswered, Goto, Finish, queue
  <2> QED
    BY <2>1, StartedStays DEF Pc, Mutating
<1>4. ASSUME NEW c \in Calls, NEW ok \in BOOLEAN,
             \/ Confirmed(c, ok) \/ CompensationAudited(c, ok) \/ ReadBack(c, ok)
             \/ Audited(c, ok)
      PROVE  WaitsForStarted'
  <2>1. /\ UNCHANGED behind
        /\ \E place \in {"comp_auditing", "auditing", "done"} :
             pc' = [pc EXCEPT ![c] = place]
    BY <1>4 DEF Confirmed, CompensationAudited, ReadBack, Audited, Goto, Finish, queue
  <2> QED
    BY <2>1, StartedStays DEF Pc
<1>5. ASSUME NEW c \in Calls, NEW leg \in Legs, ApplyCredit(c, leg)
      PROVE  WaitsForStarted'
  BY <1>5 DEF ApplyCredit, queue, WaitsForStarted
<1>6. ASSUME Crash \/ \E c \in Calls : CrashAfterPut(c) PROVE WaitsForStarted'
  BY <1>6 DEF Crash, CrashAfterPut, Restart, WaitsForStarted
<1>7. CASE UNCHANGED vars
  BY <1>7 DEF vars, WaitsForStarted
<1> QED
  BY <1>1, <1>2, <1>3, <1>4, <1>5, <1>6, <1>7 DEF Next, Advance

(* The promise chain of a client pair is never longer than one: whoever    *)
(* waits, waits for an execution that runs or has settled, so executions   *)
(* never wait for one another, although a run may clear a lock that        *)
(* another one holds.                                                      *)
THEOREM NobodyWaitsInACircle == Spec => []WaitsForStarted
<1>1. Init => TypeInv /\ WaitsForStarted
  BY TypeStart DEF Init, WaitsForStarted
<1>2. TypeInv /\ WaitsForStarted /\ [Next]_vars => TypeInv' /\ WaitsForStarted'
  BY TypeStep, WaitStep
<1> QED
  BY <1>1, <1>2, PTL DEF Spec

(* The original of a reversal that runs is completed, and so are both ends *)
(* of every link between a record and the transfer that reversed it.       *)
Running(c) == ~Over(c)

ReversalsGrounded ==
  \A c \in Calls : Running(c) /\ Input[c].reverses # NoOne =>
    \E d \in OnRecord(Input[c].reverses) : rec[d] = "completed"

LinksHonest ==
  \A d \in Calls : reversedBy[d] # NoOne =>
    /\ rec[d] = "completed" /\ rec[reversedBy[d]] = "completed"
    /\ Input[reversedBy[d]].reverses = Input[d].request

(* A crash that loses the records loses the links and ends the runs.       *)
Forgets == /\ \A c \in Calls : ~Running(c)'
           /\ \A d \in Calls : reversedBy'[d] = NoOne

LEMMA CompletedStays ==
  ASSUME TypeOK, RecordInv, [Next]_vars, ~Forgets, NEW d \in Calls,
         rec[d] = "completed"
  PROVE  rec'[d] = "completed"
<1>1. pc[d] = "done"
  BY DEF TypeOK, Pc, Mutating, RecordInv, PlaceFits
<1>2. CASE Crash \/ \E c \in Calls : CrashAfterPut(c)
  <2>1. PICK r : Restart(r)
    BY <1>2 DEF Crash, CrashAfterPut
  <2>2. StateDurable
    BY <2>1 DEF Restart, Forgets, Running, Over
  <2> QED
    BY <1>1, <2>2, DoneKept
<1>3. CASE UNCHANGED vars
  BY <1>3 DEF vars
<1>4. ASSUME NEW c \in Calls, Begin(c) \/ Advance(c) PROVE rec'[d] = rec[d]
  <2>1. CASE \/ Begin(c) \/ Wake(c)
             \/ \E ok \in BOOLEAN : ReadClients(c, ok) \/ CreditAnswered(c, ok)
    BY <2>1 DEF Begin, Wake, ReadClients, CreditAnswered, store
  <2>2. ASSUME NEW ok \in BOOLEAN,
               Prepare(c, ok) \/ DebitAnswered(c, ok) \/ CompensationAnswered(c, ok)
        PROVE  rec'[d] = rec[d]
    BY <1>1, <2>2 DEF Prepare, DebitAnswered, CompensationAnswered, Put, TypeOK
  <2>3. ASSUME NEW ok \in BOOLEAN,
               \/ Confirmed(c, ok) \/ CompensationAudited(c, ok)
               \/ ReadBack(c, ok) \/ Audited(c, ok)
        PROVE  rec'[d] = rec[d]
    BY <1>1, <2>3 DEF Confirmed, CompensationAudited, ReadBack, Audited, Put, TypeOK
  <2> QED
    BY <1>4, <2>1, <2>2, <2>3 DEF Advance
<1>5. ASSUME NEW c \in Calls, NEW leg \in Legs, ApplyCredit(c, leg)
      PROVE  rec'[d] = rec[d]
  BY <1>5 DEF ApplyCredit, store
<1> QED
  BY <1>2, <1>3, <1>4, <1>5 DEF Next

(* A run starts on a completed original, or goes on.                       *)
LEMMA RunsStart ==
  ASSUME TypeOK, [Next]_vars, NEW c \in Calls, Running(c)', ~Running(c),
         Input[c].reverses # NoOne
  PROVE  \E d \in OnRecord(Input[c].reverses) : rec[d] = "completed"
<1> USE DEF Running, Over
<1>1. ASSUME NEW b \in Calls, Begin(b) \/ Wake(b)
      PROVE  \E d \in OnRecord(Input[c].reverses) : rec[d] = "completed"
  <2>1. \E place : Goto(b, place)
    BY <1>1 DEF Begin, Wake, StartRun
  <2>2. b = c
    BY <2>1 DEF Goto, TypeOK
  <2>3. pc'[c] # "waiting"
    OBVIOUS
  <2>4. StartRun(b)
    BY <1>1, <2>2, <2>3 DEF Begin, Wake, Goto, TypeOK
  <2>5. StartRun(c)
    BY <2>2, <2>4
  <2> QED
    BY <2>5 DEF StartRun, Goto, TypeOK, Reversible
<1>2. ASSUME NEW b \in Calls, NEW ok \in BOOLEAN,
             \/ ReadClients(b, ok) \/ Prepare(b, ok) \/ DebitAnswered(b, ok)
             \/ CreditAnswered(b, ok) \/ CompensationAnswered(b, ok)
      PROVE  FALSE
  BY <1>2 DEF ReadClients, Prepare, DebitAnswered, CreditAnswered,
              CompensationAnswered, Goto, Finish, TypeOK
<1>3. ASSUME NEW b \in Calls, NEW ok \in BOOLEAN,
             \/ Confirmed(b, ok) \/ CompensationAudited(b, ok) \/ ReadBack(b, ok)
             \/ Audited(b, ok)
      PROVE  FALSE
  BY <1>3 DEF Confirmed, CompensationAudited, ReadBack, Audited, Goto, Finish, TypeOK
<1>4. ASSUME \/ Crash \/ UNCHANGED vars \/ \E b \in Calls : CrashAfterPut(b)
             \/ \E b \in Calls, leg \in Legs : ApplyCredit(b, leg)
      PROVE  FALSE
  BY <1>4 DEF Crash, CrashAfterPut, Restart, vars, ApplyCredit, TypeOK
<1> QED
  BY <1>1, <1>2, <1>3, <1>4 DEF Next, Advance

(* Links are made when a reversal is completed.                            *)
LEMMA LinksMade ==
  ASSUME TypeOK, [Next]_vars, ~Forgets, NEW d \in Calls, reversedBy'[d] # reversedBy[d]
  PROVE  \E c \in Calls : /\ Audited(c, TRUE) /\ Input[c].reverses # NoOne
                          /\ d \in OnRecord(Input[c].reverses) /\ reversedBy'[d] = c
<1>1. ASSUME NEW c \in Calls, NEW ok \in BOOLEAN, Audited(c, ok)
      PROVE  /\ ok = TRUE /\ Audited(c, TRUE) /\ Input[c].reverses # NoOne
             /\ d \in OnRecord(Input[c].reverses) /\ reversedBy'[d] = c
  BY <1>1 DEF Audited
<1>2. ASSUME NEW c \in Calls, NEW ok \in BOOLEAN,
             \/ ReadClients(c, ok) \/ Prepare(c, ok) \/ DebitAnswered(c, ok)
             \/ CreditAnswered(c, ok) \/ CompensationAnswered(c, ok)
             \/ Confirmed(c, ok) \/ CompensationAudited(c, ok) \/ ReadBack(c, ok)
      PROVE  FALSE
  BY <1>2 DEF ReadClients, Prepare, DebitAnswered, CreditAnswered, CompensationAnswered,
              Confirmed, CompensationAudited, ReadBack, store
<1>3. ASSUME \/ UNCHANGED vars \/ \E c \in Calls : Begin(c) \/ Wake(c)
             \/ \E c \in Calls, leg \in Legs : ApplyCredit(c, leg)
      PROVE  FALSE
  BY <1>3 DEF vars, Begin, Wake, ApplyCredit, store
<1>4. ASSUME Crash \/ \E c \in Calls : CrashAfterPut(c) PROVE FALSE
  <2>1. PICK r : Restart(r)
    BY <1>4 DEF Crash, CrashAfterPut
  <2> QED
    BY <2>1 DEF Restart, Forgets, Running, Over
<1> QED
  BY <1>1, <1>2, <1>3, <1>4 DEF Next, Advance

LEMMA ReversalStep ==
  ASSUME TypeOK, TypeOK', RecordInv, UniqueInv, ReversalsGrounded, LinksHonest, [Next]_vars
  PROVE  ReversalsGrounded' /\ LinksHonest'
<1>1. CASE Forgets
  BY <1>1 DEF Forgets, ReversalsGrounded, LinksHonest
<1>2. CASE ~Forgets
  <2>1. ASSUME NEW c \in Calls, Running(c)', Input[c].reverses # NoOne
        PROVE  \E d \in OnRecord(Input[c].reverses)' : rec'[d] = "completed"
    <3>1. PICK d \in OnRecord(Input[c].reverses) : rec[d] = "completed"
      BY <2>1, RunsStart DEF ReversalsGrounded
    <3>2. d \in Calls /\ rec'[d] = "completed"
      BY <1>2, <3>1, CompletedStays DEF OnRecord
    <3> QED
      BY <3>1, <3>2 DEF OnRecord
  <2>2. ASSUME NEW d \in Calls, reversedBy'[d] # NoOne
        PROVE  /\ rec'[d] = "completed" /\ rec'[reversedBy'[d]] = "completed"
               /\ Input[reversedBy'[d]].reverses = Input[d].request
    <3>1. CASE reversedBy'[d] = reversedBy[d]
      <4>1. /\ reversedBy[d] \in Calls
            /\ rec[d] = "completed" /\ rec[reversedBy[d]] = "completed"
            /\ Input[reversedBy[d]].reverses = Input[d].request
        BY <2>2, <3>1 DEF LinksHonest, TypeOK
      <4> QED
        BY <1>2, <3>1, <4>1, CompletedStays
    <3>2. CASE reversedBy'[d] # reversedBy[d]
      <4>1. PICK c \in Calls : /\ Audited(c, TRUE) /\ Input[c].reverses # NoOne
                               /\ d \in OnRecord(Input[c].reverses)
                               /\ reversedBy'[d] = c
        BY <1>2, <3>2, LinksMade
      <4>2. Running(c)
        BY <4>1 DEF Audited, Running, Over
      <4>3. rec[d] = "completed"
        BY <4>1, <4>2 DEF ReversalsGrounded, OnRecord, UniqueInv
      <4>4. rec'[c] = "completed"
        BY <4>1 DEF Audited, Put, TypeOK
      <4>5. rec'[d] = "completed"
        BY <1>2, <4>3, CompletedStays
      <4> QED
        BY <4>1, <4>4, <4>5 DEF OnRecord
    <3> QED
      BY <3>1, <3>2
  <2> QED
    BY <2>1, <2>2 DEF ReversalsGrounded, LinksHonest
<1> QED
  BY <1>1, <1>2

(* A reversal that runs has a completed original, however long it waited   *)
(* for its reads and answers, and a record is linked only to a completed   *)
(* transfer that asked to reverse it, with either kind of store.           *)
THEOREM ReversalsAreGrounded == Spec => [](ReversalsGrounded /\ LinksHonest)
<1>1. Init => ReversalsGrounded /\ LinksHonest
  BY DEF Init, ReversalsGrounded, LinksHonest, Running, Over
<1>2. TypeOK /\ TypeOK' /\ RecordInv /\ UniqueInv /\ ReversalsGrounded /\ LinksHonest
        /\ [Next]_vars
        => ReversalsGrounded' /\ LinksHonest'
  BY ReversalStep
<1> QED
  BY <1>1, <1>2, TypeCorrect, RecordsHold, PTL DEF Spec
=============================================================================
