---------------------------- MODULE BatchProofs ----------------------------
(***************************************************************************)
(* Proofs about the composite branches of executeRun: a service transfer   *)
(* commits whole and takes the invoices along, a price restore hands a     *)
(* target over once and the day's total is what it moved, and what the     *)
(* credit transfer tools say of a transfer is true of its record.          *)
(***************************************************************************)
EXTENDS PriceRestore, OwnerTransfer, TransferIntents, FiniteSetTheorems, SumTheorems, TLAPS

-----------------------------------------------------------------------------
(* OwnerTransfer: the types.                                               *)

TransferStates == {"approved", "execution_blocked", "executed"}

Tx == [at : {"idle", "locking", "moving", "committed"}, of : Transfers \cup {Free},
       scope : SUBSET Invoices, locked : SUBSET Invoices, moved : SUBSET Hosting,
       failed : BOOLEAN]

TransferTypes ==
  /\ tst \in [Transfers -> TransferStates]
  /\ owner \in [Hosting -> Clients]
  /\ DOMAIN invoice \subseteq Invoices
  /\ \A i \in DOMAIN invoice : invoice[i] \in InvoiceRow
  /\ holder \in [Row -> Executions \cup {Free}]
  /\ tx \in [Executions -> Tx]
  /\ outside \in Nat
  /\ late \subseteq Invoices

(* An intent's mode takes invoices along that are paid, or unpaid.         *)
Covers(t, paid) ==
  Wanted[t].mode \in (IF paid THEN {} ELSE {"unpaid_only"}) \cup {"all"}

(* The rows an execution holds are as it found them, and the invoices that *)
(* are not in its scope are raised too late, about other services, or not  *)
(* to be taken along.                                                      *)
InFlight(x) ==
  LET t == tx[x].of IN
  /\ t \in Transfers
  /\ tx[x].scope \subseteq DOMAIN invoice
  /\ tx[x].locked \subseteq tx[x].scope
  /\ \A i \in tx[x].locked : holder[i] = x /\ (tx[x].failed \/ ~Mixed(t, i))
  /\ \A i \in DOMAIN invoice \ late :
       \/ i \in tx[x].scope
       \/ invoice[i].lines \cap Wanted[t].services = {}
       \/ ~Covers(t, invoice[i].paid)
  /\ \A s \in tx[x].moved :
       s \in Wanted[t].services /\ holder[s] = x /\ owner[s] = Wanted[t].source

TxInv(x) ==
  /\ tx[x].at \in {"locking", "moving"} => InFlight(x)
  /\ tx[x].at = "locking" => tx[x].moved = {}
  /\ tx[x].at = "moving" => tx[x].locked = tx[x].scope /\ ~tx[x].failed
  /\ tx[x].at = "committed" => tx[x].of \in Transfers

TransferInv ==
  /\ TransferTypes
  /\ \A x \in Executions : TxInv(x)
  /\ InvoicesFollow

(* Invoices belong at first to the owner of the services they are about.   *)
BooksAgree ==
  \A i \in DOMAIN FirstInvoices : \A s \in FirstInvoices[i].lines \ {"other"} :
    FirstOwner[s] = FirstInvoices[i].owner

LEMMA NoTxTyped == NoTx \in Tx /\ NoTx.at = "idle"
  BY DEF NoTx, Tx

LEMMA WantedTyped ==
  ASSUME NEW t \in Transfers
  PROVE  /\ Wanted[t].source \in Clients /\ Wanted[t].dest \in Clients
         /\ Wanted[t].source # Wanted[t].dest /\ Wanted[t].services \subseteq Hosting
         /\ Wanted[t].mode \in {"none", "unpaid_only", "all"}
  BY TransferAssumption DEF TransferAssumption

LEMMA TxTyped ==
  ASSUME TransferInv, NEW x \in Executions
  PROVE  /\ tx[x] \in Tx
         /\ tx[x].scope \subseteq Invoices /\ tx[x].moved \subseteq Hosting
         /\ tx[x].locked \subseteq Invoices /\ tx[x].failed \in BOOLEAN
         /\ TxInv(x)
         /\ x # Free
  BY TransferAssumption DEF TransferAssumption, TransferInv, TransferTypes, Tx

(* What a step of somebody else leaves of an execution.                    *)
Untouched(y) ==
  /\ tx'[y] = tx[y]
  /\ \A r \in Row : holder[r] = y => holder'[r] = y
  /\ \A s \in Hosting : holder[s] = y => owner'[s] = owner[s]
  /\ \A i \in DOMAIN invoice :
       /\ i \in DOMAIN invoice'
       /\ holder[i] = y => invoice'[i].owner = invoice[i].owner
       /\ invoice'[i].lines = invoice[i].lines
       /\ invoice[i].paid => invoice'[i].paid
  /\ late \subseteq late'
  /\ tx[y].at \in {"locking", "moving"} => DOMAIN invoice' \subseteq DOMAIN invoice \cup late'

LEMMA UntouchedKept ==
  ASSUME TransferInv, NEW y \in Executions, Untouched(y)
  PROVE  TxInv(y)'
<1>1. tx'[y] = tx[y]
  BY DEF Untouched
<1>2. ASSUME tx[y].at \in {"locking", "moving"}
      PROVE  InFlight(y)'
  <2> DEFINE t == tx[y].of
  <2>1. InFlight(y) /\ tx[y].scope \subseteq Invoices /\ tx[y].moved \subseteq Hosting
    BY <1>2, TxTyped DEF TxInv
  <2>2. t \in Transfers /\ tx[y].scope \subseteq DOMAIN invoice'
    BY <2>1 DEF InFlight, Untouched
  <2>3. ASSUME NEW i \in tx[y].locked
        PROVE  holder'[i] = y /\ (tx[y].failed \/ ~Mixed(t, i)')
    BY <2>1, <2>3 DEF InFlight, Untouched, Row, Mixed
  <2>4. ASSUME NEW i \in DOMAIN invoice' \ late'
        PROVE  \/ i \in tx[y].scope
               \/ invoice'[i].lines \cap Wanted[t].services = {}
               \/ ~Covers(t, invoice'[i].paid)
    <3>1. i \in DOMAIN invoice \ late
      BY <1>2, <2>4 DEF Untouched
    <3>2. \/ i \in tx[y].scope
          \/ invoice[i].lines \cap Wanted[t].services = {}
          \/ ~Covers(t, invoice[i].paid)
      BY <2>1, <3>1 DEF InFlight
    <3>3. invoice'[i].lines = invoice[i].lines /\ (invoice[i].paid => invoice'[i].paid)
      BY <3>1 DEF Untouched
    <3> QED
      BY <3>2, <3>3 DEF Covers
  <2>5. ASSUME NEW s \in tx[y].moved
        PROVE  s \in Wanted[t].services /\ holder'[s] = y /\ owner'[s] = Wanted[t].source
    BY <2>1 DEF InFlight, Untouched, Row
  <2> QED
    BY <1>1, <2>1, <2>2, <2>3, <2>4, <2>5 DEF InFlight
<1> QED
  BY <1>1, <1>2, TxTyped DEF TxInv

(* A step of one execution, or of nobody's: the others stay as they are.   *)
LEMMA OwnStep ==
  ASSUME TransferInv, NEW x, TransferTypes', InvoicesFollow',
         x \in Executions => TxInv(x)',
         \A y \in Executions \ {x} : Untouched(y)
  PROVE  TransferInv'
<1>1. ASSUME NEW y \in Executions
      PROVE  TxInv(y)'
  BY UntouchedKept
<1> QED
  BY <1>1 DEF TransferInv

LEMMA MovedState ==
  ASSUME TransferInv, NEW t, NEW target \in TransferStates
  PROVE  TransferMoved(t, target) \in [Transfers -> TransferStates]
  BY DEF TransferInv, TransferTypes, TransferMoved

(* Nothing that InvoicesFollow speaks of has changed.                      *)
LEMMA InvoicesKept ==
  ASSUME TransferInv, UNCHANGED <<owner, invoice, late>>
  PROVE  InvoicesFollow'
  BY DEF TransferInv, InvoicesFollow

LEMMA LeaveInv ==
  ASSUME TransferInv, NEW x \in Executions, NEW target \in TransferStates,
         Leave(x, target), UNCHANGED <<outside, late>>
  PROVE  TransferInv'
<1>1. TransferTypes'
  BY MovedState, NoTxTyped DEF TransferInv, TransferTypes, Leave, Released
<1>2. ASSUME NEW y \in Executions \ {x}
      PROVE  Untouched(y)
  BY DEF Untouched, Leave, Released, TransferInv, TransferTypes
<1>3. tx'[x] = NoTx
  BY DEF Leave, TransferInv, TransferTypes
<1>4. TxInv(x)'
  BY <1>3, NoTxTyped DEF TxInv
<1>5. InvoicesFollow'
  BY InvoicesKept DEF Leave
<1> QED
  BY <1>1, <1>2, <1>4, <1>5, OwnStep

LEMMA RefuseTransferInv ==
  ASSUME TransferInv, NEW t \in Transfers, RefuseTransfer(t)
  PROVE  TransferInv'
<1>1. TransferTypes'
  BY DEF RefuseTransfer, TransferInv, TransferTypes, TransferStates
<1>2. ASSUME NEW y \in Executions
      PROVE  Untouched(y)
  BY DEF Untouched, RefuseTransfer
<1>3. InvoicesFollow'
  BY InvoicesKept DEF RefuseTransfer
<1> QED
  BY <1>1, <1>2, <1>3, OwnStep, UntouchedKept

LEMMA PreflightInv ==
  ASSUME TransferInv, NEW x \in Executions, NEW t \in Transfers, Preflight(x, t)
  PROVE  TransferInv'
<1> DEFINE new == [NoTx EXCEPT !.at = "locking", !.of = t, !.scope = InScope(t)]
<1>0. UNCHANGED <<owner, invoice, holder, outside, late>> /\ tx[x].at = "idle"
  BY DEF Preflight
<1>1. /\ new.at = "locking" /\ new.of = t /\ new.scope = InScope(t)
      /\ new.locked = {} /\ new.moved = {} /\ new.failed = FALSE
  BY DEF NoTx
<1>2. InScope(t) \subseteq DOMAIN invoice /\ InScope(t) \subseteq Invoices
  BY DEF InScope, TransferInv, TransferTypes
<1>3. new \in Tx
  BY <1>2 DEF NoTx, Tx
<1> HIDE DEF new
<1>4. CASE tx' = [tx EXCEPT ![x] = new] /\ UNCHANGED tst
  <2>1. tx'[x] = new /\ \A y \in Executions \ {x} : tx'[y] = tx[y]
    BY <1>4 DEF TransferInv, TransferTypes
  <2>2. ASSUME NEW i \in DOMAIN invoice \ late
        PROVE  \/ i \in InScope(t)
               \/ invoice[i].lines \cap Wanted[t].services = {}
               \/ ~Covers(t, invoice[i].paid)
    BY DEF InScope, Covers
  <2>3. InFlight(x)'
    BY <1>0, <1>1, <1>2, <2>1, <2>2 DEF InFlight, Covers
  <2>4. TxInv(x)'
    BY <1>1, <2>1, <2>3 DEF TxInv
  <2>5. TransferTypes'
    BY <1>0, <1>3, <1>4 DEF TransferInv, TransferTypes
  <2>6. ASSUME NEW y \in Executions \ {x}
        PROVE  Untouched(y)
    BY <1>0, <2>1 DEF Untouched
  <2> QED
    BY <1>0, <2>4, <2>5, <2>6, InvoicesKept, OwnStep
<1>5. CASE tst' = TransferMoved(t, "execution_blocked") /\ UNCHANGED tx
  <2>1. TransferTypes'
    BY <1>0, <1>5, MovedState DEF TransferInv, TransferTypes, TransferStates
  <2>2. ASSUME NEW y \in Executions
        PROVE  Untouched(y)
    BY <1>0, <1>5 DEF Untouched
  <2> QED
    BY <1>0, <2>1, <2>2, InvoicesKept, OwnStep, UntouchedKept
<1> QED
  BY <1>4, <1>5 DEF Preflight, new

LEMMA LockInvoiceInv ==
  ASSUME TransferInv, NEW x \in Executions, NEW i \in Invoices, LockInvoice(x, i)
  PROVE  TransferInv'
<1> DEFINE e == tx[x]
           e1 == [e EXCEPT !.locked = @ \cup {i}]
           e2 == [e1 EXCEPT !.failed = @ \/ Mixed(e.of, i)]
<1>0. /\ e.at = "locking" /\ i \in e.scope /\ holder[i] = Free
      /\ holder' = [holder EXCEPT ![i] = x]
      /\ tx' = [tx EXCEPT ![x].locked = @ \cup {i}, ![x].failed = @ \/ Mixed(e.of, i)]
      /\ UNCHANGED <<tst, owner, invoice, outside, late>>
  BY DEF LockInvoice, Grabbed
<1>1. e \in Tx /\ e.locked \subseteq Invoices /\ InFlight(x) /\ e.moved = {} /\ x # Free
  BY <1>0, TxTyped DEF TxInv
<1>2. /\ e2 \in Tx /\ e2.at = "locking" /\ e2.of = e.of /\ e2.scope = e.scope
      /\ e2.locked = e.locked \cup {i} /\ e2.moved = {}
      /\ e2.failed <=> (e.failed \/ Mixed(e.of, i))
  <2>1. (e.failed \/ Mixed(e.of, i)) \in BOOLEAN
    BY <1>1 DEF Tx, Mixed
  <2>2. e1 \in Tx /\ e1.failed = e.failed
    BY <1>1 DEF Tx
  <2>3. e2 = [e1 EXCEPT !.failed = e.failed \/ Mixed(e.of, i)]
    BY <2>2
  <2>4. e1.at = "locking" /\ e1.of = e.of /\ e1.scope = e.scope
        /\ e1.locked = e.locked \cup {i} /\ e1.moved = {}
    BY <1>0, <1>1 DEF Tx
  <2> HIDE DEF e1, e2, e
  <2>5. e2 \in Tx
    BY <2>1, <2>2, <2>3 DEF Tx
  <2> QED
    BY <2>1, <2>2, <2>3, <2>4, <2>5 DEF Tx
<1>3. tx' = [tx EXCEPT ![x] = e2]
  BY <1>0
<1> HIDE DEF e1, e2
<1>4. tx'[x] = e2 /\ \A y \in Executions \ {x} : tx'[y] = tx[y]
  BY <1>3 DEF TransferInv, TransferTypes
<1>5. TransferTypes'
  BY <1>0, <1>2, <1>3 DEF TransferInv, TransferTypes, Row
<1>6. ASSUME NEW y \in Executions \ {x}
      PROVE  Untouched(y)
  BY <1>0, <1>4, TxTyped DEF Untouched, TransferInv, TransferTypes, Row
<1>7. ASSUME NEW j \in e2.locked
      PROVE  holder'[j] = x /\ (e2.failed \/ ~Mixed(e.of, j))
  BY <1>0, <1>1, <1>2, <1>7 DEF InFlight, TransferInv, TransferTypes, Row
<1>8. InFlight(x)'
  <2>1. /\ e.of \in Transfers
        /\ e2.scope \subseteq DOMAIN invoice /\ e2.locked \subseteq e2.scope
        /\ \A j \in DOMAIN invoice \ late :
             \/ j \in e2.scope
             \/ invoice[j].lines \cap Wanted[e.of].services = {}
             \/ ~Covers(e.of, invoice[j].paid)
    BY <1>0, <1>1, <1>2 DEF InFlight
  <2> HIDE DEF e
  <2> QED
    BY <1>0, <1>2, <1>4, <1>7, <2>1 DEF InFlight, Mixed, Covers
<1>9. TxInv(x)'
  BY <1>2, <1>4, <1>8 DEF TxInv
<1> QED
  BY <1>0, <1>5, <1>6, <1>9, InvoicesKept, OwnStep

LEMMA EndPreflightInv ==
  ASSUME TransferInv, NEW x \in Executions, EndPreflight(x)
  PROVE  TransferInv'
<1>1. CASE Leave(x, "execution_blocked") \/ Leave(x, "approved")
  BY <1>1, LeaveInv DEF EndPreflight, TransferStates
<1>2. CASE ~tx[x].failed /\ tx' = [tx EXCEPT ![x].at = "moving"]
           /\ UNCHANGED <<tst, owner, invoice, holder>>
  <2> DEFINE e == tx[x]
             f == [e EXCEPT !.at = "moving"]
  <2>0. /\ e.at = "locking" /\ e.locked = e.scope
        /\ UNCHANGED <<tst, owner, invoice, holder, outside, late>>
    BY <1>2 DEF EndPreflight
  <2>1. e \in Tx /\ InFlight(x)
    BY <2>0, TxTyped DEF TxInv
  <2>2. /\ f \in Tx /\ f.at = "moving" /\ f.of = e.of /\ f.scope = e.scope
        /\ f.locked = e.locked /\ f.moved = e.moved /\ f.failed = e.failed
    BY <2>1 DEF Tx
  <2>3. tx' = [tx EXCEPT ![x] = f]
    BY <1>2
  <2> HIDE DEF f
  <2>4. tx'[x] = f /\ \A y \in Executions \ {x} : tx'[y] = tx[y]
    BY <2>3 DEF TransferInv, TransferTypes
  <2>5. TransferTypes'
    BY <2>0, <2>2, <2>3 DEF TransferInv, TransferTypes
  <2>6. ASSUME NEW y \in Executions \ {x}
        PROVE  Untouched(y)
    BY <2>0, <2>4 DEF Untouched
  <2>7. InFlight(x)'
    BY <2>0, <2>1, <2>2, <2>4 DEF InFlight, Mixed, Covers
  <2>8. TxInv(x)'
    BY <1>2, <2>0, <2>2, <2>4, <2>7 DEF TxInv
  <2> QED
    BY <2>0, <2>5, <2>6, <2>8, InvoicesKept, OwnStep
<1> QED
  BY <1>1, <1>2 DEF EndPreflight

LEMMA MoveServiceInv ==
  ASSUME TransferInv, NEW x \in Executions, NEW s \in Hosting, MoveService(x, s)
  PROVE  TransferInv'
<1> DEFINE e == tx[x]
           f == [e EXCEPT !.moved = @ \cup {s}]
<1>1. CASE Leave(x, "execution_blocked")
  BY <1>1, LeaveInv DEF MoveService, TransferStates
<1>2. CASE owner[s] = Of(x).source
  <2>0. /\ e.at = "moving" /\ s \in Wanted[e.of].services
        /\ owner[s] = Wanted[e.of].source
        /\ holder[s] = Free /\ holder' = [holder EXCEPT ![s] = x]
        /\ tx' = [tx EXCEPT ![x] = f]
        /\ UNCHANGED <<tst, owner, invoice, outside, late>>
    BY <1>2 DEF MoveService, Grabbed, Of
  <2>1. /\ e \in Tx /\ e.moved \subseteq Hosting /\ e.scope \subseteq Invoices
        /\ InFlight(x) /\ x # Free /\ e.locked = e.scope /\ ~e.failed
    BY <2>0, TxTyped DEF TxInv
  <2>2. /\ f \in Tx /\ f.at = "moving" /\ f.of = e.of /\ f.scope = e.scope
        /\ f.locked = e.locked /\ f.moved = e.moved \cup {s} /\ f.failed = e.failed
    BY <2>0, <2>1 DEF Tx
  <2> HIDE DEF f
  <2>3. tx'[x] = f /\ \A y \in Executions \ {x} : tx'[y] = tx[y]
    BY <2>0 DEF TransferInv, TransferTypes
  <2>4. TransferTypes'
    BY <2>0, <2>2 DEF TransferInv, TransferTypes, Row
  <2>5. ASSUME NEW y \in Executions \ {x}
        PROVE  Untouched(y)
    BY <2>0, <2>3, TxTyped DEF Untouched, TransferInv, TransferTypes, Row
  <2>6. \A r \in Row : holder[r] = x => holder'[r] = x
    BY <2>0 DEF TransferInv, TransferTypes, Row
  <2>7. holder'[s] = x
    BY <2>0 DEF TransferInv, TransferTypes, Row
  <2>8. InFlight(x)'
    <3>1. /\ e.of \in Transfers
          /\ f.scope \subseteq DOMAIN invoice /\ f.locked \subseteq f.scope
          /\ \A j \in f.locked : holder[j] = x /\ ~Mixed(e.of, j)
          /\ \A j \in DOMAIN invoice \ late :
               \/ j \in f.scope
               \/ invoice[j].lines \cap Wanted[e.of].services = {}
               \/ ~Covers(e.of, invoice[j].paid)
          /\ \A r \in e.moved :
               r \in Wanted[e.of].services /\ holder[r] = x /\ owner[r] = Wanted[e.of].source
      BY <2>1, <2>2 DEF InFlight
    <3> HIDE DEF e
    <3>2. \A j \in f.locked : holder'[j] = x
      BY <2>1, <2>2, <2>6, <3>1 DEF Row
    <3>3. \A r \in f.moved :
            r \in Wanted[e.of].services /\ holder'[r] = x /\ owner[r] = Wanted[e.of].source
      BY <2>0, <2>1, <2>2, <2>6, <2>7, <3>1 DEF Row
    <3> QED
      BY <2>0, <2>2, <2>3, <3>1, <3>2, <3>3 DEF InFlight, Mixed, Covers
  <2>9. TxInv(x)'
    BY <2>1, <2>2, <2>3, <2>8 DEF TxInv
  <2> QED
    BY <2>0, <2>4, <2>5, <2>9, InvoicesKept, OwnStep
<1> QED
  BY <1>1, <1>2 DEF MoveService

(* A commit finds its services where it left them, locked.                 *)
LEMMA CommitWhole ==
  ASSUME TransferInv, NEW x \in Executions, Commit(x)
  PROVE  /\ tx[x].of \in Transfers
         /\ tx[x].moved = Wanted[tx[x].of].services
         /\ \A s \in tx[x].moved :
              /\ s \in Hosting /\ holder[s] = x
              /\ owner[s] = Wanted[tx[x].of].source
              /\ owner'[s] = Wanted[tx[x].of].dest
         /\ \A s \in Hosting \ tx[x].moved : owner'[s] = owner[s]
         /\ \A i \in tx[x].scope : holder[i] = x /\ ~Mixed(tx[x].of, i)
<1>1. tx[x].at = "moving" /\ tx[x].moved = Wanted[tx[x].of].services
  BY DEF Commit, Of
<1>2. /\ InFlight(x) /\ tx[x].locked = tx[x].scope /\ ~tx[x].failed
      /\ tx[x].moved \subseteq Hosting
  BY <1>1, TxTyped DEF TxInv
<1>3. /\ tx[x].of \in Transfers
      /\ \A s \in tx[x].moved : s \in Hosting /\ holder[s] = x
                                /\ owner[s] = Wanted[tx[x].of].source
      /\ \A i \in tx[x].scope : holder[i] = x /\ ~Mixed(tx[x].of, i)
  BY <1>2 DEF InFlight
<1>4. /\ \A s \in tx[x].moved : owner'[s] = Wanted[tx[x].of].dest
      /\ \A s \in Hosting \ tx[x].moved : owner'[s] = owner[s]
  BY <1>3 DEF Commit, Committed, Of
<1> QED
  BY <1>1, <1>3, <1>4

LEMMA CommitInv ==
  ASSUME TransferInv, NEW x \in Executions, Commit(x)
  PROVE  TransferInv'
<1> DEFINE e == tx[x]
           f == [e EXCEPT !.at = "committed"]
           source == Wanted[e.of].source
           dest == Wanted[e.of].dest
<1>0. /\ e.at = "moving" /\ tx' = [tx EXCEPT ![x] = f] /\ holder' = Released(x)
      /\ owner' = [s \in Hosting |->
                     IF s \in e.moved /\ owner[s] = source THEN dest ELSE owner[s]]
      /\ invoice' = [i \in DOMAIN invoice |->
                       IF i \in e.scope /\ invoice[i].owner = source
                       THEN [invoice[i] EXCEPT !.owner = dest] ELSE invoice[i]]
      /\ UNCHANGED <<tst, outside, late>>
  BY DEF Commit, Committed, Of
<1>1. /\ e.of \in Transfers /\ e.moved = Wanted[e.of].services
      /\ \A s \in e.moved : s \in Hosting /\ holder[s] = x
                            /\ owner[s] = source /\ owner'[s] = dest
      /\ \A s \in Hosting \ e.moved : owner'[s] = owner[s]
      /\ \A i \in e.scope : holder[i] = x /\ ~Mixed(e.of, i)
  BY CommitWhole
<1>2. e \in Tx /\ InFlight(x) /\ source \in Clients /\ dest \in Clients
  BY <1>0, <1>1, TxTyped, WantedTyped DEF TxInv
<1>3. f \in Tx /\ f.at = "committed" /\ f.of = e.of
  BY <1>2 DEF Tx
<1>4. tx'[x] = f /\ \A y \in Executions \ {x} : tx'[y] = tx[y]
  BY <1>0 DEF TransferInv, TransferTypes
<1>5. ASSUME NEW i \in DOMAIN invoice
      PROVE  /\ invoice'[i] \in InvoiceRow
             /\ invoice'[i].lines = invoice[i].lines /\ invoice'[i].paid = invoice[i].paid
             /\ i \notin e.scope => invoice'[i] = invoice[i]
             /\ i \in e.scope => invoice'[i].owner = dest
  <2>1. invoice[i] \in InvoiceRow
    BY DEF TransferInv, TransferTypes
  <2>2. i \in e.scope => invoice[i].owner = source
    BY <1>1 DEF Mixed
  <2> QED
    BY <1>0, <1>2, <2>1, <2>2 DEF InvoiceRow
<1>6. DOMAIN invoice' = DOMAIN invoice
  BY <1>0
<1> HIDE DEF f
<1>7. TransferTypes'
  BY <1>0, <1>2, <1>3, <1>5, <1>6 DEF TransferInv, TransferTypes, Released
<1>8. ASSUME NEW y \in Executions \ {x}
      PROVE  Untouched(y)
  <2>1. \A r \in Row : holder[r] = y => holder'[r] = y
    BY <1>0 DEF Released
  <2>2. \A s \in Hosting : holder[s] = y => owner'[s] = owner[s]
    BY <1>1
  <2>3. \A i \in DOMAIN invoice : holder[i] = y => invoice'[i].owner = invoice[i].owner
    BY <1>1, <1>5
  <2> QED
    BY <1>0, <1>4, <1>5, <1>6, <2>1, <2>2, <2>3 DEF Untouched
<1>9. TxInv(x)'
  BY <1>1, <1>3, <1>4 DEF TxInv
<1>10. InvoicesFollow'
  <2> SUFFICES ASSUME NEW i \in DOMAIN invoice' \ late',
                      \A t \in Transfers : Covers(t, invoice'[i].paid),
                      NEW s \in invoice'[i].lines \ {"other"}
               PROVE  owner'[s] = invoice'[i].owner
    BY DEF InvoicesFollow, Covers
  <2>1. /\ i \in DOMAIN invoice \ late /\ s \in invoice[i].lines \ {"other"}
        /\ \A t \in Transfers : Covers(t, invoice[i].paid)
    BY <1>0, <1>5, <1>6
  <2>2. s \in Hosting
    BY <2>1 DEF TransferInv, TransferTypes, InvoiceRow, Lines
  <2>3. CASE i \in e.scope
    <3>1. s \in e.moved
      BY <1>1, <2>1, <2>3 DEF Mixed
    <3> QED
      BY <1>1, <1>5, <2>1, <2>3, <3>1
  <2>4. CASE i \notin e.scope
    <3>1. invoice[i].lines \cap Wanted[e.of].services = {}
      BY <1>1, <1>2, <2>1, <2>4 DEF InFlight
    <3>2. owner'[s] = owner[s] /\ invoice'[i] = invoice[i]
      BY <1>1, <1>5, <2>1, <2>2, <2>4, <3>1
    <3>3. owner[s] = invoice[i].owner
      BY <2>1 DEF TransferInv, InvoicesFollow, Covers
    <3> QED
      BY <3>2, <3>3
  <2> QED
    BY <2>3, <2>4
<1> QED
  BY <1>7, <1>8, <1>9, <1>10, OwnStep

LEMMA CommitAnsweredInv ==
  ASSUME TransferInv, NEW x \in Executions, CommitAnswered(x)
  PROVE  TransferInv'
<1>0. /\ tst' \in {tst, TransferMoved(tx[x].of, "executed")}
      /\ tx' = [tx EXCEPT ![x] = NoTx]
      /\ UNCHANGED <<owner, invoice, holder, outside, late>>
  BY DEF CommitAnswered
<1>1. TransferTypes'
  BY <1>0, MovedState, NoTxTyped DEF TransferInv, TransferTypes, TransferStates
<1>2. tx'[x] = NoTx /\ \A y \in Executions \ {x} : tx'[y] = tx[y]
  BY <1>0 DEF TransferInv, TransferTypes
<1>3. ASSUME NEW y \in Executions \ {x}
      PROVE  Untouched(y)
  BY <1>0, <1>2 DEF Untouched
<1>4. TxInv(x)'
  BY <1>2, NoTxTyped DEF TxInv
<1> QED
  BY <1>0, <1>1, <1>3, <1>4, InvoicesKept, OwnStep

LEMMA ReassignInv ==
  ASSUME TransferInv, NEW s \in Hosting, NEW to \in Clients, Reassign(s, to)
  PROVE  TransferInv'
<1> DEFINE own == {i \in DOMAIN invoice : s \in invoice[i].lines}
<1>0. /\ \A i \in own : invoice[i].lines = {s}
      /\ \A r \in {s} \cup own : holder[r] = Free
      /\ owner' = [owner EXCEPT ![s] = to]
      /\ invoice' = [i \in DOMAIN invoice |->
                       IF i \in own THEN [invoice[i] EXCEPT !.owner = to] ELSE invoice[i]]
      /\ UNCHANGED <<tst, holder, tx, late>> /\ outside' = outside + 1
  BY DEF Reassign, Others
<1>1. ASSUME NEW i \in DOMAIN invoice
      PROVE  /\ invoice'[i] \in InvoiceRow
             /\ invoice'[i].lines = invoice[i].lines /\ invoice'[i].paid = invoice[i].paid
             /\ i \notin own => invoice'[i] = invoice[i]
             /\ i \in own => invoice'[i].owner = to
  <2>1. invoice[i] \in InvoiceRow
    BY DEF TransferInv, TransferTypes
  <2> HIDE DEF own
  <2> QED
    BY <1>0, <2>1 DEF InvoiceRow
<1>2. DOMAIN invoice' = DOMAIN invoice
  BY <1>0
<1>3. owner'[s] = to /\ \A r \in Hosting \ {s} : owner'[r] = owner[r]
  BY <1>0 DEF TransferInv, TransferTypes
<1>4. TransferTypes'
  BY <1>0, <1>1, <1>2 DEF TransferInv, TransferTypes
<1>5. ASSUME NEW y \in Executions
      PROVE  Untouched(y)
  BY <1>0, <1>1, <1>2, <1>3, TxTyped DEF Untouched
<1>6. InvoicesFollow'
  <2> SUFFICES ASSUME NEW i \in DOMAIN invoice' \ late',
                      \A t \in Transfers : Covers(t, invoice'[i].paid),
                      NEW r \in invoice'[i].lines \ {"other"}
               PROVE  owner'[r] = invoice'[i].owner
    BY DEF InvoicesFollow, Covers
  <2>1. /\ i \in DOMAIN invoice \ late /\ r \in invoice[i].lines \ {"other"}
        /\ \A t \in Transfers : Covers(t, invoice[i].paid)
    BY <1>0, <1>1, <1>2
  <2>2. r \in Hosting
    BY <2>1 DEF TransferInv, TransferTypes, InvoiceRow, Lines
  <2>3. owner[r] = invoice[i].owner
    BY <2>1 DEF TransferInv, InvoicesFollow, Covers
  <2> QED
    BY <1>0, <1>1, <1>3, <2>1, <2>2, <2>3
<1> QED
  BY <1>4, <1>5, <1>6, OwnStep, UntouchedKept

LEMMA RaiseInv ==
  ASSUME TransferInv, NEW i \in Invoices, NEW lines \in Lines \ {{}}, Raise(i, lines)
  PROVE  TransferInv'
<1>1. PICK u \in Clients :
        /\ \A s \in lines \ {"other"} : owner[s] = u
        /\ invoice' = [j \in DOMAIN invoice \cup {i} |->
                         IF j = i THEN [owner |-> u, lines |-> lines, paid |-> FALSE]
                         ELSE invoice[j]]
  BY DEF Raise
<1>2. /\ i \notin DOMAIN invoice
      /\ late' = IF \E x \in Executions : tx[x].at \in {"locking", "moving"}
                 THEN late \cup {i} ELSE late
      /\ UNCHANGED <<tst, holder, tx, owner>> /\ outside' = outside + 1
  BY DEF Raise, Others
<1>3. /\ DOMAIN invoice' = DOMAIN invoice \cup {i}
      /\ \A j \in DOMAIN invoice : invoice'[j] = invoice[j]
      /\ invoice'[i] = [owner |-> u, lines |-> lines, paid |-> FALSE]
  BY <1>1, <1>2
<1>4. invoice'[i] \in InvoiceRow /\ invoice'[i].owner = u /\ invoice'[i].lines = lines
  BY <1>3 DEF InvoiceRow
<1>5. TransferTypes'
  <2>1. DOMAIN invoice' \subseteq Invoices /\ \A j \in DOMAIN invoice' : invoice'[j] \in InvoiceRow
    BY <1>3, <1>4 DEF TransferInv, TransferTypes
  <2>2. late' \subseteq Invoices
    BY <1>2 DEF TransferInv, TransferTypes
  <2> QED
    BY <1>2, <2>1, <2>2 DEF TransferInv, TransferTypes
<1>6. ASSUME NEW y \in Executions
      PROVE  Untouched(y)
  BY <1>2, <1>3 DEF Untouched
<1>7. InvoicesFollow'
  <2> SUFFICES ASSUME NEW j \in DOMAIN invoice' \ late',
                      \A t \in Transfers : Covers(t, invoice'[j].paid),
                      NEW s \in invoice'[j].lines \ {"other"}
               PROVE  owner'[s] = invoice'[j].owner
    BY DEF InvoicesFollow, Covers
  <2>1. CASE j = i
    BY <1>1, <1>2, <1>4, <2>1
  <2>2. CASE j # i
    <3>1. j \in DOMAIN invoice \ late /\ invoice'[j] = invoice[j]
      BY <1>2, <1>3, <2>2
    <3>2. owner[s] = invoice[j].owner
      BY <3>1 DEF TransferInv, InvoicesFollow, Covers
    <3> QED
      BY <1>2, <3>1, <3>2
  <2> QED
    BY <2>1, <2>2
<1> QED
  BY <1>5, <1>6, <1>7, OwnStep, UntouchedKept

LEMMA PayInv ==
  ASSUME TransferInv, NEW i \in Invoices, Pay(i)
  PROVE  TransferInv'
<1>0. /\ i \in DOMAIN invoice /\ holder[i] = Free
      /\ invoice' = [invoice EXCEPT ![i].paid = TRUE]
      /\ UNCHANGED <<tst, holder, tx, owner, late>> /\ outside' = outside + 1
  BY DEF Pay, Others
<1>1. ASSUME NEW j \in DOMAIN invoice
      PROVE  /\ invoice'[j] \in InvoiceRow
             /\ invoice'[j].lines = invoice[j].lines
             /\ invoice'[j].owner = invoice[j].owner
             /\ invoice[j].paid => invoice'[j].paid
  BY <1>0 DEF TransferInv, TransferTypes, InvoiceRow
<1>2. DOMAIN invoice' = DOMAIN invoice
  BY <1>0
<1>3. TransferTypes'
  <2>1. DOMAIN invoice' \subseteq Invoices /\ \A j \in DOMAIN invoice' : invoice'[j] \in InvoiceRow
    BY <1>1, <1>2 DEF TransferInv, TransferTypes
  <2>2. UNCHANGED <<tst, holder, tx, owner, late>> /\ outside' = outside + 1
    BY <1>0
  <2> QED
    BY <2>1, <2>2 DEF TransferInv, TransferTypes
<1>4. ASSUME NEW y \in Executions
      PROVE  Untouched(y)
  BY <1>0, <1>1, <1>2 DEF Untouched
<1>5. InvoicesFollow'
  <2> SUFFICES ASSUME NEW j \in DOMAIN invoice' \ late',
                      \A t \in Transfers : Covers(t, invoice'[j].paid),
                      NEW s \in invoice'[j].lines \ {"other"}
               PROVE  owner'[s] = invoice'[j].owner
    BY DEF InvoicesFollow, Covers
  <2>1. j \in DOMAIN invoice \ late /\ s \in invoice[j].lines \ {"other"}
    BY <1>0, <1>1, <1>2
  <2>2. \A t \in Transfers : Covers(t, invoice[j].paid)
    BY <1>1, <2>1 DEF Covers
  <2>3. owner[s] = invoice[j].owner
    BY <2>1, <2>2 DEF TransferInv, InvoicesFollow, Covers
  <2> QED
    BY <1>0, <1>1, <2>1, <2>3
<1> QED
  BY <1>3, <1>4, <1>5, OwnStep, UntouchedKept

LEMMA TransferStart == BooksAgree /\ TransferInit => TransferInv
<1> SUFFICES ASSUME BooksAgree, TransferInit
             PROVE  TransferInv
  OBVIOUS
<1>1. TransferTypes
  BY TransferAssumption, NoTxTyped
     DEF TransferAssumption, TransferInit, TransferTypes, TransferStates
<1>2. \A x \in Executions : TxInv(x)
  BY NoTxTyped DEF TransferInit, TxInv
<1>3. InvoicesFollow
  BY DEF BooksAgree, TransferInit, InvoicesFollow
<1> QED
  BY <1>1, <1>2, <1>3 DEF TransferInv

LEMMA TransferStep == TransferInv /\ [TransferNext]_transferVars => TransferInv'
<1> SUFFICES ASSUME TransferInv, [TransferNext]_transferVars
             PROVE  TransferInv'
  OBVIOUS
<1>1. ASSUME NEW x \in Executions,
             EndPreflight(x) \/ Commit(x) \/ CommitAnswered(x) \/ TransactionFails(x)
      PROVE  TransferInv'
  BY <1>1, EndPreflightInv, CommitInv, CommitAnsweredInv, LeaveInv
     DEF TransactionFails, TransferStates
<1>2. CASE UNCHANGED transferVars
  <2>1. UNCHANGED <<tst, owner, invoice, holder, tx, outside, late>>
    BY <1>2 DEF transferVars
  <2>2. TransferTypes' /\ InvoicesFollow'
    BY <2>1, InvoicesKept DEF TransferInv, TransferTypes
  <2>3. \A y \in Executions : Untouched(y)
    BY <2>1 DEF Untouched
  <2> QED
    BY <2>2, <2>3, OwnStep, UntouchedKept
<1> QED
  BY <1>1, <1>2, RefuseTransferInv, PreflightInv, LockInvoiceInv, MoveServiceInv,
     ReassignInv, RaiseInv, PayInv DEF TransferNext

(* The inductive invariant of the ownership transfer: every execution in   *)
(* flight holds the rows it has judged or moved, and has missed no invoice *)
(* it was to take along.                                                   *)
THEOREM TransferCorrect == BooksAgree /\ TransferSpec => []TransferInv
  BY TransferStart, TransferStep, PTL DEF TransferSpec

(* Invoices follow their services, whatever others do at the same time.    *)
THEOREM InvoicesDoFollow == BooksAgree /\ TransferSpec => []InvoicesFollow
<1>1. TransferInv => InvoicesFollow
  BY DEF TransferInv
<1> QED
  BY <1>1, TransferCorrect, PTL

(* A commit finds every service with the source and leaves all of them     *)
(* with the destination.                                                   *)
THEOREM TransfersCommitWhole == BooksAgree /\ TransferSpec => TransferWhole
<1>1. TransferInv /\ [TransferNext]_transferVars =>
        [\A x \in Executions :
           tx[x].at = "moving" /\ tx'[x].at = "committed" =>
             \A s \in Of(x).services : owner[s] = Of(x).source /\ owner'[s] = Of(x).dest]_transferVars
  <2> SUFFICES ASSUME TransferInv, TransferNext, NEW x \in Executions,
                      tx[x].at = "moving", tx'[x].at = "committed",
                      NEW s \in Of(x).services
               PROVE  owner[s] = Of(x).source /\ owner'[s] = Of(x).dest
    OBVIOUS
  <2>1. Commit(x)
    <3>1. tx[x] \in Tx /\ tx \in [Executions -> Tx]
      BY DEF TransferInv, TransferTypes
    <3>2. \A target : \A y \in Executions : Leave(y, target) => tx'[x].at # "committed"
      BY <3>1, NoTxTyped DEF Leave
    <3>3. \A t \in Transfers : ~RefuseTransfer(t)
      BY DEF RefuseTransfer
    <3>4. \A y \in Executions, t \in Transfers : ~Preflight(y, t)
      BY <3>1, NoTxTyped DEF Preflight
    <3>5. \A y \in Executions, i \in Invoices : ~LockInvoice(y, i)
      BY <3>1 DEF LockInvoice
    <3>6. \A y \in Executions, r \in Hosting : ~MoveService(y, r)
      BY <3>1, <3>2 DEF MoveService, Tx
    <3>7. \A y \in Executions :
            ~EndPreflight(y) /\ ~CommitAnswered(y) /\ ~TransactionFails(y)
      BY <3>1, <3>2, NoTxTyped DEF EndPreflight, CommitAnswered, TransactionFails, Tx
    <3>8. \A y \in Executions : Commit(y) => y = x
      BY <3>1 DEF Commit
    <3>9. /\ \A r \in Hosting, to \in Clients : ~Reassign(r, to)
          /\ \A i \in Invoices, lines \in Lines \ {{}} : ~Raise(i, lines)
          /\ \A i \in Invoices : ~Pay(i)
      BY DEF Reassign, Raise, Pay, Others
    <3> QED
      BY <3>3, <3>4, <3>5, <3>6, <3>7, <3>8, <3>9 DEF TransferNext
  <2> QED
    BY <2>1, CommitWhole DEF Of
<1>2. BooksAgree /\ TransferSpec => []TransferInv /\ [][TransferNext]_transferVars
  BY TransferCorrect DEF TransferSpec
<1> QED
  BY <1>1, <1>2, PTL DEF TransferWhole

-----------------------------------------------------------------------------
(* PriceRestore.                                                           *)

(* Of some numbers one is the least: their initial segments are ordered by *)
(* strict inclusion, which is well-founded on finite sets.                 *)
LEMMA LeastOf ==
  ASSUME NEW S \in SUBSET Nat, S # {}
  PROVE  Min(S) \in S
<1> DEFINE T == {0..n : n \in S}
           R == StrictSubsetOrdering(Nat)
<1>1. T \subseteq FiniteSubsetsOf(Nat) /\ T # {}
  <2>1. \A n \in S : 0..n \in SUBSET Nat /\ IsFiniteSet(0..n)
    BY FS_Interval
  <2> QED
    BY <2>1 DEF FiniteSubsetsOf
<1>2. IsWellFoundedOn(R, FiniteSubsetsOf(Nat))
  BY FS_StrictSubsetOrderingWellFounded
<1>3. \E x \in T : \A y \in T : ~(<<y, x>> \in R)
  <2> HIDE DEF T, R
  <2> QED
    BY <1>1, <1>2, WFMin
<1>4. PICK n \in S : \A m \in S : ~(<<0..m, 0..n>> \in R)
  BY <1>3
<1>5. ASSUME NEW m \in S, m < n
      PROVE  FALSE
  <2>1. 0..m \in SUBSET Nat /\ 0..n \in SUBSET Nat /\ 0..m \subseteq 0..n
    BY <1>5
  <2>2. n \in 0..n /\ n \notin 0..m
    BY <1>5
  <2>3. <<0..m, 0..n>> \in R
    BY <2>1, <2>2 DEF StrictSubsetOrdering
  <2> QED
    BY <1>4, <2>3
<1>6. \A m \in S : n <= m
  BY <1>5
<1> QED
  BY <1>6 DEF Min

RestoreStates == {"undrafted", "approved", "execution_blocked", "executed"}

Places == {"idle", "snapshot", "mutating", "applied", "verifying"}

RunRec ==
  [pc : Places, batch : Batches \cup {NoBatch}, k : Nat, snap : Seq(Nat),
   failed : BOOLEAN, day : Nat, applied : Nat]

(* Where a run stands among its targets, and which of them have a snapshot.*)
InStep(r) ==
  /\ r.pc # "idle" => r.batch \in Batches
  /\ r.pc = "snapshot" => r.k \in 1..Len(Asked[r.batch]) /\ Len(r.snap) = r.k - 1
  /\ r.pc \in {"mutating", "applied", "verifying"} =>
       r.k \in 1..Len(Asked[r.batch]) /\ Len(r.snap) = Len(Asked[r.batch])

RestoreTypes ==
  /\ bst \in [Batches -> RestoreStates]
  /\ bucket \in [Batches -> 0..MaxClock]
  /\ approvals \subseteq Batches
  /\ run \in [Runs -> RunRec]
  /\ done \in [TargetKeys -> Nat]
  /\ clock \in 0..MaxClock
  /\ tally \in Nat
  /\ price \in [Services -> Nat]
  /\ dead \subseteq Services
  /\ restarts \in Nat /\ edits \in Nat
  /\ handed \in [TargetKeys -> Seq(Nat)]
  /\ moved \in Nat

(* Every hand-over of a key lies a window before the expiry of the key, and*)
(* before the next.                                                        *)
HandedInv ==
  LedgerDurable \/ restarts = 0 =>
    \A e \in TargetKeys : \A n \in DOMAIN handed[e] :
      /\ handed[e][n] + DedupeWindow <= done[e]
      /\ \A m \in DOMAIN handed[e] :
           m < n => handed[e][m] + DedupeWindow <= handed[e][n]

RestoreInv ==
  /\ RestoreTypes
  /\ \A c \in Runs : InStep(run[c])
  /\ HandedInv

LEMMA AskedTyped ==
  ASSUME NEW b \in Batches
  PROVE  /\ Len(Asked[b]) \in Nat \ {0}
         /\ \A k \in 1..Len(Asked[b]) :
              /\ Asked[b][k] \in [svc : Services, new : Nat \ {0}, old : Nat \cup {AnyPrice}]
              /\ Asked[b][k].svc \in Services /\ Asked[b][k].new \in Nat
              /\ bucket \in [Batches -> 0..MaxClock] => TargetKey(b, k) \in TargetKeys
<1> DEFINE T == [svc : Services, new : Nat \ {0}, old : Nat \cup {AnyPrice}]
<1>1. Asked[b] \in Seq(T) /\ Asked[b] # <<>>
  BY RestoreAssumption DEF RestoreAssumption
<1>3. Len(Asked[b]) \in Nat \ {0} /\ \A k \in 1..Len(Asked[b]) : Asked[b][k] \in T
  <2> HIDE DEF T
  <2> QED
    BY <1>1
<1>4. \A x \in T : x.svc \in Services /\ x.new \in Nat
  OBVIOUS
<1>2. ASSUME bucket \in [Batches -> 0..MaxClock], NEW k \in 1..Len(Asked[b])
      PROVE  TargetKey(b, k) \in TargetKeys
  BY <1>2, <1>3, <1>4 DEF TargetKeys, TargetKey
<1> QED
  BY <1>2, <1>3, <1>4

LEMMA Differences == \A a, b \in Nat : Difference(a, b) \in Nat
  BY DEF Difference

LEMMA RestingInStep == Resting \in RunRec /\ InStep(Resting) /\ Resting.pc = "idle"
  BY DEF Resting, RunRec, Places, InStep

(* A field of a run may be set to any value of its type.                   *)
LEMMA RunFieldsSet ==
  /\ \A r \in RunRec, x \in Places : [r EXCEPT !.pc = x] \in RunRec
  /\ \A r \in RunRec, x \in Batches : [r EXCEPT !.batch = x] \in RunRec
  /\ \A r \in RunRec, x \in Nat : [r EXCEPT !.k = x] \in RunRec
  /\ \A r \in RunRec, x \in Seq(Nat) : [r EXCEPT !.snap = x] \in RunRec
  /\ \A r \in RunRec, x \in BOOLEAN : [r EXCEPT !.failed = x] \in RunRec
  /\ \A r \in RunRec, x \in Nat : [r EXCEPT !.day = x] \in RunRec
  /\ \A r \in RunRec, x \in Nat : [r EXCEPT !.applied = x] \in RunRec
  BY DEF RunRec

LEMMA RunTyped ==
  ASSUME RestoreInv, NEW c \in Runs
  PROVE  /\ run[c] \in RunRec /\ InStep(run[c])
         /\ run[c].snap \in Seq(Nat) /\ run[c].k \in Nat /\ run[c].day \in Nat
         /\ run[c].applied \in Nat /\ run[c].failed \in BOOLEAN /\ run[c].pc \in Places
         /\ run[c].batch \in Batches \cup {NoBatch}
  BY DEF RestoreInv, RestoreTypes, RunRec

(* The part of the invariant that the loop disturbs.                       *)
LoopInv ==
  /\ bst \in [Batches -> RestoreStates]
  /\ run \in [Runs -> RunRec]
  /\ done \in [TargetKeys -> Nat]
  /\ handed \in [TargetKeys -> Seq(Nat)]
  /\ \A c \in Runs : InStep(run[c])
  /\ HandedInv

LEMMA MovedBatch ==
  ASSUME RestoreInv, NEW b, NEW target \in RestoreStates
  PROVE  BatchMoved(b, target) \in [Batches -> RestoreStates]
  BY DEF RestoreInv, RestoreTypes, BatchMoved

LEMMA EndKeeps ==
  ASSUME RestoreInv, NEW c \in Runs, NEW target \in RestoreStates, End(c, target),
         UNCHANGED <<done, handed, restarts>>
  PROVE  LoopInv'
<1>1. bst' \in [Batches -> RestoreStates]
  BY MovedBatch DEF End
<1>2. run' \in [Runs -> RunRec] /\ \A d \in Runs : InStep(run'[d])
  BY RestingInStep DEF End, RestoreInv, RestoreTypes
<1>3. \A d \in Runs : InStep(run[d])'
  BY <1>2 DEF InStep
<1> QED
  BY <1>1, <1>2, <1>3 DEF LoopInv, RestoreInv, RestoreTypes, HandedInv, TargetKeys

LEMMA HandOverKeeps ==
  ASSUME RestoreInv, NEW c \in Runs, NEW r \in RunRec, r.batch \in Batches,
         Len(r.snap) = Len(Asked[r.batch]),
         NEW k \in 1..Len(Asked[r.batch]), ~SeenTarget(r.batch, k), HandOver(c, r, k),
         UNCHANGED restarts
  PROVE  LoopInv'
<1> DEFINE key == TargetKey(r.batch, k)
           r1 == [r EXCEPT !.pc = "mutating"]
           r2 == [r1 EXCEPT !.k = k]
<1>1. /\ done' = [done EXCEPT ![key] = clock + DedupeWindow]
      /\ handed' = [handed EXCEPT ![key] = Append(@, clock)]
      /\ run' = [run EXCEPT ![c] = [r EXCEPT !.pc = "mutating", !.k = k]]
      /\ UNCHANGED bst
  BY DEF HandOver
<1>2. key \in TargetKeys /\ done[key] <= clock
  <2>1. key \in TargetKeys
    BY AskedTyped DEF RestoreInv, RestoreTypes
  <2>2. done[key] \in Nat /\ clock \in Nat
    BY <2>1, RestoreAssumption DEF RestoreInv, RestoreTypes, RestoreAssumption
  <2> QED
    BY <2>1, <2>2 DEF SeenTarget
<1>3. r1 \in RunRec /\ r2 \in RunRec
  <2>1. k \in Nat
    BY AskedTyped
  <2>2. r1 \in RunRec
    BY RunFieldsSet DEF Places
  <2> HIDE DEF r1
  <2> QED
    BY <2>1, <2>2, RunFieldsSet
<1>4. [r EXCEPT !.pc = "mutating", !.k = k] = r2
  OBVIOUS
<1>5. r2.pc = "mutating" /\ r2.k = k /\ r2.batch = r.batch /\ r2.snap = r.snap
  BY DEF RunRec
<1> HIDE DEF r1, r2
<1>6. InStep(r2)
  BY <1>5 DEF InStep
<1>7. run' \in [Runs -> RunRec] /\ \A d \in Runs : InStep(run'[d])
  BY <1>1, <1>3, <1>4, <1>6 DEF RestoreInv, RestoreTypes
<1>8. \A d \in Runs : InStep(run[d])'
  BY <1>7 DEF InStep
<1> HIDE DEF key
<1>9. /\ clock \in Nat /\ DedupeWindow \in Nat /\ clock + DedupeWindow \in Nat
      /\ handed[key] \in Seq(Nat) /\ done[key] \in Nat
  <2>1. clock \in Nat /\ handed \in [TargetKeys -> Seq(Nat)] /\ done \in [TargetKeys -> Nat]
    <3>1. clock \in 0..MaxClock /\ MaxClock \in Nat
      BY RestoreAssumption DEF RestoreInv, RestoreTypes, RestoreAssumption
    <3>2. handed \in [TargetKeys -> Seq(Nat)] /\ done \in [TargetKeys -> Nat]
      BY DEF RestoreInv, RestoreTypes
    <3> QED
      BY <3>1, <3>2
  <2>2. DedupeWindow \in Nat
    BY RestoreAssumption DEF RestoreAssumption
  <2>3. clock + DedupeWindow \in Nat
    BY <2>1, <2>2
  <2> QED
    BY <1>2, <2>1, <2>2, <2>3
<1>10. handed' \in [TargetKeys -> Seq(Nat)] /\ done' \in [TargetKeys -> Nat]
  <2>1. Append(handed[key], clock) \in Seq(Nat)
    BY <1>9
  <2> QED
    BY <1>1, <1>2, <1>9, <2>1 DEF RestoreInv, RestoreTypes
<1>11. HandedInv'
  <2> SUFFICES ASSUME LedgerDurable \/ restarts = 0,
                      NEW e \in TargetKeys, NEW n \in DOMAIN handed'[e]
               PROVE  /\ handed'[e][n] + DedupeWindow <= done'[e]
                      /\ \A m \in DOMAIN handed'[e] :
                           m < n => handed'[e][m] + DedupeWindow <= handed'[e][n]
    BY DEF HandedInv, TargetKeys
  <2>1. \A x \in TargetKeys : \A i \in DOMAIN handed[x] :
          /\ handed[x][i] + DedupeWindow <= done[x]
          /\ \A j \in DOMAIN handed[x] :
               j < i => handed[x][j] + DedupeWindow <= handed[x][i]
    BY DEF RestoreInv, HandedInv
  <2>2. CASE e # key
    BY <1>1, <2>1, <2>2 DEF RestoreInv, RestoreTypes
  <2>3. CASE e = key
    <3> DEFINE h == handed[key]
               h1 == Append(h, clock)
    <3>1. handed'[e] = h1 /\ done'[e] = clock + DedupeWindow
      BY <1>1, <1>2, <2>3 DEF RestoreInv, RestoreTypes
    <3>2. /\ h \in Seq(Nat)
          /\ \A i \in DOMAIN h : h[i] + DedupeWindow <= done[key]
          /\ \A i, j \in DOMAIN h : j < i => h[j] + DedupeWindow <= h[i]
      BY <1>2, <1>9, <2>1
    <3> HIDE DEF h
    <3>3. \A i \in DOMAIN h : h[i] \in Nat /\ h[i] + DedupeWindow <= clock
      BY <1>2, <1>9, <3>2
    <3>4. /\ DOMAIN h1 = 1..(Len(h) + 1) /\ h1[Len(h) + 1] = clock /\ Len(h) \in Nat
          /\ DOMAIN h = 1..Len(h) /\ \A i \in DOMAIN h : h1[i] = h[i]
      BY <1>9, <3>2
    <3> HIDE DEF h1
    <3>5. n \in DOMAIN h1
      BY <3>1
    <3>6. CASE n = Len(h) + 1
      <4>1. \A m \in DOMAIN h1 : m < n => m \in DOMAIN h
        BY <3>4, <3>6
      <4> QED
        BY <1>9, <3>1, <3>3, <3>4, <3>6, <4>1
    <3>7. CASE n # Len(h) + 1
      <4>1. n \in DOMAIN h /\ \A m \in DOMAIN h1 : m < n => m \in DOMAIN h
        BY <3>4, <3>5, <3>7
      <4>2. h[n] + DedupeWindow <= clock + DedupeWindow
        BY <1>9, <3>3, <4>1
      <4> QED
        BY <3>1, <3>2, <3>4, <4>1, <4>2
    <3> QED
      BY <3>6, <3>7
  <2> QED
    BY <2>2, <2>3
<1> QED
  BY <1>1, <1>7, <1>8, <1>10, <1>11 DEF LoopInv, RestoreInv, RestoreTypes, TargetKeys

(* The loop ends the run, or hands over the first target that is not yet   *)
(* recorded.                                                               *)
LEMMA ContinueKeeps ==
  ASSUME RestoreInv, NEW c \in Runs, NEW r \in RunRec, r.batch \in Batches,
         Len(r.snap) = Len(Asked[r.batch]), NEW from \in Nat \ {0}, Continue(c, r, from),
         UNCHANGED restarts
  PROVE  LoopInv'
<1> DEFINE todo == {k \in from..Len(Asked[r.batch]) : ~SeenTarget(r.batch, k)}
           delta == Difference(Asked[r.batch][Min(todo)].new, r.snap[Min(todo)])
<1>1. \/ Finish(c) \/ Halt(c)
      \/ todo # {} /\ HandOver(c, r, Min(todo))
  BY DEF Continue
<1>2. CASE Finish(c) \/ Halt(c)
  BY <1>2, EndKeeps DEF Finish, Halt, RestoreStates
<1>3. CASE todo # {} /\ HandOver(c, r, Min(todo))
  <2>1. todo \in SUBSET Nat
    OBVIOUS
  <2>2. Min(todo) \in todo
    <3> HIDE DEF todo
    <3> QED
      BY <1>3, <2>1, LeastOf
  <2>3. Min(todo) \in 1..Len(Asked[r.batch]) /\ ~SeenTarget(r.batch, Min(todo))
    <3>1. \A m \in todo : m \in 1..Len(Asked[r.batch]) /\ ~SeenTarget(r.batch, m)
      BY AskedTyped
    <3> HIDE DEF todo
    <3> QED
      BY <2>2, <3>1
  <2> HIDE DEF todo
  <2> QED
    BY <1>3, <2>3, HandOverKeeps
<1> QED
  BY <1>1, <1>2, <1>3

LEMMA Whole ==
  ASSUME RestoreInv, LoopInv', bucket' \in [Batches -> 0..MaxClock],
         approvals' \subseteq Batches, tally' \in Nat, clock' \in 0..MaxClock,
         price' \in [Services -> Nat], dead' \subseteq Services, restarts' \in Nat,
         edits' \in Nat, moved' \in Nat
  PROVE  RestoreInv'
  BY DEF LoopInv, RestoreInv, RestoreTypes

LEMMA RestTyped ==
  ASSUME RestoreInv
  PROVE  /\ bucket \in [Batches -> 0..MaxClock] /\ clock \in 0..MaxClock
         /\ approvals \subseteq Batches /\ tally \in Nat /\ price \in [Services -> Nat]
         /\ dead \subseteq Services /\ restarts \in Nat /\ edits \in Nat /\ moved \in Nat
         /\ LoopInv
  BY DEF LoopInv, RestoreInv, RestoreTypes

LEMMA OneRunKeeps ==
  ASSUME RestoreInv, NEW c \in Runs, NEW r \in RunRec, InStep(r),
         run' = [run EXCEPT ![c] = r], UNCHANGED <<bst, done, handed, restarts>>
  PROVE  LoopInv'
<1>1. run' \in [Runs -> RunRec] /\ \A d \in Runs : InStep(run'[d])
  BY DEF RestoreInv, RestoreTypes
<1>2. \A d \in Runs : InStep(run[d])'
  BY <1>1 DEF InStep
<1> QED
  BY <1>1, <1>2 DEF LoopInv, RestoreInv, RestoreTypes, HandedInv, TargetKeys

LEMMA BatchStateKeeps ==
  ASSUME RestoreInv, NEW b \in Batches, NEW target \in RestoreStates,
         bst' = [bst EXCEPT ![b] = target], UNCHANGED <<run, done, handed, restarts>>
  PROVE  LoopInv'
<1>1. \A d \in Runs : InStep(run[d])'
  BY DEF InStep, RestoreInv
<1> QED
  BY <1>1 DEF LoopInv, RestoreInv, RestoreTypes, HandedInv, TargetKeys

LEMMA PrepareInv ==
  ASSUME RestoreInv, NEW b \in Batches, Prepare(b) \/ RefuseRestore(b)
  PROVE  RestoreInv'
<1>1. LoopInv'
  BY BatchStateKeeps DEF Prepare, RefuseRestore, RestoreStates
<1>2. bucket' \in [Batches -> 0..MaxClock]
  <2>1. CASE Prepare(b)
    <3>1. PICK n \in 0..clock : bucket' = [bucket EXCEPT ![b] = n]
      BY <2>1 DEF Prepare
    <3>3. n \in 0..MaxClock
      BY <3>1, RestTyped, RestoreAssumption DEF RestoreAssumption
    <3> QED
      BY <3>1, <3>3, RestTyped
  <2>2. CASE RefuseRestore(b)
    BY <2>2, RestTyped DEF RefuseRestore
  <2> QED
    BY <2>1, <2>2
<1> QED
  BY <1>1, <1>2, RestTyped, Whole DEF Prepare, RefuseRestore

LEMMA BeginRestoreInv ==
  ASSUME RestoreInv, NEW c \in Runs, NEW b \in Batches, BeginRestore(c, b)
  PROVE  RestoreInv'
<1> DEFINE r == [Resting EXCEPT !.pc = "snapshot", !.batch = b, !.k = 1]
<1>1. r.pc = "snapshot" /\ r.batch = b /\ r.k = 1 /\ r.snap = <<>>
  BY DEF Resting
<1>2. r \in RunRec
  <2> DEFINE r1 == [Resting EXCEPT !.pc = "snapshot"]
             r2 == [r1 EXCEPT !.batch = b]
  <2>1. r1 \in RunRec
    BY RestingInStep, RunFieldsSet DEF Places
  <2>2. r = [r2 EXCEPT !.k = 1]
    OBVIOUS
  <2> HIDE DEF r1, r
  <2>3. r2 \in RunRec
    BY <2>1, RunFieldsSet
  <2> HIDE DEF r2
  <2> QED
    BY <2>2, <2>3, RunFieldsSet
<1>3. run' = [run EXCEPT ![c] = r] /\ UNCHANGED <<bst, done, handed, restarts>>
  BY DEF BeginRestore
<1> HIDE DEF r
<1>4. InStep(r)
  BY <1>1, AskedTyped DEF InStep
<1>5. LoopInv'
  BY <1>2, <1>3, <1>4, OneRunKeeps
<1> QED
  BY <1>5, RestTyped, Whole DEF BeginRestore

(* What a read of phase 1 leaves of the run, whether it succeeds or fails. *)
AfterRead(c, next) ==
  LET r == next[c] IN
  /\ next = [run EXCEPT ![c] = r]
  /\ r \in RunRec /\ r.pc = "snapshot" /\ r.batch = run[c].batch
  /\ r.k = run[c].k + 1 /\ Len(r.snap) = run[c].k

(* It has the price of the target, or has failed.                          *)
ReadKept(c, hit, r) ==
  /\ r.snap = Append(run[c].snap, IF hit THEN price[Target(c, run[c].k).svc] ELSE 0)
  /\ ~r.failed => hit /\ ~run[c].failed

LEMMA ReadTaken ==
  ASSUME RestoreInv, NEW c \in Runs, run[c].pc = "snapshot", NEW hit \in BOOLEAN, NEW next,
         next = IF hit THEN Taken(c, price[Target(c, run[c].k).svc])
                ELSE [run EXCEPT ![c].failed = TRUE, ![c].k = @ + 1, ![c].snap = Append(@, 0)]
  PROVE  AfterRead(c, next) /\ ReadKept(c, hit, next[c])
<1> DEFINE e == run[c]
           t == Target(c, e.k)
           expected == t.old \in {AnyPrice, price[t.svc]} \/ SeenTarget(e.batch, e.k)
           current == IF hit THEN price[t.svc] ELSE 0
           failed == IF hit THEN e.failed \/ ~expected ELSE TRUE
           e1 == [e EXCEPT !.snap = Append(@, current)]
           e2 == [e1 EXCEPT !.failed = failed]
           e3 == [e2 EXCEPT !.k = @ + 1]
<1>1. /\ e \in RunRec /\ e.batch \in Batches /\ e.k \in 1..Len(Asked[e.batch])
      /\ Len(e.snap) = e.k - 1 /\ e.snap \in Seq(Nat) /\ e.k \in Nat /\ e.failed \in BOOLEAN
  BY RunTyped DEF InStep
<1>2. current \in Nat /\ failed \in BOOLEAN
  <2>1. t.svc \in Services
    BY <1>1, AskedTyped DEF Target
  <2>2. price[t.svc] \in Nat
    BY <2>1, RestTyped
  <2> QED
    BY <1>1, <2>2
<1>3. next = [run EXCEPT ![c] = e3]
  BY ZenonT(60) DEF Taken
<1>4. ~failed => hit /\ ~e.failed
  BY <1>1
<1> HIDE DEF current, failed
<1>5. Append(e.snap, current) \in Seq(Nat) /\ Len(Append(e.snap, current)) = e.k
  BY <1>1, <1>2
<1>6. e1 \in RunRec /\ e1.pc = e.pc /\ e1.batch = e.batch /\ e1.k = e.k /\ Len(e1.snap) = e.k
      /\ e1.snap = Append(e.snap, current)
  <2>1. e1 \in RunRec
    BY <1>1, <1>5, RunFieldsSet
  <2> QED
    BY <1>1, <1>5, <2>1 DEF RunRec
<1> HIDE DEF e1
<1>7. e2 \in RunRec /\ e2.pc = e.pc /\ e2.batch = e.batch /\ e2.k = e.k /\ Len(e2.snap) = e.k
      /\ e2.snap = e1.snap /\ e2.failed = failed
  <2>1. e2 \in RunRec
    BY <1>2, <1>6, RunFieldsSet
  <2> QED
    BY <1>6, <2>1 DEF RunRec
<1> HIDE DEF e2
<1>8. e3 \in RunRec /\ e3.pc = e.pc /\ e3.batch = e.batch /\ e3.k = e.k + 1 /\ Len(e3.snap) = e.k
      /\ e3.snap = Append(e.snap, current) /\ e3.failed = failed
  <2>1. e2.k + 1 \in Nat
    BY <1>1, <1>7
  <2>2. e3 \in RunRec
    BY <1>7, <2>1, RunFieldsSet
  <2> QED
    BY <1>6, <1>7, <2>2 DEF RunRec
<1> HIDE DEF e3
<1>9. next[c] = e3
  BY <1>3 DEF RestoreInv, RestoreTypes
<1>10. AfterRead(c, next)
  BY <1>3, <1>8, <1>9 DEF AfterRead
<1>11. ReadKept(c, hit, next[c])
  <2>1. e3.snap = Append(e.snap, IF hit THEN price[t.svc] ELSE 0)
    BY <1>8 DEF current
  <2>2. ~e3.failed => hit /\ ~e.failed
    BY <1>4, <1>8
  <2> QED
    BY <1>9, <2>1, <2>2 DEF ReadKept
<1> QED
  BY <1>10, <1>11

LEMMA SnapshotInv ==
  ASSUME RestoreInv, NEW c \in Runs, Snapshot(c)
  PROVE  RestoreInv'
<1> DEFINE t == Target(c, run[c].k)
           ok == t.svc \notin dead
<1>1. PICK read \in BOOLEAN :
        LET next == IF read /\ ok THEN Taken(c, price[t.svc])
                    ELSE [run EXCEPT ![c].failed = TRUE, ![c].k = @ + 1,
                                     ![c].snap = Append(@, 0)]
            r == next[c]
        IN IF r.k <= Last(c)
           THEN run' = next /\ UNCHANGED <<bst, done, handed>>
           ELSE \/ r.failed /\ Halt(c)
                \/ /\ ~r.failed /\ run[c].batch \in DryRun
                   /\ run' = [run EXCEPT ![c] = Resting]
                   /\ UNCHANGED <<bst, done, handed>>
                \/ /\ ~r.failed /\ run[c].batch \notin DryRun
                   /\ Continue(c, [r EXCEPT !.day = tally], 1)
  BY DEF Snapshot
<1>2. /\ run[c].pc = "snapshot"
      /\ UNCHANGED <<bucket, approvals, tally, clock, price, dead, restarts, edits,
                     moved>>
  BY DEF Snapshot
<1>3. run[c].batch \in Batches /\ run[c].k \in 1..Last(c) /\ Last(c) \in Nat \ {0}
  BY <1>2, RunTyped, AskedTyped DEF InStep, Last
<1> DEFINE next == IF read /\ ok THEN Taken(c, price[t.svc])
                   ELSE [run EXCEPT ![c].failed = TRUE, ![c].k = @ + 1,
                                    ![c].snap = Append(@, 0)]
           r == next[c]
<1>4. /\ next = [run EXCEPT ![c] = r]
      /\ r \in RunRec /\ r.pc = "snapshot" /\ r.batch = run[c].batch
      /\ r.k = run[c].k + 1 /\ Len(r.snap) = run[c].k
  <2>1. (read /\ ok) \in BOOLEAN
    OBVIOUS
  <2>2. AfterRead(c, next)
    BY <1>2, <2>1, ReadTaken
  <2> HIDE DEF next
  <2> QED
    BY <2>2 DEF AfterRead
<1>5. \/ r.k <= Last(c) /\ run' = next /\ UNCHANGED <<bst, done, handed>>
      \/ Halt(c)
      \/ run' = [run EXCEPT ![c] = Resting] /\ UNCHANGED <<bst, done, handed>>
      \/ ~(r.k <= Last(c)) /\ Continue(c, [r EXCEPT !.day = tally], 1)
  BY <1>1
<1> HIDE DEF next
<1>6. CASE r.k <= Last(c) /\ run' = next /\ UNCHANGED <<bst, done, handed>>
  <2>1. InStep(r)
    BY <1>3, <1>4, <1>6 DEF InStep, Last
  <2>2. LoopInv'
    BY <1>2, <1>4, <1>6, <2>1, OneRunKeeps
  <2> QED
    BY <1>2, <2>2, RestTyped, Whole
<1>7. CASE Halt(c)
  <2>1. LoopInv'
    BY <1>2, <1>7, EndKeeps DEF Halt, RestoreStates
  <2> QED
    BY <1>2, <2>1, RestTyped, Whole
<1>8. CASE run' = [run EXCEPT ![c] = Resting] /\ UNCHANGED <<bst, done, handed>>
  <2>1. LoopInv'
    BY <1>2, <1>8, RestingInStep, OneRunKeeps
  <2> QED
    BY <1>2, <2>1, RestTyped, Whole
<1>9. CASE ~(r.k <= Last(c)) /\ Continue(c, [r EXCEPT !.day = tally], 1)
  <2> DEFINE s == [r EXCEPT !.day = tally]
  <2>0. Continue(c, s, 1) /\ 1 \in Nat \ {0}
    BY <1>9
  <2>1. s \in RunRec
    BY <1>4, RestTyped, RunFieldsSet
  <2>2. s.batch = run[c].batch /\ s.snap = r.snap
    BY <1>4 DEF RunRec
  <2>3. Len(s.snap) = Len(Asked[s.batch])
    BY <1>3, <1>4, <1>9, <2>2 DEF Last
  <2> HIDE DEF s
  <2>4. LoopInv'
    BY <1>2, <1>3, <2>0, <2>1, <2>2, <2>3, ContinueKeeps
  <2> QED
    BY <1>2, <2>4, RestTyped, Whole
<1> QED
  BY <1>5, <1>6, <1>7, <1>8, <1>9

LEMMA AppliedInv ==
  ASSUME RestoreInv, NEW c \in Runs, Applied(c)
  PROVE  RestoreInv'
<1> DEFINE e == run[c]
           t == Target(c, e.k)
           delta == Difference(t.new, price[t.svc])
           e1 == [e EXCEPT !.pc = "applied"]
           e2 == [e1 EXCEPT !.applied = delta]
<1>1. /\ e.pc = "mutating"
      /\ price' = [price EXCEPT ![t.svc] = t.new]
      /\ run' = [run EXCEPT ![c] = e2]
      /\ UNCHANGED <<bst, bucket, approvals, done, tally, clock, dead, restarts, edits,
                     handed, moved>>
  BY DEF Applied
<1>2. e \in RunRec /\ InStep(e) /\ t.svc \in Services /\ t.new \in Nat
  BY <1>1, RunTyped, AskedTyped DEF InStep, Target
<1>3. delta \in Nat /\ price' \in [Services -> Nat]
  BY <1>1, <1>2, RestTyped, Differences
<1> HIDE DEF t, delta
<1>4. e1 \in RunRec /\ e1.pc = "applied" /\ e1.batch = e.batch /\ e1.k = e.k /\ e1.snap = e.snap
  <2>1. e1 \in RunRec
    BY <1>2, RunFieldsSet DEF Places
  <2> QED
    BY <1>2, <2>1 DEF RunRec
<1> HIDE DEF e1
<1>5. e2 \in RunRec /\ e2.pc = "applied" /\ e2.batch = e.batch /\ e2.k = e.k /\ e2.snap = e.snap
  <2>1. e2 \in RunRec
    BY <1>3, <1>4, RunFieldsSet
  <2> QED
    BY <1>4, <2>1 DEF RunRec
<1> HIDE DEF e2
<1>6. InStep(e2)
  BY <1>1, <1>2, <1>5 DEF InStep
<1>7. LoopInv'
  BY <1>1, <1>5, <1>6, OneRunKeeps
<1> QED
  BY <1>1, <1>3, <1>7, RestTyped, Whole

LEMMA MutationFailsInv ==
  ASSUME RestoreInv, NEW c \in Runs, MutationFails(c)
  PROVE  RestoreInv'
<1>1. LoopInv'
  BY EndKeeps DEF MutationFails, RestoreStates
<1> QED
  BY <1>1, RestTyped, Whole DEF MutationFails

LEMMA MutationAnsweredInv ==
  ASSUME RestoreInv, NEW c \in Runs, MutationAnswered(c)
  PROVE  RestoreInv'
<1> DEFINE e == run[c]
           e1 == [e EXCEPT !.pc = "verifying"]
<1>1. /\ e.pc = "applied" /\ run' = [run EXCEPT ![c] = e1] /\ moved' = moved + e.applied
      /\ UNCHANGED <<bst, bucket, approvals, done, tally, clock, price, dead, restarts,
                     edits, handed>>
  BY DEF MutationAnswered
<1>2. e \in RunRec /\ InStep(e) /\ moved' \in Nat
  BY <1>1, RunTyped, RestTyped
<1>3. e1 \in RunRec /\ e1.pc = "verifying" /\ e1.batch = e.batch /\ e1.k = e.k /\ e1.snap = e.snap
  <2>1. e1 \in RunRec
    BY <1>2, RunFieldsSet DEF Places
  <2> QED
    BY <1>2, <2>1 DEF RunRec
<1> HIDE DEF e1
<1>4. InStep(e1)
  BY <1>1, <1>2, <1>3 DEF InStep
<1>5. LoopInv'
  BY <1>1, <1>3, <1>4, OneRunKeeps
<1> QED
  BY <1>1, <1>2, <1>5, RestTyped, Whole

LEMMA VerifyReadInv ==
  ASSUME RestoreInv, NEW c \in Runs, VerifyRead(c)
  PROVE  RestoreInv'
<1> DEFINE e == run[c]
           delta == Delta(c, e.k)
           e1 == [e EXCEPT !.day = @ + delta]
           e2 == [e1 EXCEPT !.applied = 0]
<1>1. /\ e.pc = "verifying" /\ tally' = tally + delta
      /\ Continue(c, e2, e.k + 1)
      /\ UNCHANGED <<bucket, approvals, clock, price, dead, restarts, edits, moved>>
  BY DEF VerifyRead, Added
<1>2. /\ e \in RunRec /\ InStep(e) /\ e.batch \in Batches
      /\ e.k \in 1..Len(Asked[e.batch]) /\ e.k \in Nat /\ Len(e.snap) = Len(Asked[e.batch])
      /\ e.snap \in Seq(Nat) /\ e.day \in Nat
  BY <1>1, RunTyped DEF InStep
<1>3. delta \in Nat
  <2>1. e.snap[e.k] \in Nat
    BY <1>2
  <2>2. Target(c, e.k).new \in Nat
    BY <1>2, AskedTyped DEF Target
  <2> QED
    BY <2>1, <2>2, Differences DEF Delta
<1> HIDE DEF delta
<1>4. e1 \in RunRec /\ e1.batch = e.batch /\ e1.snap = e.snap
  <2>1. e.day + delta \in Nat
    BY <1>2, <1>3
  <2>2. e1 \in RunRec
    BY <1>2, <2>1, RunFieldsSet
  <2> QED
    BY <1>2, <2>2 DEF RunRec
<1> HIDE DEF e1
<1>5. e2 \in RunRec /\ e2.batch = e.batch /\ e2.snap = e.snap
  <2>1. e2 \in RunRec
    BY <1>4, RunFieldsSet
  <2> QED
    BY <1>4, <2>1 DEF RunRec
<1> HIDE DEF e2
<1>6. e.k + 1 \in Nat \ {0} /\ tally' \in Nat
  <2> DEFINE old == tally
             new == tally'
  <2>1. old \in Nat /\ new = old + delta
    BY <1>1, RestTyped
  <2> HIDE DEF old, new
  <2>2. new \in Nat
    BY <1>3, <2>1
  <2>3. e.k + 1 \in Nat \ {0}
    BY <1>2
  <2> QED
    BY <2>2, <2>3 DEF new
<1>7. LoopInv'
  BY <1>1, <1>2, <1>5, <1>6, ContinueKeeps
<1> QED
  BY <1>1, <1>6, <1>7, RestTyped, Whole

LEMMA OutsideInv ==
  ASSUME RestoreInv, CrashRestore \/ PassTime \/ \E s \in Services : Reprice(s)
  PROVE  RestoreInv'
<1>1. CASE CrashRestore
  <2>1. run' \in [Runs -> RunRec] /\ \A d \in Runs : InStep(run'[d])
    BY <1>1, RestingInStep DEF CrashRestore
  <2>2. \A d \in Runs : InStep(run[d])'
    BY <2>1 DEF InStep
  <2>3. restarts' = restarts + 1 /\ restarts \in Nat /\ handed' = handed
    BY <1>1, RestTyped DEF CrashRestore
  <2>4. done' \in [TargetKeys -> Nat] /\ (LedgerDurable => done' = done)
    BY <1>1 DEF CrashRestore, Unkeyed, RestoreInv, RestoreTypes
  <2>5. HandedInv'
    BY <2>3, <2>4 DEF RestoreInv, HandedInv, TargetKeys
  <2>6. LoopInv'
    BY <1>1, <2>1, <2>2, <2>3, <2>4, <2>5
       DEF CrashRestore, LoopInv, RestoreInv, RestoreTypes, TargetKeys
  <2>7. tally' \in Nat
    BY <1>1, RestTyped DEF CrashRestore
  <2> QED
    BY <1>1, <2>3, <2>6, <2>7, RestTyped, Whole DEF CrashRestore
<1>2. ASSUME NEW s \in Services, Reprice(s)
      PROVE  RestoreInv'
  <2>1. \A d \in Runs : InStep(run[d])'
    BY <1>2 DEF InStep, RestoreInv, Reprice
  <2>2. LoopInv'
    BY <1>2, <2>1 DEF Reprice, LoopInv, RestoreInv, RestoreTypes, HandedInv, TargetKeys
  <2>3. price' \in [Services -> Nat] /\ dead' \subseteq Services /\ edits' \in Nat
    BY <1>2, RestTyped DEF Reprice
  <2> QED
    BY <1>2, <2>2, <2>3, RestTyped, Whole DEF Reprice
<1>3. CASE PassTime
  <2>1. \A d \in Runs : InStep(run[d])'
    BY <1>3 DEF InStep, RestoreInv, PassTime
  <2>2. LoopInv'
    BY <1>3, <2>1 DEF PassTime, LoopInv, RestoreInv, RestoreTypes, HandedInv, TargetKeys
  <2>3. clock' \in 0..MaxClock
    BY <1>3, RestTyped, RestoreAssumption DEF PassTime, RestoreAssumption
  <2> QED
    BY <1>3, <2>2, <2>3, RestTyped, Whole DEF PassTime
<1> QED
  BY <1>1, <1>2, <1>3

LEMMA RestoreStart == RestoreInit => RestoreInv
<1> SUFFICES ASSUME RestoreInit
             PROVE  RestoreInv
  OBVIOUS
<1>1. /\ handed \in [TargetKeys -> Seq(Nat)] /\ done \in [TargetKeys -> Nat]
      /\ \A e \in TargetKeys : DOMAIN handed[e] = {}
  <2> DEFINE T == TargetKeys
  <2>1. handed = [e \in T |-> <<>>] /\ done = [e \in T |-> 0]
    BY DEF RestoreInit, Unkeyed
  <2> HIDE DEF T
  <2>2. <<>> \in Seq(Nat) /\ DOMAIN <<>> = {}
    OBVIOUS
  <2>3. handed \in [T -> Seq(Nat)] /\ done \in [T -> Nat]
        /\ \A e \in T : DOMAIN handed[e] = {}
    BY <2>1, <2>2
  <2> QED
    BY <2>3 DEF T
<1>2. HandedInv
  BY <1>1 DEF HandedInv
<1>3. clock \in 0..MaxClock /\ bucket \in [Batches -> 0..MaxClock]
  BY RestoreAssumption DEF RestoreAssumption, RestoreInit
<1> QED
  BY <1>1, <1>2, <1>3, RestingInStep, RestoreAssumption
     DEF RestoreAssumption, RestoreInit, RestoreInv, RestoreTypes, RestoreStates

LEMMA RestoreStep == RestoreInv /\ [RestoreNext]_restoreVars => RestoreInv'
<1> SUFFICES ASSUME RestoreInv, [RestoreNext]_restoreVars
             PROVE  RestoreInv'
  OBVIOUS
<1>1. ASSUME NEW c \in Runs,
             \/ Snapshot(c) \/ Applied(c) \/ MutationFails(c)
             \/ MutationAnswered(c) \/ VerifyRead(c)
      PROVE  RestoreInv'
  BY <1>1, SnapshotInv, AppliedInv, MutationFailsInv, MutationAnsweredInv, VerifyReadInv
<1>2. CASE UNCHANGED restoreVars
  <2>1. \A d \in Runs : InStep(run[d])'
    BY <1>2 DEF InStep, RestoreInv, restoreVars
  <2>2. LoopInv'
    BY <1>2, <2>1 DEF restoreVars, LoopInv, RestoreInv, RestoreTypes, HandedInv, TargetKeys
  <2> QED
    BY <1>2, <2>2, RestTyped, Whole DEF restoreVars
<1> QED
  BY <1>1, <1>2, PrepareInv, BeginRestoreInv, OutsideInv DEF RestoreNext

(* The inductive invariant of the price restore: every run has a snapshot  *)
(* of each target it works on, and a key expires no earlier than a window  *)
(* after the last mutation under it.                                       *)
THEOREM RestoreCorrect == RestoreSpec => []RestoreInv
  BY RestoreStart, RestoreStep, PTL DEF RestoreSpec

(* Within a window a target of a request is handed to WHMCS once, whichever*)
(* runs come together and for however long they are suspended, also across *)
(* crashes that the ledger of executePriceRestoreBatch survives.           *)
THEOREM TargetsOnce == RestoreSpec => []TargetOnce
<1>1. RestoreInv => TargetOnce
  BY DEF RestoreInv, HandedInv, TargetOnce
<1> QED
  BY <1>1, RestoreCorrect, PTL

-----------------------------------------------------------------------------
(* PriceRestore: the day's total.                                          *)

Calm == Alone /\ restarts = 0

InHand(r) == r.pc \in {"mutating", "applied", "verifying"}

(* A price has moved to what is asked for the service, or is the first one.*)
PriceTrue ==
  \A b \in Batches : \A k \in 1..Len(Asked[b]) :
    LET t == Asked[b][k] IN price[t.svc] \in {StartPrice[t.svc], t.new}

(* What was read of a target is its first price, or is its price still.    *)
SnapTrue(r) ==
  r.pc # "idle" /\ ~r.failed =>
    \A k \in 1..Len(r.snap) :
      LET s == Asked[r.batch][k].svc IN r.snap[k] \in {StartPrice[s], price[s]}

HandTrue(c) ==
  InHand(run[c]) =>
    /\ ~run[c].failed
    /\ run[c].day + Delta(c, run[c].k) <= RestoreCap
    /\ run[c].pc # "mutating" => run[c].applied <= Delta(c, run[c].k)

RunsInv == PriceTrue /\ \A c \in Runs : SnapTrue(run[c]) /\ HandTrue(c)

(* What runs in hand may still add to the total before they reach the cap. *)
LeftOf(r) == IF InHand(r) THEN RestoreCap - r.day ELSE 0

(* What has been acknowledged and is not in the total yet.                 *)
OwedBy(r) == IF r.pc = "verifying" THEN r.applied ELSE 0

Left == [c \in Runs |-> LeftOf(run[c])]

Owed == [c \in Runs |-> OwedBy(run[c])]

MoneyInv ==
  /\ tally + SumFunctionOnSet(Owed, Runs) >= moved
  /\ tally + SumFunctionOnSet(Left, Runs) <= Cardinality(Runs) * RestoreCap

TallyInv == Calm => RunsInv /\ MoneyInv

LEMMA RunAtWork ==
  ASSUME RestoreInv, NEW c \in Runs, run[c].pc # "idle"
  PROVE  /\ run[c].batch \in Batches /\ run[c].k \in 1..Len(Asked[run[c].batch])
         /\ Len(run[c].snap) \in Nat /\ Len(run[c].snap) <= Len(Asked[run[c].batch])
         /\ InHand(run[c]) => Len(run[c].snap) = Len(Asked[run[c].batch])
<1>1. /\ InStep(run[c]) /\ run[c].pc \in Places /\ run[c].snap \in Seq(Nat)
      /\ run[c].k \in Nat
  BY RunTyped
<1>2. run[c].batch \in Batches
  BY <1>1 DEF InStep
<1>3. Len(Asked[run[c].batch]) \in Nat /\ Len(run[c].snap) \in Nat
  BY <1>1, <1>2, AskedTyped
<1>4. CASE run[c].pc = "snapshot"
  <2> DEFINE n == Len(Asked[run[c].batch])
             m == Len(run[c].snap)
  <2>1. run[c].k \in 1..n /\ m = run[c].k - 1
    BY <1>1, <1>4 DEF InStep
  <2>2. n \in Nat /\ m \in Nat
    BY <1>3
  <2> HIDE DEF n, m
  <2>3. m <= n
    BY <1>1, <2>1, <2>2
  <2> QED
    BY <1>2, <1>3, <1>4, <2>1, <2>3 DEF n, m, InHand
<1>5. CASE InHand(run[c])
  BY <1>1, <1>2, <1>3, <1>5 DEF InStep, InHand
<1> QED
  BY <1>1, <1>4, <1>5 DEF Places, InHand

LEMMA HandAtWork ==
  ASSUME NEW r, InHand(r)
  PROVE  r.pc # "idle" /\ r.pc # "snapshot"
  BY DEF InHand

LEMMA DeltaTyped ==
  ASSUME RestoreInv, NEW c \in Runs, InHand(run[c])
  PROVE  Delta(c, run[c].k) \in Nat
<1>1. /\ run[c].batch \in Batches /\ run[c].k \in 1..Len(Asked[run[c].batch])
      /\ Len(run[c].snap) = Len(Asked[run[c].batch]) /\ run[c].snap \in Seq(Nat)
  BY HandAtWork, RunAtWork, RunTyped
<1>2. run[c].snap[run[c].k] \in Nat
  <2> DEFINE z == run[c].snap
             k == run[c].k
  <2>1. z \in Seq(Nat) /\ k \in 1..Len(z)
    BY <1>1
  <2> HIDE DEF z, k
  <2>2. z[k] \in Nat
    BY <2>1
  <2> QED
    BY <2>2 DEF z, k
<1>3. Target(c, run[c].k).new \in Nat
  BY <1>1, AskedTyped DEF Target
<1> QED
  BY <1>2, <1>3, Differences DEF Delta

LEMMA SamePrice ==
  ASSUME Alone, NEW a \in Batches, NEW b \in Batches,
         NEW k \in 1..Len(Asked[a]), NEW j \in 1..Len(Asked[b]),
         Asked[a][k].svc = Asked[b][j].svc
  PROVE  Asked[a][k].new = Asked[b][j].new
<1> DEFINE T == [svc : Services, new : Nat \ {0}, old : Nat \cup {AnyPrice}]
<1>1. \A x \in Batches : Asked[x] \in Seq(T)
  BY RestoreAssumption DEF RestoreAssumption
<1> HIDE DEF T
<1>2. \A x \in Batches : DOMAIN Asked[x] = 1..Len(Asked[x])
  BY <1>1
<1> QED
  BY <1>2 DEF Alone

(* Prices leave the first price only once, so that what the other runs have*)
(* read stays true.                                                        *)
LEMMA RunsKeep ==
  ASSUME RestoreInv, RunsInv, NEW c \in Runs,
         \A d \in Runs : d # c => run'[d] = run[d],
         \A s \in Services : price[s] = StartPrice[s] \/ price'[s] = price[s],
         PriceTrue', SnapTrue(run[c])', HandTrue(c)'
  PROVE  RunsInv'
<1>1. \A d \in Runs : SnapTrue(run[d]) /\ HandTrue(d)
  BY DEF RunsInv
<1>2. ASSUME NEW d \in Runs, d # c
      PROVE  SnapTrue(run[d])'
  <2> SUFFICES ASSUME run[d].pc # "idle", ~run[d].failed, NEW k \in 1..Len(run[d].snap)
               PROVE  run[d].snap[k] \in {StartPrice[Asked[run[d].batch][k].svc],
                                          price'[Asked[run[d].batch][k].svc]}
    BY <1>2 DEF SnapTrue
  <2>1. run[d].batch \in Batches /\ k \in 1..Len(Asked[run[d].batch])
    <3>1. Len(Asked[run[d].batch]) \in Nat
      BY RunAtWork, AskedTyped
    <3> QED
      BY <3>1, RunAtWork
  <2>2. Asked[run[d].batch][k].svc \in Services
    BY <2>1, AskedTyped
  <2> QED
    BY <1>1, <2>2 DEF SnapTrue
<1>3. ASSUME NEW d \in Runs, d # c
      PROVE  HandTrue(d)'
  BY <1>1, <1>3 DEF HandTrue, Delta, Target
<1> QED
  BY <1>2, <1>3 DEF RunsInv

(* What is left to a run, and what it owes, are amounts.                   *)
AmountsTrue ==
  /\ IsFiniteSet(Runs) /\ RestoreCap \in Nat /\ Cardinality(Runs) \in Nat
  /\ \A c \in Runs : /\ Left[c] \in Nat /\ Left[c] <= RestoreCap /\ Owed[c] \in Nat
                     /\ InHand(run[c]) => run[c].day <= RestoreCap
  /\ SumFunctionOnSet(Left, Runs) \in Nat /\ SumFunctionOnSet(Owed, Runs) \in Nat
  /\ tally \in Nat /\ moved \in Nat

LEMMA AmountsTyped == RestoreInv /\ RunsInv => AmountsTrue
<1> SUFFICES ASSUME RestoreInv, RunsInv
             PROVE  AmountsTrue
  OBVIOUS
<1>1. IsFiniteSet(Runs) /\ RestoreCap \in Nat /\ Cardinality(Runs) \in Nat
  BY RestoreAssumption, FS_CardinalityType DEF RestoreAssumption
<1>2. ASSUME NEW c \in Runs
      PROVE  /\ Left[c] \in Nat /\ Left[c] <= RestoreCap /\ Owed[c] \in Nat
             /\ InHand(run[c]) => run[c].day <= RestoreCap
  <2>1. run[c].day \in Nat /\ run[c].applied \in Nat
    BY RunTyped
  <2>2. ASSUME InHand(run[c])
        PROVE  run[c].day <= RestoreCap
    <3>3. Delta(c, run[c].k) \in Nat
      BY <2>2, DeltaTyped
    <3>4. run[c].day + Delta(c, run[c].k) <= RestoreCap
      BY <2>2 DEF RunsInv, HandTrue
    <3> QED
      BY <1>1, <2>1, <3>3, <3>4
  <2> QED
    BY <1>1, <2>1, <2>2 DEF Left, Owed, LeftOf, OwedBy
<1> QED
  BY <1>1, <1>2, SumIsNat, RestTyped DEF AmountsTrue

(* What a step of run c may do to the total: it enters at least what was   *)
(* owed, and stays below the cap with what the run has in hand.            *)
Booked(c) == tally' + Owed'[c] + moved >= tally + Owed[c] + moved'

WithinLeft(c) == tally' + Left'[c] <= tally + Left[c] \/ tally' + Left'[c] <= RestoreCap

(* The step is one of run c.                                               *)
OnlyRun(c) == \A d \in Runs : d # c => run'[d] = run[d]

LEMMA BoundKeeps ==
  \A t, t1, l, l1, s, s1, b \in Nat :
    t1 + l1 <= t + l /\ s1 + l = s + l1 /\ t + s <= b => t1 + s1 <= b
  OBVIOUS

LEMMA MoneyKeeps ==
  ASSUME RestoreInv, RestoreInv', RunsInv, RunsInv', MoneyInv, NEW c \in Runs,
         OnlyRun(c), Booked(c), WithinLeft(c)
  PROVE  MoneyInv'
<1> DEFINE n == Cardinality(Runs)
           sum == SumFunctionOnSet(Left, Runs)
           sum1 == SumFunctionOnSet(Left', Runs)
           owed == SumFunctionOnSet(Owed, Runs)
           owed1 == SumFunctionOnSet(Owed', Runs)
<1>1. AmountsTrue /\ AmountsTrue'
  BY AmountsTyped, PTL
<1>2. /\ n \in Nat /\ RestoreCap \in Nat /\ IsFiniteSet(Runs)
      /\ \A d \in Runs : Left[d] \in Nat /\ Left[d] <= RestoreCap /\ Owed[d] \in Nat
      /\ sum \in Nat /\ owed \in Nat /\ tally \in Nat /\ moved \in Nat
  BY <1>1 DEF AmountsTrue
<1>3. /\ \A d \in Runs : Left'[d] \in Nat /\ Left'[d] <= RestoreCap /\ Owed'[d] \in Nat
      /\ sum1 \in Nat /\ owed1 \in Nat /\ tally' \in Nat /\ moved' \in Nat
  BY <1>1 DEF AmountsTrue
<1>4. \A d \in Runs \ {c} : Left'[d] = Left[d] /\ Owed'[d] = Owed[d]
  BY DEF OnlyRun, Left, Owed
<1>5. sum1 + Left[c] = sum + Left'[c] /\ owed1 + Owed[c] = owed + Owed'[c]
  <2>1. sum1 + Left[c] = sum + Left'[c]
    BY <1>2, <1>3, <1>4, SumOfOther
  <2>2. owed1 + Owed[c] = owed + Owed'[c]
    BY <1>2, <1>3, <1>4, SumOfOther
  <2> QED
    BY <2>1, <2>2
<1>6. tally + owed >= moved /\ tally + sum <= n * RestoreCap
  BY DEF MoneyInv
<1>7. n * RestoreCap \in Nat
  BY <1>2
<1>8. tally' + sum1 <= n * RestoreCap
  <2>1. CASE tally' + Left'[c] <= tally + Left[c]
    <3> DEFINE l == Left[c]
               l1 == Left'[c]
               most == n * RestoreCap
    <3>1. /\ l \in Nat /\ l1 \in Nat /\ tally' + l1 <= tally + l
          /\ sum1 + l = sum + l1 /\ tally + sum <= most
      BY <1>2, <1>3, <1>5, <1>6, <2>1
    <3>2. /\ tally \in Nat /\ tally' \in Nat /\ sum \in Nat /\ sum1 \in Nat
          /\ most \in Nat
      BY <1>2, <1>3, <1>7
    <3> HIDE DEF l, l1, sum, sum1, most
    <3>3. tally' + sum1 <= most
      BY <3>1, <3>2, BoundKeeps, Zenon
    <3> QED
      BY <3>3 DEF most
  <2>2. CASE tally' + Left'[c] <= RestoreCap
    <3> DEFINE others == SumFunctionOnSet(Left', Runs \ {c})
               m == Cardinality(Runs \ {c})
    <3>1. sum1 = Left'[c] + others
      <4>1. IsFiniteSet(Runs) /\ \A d \in Runs : Left'[d] \in Nat
        BY <1>2, <1>3
      <4> QED
        BY <4>1, SumWithout
    <3>2. IsFiniteSet(Runs \ {c}) /\ m = n - 1 /\ m \in Nat
      BY <1>2, FS_RemoveElement, FS_CardinalityType
    <3>3. others <= m * RestoreCap /\ others \in Nat
      BY <1>2, <1>3, <3>2, SumBounded, SumIsNat
    <3> HIDE DEF n, m, others, sum1
    <3>4. n * RestoreCap = m * RestoreCap + RestoreCap
      BY <1>2, <3>2
    <3>5. m * RestoreCap \in Nat
      BY <1>2, <3>2
    <3> QED
      BY <1>2, <1>3, <2>2, <3>1, <3>3, <3>4, <3>5
  <2> QED
    BY <2>1, <2>2 DEF WithinLeft
<1>9. tally' + owed1 >= moved'
  <2> DEFINE o == Owed[c]
             o1 == Owed'[c]
             t1 == tally'
             m1 == moved'
  <2>1. /\ o \in Nat /\ o1 \in Nat /\ t1 + o1 + moved >= tally + o + m1
        /\ owed1 + o = owed + o1 /\ tally + owed >= moved
    BY <1>2, <1>3, <1>5, <1>6 DEF Booked
  <2>2. /\ tally \in Nat /\ t1 \in Nat /\ moved \in Nat /\ m1 \in Nat
        /\ owed \in Nat /\ owed1 \in Nat
    BY <1>2, <1>3
  <2> HIDE DEF o, o1, owed, owed1, t1, m1
  <2>3. t1 + owed1 >= m1
    BY <2>1, <2>2
  <2> QED
    BY <2>3 DEF t1, m1
<1> QED
  BY <1>8, <1>9 DEF MoneyInv

LEMMA TallyQuiet ==
  ASSUME RunsInv, MoneyInv, UNCHANGED <<run, price, tally, moved>>
  PROVE  RunsInv' /\ MoneyInv'
<1>1. RunsInv'
  BY DEF RunsInv, PriceTrue, SnapTrue, HandTrue, Delta, Target
<1>2. Left' = Left /\ Owed' = Owed
  BY DEF Left, Owed
<1> QED
  BY <1>1, <1>2 DEF MoneyInv

LEMMA EndCounts ==
  ASSUME RestoreInv, Alone, RunsInv, NEW c \in Runs, run' = [run EXCEPT ![c] = Resting],
         UNCHANGED price
  PROVE  RunsInv' /\ OnlyRun(c) /\ Left'[c] = 0 /\ Owed'[c] = 0
<1>1. run'[c] = Resting /\ \A d \in Runs : d # c => run'[d] = run[d]
  BY DEF RestoreInv, RestoreTypes
<1>2. Resting.pc = "idle" /\ ~InHand(Resting)
  BY DEF Resting, InHand
<1>3. PriceTrue' /\ SnapTrue(run[c])' /\ HandTrue(c)' /\ ~InHand(run'[c])
  BY <1>1, <1>2 DEF SnapTrue, HandTrue, RunsInv, PriceTrue
<1>4. RunsInv'
  BY <1>1, <1>3, RunsKeep
<1> QED
  BY <1>1, <1>2, <1>4 DEF OnlyRun, Left, Owed, LeftOf, OwedBy

LEMMA HandOverCounts ==
  ASSUME RestoreInv, Alone, RunsInv, NEW c \in Runs, NEW r \in RunRec, r.batch \in Batches,
         Len(r.snap) = Len(Asked[r.batch]), r.pc # "idle", ~r.failed, SnapTrue(r),
         NEW k \in 1..Len(Asked[r.batch]), ~SeenTarget(r.batch, k), HandOver(c, r, k),
         r.day + Difference(Asked[r.batch][k].new, r.snap[k]) <= RestoreCap,
         price' = price
  PROVE  RunsInv' /\ OnlyRun(c) /\ Left'[c] = RestoreCap - r.day /\ Owed'[c] = 0
<1> DEFINE r2 == [r EXCEPT !.pc = "mutating", !.k = k]
<1>1. run'[c] = r2 /\ \A d \in Runs : d # c => run'[d] = run[d]
  BY DEF HandOver, RestoreInv, RestoreTypes
<1>2. /\ r2.pc = "mutating" /\ r2.k = k /\ r2.batch = r.batch /\ r2.snap = r.snap
      /\ r2.day = r.day /\ r2.failed = r.failed
  BY DEF RunRec
<1> HIDE DEF r2
<1>3. InHand(r2)
  BY <1>2 DEF InHand
<1>4. SnapTrue(run[c])' /\ PriceTrue'
  BY <1>1, <1>2 DEF SnapTrue, RunsInv, PriceTrue
<1>6. HandTrue(c)'
  <2>1. Delta(c, run[c].k)' = Difference(Asked[r.batch][k].new, r.snap[k])
    BY <1>1, <1>2 DEF Delta, Target
  <2> QED
    BY <1>1, <1>2, <1>3, <2>1 DEF HandTrue
<1>7. RunsInv'
  BY <1>1, <1>4, <1>6, RunsKeep
<1> QED
  BY <1>1, <1>2, <1>3, <1>7 DEF OnlyRun, Left, Owed, LeftOf, OwedBy

(* The loop ends the run, or takes in hand what the cap leaves room for.   *)
LEMMA ContinueCounts ==
  ASSUME RestoreInv, Alone, RunsInv, NEW c \in Runs, NEW r \in RunRec, r.batch \in Batches,
         Len(r.snap) = Len(Asked[r.batch]), r.pc # "idle", ~r.failed, SnapTrue(r),
         NEW from \in Nat \ {0}, Continue(c, r, from), UNCHANGED price
  PROVE  /\ RunsInv' /\ OnlyRun(c) /\ Owed'[c] = 0
         /\ Left'[c] = 0 \/ Left'[c] = RestoreCap - r.day
<1> DEFINE todo == {k \in from..Len(Asked[r.batch]) : ~SeenTarget(r.batch, k)}
           first == Min(todo)
           delta == Difference(Asked[r.batch][first].new, r.snap[first])
<1>1. \/ Finish(c) \/ Halt(c)
      \/ todo # {} /\ WithinRestoreCaps(r.day, delta) /\ HandOver(c, r, first)
  BY DEF Continue
<1>2. CASE Finish(c) \/ Halt(c)
  <2>1. run' = [run EXCEPT ![c] = Resting] /\ UNCHANGED price
    BY <1>2 DEF Finish, Halt, End
  <2> QED
    BY <2>1, EndCounts
<1>3. CASE todo # {} /\ WithinRestoreCaps(r.day, delta) /\ HandOver(c, r, first)
  <2>1. todo \in SUBSET Nat
    OBVIOUS
  <2>2. Min(todo) \in todo
    <3> HIDE DEF todo
    <3> QED
      BY <1>3, <2>1, LeastOf
  <2>3. first \in 1..Len(Asked[r.batch]) /\ ~SeenTarget(r.batch, first)
    <3>1. \A m \in todo : m \in 1..Len(Asked[r.batch]) /\ ~SeenTarget(r.batch, m)
      BY AskedTyped
    <3> HIDE DEF todo
    <3> QED
      BY <2>2, <3>1
  <2>4. r.day + delta <= RestoreCap
    BY <1>3 DEF WithinRestoreCaps
  <2> HIDE DEF first
  <2> QED
    BY <1>3, <2>3, <2>4, HandOverCounts
<1> QED
  BY <1>1, <1>2, <1>3

LEMMA BeginRestoreCounts ==
  ASSUME RestoreInv, RestoreInv', Alone, RunsInv, MoneyInv, NEW c \in Runs, NEW b \in Batches,
         BeginRestore(c, b)
  PROVE  RunsInv' /\ MoneyInv'
<1> DEFINE r == [Resting EXCEPT !.pc = "snapshot", !.batch = b, !.k = 1]
<1>1. run[c].pc = "idle" /\ run' = [run EXCEPT ![c] = r] /\ UNCHANGED <<tally, price, moved>>
  BY DEF BeginRestore
<1>2. r.pc = "snapshot" /\ r.snap = <<>>
  BY DEF Resting
<1> HIDE DEF r
<1>3. run'[c] = r /\ OnlyRun(c)
  BY <1>1 DEF RestoreInv, RestoreTypes, OnlyRun
<1>4. PriceTrue' /\ SnapTrue(run[c])' /\ HandTrue(c)' /\ ~InHand(run'[c])
  BY <1>1, <1>2, <1>3 DEF SnapTrue, HandTrue, InHand, RunsInv, PriceTrue
<1>5. RunsInv'
  BY <1>1, <1>3, <1>4, RunsKeep DEF OnlyRun
<1>6. Left[c] = 0 /\ Left'[c] = 0 /\ Owed[c] = 0 /\ Owed'[c] = 0
  BY <1>1, <1>2, <1>3 DEF Left, Owed, LeftOf, OwedBy, InHand
<1>7. Booked(c) /\ WithinLeft(c)
  BY <1>1, <1>6, RestTyped DEF Booked, WithinLeft
<1> QED
  BY <1>3, <1>5, <1>7, MoneyKeeps

(* A read of phase 1 that succeeds records the price of its target.        *)
LEMMA ReadTrue ==
  ASSUME RestoreInv, NEW c \in Runs, run[c].pc = "snapshot", SnapTrue(run[c]),
         NEW hit \in BOOLEAN, NEW r, r.batch = run[c].batch, ReadKept(c, hit, r)
  PROVE  SnapTrue(r)
<1> DEFINE e == run[c]
           cost == price[Target(c, e.k).svc]
<1>1. /\ e.batch \in Batches /\ e.k \in 1..Len(Asked[e.batch])
      /\ Len(e.snap) = e.k - 1 /\ e.snap \in Seq(Nat) /\ e.k \in Nat
  BY RunTyped DEF InStep
<1>2. cost \in Nat
  <2>1. Target(c, e.k).svc \in Services
    BY <1>1, AskedTyped DEF Target
  <2> QED
    BY <2>1, RestTyped
<1> SUFFICES ASSUME ~r.failed, NEW k \in 1..Len(r.snap)
             PROVE  r.snap[k] \in {StartPrice[Asked[r.batch][k].svc],
                                   price[Asked[r.batch][k].svc]}
  BY DEF SnapTrue
<1>3. r.snap = Append(e.snap, cost) /\ ~e.failed
  BY DEF ReadKept
<1> HIDE DEF cost
<1>4. /\ Len(r.snap) = e.k /\ r.snap[e.k] = cost
      /\ \A j \in 1..(e.k - 1) : r.snap[j] = e.snap[j]
  BY <1>1, <1>2, <1>3
<1>5. CASE k = e.k
  BY <1>4, <1>5 DEF cost, Target
<1>6. CASE k # e.k
  <2>1. k \in 1..(e.k - 1)
    BY <1>1, <1>4, <1>6
  <2>2. e.snap[k] \in {StartPrice[Asked[e.batch][k].svc], price[Asked[e.batch][k].svc]}
    BY <1>1, <1>3, <2>1 DEF SnapTrue
  <2> QED
    BY <1>4, <2>1, <2>2
<1> QED
  BY <1>5, <1>6

LEMMA SnapshotCounts ==
  ASSUME RestoreInv, RestoreInv', Alone, RunsInv, MoneyInv, NEW c \in Runs, Snapshot(c)
  PROVE  RunsInv' /\ MoneyInv'
<1> DEFINE t == Target(c, run[c].k)
           ok == t.svc \notin dead
<1>1. PICK read \in BOOLEAN :
        LET next == IF read /\ ok THEN Taken(c, price[t.svc])
                    ELSE [run EXCEPT ![c].failed = TRUE, ![c].k = @ + 1,
                                     ![c].snap = Append(@, 0)]
            r == next[c]
        IN IF r.k <= Last(c)
           THEN run' = next /\ UNCHANGED <<bst, done, handed>>
           ELSE \/ r.failed /\ Halt(c)
                \/ /\ ~r.failed /\ run[c].batch \in DryRun
                   /\ run' = [run EXCEPT ![c] = Resting]
                   /\ UNCHANGED <<bst, done, handed>>
                \/ /\ ~r.failed /\ run[c].batch \notin DryRun
                   /\ Continue(c, [r EXCEPT !.day = tally], 1)
  BY DEF Snapshot
<1>2. /\ run[c].pc = "snapshot"
      /\ UNCHANGED <<bucket, approvals, tally, clock, price, dead, restarts, edits,
                     moved>>
  BY DEF Snapshot
<1>3. run[c].batch \in Batches /\ run[c].k \in 1..Last(c) /\ Last(c) \in Nat \ {0}
      /\ SnapTrue(run[c])
  BY <1>2, RunTyped, AskedTyped DEF InStep, Last, RunsInv
<1> DEFINE next == IF read /\ ok THEN Taken(c, price[t.svc])
                   ELSE [run EXCEPT ![c].failed = TRUE, ![c].k = @ + 1,
                                    ![c].snap = Append(@, 0)]
           r == next[c]
<1>4. /\ next = [run EXCEPT ![c] = r]
      /\ r \in RunRec /\ r.pc = "snapshot" /\ r.batch = run[c].batch
      /\ r.k = run[c].k + 1 /\ Len(r.snap) = run[c].k
      /\ SnapTrue(r)
  <2> DEFINE hit == read /\ ok
  <2>1. hit \in BOOLEAN
    OBVIOUS
  <2>2. AfterRead(c, next) /\ ReadKept(c, hit, next[c])
    BY <1>2, <2>1, ReadTaken
  <2> HIDE DEF next, hit
  <2>3. r.batch = run[c].batch
    BY <2>2 DEF AfterRead
  <2>4. SnapTrue(r)
    BY <1>2, <1>3, <2>1, <2>2, <2>3, ReadTrue
  <2> QED
    BY <2>2, <2>4 DEF AfterRead
<1>5. SnapTrue(r)
  BY <1>4
<1>6. \/ r.k <= Last(c) /\ run' = next /\ UNCHANGED <<bst, done, handed>>
      \/ run' = [run EXCEPT ![c] = Resting]
      \/ ~(r.k <= Last(c)) /\ ~r.failed /\ Continue(c, [r EXCEPT !.day = tally], 1)
  BY <1>1 DEF Halt, End
<1> HIDE DEF next
<1>7. Left[c] = 0 /\ Owed[c] = 0 /\ tally \in Nat /\ moved \in Nat /\ RestoreCap \in Nat
  BY <1>2, RestTyped, RestoreAssumption
     DEF Left, Owed, LeftOf, OwedBy, InHand, RestoreAssumption
<1>8. CASE r.k <= Last(c) /\ run' = next /\ UNCHANGED <<bst, done, handed>>
  <2>1. run'[c] = r /\ OnlyRun(c)
    BY <1>4, <1>8 DEF RestoreInv, RestoreTypes, OnlyRun
  <2> HIDE DEF r
  <2>2. PriceTrue' /\ SnapTrue(run[c])' /\ HandTrue(c)' /\ ~InHand(run'[c])
    BY <1>2, <1>4, <1>5, <1>8, <2>1 DEF SnapTrue, HandTrue, InHand, RunsInv, PriceTrue
  <2>3. RunsInv'
    BY <1>2, <1>8, <2>1, <2>2, RunsKeep DEF OnlyRun
  <2>4. Left'[c] = 0 /\ Owed'[c] = 0
    BY <1>4, <2>1, <2>2 DEF Left, Owed, LeftOf, OwedBy
  <2>5. Booked(c) /\ WithinLeft(c)
    BY <1>2, <1>7, <2>4 DEF Booked, WithinLeft
  <2> QED
    BY <2>1, <2>3, <2>5, MoneyKeeps
<1>9. CASE run' = [run EXCEPT ![c] = Resting]
  <2>1. RunsInv' /\ OnlyRun(c) /\ Left'[c] = 0 /\ Owed'[c] = 0
    BY <1>2, <1>9, EndCounts
  <2>2. Booked(c) /\ WithinLeft(c)
    BY <1>2, <1>7, <2>1 DEF Booked, WithinLeft
  <2> QED
    BY <2>1, <2>2, MoneyKeeps
<1>10. CASE ~(r.k <= Last(c)) /\ ~r.failed /\ Continue(c, [r EXCEPT !.day = tally], 1)
  <2> DEFINE s == [r EXCEPT !.day = tally]
  <2>0. Continue(c, s, 1) /\ 1 \in Nat \ {0}
    BY <1>10
  <2>1. s \in RunRec
    BY <1>4, RestTyped, RunFieldsSet
  <2>2. /\ s.batch = run[c].batch /\ s.snap = r.snap /\ s.day = tally /\ s.pc = "snapshot"
        /\ s.failed = r.failed
    BY <1>4 DEF RunRec
  <2>3. Len(s.snap) = Len(Asked[s.batch])
    BY <1>3, <1>4, <1>10, <2>2 DEF Last
  <2> HIDE DEF s, r
  <2>4. SnapTrue(s) /\ ~s.failed /\ s.pc # "idle" /\ s.batch \in Batches
    BY <1>3, <1>4, <1>5, <1>10, <2>2 DEF SnapTrue
  <2>5. /\ RunsInv' /\ OnlyRun(c) /\ Owed'[c] = 0
        /\ Left'[c] = 0 \/ Left'[c] = RestoreCap - tally
    BY <1>2, <2>0, <2>1, <2>2, <2>3, <2>4, ContinueCounts
  <2>6. Booked(c)
    BY <1>2, <1>7, <2>5 DEF Booked
  <2>7. WithinLeft(c)
    BY <1>2, <1>7, <2>5 DEF WithinLeft
  <2> QED
    BY <2>5, <2>6, <2>7, MoneyKeeps
<1> QED
  BY <1>6, <1>8, <1>9, <1>10

LEMMA AppliedCounts ==
  ASSUME RestoreInv, RestoreInv', Alone, RunsInv, MoneyInv, NEW c \in Runs, Applied(c)
  PROVE  RunsInv' /\ MoneyInv'
<1> DEFINE e == run[c]
           s == Target(c, e.k).svc
           new == Target(c, e.k).new
           delta == Difference(new, price[s])
           r == [e EXCEPT !.pc = "applied", !.applied = delta]
<1>1. /\ e.pc = "mutating"
      /\ price' = [price EXCEPT ![s] = new]
      /\ run' = [run EXCEPT ![c] = r]
      /\ UNCHANGED <<tally, moved>>
  BY DEF Applied
<1>2. /\ e \in RunRec /\ InHand(e) /\ e.batch \in Batches /\ e.k \in 1..Len(Asked[e.batch])
      /\ Len(e.snap) = Len(Asked[e.batch]) /\ e.snap \in Seq(Nat)
      /\ SnapTrue(e) /\ HandTrue(c) /\ PriceTrue
  BY <1>1, RunTyped, RunAtWork DEF InHand, RunsInv
<1>3. /\ s \in Services /\ new \in Nat /\ price[s] \in Nat /\ e.snap[e.k] \in Nat
      /\ Asked[e.batch][e.k].svc = s /\ Asked[e.batch][e.k].new = new
  <2>1. Target(c, e.k) = Asked[e.batch][e.k]
    BY DEF Target
  <2>2. s \in Services /\ new \in Nat
    BY <1>2, <2>1, AskedTyped
  <2>3. e.snap[e.k] \in Nat
    <3> DEFINE z == e.snap
               k == e.k
    <3>1. z \in Seq(Nat) /\ k \in 1..Len(z)
      BY <1>2
    <3> HIDE DEF z, k
    <3>2. z[k] \in Nat
      BY <3>1
    <3> QED
      BY <3>2 DEF z, k
  <2> QED
    BY <2>1, <2>2, <2>3, RestTyped
<1>4. price[s] \in {StartPrice[s], new} /\ e.snap[e.k] \in {StartPrice[s], price[s]}
  <2>1. ~e.failed /\ e.pc # "idle"
    BY <1>1, <1>2 DEF HandTrue
  <2> QED
    BY <1>2, <1>3, <2>1 DEF PriceTrue, SnapTrue
<1>5. delta <= Delta(c, e.k)
  <2>1. Delta(c, e.k) = Difference(new, e.snap[e.k])
    BY DEF Delta
  <2>4. delta \in Nat /\ Delta(c, e.k) \in Nat
    BY <1>3, <2>1, Differences
  <2> DEFINE limit == Delta(c, e.k)
  <2>2. CASE price[s] = e.snap[e.k]
    <3>1. delta = limit
      BY <2>1, <2>2
    <3> HIDE DEF delta, limit
    <3>2. delta <= limit
      BY <2>4, <3>1 DEF limit
    <3> QED
      BY <3>2 DEF limit
  <2>3. CASE price[s] = new
    <3>1. delta = 0
      BY <1>3, <2>3 DEF Difference
    <3> HIDE DEF delta, limit
    <3>2. limit \in Nat
      BY <2>4 DEF limit
    <3>3. delta <= limit
      BY <3>1, <3>2
    <3> QED
      BY <3>3 DEF limit
  <2> QED
    BY <1>4, <2>2, <2>3
<1> HIDE DEF delta, new
<1>6. /\ r.pc = "applied" /\ r.applied = delta /\ r.k = e.k /\ r.batch = e.batch
      /\ r.snap = e.snap /\ r.failed = e.failed /\ r.day = e.day
  BY <1>2 DEF RunRec
<1>7. run'[c] = r /\ OnlyRun(c)
  BY <1>1 DEF RestoreInv, RestoreTypes, OnlyRun
<1> HIDE DEF r
<1>8. price'[s] = new /\ \A x \in Services : x # s => price'[x] = price[x]
  BY <1>1, <1>3, RestTyped
<1>9. \A x \in Services : price[x] = StartPrice[x] \/ price'[x] = price[x]
  BY <1>4, <1>8
<1>10. PriceTrue'
  <2> SUFFICES ASSUME NEW b \in Batches, NEW k \in 1..Len(Asked[b])
               PROVE  price'[Asked[b][k].svc] \in {StartPrice[Asked[b][k].svc],
                                                  Asked[b][k].new}
    BY DEF PriceTrue
  <2>1. CASE Asked[b][k].svc = s
    <3>1. Asked[b][k].new = Asked[e.batch][e.k].new
      <4> DEFINE a == e.batch
                 j == e.k
      <4>1. a \in Batches /\ j \in 1..Len(Asked[a]) /\ Asked[b][k].svc = Asked[a][j].svc
        BY <1>2, <1>3, <2>1
      <4> HIDE DEF a, j, s, e
      <4>2. Asked[b][k].new = Asked[a][j].new
        BY <4>1, SamePrice
      <4> QED
        BY <4>2 DEF a, j
    <3>2. Asked[b][k].new = new
      BY <1>3, <3>1
    <3> QED
      BY <1>8, <2>1, <3>2
  <2>2. CASE Asked[b][k].svc # s
    BY <1>2, <1>8, <2>2, AskedTyped DEF PriceTrue
  <2> QED
    BY <2>1, <2>2
<1>11. SnapTrue(run[c])'
  <2> SUFFICES ASSUME ~r.failed, NEW k \in 1..Len(r.snap)
               PROVE  r.snap[k] \in {StartPrice[Asked[r.batch][k].svc],
                                     price'[Asked[r.batch][k].svc]}
    BY <1>6, <1>7 DEF SnapTrue
  <2>1. k \in 1..Len(Asked[e.batch])
    BY <1>2, <1>6
  <2>2. e.snap[k] \in {StartPrice[Asked[e.batch][k].svc], price[Asked[e.batch][k].svc]}
    BY <1>1, <1>2, <1>6 DEF SnapTrue
  <2>3. Asked[e.batch][k].svc \in Services
    BY <1>2, <2>1, AskedTyped
  <2> QED
    BY <1>6, <1>9, <2>2, <2>3
<1>12. InHand(r)
  BY <1>6 DEF InHand
<1>13. HandTrue(c)'
  <2>1. Delta(c, run[c].k)' = Delta(c, e.k)
    BY <1>6, <1>7 DEF Delta, Target
  <2>2. ~e.failed /\ e.day + Delta(c, e.k) <= RestoreCap
    BY <1>2 DEF HandTrue
  <2> QED
    BY <1>5, <1>6, <1>7, <2>1, <2>2 DEF HandTrue
<1>14. RunsInv'
  BY <1>7, <1>9, <1>10, <1>11, <1>13, RunsKeep DEF OnlyRun
<1>15. Left'[c] = Left[c] /\ Owed'[c] = Owed[c]
  BY <1>1, <1>2, <1>6, <1>7, <1>12 DEF Left, Owed, LeftOf, OwedBy
<1>16. AmountsTrue
  BY AmountsTyped
<1>17. Booked(c) /\ WithinLeft(c)
  BY <1>1, <1>15, <1>16 DEF Booked, WithinLeft, AmountsTrue
<1> QED
  BY <1>7, <1>14, <1>17, MoneyKeeps

LEMMA MutationFailsCounts ==
  ASSUME RestoreInv, RestoreInv', Alone, RunsInv, MoneyInv, NEW c \in Runs, MutationFails(c)
  PROVE  RunsInv' /\ MoneyInv'
<1>1. /\ run[c].pc \in {"mutating", "applied"} /\ run' = [run EXCEPT ![c] = Resting]
      /\ UNCHANGED <<price, tally, moved>>
  BY DEF MutationFails, End
<1>2. RunsInv' /\ OnlyRun(c) /\ Left'[c] = 0 /\ Owed'[c] = 0
  BY <1>1, EndCounts
<1>3. AmountsTrue
  BY AmountsTyped
<1>4. Owed[c] = 0 /\ Left[c] \in Nat /\ tally \in Nat /\ moved \in Nat
  BY <1>1, <1>3 DEF Owed, OwedBy, AmountsTrue
<1>5. Booked(c)
  BY <1>1, <1>2, <1>4 DEF Booked
<1>6. WithinLeft(c)
  <2> DEFINE l == Left[c]
  <2>1. l \in Nat /\ tally \in Nat
    BY <1>4
  <2> HIDE DEF l
  <2>2. tally + 0 <= tally + l
    BY <2>1
  <2> QED
    BY <1>1, <1>2, <2>2 DEF l, WithinLeft
<1> QED
  BY <1>2, <1>5, <1>6, MoneyKeeps

LEMMA MutationAnsweredCounts ==
  ASSUME RestoreInv, RestoreInv', Alone, RunsInv, MoneyInv, NEW c \in Runs,
         MutationAnswered(c)
  PROVE  RunsInv' /\ MoneyInv'
<1> DEFINE e == run[c]
           r == [e EXCEPT !.pc = "verifying"]
<1>1. /\ e.pc = "applied" /\ run' = [run EXCEPT ![c] = r] /\ moved' = moved + e.applied
      /\ UNCHANGED <<price, tally>>
  BY DEF MutationAnswered
<1>2. e \in RunRec /\ InHand(e) /\ SnapTrue(e) /\ HandTrue(c) /\ e.applied \in Nat
  BY <1>1, RunTyped DEF InHand, RunsInv
<1>3. /\ r.pc = "verifying" /\ r.applied = e.applied /\ r.k = e.k /\ r.batch = e.batch
      /\ r.snap = e.snap /\ r.failed = e.failed /\ r.day = e.day
  BY <1>2 DEF RunRec
<1>4. run'[c] = r /\ OnlyRun(c)
  BY <1>1 DEF RestoreInv, RestoreTypes, OnlyRun
<1> HIDE DEF r
<1>5. SnapTrue(run[c])' /\ PriceTrue'
  <2>1. PriceTrue /\ UNCHANGED price
    BY <1>1 DEF RunsInv
  <2> QED
    BY <1>1, <1>2, <1>3, <1>4, <2>1 DEF SnapTrue, PriceTrue
<1>6. InHand(r)
  BY <1>3 DEF InHand
<1>7. HandTrue(c)'
  <2>1. Delta(c, run[c].k)' = Delta(c, e.k)
    BY <1>3, <1>4 DEF Delta, Target
  <2>2. /\ ~e.failed /\ e.applied <= Delta(c, e.k)
        /\ e.day + Delta(c, e.k) <= RestoreCap
    BY <1>1, <1>2 DEF HandTrue
  <2> QED
    BY <1>1, <1>3, <1>4, <1>6, <2>1, <2>2 DEF HandTrue
<1>8. RunsInv'
  BY <1>1, <1>4, <1>5, <1>7, RunsKeep DEF OnlyRun
<1>9. Left'[c] = Left[c] /\ Owed[c] = 0 /\ Owed'[c] = e.applied
  BY <1>1, <1>2, <1>3, <1>4, <1>6 DEF Left, Owed, LeftOf, OwedBy
<1>10. AmountsTrue
  BY AmountsTyped
<1>11. Booked(c)
  <2>1. moved \in Nat /\ tally \in Nat
    BY <1>10 DEF AmountsTrue
  <2> QED
    BY <1>1, <1>2, <1>9, <2>1 DEF Booked
<1>12. WithinLeft(c)
  <2>1. Left[c] \in Nat /\ tally \in Nat
    BY <1>10 DEF AmountsTrue
  <2> QED
    BY <1>1, <1>9, <2>1 DEF WithinLeft
<1> QED
  BY <1>4, <1>8, <1>11, <1>12, MoneyKeeps

LEMMA VerifyReadCounts ==
  ASSUME RestoreInv, RestoreInv', Alone, RunsInv, MoneyInv, NEW c \in Runs, VerifyRead(c)
  PROVE  RunsInv' /\ MoneyInv'
<1> DEFINE e == run[c]
           delta == Delta(c, e.k)
           r == [e EXCEPT !.day = @ + delta, !.applied = 0]
<1>1. /\ e.pc = "verifying" /\ tally' = tally + delta
      /\ Continue(c, r, e.k + 1)
      /\ UNCHANGED <<price, moved>>
  BY DEF VerifyRead, Added
<1>2. /\ e \in RunRec /\ InHand(e) /\ e.batch \in Batches /\ e.k \in Nat
      /\ Len(e.snap) = Len(Asked[e.batch]) /\ e.day \in Nat
      /\ SnapTrue(e) /\ HandTrue(c)
  BY <1>1, RunTyped, RunAtWork DEF InHand, RunsInv
<1>3. delta \in Nat
  <2>1. e.k \in 1..Len(Asked[e.batch]) /\ e.snap \in Seq(Nat)
    <3>1. e.pc # "idle"
      BY <1>1
    <3> QED
      BY <3>1, RunTyped, RunAtWork
  <2>2. e.snap[e.k] \in Nat
    BY <1>2, <2>1
  <2>3. Target(c, e.k).new \in Nat
    BY <1>2, <2>1, AskedTyped DEF Target
  <2> QED
    BY <2>2, <2>3, Differences DEF Delta
<1>4. e.applied <= delta /\ e.applied \in Nat /\ ~e.failed /\ e.day + delta <= RestoreCap
  BY <1>1, <1>2, RunTyped DEF HandTrue
<1>5. r \in RunRec
  <2> DEFINE r1 == [e EXCEPT !.day = @ + delta]
  <2>1. e.day + delta \in Nat
    BY <1>2, <1>3
  <2>2. r1 \in RunRec
    BY <1>2, <2>1, RunFieldsSet
  <2>3. r = [r1 EXCEPT !.applied = 0]
    OBVIOUS
  <2> HIDE DEF r1, r
  <2> QED
    BY <2>2, <2>3, RunFieldsSet
<1>6. /\ r.batch = e.batch /\ r.snap = e.snap /\ r.pc = "verifying" /\ r.failed = e.failed
      /\ r.day = e.day + delta
  BY <1>1, <1>2 DEF RunRec
<1> HIDE DEF delta, r
<1>7. SnapTrue(r) /\ r.pc # "idle" /\ ~r.failed
  BY <1>1, <1>2, <1>4, <1>6 DEF SnapTrue
<1>8. /\ RunsInv' /\ OnlyRun(c) /\ Owed'[c] = 0
      /\ Left'[c] = 0 \/ Left'[c] = RestoreCap - r.day
  <2>1. e.k + 1 \in Nat \ {0} /\ Len(r.snap) = Len(Asked[r.batch]) /\ r.batch \in Batches
    BY <1>2, <1>6
  <2> QED
    BY <1>1, <1>5, <1>7, <2>1, ContinueCounts
<1>9. Owed[c] = e.applied /\ Left[c] = RestoreCap - e.day
  BY <1>1, <1>2, <1>4 DEF Owed, OwedBy, Left, LeftOf
<1>10. tally \in Nat /\ moved \in Nat /\ RestoreCap \in Nat
  BY AmountsTyped DEF AmountsTrue
<1>11. Booked(c)
  BY <1>1, <1>3, <1>4, <1>8, <1>9, <1>10 DEF Booked
<1>12. WithinLeft(c)
  <2> DEFINE day == e.day
             l1 == Left'[c]
  <2>1. l1 = 0 \/ l1 = RestoreCap - (day + delta)
    BY <1>6, <1>8
  <2>2. day \in Nat /\ day + delta <= RestoreCap
    BY <1>2, <1>4
  <2> HIDE DEF day, l1
  <2>3. (tally + delta) + l1 <= tally + (RestoreCap - day)
    BY <1>3, <1>10, <2>1, <2>2
  <2> QED
    BY <1>1, <1>9, <2>3 DEF day, l1, WithinLeft
<1> QED
  BY <1>8, <1>11, <1>12, MoneyKeeps

(* Runs added apart, those that owe nothing left out.                      *)
LEMMA OwedIsUnverified ==
  ASSUME RestoreInv, RunsInv
  PROVE  SumFunctionOnSet(Owed, Runs) = SumFunction([c \in Unverified |-> run[c].applied])
<1> DEFINE f == [c \in Unverified |-> run[c].applied]
<1>1. AmountsTrue
  BY AmountsTyped
<1>2. IsFiniteSet(Runs) /\ \A c \in Runs : Owed[c] \in Nat
  BY <1>1 DEF AmountsTrue
<1>3. Unverified \subseteq Runs /\ \A c \in Runs \ Unverified : Owed[c] = 0
  BY DEF Unverified, Owed, OwedBy
<1>4. SumFunctionOnSet(Owed, Runs) = SumFunctionOnSet(Owed, Unverified)
  BY <1>2, <1>3, SumOverMost
<1>5. \A c \in Unverified : Owed[c] = f[c]
  BY DEF Unverified, Owed, OwedBy
<1>6. SumFunctionOnSet(Owed, Unverified) = SumFunctionOnSet(f, Unverified)
  <2>1. IsFiniteSet(Unverified)
    BY <1>2, <1>3, FS_Subset
  <2> HIDE DEF f
  <2> QED
    BY <1>5, <2>1, SumSame
<1> QED
  BY <1>4, <1>6 DEF SumFunction

LEMMA TallyStart == RestoreInit => TallyInv
<1> SUFFICES ASSUME RestoreInit
             PROVE  RunsInv /\ MoneyInv
  BY DEF TallyInv
<1>1. \A c \in Runs : run[c] = Resting
  BY DEF RestoreInit
<1>2. Resting.pc = "idle" /\ ~InHand(Resting)
  BY DEF Resting, InHand
<1>3. RunsInv
  <2>1. PriceTrue
    BY DEF RestoreInit, PriceTrue
  <2> QED
    BY <1>1, <1>2, <2>1 DEF RunsInv, SnapTrue, HandTrue
<1>4. \A c \in Runs : Left[c] = 0 /\ Owed[c] = 0
  BY <1>1, <1>2 DEF Left, Owed, LeftOf, OwedBy
<1>5. SumFunctionOnSet(Left, Runs) = 0 /\ SumFunctionOnSet(Owed, Runs) = 0
  <2>1. IsFiniteSet(Runs) /\ {} \subseteq Runs
    BY RestoreAssumption DEF RestoreAssumption
  <2>2. SumFunctionOnSet(Left, Runs) = SumFunctionOnSet(Left, {})
    BY <1>4, <2>1, SumOverMost
  <2>3. SumFunctionOnSet(Owed, Runs) = SumFunctionOnSet(Owed, {})
    BY <1>4, <2>1, SumOverMost
  <2> QED
    BY <2>2, <2>3, SumOfNone
<1>6. Cardinality(Runs) * RestoreCap \in Nat
  <2>1. Cardinality(Runs) \in Nat /\ RestoreCap \in Nat
    BY RestoreAssumption, FS_CardinalityType DEF RestoreAssumption
  <2> QED
    BY <2>1
<1>7. tally = 0 /\ moved = 0
  BY DEF RestoreInit
<1> QED
  BY <1>3, <1>5, <1>6, <1>7 DEF MoneyInv

(* Once prices are edited by others or the process restarts the books are  *)
(* no longer comparable, and stay so.                                      *)
LEMMA TallyStep ==
  RestoreInv /\ RestoreInv' /\ TallyInv /\ [RestoreNext]_restoreVars => TallyInv'
<1> SUFFICES ASSUME RestoreInv, RestoreInv', TallyInv, [RestoreNext]_restoreVars, Calm'
             PROVE  RunsInv' /\ MoneyInv'
  BY DEF TallyInv
<1>1. CASE CrashRestore
  <2>1. restarts' = restarts + 1 /\ restarts \in Nat
    BY <1>1, RestTyped DEF CrashRestore
  <2> QED
    BY <2>1 DEF Calm
<1>2. ASSUME NEW s \in Services, Reprice(s)
      PROVE  RunsInv' /\ MoneyInv'
  <2>1. edits' = edits + 1 /\ edits \in Nat
    BY <1>2, RestTyped DEF Reprice
  <2> QED
    BY <2>1 DEF Calm, Alone
<1>3. ASSUME UNCHANGED <<restarts, edits>>
      PROVE  Alone /\ RunsInv /\ MoneyInv
  BY <1>3 DEF Calm, Alone, TallyInv
<1>4. ASSUME NEW b \in Batches, Prepare(b) \/ RefuseRestore(b)
      PROVE  RunsInv' /\ MoneyInv'
  BY <1>3, <1>4, TallyQuiet DEF Prepare, RefuseRestore
<1>8. CASE PassTime
  BY <1>3, <1>8, TallyQuiet DEF PassTime
<1>5. ASSUME NEW c \in Runs, NEW b \in Batches, BeginRestore(c, b)
      PROVE  RunsInv' /\ MoneyInv'
  <2>1. UNCHANGED <<restarts, edits>>
    BY <1>5 DEF BeginRestore
  <2> QED
    BY <1>3, <1>5, <2>1, BeginRestoreCounts
<1>6. ASSUME NEW c \in Runs,
             \/ Snapshot(c) \/ Applied(c) \/ MutationFails(c)
             \/ MutationAnswered(c) \/ VerifyRead(c)
      PROVE  RunsInv' /\ MoneyInv'
  <2>1. UNCHANGED <<restarts, edits>>
    BY <1>6, Zenon DEF Snapshot, Applied, MutationFails, MutationAnswered, VerifyRead
  <2> QED
    BY <1>3, <1>6, <2>1, SnapshotCounts, AppliedCounts, MutationFailsCounts,
       MutationAnsweredCounts, VerifyReadCounts
<1>7. CASE UNCHANGED restoreVars
  BY <1>3, <1>7, TallyQuiet DEF restoreVars
<1> QED
  BY <1>1, <1>2, <1>4, <1>5, <1>6, <1>7, <1>8, Zenon DEF RestoreNext

(* The day's total does not fall short of what acknowledged mutations      *)
(* changed, those still being read back apart, and overlapping runs exceed *)
(* the daily cap by no more than the cap each (the copy `dayTotal` that a  *)
(* batch of executePriceRestoreBatch keeps beside the shared store).       *)
THEOREM TallyIsTrue == RestoreSpec => []TallyTrue
<1>1. RestoreInv /\ TallyInv => TallyTrue
  <2> SUFFICES ASSUME RestoreInv, RunsInv, MoneyInv
               PROVE  /\ tally + SumFunction([c \in Unverified |-> run[c].applied]) >= moved
                      /\ moved <= RestoreCap * Cardinality(Runs)
    BY DEF TallyInv, TallyTrue, Calm
  <2> DEFINE left == SumFunctionOnSet(Left, Runs)
             owed == SumFunctionOnSet(Owed, Runs)
             n == Cardinality(Runs)
  <2>1. /\ tally + owed >= moved /\ moved \in Nat /\ tally + left <= n * RestoreCap
        /\ tally \in Nat /\ left \in Nat /\ owed \in Nat /\ n \in Nat /\ RestoreCap \in Nat
    BY AmountsTyped DEF MoneyInv, AmountsTrue
  <2>2. owed <= left
    <3>1. \A c \in Runs : Owed[c] \in Nat /\ Left[c] \in Nat /\ Owed[c] <= Left[c]
      <4> SUFFICES ASSUME NEW c \in Runs
                   PROVE  Owed[c] \in Nat /\ Left[c] \in Nat /\ Owed[c] <= Left[c]
        OBVIOUS
      <4>1. Owed[c] \in Nat /\ Left[c] \in Nat
        BY AmountsTyped DEF AmountsTrue
      <4>2. CASE run[c].pc = "verifying"
        <5>1. InHand(run[c]) /\ run[c].day \in Nat /\ run[c].applied \in Nat
          BY <4>2, RunTyped DEF InHand
        <5>2. /\ run[c].applied <= Delta(c, run[c].k)
              /\ run[c].day + Delta(c, run[c].k) <= RestoreCap
              /\ Delta(c, run[c].k) \in Nat
          BY <4>2, <5>1, DeltaTyped DEF RunsInv, HandTrue
        <5>4. run[c].day + run[c].applied <= RestoreCap
          <6> DEFINE x == Delta(c, run[c].k)
                     a == run[c].applied
                     y == run[c].day
          <6>1. x \in Nat /\ a \in Nat /\ y \in Nat /\ a <= x /\ y + x <= RestoreCap
            BY <5>1, <5>2
          <6> HIDE DEF x, a, y
          <6>2. y + a <= RestoreCap
            BY <2>1, <6>1
          <6> QED
            BY <6>2 DEF y, a
        <5> QED
          BY <2>1, <4>1, <4>2, <5>1, <5>4 DEF Owed, Left, OwedBy, LeftOf
      <4>3. CASE run[c].pc # "verifying"
        BY <4>1, <4>3 DEF Owed, OwedBy
      <4> QED
        BY <4>2, <4>3
    <3> QED
      BY <3>1, SumOfLess, RestoreAssumption DEF RestoreAssumption
  <2>3. moved <= n * RestoreCap
    <3> DEFINE most == n * RestoreCap
    <3>1. most \in Nat
      BY <2>1
    <3> HIDE DEF left, owed, n, most
    <3>2. moved <= most
      BY <2>1, <2>2, <3>1 DEF most
    <3> QED
      BY <3>2 DEF most
  <2>4. n * RestoreCap = RestoreCap * n
    <3> HIDE DEF n
    <3> QED
      BY <2>1
  <2> QED
    BY <2>1, <2>3, <2>4, OwedIsUnverified
<1>2. RestoreSpec => []TallyInv
  BY RestoreCorrect, TallyStart, TallyStep, PTL DEF RestoreSpec
<1> QED
  BY <1>1, <1>2, RestoreCorrect, PTL
-----------------------------------------------------------------------------
(* TransferIntents.                                                        *)

CreditStates ==
  {"undrafted", "draft", "validated", "rejected", "approved", "execution_blocked",
   "executed", "verified", "failed", "gone"}

(* What an intent stays in, once the gate let it through.                  *)
Sent == {"executed", "verified", "failed", "gone"}

Stages ==
  {"idle", "tool_validating", "tool_taxing", "taxing", "waiting", "waiting_finance",
   "reading", "reading_finance", "moving"}

PastGate == {"waiting", "waiting_finance", "reading", "reading_finance", "moving"}

TransferRecord ==
  [state : {"none", "open"} \cup Settled, amount : Nat,
   by : CreditApprovers \cup {Drafter, Nobody}]

CreditTypes ==
  /\ cst \in [CreditIntents -> CreditStates]
  /\ approvedBy \in [CreditIntents -> CreditApprovers \cup {Nobody}]
  /\ taxed \in BOOLEAN
  /\ spent \in Nat
  /\ record \in [RequestIds -> TransferRecord]
  /\ at \in [CreditCalls -> [pc : Stages, intent : CreditIntents \cup {Nobody}]]
  /\ taxEdits \in Nat /\ creditCrashes \in Nat

(* An invocation has an intent in hand, which the gate let through if the  *)
(* invocation is past it, and the one that transfers has its own record.   *)
AtWork(c) ==
  /\ at[c].pc # "idle" => Now(c) \in CreditIntents
  /\ at[c].pc \in PastGate => cst[Now(c)] \in Sent
  /\ at[c].pc \in {"waiting_finance", "reading_finance"} => approvedBy[Now(c)] # Drafter
  /\ In(c, "moving") =>
       /\ record[Move[Now(c)].request].state = "open"
       /\ record[Move[Now(c)].request].amount = Move[Now(c)].amount

OneMover ==
  \A c, d \in CreditCalls :
    In(c, "moving") /\ In(d, "moving") /\ c # d => Move[Now(c)].request # Move[Now(d)].request

(* Finance approval has been required from the start.                      *)
AlwaysFinance == FinanceRequired /\ (FinanceAlways \/ taxEdits = 0)

NoneOnItsOwn == AlwaysFinance => \A c \in CreditCalls : at[c].pc \notin {"waiting", "reading"}

CreditInv ==
  /\ CreditTypes
  /\ \A c \in CreditCalls : AtWork(c)
  /\ OneMover
  /\ NoneOnItsOwn
  /\ TransfersAccounted

CreditOnly == UNCHANGED <<approvedBy, taxed, taxEdits, creditCrashes>>

LEMMA CreditFacts ==
  ASSUME CreditInv
  PROVE  /\ CreditTypes
         /\ \A c \in CreditCalls :
              /\ at[c] \in [pc : Stages, intent : CreditIntents \cup {Nobody}]
              /\ at[c].pc # "idle" => at[c].intent \in CreditIntents
         /\ \A i \in CreditIntents : Move[i].amount \in Nat /\ Move[i].request \in RequestIds
         /\ Nobody \notin CreditIntents /\ Nobody # Drafter
  BY CreditAssumption DEF CreditInv, CreditTypes, AtWork, Now, RequestIds, CreditAssumption

LEMMA UnsuspendedTyped ==
  /\ Unsuspended.pc = "idle"
  /\ Unsuspended \in [pc : Stages, intent : CreditIntents \cup {Nobody}]
  BY DEF Unsuspended, Stages

(* Which moves of an intent there are, seen from the gate.                 *)
LEMMA CreditMoves ==
  ASSUME CreditInv, NEW i \in CreditIntents, NEW target \in CreditStates \ {"verified"}
  PROVE  /\ CreditMoved(i, target) \in [CreditIntents -> CreditStates]
         /\ \A j \in CreditIntents :
              /\ cst[j] \in Sent => CreditMoved(i, target)[j] \in Sent
              /\ CreditMoved(i, target)[j] = "verified" => cst[j] = "verified"
  BY DEF CreditInv, CreditTypes, CreditMoved, CreditStep, CreditStates, Sent

LEMMA TransferredFinite ==
  IsFiniteSet(RequestIds) /\ IsFiniteSet(Transferred)
<1>1. IsFiniteSet(RequestIds)
  <2> DEFINE f == [i \in CreditIntents |-> Move[i].request]
  <2>1. f \in Surjection(CreditIntents, RequestIds)
    BY DEF Surjection, RequestIds
  <2>2. IsFiniteSet(CreditIntents)
    BY CreditAssumption DEF CreditAssumption
  <2> QED
    BY <2>1, <2>2, FS_Surjection DEF ExistsSurjection
<1> QED
  BY <1>1, FS_Subset DEF Transferred

LEMMA MoneyTyped ==
  ASSUME CreditInv
  PROVE  MovedMoney \in Nat
<1>1. \A r \in Transferred : record[r].amount \in Nat
  BY DEF CreditInv, CreditTypes, TransferRecord, Transferred
<1> DEFINE f == [r \in Transferred |-> record[r].amount]
<1>2. DOMAIN f = Transferred /\ \A r \in DOMAIN f : f[r] \in Nat
  BY <1>1
<1> HIDE DEF f
<1>3. SumFunction(f) \in Nat
  BY <1>2, TransferredFinite, SumOfValues
<1> QED
  BY <1>3 DEF f, MovedMoney

(* A step that leaves the records alone.                                   *)
LEMMA RecordsKept ==
  ASSUME CreditInv, CreditTypes', UNCHANGED record,
         creditCrashes' = 0 => creditCrashes = 0 /\ spent' >= spent,
         \A i \in CreditIntents :
           /\ cst[i] \in Sent => cst'[i] \in Sent
           /\ cst'[i] = "verified" => cst[i] = "verified" \/ Move[i].request \in Transferred,
         \A c \in CreditCalls : AtWork(c)',
         OneMover', NoneOnItsOwn',
         AlwaysFinance' => AlwaysFinance
  PROVE  CreditInv'
<1>1. Transferred' = Transferred /\ MovedMoney' = MovedMoney
  BY DEF Transferred, MovedMoney
<1>2. RecordsHonest'
  <2>1. RecordsOnDisk \/ creditCrashes' = 0 =>
          \A i \in CreditIntents : cst'[i] = "verified" => Move[i].request \in Transferred'
    BY <1>1 DEF CreditInv, TransfersAccounted, RecordsHonest
  <2>2. \A r \in RequestIds : record'[r] # Unrecorded =>
          \E i \in CreditIntents : Move[i].request = r /\ cst'[i] \in Sent
    BY DEF CreditInv, TransfersAccounted, RecordsHonest, Sent
  <2>3. AlwaysFinance' => \A r \in RequestIds : record'[r].by # Drafter
    BY DEF CreditInv, TransfersAccounted, RecordsHonest, AlwaysFinance
  <2> QED
    BY <2>1, <2>2, <2>3 DEF RecordsHonest, AlwaysFinance, FinanceRequired, Sent
<1>3. creditCrashes' = 0 => spent' >= MovedMoney'
  <2> SUFFICES ASSUME creditCrashes' = 0
               PROVE  spent' >= MovedMoney
    BY <1>1
  <2>1. spent >= MovedMoney /\ spent' >= spent
    BY DEF CreditInv, TransfersAccounted
  <2>2. spent \in Nat /\ spent' \in Nat
    BY DEF CreditInv, CreditTypes
  <2>3. MovedMoney \in Nat
    BY MoneyTyped
  <2> QED
    BY <2>1, <2>2, <2>3
<1> QED
  BY <1>2, <1>3 DEF CreditInv, TransfersAccounted

(* A step of one invocation, to a place where it transfers nothing.        *)
LEMMA CallGoes ==
  ASSUME CreditInv, NEW c \in CreditCalls, CreditOnly, UNCHANGED record,
         NEW a \in [pc : Stages, intent : CreditIntents \cup {Nobody}],
         at' = [at EXCEPT ![c] = a],
         cst' \in [CreditIntents -> CreditStates],
         \A i \in CreditIntents :
           /\ cst[i] \in Sent => cst'[i] \in Sent
           /\ cst'[i] = "verified" => cst[i] = "verified" \/ Move[i].request \in Transferred,
         spent' \in Nat, spent' >= spent,
         a.pc # "moving",
         a.pc # "idle" => a.intent \in CreditIntents,
         a.pc \in PastGate => cst'[a.intent] \in Sent,
         a.pc \in {"waiting_finance", "reading_finance"} => approvedBy[a.intent] # Drafter,
         AlwaysFinance => a.pc \notin {"waiting", "reading"}
  PROVE  CreditInv'
<1>1. CreditTypes'
  BY DEF CreditInv, CreditTypes, CreditOnly
<1>2. at'[c] = a /\ \A d \in CreditCalls \ {c} : at'[d] = at[d]
  BY DEF CreditInv, CreditTypes
<1>3. ASSUME NEW d \in CreditCalls
      PROVE  AtWork(d)'
  <2>1. CASE d = c
    BY <1>2, <2>1 DEF AtWork, Now, In, CreditOnly, PastGate
  <2>2. CASE d # c
    BY <1>2, <2>2 DEF CreditInv, AtWork, Now, In, CreditOnly, PastGate
  <2> QED
    BY <2>1, <2>2
<1>4. OneMover'
  BY <1>2 DEF CreditInv, OneMover, In, Now
<1>5. AlwaysFinance' <=> AlwaysFinance
  BY DEF AlwaysFinance, FinanceRequired, CreditOnly
<1>6. NoneOnItsOwn'
  BY <1>2, <1>5 DEF CreditInv, NoneOnItsOwn
<1> QED
  BY <1>1, <1>3, <1>4, <1>5, <1>6, RecordsKept DEF CreditOnly

(* A step on an intent the gate has not let through, or that expires.      *)
LEMMA IntentGoes ==
  ASSUME CreditInv, NEW i \in CreditIntents, UNCHANGED <<files, around, at>>,
         NEW target \in CreditStates \ {"verified"},
         cst[i] \in Sent => target \in Sent,
         cst' = [cst EXCEPT ![i] = target],
         approvedBy' \in [CreditIntents -> CreditApprovers \cup {Nobody}],
         \A j \in CreditIntents : cst[j] \in Sent => approvedBy'[j] = approvedBy[j]
  PROVE  CreditInv'
<1>1. CreditTypes'
  BY DEF CreditInv, CreditTypes, files, around
<1>2. \A j \in CreditIntents :
        /\ cst[j] \in Sent => cst'[j] \in Sent
        /\ cst'[j] = "verified" => cst[j] = "verified" \/ Move[j].request \in Transferred
  BY DEF CreditInv, CreditTypes
<1>3. ASSUME NEW d \in CreditCalls
      PROVE  AtWork(d)'
  BY <1>2 DEF CreditInv, AtWork, Now, In, files, PastGate
<1>4. OneMover' /\ NoneOnItsOwn' /\ (AlwaysFinance' => AlwaysFinance)
  BY DEF CreditInv, OneMover, NoneOnItsOwn, AlwaysFinance, FinanceRequired, around, In, Now
<1>5. creditCrashes' = 0 => creditCrashes = 0 /\ spent' >= spent
  BY DEF files, around, CreditInv, CreditTypes
<1> QED
  BY <1>1, <1>2, <1>3, <1>4, <1>5, RecordsKept DEF files

LEMMA BeginTransferInv ==
  ASSUME CreditInv, NEW c \in CreditCalls, NEW i \in CreditIntents,
         BeginTransferTool(c, i) \/ ExecuteTransfer(c, i)
  PROVE  CreditInv'
<1>1. CASE BeginTransferTool(c, i)
  <2> DEFINE a == [pc |-> "tool_validating", intent |-> i]
  <2>1. at' = [at EXCEPT ![c] = a] /\ a \in [pc : Stages, intent : CreditIntents \cup {Nobody}]
    BY <1>1 DEF BeginTransferTool, Go, Stages
  <2>2. cst[i] = "undrafted" /\ cst' = [cst EXCEPT ![i] = "draft"]
    BY <1>1 DEF BeginTransferTool
  <2>3. /\ cst' \in [CreditIntents -> CreditStates]
        /\ \A j \in CreditIntents :
             /\ cst[j] \in Sent => cst'[j] \in Sent
             /\ cst'[j] = "verified" => cst[j] = "verified"
    BY <2>2, CreditFacts DEF CreditTypes, CreditStates, Sent
  <2>4. CreditOnly /\ record' = record /\ spent' \in Nat /\ spent' >= spent
    BY <1>1, CreditFacts DEF BeginTransferTool, CreditOnly, files, around, CreditTypes
  <2>5. a.pc = "tool_validating" /\ a.intent = i
    OBVIOUS
  <2> HIDE DEF a
  <2> QED
    BY <2>1, <2>3, <2>4, <2>5, CallGoes DEF PastGate
<1>2. CASE ExecuteTransfer(c, i)
  <2>1. cst[i] = "approved" /\ UNCHANGED <<approvedBy, files, around>>
    BY <1>2 DEF ExecuteTransfer
  <2>2. CASE Go(c, "taxing", i) /\ UNCHANGED cst
    <3> DEFINE a == [pc |-> "taxing", intent |-> i]
    <3>1. at' = [at EXCEPT ![c] = a] /\ a \in [pc : Stages, intent : CreditIntents \cup {Nobody}]
      BY <2>2 DEF Go, Stages
    <3>2. a.pc = "taxing" /\ a.intent = i
      OBVIOUS
    <3>3. /\ CreditOnly /\ record' = record /\ spent' \in Nat /\ spent' >= spent
          /\ cst' \in [CreditIntents -> CreditStates]
      BY <2>1, <2>2, CreditFacts DEF CreditOnly, files, around, CreditTypes
    <3> HIDE DEF a
    <3> QED
      BY <2>2, <3>1, <3>2, <3>3, CallGoes DEF PastGate
  <2>3. CASE cst' = CreditMoved(i, "execution_blocked") /\ UNCHANGED at
    <3>1. cst' = [cst EXCEPT ![i] = "execution_blocked"]
      BY <2>1, <2>3 DEF CreditMoved, CreditStep
    <3> QED
      BY <2>1, <2>3, <3>1, CreditFacts, IntentGoes DEF CreditStates, Sent, CreditTypes
  <2> QED
    BY <1>2, <2>2, <2>3 DEF ExecuteTransfer
<1> QED
  BY <1>1, <1>2

(* An invocation that answers, whatever it leaves the intent as.           *)
LEMMA AnswerInv ==
  ASSUME CreditInv, NEW c \in CreditCalls, CreditOnly, UNCHANGED record,
         at[c].pc # "idle",
         spent' \in Nat, spent' >= spent,
         NEW target \in CreditStates \ {"verified"}, Reply(c, target) \/ Throw(c)
  PROVE  CreditInv'
<1>1. at' = [at EXCEPT ![c] = Unsuspended] /\ Now(c) \in CreditIntents
  BY CreditFacts DEF Reply, Throw, Now
<1>2. /\ cst' \in [CreditIntents -> CreditStates]
      /\ \A j \in CreditIntents :
           /\ cst[j] \in Sent => cst'[j] \in Sent
           /\ cst'[j] = "verified" => cst[j] = "verified"
  <2>1. CASE Reply(c, target)
    BY <1>1, <2>1, CreditMoves DEF Reply
  <2>2. CASE Throw(c)
    BY <2>2, CreditFacts DEF Throw, CreditTypes
  <2> QED
    BY <2>1, <2>2
<1> QED
  BY <1>1, <1>2, UnsuspendedTyped, CallGoes DEF PastGate

LEMMA ToolInv ==
  ASSUME CreditInv, NEW c \in CreditCalls, ToolValidated(c) \/ ToolTaxed(c)
  PROVE  CreditInv'
<1> DEFINE i == Now(c)
<1>1. /\ CreditOnly /\ record' = record /\ spent' \in Nat /\ spent' >= spent
      /\ at[c].pc # "idle" /\ i \in CreditIntents
  BY CreditFacts
     DEF ToolValidated, ToolTaxed, CreditOnly, files, around, CreditTypes, In, Now
<1> HIDE DEF i
<1>2. ASSUME NEW target \in {"rejected", "validated"}, Reply(c, target)
      PROVE  CreditInv'
  BY <1>1, <1>2, AnswerInv DEF CreditStates
<1>3. ASSUME Throw(c)
      PROVE  CreditInv'
  <2>1. "rejected" \in CreditStates \ {"verified"}
    BY DEF CreditStates
  <2> QED
    BY <1>1, <1>3, <2>1, AnswerInv
<1>4. ASSUME NEW pc \in {"tool_taxing", "taxing"}, Go(c, pc, i),
             NEW target \in {"validated", "approved"}, CreditStep(i, target),
             cst' = CreditMoved(i, target)
      PROVE  CreditInv'
  <2> DEFINE a == [pc |-> pc, intent |-> i]
  <2>1. at' = [at EXCEPT ![c] = a] /\ a \in [pc : Stages, intent : CreditIntents \cup {Nobody}]
    BY <1>1, <1>4 DEF Go, Stages
  <2>2. a.pc \in {"tool_taxing", "taxing"} /\ a.intent = i
    BY <1>4
  <2>3. /\ cst' \in [CreditIntents -> CreditStates]
        /\ \A j \in CreditIntents :
             /\ cst[j] \in Sent => cst'[j] \in Sent
             /\ cst'[j] = "verified" => cst[j] = "verified"
    BY <1>1, <1>4, CreditMoves DEF CreditStates
  <2> HIDE DEF a
  <2> QED
    BY <1>1, <2>1, <2>2, <2>3, CallGoes DEF PastGate
<1>5. ASSUME CreditStep(i, "approved"), cst' = [cst EXCEPT ![i] = "execution_blocked"],
             at' = [at EXCEPT ![c] = Unsuspended]
      PROVE  CreditInv'
  <2>1. /\ cst' \in [CreditIntents -> CreditStates]
        /\ \A j \in CreditIntents :
             /\ cst[j] \in Sent => cst'[j] \in Sent
             /\ cst'[j] = "verified" => cst[j] = "verified"
    BY <1>1, <1>5, CreditFacts DEF CreditTypes, CreditStates, Sent, CreditStep
  <2> QED
    BY <1>1, <1>5, <2>1, UnsuspendedTyped, CallGoes DEF PastGate
<1>6. CASE ToolValidated(c)
  BY <1>2, <1>4, <1>6 DEF ToolValidated, i
<1>7. CASE ToolTaxed(c)
  BY <1>3, <1>4, <1>5, <1>7 DEF ToolTaxed, i, CreditMoved
<1> QED
  BY <1>6, <1>7

LEMMA DraftedInv ==
  ASSUME CreditInv, NEW i \in CreditIntents, DraftTransfer(i) \/ PruneTransfer(i)
  PROVE  CreditInv'
<1>1. UNCHANGED <<files, around, at>> /\ UNCHANGED approvedBy
  BY DEF DraftTransfer, PruneTransfer
<1>2. PICK target \in {"validated", "gone"} :
        cst' = [cst EXCEPT ![i] = target] /\ (cst[i] \in Sent => target = "gone")
  BY DEF DraftTransfer, PruneTransfer, Sent
<1> QED
  BY <1>1, <1>2, IntentGoes, CreditFacts DEF CreditTypes, CreditStates, Sent

LEMMA ApprovedInv ==
  ASSUME CreditInv, NEW i \in CreditIntents, NEW who \in CreditApprovers,
         ApproveTransfer(i, who)
  PROVE  CreditInv'
<1>1. UNCHANGED <<files, around, at>> /\ cst[i] = "validated"
  BY DEF ApproveTransfer
<1>2. \/ cst' = [cst EXCEPT ![i] = "approved"] /\ approvedBy' = [approvedBy EXCEPT ![i] = who]
      \/ cst' = [cst EXCEPT ![i] = "rejected"] /\ UNCHANGED approvedBy
  BY <1>1 DEF ApproveTransfer, CreditMoved, CreditStep
<1>3. /\ approvedBy' \in [CreditIntents -> CreditApprovers \cup {Nobody}]
      /\ \A j \in CreditIntents : cst[j] \in Sent => approvedBy'[j] = approvedBy[j]
  BY <1>1, <1>2, CreditFacts DEF CreditTypes, Sent
<1> QED
  BY <1>1, <1>2, <1>3, IntentGoes DEF CreditStates, Sent

LEMMA VerifiedInv ==
  ASSUME CreditInv, NEW c \in CreditCalls, CreditOnly, UNCHANGED record,
         at[c].pc # "idle", Reply(c, "verified"),
         spent' \in Nat, spent' >= spent,
         Move[Now(c)].request \in Transferred
  PROVE  CreditInv'
<1> DEFINE i == Now(c)
<1>1. at' = [at EXCEPT ![c] = Unsuspended] /\ i \in CreditIntents /\ cst' = CreditMoved(i, "verified")
  BY CreditFacts DEF Reply, Now
<1> HIDE DEF i
<1>2. /\ cst' \in [CreditIntents -> CreditStates]
      /\ \A j \in CreditIntents :
           /\ cst[j] \in Sent => cst'[j] \in Sent
           /\ cst'[j] = "verified" => cst[j] = "verified" \/ j = i
  BY <1>1, CreditFacts DEF CreditTypes, CreditMoved, CreditStep, CreditStates, Sent
<1> QED
  BY <1>1, <1>2, UnsuspendedTyped, CallGoes DEF PastGate, i

LEMMA TaxAnsweredInv ==
  ASSUME CreditInv, NEW c \in CreditCalls, TaxAnswered(c)
  PROVE  CreditInv'
<1> DEFINE i == Now(c)
<1>1. /\ CreditOnly /\ record' = record /\ spent' \in Nat /\ spent' >= spent
      /\ at[c].pc # "idle" /\ i \in CreditIntents
  BY CreditFacts DEF TaxAnswered, CreditOnly, files, around, CreditTypes, In, Now
<1>2. "execution_blocked" \in CreditStates \ {"verified"}
  BY DEF CreditStates
<1>3. CASE Throw(c) \/ Reply(c, "execution_blocked")
  BY <1>1, <1>2, <1>3, AnswerInv
<1>4. ASSUME AuthorizedTransfer(i), CreditStep(i, "executed"), cst' = CreditMoved(i, "executed"),
             Go(c, IF FinanceRequired THEN "waiting_finance" ELSE "waiting", i)
      PROVE  CreditInv'
  <2> DEFINE pc == IF FinanceRequired THEN "waiting_finance" ELSE "waiting"
             a == [pc |-> pc, intent |-> i]
  <2>1. at' = [at EXCEPT ![c] = a] /\ a \in [pc : Stages, intent : CreditIntents \cup {Nobody}]
    BY <1>1, <1>4 DEF Go, Stages
  <2>2. a.pc = pc /\ a.intent = i /\ pc \in {"waiting", "waiting_finance"}
        /\ (FinanceRequired => pc = "waiting_finance")
    OBVIOUS
  <2> HIDE DEF a, pc, i
  <2>3. /\ cst' \in [CreditIntents -> CreditStates]
        /\ \A j \in CreditIntents :
             /\ cst[j] \in Sent => cst'[j] \in Sent
             /\ cst'[j] = "verified" => cst[j] = "verified"
    BY <1>1, <1>4, CreditMoves DEF CreditStates
  <2>4. cst'[i] \in Sent
    BY <1>1, <1>4, CreditFacts DEF CreditMoved, CreditTypes, Sent
  <2>5. approvedBy[i] # Drafter
    BY <1>4 DEF AuthorizedTransfer
  <2>6. AlwaysFinance => a.pc = "waiting_finance"
    BY <2>2 DEF AlwaysFinance
  <2> QED
    BY <1>1, <2>1, <2>2, <2>3, <2>4, <2>5, <2>6, CallGoes DEF PastGate
<1> QED
  BY <1>3, <1>4 DEF TaxAnswered

(* The gate has let the intent through that an invocation past it holds.   *)
LEMMA PastGateFacts ==
  ASSUME CreditInv, NEW c \in CreditCalls, at[c].pc \in PastGate
  PROVE  /\ at[c].pc # "idle" /\ Now(c) \in CreditIntents
         /\ cst[Now(c)] \in Sent
         /\ Move[Now(c)].request \in RequestIds
         /\ Move[Now(c)].amount \in Nat
  BY CreditFacts DEF CreditInv, AtWork, PastGate, Now

LEMMA ThrownInv ==
  ASSUME CreditInv, NEW c \in CreditCalls, CreditOnly, UNCHANGED record,
         at[c].pc # "idle", TransferThrows(c)
  PROVE  CreditInv'
<1>1. Reply(c, "failed") /\ spent' \in Nat /\ spent' >= spent
  BY CreditFacts DEF TransferThrows, CreditTypes
<1>2. "failed" \in CreditStates \ {"verified"}
  BY DEF CreditStates
<1> QED
  BY <1>1, <1>2, AnswerInv

LEMMA ConsultRecordInv ==
  ASSUME CreditInv, NEW c \in CreditCalls, ConsultRecord(c)
  PROVE  CreditInv'
<1> DEFINE i == Now(c)
           r == record[Move[i].request]
           known == r.state = "completed" /\ r.amount = Move[i].amount
           next == IF In(c, "waiting") THEN "reading" ELSE "reading_finance"
<1>1. /\ CreditOnly /\ record' = record
      /\ at[c].pc \in PastGate
      /\ next \in {"reading", "reading_finance"}
      /\ (next = "reading") => In(c, "waiting")
      /\ (next = "reading_finance") => In(c, "waiting_finance")
  BY DEF ConsultRecord, CreditOnly, around, In, PastGate
<1>2. /\ i \in CreditIntents /\ cst[i] \in Sent /\ at[c].pc # "idle"
      /\ Move[i].request \in RequestIds /\ Move[i].amount \in Nat
  BY <1>1, PastGateFacts
<1>3. ASSUME Go(c, next, i), UNCHANGED <<cst, keys, spent>>
      PROVE  CreditInv'
  <2> DEFINE a == [pc |-> next, intent |-> i]
  <2> HIDE DEF next, i
  <2>1. at' = [at EXCEPT ![c] = a] /\ a \in [pc : Stages, intent : CreditIntents \cup {Nobody}]
    BY <1>1, <1>2, <1>3 DEF Go, Stages
  <2>2. a.pc = next /\ a.intent = i
    OBVIOUS
  <2>3. spent' \in Nat /\ spent' >= spent /\ cst' \in [CreditIntents -> CreditStates]
    BY <1>3, CreditFacts DEF CreditTypes
  <2>4. a.pc = "reading_finance" => approvedBy[a.intent] # Drafter
    BY <1>1, <2>2 DEF CreditInv, AtWork, In, i
  <2>5. AlwaysFinance => a.pc # "reading"
    BY <1>1, <2>2 DEF CreditInv, NoneOnItsOwn, In
  <2> HIDE DEF a
  <2> QED
    BY <1>1, <1>2, <1>3, <2>1, <2>2, <2>3, <2>4, <2>5, CallGoes DEF PastGate
<1>4. ASSUME known, TransferReturns(c, "completed")
      PROVE  CreditInv'
  <2>1. Reply(c, "verified") /\ spent' = spent + Move[i].amount
    BY <1>4 DEF TransferReturns
  <2>2. spent' \in Nat /\ spent' >= spent
    BY <1>2, <2>1, CreditFacts DEF CreditTypes
  <2>3. Move[i].request \in Transferred
    BY <1>2, <1>4 DEF Transferred
  <2> QED
    BY <1>1, <1>2, <2>1, <2>2, <2>3, VerifiedInv
<1>5. ASSUME TransferThrows(c)
      PROVE  CreditInv'
  BY <1>1, <1>2, <1>5, ThrownInv
<1> QED
  BY <1>3, <1>4, <1>5 DEF ConsultRecord

LEMMA RecordTyped ==
  ASSUME CreditInv
  PROVE  /\ record \in [RequestIds -> TransferRecord]
         /\ \A q \in RequestIds :
              /\ record[q].amount \in Nat
              /\ record[q].state \in {"none", "open"} \cup Settled
  BY DEF CreditInv, CreditTypes, TransferRecord

(* The money of the completed transfers, when none is completed.           *)
LEMMA MoneySame ==
  ASSUME Transferred' = Transferred,
         \A q \in Transferred : record'[q].amount = record[q].amount
  PROVE  MovedMoney' = MovedMoney
<1>1. [q \in Transferred' |-> record'[q].amount] = [q \in Transferred |-> record[q].amount]
  OBVIOUS
<1> QED
  BY <1>1 DEF MovedMoney

(* And when one is.                                                        *)
LEMMA MoneyMore ==
  ASSUME CreditInv, NEW q \in RequestIds, q \notin Transferred,
         Transferred' = Transferred \cup {q},
         \A r \in RequestIds : record'[r].amount = record[r].amount
  PROVE  MovedMoney' = record[q].amount + MovedMoney
<1> DEFINE f == [r \in Transferred |-> record[r].amount]
           g == [r \in Transferred \cup {q} |-> record'[r].amount]
<1>1. Transferred \subseteq RequestIds
  BY DEF Transferred
<1>2. /\ DOMAIN f = Transferred /\ DOMAIN g = Transferred \cup {q}
      /\ \A r \in DOMAIN g : g[r] \in Nat
      /\ \A r \in DOMAIN f : g[r] = f[r]
      /\ g[q] = record[q].amount
  BY <1>1, RecordTyped
<1>3. MovedMoney = SumFunction(f) /\ MovedMoney' = SumFunction(g)
  BY DEF MovedMoney
<1> HIDE DEF f, g
<1>4. SumFunction(g) = g[q] + SumFunction(f)
  BY <1>2, TransferredFinite, SumOfExtended
<1> QED
  BY <1>2, <1>3, <1>4

LEMMA PutRecordInv ==
  ASSUME CreditInv, NEW c \in CreditCalls, PutRecord(c)
  PROVE  CreditInv'
<1> DEFINE i == Now(c)
           q == Move[i].request
           by == IF In(c, "reading") THEN Drafter ELSE approvedBy[i]
<1>1. CreditOnly /\ at[c].pc \in {"reading", "reading_finance"}
  BY DEF PutRecord, CreditOnly, around, In
<1>2. /\ i \in CreditIntents /\ cst[i] \in Sent /\ at[c].pc # "idle"
      /\ q \in RequestIds /\ Move[i].amount \in Nat
  BY <1>1, PastGateFacts DEF PastGate
<1>3. CASE TransferThrows(c) /\ UNCHANGED record
  BY <1>1, <1>2, <1>3, ThrownInv
<1>4. ASSUME record[q] = Unrecorded,
             record' = [record EXCEPT ![q] =
               [state |-> "open", amount |-> Move[i].amount, by |-> by]],
             Go(c, "moving", i),
             UNCHANGED <<cst, keys, spent>>
      PROVE  CreditInv'
  <2> DEFINE a == [pc |-> "moving", intent |-> i]
             new == [state |-> "open", amount |-> Move[i].amount, by |-> by]
  <2>1. /\ at' = [at EXCEPT ![c] = a]
        /\ a \in [pc : Stages, intent : CreditIntents \cup {Nobody}]
        /\ a.pc = "moving" /\ a.intent = i
    BY <1>2, <1>4 DEF Go, Stages
  <2>2. /\ by \in CreditApprovers \cup {Drafter, Nobody}
        /\ AlwaysFinance => by # Drafter
    <3>1. CASE In(c, "reading")
      BY <3>1 DEF CreditInv, NoneOnItsOwn, In
    <3>2. CASE ~In(c, "reading")
      BY <1>1, <1>2, <3>2 DEF CreditInv, CreditTypes, AtWork, In
    <3> QED
      BY <3>1, <3>2
  <2> HIDE DEF a, i, by
  <2>3. new \in TransferRecord /\ new.state = "open" /\ new.amount = Move[i].amount /\ new.by = by
    BY <1>2, <2>2 DEF TransferRecord
  <2> HIDE DEF new
  <2>4. /\ record' = [record EXCEPT ![q] = new]
        /\ record' \in [RequestIds -> TransferRecord]
        /\ record'[q] = new
        /\ \A r \in RequestIds \ {q} : record'[r] = record[r]
        /\ record[q].state = "none"
    BY <1>2, <1>4, <2>3, RecordTyped DEF new, Unrecorded
  <2> HIDE DEF q
  <2>5. Transferred' = Transferred /\ q \notin Transferred
    BY <1>2, <2>3, <2>4 DEF Transferred
  <2>6. MovedMoney' = MovedMoney
    <3>1. \A r \in Transferred : record'[r].amount = record[r].amount
      BY <2>4, <2>5 DEF Transferred
    <3> QED
      BY <2>5, <3>1, MoneySame
  <2>7. at'[c] = a /\ \A d \in CreditCalls \ {c} : at'[d] = at[d]
    BY <2>1, CreditFacts DEF CreditTypes
  <2>8. CreditTypes'
    BY <1>1, <1>4, <2>1, <2>4 DEF CreditInv, CreditTypes, CreditOnly
  <2>9. ASSUME NEW d \in CreditCalls, d # c, In(d, "moving")
        PROVE  Move[Now(d)].request # q
    BY <2>4, <2>9 DEF CreditInv, AtWork
  <2>10. \A d \in CreditCalls : AtWork(d)'
    <3>1. AtWork(c)'
      BY <1>1, <1>2, <1>4, <2>1, <2>3, <2>4, <2>7 DEF AtWork, Now, In, PastGate, q
    <3>2. ASSUME NEW d \in CreditCalls, d # c
          PROVE  AtWork(d)'
      <4>1. at'[d] = at[d] /\ cst' = cst /\ approvedBy' = approvedBy
        BY <1>1, <1>4, <2>7, <3>2 DEF CreditOnly
      <4>2. In(d, "moving") =>
              /\ Move[Now(d)].request \in RequestIds
              /\ record'[Move[Now(d)].request] = record[Move[Now(d)].request]
        BY <2>4, <2>9, <3>2, PastGateFacts DEF In, PastGate
      <4> QED
        BY <4>1, <4>2 DEF CreditInv, AtWork, Now, In
    <3> QED
      BY <3>1, <3>2
  <2>11. OneMover'
    BY <2>1, <2>7, <2>9 DEF CreditInv, OneMover, In, Now, q
  <2>12. AlwaysFinance' <=> AlwaysFinance
    BY <1>1 DEF AlwaysFinance, FinanceRequired, CreditOnly
  <2>13. NoneOnItsOwn'
    BY <2>1, <2>7, <2>12 DEF CreditInv, NoneOnItsOwn
  <2>14. RecordsHonest'
    <3>1. RecordsOnDisk \/ creditCrashes' = 0 =>
            \A j \in CreditIntents : cst'[j] = "verified" => Move[j].request \in Transferred'
      BY <1>1, <1>4, <2>5 DEF CreditOnly, CreditInv, TransfersAccounted, RecordsHonest
    <3>2. \A r \in RequestIds : record'[r] # Unrecorded =>
            \E j \in CreditIntents : Move[j].request = r /\ cst'[j] \in Sent
      BY <1>2, <1>4, <2>4 DEF CreditInv, TransfersAccounted, RecordsHonest, Sent, q
    <3>3. AlwaysFinance' => \A r \in RequestIds : record'[r].by # Drafter
      BY <2>2, <2>3, <2>4, <2>12
         DEF CreditInv, TransfersAccounted, RecordsHonest, AlwaysFinance
    <3> QED
      BY <3>1, <3>2, <3>3 DEF RecordsHonest, AlwaysFinance, FinanceRequired, Sent
  <2> QED
    BY <1>1, <1>4, <2>6, <2>8, <2>10, <2>11, <2>13, <2>14
       DEF CreditInv, TransfersAccounted, CreditOnly
<1> QED
  BY <1>3, <1>4 DEF PutRecord

(* The record of a running transfer ends in a state.                       *)
LEMMA RecordEnds ==
  ASSUME CreditInv, NEW c \in CreditCalls, In(c, "moving"), NEW state \in Settled,
         record' = [record EXCEPT ![Move[Now(c)].request].state = state]
  PROVE  /\ record' \in [RequestIds -> TransferRecord]
         /\ \A r \in RequestIds :
              /\ record'[r].by = record[r].by
              /\ record'[r] # Unrecorded => record[r] # Unrecorded
              /\ r # Move[Now(c)].request => record'[r] = record[r]
         /\ Transferred \subseteq Transferred'
         /\ state = "completed" =>
              /\ Move[Now(c)].request \in Transferred'
              /\ MovedMoney' = Move[Now(c)].amount + MovedMoney
         /\ state # "completed" => MovedMoney' = MovedMoney
<1> DEFINE q == Move[Now(c)].request
<1>1. /\ q \in RequestIds /\ q \notin Transferred
      /\ record[q].state = "open" /\ record[q].amount = Move[Now(c)].amount
  BY PastGateFacts DEF CreditInv, AtWork, In, PastGate, Transferred
<1>2. record[q] # Unrecorded
  BY <1>1 DEF Unrecorded
<1> HIDE DEF q
<1>3. /\ record'[q] = [record[q] EXCEPT !.state = state]
      /\ \A r \in RequestIds \ {q} : record'[r] = record[r]
  BY <1>1, RecordTyped DEF q
<1>4. /\ record'[q] \in TransferRecord /\ record'[q].state = state
      /\ record'[q].amount = record[q].amount /\ record'[q].by = record[q].by
  <2>1. record[q] \in TransferRecord
    BY <1>1, RecordTyped
  <2> HIDE DEF Settled
  <2> QED
    BY <1>3, <2>1 DEF TransferRecord
<1>5. record' \in [RequestIds -> TransferRecord]
  BY <1>3, <1>4, RecordTyped DEF q
<1>6. \A r \in RequestIds : record'[r].amount = record[r].amount /\ record'[r].by = record[r].by
  BY <1>3, <1>4
<1>7. Transferred' = IF state = "completed" THEN Transferred \cup {q} ELSE Transferred
  BY <1>1, <1>3, <1>4 DEF Transferred
<1>8. state = "completed" => MovedMoney' = record[q].amount + MovedMoney
  BY <1>1, <1>6, <1>7, MoneyMore
<1>9. state # "completed" => MovedMoney' = MovedMoney
  <2>1. \A r \in Transferred : record'[r].amount = record[r].amount
    BY <1>6 DEF Transferred
  <2> QED
    BY <1>7, <2>1, MoneySame
<1> QED
  BY <1>1, <1>2, <1>3, <1>5, <1>6, <1>7, <1>8, <1>9 DEF q

LEMMA ConcludeInv ==
  ASSUME CreditInv, NEW c \in CreditCalls, Conclude(c)
  PROVE  CreditInv'
<1> DEFINE i == Now(c)
           q == Move[i].request
<1>1. CreditOnly /\ at[c].pc = "moving" /\ In(c, "moving")
  BY DEF Conclude, CreditOnly, around, In
<1>2. /\ i \in CreditIntents /\ cst[i] \in Sent /\ at[c].pc # "idle"
      /\ q \in RequestIds /\ Move[i].amount \in Nat
  BY <1>1, PastGateFacts DEF PastGate
<1>3. CASE TransferThrows(c) /\ UNCHANGED record
  BY <1>1, <1>2, <1>3, ThrownInv
<1>4. ASSUME NEW state \in Settled,
             record' = [record EXCEPT ![q].state = state],
             TransferReturns(c, state)
      PROVE  CreditInv'
  <2>1. at' = [at EXCEPT ![c] = Unsuspended]
    BY <1>4 DEF TransferReturns, Reply
  <2>2. /\ cst' \in [CreditIntents -> CreditStates]
        /\ \A j \in CreditIntents :
             /\ cst[j] \in Sent => cst'[j] \in Sent
             /\ cst'[j] = "verified" => cst[j] = "verified" \/ (j = i /\ state = "completed")
    <3>1. \/ state = "completed" /\ cst' = CreditMoved(i, "verified")
          \/ cst' = CreditMoved(i, "failed")
          \/ cst' = CreditMoved(i, cst[i])
      BY <1>4 DEF TransferReturns, Reply
    <3>2. CreditMoved(i, cst[i]) = cst
      BY <1>2, CreditFacts DEF CreditMoved, CreditStep
    <3> HIDE DEF i
    <3> QED
      BY <1>2, <3>1, <3>2, CreditFacts DEF CreditTypes, CreditMoved, CreditStep, CreditStates, Sent
  <2>3. /\ spent' = IF state = "completed" THEN spent + Move[i].amount ELSE spent
        /\ spent' \in Nat
    BY <1>2, <1>4, CreditFacts DEF TransferReturns, CreditTypes
  <2>4. /\ record' \in [RequestIds -> TransferRecord]
        /\ \A r \in RequestIds :
             /\ record'[r].by = record[r].by
             /\ record'[r] # Unrecorded => record[r] # Unrecorded
             /\ r # q => record'[r] = record[r]
        /\ Transferred \subseteq Transferred'
        /\ state = "completed" => q \in Transferred' /\ MovedMoney' = Move[i].amount + MovedMoney
        /\ state # "completed" => MovedMoney' = MovedMoney
    BY <1>1, <1>4, RecordEnds
  <2>5. at'[c] = Unsuspended /\ \A d \in CreditCalls \ {c} : at'[d] = at[d]
    BY <2>1, CreditFacts DEF CreditTypes
  <2>6. CreditTypes'
    BY <1>1, <2>1, <2>2, <2>3, <2>4, UnsuspendedTyped DEF CreditInv, CreditTypes, CreditOnly
  <2>7. \A d \in CreditCalls : AtWork(d)'
    <3>1. AtWork(c)'
      BY <2>5, UnsuspendedTyped DEF AtWork, Now, In, PastGate
    <3>2. ASSUME NEW d \in CreditCalls, d # c
          PROVE  AtWork(d)'
      <4>1. at'[d] = at[d] /\ approvedBy' = approvedBy
        BY <1>1, <2>5, <3>2 DEF CreditOnly
      <4>2. In(d, "moving") =>
              /\ Move[Now(d)].request \in RequestIds
              /\ record'[Move[Now(d)].request] = record[Move[Now(d)].request]
        BY <1>1, <2>4, <3>2, PastGateFacts DEF CreditInv, OneMover, In, PastGate
      <4>3. at[d].pc \in PastGate => cst'[Now(d)] \in Sent
        BY <2>2, PastGateFacts
      <4> QED
        BY <4>1, <4>2, <4>3 DEF CreditInv, AtWork, Now, In
    <3> QED
      BY <3>1, <3>2
  <2>8. OneMover'
    BY <2>5, UnsuspendedTyped DEF CreditInv, OneMover, In, Now
  <2>9. AlwaysFinance' <=> AlwaysFinance
    BY <1>1 DEF AlwaysFinance, FinanceRequired, CreditOnly
  <2>10. NoneOnItsOwn'
    BY <2>5, <2>9, UnsuspendedTyped DEF CreditInv, NoneOnItsOwn
  <2>11. RecordsHonest'
    <3>1. RecordsOnDisk \/ creditCrashes' = 0 =>
            \A j \in CreditIntents : cst'[j] = "verified" => Move[j].request \in Transferred'
      BY <1>1, <2>2, <2>4 DEF CreditOnly, CreditInv, TransfersAccounted, RecordsHonest
    <3>2. \A r \in RequestIds : record'[r] # Unrecorded =>
            \E j \in CreditIntents : Move[j].request = r /\ cst'[j] \in Sent
      BY <2>2, <2>4 DEF CreditInv, TransfersAccounted, RecordsHonest, Sent
    <3>3. AlwaysFinance' => \A r \in RequestIds : record'[r].by # Drafter
      BY <2>4, <2>9 DEF CreditInv, TransfersAccounted, RecordsHonest, AlwaysFinance
    <3> QED
      BY <3>1, <3>2, <3>3 DEF RecordsHonest, AlwaysFinance, FinanceRequired, Sent
  <2>12. creditCrashes' = 0 => spent' >= MovedMoney'
    <3> HIDE DEF i
    <3>1. creditCrashes = 0 => spent >= MovedMoney
      BY DEF CreditInv, TransfersAccounted
    <3>2. spent \in Nat /\ MovedMoney \in Nat
      BY CreditFacts, MoneyTyped DEF CreditTypes
    <3> QED
      BY <1>1, <1>2, <2>3, <2>4, <3>1, <3>2 DEF CreditOnly
  <2> QED
    BY <2>6, <2>7, <2>8, <2>10, <2>11, <2>12 DEF CreditInv, TransfersAccounted
<1> QED
  BY <1>3, <1>4 DEF Conclude

LEMMA SetTaxInv ==
  ASSUME CreditInv, SetTax
  PROVE  CreditInv'
<1>1. UNCHANGED <<cst, approvedBy, keys, spent, record, at, creditCrashes>>
      /\ taxEdits' = taxEdits + 1 /\ taxed' = ~taxed
  BY DEF SetTax, files
<1>2. taxEdits' \in Nat /\ taxEdits' # 0
  BY <1>1, CreditFacts DEF CreditTypes
<1>3. taxed' \in BOOLEAN
  BY <1>1
<1>4. CreditTypes'
  BY <1>1, <1>2, <1>3 DEF CreditInv, CreditTypes
<1>5. AlwaysFinance' => AlwaysFinance
  BY <1>1, <1>2 DEF AlwaysFinance, FinanceRequired
<1>6. \A c \in CreditCalls : AtWork(c)'
  BY <1>1 DEF CreditInv, AtWork, Now, In
<1>7. OneMover' /\ NoneOnItsOwn'
  BY <1>1, <1>5 DEF CreditInv, OneMover, NoneOnItsOwn, Now, In
<1>8. creditCrashes' = 0 => creditCrashes = 0 /\ spent' >= spent
  BY <1>1, CreditFacts DEF CreditTypes
<1> QED
  BY <1>1, <1>4, <1>5, <1>6, <1>7, <1>8, RecordsKept

LEMMA ExpireKeyInv ==
  ASSUME CreditInv, NEW key, ExpireKey(key)
  PROVE  CreditInv'
<1>1. UNCHANGED <<cst, approvedBy, taxed, spent, record, at, taxEdits, creditCrashes>>
  BY DEF ExpireKey, around
<1>2. CreditTypes' /\ (\A c \in CreditCalls : AtWork(c)') /\ OneMover' /\ NoneOnItsOwn'
  BY <1>1 DEF CreditInv, CreditTypes, AtWork, OneMover, NoneOnItsOwn,
              AlwaysFinance, FinanceRequired, In, Now
<1>3. AlwaysFinance' <=> AlwaysFinance
  BY <1>1 DEF AlwaysFinance, FinanceRequired
<1>4. creditCrashes' = 0 => creditCrashes = 0 /\ spent' >= spent
  BY <1>1, CreditFacts DEF CreditTypes
<1> QED
  BY <1>1, <1>2, <1>3, <1>4, RecordsKept

LEMMA UnrecordedTyped ==
  Unrecorded \in TransferRecord /\ Unrecorded.state = "none" /\ Unrecorded.by = Nobody
  BY DEF Unrecorded, TransferRecord

LEMMA CrashedRecords ==
  ASSUME CrashTransfers
  PROVE  \/ UNCHANGED record
         \/ \E c \in CreditCalls, state \in Settled :
              In(c, "moving") /\ record' = [record EXCEPT ![Move[Now(c)].request].state = state]
         \/ ~RecordsOnDisk /\ record' = NoRecords
<1>1. record' \in IF RecordsOnDisk THEN {record} \cup Concluded ELSE {NoRecords}
  BY DEF CrashTransfers
<1>2. ASSUME record' \in Concluded
      PROVE  \E c \in CreditCalls, state \in Settled :
               In(c, "moving") /\ record' = [record EXCEPT ![Move[Now(c)].request].state = state]
  BY <1>2 DEF Concluded
<1> QED
  BY <1>1, <1>2

LEMMA CrashTransfersInv ==
  ASSUME CreditInv, CrashTransfers
  PROVE  CreditInv'
<1>1. /\ creditCrashes' = creditCrashes + 1
      /\ approvedBy' = [i \in CreditIntents |-> Nobody]
      /\ at' = [c \in CreditCalls |-> Unsuspended]
      /\ UNCHANGED <<taxed, taxEdits>>
      /\ spent' \in {spent, 0} /\ spent' \in Nat
  BY CreditFacts DEF CrashTransfers, CreditTypes
<1>2. /\ cst' \in [CreditIntents -> CreditStates]
      /\ \A j \in CreditIntents :
           /\ cst[j] \in Sent => cst'[j] \in Sent
           /\ cst'[j] = "verified" => cst[j] = "verified"
  BY CreditFacts DEF CrashTransfers, CreditTypes, CreditStates, Sent
<1>3. /\ record' \in [RequestIds -> TransferRecord]
      /\ \A r \in RequestIds :
           /\ record'[r].by \in {record[r].by, Nobody}
           /\ record'[r] # Unrecorded => record[r] # Unrecorded
      /\ RecordsOnDisk => Transferred \subseteq Transferred'
  <2>1. CASE UNCHANGED record
    BY <2>1, RecordTyped DEF Transferred
  <2>2. ASSUME NEW c \in CreditCalls, NEW state \in Settled, In(c, "moving"),
               record' = [record EXCEPT ![Move[Now(c)].request].state = state]
        PROVE  /\ record' \in [RequestIds -> TransferRecord]
               /\ \A r \in RequestIds :
                    /\ record'[r].by = record[r].by
                    /\ record'[r] # Unrecorded => record[r] # Unrecorded
               /\ Transferred \subseteq Transferred'
    BY <2>2, RecordEnds
  <2>3. CASE ~RecordsOnDisk /\ record' = NoRecords
    BY <2>3, UnrecordedTyped DEF NoRecords
  <2>4. \/ UNCHANGED record
        \/ \E c \in CreditCalls, state \in Settled :
             In(c, "moving") /\ record' = [record EXCEPT ![Move[Now(c)].request].state = state]
        \/ ~RecordsOnDisk /\ record' = NoRecords
    BY CrashedRecords
  <2> QED
    BY <2>1, <2>2, <2>3, <2>4
<1>4. creditCrashes' \in Nat /\ creditCrashes' # 0
  BY <1>1, CreditFacts DEF CreditTypes
<1>5. CreditTypes'
  BY <1>1, <1>2, <1>3, <1>4, UnsuspendedTyped DEF CreditInv, CreditTypes
<1>6. \A c \in CreditCalls : at'[c].pc = "idle"
  BY <1>1, UnsuspendedTyped
<1>7. (\A c \in CreditCalls : AtWork(c)') /\ OneMover' /\ NoneOnItsOwn'
  BY <1>6 DEF AtWork, OneMover, NoneOnItsOwn, In, PastGate
<1>8. AlwaysFinance' <=> AlwaysFinance
  BY <1>1 DEF AlwaysFinance, FinanceRequired
<1>9. RecordsHonest'
  <2>1. RecordsOnDisk \/ creditCrashes' = 0 =>
          \A j \in CreditIntents : cst'[j] = "verified" => Move[j].request \in Transferred'
    BY <1>2, <1>3, <1>4 DEF CreditInv, TransfersAccounted, RecordsHonest
  <2>2. \A r \in RequestIds : record'[r] # Unrecorded =>
          \E j \in CreditIntents : Move[j].request = r /\ cst'[j] \in Sent
    BY <1>2, <1>3 DEF CreditInv, TransfersAccounted, RecordsHonest, Sent
  <2>3. AlwaysFinance' => \A r \in RequestIds : record'[r].by # Drafter
    BY <1>3, <1>8, CreditFacts DEF CreditInv, TransfersAccounted, RecordsHonest, AlwaysFinance
  <2> QED
    BY <2>1, <2>2, <2>3 DEF RecordsHonest, AlwaysFinance, FinanceRequired, Sent
<1> QED
  BY <1>4, <1>5, <1>7, <1>9 DEF CreditInv, TransfersAccounted

LEMMA CreditStart == CreditInit => CreditInv
<1> SUFFICES ASSUME CreditInit
             PROVE  CreditInv
  OBVIOUS
<1>1. record = [r \in RequestIds |-> Unrecorded] /\ Unrecorded \in TransferRecord
      /\ Unrecorded.state = "none" /\ Unrecorded.by = Nobody
  BY UnrecordedTyped DEF CreditInit, NoRecords
<1>2. \A r \in RequestIds : record[r] = Unrecorded
  BY <1>1
<1>3. Transferred = {}
  BY <1>1, <1>2 DEF Transferred
<1>4. MovedMoney = 0
  <2> DEFINE f == [r \in Transferred |-> record[r].amount]
  <2>1. DOMAIN f = {}
    BY <1>3
  <2>2. MovedMoney = SumFunctionOnSet(f, DOMAIN f)
    BY DEF MovedMoney, SumFunction
  <2> HIDE DEF f
  <2> QED
    BY <2>1, <2>2, SumOfNone
<1>5. \A c \in CreditCalls : at[c].pc = "idle"
  BY UnsuspendedTyped DEF CreditInit
<1>6. CreditTypes
  BY <1>1, UnsuspendedTyped DEF CreditInit, CreditTypes, CreditStates
<1>7. RecordsHonest
  <2>1. \A i \in CreditIntents : cst[i] = "undrafted"
    BY DEF CreditInit
  <2>2. Nobody # Drafter
    BY CreditAssumption DEF CreditAssumption
  <2> QED
    BY <1>1, <1>2, <2>1, <2>2 DEF RecordsHonest
<1> QED
  BY <1>4, <1>5, <1>6, <1>7
     DEF CreditInit, CreditInv, AtWork, OneMover, NoneOnItsOwn, In, PastGate, TransfersAccounted

LEMMA CreditStepInv == CreditInv /\ [CreditNext]_creditVars => CreditInv'
<1> SUFFICES ASSUME CreditInv, [CreditNext]_creditVars
             PROVE  CreditInv'
  OBVIOUS
<1>1. ASSUME NEW c \in CreditCalls,
             \/ ToolValidated(c) \/ ToolTaxed(c) \/ TaxAnswered(c)
             \/ ConsultRecord(c) \/ PutRecord(c) \/ Conclude(c)
      PROVE  CreditInv'
  BY <1>1, ToolInv, TaxAnsweredInv, ConsultRecordInv, PutRecordInv, ConcludeInv
<1>2. CASE UNCHANGED creditVars
  <2>1. CreditTypes' /\ (\A c \in CreditCalls : AtWork(c)') /\ OneMover' /\ NoneOnItsOwn'
    BY <1>2 DEF creditVars, CreditInv, CreditTypes, AtWork, OneMover, NoneOnItsOwn,
                AlwaysFinance, FinanceRequired, In, Now
  <2>2. AlwaysFinance' <=> AlwaysFinance
    BY <1>2 DEF creditVars, AlwaysFinance, FinanceRequired
  <2>3. creditCrashes' = 0 => creditCrashes = 0 /\ spent' >= spent
    BY <1>2, CreditFacts DEF creditVars, CreditTypes
  <2> QED
    BY <1>2, <2>1, <2>2, <2>3, RecordsKept DEF creditVars
<1> QED
  BY <1>1, <1>2, BeginTransferInv, DraftedInv, ApprovedInv, SetTaxInv, ExpireKeyInv,
     CrashTransfersInv DEF CreditNext

(* The inductive invariant of governed credit transfers: an invocation past*)
(* the gate holds an intent that is never free again, the one that         *)
(* transfers holds the only open record of its request, and the records    *)
(* and the day's total say what happened.                                  *)
THEOREM CreditCorrect == CreditSpec => []CreditInv
  BY CreditStart, CreditStepInv, PTL DEF CreditSpec

(* Verified intents have their transfer, records have an intent that was   *)
(* let through and, with finance approval required, never the drafter      *)
(* behind them, and the daily total holds what was moved.                  *)
THEOREM MoneyAccounted == CreditSpec => []TransfersAccounted
<1>1. CreditInv => TransfersAccounted
  BY DEF CreditInv
<1> QED
  BY <1>1, CreditCorrect, PTL

-----------------------------------------------------------------------------
(* What TransferIntents takes for granted of CreditTransfer's records.     *)

(* A request is put on record once, open, with the amount of one of its    *)
(* intents; an open record is settled once; a settled one stays, unless the*)
(* records have no file and a crash loses them.                            *)
RecordTurns(r) ==
  \/ record'[r] = record[r]
  \/ /\ record[r] = Unrecorded
     /\ record'[r].state = "open"
     /\ \E i \in CreditIntents : Move[i].request = r /\ record'[r].amount = Move[i].amount
  \/ /\ record[r].state = "open"
     /\ \E state \in Settled : record'[r] = [record[r] EXCEPT !.state = state]
  \/ /\ ~RecordsOnDisk /\ creditCrashes' = creditCrashes + 1
     /\ record'[r] = Unrecorded

LEMMA RecordStepTurns ==
  ASSUME CreditInv, [CreditNext]_creditVars, NEW r \in RequestIds
  PROVE  RecordTurns(r)
<1>1. ASSUME NEW c \in CreditCalls, NEW state \in Settled, In(c, "moving"),
             record' = [record EXCEPT ![Move[Now(c)].request].state = state]
      PROVE  RecordTurns(r)
  <2>1. record[Move[Now(c)].request].state = "open"
    BY <1>1 DEF CreditInv, AtWork
  <2>2. record \in [RequestIds -> TransferRecord]
    BY CreditFacts DEF CreditTypes
  <2>3. CASE r = Move[Now(c)].request
    <3>1. record'[r] = [record[r] EXCEPT !.state = state]
      BY <1>1, <2>2, <2>3
    <3> QED
      BY <2>1, <2>3, <3>1 DEF RecordTurns
  <2>4. CASE r # Move[Now(c)].request
    BY <1>1, <2>2, <2>4 DEF RecordTurns
  <2> QED
    BY <2>3, <2>4
<1>2. ASSUME NEW c \in CreditCalls, PutRecord(c) PROVE RecordTurns(r)
  <2>1. CASE UNCHANGED record
    BY <2>1 DEF RecordTurns
  <2>2. CASE ~UNCHANGED record
    <3>1. /\ Now(c) \in CreditIntents
          /\ record[Move[Now(c)].request] = Unrecorded
      BY <1>2, <2>2, CreditFacts DEF PutRecord, Now, In
    <3>2. PICK by : record' = [record EXCEPT ![Move[Now(c)].request] =
                                 [state |-> "open", amount |-> Move[Now(c)].amount, by |-> by]]
      BY <1>2, <2>2 DEF PutRecord
    <3>3. record \in [RequestIds -> TransferRecord]
      BY CreditFacts DEF CreditTypes
    <3> QED
      BY <3>1, <3>2, <3>3 DEF RecordTurns
  <2> QED
    BY <2>1, <2>2
<1>3. ASSUME NEW c \in CreditCalls, Conclude(c) PROVE RecordTurns(r)
  BY <1>1, <1>3 DEF Conclude, RecordTurns
<1>4. ASSUME CrashTransfers PROVE RecordTurns(r)
  <2>1. CASE UNCHANGED record
    BY <2>1 DEF RecordTurns
  <2>2. CASE ~RecordsOnDisk /\ record' = NoRecords
    BY <1>4, <2>2 DEF RecordTurns, NoRecords, CrashTransfers
  <2>3. \/ UNCHANGED record
        \/ \E c \in CreditCalls, state \in Settled :
             In(c, "moving") /\ record' = [record EXCEPT ![Move[Now(c)].request].state = state]
        \/ ~RecordsOnDisk /\ record' = NoRecords
    BY <1>4, CrashedRecords
  <2> QED
    BY <1>1, <2>1, <2>2, <2>3
<1>5. ASSUME UNCHANGED record PROVE RecordTurns(r)
  BY <1>5 DEF RecordTurns
<1>6. ASSUME NEW c \in CreditCalls,
             ToolValidated(c) \/ ToolTaxed(c) \/ TaxAnswered(c) \/ ConsultRecord(c)
      PROVE  UNCHANGED record
  BY <1>6 DEF ToolValidated, ToolTaxed, TaxAnswered, ConsultRecord, files
<1>7. ASSUME NEW c \in CreditCalls, NEW i \in CreditIntents,
             BeginTransferTool(c, i) \/ ExecuteTransfer(c, i)
      PROVE  UNCHANGED record
  BY <1>7 DEF BeginTransferTool, ExecuteTransfer, files
<1>8. ASSUME \/ SetTax \/ UNCHANGED creditVars
             \/ \E i \in CreditIntents :
                  DraftTransfer(i) \/ PruneTransfer(i) \/ ExpireKey(Move[i].key)
             \/ \E i \in CreditIntents, who \in CreditApprovers : ApproveTransfer(i, who)
      PROVE  UNCHANGED record
  BY <1>8 DEF SetTax, creditVars, DraftTransfer, PruneTransfer, ExpireKey, ApproveTransfer, files
<1> QED
  BY <1>2, <1>3, <1>4, <1>5, <1>6, <1>7, <1>8 DEF CreditNext

(* The records of TransferIntents, which stand for the whole transfer that *)
(* CreditTransfer details, turn as the outcomes of TransferOnce do, which  *)
(* CreditTransfer implements.                                              *)
THEOREM RecordsTurnOnce == CreditSpec => [][\A r \in RequestIds : RecordTurns(r)]_record
<1>1. CreditInv /\ [CreditNext]_creditVars
        => [\A r \in RequestIds : RecordTurns(r)]_record
  BY RecordStepTurns
<1> QED
  BY <1>1, CreditCorrect, PTL DEF CreditSpec
=============================================================================
