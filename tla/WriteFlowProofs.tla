-------------------------- MODULE WriteFlowProofs --------------------------
(***************************************************************************)
(* Proofs about WriteFlow for every value of its constants: that it keeps  *)
(* its types, dispatches an intent at most once and on record, implements  *)
(* WriteOnce, authorizes each dispatch at the step that makes it, with a   *)
(* durable ledger keeps two of one request a window apart, stores of a     *)
(* settled write what WHMCS answered, and keeps a day's spending within    *)
(* the daily cap and what the other calls can carry.  The argument for     *)
(* WriteOnce has one shape: a step either dispatches nothing and reopens   *)
(* nothing, or it dispatches one open intent, puts it on record and closes *)
(* it.                                                                     *)
(***************************************************************************)
EXTENDS WriteFlow, SumTheorems, TLAPS

(* The conjuncts of TypeOK a run of a handler can disturb.                 *)
LedgerOK(l) == \A e \in l : e.expires \in Nat /\ e.expires <= now + Window

CallsOK(k) == k \in [Calls -> {Idle} \cup Suspended]

Store == [Intents -> StoreState]

LEMMA MovedType ==
  ASSUME NEW s \in Store, NEW i \in Intents,
         NEW t \in WriteIntentState
  PROVE  Moved(s, i, t) \in Store
  BY DEF Moved, Store, StoreState

LEMMA SuspendType ==
  ASSUME CallsOK(call), NEW c \in Calls, NEW i \in Intents,
         NEW pc \in Pc \ {"idle"}, Suspend(c, pc, i)
  PROVE  CallsOK(call')
  BY DEF CallsOK, Suspend, Suspended

LEMMA ReturnType ==
  ASSUME CallsOK(call), NEW c \in Calls, Return(c)
  PROVE  CallsOK(call')
  BY DEF CallsOK, Return

LEMMA RecordedType ==
  ASSUME TypeOK, NEW i \in Intents
  PROVE  LedgerOK(Recorded(i))
  BY ConfigAssumption DEF ConfigAssumption, TypeOK, LedgerOK, Recorded

(* The suspended invocation of a busy call works on a real intent.         *)
LEMMA BusyIntent ==
  ASSUME TypeOK, NEW c \in Calls, ~At(c, "idle")
  PROVE  call[c].intent \in Intents
  BY DEF TypeOK, At, Idle, Suspended

(* What the execute path leaves behind, whatever store it starts from.     *)
PathOK ==
  /\ st' \in Store
  /\ LedgerOK(ledger')
  /\ journal' \subseteq Intents
  /\ CallsOK(call')
  /\ sent' \in [Intents -> Nat]
  /\ sentAt' \in [Intents -> Nat]

LEMMA QuietPath ==
  ASSUME TypeOK, NEW c \in Calls, st' \in Store, Return(c), UNCHANGED effects
  PROVE  PathOK
<1>1. CallsOK(call')
  BY ReturnType DEF TypeOK, CallsOK
<1> QED
  BY <1>1 DEF PathOK, TypeOK, LedgerOK, effects

LEMMA CommitType ==
  ASSUME TypeOK, NEW c \in Calls, NEW i \in Intents, NEW s \in Store,
         Commit(c, i, s)
  PROVE  PathOK
<1>1. CASE RefuseUnaudited(c, i, s)
  <2>1. st' \in Store
    BY <1>1, MovedType DEF RefuseUnaudited, WriteIntentState
  <2> QED
    BY <1>1, <2>1, QuietPath DEF RefuseUnaudited
<1>2. CASE /\ AppendDurable(i)
           /\ ledger' = Recorded(i)
           /\ Overtaken(c, i, s) \/ MapperThrows(c, i, s) \/ Mutate(c, i, s)
  <2>1. LedgerOK(ledger') /\ journal' \subseteq Intents
    BY <1>2, RecordedType DEF AppendDurable, TypeOK
  <2>2. CASE Overtaken(c, i, s) \/ MapperThrows(c, i, s)
    <3>1. CallsOK(call')
      BY <2>2, ReturnType DEF TypeOK, CallsOK, Overtaken, MapperThrows
    <3>2. st' \in Store
      BY <2>2 DEF Overtaken, MapperThrows, Store, StoreState, WriteIntentState
    <3> QED
      BY <2>1, <2>2, <3>1, <3>2 DEF PathOK, TypeOK, Overtaken, MapperThrows
  <2>3. CASE Mutate(c, i, s)
    <3>1. CallsOK(call')
      BY <2>3, SuspendType DEF TypeOK, CallsOK, Pc, Mutate
    <3>2. st' \in Store
      BY <2>3 DEF Mutate, Store, StoreState, WriteIntentState
    <3> QED
      BY <2>1, <2>3, <3>1, <3>2 DEF PathOK, TypeOK, Mutate
  <2> QED
    BY <1>2, <2>2, <2>3
<1> QED
  BY <1>1, <1>2 DEF Commit

LEMMA ExecuteRunType ==
  ASSUME TypeOK, NEW c \in Calls, NEW i \in Intents, NEW s \in Store,
         ExecuteRun(c, i, s)
  PROVE  PathOK
<1>1. CASE st' = s /\ Return(c) /\ UNCHANGED effects
  BY <1>1, QuietPath
<1>2. CASE st' = Moved(s, i, "execution_blocked") /\ Return(c) /\ UNCHANGED effects
  <2>1. st' \in Store
    BY <1>2, MovedType DEF WriteIntentState
  <2> QED
    BY <1>2, <2>1, QuietPath
<1>3. CASE st' = s /\ Suspend(c, "prechecking", i) /\ UNCHANGED effects
  <2>1. CallsOK(call')
    BY <1>3, SuspendType DEF TypeOK, CallsOK, Pc
  <2> QED
    BY <1>3, <2>1 DEF PathOK, TypeOK, LedgerOK, effects
<1>4. CASE Commit(c, i, s)
  BY <1>4, CommitType
<1> QED
  BY <1>1, <1>2, <1>3, <1>4, Zenon DEF ExecuteRun, NotApproved, Denied, Allowed

LEMMA RestartType ==
  ASSUME TypeOK, NEW s \in Store, NEW l, LedgerOK(l), Restart(s, l),
         journal' \subseteq Intents
  PROVE  TypeOK'
<1>1. Lost(s) \in Store
  BY DEF Lost, Store, StoreState
<1>2. st' \in Store
  BY <1>1 DEF Restart
<1>3. LedgerOK(ledger')
  BY DEF Restart, LedgerOK
<1> QED
  BY <1>2, <1>3 DEF Restart, TypeOK, Store, LedgerOK, policy

(* A step of the execute path that leaves the rest alone keeps the types.  *)
LEMMA PathType ==
  ASSUME TypeOK, PathOK, UNCHANGED <<now, stored, policy, money, crashes>>
  PROVE  TypeOK'
  BY DEF TypeOK, PathOK, LedgerOK, CallsOK, Store, stored, policy, money

(* Every variable keeps its type, whatever the callers, WHMCS, the         *)
(* operators and the crashes do.                                           *)
THEOREM TypeCorrect == Spec => []TypeOK
<1>1. Init => TypeOK
  BY ConfigAssumption DEF Init, TypeOK, StoreState, ConfigAssumption
<1>2. TypeOK /\ [Next]_vars => TypeOK'
  <2> SUFFICES ASSUME TypeOK, [Next]_vars PROVE TypeOK'
    OBVIOUS
  <2> USE DEF TypeOK
  <2>1. ASSUME NEW i \in Intents, Draft(i) PROVE TypeOK'
    BY <2>1 DEF Draft, StoreState, WriteIntentState, policy, effects, money
  <2>2. ASSUME NEW c \in Calls, NEW i \in Intents, BeginValidate(c, i)
        PROVE  TypeOK'
    <3>1. CallsOK(call')
      BY <2>2, SuspendType DEF BeginValidate, CallsOK, Pc
    <3> QED
      BY <2>2, <3>1
         DEF BeginValidate, CallsOK, stored, policy, effects, money
  <2>3. ASSUME NEW c \in Calls, NEW ok \in BOOLEAN, EndValidate(c, ok)
        PROVE  TypeOK'
    <3>1. call[c].intent \in Intents
      BY <2>3, BusyIntent DEF EndValidate, At
    <3>2. st' \in Store
      BY <2>3, <3>1, MovedType DEF EndValidate, Store, WriteIntentState
    <3> QED
      BY <2>3, <3>2, QuietPath, PathType DEF EndValidate
  <2>4. ASSUME NEW i \in Intents, NEW who \in Approvers, NEW yes \in BOOLEAN,
               Approve(i, who, yes)
        PROVE  TypeOK'
    BY <2>4, ConfigAssumption
       DEF Approve, StoreState, WriteIntentState, policy, effects, money,
           ConfigAssumption
  <2>5. ASSUME NEW c \in Calls, NEW i \in Intents, Execute(c, i) PROVE TypeOK'
    BY <2>5, ExecuteRunType, PathType DEF Execute, Store
  <2>6. ASSUME NEW c \in Calls, NEW ok \in BOOLEAN, EndPrecheck(c, ok)
        PROVE  TypeOK'
    <3>1. call[c].intent \in Intents
      BY <2>6, BusyIntent DEF EndPrecheck, At
    <3>2. PathOK
      <4>1. CASE ok
        BY <2>6, <3>1, <4>1, CommitType DEF EndPrecheck, Store
      <4>2. CASE ~ok
        <5>1. /\ st' = Moved(st, call[c].intent, "execution_blocked")
              /\ Return(c) /\ UNCHANGED effects
          BY <2>6, <4>2, Zenon DEF EndPrecheck
        <5>2. st' \in Store
          BY <5>1, <3>1, MovedType DEF Store, WriteIntentState
        <5> QED
          BY <5>1, <5>2, QuietPath
      <4> QED
        BY <4>1, <4>2
    <3> QED
      BY <2>6, <3>2, PathType DEF EndPrecheck
  <2>7. ASSUME NEW c \in Calls, NEW i \in Intents, BeginWrite(c, i)
        PROVE  TypeOK'
    <3>1. CallsOK(call')
      BY <2>7, SuspendType DEF BeginWrite, CallsOK, Pc
    <3> QED
      BY <2>7, <3>1 DEF BeginWrite, CallsOK, StoreState, WriteIntentState,
                        policy, effects, money
  <2>8. ASSUME NEW c \in Calls, NEW ok \in BOOLEAN, WriteValidated(c, ok)
        PROVE  TypeOK'
    <3> DEFINE i == call[c].intent
               t == IF ok THEN "validated" ELSE "rejected"
    <3>1. i \in Intents /\ t \in WriteIntentState
      BY <2>8, BusyIntent DEF WriteValidated, At, WriteIntentState
    <3>2. /\ [st EXCEPT ![i] = "approved"] \in Store
          /\ [st EXCEPT ![i] = "validated"] \in Store
      BY DEF Store, StoreState, WriteIntentState
    <3>3. PathOK
      <4>1. CASE st' = Moved(st, i, t) /\ Return(c) /\ UNCHANGED effects
        <5>1. st' \in Store
          BY <4>1, <3>1, MovedType DEF Store
        <5> QED
          BY <4>1, <5>1, QuietPath
      <4>2. CASE /\ st' = [st EXCEPT ![i] = "validated"]
                 /\ Suspend(c, "eliciting", i)
                 /\ UNCHANGED effects
        <5>1. CallsOK(call')
          BY <4>2, <3>1, SuspendType DEF CallsOK, Pc
        <5> QED
          BY <4>2, <5>1, <3>2 DEF PathOK, LedgerOK, effects
      <4>3. CASE ExecuteRun(c, i, [st EXCEPT ![i] = "approved"])
        BY <4>3, <3>1, <3>2, ExecuteRunType
      <4> QED
        BY <2>8, <4>1, <4>2, <4>3 DEF WriteValidated
    <3> QED
      BY <2>8, <3>3, PathType DEF WriteValidated
  <2>9. ASSUME NEW c \in Calls, NEW proceed \in BOOLEAN,
               EndElicitation(c, proceed)
        PROVE  TypeOK'
    <3> DEFINE i == call[c].intent
    <3>1. i \in Intents
      BY <2>9, BusyIntent DEF EndElicitation, At
    <3>2. [st EXCEPT ![i] = "approved"] \in Store /\ st \in Store
      BY DEF Store, StoreState, WriteIntentState
    <3>3. Moved(st, i, "rejected") \in Store
      BY <3>1, <3>2, MovedType DEF WriteIntentState
    <3>4. PathOK
      <4>1. CASE /\ st' = IF proceed THEN st ELSE Moved(st, i, "rejected")
                 /\ Return(c)
                 /\ UNCHANGED effects
        BY <4>1, <3>2, <3>3, QuietPath
      <4>2. CASE ExecuteRun(c, i, [st EXCEPT ![i] = "approved"])
        BY <4>2, <3>1, <3>2, ExecuteRunType
      <4> QED
        BY <2>9, <4>1, <4>2 DEF EndElicitation
    <3> QED
      BY <2>9, <3>4, PathType DEF EndElicitation
  <2>10. ASSUME NEW c \in Calls, MutateSucceeds(c) PROVE TypeOK'
    <3>1. call[c].intent \in Intents
      BY <2>10, BusyIntent DEF MutateSucceeds, At
    <3>2. CallsOK(call')
      BY <2>10, <3>1, SuspendType DEF MutateSucceeds, CallsOK, Pc
    <3>3. /\ ActionOf(call[c].intent) \in Actions
          /\ Request[call[c].intent].amount \in Nat
      BY <3>1, ConfigAssumption DEF ConfigAssumption, ActionOf, Actions
    <3>4. 1 + Day(now) \in Nat
      <4>1. DayLength \in Nat /\ DayLength > 0
        BY ConfigAssumption DEF ConfigAssumption
      <4> QED
        BY <4>1 DEF Day
    <3>5. tally' \in [Actions -> Nat] /\ paidOn' \in [Intents -> Nat]
      BY <2>10, <3>1, <3>3, <3>4 DEF MutateSucceeds
    <3> QED
      BY <2>10, <3>2, <3>5 DEF MutateSucceeds, CallsOK, stored, policy, effects
  <2>11. ASSUME NEW c \in Calls, MutateFails(c) PROVE TypeOK'
    <3>1. call[c].intent \in Intents
      BY <2>11, BusyIntent DEF MutateFails, At
    <3>2. st' \in Store
      BY <2>11, <3>1, MovedType DEF MutateFails, Store, WriteIntentState
    <3> QED
      BY <2>11, <3>2, QuietPath, PathType DEF MutateFails
  <2>12. ASSUME NEW c \in Calls, NEW ok \in BOOLEAN, EndVerify(c, ok)
         PROVE  TypeOK'
    <3>1. call[c].intent \in Intents
      BY <2>12, BusyIntent DEF EndVerify, At
    <3>2. st' \in Store
      BY <2>12, <3>1, MovedType DEF EndVerify, Store, WriteIntentState
    <3> QED
      BY <2>12, <3>2, QuietPath, PathType DEF EndVerify
  <2>13. ASSUME Prune PROVE TypeOK'
    BY <2>13 DEF Prune, StoreState, stored, policy, effects, money
  <2>14. ASSUME NEW s \in Edited, EditRegistry(s) \/ EditAllowlist(s)
         PROVE  TypeOK'
    BY <2>14, ConfigAssumption
       DEF ConfigAssumption, EditRegistry, EditAllowlist, Toggle, stored, effects, money
  <2>15. ASSUME Tick PROVE TypeOK'
    <3>1. now' \in Nat /\ tally' \in [Actions -> Nat]
      BY <2>15 DEF Tick
    <3>2. Window \in Nat
      BY ConfigAssumption DEF ConfigAssumption
    <3>3. \A e \in ledger' : e.expires \in Nat /\ e.expires <= now' + Window
      BY <2>15, <3>2 DEF Tick, effects
    <3> QED
      BY <2>15, <3>1, <3>3 DEF Tick, stored, policy, effects
  <2>16. ASSUME Crash PROVE TypeOK'
    BY <2>16, RestartType DEF Crash, Store, LedgerOK
  <2>17. ASSUME NEW i \in Intents, CrashInCommit(i) PROVE TypeOK'
    <3> DEFINE s == [st EXCEPT ![i] = IF @ \in {"draft", "validated"}
                                      THEN "approved" ELSE @]
    <3>1. s \in Store
      BY DEF Store, StoreState, WriteIntentState
    <3>2. Moved(s, i, "executed") \in Store
      BY <3>1, MovedType DEF WriteIntentState
    <3>3. LedgerOK(ledger) /\ LedgerOK(Recorded(i))
      BY RecordedType DEF LedgerOK
    <3>4. journal' \subseteq Intents
      BY <2>17 DEF CrashInCommit, AppendDurable
    <3> HIDE DEF s
    <3> QED
      BY <2>17, <3>1, <3>2, <3>3, <3>4, RestartType DEF CrashInCommit, s
  <2>18. CASE UNCHANGED vars
    BY <2>18 DEF vars, policy
  <2> QED
    BY <2>1, <2>2, <2>3, <2>4, <2>5, <2>6, <2>7, <2>8, <2>9, <2>10, <2>11,
       <2>12, <2>13, <2>14, <2>15, <2>16, <2>17, <2>18 DEF Next
<1> QED
  BY <1>1, <1>2, PTL DEF Spec

-----------------------------------------------------------------------------
(* One dispatch, on record.                                                *)

Open == {"undrafted", "draft", "validated", "approved"}

(* The states an intent that was handed to WHMCS can be seen in.           *)
Fin == {"executed", "verified", "failed", "gone"}

(* The stores s holds nothing that st had closed or finished as open.      *)
Keeps(s, t) ==
  \A j \in Intents : /\ s[j] \notin Open => t[j] \notin Open
                     /\ s[j] \in Fin => t[j] \in Fin

(* The store a handler has reached when it enters the execute path: only   *)
(* the intent in hand may have moved, and only from open to open.          *)
Ahead(i, s) ==
  \A j \in Intents :
    s[j] = st[j] \/ (j = i /\ st[i] \in Open /\ s[i] \in Open)

QuietStep ==
  /\ UNCHANGED sent
  /\ journal' = journal \/ \E i \in Intents : journal' = journal \cup {i}
  /\ Keeps(st, st')

DispatchStep(i) ==
  /\ st[i] \in Open
  /\ journal' = journal \cup {i}
  /\ sent' = [sent EXCEPT ![i] = @ + 1]
  /\ st'[i] = "executed"
  /\ \A j \in Intents \ {i} : st'[j] = st[j]

Shape == QuietStep \/ \E i \in Intents : DispatchStep(i)

LEMMA MovedKeeps ==
  ASSUME NEW s \in Store, NEW i \in Intents, NEW t \in WriteIntentState \ {"draft"}
  PROVE  Keeps(s, Moved(s, i, t))
  BY DEF Keeps, Moved, CanMove, TRANSITIONS, Store, StoreState,
         WriteIntentState, Open, Fin

LEMMA AheadKeeps ==
  ASSUME NEW i \in Intents, NEW s \in Store, NEW t \in Store, Ahead(i, s),
         Keeps(s, t)
  PROVE  Keeps(st, t)
  BY DEF Keeps, Ahead, Open, Fin

LEMMA CommitShape ==
  ASSUME NEW c \in Calls, NEW i \in Intents, NEW s \in Store, st \in Store,
         Ahead(i, s), Commit(c, i, s)
  PROVE  Shape
<1>0. s \in Store /\ Keeps(st, s)
  BY DEF Keeps, Ahead, Open, Fin
<1>1. CASE RefuseUnaudited(c, i, s)
  <2>1. st' \in Store /\ Keeps(s, st')
    BY <1>1, MovedType, MovedKeeps DEF RefuseUnaudited, WriteIntentState
  <2> QED
    BY <1>1, <2>1, AheadKeeps DEF Shape, QuietStep, RefuseUnaudited, effects
<1>2. CASE AppendDurable(i) /\ Overtaken(c, i, s)
  BY <1>0, <1>2 DEF Shape, QuietStep, AppendDurable, Overtaken
<1>3. CASE AppendDurable(i) /\ MapperThrows(c, i, s)
  <2>1. st' \in Store /\ Keeps(s, st')
    BY <1>3 DEF MapperThrows, CanMove, TRANSITIONS, Keeps, Store, StoreState,
                WriteIntentState, Open, Fin
  <2> QED
    BY <1>3, <2>1, AheadKeeps
       DEF Shape, QuietStep, AppendDurable, MapperThrows
<1>4. CASE AppendDurable(i) /\ Mutate(c, i, s)
  <2>1. s[i] = "approved"
    BY <1>4 DEF Mutate, CanMove, TRANSITIONS, Store, StoreState, WriteIntentState
  <2>2. st[i] \in Open
    BY <2>1 DEF Ahead, Open
  <2>3. st'[i] = "executed" /\ \A j \in Intents \ {i} : st'[j] = st[j]
    BY <1>4 DEF Mutate, Store, Ahead
  <2> QED
    BY <1>4, <2>2, <2>3 DEF Shape, DispatchStep, AppendDurable, Mutate
<1> QED
  BY <1>1, <1>2, <1>3, <1>4 DEF Commit

LEMMA ExecuteRunShape ==
  ASSUME NEW c \in Calls, NEW i \in Intents, NEW s \in Store, st \in Store,
         Ahead(i, s), ExecuteRun(c, i, s)
  PROVE  Shape
<1>1. Keeps(st, s)
  BY DEF Keeps, Ahead, Open, Fin
<1>2. CASE st' = s /\ UNCHANGED effects
  BY <1>1, <1>2 DEF Shape, QuietStep, effects
<1>3. CASE st' = Moved(s, i, "execution_blocked") /\ UNCHANGED effects
  <2>1. st' \in Store /\ Keeps(s, st')
    BY <1>3, MovedType, MovedKeeps DEF WriteIntentState
  <2> QED
    BY <1>3, <2>1, AheadKeeps DEF Shape, QuietStep, effects
<1>4. CASE Commit(c, i, s)
  BY <1>4, CommitShape
<1> QED
  BY <1>2, <1>3, <1>4, Zenon DEF ExecuteRun, NotApproved, Denied, Allowed

LEMMA RestartShape ==
  ASSUME NEW s \in Store, NEW l, Restart(s, l), Keeps(st, s),
         journal' = journal \/ \E i \in Intents : journal' = journal \cup {i}
  PROVE  Shape
  BY DEF Restart, Lost, Keeps, Shape, QuietStep, Store, Open, Fin

(* Every step has the shape.                                               *)
LEMMA StepShape ==
  ASSUME TypeOK, [Next]_vars
  PROVE  Shape
<1> USE DEF TypeOK
<1>0. st \in Store /\ Keeps(st, st) /\ \A i \in Intents : Ahead(i, st)
  BY DEF Store, Keeps, Ahead
<1>1. ASSUME NEW i \in Intents, Draft(i) PROVE Shape
  BY <1>1 DEF Draft, Shape, QuietStep, Keeps, Open, Fin, effects
<1>2. ASSUME NEW c \in Calls, NEW i \in Intents, BeginValidate(c, i) PROVE Shape
  BY <1>0, <1>2 DEF BeginValidate, Shape, QuietStep, effects
<1>3. ASSUME NEW c \in Calls, NEW ok \in BOOLEAN, EndValidate(c, ok) PROVE Shape
  <2>1. call[c].intent \in Intents
    BY <1>3, BusyIntent DEF EndValidate, At
  <2>2. Keeps(st, st')
    BY <1>0, <1>3, <2>1, MovedKeeps DEF EndValidate, WriteIntentState
  <2> QED
    BY <1>3, <2>2 DEF EndValidate, Shape, QuietStep, effects
<1>4. ASSUME NEW i \in Intents, NEW who \in Approvers, NEW yes \in BOOLEAN,
             Approve(i, who, yes)
      PROVE  Shape
  BY <1>4 DEF Approve, Shape, QuietStep, Keeps, Open, Fin, effects
<1>5. ASSUME NEW c \in Calls, NEW i \in Intents, Execute(c, i) PROVE Shape
  BY <1>0, <1>5, ExecuteRunShape DEF Execute
<1>6. ASSUME NEW c \in Calls, NEW ok \in BOOLEAN, EndPrecheck(c, ok) PROVE Shape
  <2>1. call[c].intent \in Intents
    BY <1>6, BusyIntent DEF EndPrecheck, At
  <2>2. CASE st' = Moved(st, call[c].intent, "execution_blocked")
             /\ UNCHANGED effects
    <3>1. Keeps(st, st')
      BY <1>0, <2>1, <2>2, MovedKeeps DEF WriteIntentState
    <3> QED
      BY <2>2, <3>1 DEF Shape, QuietStep, effects
  <2>3. CASE Commit(c, call[c].intent, st)
    BY <1>0, <2>1, <2>3, CommitShape
  <2> QED
    BY <1>6, <2>2, <2>3, Zenon DEF EndPrecheck
<1>7. ASSUME NEW c \in Calls, NEW i \in Intents, BeginWrite(c, i) PROVE Shape
  BY <1>7 DEF BeginWrite, Shape, QuietStep, Keeps, Open, Fin, effects
<1>8. ASSUME NEW c \in Calls, NEW ok \in BOOLEAN, WriteValidated(c, ok)
      PROVE  Shape
  <2> DEFINE i == call[c].intent
             t == IF ok THEN "validated" ELSE "rejected"
             s == [st EXCEPT ![i] = "approved"]
  <2>1. i \in Intents /\ t \in WriteIntentState \ {"draft"}
    BY <1>8, BusyIntent DEF WriteValidated, At, WriteIntentState
  <2>2. CASE st' = Moved(st, i, t) /\ UNCHANGED effects
    <3>1. Keeps(st, st')
      BY <1>0, <2>1, <2>2, MovedKeeps
    <3> QED
      BY <2>2, <3>1 DEF Shape, QuietStep, effects
  <2>3. CASE /\ CanMove(st, i, t) /\ ok
             /\ st' = [st EXCEPT ![i] = "validated"] /\ UNCHANGED effects
    <3>1. Keeps(st, st')
      BY <2>1, <2>3 DEF CanMove, TRANSITIONS, Keeps, Open, Fin, StoreState,
                        WriteIntentState
    <3> QED
      BY <2>3, <3>1 DEF Shape, QuietStep, effects
  <2>4. CASE CanMove(st, i, t) /\ ok /\ ExecuteRun(c, i, s)
    <3>1. s \in Store /\ Ahead(i, s)
      BY <2>1, <2>4 DEF CanMove, TRANSITIONS, Store, StoreState,
                        WriteIntentState, Ahead, Open
    <3> QED
      BY <1>0, <2>1, <2>4, <3>1, ExecuteRunShape
  <2> QED
    BY <1>8, <2>2, <2>3, <2>4, Zenon DEF WriteValidated
<1>9. ASSUME NEW c \in Calls, NEW proceed \in BOOLEAN, EndElicitation(c, proceed)
      PROVE  Shape
  <2> DEFINE i == call[c].intent
             s == [st EXCEPT ![i] = "approved"]
  <2>1. i \in Intents
    BY <1>9, BusyIntent DEF EndElicitation, At
  <2>2. CASE /\ st' = IF proceed THEN st ELSE Moved(st, i, "rejected")
             /\ UNCHANGED effects
    <3>1. Keeps(st, st')
      BY <1>0, <2>1, <2>2, MovedKeeps DEF WriteIntentState
    <3> QED
      BY <2>2, <3>1 DEF Shape, QuietStep, effects
  <2>3. CASE CanMove(st, i, "approved") /\ ExecuteRun(c, i, s)
    <3>1. s \in Store /\ Ahead(i, s)
      BY <2>1, <2>3 DEF CanMove, TRANSITIONS, Store, StoreState,
                        WriteIntentState, Ahead, Open
    <3> QED
      BY <1>0, <2>1, <2>3, <3>1, ExecuteRunShape
  <2> QED
    BY <1>9, <2>2, <2>3, Zenon DEF EndElicitation
<1>10. ASSUME NEW c \in Calls, MutateSucceeds(c) PROVE Shape
  BY <1>0, <1>10 DEF MutateSucceeds, Shape, QuietStep, effects
<1>11. ASSUME NEW c \in Calls, MutateFails(c) \/ EndVerify(c, TRUE) PROVE Shape
  <2>1. call[c].intent \in Intents
    BY <1>11, BusyIntent DEF MutateFails, EndVerify, At
  <2>2. Keeps(st, st')
    BY <1>0, <1>11, <2>1, MovedKeeps DEF MutateFails, EndVerify, WriteIntentState
  <2> QED
    BY <1>11, <2>2 DEF MutateFails, EndVerify, Shape, QuietStep, effects
<1>12. ASSUME NEW c \in Calls, EndVerify(c, FALSE) PROVE Shape
  BY <1>0, <1>12 DEF EndVerify, Shape, QuietStep, effects
<1>13. ASSUME Prune PROVE Shape
  BY <1>13 DEF Prune, Shape, QuietStep, Keeps, Open, Fin, effects
<1>14. ASSUME NEW s \in Edited, EditRegistry(s) \/ EditAllowlist(s) PROVE Shape
  BY <1>0, <1>14 DEF EditRegistry, EditAllowlist, Shape, QuietStep, effects
<1>15. ASSUME Tick PROVE Shape
  BY <1>0, <1>15 DEF Tick, Shape, QuietStep, effects
<1>16. ASSUME Crash PROVE Shape
  BY <1>0, <1>16, RestartShape DEF Crash
<1>17. ASSUME NEW i \in Intents, CrashInCommit(i) PROVE Shape
  <2> DEFINE s == [st EXCEPT ![i] = IF @ \in {"draft", "validated"}
                                    THEN "approved" ELSE @]
  <2>1. s \in Store /\ Keeps(st, s)
    BY <1>0 DEF Store, StoreState, WriteIntentState, Keeps, Open, Fin
  <2>2. Moved(s, i, "executed") \in Store /\ Keeps(s, Moved(s, i, "executed"))
    BY <2>1, MovedType, MovedKeeps DEF WriteIntentState
  <2>3. Keeps(st, Moved(s, i, "executed"))
    BY <2>1, <2>2 DEF Keeps
  <2>4. \E j \in Intents : journal' = journal \cup {j}
    BY <1>17 DEF CrashInCommit, AppendDurable
  <2> HIDE DEF s
  <2> QED
    BY <1>17, <2>1, <2>2, <2>3, <2>4, RestartShape DEF CrashInCommit, s
<1>18. CASE UNCHANGED vars
  BY <1>0, <1>18 DEF vars, Shape, QuietStep, effects
<1> QED
  BY <1>1, <1>2, <1>3, <1>4, <1>5, <1>6, <1>7, <1>8, <1>9, <1>10, <1>11,
     <1>12, <1>13, <1>14, <1>15, <1>16, <1>17, <1>18 DEF Next

-----------------------------------------------------------------------------

(* The inductive invariant: an intent was handed over at most once, and if *)
(* it was, its attempt is on record and it shows a state that only a       *)
(* handed-over or vanished intent can show.                                *)
OnceInv ==
  \A i \in Intents :
    /\ sent[i] <= 1
    /\ sent[i] > 0 => i \in journal /\ st[i] \in Fin

LEMMA OnceStep ==
  ASSUME TypeOK, TypeOK', OnceInv, Shape
  PROVE  OnceInv'
<1>1. CASE QuietStep
  BY <1>1 DEF QuietStep, Keeps, OnceInv
<1>2. ASSUME NEW i \in Intents, DispatchStep(i) PROVE OnceInv'
  <2>1. sent[i] = 0
    BY <1>2 DEF DispatchStep, OnceInv, TypeOK, Open, Fin
  <2> QED
    BY <1>2, <2>1 DEF DispatchStep, OnceInv, TypeOK, Fin
<1> QED
  BY <1>1, <1>2 DEF Shape

(* An intent that was handed over shows it, in every reachable state.      *)
THEOREM DispatchedOnce == Spec => []OnceInv
<1>1. Init => OnceInv
  BY DEF Init, OnceInv
<1>2. TypeOK /\ TypeOK' /\ OnceInv /\ [Next]_vars => OnceInv'
  BY StepShape, OnceStep
<1> QED
  BY <1>1, <1>2, TypeCorrect, PTL DEF Spec

(* No interleaving of executions and no crash hands an intent to WHMCS a   *)
(* second time.                                                            *)
THEOREM OneDispatch == Spec => []AtMostOneDispatch
<1>1. OnceInv => AtMostOneDispatch
  BY DEF OnceInv, AtMostOneDispatch
<1> QED
  BY <1>1, DispatchedOnce, PTL

(* No mutation without its durable audit event, in any crash.              *)
THEOREM RecordedDispatch == Spec => []DispatchRecorded
<1>1. OnceInv => DispatchRecorded
  BY DEF OnceInv, DispatchRecorded
<1> QED
  BY <1>1, DispatchedOnce, PTL

(* "attempted: false" is never told of an intent that was handed over.     *)
THEOREM UntouchedUnexecuted == Spec => []UnexecutedMeansUntouched
<1>1. TypeOK /\ OnceInv => UnexecutedMeansUntouched
  BY DEF TypeOK, OnceInv, UnexecutedMeansUntouched, Fin
<1> QED
  BY <1>1, TypeCorrect, DispatchedOnce, PTL

(* A step of the write path is a step of WriteOnce, or leaves what WriteOnce *)
(* speaks of unchanged.                                                    *)
LEMMA OnceRefined ==
  ASSUME TypeOK, TypeOK', OnceInv, Shape
  PROVE  [Once!Next]_(Once!vars)
<1>1. \A j \in Intents : j \in Closed <=> st[j] \notin Open
  BY DEF Closed, Open
<1>2. \A j \in Intents : j \in Closed' <=> st'[j] \notin Open
  BY DEF Closed, Open
<1>3. Closed \subseteq Intents /\ Closed' \subseteq Intents
  BY DEF Closed
<1>4. CASE QuietStep
  <2>1. Closed' = Closed \cup Closed'
    BY <1>1, <1>2, <1>3, <1>4 DEF QuietStep, Keeps
  <2>2. CASE journal' = journal
    <3>1. Once!Close(Closed')
      BY <1>4, <2>1, <2>2 DEF Once!Close, QuietStep
    <3> QED
      BY <1>3, <3>1 DEF Once!Next
  <2>3. ASSUME NEW i \in Intents, journal' = journal \cup {i}
        PROVE  Once!Next
    <3>1. Once!Record(i)
      BY <1>3, <1>4, <2>1, <2>3 DEF Once!Record, QuietStep
    <3> QED
      BY <3>1 DEF Once!Next
  <2> QED
    BY <1>4, <2>2, <2>3 DEF QuietStep
<1>5. ASSUME NEW i \in Intents, DispatchStep(i) PROVE Once!Next
  <2>0. sent[i] = 0
    BY <1>5 DEF DispatchStep, OnceInv, TypeOK, Open, Fin
  <2>1. sent' = [sent EXCEPT ![i] = 1]
    BY <1>5, <2>0 DEF DispatchStep
  <2>2. i \notin Closed /\ i \in Closed'
    BY <1>1, <1>2, <1>5 DEF DispatchStep, Open
  <2>3. Closed' = Closed \cup {i}
    BY <1>1, <1>2, <1>3, <1>5, <2>2 DEF DispatchStep
  <2>4. Once!Dispatch(i)
    BY <1>5, <2>0, <2>1, <2>2, <2>3 DEF Once!Dispatch, DispatchStep
  <2> QED
    BY <2>4 DEF Once!Next
<1> QED
  BY <1>4, <1>5 DEF Shape

(* The write path, with its awaits, tokens and crashes, implements         *)
(* WriteOnce: one dispatch per request, on record, never after closing.    *)
THEOREM Implements == Spec => KeepsPromise
<1>1. Init => Once!Init
  BY DEF Init, Once!Init, Closed
<1>2. TypeOK /\ TypeOK' /\ OnceInv /\ [Next]_vars => [Once!Next]_(Once!vars)
  BY StepShape, OnceRefined
<1> QED
  BY <1>1, <1>2, TypeCorrect, DispatchedOnce, PTL DEF Spec, KeepsPromise, Once!Spec

-----------------------------------------------------------------------------
(* The gate and the ledger: a dispatch is authorized at the step that makes *)
(* it, and a durable ledger keeps two of one request a window apart.        *)

(* What the gate has established of an intent that waits for its precheck. *)
Passed(i) ==
  /\ Request[i].scope \in Prechecked
  /\ Request[i].drafter \in Executors
  /\ Request[i].scope \notin Blocked
  /\ Destroys(i) => i \in Confirmed

(* Approvals are given by approvers, and a prechecked intent has passed    *)
(* the gate.                                                               *)
GateInv ==
  /\ \A i \in Intents : approver[i] \in Approvers \cup {NoOne}
  /\ \A c \in Calls : At(c, "prechecking") => Passed(call[c].intent)

(* What the gate has established of an intent at the step of its dispatch. *)
MayDispatch(i) ==
  /\ AuthorizedAtDispatch(i)
  /\ Request[i].scope \in Prechecked \/ ~Seen(i)

QuietEffect ==
  /\ UNCHANGED <<sent, sentAt>>
  /\ LedgerDurable => \/ ledger' = ledger
                      \/ \E i \in Intents : ledger' = Recorded(i)

DispatchEffect(i) ==
  /\ MayDispatch(i)
  /\ sent' = [sent EXCEPT ![i] = @ + 1]
  /\ sentAt' = [sentAt EXCEPT ![i] = now]
  /\ ledger' = Recorded(i)

PathEffect == QuietEffect \/ \E i \in Intents : DispatchEffect(i)

Effect ==
  \/ /\ QuietEffect
     /\ now <= now'
     /\ \A j \in Intents : sent[j] > 0 => created'[j] = created[j]
  \/ /\ \E i \in Intents : DispatchEffect(i)
     /\ UNCHANGED <<now, created>>

CallsPassed ==
  \A c \in Calls : At(c, "prechecking")' => Passed(call'[c].intent)

LEMMA QuietReturn ==
  ASSUME TypeOK, GateInv, NEW c \in Calls, Return(c)
  PROVE  CallsPassed
  BY DEF TypeOK, GateInv, CallsPassed, Return, Idle, At

LEMMA SuspendPassed ==
  ASSUME TypeOK, GateInv, NEW c \in Calls, NEW i \in Intents, NEW pc \in Pc,
         Suspend(c, pc, i), pc = "prechecking" => Passed(i)
  PROVE  CallsPassed
  BY DEF TypeOK, GateInv, CallsPassed, Suspend, At

LEMMA CommitEffect ==
  ASSUME TypeOK, GateInv, NEW c \in Calls, NEW i \in Intents, NEW s,
         MayDispatch(i), Commit(c, i, s)
  PROVE  PathEffect /\ CallsPassed
<1>1. CASE RefuseUnaudited(c, i, s)
  BY <1>1, QuietReturn DEF RefuseUnaudited, PathEffect, QuietEffect, effects
<1>2. CASE ledger' = Recorded(i) /\ (Overtaken(c, i, s) \/ MapperThrows(c, i, s))
  BY <1>2, QuietReturn DEF Overtaken, MapperThrows, PathEffect, QuietEffect
<1>3. CASE ledger' = Recorded(i) /\ Mutate(c, i, s)
  <2>1. CallsPassed
    BY <1>3, SuspendPassed DEF Mutate, Pc
  <2> QED
    BY <1>3, <2>1 DEF Mutate, PathEffect, DispatchEffect
<1> QED
  BY <1>1, <1>2, <1>3 DEF Commit

(* The gate of executeRun establishes what a dispatch needs.               *)
LEMMA GateGrants ==
  ASSUME GateInv, NEW i \in Intents, Request[i].scope \in grants, Authorized(i)
  PROVE  MayDispatch(i)
  BY DEF GateInv, Authorized, PreAuthorized, MayDispatch, AuthorizedAtDispatch

LEMMA ExecuteRunEffect ==
  ASSUME TypeOK, GateInv, NEW c \in Calls, NEW i \in Intents, NEW s,
         ExecuteRun(c, i, s)
  PROVE  PathEffect /\ CallsPassed
<1>1. CASE Return(c) /\ UNCHANGED effects
  BY <1>1, QuietReturn DEF PathEffect, QuietEffect, effects
<1>2. CASE /\ Authorized(i) /\ Request[i].scope \in Prechecked
           /\ Suspend(c, "prechecking", i) /\ UNCHANGED effects
  <2>1. Passed(i)
    BY <1>2 DEF Passed, Authorized, PreAuthorized
  <2>2. CallsPassed
    BY <1>2, <2>1, SuspendPassed DEF Pc
  <2> QED
    BY <1>2, <2>2 DEF PathEffect, QuietEffect, effects
<1>3. CASE Authorized(i) /\ Request[i].scope \in grants /\ Commit(c, i, s)
  BY <1>3, GateGrants, CommitEffect
<1> QED
  BY <1>1, <1>2, <1>3, Zenon DEF ExecuteRun, NotApproved, Denied, Allowed

(* Every step has an authorized effect and keeps GateInv.                  *)
LEMMA StepEffect ==
  ASSUME TypeOK, OnceInv, GateInv, [Next]_vars
  PROVE  Effect /\ GateInv'
<1>0. now \in Nat
  BY DEF TypeOK
<1>1. ASSUME PathEffect, CallsPassed, UNCHANGED <<now, created, approver>>
      PROVE  Effect /\ GateInv'
  BY <1>0, <1>1 DEF PathEffect, Effect, GateInv, CallsPassed
<1>2. ASSUME CallsPassed, UNCHANGED effects, UNCHANGED <<now, created, approver>>
      PROVE  Effect /\ GateInv'
  BY <1>1, <1>2 DEF PathEffect, QuietEffect, effects
<1>3. UNCHANGED call => CallsPassed
  BY DEF GateInv, CallsPassed, At
<1>4. ASSUME NEW i \in Intents, Draft(i) \/ \E c \in Calls : BeginWrite(c, i)
      PROVE  Effect /\ GateInv'
  <2>1. CallsPassed
    BY <1>3, <1>4, SuspendPassed DEF Draft, BeginWrite, Pc
  <2>2. \A j \in Intents : sent[j] > 0 => created'[j] = created[j]
    BY <1>4 DEF Draft, BeginWrite, TypeOK, OnceInv, Fin
  <2>3. UNCHANGED effects /\ UNCHANGED <<now, approver>>
    BY <1>4 DEF Draft, BeginWrite
  <2> QED
    BY <1>0, <2>1, <2>2, <2>3
       DEF Effect, QuietEffect, effects, GateInv, CallsPassed
<1>5. ASSUME NEW c \in Calls, NEW i \in Intents, BeginValidate(c, i)
      PROVE  Effect /\ GateInv'
  <2>1. CallsPassed
    BY <1>5, SuspendPassed DEF BeginValidate, Pc
  <2> QED
    BY <1>2, <1>5, <2>1 DEF BeginValidate, stored
<1>6. ASSUME NEW c \in Calls, NEW ok \in BOOLEAN,
             EndValidate(c, ok) \/ MutateFails(c) \/ EndVerify(c, ok)
      PROVE  Effect /\ GateInv'
  <2>1. Return(c) /\ UNCHANGED effects /\ UNCHANGED <<now, created, approver>>
    BY <1>6 DEF EndValidate, MutateFails, EndVerify, stored
  <2> QED
    BY <1>2, <2>1, QuietReturn
<1>7. ASSUME NEW i \in Intents, NEW who \in Approvers, NEW yes \in BOOLEAN,
             Approve(i, who, yes)
      PROVE  Effect /\ GateInv'
  <2>1. /\ UNCHANGED effects /\ UNCHANGED <<now, created>> /\ CallsPassed
        /\ \A j \in Intents : approver'[j] \in Approvers \cup {NoOne}
    BY <1>3, <1>7 DEF Approve, GateInv, TypeOK
  <2> QED
    BY <1>0, <2>1 DEF Effect, QuietEffect, effects, GateInv, CallsPassed
<1>8. ASSUME NEW c \in Calls, NEW i \in Intents, Execute(c, i)
      PROVE  Effect /\ GateInv'
  BY <1>1, <1>8, ExecuteRunEffect DEF Execute, stored
<1>9. ASSUME NEW c \in Calls, NEW ok \in BOOLEAN, EndPrecheck(c, ok)
      PROVE  Effect /\ GateInv'
  <2> DEFINE i == call[c].intent
  <2>1. i \in Intents /\ Passed(i)
    BY <1>9, BusyIntent DEF EndPrecheck, At, GateInv
  <2>2. MayDispatch(i)
    BY <2>1, ConfigAssumption
       DEF ConfigAssumption, Passed, MayDispatch, AuthorizedAtDispatch, High
  <2>3. PathEffect /\ CallsPassed
    <3>1. CASE Return(c) /\ UNCHANGED effects
      BY <3>1, QuietReturn DEF PathEffect, QuietEffect, effects
    <3>2. CASE Commit(c, i, st)
      BY <2>1, <2>2, <3>2, CommitEffect
    <3> QED
      BY <1>9, <3>1, <3>2, Zenon DEF EndPrecheck
  <2> QED
    BY <1>1, <1>9, <2>3 DEF EndPrecheck, stored
<1>10. ASSUME NEW c \in Calls, NEW ok \in BOOLEAN,
              WriteValidated(c, ok) \/ EndElicitation(c, ok)
       PROVE  Effect /\ GateInv'
  <2> DEFINE i == call[c].intent
             s == [st EXCEPT ![i] = "approved"]
  <2>1. i \in Intents
    BY <1>10, BusyIntent DEF WriteValidated, EndElicitation, At
  <2>2. CASE Return(c) /\ UNCHANGED effects
    BY <1>2, <1>10, <2>2, QuietReturn DEF WriteValidated, EndElicitation, stored
  <2>3. CASE Suspend(c, "eliciting", i) /\ UNCHANGED effects
    <3>1. CallsPassed
      BY <2>1, <2>3, SuspendPassed DEF Pc
    <3> QED
      BY <1>2, <1>10, <2>3, <3>1 DEF WriteValidated, EndElicitation, stored
  <2>4. CASE ExecuteRun(c, i, s)
    BY <1>1, <1>10, <2>1, <2>4, ExecuteRunEffect
       DEF WriteValidated, EndElicitation, stored
  <2> QED
    BY <1>10, <2>2, <2>3, <2>4, Zenon DEF WriteValidated, EndElicitation
<1>11. ASSUME NEW c \in Calls, MutateSucceeds(c) PROVE Effect /\ GateInv'
  <2>1. call[c].intent \in Intents
    BY <1>11, BusyIntent DEF MutateSucceeds, At
  <2>2. CallsPassed
    BY <1>11, <2>1, SuspendPassed DEF MutateSucceeds, Pc
  <2> QED
    BY <1>2, <1>11, <2>2 DEF MutateSucceeds, stored
<1>12. ASSUME Prune \/ UNCHANGED vars
              \/ \E x \in Edited : EditRegistry(x) \/ EditAllowlist(x)
       PROVE  Effect /\ GateInv'
  BY <1>2, <1>3, <1>12
     DEF Prune, EditRegistry, EditAllowlist, vars, stored, effects
<1>13. ASSUME Tick PROVE Effect /\ GateInv'
  BY <1>0, <1>3, <1>13
     DEF Tick, stored, effects, Effect, QuietEffect, GateInv, CallsPassed
<1>14. ASSUME NEW s, NEW l, Restart(s, l),
              l = ledger \/ \E i \in Intents : l = Recorded(i)
       PROVE  Effect /\ GateInv'
  BY <1>0, <1>14
     DEF Restart, Effect, QuietEffect, GateInv, Idle, At
<1>15. ASSUME Crash \/ \E i \in Intents : CrashInCommit(i)
       PROVE  Effect /\ GateInv'
  BY <1>14, <1>15, Zenon DEF Crash, CrashInCommit
<1> QED
  BY <1>4, <1>5, <1>6, <1>7, <1>8, <1>9, <1>10, <1>11, <1>12, <1>13, <1>15
     DEF Next

-----------------------------------------------------------------------------

(* What the ledger remembers when it is durable: a dispatched intent's key *)
(* is held for a whole window from its dispatch.                           *)
Remembers(i) ==
  \E e \in ledger : e.key = Key(i) /\ e.expires >= sentAt[i] + Window

ReplayInv ==
  LedgerDurable =>
    /\ \A i \in Intents : sent[i] > 0 => sentAt[i] <= now /\ Remembers(i)
    /\ NoReplayInWindow

LEMMA SameKey ==
  ASSUME NEW i \in Intents, created'[i] = created[i]
  PROVE  Key(i)' = Key(i)
  BY DEF Key

LEMMA WindowNat == Window \in Nat
  BY ConfigAssumption DEF ConfigAssumption

(* Recording one key never shortens what is remembered of another.         *)
LEMMA StillRemembers ==
  ASSUME TypeOK, NEW i \in Intents, NEW j \in Intents,
         ledger' = ledger \/ ledger' = Recorded(i),
         Key(j)' = Key(j), sentAt'[j] = sentAt[j], sentAt[j] <= now, Remembers(j)
  PROVE  Remembers(j)'
<1>1. now \in Nat /\ sentAt[j] \in Nat /\ Window \in Nat
  BY WindowNat DEF TypeOK
<1>2. PICK e \in ledger : e.key = Key(j) /\ e.expires >= sentAt[j] + Window
  BY DEF Remembers
<1>3. CASE e \in ledger'
  BY <1>2, <1>3 DEF Remembers
<1>4. CASE e \notin ledger'
  <2> DEFINE f == [key |-> Key(i), expires |-> now + Window]
  <2>1. Key(j) = Key(i) /\ f \in ledger'
    BY <1>2, <1>4 DEF Recorded
  <2>2. f.key = Key(j) /\ f.expires >= sentAt[j] + Window
    BY <1>1, <2>1
  <2> QED
    BY <2>1, <2>2 DEF Remembers
<1> QED
  BY <1>3, <1>4

LEMMA ReplayStep ==
  ASSUME TypeOK, TypeOK', ReplayInv, Effect
  PROVE  ReplayInv'
<1> SUFFICES ASSUME LedgerDurable
             PROVE  /\ \A i \in Intents :
                          sent'[i] > 0 => sentAt'[i] <= now' /\ Remembers(i)'
                    /\ NoReplayInWindow'
  BY DEF ReplayInv
<1>0. /\ now \in Nat /\ now' \in Nat /\ Window \in Nat
      /\ \A i \in Intents : sentAt[i] \in Nat /\ sent[i] \in Nat
  BY WindowNat DEF TypeOK
<1>1. ASSUME QuietEffect, now <= now',
             \A j \in Intents : sent[j] > 0 => created'[j] = created[j]
      PROVE  /\ \A i \in Intents :
                   sent'[i] > 0 => sentAt'[i] <= now' /\ Remembers(i)'
             /\ NoReplayInWindow'
  <2>1. \A i \in Intents : sent'[i] = sent[i] /\ sentAt'[i] = sentAt[i]
    BY <1>1 DEF QuietEffect
  <2>2. \A i \in Intents : sent[i] > 0 => Key(i)' = Key(i)
    BY <1>1, SameKey
  <2>3. ASSUME NEW i \in Intents, sent'[i] > 0
        PROVE  sentAt'[i] <= now' /\ Remembers(i)'
    <3>1. sentAt[i] <= now /\ Remembers(i)
      BY <2>1, <2>3 DEF ReplayInv
    <3>2. \E k \in Intents : ledger' = ledger \/ ledger' = Recorded(k)
      BY <1>1 DEF QuietEffect
    <3>3. Remembers(i)'
      BY <2>1, <2>2, <2>3, <3>1, <3>2, StillRemembers
    <3> QED
      BY <1>0, <1>1, <2>1, <3>1, <3>3
  <2>4. NoReplayInWindow'
    <3> SUFFICES ASSUME NEW i \in Intents, NEW j \in Intents,
                        SameKeyDispatched(i, j)', Request[i].scope \notin Prechecked
                 PROVE  Apart(sentAt'[i], sentAt'[j])
      BY DEF NoReplayInWindow
    <3>1. SameKeyDispatched(i, j)
      BY <2>1, <2>2 DEF SameKeyDispatched
    <3> QED
      BY <2>1, <3>1 DEF ReplayInv, NoReplayInWindow
  <2> QED
    BY <2>3, <2>4
<1>2. ASSUME NEW k \in Intents, DispatchEffect(k), UNCHANGED <<now, created>>
      PROVE  /\ \A i \in Intents :
                   sent'[i] > 0 => sentAt'[i] <= now' /\ Remembers(i)'
             /\ NoReplayInWindow'
  <2>1. /\ \A i \in Intents : Key(i)' = Key(i)
        /\ \A i \in Intents \ {k} : sent'[i] = sent[i] /\ sentAt'[i] = sentAt[i]
        /\ sentAt'[k] = now
    BY <1>2, SameKey DEF DispatchEffect, TypeOK
  <2>2. Remembers(k)'
    <3> DEFINE f == [key |-> Key(k), expires |-> now + Window]
    <3>1. f \in ledger' /\ f.key = Key(k)' /\ f.expires >= sentAt'[k] + Window
      BY <1>0, <1>2, <2>1 DEF DispatchEffect, Recorded
    <3> QED
      BY <3>1 DEF Remembers
  <2>3. ASSUME NEW i \in Intents, sent'[i] > 0
        PROVE  sentAt'[i] <= now' /\ Remembers(i)'
    <3>1. CASE i = k
      BY <1>0, <1>2, <2>1, <2>2, <3>1
    <3>2. CASE i # k
      <4>1. sentAt[i] <= now /\ Remembers(i)
        BY <2>1, <2>3, <3>2 DEF ReplayInv
      <4>2. Remembers(i)'
        BY <1>2, <2>1, <3>2, <4>1, StillRemembers DEF DispatchEffect
      <4> QED
        BY <1>2, <2>1, <3>2, <4>1, <4>2
    <3> QED
      BY <3>1, <3>2
  <2>4. ASSUME NEW j \in Intents \ {k}, SameKeyDispatched(k, j)',
               Request[k].scope \notin Prechecked
        PROVE  sentAt'[j] + Window <= sentAt'[k]
    <3>1. Key(j) = Key(k) /\ sent[j] > 0
      BY <2>1, <2>4 DEF SameKeyDispatched
    <3>2. PICK e \in ledger : e.key = Key(k) /\ e.expires >= sentAt[j] + Window
      BY <3>1 DEF ReplayInv, Remembers
    <3>3. e.expires \in Nat /\ ~(e.expires > now)
      BY <1>2, <2>4, <3>2 DEF DispatchEffect, MayDispatch, Seen, TypeOK
    <3> QED
      BY <1>0, <2>1, <3>2, <3>3
  <2>5. NoReplayInWindow'
    <3> SUFFICES ASSUME NEW i \in Intents, NEW j \in Intents,
                        SameKeyDispatched(i, j)', Request[i].scope \notin Prechecked
                 PROVE  Apart(sentAt'[i], sentAt'[j])
      BY DEF NoReplayInWindow
    <3>1. i # j /\ Key(i) = Key(j) /\ Request[j].scope \notin Prechecked
      BY <2>1, Zenon DEF SameKeyDispatched, Key
    <3>2. CASE i = k
      BY <2>4, <3>1, <3>2 DEF Apart
    <3>3. CASE j = k
      <4>1. SameKeyDispatched(k, i)'
        BY <3>3 DEF SameKeyDispatched
      <4> QED
        BY <2>4, <3>1, <3>3, <4>1 DEF Apart
    <3>4. CASE i # k /\ j # k
      <4>1. SameKeyDispatched(i, j)
        BY <2>1, <3>1, <3>4 DEF SameKeyDispatched
      <4> QED
        BY <2>1, <3>4, <4>1 DEF ReplayInv, NoReplayInWindow
    <3> QED
      BY <3>2, <3>3, <3>4
  <2> QED
    BY <2>3, <2>5
<1> QED
  BY <1>1, <1>2 DEF Effect

(* Only approvers are on record, and a suspended precheck has passed the   *)
(* gate.                                                                   *)
THEOREM GatePassed == Spec => []GateInv
<1>1. Init => GateInv
  BY DEF Init, GateInv, Idle, At
<1> QED
  BY <1>1, StepEffect, TypeCorrect, DispatchedOnce, PTL DEF Spec

(* With a durable ledger two dispatches of one request are a whole window  *)
(* apart, whatever crashes and interleavings happened between them.        *)
THEOREM NoReplay == Spec => []NoReplayInWindow
<1>1. Init => ReplayInv
  BY DEF Init, ReplayInv, NoReplayInWindow, SameKeyDispatched
<1>2. TypeOK /\ TypeOK' /\ OnceInv /\ GateInv /\ ReplayInv /\ [Next]_vars
        => ReplayInv'
  BY StepEffect, ReplayStep
<1>3. ReplayInv => NoReplayInWindow
  BY DEF ReplayInv, NoReplayInWindow
<1> QED
  BY <1>1, <1>2, <1>3, TypeCorrect, DispatchedOnce, GatePassed, PTL DEF Spec

(* Every dispatch is authorized at the very step that makes it.            *)
THEOREM AuthorizedDispatch == Spec => DispatchAuthorized
<1>1. TypeOK /\ OnceInv /\ GateInv /\ [Next]_vars
        => [\A i \in Intents : sent'[i] # sent[i] => AuthorizedAtDispatch(i)]_vars
  BY StepEffect
     DEF Effect, QuietEffect, DispatchEffect, MayDispatch, TypeOK
<1> QED
  BY <1>1, TypeCorrect, DispatchedOnce, GatePassed, PTL
     DEF Spec, DispatchAuthorized
-----------------------------------------------------------------------------
(* An invocation whose intent is with WHMCS, or was and is read back.      *)
InAir(c) == call[c].pc \in {"mutating", "verifying"}

(* What a dispatched intent is stored as, until its answer is settled.     *)
Unsettled == {"executed", "gone"}

(* The intents in the air are told apart, were handed over, and were paid  *)
(* exactly if they are being read back.                                    *)
FlightInv ==
  /\ \A c \in Calls : InAir(c) =>
       /\ sent[call[c].intent] > 0
       /\ st[call[c].intent] \in Unsettled
       /\ paidOn[call[c].intent] > 0 <=> At(c, "verifying")
  /\ \A c, d \in Calls : InAir(c) /\ InAir(d) /\ c # d => call[c].intent # call[d].intent
  /\ \A i \in Intents : paidOn[i] > 0 => sent[i] > 0
  /\ OutcomeHonest

Tallied == TallyDurable \/ crashes = 0

Capped(i) == High(i) /\ ~Destroys(i)

(* Nothing was paid later than today, the tally holds what was paid today, *)
(* and what is in the air passed the cap of its action.                    *)
SpendInv ==
  /\ \A i \in Intents : paidOn[i] <= 1 + Day(now)
  /\ Tallied => \A a \in Actions : SpentToday(a) <= tally[a]
  /\ \A c \in Calls :
       At(c, "mutating") /\ Capped(call[c].intent)
         => Request[call[c].intent].amount <= PerActionCap
  /\ DailySpendBounded

-----------------------------------------------------------------------------
(* What a step may do to the calls in the air.                             *)

(* The store t leaves alone what s has in the air or settled.              *)
Calm(s, t) ==
  \A j \in Intents :
    /\ s[j] \in Unsettled => t[j] \in Unsettled
    /\ t[j] = "verified" => s[j] = "verified"
    /\ t[j] = "failed" => s[j] = "failed" \/ sent[j] = 0

(* Nobody takes off or lands, though calls in the air may be lost.         *)
QuietFlight ==
  /\ UNCHANGED <<sent, paidOn>>
  /\ Calm(st, st')
  /\ \A c \in Calls : InAir(c)' => call'[c] = call[c]

Grounded ==
  /\ crashes' = crashes + 1
  /\ now' = now
  /\ tally' = IF TallyDurable THEN tally ELSE [a \in Actions |-> 0]
  /\ \A c \in Calls : ~InAir(c)'

TakeOff(c, i) ==
  /\ ~InAir(c)
  /\ sent[i] = 0
  /\ Capped(i) => WithinCaps(i)
  /\ call' = [call EXCEPT ![c] = [pc |-> "mutating", intent |-> i]]
  /\ sent' = [sent EXCEPT ![i] = @ + 1]
  /\ st'[i] = "executed"
  /\ \A j \in Intents \ {i} : st'[j] = st[j]
  /\ UNCHANGED <<paidOn, now, tally, crashes>>

FlightShape ==
  \/ QuietFlight /\ UNCHANGED <<now, tally, crashes>>
  \/ QuietFlight /\ Tick
  \/ QuietFlight /\ Grounded
  \/ \E c \in Calls, i \in Intents : TakeOff(c, i)
  \/ \E c \in Calls : MutateSucceeds(c) \/ MutateFails(c)
  \/ \E c \in Calls, ok \in BOOLEAN : EndVerify(c, ok)

Kept == UNCHANGED <<now, tally, paidOn, crashes>>

LEMMA CallTyped ==
  ASSUME TypeOK, NEW c \in Calls
  PROVE  /\ call[c].pc \in Pc
         /\ call[c].pc # "idle" => call[c].intent \in Intents
         /\ InAir(c) <=> At(c, "mutating") \/ At(c, "verifying")
  BY DEF TypeOK, Idle, Suspended, Pc, InAir, At

LEMMA CalmMoved ==
  ASSUME NEW s \in Store, NEW i \in Intents,
         NEW t \in {"validated", "rejected", "approved", "execution_blocked", "executed"}
  PROVE  Calm(s, Moved(s, i, t))
  BY DEF Calm, Moved, CanMove, TRANSITIONS, Store, StoreState, WriteIntentState, Unsettled

LEMMA CalmAhead ==
  ASSUME NEW i \in Intents, NEW s \in Store, NEW t, Ahead(i, s), Calm(s, t)
  PROVE  Calm(st, t)
  BY DEF Calm, Ahead, Open, Unsettled

LEMMA CalmSelf ==
  ASSUME NEW s \in Store
  PROVE  Calm(s, s)
  BY DEF Calm

(* A call that is not in the air returns, or suspends on the ground.       *)
LEMMA GroundQuiet ==
  ASSUME TypeOK, NEW c \in Calls, UNCHANGED sent, Kept, Calm(st, st'),
         NEW a, call' = [call EXCEPT ![c] = a], a.pc \notin {"mutating", "verifying"}
  PROVE  FlightShape
<1>1. \A d \in Calls : InAir(d)' => call'[d] = call[d]
  BY DEF TypeOK, InAir
<1> QED
  BY <1>1 DEF FlightShape, QuietFlight, Kept

LEMMA ReturnQuiet ==
  ASSUME TypeOK, NEW c \in Calls, UNCHANGED sent, Kept, Calm(st, st'), Return(c)
  PROVE  FlightShape
  BY GroundQuiet DEF Return, Idle

LEMMA SuspendQuiet ==
  ASSUME TypeOK, NEW c \in Calls, UNCHANGED sent, Kept, Calm(st, st'),
         NEW pc \in Pc \ {"mutating", "verifying"}, NEW i, Suspend(c, pc, i)
  PROVE  FlightShape
<1> DEFINE a == [pc |-> pc, intent |-> i]
<1>1. call' = [call EXCEPT ![c] = a] /\ a.pc \notin {"mutating", "verifying"}
  BY DEF Suspend
<1> HIDE DEF a
<1> QED
  BY <1>1, GroundQuiet

(* An open intent was never handed over.                                   *)
LEMMA OpenUnsent ==
  ASSUME TypeOK, OnceInv, NEW i \in Intents, st[i] \in Open
  PROVE  sent[i] = 0
  BY DEF TypeOK, OnceInv, Open, Fin

LEMMA CommitFlight ==
  ASSUME TypeOK, OnceInv, Kept, NEW c \in Calls, ~InAir(c), NEW i \in Intents,
         NEW s \in Store, Ahead(i, s), Capped(i) => WithinCaps(i), Commit(c, i, s)
  PROVE  FlightShape
<1>1. CASE RefuseUnaudited(c, i, s)
  <2>1. Calm(st, st') /\ Return(c) /\ UNCHANGED sent
    BY <1>1, CalmMoved, CalmAhead DEF RefuseUnaudited, effects
  <2> QED
    BY <2>1, ReturnQuiet
<1>2. CASE Overtaken(c, i, s)
  <2>1. Calm(st, st') /\ Return(c) /\ UNCHANGED sent
    BY <1>2, CalmSelf, CalmAhead DEF Overtaken
  <2> QED
    BY <2>1, ReturnQuiet
<1>3. ASSUME CanMove(s, i, "executed")
      PROVE  st[i] \in Open /\ sent[i] = 0 /\ s[i] = "approved"
  <2>1. s[i] = "approved"
    BY <1>3 DEF CanMove, TRANSITIONS, Store, StoreState, WriteIntentState
  <2>2. st[i] \in Open
    BY <2>1 DEF Ahead, Open
  <2> QED
    BY <2>1, <2>2, OpenUnsent
<1>4. CASE MapperThrows(c, i, s)
  <2>1. sent[i] = 0 /\ s[i] = "approved"
    BY <1>3, <1>4 DEF MapperThrows
  <2>2. st' = [s EXCEPT ![i] = "failed"] /\ Return(c) /\ UNCHANGED sent
    BY <1>4 DEF MapperThrows
  <2>3. Calm(s, st')
    BY <2>1, <2>2 DEF Calm, Store, Unsettled
  <2> QED
    BY <2>2, <2>3, CalmAhead, ReturnQuiet
<1>5. CASE Mutate(c, i, s)
  <2>1. sent[i] = 0
    BY <1>3, <1>5 DEF Mutate
  <2>2. st'[i] = "executed" /\ \A j \in Intents \ {i} : st'[j] = st[j]
    BY <1>5 DEF Mutate, Store, Ahead
  <2>3. TakeOff(c, i)
    BY <1>5, <2>1, <2>2 DEF TakeOff, Mutate, Suspend, Kept
  <2> QED
    BY <2>3 DEF FlightShape
<1> QED
  BY <1>1, <1>2, <1>4, <1>5 DEF Commit

LEMMA ExecuteRunFlight ==
  ASSUME TypeOK, OnceInv, Kept, NEW c \in Calls, ~InAir(c), NEW i \in Intents,
         NEW s \in Store, Ahead(i, s), ExecuteRun(c, i, s)
  PROVE  FlightShape
<1>1. CASE st' = s /\ Return(c) /\ UNCHANGED effects
  BY <1>1, CalmSelf, CalmAhead, ReturnQuiet DEF effects
<1>2. CASE st' = Moved(s, i, "execution_blocked") /\ Return(c) /\ UNCHANGED effects
  BY <1>2, CalmMoved, CalmAhead, ReturnQuiet DEF effects
<1>3. CASE st' = s /\ Suspend(c, "prechecking", i) /\ UNCHANGED effects
  <2>1. Calm(st, st') /\ UNCHANGED sent /\ "prechecking" \in Pc \ {"mutating", "verifying"}
    BY <1>3, CalmSelf, CalmAhead DEF effects, Pc
  <2> QED
    BY <1>3, <2>1, SuspendQuiet
<1>4. CASE Authorized(i) /\ Commit(c, i, s)
  <2>1. Capped(i) => WithinCaps(i)
    BY <1>4 DEF Authorized, Capped
  <2> QED
    BY <1>4, <2>1, CommitFlight
<1> QED
  BY <1>1, <1>2, <1>3, <1>4, Zenon DEF ExecuteRun, NotApproved, Denied, Allowed

LEMMA StillQuiet ==
  ASSUME UNCHANGED call, UNCHANGED sent, Kept, Calm(st, st')
  PROVE  FlightShape
  BY DEF FlightShape, QuietFlight, Kept

LEMMA RestartFlight ==
  ASSUME NEW s \in Store, NEW l, Restart(s, l), Calm(st, s)
  PROVE  FlightShape
<1>1. \A c \in Calls : ~InAir(c)'
  BY DEF Restart, InAir, Idle
<1>2. Calm(st, st')
  BY DEF Restart, Lost, Calm, Store, Unsettled
<1> QED
  BY <1>1, <1>2 DEF FlightShape, QuietFlight, Grounded, Restart

(* Every step has the shape.                                               *)
LEMMA StepFlight ==
  ASSUME TypeOK, OnceInv, GateInv, [Next]_vars
  PROVE  FlightShape
<1>0. st \in Store /\ Calm(st, st) /\ \A i \in Intents : Ahead(i, st)
  BY DEF TypeOK, Store, Calm, Ahead
<1>1. ASSUME NEW i \in Intents, Draft(i) PROVE FlightShape
  <2>1. Calm(st, st')
    BY <1>0, <1>1 DEF Draft, Calm, Store, Unsettled
  <2> QED
    BY <1>1, <2>1, StillQuiet DEF Draft, Kept, effects, money
<1>2. ASSUME NEW c \in Calls, NEW i \in Intents, BeginValidate(c, i) PROVE FlightShape
  <2>1. /\ Suspend(c, "validating", i) /\ "validating" \in Pc \ {"mutating", "verifying"}
        /\ Kept /\ UNCHANGED sent /\ Calm(st, st')
    BY <1>0, <1>2 DEF BeginValidate, Kept, effects, money, Pc
  <2> QED
    BY <2>1, SuspendQuiet
<1>3. ASSUME NEW c \in Calls, NEW ok \in BOOLEAN, EndValidate(c, ok) PROVE FlightShape
  <2>1. call[c].intent \in Intents
    BY <1>3, BusyIntent DEF EndValidate, At
  <2>2. Calm(st, st')
    BY <1>0, <1>3, <2>1, CalmMoved DEF EndValidate
  <2> QED
    BY <1>3, <2>2, ReturnQuiet DEF EndValidate, Kept, effects, money
<1>4. ASSUME NEW i \in Intents, NEW who \in Approvers, NEW yes \in BOOLEAN,
             Approve(i, who, yes)
      PROVE  FlightShape
  <2>1. Calm(st, st')
    BY <1>0, <1>4 DEF Approve, Calm, Store, Unsettled
  <2> QED
    BY <1>4, <2>1, StillQuiet DEF Approve, Kept, effects, money
<1>5. ASSUME NEW c \in Calls, NEW i \in Intents, Execute(c, i) PROVE FlightShape
  <2>1. ~InAir(c)
    BY <1>5 DEF Execute, InAir, At
  <2> QED
    BY <1>0, <1>5, <2>1, ExecuteRunFlight DEF Execute, Kept, money
<1>6. ASSUME NEW c \in Calls, NEW ok \in BOOLEAN, EndPrecheck(c, ok) PROVE FlightShape
  <2>1. call[c].intent \in Intents /\ ~InAir(c)
    BY <1>6, BusyIntent DEF EndPrecheck, At, InAir
  <2>2. Kept
    BY <1>6 DEF EndPrecheck, Kept, money
  <2>3. CASE st' = Moved(st, call[c].intent, "execution_blocked")
             /\ Return(c) /\ UNCHANGED effects
    <3>1. Calm(st, st') /\ UNCHANGED sent
      BY <1>0, <2>1, <2>3, CalmMoved DEF effects
    <3> QED
      BY <2>2, <2>3, <3>1, ReturnQuiet
  <2>4. CASE Commit(c, call[c].intent, st)
    <3>1. ~Capped(call[c].intent)
      BY <1>6, ConfigAssumption
         DEF EndPrecheck, GateInv, Passed, Capped, High, ConfigAssumption
    <3> QED
      BY <1>0, <2>1, <2>2, <2>4, <3>1, CommitFlight
  <2> QED
    BY <1>6, <2>3, <2>4, Zenon DEF EndPrecheck
<1>7. ASSUME NEW c \in Calls, NEW i \in Intents, BeginWrite(c, i) PROVE FlightShape
  <2>1. Calm(st, st')
    BY <1>0, <1>7 DEF BeginWrite, Calm, Store, Unsettled
  <2>2. /\ Suspend(c, "write_validating", i)
        /\ "write_validating" \in Pc \ {"mutating", "verifying"}
        /\ Kept /\ UNCHANGED sent
    BY <1>7 DEF BeginWrite, Kept, effects, money, Pc
  <2> QED
    BY <2>1, <2>2, SuspendQuiet
<1>8. ASSUME NEW c \in Calls, NEW ok \in BOOLEAN, WriteValidated(c, ok)
      PROVE  FlightShape
  <2> DEFINE i == call[c].intent
             t == IF ok THEN "validated" ELSE "rejected"
             s == [st EXCEPT ![i] = "approved"]
  <2>1. i \in Intents /\ t \in {"validated", "rejected"} /\ ~InAir(c)
    BY <1>8, BusyIntent DEF WriteValidated, At, InAir
  <2>2. Kept
    BY <1>8 DEF WriteValidated, Kept, money
  <2>3. CASE st' = Moved(st, i, t) /\ Return(c) /\ UNCHANGED effects
    <3>1. Calm(st, st') /\ UNCHANGED sent
      BY <1>0, <2>1, <2>3, CalmMoved DEF effects
    <3> QED
      BY <2>2, <2>3, <3>1, ReturnQuiet
  <2>4. CASE /\ CanMove(st, i, t) /\ ok /\ st' = [st EXCEPT ![i] = "validated"]
             /\ Suspend(c, "eliciting", i) /\ UNCHANGED effects
    <3>1. Calm(st, st')
      BY <1>0, <2>1, <2>4 DEF CanMove, TRANSITIONS, Calm, Store, StoreState,
                              WriteIntentState, Unsettled
    <3>2. UNCHANGED sent /\ "eliciting" \in Pc \ {"mutating", "verifying"}
      BY <2>4 DEF effects, Pc
    <3> QED
      BY <2>2, <2>4, <3>1, <3>2, SuspendQuiet
  <2>5. CASE CanMove(st, i, t) /\ ok /\ ExecuteRun(c, i, s)
    <3>1. s \in Store /\ Ahead(i, s)
      BY <1>0, <2>1, <2>5 DEF CanMove, TRANSITIONS, Store, StoreState,
                              WriteIntentState, Ahead, Open
    <3> QED
      BY <2>1, <2>2, <2>5, <3>1, ExecuteRunFlight
  <2> QED
    BY <1>8, <2>3, <2>4, <2>5, Zenon DEF WriteValidated
<1>9. ASSUME NEW c \in Calls, NEW proceed \in BOOLEAN, EndElicitation(c, proceed)
      PROVE  FlightShape
  <2> DEFINE i == call[c].intent
             s == [st EXCEPT ![i] = "approved"]
  <2>1. i \in Intents /\ ~InAir(c)
    BY <1>9, BusyIntent DEF EndElicitation, At, InAir
  <2>2. Kept
    BY <1>9 DEF EndElicitation, Kept, money
  <2>3. CASE /\ st' = IF proceed THEN st ELSE Moved(st, i, "rejected")
             /\ Return(c) /\ UNCHANGED effects
    <3>1. Calm(st, st') /\ UNCHANGED sent
      BY <1>0, <2>1, <2>3, CalmMoved DEF effects
    <3> QED
      BY <2>2, <2>3, <3>1, ReturnQuiet
  <2>4. CASE CanMove(st, i, "approved") /\ ExecuteRun(c, i, s)
    <3>1. s \in Store /\ Ahead(i, s)
      BY <1>0, <2>1, <2>4 DEF CanMove, TRANSITIONS, Store, StoreState,
                              WriteIntentState, Ahead, Open
    <3> QED
      BY <2>1, <2>2, <2>4, <3>1, ExecuteRunFlight
  <2> QED
    BY <1>9, <2>3, <2>4, Zenon DEF EndElicitation
<1>10. ASSUME NEW c \in Calls, MutateSucceeds(c) \/ MutateFails(c) PROVE FlightShape
  BY <1>10 DEF FlightShape
<1>11. ASSUME NEW c \in Calls, NEW ok \in BOOLEAN, EndVerify(c, ok) PROVE FlightShape
  BY <1>11 DEF FlightShape
<1>12. ASSUME Prune PROVE FlightShape
  <2>1. Calm(st, st')
    BY <1>0, <1>12 DEF Prune, InStore, WriteIntentState, Calm, Store, Unsettled
  <2> QED
    BY <1>12, <2>1, StillQuiet DEF Prune, Kept, effects, money
<1>13. ASSUME NEW s \in Edited, EditRegistry(s) \/ EditAllowlist(s) PROVE FlightShape
  BY <1>0, <1>13, StillQuiet DEF EditRegistry, EditAllowlist, Kept, effects, money
<1>14. ASSUME Tick PROVE FlightShape
  BY <1>0, <1>14 DEF Tick, FlightShape, QuietFlight, effects
<1>15. ASSUME Crash PROVE FlightShape
  BY <1>0, <1>15, RestartFlight DEF Crash
<1>16. ASSUME NEW i \in Intents, CrashInCommit(i) PROVE FlightShape
  <2> DEFINE s == [st EXCEPT ![i] = IF @ \in {"draft", "validated"}
                                    THEN "approved" ELSE @]
  <2>1. s \in Store /\ Calm(st, s)
    BY <1>0 DEF Store, StoreState, WriteIntentState, Calm, Unsettled
  <2>2. Moved(s, i, "executed") \in Store /\ Calm(s, Moved(s, i, "executed"))
    BY <2>1, MovedType, CalmMoved DEF WriteIntentState
  <2>3. Calm(st, Moved(s, i, "executed"))
    BY <2>1, <2>2 DEF Calm
  <2> HIDE DEF s
  <2> QED
    BY <1>16, <2>1, <2>2, <2>3, RestartFlight DEF CrashInCommit, s
<1>17. CASE UNCHANGED vars
  BY <1>0, <1>17, StillQuiet DEF vars, Kept
<1> QED
  BY <1>1, <1>2, <1>3, <1>4, <1>5, <1>6, <1>7, <1>8, <1>9, <1>10, <1>11,
     <1>12, <1>13, <1>14, <1>15, <1>16, <1>17 DEF Next

-----------------------------------------------------------------------------
(* The calls in the air.                                                   *)

LEMMA DayIsNat == \A t \in Nat : Day(t) \in Nat
<1>1. DayLength \in Nat /\ DayLength > 0
  BY ConfigAssumption DEF ConfigAssumption
<1> QED
  BY <1>1 DEF Day

LEMMA AirIntent ==
  ASSUME TypeOK, NEW c \in Calls, InAir(c)
  PROVE  call[c].intent \in Intents
  BY BusyIntent DEF InAir, At

LEMMA QuietFlightKeeps ==
  ASSUME TypeOK, FlightInv, QuietFlight
  PROVE  FlightInv'
<1>1. \A c \in Calls : InAir(c)' => InAir(c) /\ call[c].intent \in Intents
  BY AirIntent DEF QuietFlight, InAir
<1>2. \A c \in Calls : InAir(c)' =>
        /\ sent'[call'[c].intent] > 0
        /\ st'[call'[c].intent] \in Unsettled
        /\ paidOn'[call'[c].intent] > 0 <=> At(c, "verifying")'
  BY <1>1 DEF FlightInv, QuietFlight, Calm, At
<1>3. \A c, d \in Calls :
        InAir(c)' /\ InAir(d)' /\ c # d => call'[c].intent # call'[d].intent
  BY <1>1 DEF FlightInv, QuietFlight
<1>4. OutcomeHonest'
  BY DEF FlightInv, OutcomeHonest, QuietFlight, Calm, TypeOK
<1>5. \A i \in Intents : paidOn'[i] > 0 => sent'[i] > 0
  BY DEF FlightInv, QuietFlight
<1> QED
  BY <1>2, <1>3, <1>4, <1>5 DEF FlightInv

LEMMA TakeOffKeeps ==
  ASSUME TypeOK, TypeOK', FlightInv, NEW c \in Calls, NEW i \in Intents, TakeOff(c, i)
  PROVE  FlightInv'
<1>1. /\ call'[c].pc = "mutating" /\ call'[c].intent = i
      /\ \A d \in Calls \ {c} : call'[d] = call[d]
  BY DEF TakeOff, TypeOK
<1>2. /\ sent'[i] = 1 /\ \A j \in Intents \ {i} : sent'[j] = sent[j]
      /\ paidOn[i] = 0 /\ paidOn' = paidOn
  BY DEF TakeOff, TypeOK, FlightInv
<1>3. \A d \in Calls : InAir(d) => call[d].intent \in Intents \ {i}
  BY AirIntent DEF FlightInv, TakeOff, TypeOK
<1>4. \A d \in Calls \ {c} : InAir(d)' =>
        /\ InAir(d) /\ call'[d] = call[d]
        /\ call[d].intent \in Intents \ {i}
  BY <1>1, <1>3 DEF InAir
<1>5. \A d \in Calls : InAir(d)' =>
        /\ sent'[call'[d].intent] > 0
        /\ st'[call'[d].intent] \in Unsettled
        /\ paidOn'[call'[d].intent] > 0 <=> At(d, "verifying")'
  <2>1. ASSUME NEW d \in Calls \ {c}, InAir(d)'
        PROVE  /\ sent'[call'[d].intent] > 0
               /\ st'[call'[d].intent] \in Unsettled
               /\ paidOn'[call'[d].intent] > 0 <=> At(d, "verifying")'
    BY <1>2, <1>4, <2>1 DEF FlightInv, TakeOff, At
  <2>2. /\ sent'[call'[c].intent] > 0
        /\ st'[call'[c].intent] \in Unsettled
        /\ paidOn'[call'[c].intent] > 0 <=> At(c, "verifying")'
    BY <1>1, <1>2 DEF TakeOff, At, Unsettled
  <2> QED
    BY <2>1, <2>2
<1>6. \A d, e \in Calls :
        InAir(d)' /\ InAir(e)' /\ d # e => call'[d].intent # call'[e].intent
  BY <1>1, <1>4 DEF FlightInv
<1>7. \A j \in Intents : paidOn'[j] > 0 => sent'[j] > 0
  BY <1>2 DEF FlightInv, TypeOK
<1>8. OutcomeHonest'
  BY <1>2 DEF FlightInv, OutcomeHonest, TakeOff
<1> QED
  BY <1>5, <1>6, <1>7, <1>8 DEF FlightInv

LEMMA AnswerKeeps ==
  ASSUME TypeOK, TypeOK', FlightInv, NEW c \in Calls, MutateSucceeds(c)
  PROVE  FlightInv'
<1> DEFINE i == call[c].intent
<1>0. i \in Intents /\ InAir(c) /\ At(c, "mutating")
  BY AirIntent DEF MutateSucceeds, At, InAir
<1>1. /\ call'[c].pc = "verifying" /\ call'[c].intent = i
      /\ \A d \in Calls \ {c} : call'[d] = call[d]
  BY DEF MutateSucceeds, Suspend, TypeOK
<1>2. /\ sent' = sent /\ st' = st
      /\ paidOn'[i] > 0 /\ \A j \in Intents \ {i} : paidOn'[j] = paidOn[j]
  <2>1. paidOn' = [paidOn EXCEPT ![i] = 1 + Day(now)] /\ sent' = sent /\ st' = st
    BY DEF MutateSucceeds, effects
  <2> QED
    BY <1>0, <2>1, DayIsNat DEF TypeOK
<1>3. \A d \in Calls \ {c} : InAir(d)' =>
        /\ InAir(d) /\ call'[d] = call[d]
        /\ call[d].intent \in Intents \ {i}
  BY <1>0, <1>1, AirIntent DEF InAir, FlightInv
<1> HIDE DEF i
<1>4. \A d \in Calls : InAir(d)' =>
        /\ sent'[call'[d].intent] > 0
        /\ st'[call'[d].intent] \in Unsettled
        /\ paidOn'[call'[d].intent] > 0 <=> At(d, "verifying")'
  <2>1. ASSUME NEW d \in Calls \ {c}, InAir(d)'
        PROVE  /\ sent'[call'[d].intent] > 0
               /\ st'[call'[d].intent] \in Unsettled
               /\ paidOn'[call'[d].intent] > 0 <=> At(d, "verifying")'
    BY <1>2, <1>3, <2>1 DEF FlightInv, At
  <2>2. /\ sent'[call'[c].intent] > 0
        /\ st'[call'[c].intent] \in Unsettled
        /\ paidOn'[call'[c].intent] > 0 <=> At(c, "verifying")'
    BY <1>0, <1>1, <1>2 DEF FlightInv, At, i
  <2> QED
    BY <2>1, <2>2
<1>5. \A d, e \in Calls :
        InAir(d)' /\ InAir(e)' /\ d # e => call'[d].intent # call'[e].intent
  BY <1>1, <1>3 DEF FlightInv
<1>6. sent[i] > 0 /\ st[i] \in Unsettled
  BY <1>0 DEF FlightInv, i
<1>7. \A j \in Intents : paidOn'[j] > 0 => sent'[j] > 0
  BY <1>2, <1>6 DEF FlightInv
<1>8. OutcomeHonest'
  BY <1>2, <1>6 DEF FlightInv, OutcomeHonest, Unsettled
<1> QED
  BY <1>4, <1>5, <1>7, <1>8 DEF FlightInv

(* The intent of a call in the air is settled, and the call returns.       *)
LEMMA LandingKeeps ==
  ASSUME TypeOK, TypeOK', FlightInv, NEW c \in Calls, InAir(c), Return(c),
         UNCHANGED <<sent, paidOn>>,
         \A j \in Intents \ {call[c].intent} : st'[j] = st[j],
         st'[call[c].intent] = "verified" => At(c, "verifying"),
         st'[call[c].intent] = "failed" => At(c, "mutating")
  PROVE  FlightInv'
<1>1. /\ ~InAir(c)'
      /\ \A d \in Calls \ {c} : call'[d] = call[d]
  BY DEF Return, TypeOK, Idle, InAir
<1>2. \A d \in Calls : InAir(d)' =>
        /\ InAir(d) /\ call'[d] = call[d] /\ d # c
        /\ call[d].intent \in Intents \ {call[c].intent}
  BY <1>1, AirIntent DEF InAir, FlightInv
<1>3. \A d \in Calls : InAir(d)' =>
        /\ sent'[call'[d].intent] > 0
        /\ st'[call'[d].intent] \in Unsettled
        /\ paidOn'[call'[d].intent] > 0 <=> At(d, "verifying")'
  BY <1>2 DEF FlightInv, At
<1>4. \A d, e \in Calls :
        InAir(d)' /\ InAir(e)' /\ d # e => call'[d].intent # call'[e].intent
  BY <1>2 DEF FlightInv
<1>5. call[c].intent \in Intents /\ (paidOn[call[c].intent] > 0 <=> At(c, "verifying"))
  BY AirIntent DEF FlightInv
<1>6. OutcomeHonest'
  BY <1>5 DEF FlightInv, OutcomeHonest, TypeOK, At
<1> QED
  BY <1>3, <1>4, <1>6 DEF FlightInv

LEMMA FlightStep ==
  ASSUME TypeOK, TypeOK', FlightInv, FlightShape
  PROVE  FlightInv'
<1>1. CASE QuietFlight
  BY <1>1, QuietFlightKeeps
<1>2. ASSUME NEW c \in Calls, NEW i \in Intents, TakeOff(c, i) PROVE FlightInv'
  BY <1>2, TakeOffKeeps
<1>3. ASSUME NEW c \in Calls, MutateSucceeds(c) PROVE FlightInv'
  BY <1>3, AnswerKeeps
<1>4. ASSUME NEW c \in Calls, MutateFails(c) PROVE FlightInv'
  <2>1. InAir(c) /\ At(c, "mutating") /\ st[call[c].intent] \in Unsettled
    BY <1>4 DEF MutateFails, InAir, At, FlightInv
  <2>2. /\ \A j \in Intents \ {call[c].intent} : st'[j] = st[j]
        /\ st'[call[c].intent] # "verified"
    BY <1>4, <2>1, AirIntent DEF MutateFails, Moved, Unsettled, TypeOK
  <2> QED
    BY <1>4, <2>1, <2>2, LandingKeeps DEF MutateFails, effects, money
<1>5. ASSUME NEW c \in Calls, NEW ok \in BOOLEAN, EndVerify(c, ok) PROVE FlightInv'
  <2>1. InAir(c) /\ At(c, "verifying") /\ st[call[c].intent] \in Unsettled
    BY <1>5 DEF EndVerify, InAir, At, FlightInv
  <2>2. /\ \A j \in Intents \ {call[c].intent} : st'[j] = st[j]
        /\ st'[call[c].intent] # "failed"
    BY <1>5, <2>1, AirIntent DEF EndVerify, Moved, Unsettled, TypeOK
  <2> QED
    BY <1>5, <2>1, <2>2, LandingKeeps DEF EndVerify, effects, money
<1> QED
  BY <1>1, <1>2, <1>3, <1>4, <1>5 DEF FlightShape

(* Intents in the air are told apart, and their answers never cross.       *)
THEOREM FlightCorrect == Spec => []FlightInv
<1>1. Init => FlightInv
  BY DEF Init, FlightInv, OutcomeHonest, InAir, Idle
<1>2. TypeOK /\ TypeOK' /\ OnceInv /\ GateInv /\ FlightInv /\ [Next]_vars => FlightInv'
  BY StepFlight, FlightStep
<1> QED
  BY <1>1, <1>2, TypeCorrect, DispatchedOnce, GatePassed, PTL DEF Spec

(* A verified intent was accepted by WHMCS, a failed one was not reported  *)
(* as done: the late answers of suspended calls never cross.               *)
THEOREM OutcomesHonest == Spec => []OutcomeHonest
<1>1. FlightInv => OutcomeHonest
  BY DEF FlightInv
<1> QED
  BY <1>1, FlightCorrect, PTL

-----------------------------------------------------------------------------
(* The day's spending.                                                     *)

Paid(a) == {i \in Intents : High(i) /\ ActionOf(i) = a /\ paidOn[i] = 1 + Day(now)}

Flying(a) == {c \in Calls : /\ At(c, "mutating")
                            /\ High(call[c].intent)
                            /\ ActionOf(call[c].intent) = a}

Cost(a) == [i \in Paid(a) |-> Request[i].amount]

Load(a) == [c \in Flying(a) |-> Request[call[c].intent].amount]

Limit == DailyCap + (Cardinality(Calls) - 1) * PerActionCap

CappedActions == {Action[s] : s \in Scopes \ Destructive}

LEMMA SumsNamed ==
  \A a : SpentToday(a) = SumFunction(Cost(a)) /\ InFlight(a) = SumFunction(Load(a))
  BY DEF SpentToday, InFlight, Cost, Load, Paid, Flying

LEMMA RequestTyped ==
  ASSUME NEW i \in Intents
  PROVE  /\ Request[i].amount \in Nat
         /\ ActionOf(i) \in Actions
  BY ConfigAssumption DEF ConfigAssumption, ActionOf, Actions

LEMMA CostTyped ==
  ASSUME NEW a
  PROVE  /\ DOMAIN Cost(a) = Paid(a)
         /\ IsFiniteSet(Paid(a))
         /\ \A i \in Paid(a) : Cost(a)[i] = Request[i].amount /\ Cost(a)[i] \in Nat
         /\ SpentToday(a) \in Nat
<1>1. Paid(a) \subseteq Intents /\ IsFiniteSet(Intents)
  BY ConfigAssumption DEF ConfigAssumption, Paid
<1>2. IsFiniteSet(Paid(a))
  BY <1>1, FS_Subset
<1>3. DOMAIN Cost(a) = Paid(a)
  BY DEF Cost
<1>4. \A i \in Paid(a) : Cost(a)[i] = Request[i].amount /\ Cost(a)[i] \in Nat
  BY <1>1, RequestTyped DEF Cost
<1>5. SumFunction(Cost(a)) \in Nat
  BY <1>2, <1>3, <1>4, SumOfValues
<1> QED
  BY <1>2, <1>3, <1>4, <1>5, SumsNamed

LEMMA LoadTyped ==
  ASSUME TypeOK, NEW a
  PROVE  /\ DOMAIN Load(a) = Flying(a)
         /\ Flying(a) \subseteq Calls /\ IsFiniteSet(Flying(a))
         /\ \A c \in Flying(a) : /\ call[c].intent \in Intents
                                 /\ Load(a)[c] = Request[call[c].intent].amount
                                 /\ Load(a)[c] \in Nat
         /\ InFlight(a) \in Nat
<1>1. Flying(a) \subseteq Calls /\ IsFiniteSet(Calls)
  BY ConfigAssumption DEF ConfigAssumption, Flying
<1>2. IsFiniteSet(Flying(a))
  BY <1>1, FS_Subset
<1>3. DOMAIN Load(a) = Flying(a)
  BY DEF Load
<1>4. \A c \in Flying(a) : call[c].intent \in Intents
  BY BusyIntent DEF Flying, At
<1>5. \A c \in Flying(a) : Load(a)[c] = Request[call[c].intent].amount /\ Load(a)[c] \in Nat
  BY <1>4, RequestTyped DEF Load
<1>6. SumFunction(Load(a)) \in Nat
  BY <1>2, <1>3, <1>5, SumOfValues
<1> QED
  BY <1>1, <1>2, <1>3, <1>4, <1>5, <1>6, SumsNamed

LEMMA LimitTyped ==
  /\ Limit \in Nat /\ DailyCap \in Nat /\ PerActionCap \in Nat
  /\ IsFiniteSet(Calls) /\ Cardinality(Calls) \in Nat
  /\ (Cardinality(Calls) - 1) * PerActionCap \in Nat
  /\ Cardinality(Calls) - 1 \in Nat
<1>1. /\ DailyCap \in Nat /\ PerActionCap \in Nat
      /\ IsFiniteSet(Calls) /\ Calls # {}
  BY ConfigAssumption DEF ConfigAssumption
<1>2. Cardinality(Calls) \in Nat /\ Cardinality(Calls) # 0
  BY <1>1, FS_CardinalityType, FS_EmptySet
<1>3. Cardinality(Calls) - 1 \in Nat
  BY <1>2
<1>4. (Cardinality(Calls) - 1) * PerActionCap \in Nat
  BY <1>1, <1>3
<1> QED
  BY <1>1, <1>2, <1>3, <1>4 DEF Limit

(* Calls that leave the air, or are lost, carry nothing any more.          *)
LEMMA LighterLoad ==
  ASSUME TypeOK, TypeOK', NEW a,
         \A d \in Calls : At(d, "mutating")' => call'[d] = call[d]
  PROVE  InFlight(a)' <= InFlight(a)
<1> DEFINE f == Load(a)
           g == Load(a)'
<1>1. \A d \in Flying(a)' : d \in Flying(a) /\ call'[d] = call[d]
  BY DEF Flying, At
<1>2. DOMAIN f = Flying(a) /\ DOMAIN g = Flying(a)' /\ Flying(a)' \subseteq Flying(a)
  BY <1>1 DEF Load
<1>3. /\ IsFiniteSet(DOMAIN f)
      /\ \A x \in DOMAIN f : f[x] \in Nat
  BY LoadTyped
<1>4. \A x \in DOMAIN g : g[x] = f[x]
  BY <1>1, <1>2 DEF Load
<1> HIDE DEF f, g
<1>5. SumFunction(g) <= SumFunction(f)
  BY <1>2, <1>3, <1>4, SumOfPart
<1>6. InFlight(a)' = SumFunction(Load(a)')
  BY DEF InFlight, Load, Flying
<1> QED
  BY <1>5, <1>6, SumsNamed DEF f, g

LEMMA SameCost ==
  ASSUME NEW a, UNCHANGED <<now, paidOn>>
  PROVE  SpentToday(a)' = SpentToday(a)
  BY DEF SpentToday

(* On a new day nothing has been paid yet.                                 *)
LEMMA NewDay ==
  ASSUME TypeOK, SpendInv, Tick, Day(now') # Day(now), NEW a
  PROVE  SpentToday(a)' = 0
<1>1. Day(now) \in Nat /\ Day(now') \in Nat /\ Day(now) <= Day(now')
  <2>1. now \in Nat /\ now' = now + 1 /\ DayLength \in Nat \ {0}
    BY ConfigAssumption DEF ConfigAssumption, TypeOK, Tick
  <2> QED
    BY <2>1 DEF Day
<1>2. \A i \in Intents : paidOn'[i] \in Nat /\ paidOn'[i] < 1 + Day(now')
  BY <1>1 DEF SpendInv, Tick, TypeOK
<1>3. DOMAIN Cost(a)' = {}
  BY <1>1, <1>2 DEF Cost, Paid
<1>4. SumFunction(Cost(a)') = 0
  BY <1>3, SumOfNone DEF SumFunction
<1>5. SpentToday(a)' = SumFunction(Cost(a)')
  BY DEF SpentToday, Cost, Paid
<1> QED
  BY <1>4, <1>5

(* What is in the air for a capped action passed that action's cap.        *)
LEMMA CappedLoad ==
  ASSUME TypeOK, SpendInv, NEW a \in CappedActions
  PROVE  \A c \in Flying(a) : Load(a)[c] <= PerActionCap
<1> SUFFICES ASSUME NEW c \in Flying(a)
             PROVE  Load(a)[c] <= PerActionCap
  OBVIOUS
<1>1. call[c].intent \in Intents /\ Load(a)[c] = Request[call[c].intent].amount
  BY LoadTyped
<1>2. ~Destroys(call[c].intent)
  BY <1>1, ConfigAssumption
     DEF ConfigAssumption, CappedActions, Destroys, Flying, ActionOf
<1> QED
  BY <1>1, <1>2 DEF SpendInv, Flying, Capped, At

(* Destructive scopes and the others have no action in common.             *)
LEMMA CappedIntent ==
  ASSUME NEW i \in Intents, High(i), ActionOf(i) \in CappedActions
  PROVE  Capped(i)
  BY ConfigAssumption DEF ConfigAssumption, CappedActions, Capped, Destroys, ActionOf

LEMMA LimitNamed ==
  DailySpendBounded <=>
    (Tallied => \A a \in CappedActions : SpentToday(a) + InFlight(a) <= Limit)
  BY DEF DailySpendBounded, Tallied, CappedActions, Limit

LEMMA LoadStaysTyped ==
  ASSUME TypeOK', NEW a
  PROVE  /\ DOMAIN Load(a)' = Flying(a)'
         /\ Flying(a)' \subseteq Calls /\ IsFiniteSet(Flying(a)')
         /\ \A c \in Flying(a)' : Load(a)'[c] \in Nat
         /\ InFlight(a)' = SumFunction(Load(a)')
         /\ InFlight(a)' \in Nat
<1>1. Flying(a)' \subseteq Calls /\ IsFiniteSet(Calls)
  BY ConfigAssumption DEF ConfigAssumption, Flying
<1>2. IsFiniteSet(Flying(a)')
  BY <1>1, FS_Subset
<1>3. DOMAIN Load(a)' = Flying(a)'
  BY DEF Load
<1>4. \A c \in Flying(a)' : call'[c].intent \in Intents
  BY DEF TypeOK, Flying, At, Suspended, Idle
<1>5. \A c \in Flying(a)' : Load(a)'[c] \in Nat
  BY <1>4, RequestTyped DEF Load
<1>6. SumFunction(Load(a)') \in Nat
  BY <1>2, <1>3, <1>5, SumOfValues
<1>7. InFlight(a)' = SumFunction(Load(a)')
  BY DEF InFlight, Load, Flying
<1> QED
  BY <1>1, <1>2, <1>3, <1>5, <1>6, <1>7

(* A step that leaves money and the clock alone and adds no call.          *)
LEMMA LighterSpend ==
  ASSUME TypeOK, TypeOK', SpendInv, UNCHANGED <<now, tally, paidOn>>,
         Tallied' => Tallied,
         \A d \in Calls : At(d, "mutating")' => call'[d] = call[d]
  PROVE  SpendInv'
<1>1. \A i \in Intents : paidOn'[i] <= 1 + Day(now')
  BY DEF SpendInv
<1>2. Tallied' => \A a \in Actions : SpentToday(a)' <= tally'[a]
  BY SameCost DEF SpendInv
<1>3. \A c \in Calls : At(c, "mutating")' /\ Capped(call'[c].intent)
                         => Request[call'[c].intent].amount <= PerActionCap
  BY DEF SpendInv, At
<1>4. ASSUME Tallied', NEW a \in CappedActions
      PROVE  SpentToday(a)' + InFlight(a)' <= Limit
  <2>1. SpentToday(a) + InFlight(a) <= Limit
    BY <1>4, LimitNamed DEF SpendInv
  <2>2. SpentToday(a)' = SpentToday(a) /\ InFlight(a)' <= InFlight(a)
    BY SameCost, LighterLoad
  <2>3. SpentToday(a) \in Nat /\ InFlight(a) \in Nat /\ InFlight(a)' \in Nat
    BY CostTyped, LoadTyped, LoadStaysTyped
  <2> QED
    BY <2>1, <2>2, <2>3, LimitTyped
<1>5. DailySpendBounded'
  BY <1>4 DEF DailySpendBounded, Tallied, CappedActions, Limit
<1> QED
  BY <1>1, <1>2, <1>3, <1>5 DEF SpendInv

LEMMA TickSpend ==
  ASSUME TypeOK, TypeOK', SpendInv, Tick
  PROVE  SpendInv'
<1>0. /\ now \in Nat /\ now' = now + 1 /\ DayLength \in Nat \ {0}
      /\ paidOn' = paidOn /\ call' = call /\ crashes' = crashes
      /\ tally \in [Actions -> Nat] /\ tally' \in [Actions -> Nat]
  BY ConfigAssumption DEF ConfigAssumption, TypeOK, Tick
<1>1. Day(now) \in Nat /\ Day(now') \in Nat /\ Day(now) <= Day(now')
  BY <1>0 DEF Day
<1>2. \A i \in Intents : paidOn'[i] <= 1 + Day(now')
  BY <1>0, <1>1 DEF SpendInv, TypeOK
<1>3. \A c \in Calls : At(c, "mutating")' /\ Capped(call'[c].intent)
                         => Request[call'[c].intent].amount <= PerActionCap
  BY <1>0 DEF SpendInv, At
<1>4. CASE Day(now') = Day(now)
  <2>1. tally' = tally /\ Tallied' = Tallied
    BY <1>0, <1>4 DEF Tick, Tallied
  <2>2. \A a : SpentToday(a)' = SpentToday(a) /\ InFlight(a)' = InFlight(a)
    BY <1>0, <1>4 DEF SpentToday, InFlight, At
  <2>3. Tallied' => \A a \in Actions : SpentToday(a)' <= tally'[a]
    BY <2>1, <2>2 DEF SpendInv
  <2>4. DailySpendBounded'
    BY <2>1, <2>2 DEF SpendInv, DailySpendBounded, Tallied
  <2> QED
    BY <1>2, <1>3, <2>3, <2>4 DEF SpendInv
<1>5. CASE Day(now') # Day(now)
  <2>1. \A a : SpentToday(a)' = 0
    BY <1>5, NewDay
  <2>2. \A a : InFlight(a)' = InFlight(a)
    BY <1>0 DEF InFlight, At
  <2>3. Tallied' => \A a \in Actions : SpentToday(a)' <= tally'[a]
    BY <1>0, <2>1
  <2>4. ASSUME Tallied', NEW a \in CappedActions
        PROVE  SpentToday(a)' + InFlight(a)' <= Limit
    <3>1. SpentToday(a) + InFlight(a) <= Limit
      BY <1>0, <2>4, LimitNamed DEF SpendInv, Tallied
    <3>2. SpentToday(a) \in Nat /\ InFlight(a) \in Nat
      BY CostTyped, LoadTyped
    <3> QED
      BY <2>1, <2>2, <3>1, <3>2, LimitTyped
  <2>5. DailySpendBounded'
    BY <2>4 DEF DailySpendBounded, Tallied, CappedActions, Limit
  <2> QED
    BY <1>2, <1>3, <2>3, <2>5 DEF SpendInv
<1> QED
  BY <1>4, <1>5

(* A capped call takes off: tally and amount were within the daily cap, and*)
(* every other call in the air carries at most the cap of its action.      *)
LEMMA TakeOffSpend ==
  ASSUME TypeOK, TypeOK', SpendInv, NEW c \in Calls, NEW i \in Intents, TakeOff(c, i)
  PROVE  SpendInv'
<1>1. /\ call'[c].pc = "mutating" /\ call'[c].intent = i
      /\ \A d \in Calls \ {c} : call'[d] = call[d]
      /\ ~At(c, "mutating")
      /\ paidOn' = paidOn /\ now' = now /\ tally' = tally /\ Tallied' = Tallied
  BY DEF TakeOff, TypeOK, InAir, At, Tallied
<1>2. Capped(i) => /\ Request[i].amount <= PerActionCap
                   /\ tally[ActionOf(i)] + Request[i].amount <= DailyCap
  BY DEF TakeOff, WithinCaps
<1>3. \A j \in Intents : paidOn'[j] <= 1 + Day(now')
  BY <1>1 DEF SpendInv
<1>4. Tallied' => \A a \in Actions : SpentToday(a)' <= tally'[a]
  BY <1>1, SameCost DEF SpendInv
<1>5. \A d \in Calls : At(d, "mutating")' /\ Capped(call'[d].intent)
                         => Request[call'[d].intent].amount <= PerActionCap
  BY <1>1, <1>2 DEF SpendInv, At
<1>6. ASSUME Tallied', NEW a \in CappedActions
      PROVE  SpentToday(a)' + InFlight(a)' <= Limit
  <2>1. /\ SpentToday(a) + InFlight(a) <= Limit
        /\ SpentToday(a)' = SpentToday(a)
        /\ SpentToday(a) \in Nat /\ InFlight(a) \in Nat
    BY <1>1, <1>6, LimitNamed, SameCost, CostTyped, LoadTyped DEF SpendInv
  <2>2. c \notin Flying(a)
    BY <1>1 DEF Flying
  <2>3. CASE High(i) /\ ActionOf(i) = a
    <3>1. Flying(a)' = Flying(a) \cup {c}
      BY <1>1, <2>3 DEF Flying, At
    <3>2. /\ Load(a)'[c] = Request[i].amount
          /\ \A d \in Flying(a) : Load(a)'[d] = Load(a)[d]
      BY <1>1, <2>2, <3>1, LoadTyped DEF Load
    <3>3. InFlight(a)' = Request[i].amount + InFlight(a)
      <4> DEFINE f == Load(a)
                 g == Load(a)'
      <4>1. /\ IsFiniteSet(DOMAIN f) /\ c \notin DOMAIN f /\ DOMAIN g = DOMAIN f \cup {c}
            /\ \A x \in DOMAIN g : g[x] \in Nat
            /\ \A x \in DOMAIN f : g[x] = f[x]
        BY <2>2, <3>1, <3>2, LoadTyped, LoadStaysTyped
      <4> HIDE DEF f, g
      <4>2. SumFunction(g) = g[c] + SumFunction(f)
        BY <4>1, SumOfExtended
      <4> QED
        BY <3>2, <4>2, LoadStaysTyped, SumsNamed DEF f, g
    <3>4. InFlight(a) <= (Cardinality(Calls) - 1) * PerActionCap
      <4> DEFINE f == Load(a)
                 S == Calls \ {c}
      <4>1. IsFiniteSet(S) /\ Cardinality(S) = Cardinality(Calls) - 1
        BY LimitTyped, FS_RemoveElement
      <4>2. DOMAIN f \subseteq S /\ \A x \in DOMAIN f : f[x] \in Nat /\ f[x] <= PerActionCap
        BY <2>2, LoadTyped, CappedLoad
      <4> HIDE DEF f, S
      <4>3. SumFunction(f) <= Cardinality(S) * PerActionCap
        BY <4>1, <4>2, LimitTyped, SumAtMost
      <4> QED
        BY <4>1, <4>3, SumsNamed DEF f
    <3>5. /\ SpentToday(a) <= tally[a] /\ tally[a] \in Nat
          /\ tally[a] + Request[i].amount <= DailyCap
          /\ Request[i].amount \in Nat
      BY <1>1, <1>2, <1>6, <2>3, CappedIntent, RequestTyped DEF SpendInv, TypeOK
    <3> QED
      BY <2>1, <3>3, <3>4, <3>5, LimitTyped DEF Limit
  <2>4. CASE ~(High(i) /\ ActionOf(i) = a)
    <3>1. Flying(a)' = Flying(a)
      BY <1>1, <2>4 DEF Flying, At
    <3>2. Load(a)' = Load(a)
      BY <1>1, <2>2, <3>1 DEF Load, Flying
    <3> QED
      BY <2>1, <3>2, LoadStaysTyped, SumsNamed
  <2> QED
    BY <2>3, <2>4
<1>7. DailySpendBounded'
  BY <1>6 DEF DailySpendBounded, Tallied, CappedActions, Limit
<1> QED
  BY <1>3, <1>4, <1>5, <1>7 DEF SpendInv

(* WHMCS reports success: what was in the air for the intent's action is   *)
(* now spent, and the tally says so.                                       *)
LEMMA AnswerSpend ==
  ASSUME TypeOK, TypeOK', FlightInv, SpendInv, NEW c \in Calls, MutateSucceeds(c)
  PROVE  SpendInv'
<1> DEFINE i == call[c].intent
<1>0. i \in Intents /\ InAir(c) /\ At(c, "mutating") /\ paidOn[i] = 0
  <2>1. i \in Intents /\ InAir(c) /\ At(c, "mutating")
    BY AirIntent DEF MutateSucceeds, At, InAir
  <2> QED
    BY <2>1 DEF FlightInv, At, TypeOK
<1>1. /\ call'[c].pc = "verifying"
      /\ \A d \in Calls \ {c} : call'[d] = call[d]
      /\ now' = now /\ Tallied' = Tallied
  BY DEF MutateSucceeds, Suspend, TypeOK, Tallied
<1>2. /\ paidOn'[i] = 1 + Day(now)
      /\ \A j \in Intents \ {i} : paidOn'[j] = paidOn[j]
  BY <1>0 DEF MutateSucceeds, TypeOK
<1>3. /\ Request[i].amount \in Nat /\ ActionOf(i) \in Actions
      /\ tally' = IF High(i) THEN [tally EXCEPT ![ActionOf(i)] = @ + Request[i].amount]
                  ELSE tally
  BY <1>0, RequestTyped DEF MutateSucceeds
<1>4. Day(now) \in Nat
  BY DayIsNat DEF TypeOK
<1>5. i = call[c].intent
  OBVIOUS
<1> HIDE DEF i
<1>6. \A j \in Intents : paidOn'[j] <= 1 + Day(now')
  BY <1>1, <1>2, <1>4 DEF SpendInv
<1>7. \A d \in Calls : At(d, "mutating")' /\ Capped(call'[d].intent)
                         => Request[call'[d].intent].amount <= PerActionCap
  BY <1>1 DEF SpendInv, At
<1>8. ASSUME NEW a
      PROVE  IF High(i) /\ ActionOf(i) = a
             THEN /\ SpentToday(a)' = SpentToday(a) + Request[i].amount
                  /\ InFlight(a) = InFlight(a)' + Request[i].amount
             ELSE SpentToday(a)' = SpentToday(a) /\ InFlight(a)' = InFlight(a)
  <2> DEFINE f == Load(a)'
             g == Load(a)
             p == Cost(a)
             q == Cost(a)'
  <2>1. i \notin Paid(a) /\ c \notin Flying(a)'
    BY <1>0, <1>1, <1>4 DEF Paid, Flying, At
  <2>2. SpentToday(a)' = SumFunction(q)
    BY DEF SpentToday, Cost, Paid
  <2>3. CASE High(i) /\ ActionOf(i) = a
    <3>1. Paid(a)' = Paid(a) \cup {i}
      BY <1>0, <1>1, <1>2, <2>3 DEF Paid
    <3>2. /\ IsFiniteSet(DOMAIN p) /\ i \notin DOMAIN p /\ DOMAIN q = DOMAIN p \cup {i}
          /\ \A x \in DOMAIN q : q[x] \in Nat
          /\ \A x \in DOMAIN p : q[x] = p[x]
          /\ q[i] = Request[i].amount
      <4>1. Paid(a)' \subseteq Intents
        BY DEF Paid
      <4> QED
        BY <2>1, <3>1, <4>1, CostTyped, RequestTyped DEF Cost
    <3>3. Flying(a) = Flying(a)' \cup {c}
      BY <1>0, <1>1, <1>5, <2>3 DEF Flying, At
    <3>4. /\ IsFiniteSet(DOMAIN f) /\ c \notin DOMAIN f /\ DOMAIN g = DOMAIN f \cup {c}
          /\ \A x \in DOMAIN g : g[x] \in Nat
          /\ g[c] = Request[i].amount
      BY <1>5, <2>1, <3>3, LoadTyped, LoadStaysTyped
    <3>5. \A x \in DOMAIN f : g[x] = f[x]
      BY <1>1, <2>1, <3>3, LoadStaysTyped DEF Load
    <3> HIDE DEF f, g, p, q
    <3>6. SumFunction(q) = q[i] + SumFunction(p)
      BY <3>2, SumOfExtended
    <3>7. SumFunction(g) = g[c] + SumFunction(f)
      BY <3>4, <3>5, SumOfExtended
    <3>8. SumFunction(p) \in Nat /\ SumFunction(f) \in Nat
      BY CostTyped, LoadStaysTyped, SumsNamed DEF p, f
    <3>9. /\ SpentToday(a) = SumFunction(p) /\ InFlight(a)' = SumFunction(f)
          /\ InFlight(a) = SumFunction(g)
      BY LoadStaysTyped, SumsNamed DEF p, f, g
    <3> QED
      BY <1>3, <2>2, <2>3, <3>2, <3>4, <3>6, <3>7, <3>8, <3>9
  <2>4. CASE ~(High(i) /\ ActionOf(i) = a)
    <3>1. Paid(a)' = Paid(a)
      BY <1>0, <1>1, <1>2, <2>4 DEF Paid
    <3>2. q = p
      BY <3>1 DEF Cost
    <3>3. Flying(a)' = Flying(a)
      BY <1>0, <1>1, <1>5, <2>4 DEF Flying, At
    <3>4. f = g
      BY <1>1, <2>1, <3>3, LoadStaysTyped DEF Load
    <3> QED
      BY <2>2, <2>4, <3>2, <3>4, LoadStaysTyped, SumsNamed
  <2> QED
    BY <2>3, <2>4
<1>9. \A a : /\ SpentToday(a) \in Nat /\ InFlight(a) \in Nat
             /\ InFlight(a)' \in Nat
  BY CostTyped, LoadTyped, LoadStaysTyped
<1>10. ASSUME Tallied', NEW a \in Actions
       PROVE  SpentToday(a)' <= tally'[a]
  <2>1. SpentToday(a) <= tally[a]
    BY <1>1, <1>10 DEF SpendInv
  <2>2. tally[a] \in Nat
    BY DEF TypeOK
  <2>3. tally'[a] = IF High(i) /\ ActionOf(i) = a THEN tally[a] + Request[i].amount
                    ELSE tally[a]
    BY <1>3 DEF TypeOK
  <2> QED
    BY <1>3, <1>8, <1>9, <2>1, <2>2, <2>3
<1>11. ASSUME Tallied', NEW a \in CappedActions
       PROVE  SpentToday(a)' + InFlight(a)' <= Limit
  <2>1. SpentToday(a) + InFlight(a) <= Limit
    BY <1>1, <1>11, LimitNamed DEF SpendInv
  <2> QED
    BY <1>3, <1>8, <1>9, <2>1
<1>12. DailySpendBounded'
  BY <1>11 DEF DailySpendBounded, Tallied, CappedActions, Limit
<1> QED
  BY <1>6, <1>7, <1>10, <1>12 DEF SpendInv

LEMMA SpendStep ==
  ASSUME TypeOK, TypeOK', FlightInv, SpendInv, FlightShape
  PROVE  SpendInv'
<1>1. CASE QuietFlight /\ UNCHANGED <<now, tally, crashes>>
  <2>1. \A d \in Calls : At(d, "mutating")' => call'[d] = call[d]
    BY <1>1 DEF QuietFlight, InAir, At
  <2> QED
    BY <1>1, <2>1, LighterSpend DEF QuietFlight, Tallied
<1>2. CASE QuietFlight /\ Tick
  BY <1>2, TickSpend
<1>3. CASE QuietFlight /\ Grounded
  <2>1. \A d \in Calls : At(d, "mutating")' => call'[d] = call[d]
    BY <1>3 DEF QuietFlight, InAir, At
  <2>2. CASE TallyDurable
    BY <1>3, <2>1, <2>2, LighterSpend DEF QuietFlight, Grounded, Tallied
  <2>3. CASE ~TallyDurable
    <3>1. ~Tallied'
      BY <1>3, <2>3 DEF Grounded, Tallied, TypeOK
    <3>2. now' = now /\ paidOn' = paidOn /\ DailySpendBounded'
      BY <1>3, <3>1 DEF QuietFlight, Grounded, DailySpendBounded, Tallied
    <3> QED
      BY <2>1, <3>1, <3>2 DEF SpendInv, At
  <2> QED
    BY <2>2, <2>3
<1>4. ASSUME NEW c \in Calls, NEW i \in Intents, TakeOff(c, i) PROVE SpendInv'
  BY <1>4, TakeOffSpend
<1>5. ASSUME NEW c \in Calls, MutateSucceeds(c) PROVE SpendInv'
  BY <1>5, AnswerSpend
<1>6. ASSUME NEW c \in Calls, NEW ok \in BOOLEAN, MutateFails(c) \/ EndVerify(c, ok)
      PROVE  SpendInv'
  <2>1. \A d \in Calls : At(d, "mutating")' => call'[d] = call[d]
    BY <1>6 DEF MutateFails, EndVerify, Return, Idle, At, TypeOK
  <2>2. UNCHANGED <<now, tally, paidOn, crashes>>
    BY <1>6 DEF MutateFails, EndVerify, money
  <2> QED
    BY <2>1, <2>2, LighterSpend DEF Tallied
<1> QED
  BY <1>1, <1>2, <1>3, <1>4, <1>5, <1>6 DEF FlightShape

(* The tally holds what was paid today, and what is in the air passed the  *)
(* caps.                                                                   *)
THEOREM SpendCorrect == Spec => []SpendInv
<1>1. Init => SpendInv
  <2> SUFFICES ASSUME Init
               PROVE  SpendInv
    OBVIOUS
  <2>1. Day(now) \in Nat
    BY DayIsNat DEF Init
  <2>2. \A a : DOMAIN Cost(a) = {} /\ DOMAIN Load(a) = {}
    BY <2>1 DEF Init, Cost, Paid, Load, Flying, At, Idle
  <2>3. \A a : SpentToday(a) = 0 /\ InFlight(a) = 0
    BY <2>2, SumsNamed, SumOfNone DEF SumFunction
  <2>4. DailySpendBounded
    BY <2>3, LimitNamed, LimitTyped
  <2> QED
    BY <2>1, <2>3, <2>4 DEF Init, SpendInv, At, Idle
<1>2. TypeOK /\ TypeOK' /\ OnceInv /\ GateInv /\ FlightInv /\ SpendInv /\ [Next]_vars
        => SpendInv'
  BY StepFlight, SpendStep
<1> QED
  BY <1>1, <1>2, TypeCorrect, DispatchedOnce, GatePassed, FlightCorrect, PTL DEF Spec

(* A day's spending on a capped action exceeds the daily cap by no more    *)
(* than the other calls in flight could each carry.                        *)
THEOREM SpendBounded == Spec => []DailySpendBounded
<1>1. SpendInv => DailySpendBounded
  BY DEF SpendInv
<1> QED
  BY <1>1, SpendCorrect, PTL
=============================================================================
