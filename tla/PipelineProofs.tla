--------------------------- MODULE PipelineProofs ---------------------------
(***************************************************************************)
(* Proofs about the request pipeline and, on top of it, about the read     *)
(* cache: attempts are bounded, a cancellation without a warning left      *)
(* WHMCS alone, neither reads nor the cache return what an acknowledged    *)
(* mutation has replaced, and the client refines the pipeline.             *)
(***************************************************************************)
EXTENDS WhmcsClient, Integers, TLAPS

-----------------------------------------------------------------------------
(* Executions.                                                             *)

One(flag) == IF flag THEN 1 ELSE 0

(* A write is posted when it is called, and never again.                   *)
WriteHolds(e) ==
  /\ e.at \in {"idle", "posting", "ended"}
  /\ e.tries <= 1
  /\ e.at = "idle" => e.tries = 0
  /\ e.tries = 0 => e.wire = "none"
  /\ e.verdict = "cancelled" /\ ~e.unknown => e.tries = 0

(* Every post of a read but the first is paid for by an ordinary retry,    *)
(* the repair or the reset; one that waits has its next post paid already. *)
ReadHolds(e) ==
  /\ e.ordinary <= AttemptBudget
  /\ e.tries <= e.ordinary + One(e.healed) + One(e.reset)
  /\ e.at \in {"idle", "sleeping", "healing"} =>
       e.tries + 1 <= e.ordinary + One(e.healed) + One(e.reset)

Holds(c, e) == IF Effect[c] = "write" THEN WriteHolds(e) ELSE ReadHolds(e)

ExecInv == \A c \in Calls : exec[c] \in Execution /\ Holds(c, exec[c])

(* One cooldown lies between two runs of the updater.                      *)
UpdaterInv ==
  /\ updater.ended <= now
  /\ updater.ended = 0 => updater.runs = One(updater.running)
  /\ updater.ended > 0 /\ updater.runs > 0 =>
       (updater.runs - 1) * Cooldown <= (IF updater.running THEN now ELSE updater.ended) - 1
  /\ now > 0

PipelineInv == PipelineTypeOK /\ ExecInv /\ UpdaterInv

(* A field of an execution may be set to any value of its type.            *)
LEMMA FieldsSet ==
  /\ \A e \in Execution, x \in Places : [e EXCEPT !.at = x] \in Execution
  /\ \A e \in Execution, x \in Nat : [e EXCEPT !.tries = x] \in Execution
  /\ \A e \in Execution, x \in Nat : [e EXCEPT !.ordinary = x] \in Execution
  /\ \A e \in Execution, x \in BOOLEAN : [e EXCEPT !.healed = x] \in Execution
  /\ \A e \in Execution, x \in BOOLEAN : [e EXCEPT !.reset = x] \in Execution
  /\ \A e \in Execution, x \in Wires : [e EXCEPT !.wire = x] \in Execution
  /\ \A e \in Execution, x \in Verdicts : [e EXCEPT !.verdict = x] \in Execution
  /\ \A e \in Execution, x \in BOOLEAN : [e EXCEPT !.unknown = x] \in Execution
  BY DEF Execution

LEMMA FieldsTyped ==
  ASSUME NEW e \in Execution
  PROVE  /\ e.at \in Places /\ e.wire \in Wires /\ e.verdict \in Verdicts
         /\ e.tries \in Nat /\ e.ordinary \in Nat
         /\ e.tries + 1 \in Nat /\ e.ordinary + 1 \in Nat
         /\ e.healed \in BOOLEAN /\ e.reset \in BOOLEAN /\ e.unknown \in BOOLEAN
  BY DEF Execution

LEMMA Effects == \A c \in Calls : Effect[c] = "read" \/ Effect[c] = "write"
  BY PipelineAssumption DEF PipelineAssumption

LEMMA FreshHolds ==
  ASSUME NEW c \in Calls
  PROVE  Fresh \in Execution /\ Holds(c, Fresh)
<1>1. Fresh \in Execution
  BY DEF Fresh, Execution, Places, Wires, Verdicts
<1>2. Holds(c, Fresh)
  BY PipelineAssumption
     DEF PipelineAssumption, Fresh, Holds, WriteHolds, ReadHolds, One
<1> QED
  BY <1>1, <1>2

LEMMA EndedHolds ==
  ASSUME NEW c \in Calls, NEW e \in Execution, Holds(c, e),
         NEW v \in Verdicts, v = "cancelled" => e.tries = 0
  PROVE  Ended(c, e, v) \in Execution /\ Holds(c, Ended(c, e, v))
<1>1. CASE Effect[c] = "read"
  <2>1. [Fresh EXCEPT !.at = "ended"] \in Execution
    BY FreshHolds, FieldsSet DEF Places
  <2>2. ReadHolds([Fresh EXCEPT !.at = "ended"])
    BY PipelineAssumption DEF PipelineAssumption, Fresh, ReadHolds, One
  <2> QED
    BY <1>1, <2>1, <2>2 DEF Ended, Holds
<1>2. CASE Effect[c] = "write"
  <2>1. Ended(c, e, v) \in Execution
    BY <1>2, FieldsSet DEF Ended, Places
  <2>2. WriteHolds(Ended(c, e, v))
    BY <1>2 DEF Ended, Execution, Holds, WriteHolds
  <2> QED
    BY <1>2, <2>1, <2>2 DEF Holds
<1> QED
  BY <1>1, <1>2, Effects

LEMMA CancelledHolds ==
  ASSUME NEW c \in Calls, NEW e \in Execution, Holds(c, e)
  PROVE  Cancelled(c, e) \in Execution /\ Holds(c, Cancelled(c, e))
<1>1. CASE Effect[c] = "read"
  <2> DEFINE f == [Fresh EXCEPT !.at = "ended"]
  <2>1. f \in Execution /\ ReadHolds(f)
    BY <1>1, EndedHolds, FreshHolds DEF Verdicts, Ended, Holds
  <2>2. Cancelled(c, e) = [f EXCEPT !.unknown = FALSE]
    BY <1>1 DEF Cancelled, Ended
  <2> HIDE DEF f
  <2>3. [f EXCEPT !.unknown = FALSE] \in Execution
    BY <2>1, FieldsSet
  <2>4. ReadHolds([f EXCEPT !.unknown = FALSE])
    BY <2>1 DEF ReadHolds, Execution
  <2> QED
    BY <1>1, <2>2, <2>3, <2>4 DEF Holds
<1>2. CASE Effect[c] = "write"
  <2>1. Cancelled(c, e) \in Execution
    BY <1>2, FieldsSet DEF Cancelled, Ended, Places, Verdicts
  <2>2. /\ Cancelled(c, e).at = "ended"
        /\ Cancelled(c, e).tries = e.tries /\ Cancelled(c, e).wire = e.wire
        /\ Cancelled(c, e).unknown <=> e.tries > 0
    BY <1>2 DEF Cancelled, Ended, Execution
  <2>3. WriteHolds(Cancelled(c, e))
    BY <1>2, <2>2, FieldsTyped DEF Holds, WriteHolds
  <2> QED
    BY <1>2, <2>1, <2>3 DEF Holds
<1> QED
  BY <1>1, <1>2, Effects

(* An execution may post when it is new, and a read when it has waited.    *)
MayPost(c, e) ==
  IF Effect[c] = "write" THEN e.tries = 0 /\ e.verdict # "cancelled"
  ELSE e.tries + 1 <= e.ordinary + One(e.healed) + One(e.reset)

LEMMA PostedHolds ==
  ASSUME NEW c \in Calls, NEW e \in Execution, Holds(c, e), MayPost(c, e)
  PROVE  Posted(e) \in Execution /\ Holds(c, Posted(e))
<1>1. Posted(e) \in Execution
  BY FieldsSet, FieldsTyped DEF Posted, Places, Wires
<1>2. /\ Posted(e).at = "posting" /\ Posted(e).tries = e.tries + 1
      /\ Posted(e).ordinary = e.ordinary /\ Posted(e).verdict = e.verdict
      /\ Posted(e).healed = e.healed /\ Posted(e).reset = e.reset
  BY DEF Posted, Execution
<1>3. CASE Effect[c] = "read"
  BY <1>1, <1>2, <1>3 DEF MayPost, Holds, ReadHolds
<1>4. CASE Effect[c] = "write"
  BY <1>1, <1>2, <1>4, FieldsTyped DEF MayPost, Holds, WriteHolds
<1> QED
  BY <1>3, <1>4, Effects

LEMMA IterateHolds ==
  ASSUME NEW c \in Calls, NEW e \in Execution, Holds(c, e), MayPost(c, e)
  PROVE  Iterate(c, e) \in Execution /\ Holds(c, Iterate(c, e))
  BY CancelledHolds, PostedHolds DEF Iterate

LEMMA TransientHolds ==
  ASSUME NEW c \in Calls, NEW e \in Execution, Holds(c, e)
  PROVE  FailedTransiently(c, e) \in Execution /\ Holds(c, FailedTransiently(c, e))
<1>1. CASE Effect[c] = "read" /\ e.ordinary < AttemptBudget
  <2> DEFINE f == [e EXCEPT !.at = "sleeping", !.ordinary = @ + 1]
  <2>1. f \in Execution
    BY FieldsSet, FieldsTyped DEF Places
  <2>2. /\ f.tries = e.tries /\ f.ordinary = e.ordinary + 1
        /\ f.healed = e.healed /\ f.reset = e.reset
    BY DEF Execution
  <2> HIDE DEF f
  <2>3. e.tries \in Nat /\ e.ordinary \in Nat /\ One(e.healed) \in Nat /\ One(e.reset) \in Nat
    BY FieldsTyped DEF One
  <2>4. ReadHolds(f)
    BY <1>1, <2>2, <2>3, PipelineAssumption DEF PipelineAssumption, Holds, ReadHolds
  <2>5. FailedTransiently(c, e) = f
    BY <1>1 DEF FailedTransiently, f
  <2> QED
    BY <1>1, <2>1, <2>4, <2>5 DEF Holds
<1>2. CASE ~(Effect[c] = "read" /\ e.ordinary < AttemptBudget)
  BY <1>2, EndedHolds DEF FailedTransiently, Verdicts
<1> QED
  BY <1>1, <1>2

LEMMA UnsentHolds ==
  ASSUME NEW c \in Calls, NEW e \in Execution, Holds(c, e)
  PROVE  /\ [e EXCEPT !.wire = "none"] \in Execution
         /\ Holds(c, [e EXCEPT !.wire = "none"])
  BY FieldsSet DEF Wires, Execution, Holds, WriteHolds, ReadHolds

-----------------------------------------------------------------------------
(* Steps of the pipeline.                                                  *)

OneExecution(c, f) ==
  /\ exec' = [exec EXCEPT ![c] = f]
  /\ f \in Execution
  /\ Holds(c, f)

LEMMA OneChanges ==
  ASSUME PipelineInv, NEW c \in Calls, NEW f, OneExecution(c, f)
  PROVE  ExecInv' /\ (exec \in [Calls -> Execution])'
  BY DEF PipelineInv, PipelineTypeOK, ExecInv, OneExecution, Holds, WriteHolds, ReadHolds

LEMMA QuietUpdater ==
  ASSUME PipelineInv, UNCHANGED <<updater, now>>
  PROVE  UpdaterInv'
  BY DEF PipelineInv, UpdaterInv

LEMMA QuietRest ==
  ASSUME PipelineInv, NEW c \in Calls, NEW f, OneExecution(c, f),
         UNCHANGED <<aborted, updater, allowed, now>>
  PROVE  PipelineInv'
  BY OneChanges, QuietUpdater DEF PipelineInv, PipelineTypeOK

LEMMA ExecuteInv ==
  ASSUME PipelineInv, NEW c \in Calls, Execute(c)
  PROVE  PipelineInv'
<1>1. MayPost(c, Fresh)
  BY DEF MayPost, Fresh, One
<1>2. PICK dead \in BOOLEAN :
        exec' = [exec EXCEPT ![c] = IF dead THEN Cancelled(c, Fresh) ELSE Posted(Fresh)]
  BY DEF Execute
<1>3. OneExecution(c, IF dead THEN Cancelled(c, Fresh) ELSE Posted(Fresh))
  BY <1>1, <1>2, FreshHolds, CancelledHolds, PostedHolds DEF OneExecution
<1> QED
  BY <1>3, QuietRest DEF Execute

LEMMA AbortInv ==
  ASSUME PipelineInv, NEW c \in Calls, Abort(c)
  PROVE  PipelineInv'
<1>1. CASE exec[c].at = "healing"
  BY <1>1, QuietUpdater
     DEF Abort, PipelineInv, PipelineTypeOK, ExecInv, Holds, WriteHolds, ReadHolds
<1>2. CASE exec[c].at # "healing"
  <2>1. OneExecution(c, Cancelled(c, exec[c]))
    BY <1>2, CancelledHolds DEF Abort, OneExecution, PipelineInv, ExecInv, PipelineTypeOK
  <2> QED
    BY <1>2, <2>1, QuietRest DEF Abort
<1> QED
  BY <1>1, <1>2

LEMMA ServeInv ==
  ASSUME PipelineInv, NEW c \in Calls, Serve(c)
  PROVE  PipelineInv'
<1> DEFINE f == [exec[c] EXCEPT !.wire = "served"]
<1>1. exec[c] \in Execution /\ Holds(c, exec[c])
  BY DEF PipelineInv, ExecInv
<1>2. f \in Execution
  BY <1>1, FieldsSet DEF Wires
<1>3. Holds(c, f)
  BY <1>1 DEF Serve, Execution, Holds, WriteHolds, ReadHolds
<1>4. exec' = [exec EXCEPT ![c] = f]
  BY DEF Serve
<1> HIDE DEF f
<1>5. OneExecution(c, f)
  BY <1>2, <1>3, <1>4 DEF OneExecution
<1> QED
  BY <1>5, QuietRest DEF Serve

LEMMA AnswerOkInv ==
  ASSUME PipelineInv, NEW c \in Calls, AnswerOk(c)
  PROVE  PipelineInv'
<1>1. OneExecution(c, Ended(c, exec[c], "ok"))
  BY EndedHolds
     DEF AnswerOk, OneExecution, PipelineInv, ExecInv, PipelineTypeOK, Verdicts
<1> QED
  BY <1>1, QuietRest DEF AnswerOk

LEMMA AnswerRefusedInv ==
  ASSUME PipelineInv, NEW c \in Calls, AnswerRefused(c)
  PROVE  PipelineInv'
<1> DEFINE e == [exec[c] EXCEPT !.wire = "none"]
<1>1. e \in Execution /\ Holds(c, e)
  BY UnsentHolds DEF PipelineInv, ExecInv
<1>2. PICK v \in {"business", "failed"} : exec' = [exec EXCEPT ![c] = Ended(c, e, v)]
  BY DEF AnswerRefused
<1> HIDE DEF e
<1>3. OneExecution(c, Ended(c, e, v))
  BY <1>1, <1>2, EndedHolds DEF OneExecution, Verdicts
<1> QED
  BY <1>3, QuietRest DEF AnswerRefused

LEMMA AnswerTransientInv ==
  ASSUME PipelineInv, NEW c \in Calls, AnswerTransient(c)
  PROVE  PipelineInv'
<1>1. OneExecution(c, FailedTransiently(c, exec[c]))
  BY TransientHolds
     DEF AnswerTransient, OneExecution, PipelineInv, ExecInv, PipelineTypeOK
<1> QED
  BY <1>1, QuietRest DEF AnswerTransient

LEMMA WaitersMayPost ==
  ASSUME NEW c \in Calls, NEW e \in Execution, Holds(c, e)
  PROVE  /\ e.at = "sleeping" => MayPost(c, e)
         /\ e.at = "healing" => MayPost(c, e)
         /\ e.at = "idle" /\ Effect[c] = "read" => MayPost(c, e)
  BY Effects DEF Holds, WriteHolds, ReadHolds, MayPost

LEMMA WakeInv ==
  ASSUME PipelineInv, NEW c \in Calls, Wake(c)
  PROVE  PipelineInv'
<1>1. exec[c] \in Execution /\ Holds(c, exec[c])
  BY DEF PipelineInv, ExecInv
<1>2. exec[c].at = "sleeping"
  BY DEF Wake
<1>3. MayPost(c, exec[c])
  BY <1>1, <1>2, WaitersMayPost
<1>4. OneExecution(c, Iterate(c, exec[c]))
  BY <1>1, <1>3, IterateHolds DEF Wake, OneExecution
<1> QED
  BY <1>4, QuietRest DEF Wake

LEMMA AnswerEmptyForbiddenInv ==
  ASSUME PipelineInv, NEW c \in Calls, AnswerEmptyForbidden(c)
  PROVE  PipelineInv'
<1> DEFINE e == [exec[c] EXCEPT !.wire = "none"]
           f == [e EXCEPT !.reset = TRUE]
<1>0. /\ e \in Execution /\ Holds(c, e)
      /\ e.reset = exec[c].reset /\ e.at = exec[c].at
  BY UnsentHolds DEF PipelineInv, ExecInv, Execution
<1>1. CASE Effect[c] = "read" /\ ~exec[c].reset
  <2>1. f \in Execution /\ ReadHolds(f) /\ MayPost(c, f)
    <3> HIDE DEF e
    <3>1. /\ f.tries = e.tries /\ f.ordinary = e.ordinary /\ f.healed = e.healed
          /\ f.reset = TRUE /\ f.at = e.at
      BY <1>0 DEF Execution
    <3>2. f \in Execution
      BY <1>0, FieldsSet
    <3>3. e.tries \in Nat /\ e.ordinary \in Nat /\ One(e.healed) \in Nat
      BY <1>0, FieldsTyped DEF One
    <3>4. One(f.reset) = 1 /\ One(e.reset) = 0
      BY <1>0, <1>1, <3>1 DEF One
    <3>5. e.at = "posting"
      BY <1>0 DEF AnswerEmptyForbidden, Posting
    <3> HIDE DEF f
    <3> QED
      BY <1>0, <1>1, <3>1, <3>2, <3>3, <3>4, <3>5 DEF Holds, ReadHolds, MayPost
  <2>2. exec' = [d \in Calls |->
                   IF d = c THEN Iterate(c, f)
                   ELSE IF Posting(d) THEN FailedTransiently(d, exec[d]) ELSE exec[d]]
    BY <1>1 DEF AnswerEmptyForbidden
  <2> HIDE DEF e, f
  <2>3. Iterate(c, f) \in Execution /\ Holds(c, Iterate(c, f))
    BY <1>1, <2>1, IterateHolds DEF Holds
  <2>4. \A d \in Calls : exec'[d] \in Execution /\ Holds(d, exec'[d])
    BY <2>2, <2>3, TransientHolds DEF PipelineInv, ExecInv
  <2>5. exec' \in [Calls -> Execution]
    BY <2>2, <2>4
  <2> QED
    BY <2>4, <2>5, QuietUpdater
       DEF AnswerEmptyForbidden, PipelineInv, PipelineTypeOK, ExecInv, Holds, WriteHolds,
           ReadHolds
<1>2. CASE ~(Effect[c] = "read" /\ ~exec[c].reset)
  <2>1. exec' = [exec EXCEPT ![c] = Ended(c, e, "failed")]
    BY <1>2 DEF AnswerEmptyForbidden
  <2> HIDE DEF e
  <2>2. OneExecution(c, Ended(c, e, "failed"))
    BY <1>0, <2>1, EndedHolds DEF OneExecution, Verdicts
  <2> QED
    BY <2>2, QuietRest DEF AnswerEmptyForbidden
<1> QED
  BY <1>1, <1>2

LEMMA AnswerInvalidIpInv ==
  ASSUME PipelineInv, NEW c \in Calls, AnswerInvalidIp(c)
  PROVE  PipelineInv'
<1> DEFINE e == [exec[c] EXCEPT !.wire = "none"]
           f == [e EXCEPT !.at = "healing", !.healed = TRUE]
           repairs == Effect[c] = "read" /\ AutoHeal /\ ~exec[c].healed
<1>1. /\ e \in Execution /\ Holds(c, e)
      /\ e.healed = exec[c].healed /\ e.at = "posting"
  BY UnsentHolds DEF AnswerInvalidIp, Posting, PipelineInv, ExecInv, Execution
<1>2. ASSUME repairs
      PROVE  f \in Execution /\ Holds(c, f)
  <2> HIDE DEF e
  <2>1. /\ f.tries = e.tries /\ f.ordinary = e.ordinary /\ f.reset = e.reset
        /\ f.healed = TRUE /\ f.at = "healing"
    BY <1>1 DEF Execution
  <2>2. f \in Execution
    BY <1>1, FieldsSet DEF Places
  <2>3. e.tries \in Nat /\ e.ordinary \in Nat /\ One(e.reset) \in Nat
    BY <1>1, FieldsTyped DEF One
  <2>4. One(f.healed) = 1 /\ One(e.healed) = 0
    BY <1>1, <1>2, <2>1 DEF One
  <2> HIDE DEF f
  <2> QED
    BY <1>1, <1>2, <2>1, <2>2, <2>3, <2>4 DEF Holds, ReadHolds
<1>3. CASE repairs /\ exec' = [exec EXCEPT ![c] = f]
  <2>1. OneExecution(c, f)
    BY <1>2, <1>3 DEF OneExecution
  <2>2. CASE UNCHANGED updater
    BY <2>1, <2>2, QuietRest DEF AnswerInvalidIp
  <2>3. CASE /\ ~updater.running /\ ~Cooling
             /\ updater' = [updater EXCEPT !.running = TRUE, !.runs = @ + 1]
    <3>1. /\ updater'.running = TRUE /\ updater'.runs = updater.runs + 1
          /\ updater'.ended = updater.ended
      BY <2>3 DEF PipelineInv, PipelineTypeOK
    <3>2. updater' \in [running : BOOLEAN, ended : Nat, runs : Nat]
      <4> DEFINE u == [updater EXCEPT !.running = TRUE]
      <4>1. u \in [running : BOOLEAN, ended : Nat, runs : Nat] /\ u.runs + 1 \in Nat
        <5>1. updater \in [running : BOOLEAN, ended : Nat, runs : Nat]
          BY DEF PipelineInv, PipelineTypeOK
        <5>2. u \in [running : BOOLEAN, ended : Nat, runs : Nat]
          BY <5>1
        <5>3. u.runs = updater.runs /\ updater.runs + 1 \in Nat
          BY <5>1
        <5> QED
          BY <5>2, <5>3
      <4>2. updater' = [u EXCEPT !.runs = @ + 1]
        BY <2>3
      <4> HIDE DEF u
      <4> QED
        BY <4>1, <4>2
    <3>3. /\ updater.ended \in Nat /\ updater.runs \in Nat /\ now \in Nat
          /\ Cooldown \in Nat
      BY PipelineAssumption DEF PipelineAssumption, PipelineInv, PipelineTypeOK
    <3>4. updater.ended > 0 /\ updater.runs > 0 => updater.runs * Cooldown <= now - 1
      <4> SUFFICES ASSUME updater.ended > 0, updater.runs > 0
                   PROVE  updater.runs * Cooldown <= now - 1
        OBVIOUS
      <4>1. (updater.runs - 1) * Cooldown <= updater.ended - 1
        BY <2>3 DEF PipelineInv, UpdaterInv
      <4>2. updater.ended + Cooldown <= now
        BY <2>3, <3>3 DEF Cooling
      <4>3. updater.runs * Cooldown = (updater.runs - 1) * Cooldown + Cooldown
        BY <3>3
      <4> QED
        BY <3>3, <4>1, <4>2, <4>3
    <3>5. UpdaterInv'
      BY <2>3, <3>1, <3>3, <3>4 DEF AnswerInvalidIp, PipelineInv, UpdaterInv, One
    <3> QED
      BY <2>1, <3>2, <3>5, OneChanges DEF AnswerInvalidIp, PipelineInv, PipelineTypeOK
  <2> QED
    BY <1>3, <2>2, <2>3 DEF AnswerInvalidIp
<1>4. CASE exec' = [exec EXCEPT ![c] = Ended(c, e, "failed")] /\ UNCHANGED updater
  <2> HIDE DEF e
  <2>1. OneExecution(c, Ended(c, e, "failed"))
    BY <1>1, <1>4, EndedHolds DEF OneExecution, Verdicts
  <2> QED
    BY <1>4, <2>1, QuietRest DEF AnswerInvalidIp
<1> QED
  BY <1>3, <1>4 DEF AnswerInvalidIp

LEMMA UpdaterEndsInv ==
  ASSUME PipelineInv, UpdaterEnds
  PROVE  PipelineInv'
<1>1. PICK ok \in BOOLEAN : exec' = Resumed(ok) /\ allowed' = (allowed \/ ok)
  BY DEF UpdaterEnds
<1>2. ASSUME NEW c \in Calls
      PROVE  exec'[c] \in Execution /\ Holds(c, exec'[c])
  <2>1. exec[c] \in Execution /\ Holds(c, exec[c])
    BY DEF PipelineInv, ExecInv
  <2>2. CASE exec[c].at # "healing"
    BY <1>1, <2>1, <2>2 DEF Resumed
  <2>3. CASE exec[c].at = "healing" /\ ok
    <3>1. MayPost(c, exec[c])
      BY <2>1, <2>3, WaitersMayPost
    <3> QED
      BY <1>1, <2>1, <2>3, <3>1, IterateHolds DEF Resumed
  <2>4. CASE exec[c].at = "healing" /\ ~ok
    BY <1>1, <2>1, <2>4, EndedHolds DEF Resumed, Verdicts
  <2> QED
    BY <2>2, <2>3, <2>4
<1>3. exec' \in [Calls -> Execution]
  BY <1>1, <1>2 DEF Resumed
<1>4. ExecInv'
  BY <1>2 DEF ExecInv, Holds, WriteHolds, ReadHolds
<1>5. /\ updater'.running = FALSE /\ updater'.ended = now /\ updater'.runs = updater.runs
      /\ updater.running
  BY DEF UpdaterEnds, PipelineInv, PipelineTypeOK
<1>6. updater' \in [running : BOOLEAN, ended : Nat, runs : Nat]
  <2> DEFINE u == [updater EXCEPT !.running = FALSE]
  <2>1. u \in [running : BOOLEAN, ended : Nat, runs : Nat] /\ now \in Nat
    BY DEF PipelineInv, PipelineTypeOK
  <2>2. updater' = [u EXCEPT !.ended = now]
    BY DEF UpdaterEnds
  <2> HIDE DEF u
  <2> QED
    BY <2>1, <2>2
<1>7. UpdaterInv'
  <2>1. now \in Nat /\ updater.runs \in Nat /\ updater.ended \in Nat /\ Cooldown \in Nat
    BY PipelineAssumption DEF PipelineAssumption, PipelineInv, PipelineTypeOK
  <2>2. CASE updater.ended = 0
    <3>1. updater.runs = 1
      BY <1>5, <2>2 DEF PipelineInv, UpdaterInv, One
    <3>2. (1 - 1) * Cooldown = 0
      BY <2>1
    <3>3. now > 0 /\ now' = now
      BY DEF UpdaterEnds, PipelineInv, UpdaterInv
    <3> QED
      BY <1>5, <2>1, <3>1, <3>2, <3>3 DEF UpdaterInv
  <2>3. CASE updater.ended > 0
    <3>1. updater.runs > 0 => (updater.runs - 1) * Cooldown <= now - 1
      BY <1>5, <2>3 DEF PipelineInv, UpdaterInv
    <3>2. now > 0 /\ now' = now
      BY DEF UpdaterEnds, PipelineInv, UpdaterInv
    <3> QED
      BY <1>5, <2>1, <3>1, <3>2 DEF UpdaterInv
  <2> QED
    BY <2>1, <2>2, <2>3
<1> QED
  BY <1>1, <1>3, <1>4, <1>6, <1>7 DEF UpdaterEnds, PipelineInv, PipelineTypeOK

LEMMA EnvironmentInv ==
  ASSUME PipelineInv, AddressChanges \/ Tick
  PROVE  PipelineInv'
<1>1. CASE AddressChanges
  BY <1>1 DEF AddressChanges, PipelineInv, PipelineTypeOK, ExecInv, UpdaterInv, Holds,
              WriteHolds, ReadHolds
<1>2. CASE Tick
  <2>1. now \in Nat /\ updater.ended \in Nat /\ updater.runs \in Nat
    BY DEF PipelineInv, PipelineTypeOK
  <2>2. ExecInv' /\ PipelineTypeOK'
    BY <1>2, <2>1 DEF Tick, PipelineInv, PipelineTypeOK, ExecInv, Holds, WriteHolds, ReadHolds
  <2>3. (updater.runs - 1) * Cooldown \in Int
    BY <2>1, PipelineAssumption DEF PipelineAssumption
  <2>4. UpdaterInv'
    BY <1>2, <2>1, <2>3 DEF Tick, PipelineInv, UpdaterInv
  <2> QED
    BY <2>2, <2>4 DEF PipelineInv
<1> QED
  BY <1>1, <1>2

LEMMA AnswerInv ==
  ASSUME PipelineInv, NEW c \in Calls, Answer(c)
  PROVE  PipelineInv'
  BY AnswerOkInv, AnswerRefusedInv, AnswerTransientInv, AnswerEmptyForbiddenInv,
     AnswerInvalidIpInv DEF Answer

LEMMA PipelineStart == PipelineInit => PipelineInv
  BY FreshHolds
     DEF PipelineInit, PipelineInv, PipelineTypeOK, ExecInv, UpdaterInv, Holds, WriteHolds,
         ReadHolds, One

LEMMA PipelineStep == PipelineInv /\ [PipelineNext]_pipelineVars => PipelineInv'
<1> SUFFICES ASSUME PipelineInv, [PipelineNext]_pipelineVars
             PROVE  PipelineInv'
  OBVIOUS
<1>1. ASSUME NEW c \in Calls, Execute(c) \/ Abort(c) \/ Serve(c) \/ Answer(c) \/ Wake(c)
      PROVE  PipelineInv'
  BY <1>1, ExecuteInv, AbortInv, ServeInv, AnswerInv, WakeInv
<1>2. CASE UNCHANGED pipelineVars
  BY <1>2 DEF pipelineVars, PipelineInv, PipelineTypeOK, ExecInv, UpdaterInv, Holds,
              WriteHolds, ReadHolds
<1> QED
  BY <1>1, <1>2, UpdaterEndsInv, EnvironmentInv DEF PipelineNext

(* The inductive invariant of the pipeline: what each execution has used   *)
(* of its budgets, and how far apart runs of the updater are.              *)
THEOREM PipelineCorrect == PipelineSpec => []PipelineInv
  BY PipelineStart, PipelineStep, PTL DEF PipelineSpec

LEMMA Quotient ==
  ASSUME NEW a \in Nat, NEW b \in Nat, NEW n \in Nat \ {0}, a * n <= b
  PROVE  a <= b \div n
  OBVIOUS

LEMMA InvBounds == PipelineInv => AttemptsBounded
<1> SUFFICES ASSUME PipelineInv
             PROVE  AttemptsBounded
  OBVIOUS
<1>1. ASSUME NEW c \in Calls
      PROVE  exec[c].tries <= IF Effect[c] = "write" THEN 1 ELSE AttemptBudget + 2
  <2>1. exec[c] \in Execution /\ Holds(c, exec[c])
    BY DEF PipelineInv, ExecInv
  <2>2. One(exec[c].healed) \in 0..1 /\ One(exec[c].reset) \in 0..1
    BY DEF One
  <2>3. exec[c].tries \in Nat /\ exec[c].ordinary \in Nat /\ AttemptBudget \in Nat
    BY <2>1, FieldsTyped, PipelineAssumption DEF PipelineAssumption
  <2> QED
    BY <2>1, <2>2, <2>3 DEF Holds, WriteHolds, ReadHolds
<1>2. updater.runs <= 1 + (now - 1) \div Cooldown
  <2>1. /\ now \in Nat /\ updater.runs \in Nat /\ updater.ended \in Nat
        /\ Cooldown \in Nat \ {0} /\ now > 0 /\ updater.ended <= now
    BY PipelineAssumption DEF PipelineAssumption, PipelineInv, PipelineTypeOK, UpdaterInv
  <2>2. CASE updater.runs <= 1
    BY <2>1, <2>2, Quotient
  <2>3. CASE updater.runs > 1
    <3>1. updater.ended > 0
      BY <2>1, <2>3 DEF PipelineInv, UpdaterInv, One
    <3>2. (updater.runs - 1) * Cooldown <= now - 1
      BY <2>1, <2>3, <3>1 DEF PipelineInv, UpdaterInv
    <3> QED
      BY <2>1, <2>3, <3>2, Quotient
  <2> QED
    BY <2>1, <2>2, <2>3
<1> QED
  BY <1>1, <1>2 DEF AttemptsBounded

(* A mutation is posted at most once, a read within its budgets, and the   *)
(* updater runs once per cooldown (request/pipeline.ts, ipAllowlistHeal.ts). *)
THEOREM PostsBounded == PipelineSpec => []AttemptsBounded
  BY PipelineCorrect, InvBounds, PTL

LEMMA InvClean == PipelineInv => CleanCancelUntouched
  BY DEF PipelineInv, ExecInv, Holds, WriteHolds, CleanCancelUntouched

(* A mutation cancelled without the warning of an unknown outcome never    *)
(* reached the transport.                                                  *)
THEOREM CleanCancels == PipelineSpec => []CleanCancelUntouched
  BY PipelineCorrect, InvClean, PTL

-----------------------------------------------------------------------------
(* The client: its data, its joined reads, and the reads under way.        *)

DataInv ==
  /\ \A x \in Entities : acked[x] <= db[x]
  /\ \A c \in Calls : seen[c] <= db[Entity(c)]

(* Who joins an operation asked for the same; who may not join runs his    *)
(* own; the operation of a key is run by the read that scheduled it.       *)
JoinInv ==
  /\ \A c \in Reads : waits[c] # NoOne => Input[waits[c]].key = Input[c].key
  /\ \A c \in Reads : ~Input[c].shared => waits[c] \in {c, NoOne}
  /\ \A k \in Keys : flight[k] # NoOne =>
       Input[flight[k]].key = k /\ waits[flight[k]] = flight[k]

(* A read that runs its own operation: while the epoch is the one it began *)
(* in, nothing newer was acknowledged; and what it was served is no older  *)
(* than what had been acknowledged when it began.                          *)
BeganInv ==
  \A c \in Reads : waits[c] = c =>
    /\ began[c].epoch <= epoch
    /\ began[c].owed <= acked[Entity(c)]
    /\ began[c].epoch = epoch => began[c].owed = acked[Entity(c)]
    /\ exec[c].wire = "served" => seen[c] >= began[c].owed

EntriesTyped ==
  /\ DOMAIN entries \subseteq Keys
  /\ \A key \in DOMAIN entries :
       entries[key] \in [version : Nat, older : SUBSET DOMAIN entries]

ClientTypes ==
  /\ db \in [Entities -> Nat]
  /\ seen \in [Calls -> Nat]
  /\ waits \in [Calls -> Reads \cup {NoOne}]
  /\ flight \in [Keys -> Reads \cup {NoOne}]
  /\ epoch \in Nat
  /\ began \in [Calls -> [epoch : Nat, owed : Nat]]
  /\ acked \in [Entities -> Nat]
  /\ returned \in [Calls -> [got : Nat, owed : Nat]]
  /\ EntriesTyped

ClientInv ==
  /\ PipelineInv /\ ClientTypes
  /\ DataInv /\ JoinInv /\ BeganInv
  /\ CacheFresh /\ ReadsFresh

LEMMA CallsTyped ==
  ASSUME NEW c \in Calls
  PROVE  /\ Input[c].key \in Keys /\ Entity(c) \in Entities
         /\ Input[c].shared \in BOOLEAN /\ Input[c].cached \in BOOLEAN
         /\ c # NoOne
  BY ClientAssumption DEF ClientAssumption, Entity

(* What leaves the cache leaves the rest as it was.                        *)
LEMMA WithoutTyped ==
  ASSUME EntriesTyped, NEW keys
  PROVE  LET rest == Without(keys) IN
         /\ DOMAIN rest = DOMAIN entries \ keys
         /\ DOMAIN rest \subseteq Keys
         /\ \A key \in DOMAIN rest :
              /\ rest[key].version = entries[key].version
              /\ rest[key] \in [version : Nat, older : SUBSET DOMAIN rest]
<1> DEFINE rest == Without(keys)
<1>1. DOMAIN rest = DOMAIN entries \ keys
  BY DEF Without
<1>2. ASSUME NEW key \in DOMAIN rest
      PROVE  /\ rest[key].version = entries[key].version
             /\ rest[key] \in [version : Nat, older : SUBSET DOMAIN rest]
  <2>1. entries[key] \in [version : Nat, older : SUBSET DOMAIN entries]
    BY <1>1, <1>2 DEF EntriesTyped
  <2>2. rest[key] = [entries[key] EXCEPT !.older = @ \ keys]
    BY <1>2 DEF Without
  <2>3. entries[key].older \ keys \in SUBSET DOMAIN rest
    BY <1>1, <2>1
  <2> HIDE DEF rest
  <2> QED
    BY <2>1, <2>2, <2>3
<1> QED
  BY <1>1, <1>2 DEF EntriesTyped

(* An answer stored replaces its key's entry; what makes room is gone.     *)
LEMMA StoredTyped ==
  ASSUME EntriesTyped, NEW key \in Keys, NEW version \in Nat
  PROVE  LET all == Stored(key, version) IN
         /\ DOMAIN all \subseteq Keys
         /\ \A k \in DOMAIN all :
              /\ all[k] \in [version : Nat, older : SUBSET DOMAIN all]
              /\ k = key => all[k].version = version
              /\ k # key => k \in DOMAIN entries /\ all[k].version = entries[k].version
<1> DEFINE rest == Without({key})
           all == [k \in DOMAIN rest \cup {key} |->
                     IF k = key THEN [version |-> version, older |-> DOMAIN rest]
                     ELSE rest[k]]
           oldest == {k \in DOMAIN all : all[k].older = {}}
           fits == [k \in DOMAIN all \ oldest |-> [all[k] EXCEPT !.older = @ \ oldest]]
<1>1. /\ DOMAIN rest = DOMAIN entries \ {key}
      /\ \A k \in DOMAIN rest :
           /\ rest[k].version = entries[k].version
           /\ rest[k] \in [version : Nat, older : SUBSET DOMAIN rest]
  BY WithoutTyped
<1> HIDE DEF rest
<1>2. DOMAIN all = DOMAIN rest \cup {key} /\ DOMAIN all \subseteq Keys
  BY <1>1 DEF EntriesTyped
<1>3. ASSUME NEW k \in DOMAIN all
      PROVE  /\ all[k] \in [version : Nat, older : SUBSET DOMAIN all]
             /\ k = key => all[k].version = version
             /\ k # key => k \in DOMAIN entries /\ all[k].version = entries[k].version
  BY <1>1, <1>2, <1>3
<1> HIDE DEF all
<1>4. DOMAIN fits = DOMAIN all \ oldest
  OBVIOUS
<1>5. ASSUME NEW k \in DOMAIN fits
      PROVE  /\ fits[k] \in [version : Nat, older : SUBSET DOMAIN fits]
             /\ fits[k].version = all[k].version
             /\ k \in DOMAIN all
  <2>1. k \in DOMAIN all /\ all[k] \in [version : Nat, older : SUBSET DOMAIN all]
    BY <1>3, <1>4, <1>5
  <2>2. fits[k] = [all[k] EXCEPT !.older = @ \ oldest]
    BY <1>5
  <2>3. all[k].older \ oldest \in SUBSET DOMAIN fits
    BY <1>4, <2>1
  <2> HIDE DEF fits, oldest
  <2> QED
    BY <2>1, <2>2, <2>3
<1>6. Stored(key, version) = all \/ Stored(key, version) = fits
  BY DEF Stored, all, rest, fits, oldest
<1> HIDE DEF fits, oldest
<1> QED
  BY <1>2, <1>3, <1>4, <1>5, <1>6

(* Only WHMCS serves a request.                                            *)
LEMMA NotServed ==
  ASSUME NEW c \in Calls, NEW e \in Execution
  PROVE  /\ \A v \in Verdicts : Ended(c, e, v).wire = "served" => e.wire = "served"
         /\ Cancelled(c, e).wire = "served" => e.wire = "served"
         /\ FailedTransiently(c, e).wire = "served" => e.wire = "served"
         /\ Iterate(c, e).wire = "served" => e.wire = "served"
<1>1. ASSUME NEW v \in Verdicts
      PROVE  /\ Ended(c, e, v).wire = "served" => e.wire = "served"
             /\ Ended(c, e, v).wire = Cancelled(c, e).wire
  BY DEF Ended, Fresh, Execution, Cancelled
<1>2. FailedTransiently(c, e).wire = "served" => e.wire = "served"
  BY <1>1 DEF FailedTransiently, Execution, Verdicts
<1>3. Posted(e).wire = "sent"
  BY DEF Posted, Execution
<1> QED
  BY <1>1, <1>2, <1>3 DEF Iterate, Verdicts

NoneServed == \A c \in Calls : exec'[c].wire = "served" => exec[c].wire = "served"

LEMMA ExecTyped ==
  ASSUME PipelineInv
  PROVE  /\ exec \in [Calls -> Execution]
         /\ \A c \in Calls : exec[c] \in Execution /\ Holds(c, exec[c])
  BY DEF PipelineInv, PipelineTypeOK, ExecInv

LEMMA GiveUpWires ==
  ASSUME PipelineInv, NEW c \in Calls, Abort(c)
  PROVE  NoneServed
  BY ExecTyped, NotServed DEF Abort, NoneServed

LEMMA AnswerWires ==
  ASSUME PipelineInv, NEW c \in Calls, Answer(c)
  PROVE  NoneServed
<1> DEFINE e == [exec[c] EXCEPT !.wire = "none"]
           f == [e EXCEPT !.reset = TRUE]
           g == [e EXCEPT !.at = "healing", !.healed = TRUE]
<1>1. exec[c] \in Execution /\ e \in Execution /\ f \in Execution
  BY ExecTyped, FieldsSet DEF Wires
<1>2. e.wire = "none" /\ f.wire = "none" /\ g.wire = "none"
  BY <1>1 DEF Execution
<1>3. CASE AnswerOk(c)
  BY <1>3, ExecTyped, NotServed DEF AnswerOk, NoneServed, Verdicts
<1>4. CASE AnswerRefused(c)
  <2>1. PICK v \in {"business", "failed"} : exec' = [exec EXCEPT ![c] = Ended(c, e, v)]
    BY <1>4 DEF AnswerRefused
  <2> HIDE DEF e
  <2> QED
    BY <1>1, <1>2, <2>1, ExecTyped, NotServed DEF NoneServed, Verdicts
<1>5. CASE AnswerTransient(c)
  BY <1>5, ExecTyped, NotServed DEF AnswerTransient, NoneServed
<1>6. CASE AnswerEmptyForbidden(c)
  <2>1. \/ exec' = [exec EXCEPT ![c] = Ended(c, e, "failed")]
        \/ exec' = [d \in Calls |->
                      IF d = c THEN Iterate(c, f)
                      ELSE IF Posting(d) THEN FailedTransiently(d, exec[d]) ELSE exec[d]]
    BY <1>6 DEF AnswerEmptyForbidden
  <2> HIDE DEF e, f
  <2> QED
    BY <1>1, <1>2, <2>1, ExecTyped, NotServed DEF NoneServed, Verdicts
<1>7. CASE AnswerInvalidIp(c)
  <2>1. \/ exec' = [exec EXCEPT ![c] = Ended(c, e, "failed")]
        \/ exec' = [exec EXCEPT ![c] = g]
    BY <1>7 DEF AnswerInvalidIp
  <2> HIDE DEF e, g
  <2> QED
    BY <1>1, <1>2, <2>1, ExecTyped, NotServed DEF NoneServed, Verdicts
<1> QED
  BY <1>3, <1>4, <1>5, <1>6, <1>7 DEF Answer

LEMMA WakeWires ==
  ASSUME PipelineInv, NEW c \in Calls, Wake(c)
  PROVE  NoneServed
  BY ExecTyped, NotServed DEF Wake, NoneServed

LEMMA UpdaterWires ==
  ASSUME PipelineInv, UpdaterEnds
  PROVE  NoneServed
<1>1. PICK ok \in BOOLEAN : exec' = Resumed(ok)
  BY DEF UpdaterEnds
<1> QED
  BY <1>1, ExecTyped, NotServed DEF Resumed, NoneServed, Verdicts

(* Whoever awaits an operation that ends without an answer is told; the    *)
(* rest is as it was.                                                      *)
LEMMA DeliveredInv ==
  ASSUME ClientInv, PipelineInv', NoneServed, Delivered
  PROVE  ClientInv'
<1> DEFINE failed == {op \in Reads : \/ exec'[op].at = "ended"
                                     \/ exec'[op].at = "healing" /\ aborted'[op]}
<1>1. /\ waits' = [c \in Calls |-> IF waits[c] \in failed THEN NoOne ELSE waits[c]]
      /\ flight' = [k \in Keys |-> IF flight[k] \in failed THEN NoOne ELSE flight[k]]
      /\ seen' = [c \in Calls |-> IF exec'[c].wire = "served" THEN seen[c] ELSE 0]
      /\ began' = [c \in Calls |-> IF waits'[c] = NoOne THEN NotBegun ELSE began[c]]
      /\ UNCHANGED <<db, entries, epoch, acked, returned>>
  BY DEF Delivered
<1> HIDE DEF failed
<1>2. NotBegun \in [epoch : Nat, owed : Nat]
  BY DEF NotBegun
<1>3. ClientTypes'
  <2>1. /\ waits' \in [Calls -> Reads \cup {NoOne}]
        /\ flight' \in [Keys -> Reads \cup {NoOne}]
        /\ seen' \in [Calls -> Nat]
    BY <1>1 DEF ClientInv, ClientTypes
  <2>2. began' \in [Calls -> [epoch : Nat, owed : Nat]]
    BY <1>1, <1>2 DEF ClientInv, ClientTypes
  <2> QED
    BY <1>1, <2>1, <2>2 DEF ClientInv, ClientTypes, EntriesTyped
<1>4. DataInv'
  BY <1>1, CallsTyped DEF ClientInv, ClientTypes, DataInv, Entity
<1>5. JoinInv'
  <2>1. ASSUME NEW c \in Reads
        PROVE  /\ waits'[c] # NoOne => waits'[c] = waits[c]
               /\ waits'[c] # NoOne => Input[waits'[c]].key = Input[c].key
               /\ ~Input[c].shared => waits'[c] \in {c, NoOne}
    BY <1>1 DEF ClientInv, JoinInv, Reads
  <2>2. ASSUME NEW k \in Keys, flight'[k] # NoOne
        PROVE  Input[flight'[k]].key = k /\ waits'[flight'[k]] = flight'[k]
    <3>1. flight'[k] = flight[k] /\ flight[k] \notin failed
      BY <1>1, <2>2
    <3>2. flight[k] \in Calls
      BY <2>2, <3>1 DEF ClientInv, ClientTypes, Reads
    <3> QED
      BY <1>1, <2>2, <3>1, <3>2 DEF ClientInv, JoinInv
  <2> QED
    BY <2>1, <2>2 DEF JoinInv
<1>6. BeganInv'
  <2> SUFFICES ASSUME NEW c \in Reads, waits'[c] = c
               PROVE  /\ began'[c].epoch <= epoch'
                      /\ began'[c].owed <= acked'[Entity(c)]
                      /\ began'[c].epoch = epoch' => began'[c].owed = acked'[Entity(c)]
                      /\ exec'[c].wire = "served" => seen'[c] >= began'[c].owed
    BY DEF BeganInv, Entity
  <2>1. c \in Calls /\ c # NoOne
    BY CallsTyped DEF Reads
  <2>2. waits[c] = c /\ began'[c] = began[c]
    BY <1>1, <2>1
  <2> QED
    BY <1>1, <2>1, <2>2 DEF ClientInv, BeganInv, NoneServed
<1>7. CacheFresh' /\ ReadsFresh'
  BY <1>1 DEF ClientInv, CacheFresh, ReadsFresh, Covered, Entity, Apart
<1> QED
  BY <1>3, <1>4, <1>5, <1>6, <1>7 DEF ClientInv

LEMMA DeliveringInv ==
  ASSUME ClientInv,
         HealEnds \/ \E c \in Calls : GiveUp(c) \/ AnswerOther(c) \/ Resume(c)
  PROVE  ClientInv'
<1>1. PipelineInv
  BY DEF ClientInv
<1>2. CASE HealEnds
  BY <1>1, <1>2, UpdaterEndsInv, UpdaterWires, DeliveredInv DEF HealEnds
<1>3. ASSUME NEW c \in Calls, GiveUp(c) \/ AnswerOther(c) \/ Resume(c)
      PROVE  ClientInv'
  <2>1. Delivered /\ (Abort(c) \/ Answer(c) \/ Wake(c))
    BY <1>3 DEF GiveUp, AnswerOther, Resume, Answer
  <2>2. PipelineInv' /\ NoneServed
    BY <1>1, <2>1, AbortInv, AnswerInv, WakeInv, GiveUpWires, AnswerWires, WakeWires
  <2> QED
    BY <2>1, <2>2, DeliveredInv
<1> QED
  BY <1>2, <1>3

-----------------------------------------------------------------------------
(* Steps that leave the pipeline's own properties to one execution.        *)

LEMMA ReadCachedInv ==
  ASSUME ClientInv, NEW c \in Calls, ReadCached(c)
  PROVE  ClientInv'
<1> DEFINE key == Input[c].key
           back == [got |-> entries[key].version, owed |-> acked[Entity(c)]]
<1>1. /\ key \in DOMAIN entries /\ Entity(c) = EntityOf[key]
      /\ returned' = [returned EXCEPT ![c] = back]
      /\ UNCHANGED pipelineVars
      /\ UNCHANGED <<db, seen, waits, flight, entries, epoch, began, acked>>
  BY DEF ReadCached, Cached, Entity
<1>2. entries[key].version \in Nat /\ acked[Entity(c)] \in Nat
  BY <1>1, CallsTyped DEF ClientInv, ClientTypes, EntriesTyped
<1>3. ReadsFresh'
  <2>1. Covered(key) /\ Apart(key) => back.got >= back.owed
    BY <1>1, <1>2 DEF ClientInv, CacheFresh
  <2> HIDE DEF back
  <2> QED
    BY <1>1, <2>1 DEF ClientInv, ClientTypes, ReadsFresh, Covered, Apart, Entity, Reads
<1>4. ClientTypes'
  BY <1>1, <1>2 DEF ClientInv, ClientTypes, EntriesTyped
<1>5. PipelineInv'
  BY <1>1, PipelineStep DEF ClientInv
<1>6. DataInv' /\ JoinInv' /\ BeganInv' /\ CacheFresh'
  BY <1>1
     DEF ClientInv, DataInv, JoinInv, BeganInv, CacheFresh, Covered, Apart, Entity,
         pipelineVars
<1> QED
  BY <1>3, <1>4, <1>5, <1>6 DEF ClientInv

LEMMA ReadMissedInv ==
  ASSUME ClientInv, NEW c \in Calls, ReadMissed(c)
  PROVE  ClientInv'
<1> DEFINE key == Input[c].key
           joins == Input[c].shared /\ flight[key] # NoOne
           start == [epoch |-> epoch, owed |-> acked[Entity(c)]]
<1>1. /\ c \in Reads /\ waits[c] = NoOne
      /\ waits' = [waits EXCEPT ![c] = IF joins THEN flight[key] ELSE c]
      /\ flight' = IF Input[c].shared /\ ~joins THEN [flight EXCEPT ![key] = c] ELSE flight
      /\ exec' = IF joins THEN exec ELSE [exec EXCEPT ![c] = Fresh]
      /\ began' = [began EXCEPT ![c] = start]
      /\ UNCHANGED <<aborted, updater, allowed, now>>
      /\ UNCHANGED <<db, seen, entries, epoch, acked, returned>>
  BY DEF ReadMissed, Idle
<1>2. /\ key \in Keys /\ c # NoOne /\ acked[Entity(c)] \in Nat /\ epoch \in Nat
      /\ flight[key] \in Reads \cup {NoOne}
  BY CallsTyped DEF ClientInv, ClientTypes
<1>3. PipelineInv'
  <2>1. CASE joins
    BY <1>1, <2>1, PipelineStep DEF ClientInv, pipelineVars
  <2>2. CASE ~joins
    <3>1. OneExecution(c, Fresh)
      BY <1>1, <2>2, FreshHolds DEF OneExecution
    <3> QED
      BY <1>1, <3>1, QuietRest DEF ClientInv
  <2> QED
    BY <2>1, <2>2
<1>4. start \in [epoch : Nat, owed : Nat] /\ start.epoch = epoch /\ start.owed = acked[Entity(c)]
  BY <1>2
<1> HIDE DEF start
<1>5. ClientTypes'
  BY <1>1, <1>2, <1>4 DEF ClientInv, ClientTypes, EntriesTyped
<1>6. JoinInv'
  <2>1. CASE joins
    <3>1. /\ flight[key] \in Reads /\ waits[flight[key]] = flight[key]
          /\ Input[flight[key]].key = key /\ flight[key] # c
      BY <1>1, <1>2, <2>1 DEF ClientInv, JoinInv
    <3>2. \A k \in Keys : flight[k] # c
      BY <1>1, <1>2 DEF ClientInv, JoinInv
    <3> QED
      BY <1>1, <1>2, <2>1, <3>1, <3>2 DEF ClientInv, ClientTypes, JoinInv, Reads
  <2>2. CASE ~joins
    <3>1. \A k \in Keys : flight[k] # c
      BY <1>1, <1>2 DEF ClientInv, JoinInv
    <3> QED
      BY <1>1, <1>2, <2>2, <3>1 DEF ClientInv, ClientTypes, JoinInv, Reads
  <2> QED
    BY <2>1, <2>2
<1>7. BeganInv'
  <2> SUFFICES ASSUME NEW d \in Reads, waits'[d] = d
               PROVE  /\ began'[d].epoch <= epoch'
                      /\ began'[d].owed <= acked'[Entity(d)]
                      /\ began'[d].epoch = epoch' => began'[d].owed = acked'[Entity(d)]
                      /\ exec'[d].wire = "served" => seen'[d] >= began'[d].owed
    BY DEF BeganInv, Entity
  <2>1. CASE d # c
    <3>1. waits[d] = d /\ began'[d] = began[d] /\ exec'[d] = exec[d]
      BY <1>1, <2>1 DEF ClientInv, PipelineInv, PipelineTypeOK, ClientTypes, Reads
    <3> QED
      BY <1>1, <3>1 DEF ClientInv, BeganInv
  <2>2. CASE d = c
    <3>1. ~joins
      BY <1>1, <1>2, <2>2 DEF ClientInv, ClientTypes, JoinInv, Reads
    <3>2. exec'[c].wire = "none"
      BY <1>1, <3>1 DEF ClientInv, PipelineInv, PipelineTypeOK, Fresh
    <3>3. began'[c] = start
      BY <1>1 DEF ClientInv, ClientTypes
    <3> QED
      BY <1>1, <1>2, <1>4, <2>2, <3>2, <3>3
  <2> QED
    BY <2>1, <2>2
<1>8. DataInv' /\ CacheFresh' /\ ReadsFresh'
  BY <1>1 DEF ClientInv, DataInv, CacheFresh, ReadsFresh, Covered, Apart, Entity
<1> QED
  BY <1>3, <1>5, <1>6, <1>7, <1>8 DEF ClientInv

(* A step of the pipeline that WHMCS does not see and that leaves the      *)
(* client alone.                                                           *)
LEMMA QuietClient ==
  ASSUME ClientInv, PipelineInv', NoneServed, UNCHANGED clientVars
  PROVE  ClientInv'
<1>1. UNCHANGED <<db, seen, waits, flight, entries, epoch, began, acked, returned>>
  BY DEF clientVars
<1>2. ClientTypes' /\ DataInv' /\ JoinInv' /\ CacheFresh' /\ ReadsFresh'
  BY <1>1
     DEF ClientInv, ClientTypes, EntriesTyped, DataInv, JoinInv, CacheFresh, ReadsFresh,
         Covered, Apart, Entity
<1>3. BeganInv'
  BY <1>1 DEF ClientInv, BeganInv, NoneServed, Entity, Reads
<1> QED
  BY <1>2, <1>3 DEF ClientInv

LEMMA RunReadInv ==
  ASSUME ClientInv, NEW c \in Calls, RunRead(c)
  PROVE  ClientInv'
<1>1. exec[c] \in Execution /\ Holds(c, exec[c]) /\ Effect[c] = "read" /\ exec[c].at = "idle"
  BY ExecTyped DEF ClientInv, RunRead, Reads
<1>2. MayPost(c, exec[c])
  BY <1>1, WaitersMayPost
<1>3. OneExecution(c, Posted(exec[c]))
  BY <1>1, <1>2, PostedHolds DEF RunRead, OneExecution
<1>4. PipelineInv'
  BY <1>3, QuietRest DEF RunRead, ClientInv
<1>5. Posted(exec[c]).wire = "sent"
  BY <1>1 DEF Posted, Execution
<1>6. NoneServed
  BY <1>3, <1>5, ExecTyped DEF ClientInv, NoneServed, OneExecution
<1> QED
  BY <1>4, <1>6, QuietClient DEF RunRead

LEMMA MutateInv ==
  ASSUME ClientInv, NEW c \in Calls, Mutate(c)
  PROVE  ClientInv'
<1>1. PipelineInv'
  BY ExecuteInv DEF ClientInv, Mutate
<1>2. Posted(Fresh).wire = "sent" /\ Fresh \in Execution /\ Fresh.wire = "none"
  BY FreshHolds DEF Posted, Fresh
<1>3. NoneServed
  BY <1>2, ExecTyped, NotServed DEF ClientInv, NoneServed, Mutate, Execute
<1> QED
  BY <1>1, <1>3, QuietClient DEF Mutate

LEMMA ClientEnvironmentInv ==
  ASSUME ClientInv, Environment
  PROVE  ClientInv'
  BY EnvironmentInv, QuietClient
     DEF Environment, ClientInv, NoneServed, AddressChanges, Tick

LEMMA ExpireInv ==
  ASSUME ClientInv, Expire
  PROVE  ClientInv'
<1>1. PICK key \in Keys : entries' = Without({key})
  BY DEF Expire
<1>2. UNCHANGED pipelineVars /\ UNCHANGED <<db, seen, waits, flight, epoch, began, acked, returned>>
  BY DEF Expire
<1>3. EntriesTyped' /\ CacheFresh'
  <2>1. /\ DOMAIN entries' \subseteq DOMAIN entries /\ DOMAIN entries' \subseteq Keys
        /\ \A k \in DOMAIN entries' :
             /\ entries'[k].version = entries[k].version
             /\ entries'[k] \in [version : Nat, older : SUBSET DOMAIN entries']
    <3>1. EntriesTyped
      BY DEF ClientInv, ClientTypes
    <3> DEFINE gone == {key}
    <3>2. entries' = Without(gone)
      BY <1>1
    <3> HIDE DEF gone
    <3> DEFINE rest == Without(gone)
    <3>3. /\ DOMAIN rest = DOMAIN entries \ gone /\ DOMAIN rest \subseteq Keys
          /\ \A k \in DOMAIN rest :
               /\ rest[k].version = entries[k].version
               /\ rest[k] \in [version : Nat, older : SUBSET DOMAIN rest]
      BY <3>1, WithoutTyped
    <3> HIDE DEF rest
    <3>4. entries' = rest
      BY <3>2 DEF rest
    <3>5. DOMAIN rest \subseteq DOMAIN entries
      BY <3>3
    <3> QED
      BY <3>3, <3>4, <3>5
  <2> QED
    BY <1>2, <2>1 DEF ClientInv, EntriesTyped, CacheFresh, Covered, Apart, Entity
<1>4. PipelineInv'
  BY <1>2, PipelineStep DEF ClientInv
<1>5. ClientTypes' /\ DataInv' /\ JoinInv' /\ BeganInv' /\ ReadsFresh'
  BY <1>2, <1>3
     DEF ClientInv, ClientTypes, DataInv, JoinInv, BeganInv, ReadsFresh, Covered, Apart,
         Entity, pipelineVars
<1> QED
  BY <1>3, <1>4, <1>5 DEF ClientInv

-----------------------------------------------------------------------------
(* The steps that reach the data and the cache.                            *)

LEMMA ServeDataInv ==
  ASSUME ClientInv, NEW c \in Calls, ServeData(c)
  PROVE  ClientInv'
<1> DEFINE x == Entity(c)
           version == IF c \in Writes THEN db[x] + 1 ELSE db[x]
<1>1. /\ exec' = [exec EXCEPT ![c].wire = "served"]
      /\ db' = [db EXCEPT ![x] = version]
      /\ seen' = [seen EXCEPT ![c] = version]
      /\ UNCHANGED <<waits, flight, entries, epoch, began, acked, returned>>
  BY DEF ServeData, Serve
<1>2. x \in Entities /\ db[x] \in Nat /\ version \in Nat /\ db[x] <= version
  BY CallsTyped DEF ClientInv, ClientTypes
<1> HIDE DEF version
<1>3. PipelineInv'
  BY ServeInv DEF ClientInv, ServeData
<1>4. ClientTypes'
  BY <1>1, <1>2 DEF ClientInv, ClientTypes, EntriesTyped
<1>5. DataInv'
  <2>1. \A y \in Entities : db[y] \in Nat /\ db'[y] \in Nat /\ db[y] <= db'[y]
    BY <1>1, <1>2 DEF ClientInv, ClientTypes
  <2>2. \A y \in Entities : acked'[y] <= db'[y]
    BY <1>1, <2>1 DEF ClientInv, ClientTypes, DataInv
  <2>3. ASSUME NEW d \in Calls
        PROVE  seen'[d] <= db'[Entity(d)]
    <3>1. Entity(d) \in Entities /\ seen[d] \in Nat /\ seen[d] <= db[Entity(d)]
      BY CallsTyped DEF ClientInv, ClientTypes, DataInv
    <3>2. CASE d = c
      BY <1>1, <1>2, <3>2 DEF ClientInv, ClientTypes
    <3>3. CASE d # c
      BY <1>1, <2>1, <3>1, <3>3 DEF ClientInv, ClientTypes
    <3> QED
      BY <3>2, <3>3
  <2> QED
    BY <2>2, <2>3 DEF DataInv, Entity
<1>6. BeganInv'
  <2> SUFFICES ASSUME NEW d \in Reads, waits'[d] = d
               PROVE  /\ began'[d].epoch <= epoch'
                      /\ began'[d].owed <= acked'[Entity(d)]
                      /\ began'[d].epoch = epoch' => began'[d].owed = acked'[Entity(d)]
                      /\ exec'[d].wire = "served" => seen'[d] >= began'[d].owed
    BY DEF BeganInv, Entity
  <2>1. /\ began[d].epoch <= epoch /\ began[d].owed <= acked[Entity(d)]
        /\ began[d].epoch = epoch => began[d].owed = acked[Entity(d)]
        /\ exec[d].wire = "served" => seen[d] >= began[d].owed
    BY <1>1 DEF ClientInv, BeganInv
  <2>2. CASE d # c
    <3>1. exec'[d] = exec[d] /\ seen'[d] = seen[d]
      BY <1>1, <2>2 DEF ClientInv, PipelineInv, PipelineTypeOK, ClientTypes, Reads
    <3> QED
      BY <1>1, <2>1, <3>1
  <2>3. CASE d = c
    <3>1. seen'[c] = version
      BY <1>1 DEF ClientInv, ClientTypes
    <3>2. acked[x] \in Nat /\ acked[x] <= db[x] /\ began[c].owed \in Nat
      BY <1>2 DEF ClientInv, ClientTypes, DataInv
    <3> QED
      BY <1>1, <1>2, <2>1, <2>3, <3>1, <3>2
  <2> QED
    BY <2>2, <2>3
<1>7. JoinInv' /\ CacheFresh' /\ ReadsFresh'
  BY <1>1 DEF ClientInv, JoinInv, CacheFresh, ReadsFresh, Covered, Apart, Entity
<1> QED
  BY <1>3, <1>4, <1>5, <1>6, <1>7 DEF ClientInv

(* What its operation brings a read that ran it is fit to be returned, and *)
(* fit to be kept while no mutation has been acknowledged since.           *)
LEMMA EndReadInv ==
  ASSUME ClientInv, NEW op \in Calls, EndRead(op)
  PROVE  ClientInv'
<1> DEFINE key == Input[op].key
           got == seen[op]
<1>1. /\ op \in Reads /\ AnswerOk(op) /\ exec[op].wire = "served"
      /\ entries' = IF Stores(op) # {} THEN Stored(key, got) ELSE entries
      /\ returned' = [c \in Calls |-> IF c \in Awaiting(op)
                                      THEN [got |-> got, owed |-> began[c].owed]
                                      ELSE returned[c]]
      /\ waits' = [c \in Calls |-> IF waits[c] = op THEN NoOne ELSE waits[c]]
      /\ flight' = [k \in Keys |-> IF flight[k] = op THEN NoOne ELSE flight[k]]
      /\ seen' = [seen EXCEPT ![op] = 0]
      /\ began' = [c \in Calls |-> IF waits[c] = op THEN NotBegun ELSE began[c]]
      /\ UNCHANGED <<db, epoch, acked>>
  BY DEF EndRead, AnswerOk, Landed
<1>2. key \in Keys /\ op # NoOne /\ got \in Nat
  BY CallsTyped DEF ClientInv, ClientTypes
<1>3. NotBegun \in [epoch : Nat, owed : Nat]
  BY DEF NotBegun
<1>4. PipelineInv' /\ NoneServed
  BY <1>1, AnswerOkInv, AnswerWires DEF ClientInv, Answer
<1>5. EntriesTyped'
  BY <1>1, <1>2, StoredTyped DEF ClientInv, ClientTypes, EntriesTyped
<1>6. ClientTypes'
  <2>1. /\ waits' \in [Calls -> Reads \cup {NoOne}]
        /\ flight' \in [Keys -> Reads \cup {NoOne}]
        /\ seen' \in [Calls -> Nat]
    BY <1>1 DEF ClientInv, ClientTypes
  <2>2. \A c \in Calls : began[c] \in [epoch : Nat, owed : Nat]
    BY DEF ClientInv, ClientTypes
  <2>3. began' \in [Calls -> [epoch : Nat, owed : Nat]]
    BY <1>1, <1>3, <2>2
  <2>4. returned' \in [Calls -> [got : Nat, owed : Nat]]
    BY <1>1, <1>2, <2>2 DEF ClientInv, ClientTypes
  <2> QED
    BY <1>1, <1>5, <2>1, <2>3, <2>4 DEF ClientInv, ClientTypes
<1>7. DataInv'
  BY <1>1, CallsTyped DEF ClientInv, ClientTypes, DataInv, Entity
<1>8. JoinInv'
  <2>1. ASSUME NEW c \in Reads
        PROVE  /\ waits'[c] # NoOne => Input[waits'[c]].key = Input[c].key
               /\ ~Input[c].shared => waits'[c] \in {c, NoOne}
    BY <1>1 DEF ClientInv, JoinInv, Reads
  <2>2. ASSUME NEW k \in Keys, flight'[k] # NoOne
        PROVE  Input[flight'[k]].key = k /\ waits'[flight'[k]] = flight'[k]
    <3>1. flight'[k] = flight[k] /\ flight[k] # op
      BY <1>1, <2>2
    <3>2. flight[k] \in Calls
      BY <2>2, <3>1 DEF ClientInv, ClientTypes, Reads
    <3> QED
      BY <1>1, <2>2, <3>1, <3>2 DEF ClientInv, JoinInv
  <2> QED
    BY <2>1, <2>2 DEF JoinInv
<1>9. ASSUME NEW d \in Reads, waits'[d] = d
      PROVE  /\ waits[d] = d /\ d # op /\ began'[d] = began[d]
             /\ seen'[d] = seen[d] /\ d \in Calls
  <2>1. d \in Calls /\ d # NoOne
    BY CallsTyped DEF Reads
  <2> QED
    BY <1>1, <1>9, <2>1 DEF ClientInv, ClientTypes
<1>10. BeganInv'
  BY <1>1, <1>4, <1>9 DEF ClientInv, BeganInv, NoneServed, Entity
<1>11. ASSUME NEW c \in Reads, waits[c] = op, ~Input[c].shared
       PROVE  c = op
  BY <1>2, <1>11 DEF ClientInv, JoinInv
<1>12. waits[op] = op => got >= began[op].owed
  BY <1>1 DEF ClientInv, BeganInv
<1>13. CacheFresh'
  <2> SUFFICES ASSUME NEW k \in DOMAIN entries', Covered(k), Apart(k)
               PROVE  entries'[k].version >= acked[EntityOf[k]]
    BY <1>1 DEF CacheFresh, Covered, Apart, Entity
  <2>1. CASE Stores(op) = {} \/ k # key
    BY <1>1, <1>2, <2>1, StoredTyped DEF ClientInv, ClientTypes, CacheFresh
  <2>2. CASE Stores(op) # {} /\ k = key
    <3>1. PICK c \in Stores(op) : TRUE
      BY <2>2
    <3>2. /\ c \in Reads /\ c \in Calls /\ waits[c] = op /\ Input[c].cached
          /\ began[c].epoch = epoch
      BY <3>1 DEF Stores, Awaiting, Reads
    <3>3. Input[c].key = key
      BY <1>2, <3>2 DEF ClientInv, JoinInv
    <3>4. c = op
      BY <1>11, <2>2, <3>2, <3>3 DEF Apart
    <3>5. got >= acked[EntityOf[key]]
      BY <1>12, <3>2, <3>4 DEF ClientInv, BeganInv, Entity
    <3>6. entries'[key].version = got
      BY <1>1, <1>2, <2>2, StoredTyped DEF ClientInv, ClientTypes
    <3> QED
      BY <2>2, <3>5, <3>6
  <2> QED
    BY <2>1, <2>2
<1>14. ReadsFresh'
  <2> SUFFICES ASSUME NEW c \in Reads, Covered(Input[c].key), Apart(Input[c].key),
                      ~Input[c].shared
               PROVE  returned'[c].got >= returned'[c].owed
    BY DEF ReadsFresh, Covered, Apart, Entity
  <2>1. c \in Calls
    BY DEF Reads
  <2>2. CASE waits[c] = op
    BY <1>1, <1>11, <1>12, <2>1, <2>2 DEF Awaiting
  <2>3. CASE waits[c] # op
    BY <1>1, <2>1, <2>3 DEF Awaiting, ClientInv, ReadsFresh
  <2> QED
    BY <2>2, <2>3
<1> QED
  BY <1>4, <1>6, <1>7, <1>8, <1>10, <1>13, <1>14 DEF ClientInv

(* An acknowledged mutation leaves no entry of its entity behind that it   *)
(* can cover, and tells the reads under way by the epoch.                  *)
LEMMA EndMutationInv ==
  ASSUME ClientInv, NEW c \in Calls, EndMutation(c)
  PROVE  ClientInv'
<1> DEFINE x == Entity(c)
           newest == IF seen[c] > acked[x] THEN seen[c] ELSE acked[x]
<1>1. PICK known \in BOOLEAN :
        (known => Input[c].key \in Tagged) /\ entries' = Invalidated(c, known)
  BY DEF EndMutation
<1>2. /\ c \in Writes /\ epoch' = epoch + 1
      /\ acked' = [acked EXCEPT ![x] = newest]
      /\ UNCHANGED <<db, seen, waits, flight, began, returned>>
  BY DEF EndMutation
<1>3. /\ x \in Entities /\ seen[c] \in Nat /\ acked[x] \in Nat
      /\ newest \in Nat /\ acked[x] <= newest /\ newest <= db[x]
  BY CallsTyped DEF ClientInv, ClientTypes, DataInv
<1> HIDE DEF newest
<1>4. PipelineInv' /\ NoneServed
  BY AnswerOkInv, AnswerWires DEF EndMutation, ClientInv, Answer
<1> DEFINE gone == IF known THEN {key \in Tagged : EntityOf[key] = x} ELSE Keys
<1>5. /\ DOMAIN entries' = DOMAIN entries \ gone /\ DOMAIN entries' \subseteq Keys
      /\ \A k \in DOMAIN entries' :
           /\ entries'[k].version = entries[k].version
           /\ entries'[k] \in [version : Nat, older : SUBSET DOMAIN entries']
  <2>1. EntriesTyped
    BY DEF ClientInv, ClientTypes
  <2>2. entries' = Without(gone)
    BY <1>1 DEF Invalidated
  <2> DEFINE rest == Without(gone)
  <2> HIDE DEF gone
  <2>3. /\ DOMAIN rest = DOMAIN entries \ gone /\ DOMAIN rest \subseteq Keys
        /\ \A k \in DOMAIN rest :
             /\ rest[k].version = entries[k].version
             /\ rest[k] \in [version : Nat, older : SUBSET DOMAIN rest]
    BY <2>1, WithoutTyped
  <2>4. entries' = rest
    BY <2>2
  <2> HIDE DEF rest
  <2> QED
    BY <2>3, <2>4
<1>6. CacheFresh'
  <2> SUFFICES ASSUME NEW k \in DOMAIN entries', Covered(k), Apart(k)
               PROVE  entries'[k].version >= acked'[EntityOf[k]]
    BY DEF CacheFresh, Covered, Apart, Entity
  <2>1. k \in DOMAIN entries /\ k \notin gone /\ k \in Keys
    BY <1>5
  <2>2. EntityOf[k] # x
    BY <1>1, <1>2, <2>1 DEF Covered
  <2>3. EntityOf[k] \in Entities
    BY <2>1, ClientAssumption DEF ClientAssumption
  <2> QED
    BY <1>2, <1>5, <2>1, <2>2, <2>3 DEF ClientInv, ClientTypes, CacheFresh
<1>7. ClientTypes'
  BY <1>2, <1>3, <1>5 DEF ClientInv, ClientTypes, EntriesTyped
<1>8. DataInv'
  BY <1>2, <1>3 DEF ClientInv, ClientTypes, DataInv, Entity
<1>9. BeganInv'
  <2> SUFFICES ASSUME NEW d \in Reads, waits'[d] = d
               PROVE  /\ began'[d].epoch <= epoch'
                      /\ began'[d].owed <= acked'[Entity(d)]
                      /\ began'[d].epoch = epoch' => began'[d].owed = acked'[Entity(d)]
                      /\ exec'[d].wire = "served" => seen'[d] >= began'[d].owed
    BY DEF BeganInv, Entity
  <2>1. /\ began[d].epoch <= epoch /\ began[d].owed <= acked[Entity(d)]
        /\ exec[d].wire = "served" => seen[d] >= began[d].owed
    BY <1>2 DEF ClientInv, BeganInv
  <2>2. d \in Calls /\ Entity(d) \in Entities
    BY CallsTyped DEF Reads
  <2>3. /\ began[d].epoch \in Nat /\ epoch \in Nat /\ began[d].owed \in Nat
        /\ acked[Entity(d)] \in Nat
    BY <2>2 DEF ClientInv, ClientTypes
  <2>4. acked[Entity(d)] <= acked'[Entity(d)] /\ acked'[Entity(d)] \in Nat
    BY <1>2, <1>3, <2>2, <2>3 DEF ClientInv, ClientTypes
  <2> QED
    BY <1>2, <1>4, <2>1, <2>2, <2>3, <2>4 DEF NoneServed
<1>10. JoinInv' /\ ReadsFresh'
  BY <1>2 DEF ClientInv, JoinInv, ReadsFresh, Covered, Apart, Entity
<1> QED
  BY <1>4, <1>6, <1>7, <1>8, <1>9, <1>10 DEF ClientInv

LEMMA ClientStart == Init => ClientInv
<1> SUFFICES ASSUME Init
             PROVE  ClientInv
  OBVIOUS
<1>1. PipelineInv
  BY PipelineStart DEF Init
<1>2. EntriesTyped
  BY DEF Init, EntriesTyped
<1>3. ClientTypes
  BY <1>2 DEF Init, ClientTypes, NotBegun, Nothing
<1>4. DataInv /\ JoinInv /\ BeganInv
  BY CallsTyped DEF Init, DataInv, JoinInv, BeganInv, Reads
<1>5. CacheFresh /\ ReadsFresh
  BY DEF Init, CacheFresh, ReadsFresh, Nothing, Reads
<1> QED
  BY <1>1, <1>3, <1>4, <1>5 DEF ClientInv

LEMMA ClientStep == ClientInv /\ [Next]_vars => ClientInv'
<1> SUFFICES ASSUME ClientInv, [Next]_vars
             PROVE  ClientInv'
  OBVIOUS
<1>1. ASSUME NEW c \in Calls,
             \/ ReadCached(c) \/ ReadMissed(c) \/ RunRead(c) \/ EndRead(c)
             \/ Mutate(c) \/ EndMutation(c) \/ ServeData(c)
             \/ GiveUp(c) \/ AnswerOther(c) \/ Resume(c)
      PROVE  ClientInv'
  BY <1>1, ReadCachedInv, ReadMissedInv, RunReadInv, EndReadInv, MutateInv, EndMutationInv,
     ServeDataInv, DeliveringInv
<1>2. CASE UNCHANGED vars
  <2>1. UNCHANGED pipelineVars /\ UNCHANGED clientVars
    BY <1>2 DEF vars
  <2>2. PipelineInv' /\ NoneServed
    BY <2>1, PipelineStep DEF ClientInv, NoneServed, pipelineVars
  <2> QED
    BY <2>1, <2>2, QuietClient
<1> QED
  BY <1>1, <1>2, DeliveringInv, ExpireInv, ClientEnvironmentInv DEF Next

(* The inductive invariant of the client: what an operation brings is no   *)
(* older than what its read was owed, unless a mutation came between.      *)
THEOREM ClientCorrect == Spec => []ClientInv
  BY ClientStart, ClientStep, PTL DEF Spec

(* No entry is older than the newest acknowledged mutation of its entity   *)
(* (read, mutate and ReadCache), for keys that invalidation covers.        *)
THEOREM CacheIsFresh == Spec => []CacheFresh
<1>1. ClientInv => CacheFresh
  BY DEF ClientInv
<1> QED
  BY <1>1, ClientCorrect, PTL

(* A read that began after a mutation was acknowledged returns what that   *)
(* mutation wrote or something newer, from the cache or not.               *)
THEOREM ReadsAreFresh == Spec => []ReadsFresh
<1>1. ClientInv => ReadsFresh
  BY DEF ClientInv
<1> QED
  BY <1>1, ClientCorrect, PTL

(* Under the client, too, posts are bounded and a cancellation without the *)
(* warning left WHMCS alone.                                               *)
THEOREM ClientPosts == Spec => [](AttemptsBounded /\ CleanCancelUntouched)
<1>1. ClientInv => AttemptsBounded /\ CleanCancelUntouched
  BY InvBounds, InvClean DEF ClientInv
<1> QED
  BY <1>1, ClientCorrect, PTL

(* The types of the client; a shared operation is awaited by somebody.     *)
THEOREM ClientTypesCorrect == Spec => []TypeOK
<1>1. ClientInv => TypeOK
  <2> SUFFICES ASSUME ClientInv
               PROVE  TypeOK
    OBVIOUS
  <2>1. \A k \in Keys : flight[k] # NoOne => Awaiting(flight[k]) # {}
    BY DEF ClientInv, ClientTypes, JoinInv, Awaiting
  <2> QED
    BY <2>1 DEF ClientInv, ClientTypes, EntriesTyped, PipelineInv, TypeOK
<1> QED
  BY <1>1, ClientCorrect, PTL

-----------------------------------------------------------------------------
(* The client runs the pipeline: a read that waits for its slot is, to the *)
(* pipeline, one whose call was cancelled before it began, and which may   *)
(* be made again.                                                          *)

Past(c) == Cancelled(c, Fresh)

Scheduled(c) == c \in Reads /\ waits[c] = c /\ exec[c].at = "idle"

shown == [c \in Calls |-> IF Scheduled(c) THEN Past(c) ELSE exec[c]]

Piped == INSTANCE RequestPipeline WITH exec <- shown

RunsPipeline == Piped!PipelineInit /\ [][Piped!PipelineNext]_(Piped!pipelineVars)

(* Nothing is left of an earlier run when an execution is idle.            *)
IdleInv == \A c \in Calls : exec[c].at = "idle" => exec[c] = Fresh

(* The steps of the pipeline after a call was made.                        *)
Proceeds ==
  \/ \E c \in Calls : Abort(c) \/ Serve(c) \/ Answer(c) \/ Wake(c)
  \/ UpdaterEnds \/ AddressChanges \/ Tick

(* No execution becomes idle by them, and one that is idle stays as it is. *)
IdleKept ==
  \A c \in Calls :
    exec[c].at = "idle" \/ exec'[c].at = "idle" => exec'[c] = exec[c]

LEMMA OneKeepsIdle ==
  ASSUME PipelineInv, NEW c \in Calls, NEW f, exec' = [exec EXCEPT ![c] = f],
         exec[c].at # "idle", f.at # "idle"
  PROVE  IdleKept
  BY DEF PipelineInv, PipelineTypeOK, IdleKept

LEMMA Outcomes ==
  ASSUME NEW c \in Calls, NEW e \in Execution
  PROVE  /\ Posted(e).at # "idle" /\ Iterate(c, e).at # "idle"
         /\ FailedTransiently(c, e).at # "idle" /\ Cancelled(c, e).at = "ended"
         /\ \A v \in Verdicts : Ended(c, e, v).at # "idle"
<1>1. \A v \in Verdicts : Ended(c, e, v).at = "ended"
  BY DEF Ended, Fresh, Execution
<1>2. Posted(e).at = "posting"
  BY DEF Posted, Execution
<1>3. Ended(c, e, "cancelled") \in Execution
  <2>1. CASE Effect[c] = "read"
    BY <2>1, FreshHolds, FieldsSet DEF Ended, Places
  <2>2. CASE Effect[c] # "read"
    <3>1. [e EXCEPT !.at = "ended"] \in Execution
      BY FieldsSet DEF Places
    <3>2. [[e EXCEPT !.at = "ended"] EXCEPT !.verdict = "cancelled"] \in Execution
      BY <3>1, FieldsSet DEF Verdicts
    <3> QED
      BY <2>2, <3>2 DEF Ended, Execution
  <2> QED
    BY <2>1, <2>2
<1>4. Cancelled(c, e).at = "ended"
  BY <1>1, <1>3 DEF Cancelled, Verdicts, Execution
<1>5. FailedTransiently(c, e).at # "idle"
  BY <1>1 DEF FailedTransiently, Execution, Verdicts
<1> QED
  BY <1>1, <1>2, <1>4, <1>5 DEF Iterate

LEMMA PastEnded == \A c \in Calls : Past(c).at = "ended"
  BY FreshHolds, Outcomes DEF Past

LEMMA ProceedsKeepsIdle ==
  ASSUME PipelineInv, IdleInv, Proceeds
  PROVE  IdleKept
<1>0. \A c \in Calls : exec[c] \in Execution
  BY DEF PipelineInv, PipelineTypeOK
<1>1. ASSUME NEW c \in Calls, Abort(c) PROVE IdleKept
  <2>1. CASE UNCHANGED exec
    BY <2>1 DEF IdleKept
  <2>2. CASE exec' = [exec EXCEPT ![c] = Cancelled(c, exec[c])]
    BY <1>0, <1>1, <2>2, Outcomes, OneKeepsIdle DEF Abort
  <2> QED
    BY <1>1, <2>1, <2>2 DEF Abort
<1>2. ASSUME NEW c \in Calls, Serve(c) PROVE IdleKept
  <2>1. exec' = [exec EXCEPT ![c] = [exec[c] EXCEPT !.wire = "served"]]
    BY <1>2 DEF Serve
  <2>2. exec[c].at # "idle"
    BY <1>2 DEF Serve, IdleInv, Fresh
  <2>3. [exec[c] EXCEPT !.wire = "served"].at # "idle"
    BY <1>0, <2>2 DEF Execution
  <2> QED
    BY <2>1, <2>2, <2>3, OneKeepsIdle
<1>3. ASSUME NEW c \in Calls, Posting(c),
             NEW e \in {exec[c], [exec[c] EXCEPT !.wire = "none"]},
             NEW f, exec' = [exec EXCEPT ![c] = f],
             \/ \E v \in Verdicts : f = Ended(c, e, v)
             \/ f = FailedTransiently(c, e) \/ f.at = "healing"
      PROVE  IdleKept
  <2>1. e \in Execution /\ e.at # "idle" /\ exec[c].at # "idle"
    BY <1>0, <1>3, FieldsSet DEF Posting, Execution, Wires
  <2>2. f.at # "idle"
    BY <1>3, <2>1, Outcomes
  <2> QED
    BY <1>3, <2>1, <2>2, OneKeepsIdle
<1>4. ASSUME NEW c \in Calls, AnswerOk(c) \/ AnswerTransient(c) PROVE IdleKept
  BY <1>3, <1>4 DEF AnswerOk, AnswerTransient, Verdicts
<1>5. ASSUME NEW c \in Calls, AnswerRefused(c) PROVE IdleKept
  BY <1>3, <1>5 DEF AnswerRefused, Verdicts
<1>6. ASSUME NEW c \in Calls, AnswerInvalidIp(c) PROVE IdleKept
  <2> DEFINE unsent == [exec[c] EXCEPT !.wire = "none"]
             waiting == [unsent EXCEPT !.at = "healing", !.healed = TRUE]
  <2>1. waiting.at = "healing"
    BY <1>0 DEF Execution
  <2>2. \E f : /\ exec' = [exec EXCEPT ![c] = f]
               /\ f = waiting \/ f = Ended(c, unsent, "failed")
    BY <1>6 DEF AnswerInvalidIp
  <2>3. Posting(c)
    BY <1>6 DEF AnswerInvalidIp
  <2> HIDE DEF waiting
  <2> QED
    BY <1>3, <2>1, <2>2, <2>3 DEF Verdicts
<1>7. ASSUME NEW c \in Calls, AnswerEmptyForbidden(c) PROVE IdleKept
  <2> DEFINE unsent == [exec[c] EXCEPT !.wire = "none"]
             again == [unsent EXCEPT !.reset = TRUE]
  <2>1. Posting(c)
    BY <1>7 DEF AnswerEmptyForbidden
  <2>2. CASE exec' = [exec EXCEPT ![c] = Ended(c, unsent, "failed")]
    BY <1>3, <2>1, <2>2 DEF Verdicts
  <2>3. CASE exec' = [d \in Calls |->
                        IF d = c THEN Iterate(c, again)
                        ELSE IF Posting(d) THEN FailedTransiently(d, exec[d])
                        ELSE exec[d]]
    <3>1. again \in Execution /\ again.at # "idle"
      <4>1. unsent \in Execution /\ unsent.at # "idle"
        BY <1>0, <2>1, FieldsSet DEF Posting, Execution, Wires
      <4> HIDE DEF unsent
      <4> QED
        BY <4>1, FieldsSet DEF Execution
    <3> HIDE DEF again
    <3>2. exec'[c].at # "idle" /\ exec[c].at # "idle"
      BY <2>1, <2>3, <3>1, Outcomes DEF Posting
    <3>3. ASSUME NEW d \in Calls, Posting(d), d # c
          PROVE  exec'[d].at # "idle" /\ exec[d].at # "idle"
      BY <1>0, <2>3, <3>3, Outcomes DEF Posting
    <3>4. ASSUME NEW d \in Calls, ~Posting(d), d # c PROVE exec'[d] = exec[d]
      BY <2>3, <3>4
    <3> QED
      BY <3>2, <3>3, <3>4 DEF IdleKept
  <2> QED
    BY <1>7, <2>2, <2>3 DEF AnswerEmptyForbidden
<1>8. ASSUME NEW c \in Calls, Wake(c) PROVE IdleKept
  BY <1>0, <1>8, Outcomes, OneKeepsIdle DEF Wake
<1>9. CASE UpdaterEnds
  <2>1. PICK ok \in BOOLEAN : exec' = Resumed(ok)
    BY <1>9 DEF UpdaterEnds
  <2>2. ASSUME NEW c \in Calls, exec[c].at = "healing"
        PROVE  exec'[c].at # "idle"
    BY <1>0, <2>1, <2>2, Outcomes DEF Resumed, Verdicts
  <2>3. ASSUME NEW c \in Calls, exec[c].at # "healing" PROVE exec'[c] = exec[c]
    BY <2>1, <2>3 DEF Resumed
  <2> QED
    BY <2>2, <2>3 DEF IdleKept
<1>10. CASE AddressChanges \/ Tick
  BY <1>10 DEF AddressChanges, Tick, IdleKept
<1> QED
  BY <1>1, <1>2, <1>4, <1>5, <1>6, <1>7, <1>8, <1>9, <1>10 DEF Proceeds, Answer

(* What the client adds to such a step lets nobody wait anew.              *)
WaitsKept ==
  \A c \in Reads : /\ waits'[c] \in {waits[c], NoOne}
                   /\ Scheduled(c) => waits'[c] = c

ClientProceeds ==
  \/ HealEnds \/ Environment
  \/ \E c \in Calls : \/ EndRead(c) \/ EndMutation(c) \/ ServeData(c)
                      \/ GiveUp(c) \/ AnswerOther(c) \/ Resume(c)

LEMMA DeliveredWaits ==
  ASSUME PipelineInv, ClientTypes, IdleKept, Delivered
  PROVE  WaitsKept
<1>1. PICK failed : /\ \A op \in failed : op \in Reads /\ exec'[op].at # "idle"
                    /\ waits' = [c \in Calls |-> IF waits[c] \in failed
                                                 THEN NoOne ELSE waits[c]]
  BY DEF Delivered
<1>2. ASSUME NEW c \in Reads PROVE waits'[c] \in {waits[c], NoOne}
  BY <1>1, <1>2 DEF Reads
<1>3. ASSUME NEW c \in Reads, Scheduled(c) PROVE waits'[c] = c
  <2>1. c \in Calls /\ waits[c] = c /\ exec'[c].at = "idle"
    BY <1>3 DEF Scheduled, IdleKept, Reads
  <2> QED
    BY <1>1, <2>1
<1> QED
  BY <1>2, <1>3 DEF WaitsKept

LEMMA ClientProceedsKeeps ==
  ASSUME ClientInv, IdleInv, ClientProceeds
  PROVE  Proceeds /\ IdleKept /\ WaitsKept
<1>1. Proceeds
  BY DEF ClientProceeds, Proceeds, HealEnds, Environment, EndRead, EndMutation, ServeData,
         GiveUp, AnswerOther, Resume, Answer
<1>2. IdleKept
  BY <1>1, ProceedsKeepsIdle DEF ClientInv
<1>3. ASSUME Delivered PROVE WaitsKept
  BY <1>2, <1>3, DeliveredWaits DEF ClientInv
<1>4. ASSUME NEW op \in Calls, EndRead(op) PROVE WaitsKept
  <2>1. /\ waits' = [c \in Calls |-> IF waits[c] = op THEN NoOne ELSE waits[c]]
        /\ exec[op].at = "posting"
    BY <1>4 DEF EndRead, AnswerOk, Posting
  <2> QED
    BY <2>1 DEF WaitsKept, Scheduled, Reads
<1>5. ASSUME UNCHANGED waits PROVE WaitsKept
  BY <1>5 DEF WaitsKept, Scheduled
<1>6. Delivered \/ UNCHANGED waits \/ \E op \in Calls : EndRead(op)
  BY DEF ClientProceeds, HealEnds, Environment, clientVars, EndMutation, ServeData, GiveUp,
         AnswerOther, Resume
<1> QED
  BY <1>1, <1>2, <1>3, <1>4, <1>5, <1>6

LEMMA IdleStep ==
  ASSUME ClientInv, IdleInv, [Next]_vars
  PROVE  IdleInv'
<1>1. CASE ClientProceeds
  BY <1>1, ClientProceedsKeeps DEF IdleKept, IdleInv
<1>2. CASE UNCHANGED exec
  BY <1>2 DEF IdleInv
<1>3. ASSUME NEW c \in Calls, NEW f, exec' = [exec EXCEPT ![c] = f],
             f = Fresh \/ f.at # "idle"
      PROVE  IdleInv'
  BY <1>3 DEF IdleInv, ClientInv, PipelineInv, PipelineTypeOK
<1>4. ASSUME NEW c \in Calls, ReadMissed(c) \/ RunRead(c) \/ Mutate(c)
      PROVE  IdleInv'
  <2>1. exec[c] \in Execution /\ Fresh \in Execution
    BY FreshHolds DEF ClientInv, PipelineInv, PipelineTypeOK
  <2>2. CASE ReadMissed(c)
    BY <1>2, <1>3, <2>2 DEF ReadMissed
  <2>3. CASE RunRead(c)
    BY <1>3, <2>1, <2>3, Outcomes DEF RunRead
  <2>4. CASE Mutate(c)
    BY <1>3, <2>1, <2>4, Outcomes DEF Mutate, Execute
  <2> QED
    BY <1>4, <2>2, <2>3, <2>4
<1>5. ASSUME Expire \/ UNCHANGED vars \/ \E c \in Calls : ReadCached(c)
      PROVE  UNCHANGED exec
  BY <1>5 DEF Expire, vars, ReadCached, pipelineVars
<1> QED
  BY <1>1, <1>2, <1>4, <1>5 DEF Next, ClientProceeds

(* What the pipeline sees of such a step.                                  *)
SlotsKept == \A c \in Calls : Scheduled(c)' <=> Scheduled(c)

LEMMA SlotsStay ==
  ASSUME IdleKept, WaitsKept
  PROVE  SlotsKept
<1>1. \A c \in Reads : c \in Calls /\ c # NoOne
  BY ClientAssumption DEF ClientAssumption, Reads
<1>2. ASSUME NEW c \in Reads, Scheduled(c) PROVE waits'[c] = c /\ exec'[c].at = "idle"
  BY <1>1, <1>2 DEF IdleKept, WaitsKept, Scheduled
<1>3. ASSUME NEW c \in Reads, waits'[c] = c, exec'[c].at = "idle" PROVE Scheduled(c)
  BY <1>1, <1>3 DEF IdleKept, WaitsKept, Scheduled
<1> QED
  BY <1>2, <1>3 DEF SlotsKept, Scheduled

LEMMA ShownSame ==
  ASSUME SlotsKept, UNCHANGED exec
  PROVE  UNCHANGED shown
  BY DEF SlotsKept, shown

LEMMA ShownBusy ==
  ASSUME NEW c \in Calls, exec[c].at # "idle"
  PROVE  ~Scheduled(c) /\ shown[c] = exec[c]
  BY DEF shown, Scheduled

LEMMA ShownOne ==
  ASSUME PipelineInv, SlotsKept, NEW c \in Calls, exec[c].at # "idle",
         NEW f, exec' = [exec EXCEPT ![c] = f]
  PROVE  shown' = [shown EXCEPT ![c] = f] /\ shown[c] = exec[c]
<1>1. ~Scheduled(c) /\ ~Scheduled(c)' /\ shown[c] = exec[c]
  BY ShownBusy DEF SlotsKept
<1>2. exec'[c] = f /\ \A d \in Calls : d # c => exec'[d] = exec[d]
  BY DEF PipelineInv, PipelineTypeOK
<1>3. shown' = [d \in Calls |-> IF Scheduled(d)' THEN Past(d) ELSE exec'[d]]
  BY DEF shown
<1>4. [shown EXCEPT ![c] = f] = [d \in Calls |-> IF d = c THEN f ELSE shown[d]]
  BY DEF shown
<1>5. \A d \in Calls : (IF Scheduled(d)' THEN Past(d) ELSE exec'[d])
                         = IF d = c THEN f ELSE shown[d]
  BY <1>1, <1>2 DEF SlotsKept, shown
<1> QED
  BY <1>1, <1>3, <1>4, <1>5

(* The pipeline's outcomes do not depend on what it is shown.              *)
LEMMA SameOutcomes ==
  ASSUME NEW c, NEW e
  PROVE  /\ Piped!Fresh = Fresh
         /\ \A v : Piped!Ended(c, e, v) = Ended(c, e, v)
         /\ Piped!Cancelled(c, e) = Cancelled(c, e)
         /\ Piped!Posted(e) = Posted(e)
         /\ Piped!Iterate(c, e) = Iterate(c, e)
         /\ Piped!FailedTransiently(c, e) = FailedTransiently(c, e)
<1>1. Piped!Fresh = Fresh
  BY DEF Piped!Fresh, Fresh
<1>2. \A v : Piped!Ended(c, e, v) = Ended(c, e, v)
  BY <1>1 DEF Piped!Ended, Ended
<1>3. Piped!Cancelled(c, e) = Cancelled(c, e)
  BY <1>2 DEF Piped!Cancelled, Cancelled
<1>4. Piped!Posted(e) = Posted(e)
  BY DEF Piped!Posted, Posted
<1>5. Piped!Iterate(c, e) = Iterate(c, e)
  BY <1>3, <1>4 DEF Piped!Iterate, Iterate
<1>6. Piped!FailedTransiently(c, e) = FailedTransiently(c, e)
  BY <1>2 DEF Piped!FailedTransiently, FailedTransiently
<1> QED
  BY <1>1, <1>2, <1>3, <1>4, <1>5, <1>6

LEMMA AbortPiped ==
  ASSUME PipelineInv, SlotsKept, NEW c \in Calls, Abort(c)
  PROVE  Piped!Abort(c)
<1>1. exec[c].at # "idle" /\ shown[c] = exec[c]
  BY ShownBusy DEF Abort
<1>2. CASE exec[c].at = "healing"
  BY <1>1, <1>2, ShownSame DEF Abort, Piped!Abort
<1>3. CASE exec[c].at # "healing"
  <2>1. shown' = [shown EXCEPT ![c] = Piped!Cancelled(c, exec[c])]
    BY <1>1, <1>3, ShownOne, SameOutcomes DEF Abort
  <2> QED
    BY <1>1, <1>3, <2>1 DEF Abort, Piped!Abort
<1> QED
  BY <1>2, <1>3

LEMMA ServePiped ==
  ASSUME PipelineInv, IdleInv, SlotsKept, NEW c \in Calls, Serve(c)
  PROVE  Piped!Serve(c)
<1>1. exec[c].at # "idle"
  BY DEF Serve, IdleInv, Fresh
<1>2. shown' = [shown EXCEPT ![c] = [exec[c] EXCEPT !.wire = "served"]] /\ shown[c] = exec[c]
  BY <1>1, ShownOne DEF Serve
<1> QED
  BY <1>2 DEF Serve, Piped!Serve

LEMMA WakePiped ==
  ASSUME PipelineInv, SlotsKept, NEW c \in Calls, Wake(c)
  PROVE  Piped!Wake(c)
<1>1. shown' = [shown EXCEPT ![c] = Iterate(c, exec[c])] /\ shown[c] = exec[c]
  BY ShownOne DEF Wake
<1> QED
  BY <1>1, SameOutcomes DEF Wake, Piped!Wake

LEMMA AnswerPiped ==
  ASSUME PipelineInv, SlotsKept, NEW c \in Calls,
         AnswerOk(c) \/ AnswerRefused(c) \/ AnswerTransient(c)
  PROVE  Piped!Answer(c)
<1>1. Posting(c) /\ exec[c].at # "idle"
  BY DEF AnswerOk, AnswerRefused, AnswerTransient, Posting
<1>2. shown[c] = exec[c] /\ Piped!Posting(c)
  BY <1>1, ShownBusy DEF Posting, Piped!Posting
<1>3. CASE AnswerOk(c)
  <2>1. shown' = [shown EXCEPT ![c] = Ended(c, exec[c], "ok")]
    BY <1>1, <1>3, ShownOne DEF AnswerOk
  <2> QED
    BY <1>2, <1>3, <2>1, SameOutcomes DEF AnswerOk, Piped!AnswerOk, Piped!Answer
<1>4. CASE AnswerRefused(c)
  <2>1. PICK verdict \in {"business", "failed"} :
          exec' = [exec EXCEPT ![c] = Ended(c, [exec[c] EXCEPT !.wire = "none"], verdict)]
    BY <1>4 DEF AnswerRefused
  <2>2. shown' = [shown EXCEPT ![c] = Ended(c, [exec[c] EXCEPT !.wire = "none"], verdict)]
    BY <1>1, <2>1, ShownOne
  <2>3. shown' = [shown EXCEPT ![c] =
                    Piped!Ended(c, [shown[c] EXCEPT !.wire = "none"], verdict)]
    BY <1>2, <2>2, SameOutcomes
  <2>4. Piped!AnswerRefused(c)
    BY <1>2, <1>4, <2>3 DEF AnswerRefused, Piped!AnswerRefused
  <2> QED
    BY <2>4 DEF Piped!Answer
<1>5. CASE AnswerTransient(c)
  <2>1. shown' = [shown EXCEPT ![c] = FailedTransiently(c, exec[c])]
    BY <1>1, <1>5, ShownOne DEF AnswerTransient
  <2> QED
    BY <1>2, <1>5, <2>1, SameOutcomes DEF AnswerTransient, Piped!AnswerTransient, Piped!Answer
<1> QED
  BY <1>3, <1>4, <1>5

LEMMA ForbiddenPiped ==
  ASSUME PipelineInv, SlotsKept, NEW c \in Calls, AnswerEmptyForbidden(c)
  PROVE  Piped!AnswerEmptyForbidden(c)
<1> DEFINE unsent == [exec[c] EXCEPT !.wire = "none"]
           again == [unsent EXCEPT !.reset = TRUE]
<1>1. Posting(c) /\ exec[c].at # "idle"
  BY DEF AnswerEmptyForbidden, Posting
<1>2. shown[c] = exec[c] /\ Piped!Posting(c)
  BY <1>1, ShownBusy DEF Posting, Piped!Posting
<1>3. CASE Effect[c] = "read" /\ ~exec[c].reset
  <2>1. exec' = [d \in Calls |-> IF d = c THEN Iterate(c, again)
                                 ELSE IF Posting(d) THEN FailedTransiently(d, exec[d])
                                 ELSE exec[d]]
    BY <1>3 DEF AnswerEmptyForbidden
  <2> HIDE DEF again
  <2>2. shown' = [d \in Calls |-> IF Scheduled(d)' THEN Past(d) ELSE exec'[d]]
    BY DEF shown
  <2>3. \A d \in Calls : (IF Scheduled(d)' THEN Past(d) ELSE exec'[d])
                           = IF d = c THEN Piped!Iterate(c, again)
                             ELSE IF Piped!Posting(d) THEN Piped!FailedTransiently(d, shown[d])
                             ELSE shown[d]
    <3>1. ASSUME NEW d \in Calls, Scheduled(d)
          PROVE  d # c /\ Scheduled(d)' /\ ~Piped!Posting(d) /\ shown[d] = Past(d)
      BY <1>1, <3>1, PastEnded DEF SlotsKept, Scheduled, shown, Piped!Posting
    <3>2. ASSUME NEW d \in Calls, ~Scheduled(d)
          PROVE  ~Scheduled(d)' /\ shown[d] = exec[d] /\ Piped!Posting(d) = Posting(d)
      BY <3>2 DEF SlotsKept, shown, Piped!Posting, Posting
    <3> QED
      BY <2>1, <3>1, <3>2, SameOutcomes
  <2>4. shown' = [d \in Calls |-> IF d = c THEN Piped!Iterate(c, again)
                                  ELSE IF Piped!Posting(d)
                                       THEN Piped!FailedTransiently(d, shown[d])
                                  ELSE shown[d]]
    BY <2>2, <2>3
  <2> QED
    BY <1>2, <1>3, <2>4 DEF AnswerEmptyForbidden, Piped!AnswerEmptyForbidden, again
<1>4. CASE ~(Effect[c] = "read" /\ ~exec[c].reset)
  <2>1. shown' = [shown EXCEPT ![c] = Ended(c, unsent, "failed")]
    BY <1>1, <1>4, ShownOne DEF AnswerEmptyForbidden
  <2>2. shown' = [shown EXCEPT ![c] = Piped!Ended(c, unsent, "failed")]
    BY <2>1, SameOutcomes
  <2> QED
    BY <1>2, <1>4, <2>2 DEF AnswerEmptyForbidden, Piped!AnswerEmptyForbidden
<1> QED
  BY <1>3, <1>4

LEMMA InvalidIpPiped ==
  ASSUME PipelineInv, SlotsKept, NEW c \in Calls, AnswerInvalidIp(c)
  PROVE  Piped!AnswerInvalidIp(c)
<1> DEFINE unsent == [exec[c] EXCEPT !.wire = "none"]
           waiting == [unsent EXCEPT !.at = "healing", !.healed = TRUE]
           repairs == Effect[c] = "read" /\ AutoHeal /\ ~exec[c].healed
<1>1. Posting(c) /\ exec[c].at # "idle"
  BY DEF AnswerInvalidIp, Posting
<1>2. shown[c] = exec[c] /\ Piped!Posting(c) /\ (Piped!Cooling <=> Cooling)
  BY <1>1, ShownBusy DEF Posting, Piped!Posting, Cooling, Piped!Cooling
<1>3. ASSUME exec' = [exec EXCEPT ![c] = waiting]
      PROVE  shown' = [shown EXCEPT ![c] = waiting]
  BY <1>1, <1>3, ShownOne
<1>4. ASSUME exec' = [exec EXCEPT ![c] = Ended(c, unsent, "failed")]
      PROVE  shown' = [shown EXCEPT ![c] = Piped!Ended(c, unsent, "failed")]
  <2>1. Piped!Ended(c, unsent, "failed") = Ended(c, unsent, "failed")
    BY SameOutcomes
  <2> HIDE DEF unsent
  <2> QED
    BY <1>1, <1>4, <2>1, ShownOne
<1>5. /\ \/ repairs /\ updater.running /\ shown' = [shown EXCEPT ![c] = waiting]
            /\ UNCHANGED updater
         \/ repairs /\ ~updater.running /\ ~Piped!Cooling
            /\ shown' = [shown EXCEPT ![c] = waiting]
            /\ updater' = [updater EXCEPT !.running = TRUE, !.runs = @ + 1]
         \/ (~repairs \/ (~updater.running /\ Piped!Cooling))
            /\ shown' = [shown EXCEPT ![c] = Piped!Ended(c, unsent, "failed")]
            /\ UNCHANGED updater
      /\ exec[c].wire = "sent" /\ ~allowed /\ UNCHANGED <<aborted, allowed, now>>
  BY <1>2, <1>3, <1>4 DEF AnswerInvalidIp
<1> QED
  BY <1>2, <1>5 DEF Piped!AnswerInvalidIp

LEMMA UpdaterPiped ==
  ASSUME PipelineInv, SlotsKept, UpdaterEnds
  PROVE  Piped!UpdaterEnds
<1>1. PICK ok \in BOOLEAN : exec' = Resumed(ok) /\ allowed' = (allowed \/ ok)
  BY DEF UpdaterEnds
<1>2. shown' = [d \in Calls |-> IF Scheduled(d)' THEN Past(d) ELSE exec'[d]]
  BY DEF shown
<1>3. \A d \in Calls : (IF Scheduled(d)' THEN Past(d) ELSE exec'[d])
                         = IF shown[d].at # "healing" THEN shown[d]
                           ELSE IF ok THEN Piped!Iterate(d, shown[d])
                           ELSE Piped!Ended(d, shown[d], "failed")
  <2>1. ASSUME NEW d \in Calls, Scheduled(d)
        PROVE  Scheduled(d)' /\ shown[d] = Past(d) /\ shown[d].at # "healing"
    BY <2>1, PastEnded DEF SlotsKept, shown
  <2>2. ASSUME NEW d \in Calls, ~Scheduled(d)
        PROVE  ~Scheduled(d)' /\ shown[d] = exec[d]
    BY <2>2 DEF SlotsKept, shown
  <2> QED
    BY <1>1, <2>1, <2>2, SameOutcomes DEF Resumed
<1>4. shown' = Piped!Resumed(ok)
  BY <1>2, <1>3 DEF Piped!Resumed
<1> QED
  BY <1>1, <1>4 DEF UpdaterEnds, Piped!UpdaterEnds

(* Every step after the call is a step of the pipeline as it is shown.     *)
LEMMA ProceedsPiped ==
  ASSUME PipelineInv, IdleInv, SlotsKept, Proceeds
  PROVE  Piped!PipelineNext
<1>1. ASSUME NEW c \in Calls, Abort(c) \/ Serve(c) \/ Wake(c)
      PROVE  Piped!PipelineNext
  BY <1>1, AbortPiped, ServePiped, WakePiped DEF Piped!PipelineNext
<1>2. ASSUME NEW c \in Calls, Answer(c) PROVE Piped!PipelineNext
  <2>1. Piped!Answer(c)
    BY <1>2, AnswerPiped, ForbiddenPiped, InvalidIpPiped DEF Answer, Piped!Answer
  <2> QED
    BY <2>1 DEF Piped!PipelineNext
<1>3. CASE UpdaterEnds
  BY <1>3, UpdaterPiped DEF Piped!PipelineNext
<1>4. CASE AddressChanges
  BY <1>4, ShownSame DEF AddressChanges, Piped!AddressChanges, Piped!PipelineNext
<1>5. CASE Tick
  BY <1>5, ShownSame DEF Tick, Piped!Tick, Piped!PipelineNext
<1> QED
  BY <1>1, <1>2, <1>3, <1>4, <1>5 DEF Proceeds

(* The steps that make a call, and those in which no execution moves.      *)
LEMMA ReadPiped ==
  ASSUME ClientInv, IdleInv, NEW c \in Calls, ReadMissed(c)
  PROVE  Piped!Execute(c) \/ UNCHANGED shown
<1> DEFINE key == Input[c].key
           joins == Input[c].shared /\ flight[key] # NoOne
<1>1. /\ c \in Reads /\ c # NoOne /\ waits[c] = NoOne /\ exec[c].at \in {"idle", "ended"}
      /\ waits' = [waits EXCEPT ![c] = IF joins THEN flight[key] ELSE c]
      /\ exec' = IF joins THEN exec ELSE [exec EXCEPT ![c] = Fresh]
      /\ UNCHANGED <<aborted, updater, allowed, now>>
  BY ClientAssumption DEF ClientAssumption, ReadMissed, Idle
<1>2. waits \in [Calls -> Reads \cup {NoOne}] /\ exec \in [Calls -> Execution]
  BY DEF ClientInv, ClientTypes, PipelineInv, PipelineTypeOK
<1>3. ~Scheduled(c)
  BY <1>1 DEF Scheduled
<1>4. \A d \in Calls : d # c => (Scheduled(d)' <=> Scheduled(d)) /\ exec'[d] = exec[d]
  BY <1>1, <1>2 DEF Scheduled
<1>5. shown' = [d \in Calls |-> IF Scheduled(d)' THEN Past(d) ELSE exec'[d]]
  BY DEF shown
<1>6. CASE joins
  <2>1. flight[key] # c
    BY <1>1, <1>6, CallsTyped DEF ClientInv, JoinInv
  <2>2. ~Scheduled(c)' /\ exec' = exec
    BY <1>1, <1>2, <1>6, <2>1 DEF Scheduled
  <2> QED
    BY <1>3, <1>4, <1>5, <2>2 DEF shown
<1>7. CASE ~joins
  <2>1. Scheduled(c)'
    BY <1>1, <1>2, <1>7 DEF Scheduled, Fresh
  <2>2. shown' = [shown EXCEPT ![c] = Past(c)]
    <3>1. \A d \in Calls : (IF Scheduled(d)' THEN Past(d) ELSE exec'[d])
                             = IF d = c THEN Past(c) ELSE shown[d]
      BY <1>4, <2>1 DEF shown
    <3> QED
      BY <1>5, <3>1 DEF shown
  <2>3. Piped!Cancelled(c, Piped!Fresh) = Past(c)
    BY SameOutcomes DEF Past
  <2>4. Piped!MayExecute(c)
    BY <1>1, <1>3 DEF shown, Piped!MayExecute, Reads
  <2>5. \E dead \in BOOLEAN :
          shown' = [shown EXCEPT ![c] = IF dead THEN Piped!Cancelled(c, Piped!Fresh)
                                        ELSE Piped!Posted(Piped!Fresh)]
    BY <2>2, <2>3
  <2> QED
    BY <1>1, <2>4, <2>5 DEF Piped!Execute
<1> QED
  BY <1>6, <1>7

LEMMA RunPiped ==
  ASSUME ClientInv, IdleInv, NEW c \in Calls, RunRead(c)
  PROVE  Piped!Execute(c)
<1>1. /\ Scheduled(c) /\ exec[c] = Fresh /\ shown[c] = Past(c)
      /\ exec' = [exec EXCEPT ![c] = Posted(Fresh)]
      /\ UNCHANGED <<aborted, updater, allowed, now, waits>>
  BY DEF RunRead, Scheduled, IdleInv, shown, clientVars
<1>2. exec \in [Calls -> Execution]
  BY DEF ClientInv, PipelineInv, PipelineTypeOK
<1>3. ~Scheduled(c)' /\ exec'[c] = Posted(Fresh)
  BY <1>1, <1>2 DEF Scheduled, Posted, Fresh
<1>4. \A d \in Calls : d # c => (Scheduled(d)' <=> Scheduled(d)) /\ exec'[d] = exec[d]
  BY <1>1, <1>2 DEF Scheduled
<1>5. shown' = [shown EXCEPT ![c] = Posted(Fresh)]
  <2>1. \A d \in Calls : (IF Scheduled(d)' THEN Past(d) ELSE exec'[d])
                           = IF d = c THEN Posted(Fresh) ELSE shown[d]
    BY <1>3, <1>4 DEF shown
  <2> QED
    BY <2>1 DEF shown
<1>6. Piped!Posted(Piped!Fresh) = Posted(Fresh)
  BY SameOutcomes
<1>7. Piped!MayExecute(c)
  BY <1>1, PastEnded DEF Piped!MayExecute, Scheduled, Reads
<1> QED
  BY <1>1, <1>5, <1>6, <1>7 DEF Piped!Execute

LEMMA MutatePiped ==
  ASSUME ClientInv, NEW c \in Calls, Mutate(c)
  PROVE  Piped!Execute(c)
<1>1. /\ c \notin Reads /\ ~Scheduled(c) /\ shown[c] = exec[c]
      /\ UNCHANGED <<aborted, updater, allowed, now, waits>>
  BY DEF Mutate, Writes, Scheduled, shown, Execute, clientVars
<1>2. exec \in [Calls -> Execution]
  BY DEF ClientInv, PipelineInv, PipelineTypeOK
<1>3. PICK dead \in BOOLEAN :
        exec' = [exec EXCEPT ![c] = IF dead THEN Cancelled(c, Fresh) ELSE Posted(Fresh)]
  BY DEF Mutate, Execute
<1> DEFINE f == IF dead THEN Cancelled(c, Fresh) ELSE Posted(Fresh)
<1>4. f = IF dead THEN Piped!Cancelled(c, Piped!Fresh) ELSE Piped!Posted(Piped!Fresh)
  BY SameOutcomes
<1>5. exec' = [exec EXCEPT ![c] = f]
  BY <1>3
<1> HIDE DEF f
<1>6. \A d \in Calls : (Scheduled(d)' <=> Scheduled(d))
  BY <1>1, <1>2, <1>5 DEF Scheduled
<1>7. shown' = [shown EXCEPT ![c] = f]
  <2>1. \A d \in Calls : (IF Scheduled(d)' THEN Past(d) ELSE exec'[d])
                           = IF d = c THEN f ELSE shown[d]
    BY <1>1, <1>2, <1>5, <1>6 DEF shown
  <2> QED
    BY <2>1 DEF shown
<1>8. Piped!MayExecute(c)
  BY <1>1 DEF Mutate, Execute, MayExecute, Piped!MayExecute
<1> QED
  BY <1>1, <1>4, <1>7, <1>8 DEF Piped!Execute

LEMMA ClientPiped ==
  ASSUME ClientInv, IdleInv, [Next]_vars
  PROVE  [Piped!PipelineNext]_(Piped!pipelineVars)
<1>1. CASE ClientProceeds
  <2>1. PipelineInv /\ Proceeds /\ SlotsKept
    BY <1>1, ClientProceedsKeeps, SlotsStay DEF ClientInv
  <2> QED
    BY <2>1, ProceedsPiped
<1>2. ASSUME NEW c \in Calls, ReadMissed(c) \/ RunRead(c) \/ Mutate(c)
      PROVE  [Piped!PipelineNext]_(Piped!pipelineVars)
  <2>1. CASE Piped!Execute(c)
    BY <2>1 DEF Piped!PipelineNext
  <2>2. CASE UNCHANGED shown /\ ReadMissed(c)
    BY <2>2 DEF ReadMissed, Piped!pipelineVars
  <2> QED
    BY <1>2, <2>1, <2>2, ReadPiped, RunPiped, MutatePiped
<1>3. ASSUME Expire \/ UNCHANGED vars \/ \E c \in Calls : ReadCached(c)
      PROVE  [Piped!PipelineNext]_(Piped!pipelineVars)
  <2>1. UNCHANGED <<exec, waits, aborted, updater, allowed, now>>
    BY <1>3 DEF Expire, vars, clientVars, ReadCached, pipelineVars
  <2>2. UNCHANGED shown
    BY <2>1 DEF shown, Scheduled
  <2> QED
    BY <2>1, <2>2 DEF Piped!pipelineVars
<1> QED
  BY <1>1, <1>2, <1>3 DEF Next, ClientProceeds

(* The client with its cache and its shared operations runs the pipeline:  *)
(* whatever the pipeline guarantees of its executions holds of the client's*)
(* with a read that waits for its slot counted as one that has not begun.  *)
THEOREM ClientRunsPipeline == Spec => RunsPipeline
<1>1. Init => IdleInv /\ Piped!PipelineInit
  <2>1. ASSUME Init PROVE IdleInv /\ shown = exec
    BY <2>1, ClientAssumption DEF ClientAssumption, Init, PipelineInit, IdleInv, shown,
                                  Scheduled, Fresh, Reads
  <2> QED
    BY <2>1, SameOutcomes DEF Init, PipelineInit, Piped!PipelineInit
<1> QED
  BY <1>1, ClientCorrect, IdleStep, ClientPiped, PTL DEF Spec, RunsPipeline
=============================================================================
