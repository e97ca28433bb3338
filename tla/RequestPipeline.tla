-------------------------- MODULE RequestPipeline --------------------------
(***************************************************************************)
(* WhmcsRequestPipeline.execute (src/whmcs/request/pipeline.ts) with the   *)
(* allowlist healing it may wait for (src/whmcs/ipAllowlistHeal.ts): one   *)
(* execution per call, suspended in the transport, in a backoff or in the  *)
(* shared updater run, while its signal may abort at any time.             *)
(*                                                                         *)
(* WHMCS and the network are external: a request that was posted may be    *)
(* served at any later time, also after its execution has ended.           *)
(***************************************************************************)
EXTENDS Naturals, FiniteSets

CONSTANTS
  Calls,          \* callers of execute: a read again and again, a write once
  Effect,         \* "read" or "write", of each call
  AttemptBudget,  \* DEFAULT_READ_ATTEMPT_BUDGET
  AutoHeal,       \* WHMCS_AUTO_IP_HEAL
  Cooldown,       \* WHMCS_AUTO_IP_HEAL_COOLDOWN_MS, in ticks
  MaxTime         \* bound of the clock

PipelineAssumption ==
  /\ Effect \in [Calls -> {"read", "write"}]
  /\ AttemptBudget \in Nat \ {0}
  /\ AutoHeal \in BOOLEAN
  /\ Cooldown \in Nat \ {0}
  /\ MaxTime \in Nat \ {0}

ASSUME PipelineAssumption

VARIABLES
  exec,     \* the execution of each call
  aborted,  \* whether the signal aborted while its execution waits for the updater
  updater,  \* inFlight, lastHealEndMs and how many runs were started
  allowed,  \* external: WHMCS's allowlist has the server's address
  now       \* the clock

pipelineVars == <<exec, aborted, updater, allowed, now>>

Places == {"idle", "posting", "healing", "sleeping", "ended"}
Verdicts == {"none", "ok", "business", "failed", "cancelled"}
Wires == {"none", "sent", "served"}

Execution ==
  [at : Places, tries : Nat, ordinary : Nat, healed : BOOLEAN, reset : BOOLEAN,
   wire : Wires, verdict : Verdicts, unknown : BOOLEAN]

Fresh == [at |-> "idle", tries |-> 0, ordinary |-> 1, healed |-> FALSE,
          reset |-> FALSE, wire |-> "none", verdict |-> "none", unknown |-> FALSE]

-----------------------------------------------------------------------------
(* Outcomes.                                                               *)

(* The end of an execution; of a read nothing remains that matters later.  *)
Ended(c, e, verdict) ==
  IF Effect[c] = "read"
  THEN [Fresh EXCEPT !.at = "ended"]
  ELSE [e EXCEPT !.at = "ended", !.verdict = verdict]

\* Variant with a defect: the deadline's error does not say the outcome is unknown.
CancelledQuietly(c, e) == Ended(c, e, "cancelled")

(* An aborted execution: a write that reached the transport has an unknown *)
(* outcome.                                                                *)
Cancelled(c, e) ==
  [Ended(c, e, "cancelled") EXCEPT !.unknown = Effect[c] = "write" /\ e.tries > 0]

Posted(e) == [e EXCEPT !.at = "posting", !.tries = @ + 1, !.wire = "sent"]

(* The top of the loop: an abort is noticed, otherwise the request is      *)
(* posted.                                                                 *)
Iterate(c, e) == IF aborted[c] THEN Cancelled(c, e) ELSE Posted(e)

\* Variant with a defect: a write is retried like a read.
FailedRetryingWrites(c, e) ==
  IF e.ordinary < AttemptBudget
  THEN [e EXCEPT !.at = "sleeping", !.ordinary = @ + 1]
  ELSE Ended(c, e, "failed")

(* shouldRetryRead for a 429, a 5xx, a reset or a timeout.                 *)
FailedTransiently(c, e) ==
  IF Effect[c] = "read" /\ e.ordinary < AttemptBudget
  THEN [e EXCEPT !.at = "sleeping", !.ordinary = @ + 1]
  ELSE Ended(c, e, "failed")

-----------------------------------------------------------------------------
(* The steps of an execution.                                              *)

MayExecute(c) ==
  \/ exec[c].at = "idle"
  \/ exec[c].at = "ended" /\ Effect[c] = "read"

(* A call, with a signal that is live or already aborted.                  *)
Execute(c) ==
  /\ MayExecute(c)
  /\ \E dead \in BOOLEAN :
       exec' = [exec EXCEPT ![c] = IF dead THEN Cancelled(c, Fresh) ELSE Posted(Fresh)]
  /\ UNCHANGED <<aborted, updater, allowed, now>>

(* The signal aborts or the deadline passes.  Transport and sleep reject   *)
(* at once; a wait for the updater goes on, and the abort is noticed after *)
(* it.                                                                     *)
Abort(c) ==
  /\ ~aborted[c]
  /\ exec[c].at \in {"posting", "sleeping", "healing"}
  /\ IF exec[c].at = "healing"
     THEN aborted' = [aborted EXCEPT ![c] = TRUE] /\ UNCHANGED exec
     ELSE exec' = [exec EXCEPT ![c] = Cancelled(c, @)] /\ UNCHANGED aborted
  /\ UNCHANGED <<updater, allowed, now>>

(* External: WHMCS runs a request that reached it, late or not.            *)
Serve(c) ==
  /\ exec[c].wire = "sent"
  /\ allowed
  /\ exec' = [exec EXCEPT ![c].wire = "served"]
  /\ UNCHANGED <<aborted, updater, allowed, now>>

Posting(c) == exec[c].at = "posting"

AnswerOk(c) ==
  /\ Posting(c)
  /\ exec[c].wire = "served"
  /\ exec' = [exec EXCEPT ![c] = Ended(c, @, "ok")]
  /\ UNCHANGED <<aborted, updater, allowed, now>>

(* result=error, or a refusal no repair helps with: WHMCS did nothing.     *)
AnswerRefused(c) ==
  /\ Posting(c)
  /\ exec[c].wire = "sent"
  /\ \E verdict \in {"business", "failed"} :
       exec' = [exec EXCEPT ![c] = Ended(c, [@ EXCEPT !.wire = "none"], verdict)]
  /\ UNCHANGED <<aborted, updater, allowed, now>>

(* An answer that says nothing of whether WHMCS served the request.        *)
AnswerTransient(c) ==
  /\ Posting(c)
  /\ exec' = [exec EXCEPT ![c] = FailedTransiently(c, @)]
  /\ UNCHANGED <<aborted, updater, allowed, now>>

Wake(c) ==
  /\ exec[c].at = "sleeping"
  /\ exec' = [exec EXCEPT ![c] = Iterate(c, @)]
  /\ UNCHANGED <<aborted, updater, allowed, now>>

(* An empty 403: a read resets the keep-alive connections once and posts   *)
(* again.  The reset destroys the sockets of every request in flight,      *)
(* which fail as connection errors.                                        *)
AnswerEmptyForbidden(c) ==
  LET unsent == [exec[c] EXCEPT !.wire = "none"] IN
  /\ Posting(c)
  /\ exec[c].wire = "sent"
  /\ exec' =
       IF Effect[c] = "read" /\ ~exec[c].reset
       THEN [d \in Calls |->
               IF d = c THEN Iterate(c, [unsent EXCEPT !.reset = TRUE])
               ELSE IF Posting(d) THEN FailedTransiently(d, exec[d])
               ELSE exec[d]]
       ELSE [exec EXCEPT ![c] = Ended(c, unsent, "failed")]
  /\ UNCHANGED <<aborted, updater, allowed, now>>

-----------------------------------------------------------------------------
(* Invalid IP, and attemptIpAllowlistHeal.                                 *)

\* Variant with a defect: no cooldown after a run.
CoolingNever == FALSE

Cooling == updater.ended > 0 /\ now - updater.ended < Cooldown

AnswerInvalidIp(c) ==
  LET unsent == [exec[c] EXCEPT !.wire = "none"]
      waiting == [unsent EXCEPT !.at = "healing", !.healed = TRUE]
      repairs == Effect[c] = "read" /\ AutoHeal /\ ~exec[c].healed
  IN
  /\ Posting(c)
  /\ exec[c].wire = "sent"
  /\ ~allowed
  /\ \/ /\ repairs /\ updater.running
        /\ exec' = [exec EXCEPT ![c] = waiting]
        /\ UNCHANGED updater
     \/ /\ repairs /\ ~updater.running /\ ~Cooling
        /\ exec' = [exec EXCEPT ![c] = waiting]
        /\ updater' = [updater EXCEPT !.running = TRUE, !.runs = @ + 1]
     \/ /\ ~repairs \/ (~updater.running /\ Cooling)
        /\ exec' = [exec EXCEPT ![c] = Ended(c, unsent, "failed")]
        /\ UNCHANGED updater
  /\ UNCHANGED <<aborted, allowed, now>>

\* Variant with a defect: a waiter whose signal aborted is forgotten.
ResumedLive(ok) ==
  [c \in Calls |->
     IF exec[c].at # "healing" \/ aborted[c] THEN exec[c]
     ELSE IF ok THEN Iterate(c, exec[c])
     ELSE Ended(c, exec[c], "failed")]

Resumed(ok) ==
  [c \in Calls |->
     IF exec[c].at # "healing" THEN exec[c]
     ELSE IF ok THEN Iterate(c, exec[c])
     ELSE Ended(c, exec[c], "failed")]

(* The updater exits, or is killed at its timeout; success puts the        *)
(* address on the list, and everybody who waited goes on.                  *)
UpdaterEnds ==
  /\ updater.running
  /\ updater' = [updater EXCEPT !.running = FALSE, !.ended = now]
  /\ \E ok \in BOOLEAN :
       /\ exec' = Resumed(ok)
       /\ allowed' = (allowed \/ ok)
  /\ aborted' = [c \in Calls |-> FALSE]
  /\ UNCHANGED now

(* External: the server's public address changes.                          *)
AddressChanges ==
  /\ allowed
  /\ allowed' = FALSE
  /\ UNCHANGED <<exec, aborted, updater, now>>

Tick ==
  /\ now < MaxTime
  /\ now' = now + 1
  /\ UNCHANGED <<exec, aborted, updater, allowed>>

Answer(c) ==
  \/ AnswerOk(c)
  \/ AnswerRefused(c)
  \/ AnswerTransient(c)
  \/ AnswerEmptyForbidden(c)
  \/ AnswerInvalidIp(c)

PipelineInit ==
  /\ exec = [c \in Calls |-> Fresh]
  /\ aborted = [c \in Calls |-> FALSE]
  /\ updater = [running |-> FALSE, ended |-> 0, runs |-> 0]
  /\ allowed = TRUE
  /\ now = 1

PipelineNext ==
  \/ \E c \in Calls :
       Execute(c) \/ Abort(c) \/ Serve(c) \/ Answer(c) \/ Wake(c)
  \/ UpdaterEnds \/ AddressChanges \/ Tick

(* The transport answers or times out, timers fire, and the updater exits  *)
(* or is killed; nothing makes WHMCS serve a request or a caller come back.*)
PipelineFairness ==
  /\ \A c \in Calls : WF_pipelineVars(Answer(c) \/ Wake(c))
  /\ WF_pipelineVars(UpdaterEnds)

PipelineSpec ==
  PipelineInit /\ [][PipelineNext]_pipelineVars /\ PipelineFairness

-----------------------------------------------------------------------------
(* Properties.                                                             *)

(* The types of the pipeline's state.                                      *)
PipelineTypeOK ==
  /\ exec \in [Calls -> Execution]
  /\ aborted \in [Calls -> BOOLEAN]
  /\ updater \in [running : BOOLEAN, ended : Nat, runs : Nat]
  /\ allowed \in BOOLEAN
  /\ now \in Nat

(* A mutation is posted at most once, whatever retries, repairs and resets *)
(* happen around it; a read at most its budget and one time per repair.    *)
(* However many reads are refused at once, again and again, the updater is *)
(* not spawned in a tight loop: one run per cooldown, and the first.       *)
AttemptsBounded ==
  /\ \A c \in Calls :
       exec[c].tries <= IF Effect[c] = "write" THEN 1 ELSE AttemptBudget + 2
  /\ updater.runs <= 1 + (now - 1) \div Cooldown

(* A mutation whose cancellation is reported without the warning that its  *)
(* outcome is unknown has not reached WHMCS, and never will.               *)
CleanCancelUntouched ==
  \A c \in Calls :
    /\ Effect[c] = "write"
    /\ exec[c].verdict = "cancelled"
    /\ ~exec[c].unknown
    => exec[c].wire = "none"

(* Every execution ends: retries, the repair, the reset and the wait for   *)
(* the updater cannot feed one another for ever.                           *)
ExecutionsEnd ==
  \A c \in Calls :
    exec[c].at \in {"posting", "sleeping", "healing"} ~> exec[c].at = "ended"
=============================================================================
