--------------------------- MODULE VersionProfile ---------------------------
(***************************************************************************)
(* The version of WHMCS as the server knows it                             *)
(* (src/whmcs/versionProfile.ts): validation of drafts, plans, ops_ask and *)
(* the capability tools ask for its family.  Three reads are tried in      *)
(* turn; what comes out, "unknown" too, is cached for the process.  Calls  *)
(* that find no live entry probe each on their own, and WHMCS is upgraded  *)
(* meanwhile.  Nothing keeps the read cache or a read in flight from       *)
(* answering the stages that MCP_READ_CACHE_ACTIONS lists.                 *)
(***************************************************************************)
EXTENDS Naturals, Sequences

CONSTANTS
  Callers,    \* calls that ask for the family, again and again
  Releases,   \* families of WHMCS, in the order of its upgrades: from, to
  ProfileTtl, \* CACHE_TTL_MS
  SharedStages, \* stages whose action MCP_READ_CACHE_ACTIONS lists, with caching or
                \* coalescing on
  StageLag,   \* MCP_READ_CACHE_TTL_MS and the longest that one request is under way
  MaxInstant  \* bound on the clock

ASSUME ProfileTimes == ProfileTtl \in Nat /\ StageLag \in Nat /\ MaxInstant \in Nat

\* cachePolicy.ts bars the action of the second stage, an "admin" one.
ASSUME StagesShared == SharedStages \subseteq {1, 3}

ASSUME ReleasesDiffer ==
  /\ Releases[1] # Releases[2]
  /\ {Releases[1], Releases[2]} \cap {"none", "unknown"} = {}

Stages == <<"WhmcsDetails", "GetAdminDetails", "GetConfigurationValue">>

VARIABLES
  instant,   \* now()
  family,    \* external: the family that WHMCS is of
  changed,   \* external: when it was upgraded; the last instant and one if it was not
  failed,    \* external: when a stage last gave no version; the same when none did
  cached,    \* the profile that is cached and when it expires
  probe      \* per caller: the stage of its probe (0: none), when the call began, the
             \* family that WHMCS served to it, what it answered at last and when

profileVars == <<instant, family, changed, failed, cached, probe>>

NoInstant == MaxInstant + 1

NoProbe == [step |-> 0, began |-> 0, served |-> "none", said |-> "none", at |-> 0]

\* Variant with a defect: an entry lives from the end of its probe.
ExpiryFromEnd(began) == instant + ProfileTtl

\* When the entry of a probe expires.
Expiry(began) == began + ProfileTtl

Store(p, what) ==
  /\ cached' = [family |-> what, expires |-> Expiry(probe[p].began)]
  /\ probe' = [probe EXCEPT ![p] = [@ EXCEPT !.step = 0, !.served = "none",
                                             !.said = what, !.at = instant]]

Fresh == instant < cached.expires

AskFamily(p) ==
  /\ probe[p].step = 0
  /\ IF Fresh
     THEN probe' = [probe EXCEPT ![p] = [NoProbe EXCEPT !.began = instant, !.at = instant,
                                                      !.said = cached.family]]
     ELSE probe' = [probe EXCEPT ![p] = [NoProbe EXCEPT !.step = 1, !.began = instant]]
  /\ UNCHANGED <<instant, family, changed, failed, cached>>

\* WHMCS serves the read of the caller's stage; the answer is on its way.
Serve(p) ==
  /\ probe[p].step > 0 /\ probe[p].served = "none"
  /\ probe' = [probe EXCEPT ![p].served = family]
  /\ UNCHANGED <<instant, family, changed, failed, cached>>

VersionArrives(p) ==
  /\ probe[p].served # "none"
  /\ Store(p, probe[p].served)
  /\ UNCHANGED <<instant, family, changed, failed>>

\* The stage is denied, fails, or its answer has no version in it.
NoVersion(p) ==
  /\ probe[p].step > 0
  /\ IF probe[p].step < Len(Stages)
     THEN /\ probe' = [probe EXCEPT ![p].step = @ + 1, ![p].served = "none"]
          /\ UNCHANGED cached
     ELSE Store(p, "unknown")
  /\ failed' = instant
  /\ UNCHANGED <<instant, family, changed>>

\* The stage's read is answered with what WHMCS served before its upgrade.
Share(p) ==
  /\ probe[p].step \in SharedStages /\ probe[p].served = "none"
  /\ family = Releases[2] /\ instant <= changed + StageLag
  /\ probe' = [probe EXCEPT ![p].served = Releases[1]]
  /\ UNCHANGED <<instant, family, changed, failed, cached>>

Upgrade ==
  /\ family = Releases[1]
  /\ family' = Releases[2]
  /\ changed' = instant
  /\ UNCHANGED <<instant, failed, cached, probe>>

Pass ==
  /\ instant < MaxInstant
  /\ instant' = instant + 1
  /\ UNCHANGED <<family, changed, failed, cached, probe>>

ProfileInit ==
  /\ instant = 0
  /\ family = Releases[1]
  /\ changed = NoInstant
  /\ failed = NoInstant
  /\ cached = [family |-> "none", expires |-> 0]
  /\ probe = [p \in Callers |-> NoProbe]

ProfileNext ==
  \/ \E p \in Callers : AskFamily(p) \/ Serve(p) \/ Share(p) \/ VersionArrives(p) \/ NoVersion(p)
  \/ Upgrade
  \/ Pass

ProfileSpec == ProfileInit /\ [][ProfileNext]_profileVars

Age == IF SharedStages = {} THEN 0 ELSE StageLag

(* The family that a call answers was WHMCS's after the call began or less *)
(* than one lifetime before it answered, however long the probe behind it  *)
(* took; where a stage's reads are shared, a shared answer's greatest age  *)
(* is added.  "unknown" means that some read gave no version in that time. *)
FamilyCurrent ==
  \A p \in Callers :
    LET call == probe[p]
        Recent(when) == when >= call.began \/ when + ProfileTtl > call.at
    IN /\ call.said = Releases[1] => Recent(changed + Age)
       /\ call.said = Releases[2] => changed <= call.at
       /\ call.said = "unknown" => failed # NoInstant /\ Recent(failed)
=============================================================================
