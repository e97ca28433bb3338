----------------------------- MODULE ToolProofs -----------------------------
(***************************************************************************)
(* Proofs about the tools and what stands around them, for every value of  *)
(* the constants: the event receiver, the rate limiter of the legacy       *)
(* tools, the cached version profile, the consumer registry, the amounts   *)
(* that the caps judge, the plans that are drafted and what the legacy     *)
(* tools settle.                                                           *)
(***************************************************************************)
EXTENDS LegacyTools, EventReceiver, VersionProfile, Governance, IntentParams, Planning,
        FiniteSetTheorems, SumTheorems, WellFoundedInduction, TLAPS

-----------------------------------------------------------------------------
(* The event receiver.                                                     *)

EventTypes ==
  /\ time \in Nat \ {0} /\ swept \in Nat /\ swept <= time
  /\ seen \in [Events -> Nat] /\ accepted \in [Events -> Nat]
  /\ forwarding \subseteq Events
  /\ notified \in [Events -> Nat]
  /\ verdict \in [dup : BOOLEAN, again : BOOLEAN, age : Nat]
  /\ \A e \in Events : accepted[e] <= time

(* What the map holds is when its event was accepted, the last sweep left  *)
(* nothing in it that was older than the window then, and what it no       *)
(* longer holds is older than the window by now.                           *)
EventInv ==
  Window > 0 => \A e \in Events :
    /\ seen[e] # 0 => seen[e] = accepted[e] /\ seen[e] >= swept - Window
    /\ seen[e] = 0 /\ accepted[e] # 0 => time - accepted[e] > Window

LEMMA DeliverKept ==
  ASSUME EventTypes, EventInv, RepeatsJudged, NEW e \in Events, Deliver(e)
  PROVE  EventTypes' /\ EventInv' /\ RepeatsJudged'
<1> DEFINE left == SeenAfterSweep
           dup == Window > 0 /\ left[e] # 0
<1>1. /\ Window \in Nat /\ time \in Nat \ {0} /\ swept \in Nat /\ swept <= time
      /\ seen \in [Events -> Nat] /\ accepted \in [Events -> Nat]
  BY EventAssumption DEF EventAssumption, EventTypes
<1>2. /\ left \in [Events -> Nat]
      /\ \A d \in Events : left[d] = IF Sweeps /\ Expired(seen[d]) THEN 0 ELSE seen[d]
  BY <1>1 DEF SeenAfterSweep
<1>3. /\ swept' = (IF Window > 0 /\ Sweeps THEN time ELSE swept)
      /\ seen' = (IF dup \/ Window = 0 THEN left ELSE [left EXCEPT ![e] = time])
      /\ verdict' = [dup |-> dup, again |-> accepted[e] # 0, age |-> time - accepted[e]]
      /\ forwarding' = (IF dup THEN forwarding ELSE forwarding \cup {e})
      /\ accepted' = (IF dup THEN accepted ELSE [accepted EXCEPT ![e] = time])
      /\ time' = time /\ notified' = notified
  BY DEF Deliver
<1> HIDE DEF left
<1>4. Window > 0 => \A d \in Events :
        /\ accepted[d] <= time
        /\ left[d] # 0 =>
             /\ left[d] = accepted[d] /\ left[d] >= swept' - Window
             /\ 2 * (time - accepted[d]) < 3 * Window
        /\ left[d] = 0 /\ accepted[d] # 0 => time - accepted[d] > Window
  <2> SUFFICES ASSUME Window > 0, NEW d \in Events
               PROVE  /\ accepted[d] <= time
                      /\ left[d] # 0 =>
                           /\ left[d] = accepted[d] /\ left[d] >= swept' - Window
                           /\ 2 * (time - accepted[d]) < 3 * Window
                      /\ left[d] = 0 /\ accepted[d] # 0 => time - accepted[d] > Window
    OBVIOUS
  <2>1. /\ seen[d] \in Nat /\ accepted[d] \in Nat
        /\ accepted[d] <= time
        /\ seen[d] # 0 => seen[d] = accepted[d] /\ seen[d] >= swept - Window
        /\ seen[d] = 0 /\ accepted[d] # 0 => time - accepted[d] > Window
    BY <1>1 DEF EventInv, EventTypes
  <2> QED
    BY <1>1, <1>2, <1>3, <2>1 DEF Sweeps, Expired
<1>5. EventTypes'
  <2>1. time - accepted[e] \in Nat
    BY <1>1 DEF EventTypes
  <2>2. \A d \in Events : accepted'[d] <= time
    BY <1>1, <1>3 DEF EventTypes
  <2> QED
    BY <1>1, <1>2, <1>3, <2>1, <2>2 DEF EventTypes
<1>6. EventInv'
  BY <1>1, <1>2, <1>3, <1>4 DEF EventInv
<1>7. RepeatsJudged'
  BY <1>1, <1>2, <1>3, <1>4 DEF RepeatsJudged
<1> QED
  BY <1>5, <1>6, <1>7

(* Whatever of other events triggers the sweep, and whenever the process   *)
(* restarts: an event is accepted again only when it is older than the     *)
(* window, and dropped only within one and a half windows.                 *)
THEOREM RepeatsAreJudged == EventSpec => []RepeatsJudged
<1> DEFINE Inv == EventTypes /\ EventInv /\ RepeatsJudged
<1>1. EventInit => Inv
  BY DEF EventInit, EventTypes, EventInv, RepeatsJudged, Nobody
<1>2. Inv /\ [EventNext]_eventVars => Inv'
  <2> SUFFICES ASSUME Inv, [EventNext]_eventVars
               PROVE  Inv'
    OBVIOUS
  <2>1. ASSUME NEW e \in Events, Deliver(e) PROVE Inv'
    BY <2>1, DeliverKept
  <2>2. ASSUME NEW e \in Events, ForwardEnds(e) PROVE Inv'
    BY <2>2 DEF ForwardEnds, EventTypes, EventInv, RepeatsJudged
  <2>3. ASSUME Restart PROVE Inv'
    BY <2>3, EventAssumption
      DEF Restart, EventTypes, EventInv, RepeatsJudged, Nobody, EventAssumption
  <2>4. ASSUME EventTick PROVE Inv'
    BY <2>4, EventAssumption
      DEF EventTick, EventTypes, EventInv, RepeatsJudged, Nobody, EventAssumption
  <2>5. ASSUME UNCHANGED eventVars PROVE Inv'
    BY <2>5 DEF eventVars, EventTypes, EventInv, RepeatsJudged
  <2> QED
    BY <2>1, <2>2, <2>3, <2>4, <2>5 DEF EventNext
<1>3. Inv => RepeatsJudged
  OBVIOUS
<1> QED
  BY <1>1, <1>2, <1>3, PTL DEF EventSpec

-----------------------------------------------------------------------------
(* The rate limiter.                                                       *)

LEMMA MaxOfPair ==
  ASSUME NEW a \in Nat, NEW b \in Nat
  PROVE  Max({a, b}) \in Nat /\ Max({a, b}) >= a /\ Max({a, b}) >= b
<1>1. \E x \in {a, b} : \A y \in {a, b} : x >= y
  BY a >= b \/ b >= a
<1> QED
  BY <1>1 DEF Max

LEMMA MinOfPair ==
  ASSUME NEW a \in Int, NEW b \in Int
  PROVE  Min({a, b}) \in Int /\ Min({a, b}) <= a /\ Min({a, b}) <= b
<1>1. \E x \in {a, b} : \A y \in {a, b} : x <= y
  BY a <= b \/ b <= a
<1> QED
  BY <1>1 DEF Min

(* Since the last refill no more was given out and is left than the bucket *)
(* held and every second since the start could add: a clock that steps     *)
(* back takes from both sides.                                             *)
LimiterInv ==
  /\ tokens \in Int /\ refilled \in Nat /\ admitted \in Nat
  /\ seconds \in Nat /\ newest \in Nat /\ seconds <= newest
  /\ admitted + tokens <= Rate * (refilled + 1)

LEMMA ProductsKept ==
  ASSUME NEW r \in Nat, NEW a \in Nat, NEW b \in Nat
  PROVE  /\ r * (b - a) \in Int /\ r * (a + 1) \in Int /\ r * (b + 1) \in Int
         /\ r * (a + 1) + r * (b - a) = r * (b + 1)
         /\ a <= b => r * (a + 1) <= r * (b + 1)
  OBVIOUS

LEMMA RefillBounded ==
  ASSUME LimiterInv
  PROVE  Refill \in Int /\ admitted + Refill <= Rate * (seconds + 1)
<1>1. /\ Rate \in Nat /\ tokens \in Int /\ seconds \in Nat /\ refilled \in Nat
      /\ admitted \in Nat
  BY LegacyAssumption DEF LegacyAssumption, LimiterInv
<1> DEFINE gained == Rate * (seconds - refilled)
<1>2. /\ gained \in Int /\ Rate * (refilled + 1) \in Int /\ Rate * (seconds + 1) \in Int
      /\ Rate * (refilled + 1) + gained = Rate * (seconds + 1)
  BY <1>1, ProductsKept
<1>3. Refill = Min({Rate, tokens + gained})
  BY DEF Refill
<1>4. admitted + tokens <= Rate * (refilled + 1)
  BY DEF LimiterInv
<1> HIDE DEF gained
<1>5. /\ tokens + gained \in Int /\ Rate \in Int
  BY <1>1, <1>2
<1>6. Refill \in Int /\ Refill <= tokens + gained
  BY <1>3, <1>5, MinOfPair
<1> QED
  BY <1>1, <1>2, <1>4, <1>6

LEMMA LimiterKept ==
  ASSUME LimiterInv, AdmittedBounded, UNCHANGED clockVars, TryConsume \/ Limited
  PROVE  LimiterInv' /\ AdmittedBounded'
<1>1. /\ Rate \in Nat /\ seconds \in Nat /\ newest \in Nat /\ seconds <= newest
      /\ admitted \in Nat
  BY LegacyAssumption DEF LegacyAssumption, LimiterInv
<1>2. Refill \in Int /\ admitted + Refill <= Rate * (seconds + 1)
  BY RefillBounded
<1>3. /\ Rate * (seconds + 1) \in Int /\ Rate * (newest + 1) \in Int
      /\ Rate * (seconds + 1) <= Rate * (newest + 1)
  BY <1>1, ProductsKept
<1>4. seconds' = seconds /\ newest' = newest /\ refilled' = seconds
  BY DEF clockVars, TryConsume, Limited
<1>5. CASE TryConsume
  <2>1. Refill >= 1 /\ tokens' = Refill - 1 /\ admitted' = admitted + 1
    BY <1>5 DEF TryConsume, Admits
  <2> QED
    BY <1>1, <1>2, <1>3, <1>4, <2>1 DEF LimiterInv, AdmittedBounded
<1>6. CASE Limited
  <2>1. tokens' = Refill /\ admitted' = admitted
    BY <1>6 DEF Limited
  <2> QED
    BY <1>1, <1>2, <1>3, <1>4, <2>1 DEF LimiterInv, AdmittedBounded
<1> QED
  BY <1>5, <1>6

(* However the clock jumps, the calls that had their token are no more than*)
(* the bucket held and the time that really passed can refill.             *)
THEOREM AdmissionBounded == LegacySpec => []AdmittedBounded
<1> DEFINE Inv == LimiterInv /\ AdmittedBounded
<1>1. LegacyInit => Inv
  BY LegacyAssumption DEF LegacyInit, LimiterInv, AdmittedBounded, LegacyAssumption
<1>2. Inv /\ [LegacyNext]_legacyVars => Inv'
  <2> SUFFICES ASSUME Inv, [LegacyNext]_legacyVars
               PROVE  Inv'
    OBVIOUS
  <2>1. ASSUME NEW c \in ToolCalls, NEW q \in Asks, CallTool(c, q) PROVE Inv'
    BY <2>1, LimiterKept DEF CallTool
  <2>2. ASSUME UNCHANGED limiterVars, UNCHANGED clockVars PROVE Inv'
    BY <2>2 DEF limiterVars, clockVars, LimiterInv, AdmittedBounded
  <2>3. ASSUME NEW c \in ToolCalls,
               Whmcs(c) \/ Declined(c) \/ AnswerReceived(c) \/ AnswerLost(c)
        PROVE  Inv'
    BY <2>2, <2>3 DEF Whmcs, Declined, AnswerReceived, AnswerLost
  <2>4. ASSUME CleanupCache PROVE Inv'
    BY <2>2, <2>4 DEF CleanupCache
  <2>5. ASSUME ClockTicks PROVE Inv'
    <3>1. /\ seconds \in Nat /\ newest \in Nat /\ seconds + 1 \in Nat /\ Rate \in Nat
          /\ seconds' = seconds + 1 /\ newest' = Max({newest, seconds + 1})
      BY <2>5, LegacyAssumption DEF ClockTicks, LimiterInv, LegacyAssumption
    <3>2. newest' \in Nat /\ newest' >= newest /\ newest' >= seconds'
      BY <3>1, MaxOfPair
    <3>3. /\ Rate * (newest + 1) \in Int /\ Rate * (newest' + 1) \in Int
          /\ Rate * (newest + 1) <= Rate * (newest' + 1)
      BY <3>1, <3>2, ProductsKept
    <3>4. tokens' = tokens /\ refilled' = refilled /\ admitted' = admitted
      BY <2>5 DEF ClockTicks, limiterVars
    <3> QED
      BY <3>1, <3>2, <3>3, <3>4 DEF LimiterInv, AdmittedBounded
  <2>6. ASSUME ClockStepsBack PROVE Inv'
    BY <2>6 DEF ClockStepsBack, limiterVars, LimiterInv, AdmittedBounded
  <2>7. ASSUME UNCHANGED legacyVars PROVE Inv'
    BY <2>2, <2>7 DEF legacyVars
  <2> QED
    BY <2>1, <2>3, <2>4, <2>5, <2>6, <2>7 DEF LegacyNext
<1>3. Inv => AdmittedBounded
  OBVIOUS
<1> QED
  BY <1>1, <1>2, <1>3, PTL DEF LegacySpec

-----------------------------------------------------------------------------
(* The cached version profile.                                             *)

FamilySet == {Releases[1], Releases[2]}

ProbeSet ==
  [step : 0..3, began : Nat, served : FamilySet \cup {"none"},
   said : FamilySet \cup {"none", "unknown"}, at : Nat]

ProfileTypes ==
  /\ instant \in 0..MaxInstant
  /\ family \in FamilySet
  /\ changed \in 0..NoInstant /\ failed \in 0..NoInstant
  /\ cached \in [family : FamilySet \cup {"none", "unknown"}, expires : Nat]
  /\ probe \in [Callers -> ProbeSet]

(* WHMCS is of its first family until it is upgraded.                      *)
UpgradeInv ==
  /\ family = Releases[1] <=> changed = NoInstant
  /\ changed # NoInstant => changed <= instant
  /\ failed # NoInstant => failed <= instant

(* An entry expires one lifetime after its call began, and what it says    *)
(* was so after that, or no longer before it than a shared answer is old.  *)
EntryInv ==
  /\ cached.expires <= instant + ProfileTtl
  /\ cached.family = Releases[1] => changed + Age + ProfileTtl >= cached.expires
  /\ cached.family = Releases[2] => changed # NoInstant
  /\ cached.family = "unknown" => failed # NoInstant /\ failed + ProfileTtl >= cached.expires

(* What a probe was served was so after its call began, or no longer       *)
(* before that than a shared answer is old.                                *)
ProbeInv ==
  \A p \in Callers :
    /\ probe[p].began <= instant /\ probe[p].at <= instant
    /\ probe[p].served = Releases[1] => changed + Age >= probe[p].began
    /\ probe[p].served = Releases[2] => changed # NoInstant

ProfileInv == ProfileTypes /\ UpgradeInv /\ EntryInv /\ ProbeInv /\ FamilyCurrent

LEMMA ReleasesApart ==
  /\ Releases[1] # Releases[2]
  /\ Releases[1] # "none" /\ Releases[1] # "unknown"
  /\ Releases[2] # "none" /\ Releases[2] # "unknown"
  BY ReleasesDiffer

LEMMA AgeIsNatural == Age \in Nat
  BY ProfileTimes DEF Age

LEMMA NoProbeTyped ==
  /\ NoProbe \in ProbeSet
  /\ NoProbe.served = "none" /\ NoProbe.said = "none" /\ NoProbe.at = 0
  BY DEF NoProbe, ProbeSet

LEMMA AskKept ==
  ASSUME ProfileInv, NEW p \in Callers, AskFamily(p)
  PROVE  ProfileInv'
<1>1. /\ instant \in 0..MaxInstant /\ MaxInstant \in Nat /\ ProfileTtl \in Nat
      /\ probe \in [Callers -> ProbeSet]
      /\ cached \in [family : FamilySet \cup {"none", "unknown"}, expires : Nat]
      /\ changed \in 0..NoInstant /\ failed \in 0..NoInstant
  BY ProfileTimes DEF ProfileInv, ProfileTypes
<1>2. /\ instant' = instant /\ family' = family /\ changed' = changed /\ failed' = failed
      /\ cached' = cached
  BY DEF AskFamily
<1>3. CASE Fresh
  <2> DEFINE a == [NoProbe EXCEPT !.began = instant, !.at = instant, !.said = cached.family]
  <2>1. probe' = [probe EXCEPT ![p] = a] /\ instant < cached.expires
    BY <1>3 DEF AskFamily, Fresh
  <2>2. /\ a \in ProbeSet /\ a.began = instant /\ a.at = instant /\ a.said = cached.family
        /\ a.served = "none"
    <3> DEFINE none == NoProbe
               n == instant
               w == cached.family
    <3>1. /\ none \in ProbeSet /\ none.served = "none"
          /\ n \in Nat /\ w \in FamilySet \cup {"none", "unknown"}
      BY <1>1, NoProbeTyped
    <3> HIDE DEF none, n, w
    <3>2. a = [none EXCEPT !.began = n, !.at = n, !.said = w]
      BY DEF none, n, w
    <3>3. /\ a \in ProbeSet /\ a.began = n /\ a.at = n /\ a.said = w /\ a.served = "none"
      BY <3>1, <3>2 DEF ProbeSet
    <3> QED
      BY <3>3 DEF n, w
  <2> HIDE DEF a
  <2>3. ProfileTypes' /\ UpgradeInv' /\ EntryInv'
    BY <1>1, <1>2, <2>1, <2>2 DEF ProfileInv, ProfileTypes, UpgradeInv, EntryInv, NoInstant
  <2>4. ProbeInv'
    BY <1>1, <1>2, <2>1, <2>2, ReleasesApart, AgeIsNatural DEF ProfileInv, ProbeInv
  <2>5. FamilyCurrent'
    BY <1>1, <1>2, <2>1, <2>2, ReleasesApart, AgeIsNatural
      DEF ProfileInv, UpgradeInv, EntryInv, FamilyCurrent, NoInstant
  <2> QED
    BY <2>3, <2>4, <2>5 DEF ProfileInv
<1>4. CASE ~Fresh
  <2> DEFINE a == [NoProbe EXCEPT !.step = 1, !.began = instant]
  <2>1. probe' = [probe EXCEPT ![p] = a]
    BY <1>4 DEF AskFamily
  <2>2. /\ a \in ProbeSet /\ a.began = instant /\ a.at = 0 /\ a.said = "none"
        /\ a.served = "none"
    <3> DEFINE none == NoProbe
               n == instant
               first == 1
    <3>1. /\ none \in ProbeSet /\ n \in Nat /\ first \in 0..3
          /\ none.served = "none" /\ none.said = "none" /\ none.at = 0
      BY <1>1, NoProbeTyped
    <3> HIDE DEF none, n, first
    <3>2. a = [none EXCEPT !.step = first, !.began = n]
      BY DEF none, n, first
    <3>3. /\ a \in ProbeSet /\ a.began = n /\ a.at = 0 /\ a.said = "none"
          /\ a.served = "none"
      BY <3>1, <3>2 DEF ProbeSet
    <3> QED
      BY <3>3 DEF n
  <2> HIDE DEF a
  <2>3. ProfileTypes' /\ UpgradeInv' /\ EntryInv'
    BY <1>1, <1>2, <2>1, <2>2 DEF ProfileInv, ProfileTypes, UpgradeInv, EntryInv, NoInstant
  <2>4. ProbeInv'
    BY <1>1, <1>2, <2>1, <2>2, ReleasesApart, AgeIsNatural DEF ProfileInv, ProbeInv
  <2>5. FamilyCurrent'
    BY <1>1, <1>2, <2>1, <2>2, ReleasesApart, AgeIsNatural DEF ProfileInv, FamilyCurrent
  <2> QED
    BY <2>3, <2>4, <2>5 DEF ProfileInv
<1> QED
  BY <1>3, <1>4

LEMMA StoreKept ==
  ASSUME ProfileInv, NEW p \in Callers, NEW what \in FamilySet \cup {"unknown"},
         Store(p, what), UNCHANGED <<instant, family, changed>>,
         failed' \in {failed, instant},
         what = "unknown" => failed' = instant,
         what # "unknown" => what = probe[p].served
  PROVE  ProfileInv'
<1> DEFINE a == [probe[p] EXCEPT !.step = 0, !.served = "none", !.said = what, !.at = instant]
           e == [family |-> what, expires |-> Expiry(probe[p].began)]
<1>1. /\ instant \in 0..MaxInstant /\ MaxInstant \in Nat /\ ProfileTtl \in Nat
      /\ probe \in [Callers -> ProbeSet] /\ probe[p] \in ProbeSet
      /\ changed \in 0..NoInstant /\ failed \in 0..NoInstant
  BY ProfileTimes DEF ProfileInv, ProfileTypes
<1>2. probe' = [probe EXCEPT ![p] = a] /\ cached' = e
  BY DEF Store
<1>3. /\ a \in ProbeSet /\ a.began = probe[p].began /\ a.at = instant /\ a.said = what
      /\ a.served = "none"
  <2> DEFINE b == probe[p]
             n == instant
             idle == 0
             unserved == "none"
  <2>1. /\ b \in ProbeSet /\ n \in Nat /\ idle \in 0..3
        /\ unserved \in FamilySet \cup {"none"} /\ what \in FamilySet \cup {"none", "unknown"}
    BY <1>1
  <2> HIDE DEF b, n, idle, unserved
  <2>2. a = [b EXCEPT !.step = idle, !.served = unserved, !.said = what, !.at = n]
    BY DEF b, n, idle, unserved
  <2>3. a \in ProbeSet /\ a.began = b.began /\ a.at = n /\ a.said = what /\ a.served = unserved
    BY <2>1, <2>2 DEF ProbeSet
  <2> QED
    BY <2>3 DEF b, n, unserved
<1>4. e.family = what /\ e.expires = probe[p].began + ProfileTtl
  BY DEF Expiry
<1>5. e \in [family : FamilySet \cup {"none", "unknown"}, expires : Nat]
  BY <1>1 DEF Expiry, ProbeSet
<1> HIDE DEF a, e
<1>6. /\ failed' \in 0..NoInstant /\ failed' # NoInstant => failed' <= instant
      /\ failed # NoInstant => failed' # NoInstant /\ failed' >= failed
  BY <1>1 DEF ProfileInv, UpgradeInv, NoInstant
<1>7. /\ probe[p].began \in Nat /\ probe[p].began <= instant
      /\ probe[p].served \in FamilySet \cup {"none"}
      /\ what = Releases[1] => changed + Age >= probe[p].began
      /\ what = Releases[2] => changed # NoInstant
      /\ what = "unknown" => failed' = instant /\ instant # NoInstant
  BY <1>1, ReleasesApart, AgeIsNatural DEF ProfileInv, ProbeInv, ProbeSet, NoInstant
<1>8. ProfileTypes' /\ UpgradeInv'
  BY <1>1, <1>2, <1>3, <1>5, <1>6 DEF ProfileInv, ProfileTypes, UpgradeInv, NoInstant
<1>9. EntryInv'
  BY <1>1, <1>2, <1>4, <1>7, ReleasesApart, AgeIsNatural DEF EntryInv, NoInstant
<1>10. ProbeInv'
  BY <1>1, <1>2, <1>3, <1>7, ReleasesApart, AgeIsNatural DEF ProfileInv, ProbeInv, NoInstant
<1>11. FamilyCurrent'
  <2> SUFFICES ASSUME NEW q \in Callers
               PROVE  LET asked == probe'[q]
                          Recent(when) == when >= asked.began \/ when + ProfileTtl > asked.at
                      IN /\ asked.said = Releases[1] => Recent(changed + Age)
                         /\ asked.said = Releases[2] => changed <= asked.at
                         /\ asked.said = "unknown" => failed' # NoInstant /\ Recent(failed')
    BY DEF FamilyCurrent, NoInstant
  <2>1. CASE q = p
    <3>1. probe'[q] = a
      BY <1>1, <1>2, <2>1
    <3> QED
      BY <1>1, <1>3, <1>6, <1>7, <3>1, ReleasesApart, AgeIsNatural DEF ProfileInv, UpgradeInv, NoInstant
  <2>2. CASE q # p
    <3>1. probe'[q] = probe[q] /\ probe[q] \in ProbeSet
      BY <1>1, <1>2, <2>2
    <3> QED
      BY <1>1, <1>6, <3>1, ReleasesApart, AgeIsNatural
        DEF ProfileInv, FamilyCurrent, NoInstant, ProbeSet
  <2> QED
    BY <2>1, <2>2
<1> QED
  BY <1>8, <1>9, <1>10, <1>11 DEF ProfileInv

LEMMA ServeKept ==
  ASSUME ProfileInv, NEW p \in Callers, Serve(p)
  PROVE  ProfileInv'
<1> DEFINE b == probe[p]
           a == [b EXCEPT !.served = family]
<1>1. /\ instant \in 0..MaxInstant /\ MaxInstant \in Nat /\ b \in ProbeSet
      /\ family \in FamilySet /\ changed \in 0..NoInstant
      /\ probe \in [Callers -> ProbeSet]
  BY ProfileTimes DEF ProfileInv, ProfileTypes
<1>2. /\ probe' = [probe EXCEPT ![p] = a]
      /\ instant' = instant /\ family' = family /\ changed' = changed /\ failed' = failed
      /\ cached' = cached
  BY DEF Serve
<1>3. /\ a \in ProbeSet /\ a.began = b.began /\ a.at = b.at /\ a.said = b.said
      /\ a.served = family
  <2> HIDE DEF b
  <2> QED
    BY <1>1 DEF ProbeSet
<1> HIDE DEF a
<1>4. ProfileTypes' /\ UpgradeInv' /\ EntryInv'
  BY <1>1, <1>2, <1>3 DEF ProfileInv, ProfileTypes, UpgradeInv, EntryInv, NoInstant
<1>5. /\ b.began \in 0..instant
      /\ family = Releases[1] => changed + Age >= b.began
      /\ family = Releases[2] => changed # NoInstant
  BY <1>1, ReleasesApart, AgeIsNatural DEF ProfileInv, ProbeInv, UpgradeInv, NoInstant, ProbeSet
<1>6. ProbeInv'
  BY <1>1, <1>2, <1>3, <1>5, AgeIsNatural DEF ProfileInv, ProbeInv, NoInstant
<1>7. FamilyCurrent'
  BY <1>1, <1>2, <1>3 DEF ProfileInv, FamilyCurrent, NoInstant
<1> QED
  BY <1>4, <1>6, <1>7 DEF ProfileInv

LEMMA ShareKept ==
  ASSUME ProfileInv, NEW p \in Callers, Share(p)
  PROVE  ProfileInv'
<1> DEFINE b == probe[p]
           older == Releases[1]
           a == [b EXCEPT !.served = older]
<1>1. /\ instant \in 0..MaxInstant /\ MaxInstant \in Nat /\ b \in ProbeSet
      /\ older \in FamilySet /\ changed \in 0..NoInstant
      /\ probe \in [Callers -> ProbeSet]
  BY ProfileTimes DEF ProfileInv, ProfileTypes, FamilySet
<1>2. /\ probe' = [probe EXCEPT ![p] = a]
      /\ instant' = instant /\ family' = family /\ changed' = changed /\ failed' = failed
      /\ cached' = cached
  BY DEF Share
<1>3. /\ a \in ProbeSet /\ a.began = b.began /\ a.at = b.at /\ a.said = b.said
      /\ a.served = older
  <2> HIDE DEF b, older
  <2> QED
    BY <1>1 DEF ProbeSet
<1>4. changed + Age >= b.began /\ older # Releases[2]
  <2>1. Age = StageLag /\ instant <= changed + StageLag
    BY DEF Share, Age
  <2>2. b.began \in Nat /\ b.began <= instant
    BY <1>1 DEF ProfileInv, ProbeInv, ProbeSet
  <2> QED
    BY <1>1, <2>1, <2>2, ReleasesApart, ProfileTimes DEF NoInstant
<1> HIDE DEF a, b
<1>5. ProfileTypes' /\ UpgradeInv' /\ EntryInv'
  BY <1>1, <1>2, <1>3 DEF ProfileInv, ProfileTypes, UpgradeInv, EntryInv, NoInstant
<1>6. b.began <= instant /\ b.at <= instant
  BY DEF b, ProfileInv, ProbeInv
<1> HIDE DEF older
<1>7. ProbeInv'
  BY <1>1, <1>2, <1>3, <1>4, <1>6, AgeIsNatural DEF ProfileInv, ProbeInv, NoInstant
<1>8. FamilyCurrent'
  BY <1>1, <1>2, <1>3 DEF b, ProfileInv, FamilyCurrent, NoInstant
<1> QED
  BY <1>5, <1>7, <1>8 DEF ProfileInv

LEMMA StageKept ==
  ASSUME ProfileInv, NEW p \in Callers, NoVersion(p), probe[p].step < Len(Stages)
  PROVE  ProfileInv'
<1> DEFINE b == probe[p]
           n == b.step + 1
           unserved == "none"
           a == [b EXCEPT !.step = n, !.served = unserved]
<1>1. /\ instant \in 0..MaxInstant /\ MaxInstant \in Nat /\ ProfileTtl \in Nat
      /\ b \in ProbeSet
      /\ changed \in 0..NoInstant /\ failed \in 0..NoInstant
      /\ probe \in [Callers -> ProbeSet]
  BY ProfileTimes DEF ProfileInv, ProfileTypes
<1>2. n \in 0..3 /\ unserved \in FamilySet \cup {"none"}
  BY <1>1 DEF ProbeSet, Stages
<1>3. /\ probe' = [probe EXCEPT ![p] = a]
      /\ instant' = instant /\ family' = family /\ changed' = changed /\ failed' = instant
      /\ cached' = cached
  <2>1. probe' = [probe EXCEPT ![p].step = @ + 1, ![p].served = "none"]
    BY DEF NoVersion
  <2> QED
    BY <1>1, <2>1 DEF NoVersion
<1>4. /\ a \in ProbeSet /\ a.began = b.began /\ a.at = b.at /\ a.said = b.said
      /\ a.served = unserved
  <2> HIDE DEF b, n, unserved
  <2> QED
    BY <1>1, <1>2 DEF ProbeSet
<1> HIDE DEF a
<1>5. failed # NoInstant => failed' >= failed
  BY <1>1, <1>3 DEF ProfileInv, UpgradeInv
<1>6. ProfileTypes' /\ UpgradeInv' /\ EntryInv'
  BY <1>1, <1>3, <1>4, <1>5 DEF ProfileInv, ProfileTypes, UpgradeInv, EntryInv, NoInstant
<1>7. ProbeInv'
  BY <1>1, <1>3, <1>4, ReleasesApart, AgeIsNatural DEF ProfileInv, ProbeInv, NoInstant
<1>8. FamilyCurrent'
  <2> SUFFICES ASSUME NEW q \in Callers
               PROVE  LET asked == probe'[q]
                          Recent(when) == when >= asked.began \/ when + ProfileTtl > asked.at
                      IN /\ asked.said = Releases[1] => Recent(changed + Age)
                         /\ asked.said = Releases[2] => changed <= asked.at
                         /\ asked.said = "unknown" => failed' # NoInstant /\ Recent(failed')
    BY <1>3 DEF FamilyCurrent, NoInstant
  <2>1. /\ probe'[q].began = probe[q].began /\ probe'[q].at = probe[q].at
        /\ probe'[q].said = probe[q].said /\ probe[q] \in ProbeSet
    BY <1>1, <1>3, <1>4
  <2> QED
    BY <1>1, <1>3, <1>5, <2>1, ReleasesApart, AgeIsNatural DEF ProfileInv, FamilyCurrent, NoInstant, ProbeSet
<1> QED
  BY <1>6, <1>7, <1>8 DEF ProfileInv

LEMMA UpgradeKept ==
  ASSUME ProfileInv, Upgrade
  PROVE  ProfileInv'
<1>1. /\ instant \in 0..MaxInstant /\ MaxInstant \in Nat /\ ProfileTtl \in Nat
      /\ probe \in [Callers -> ProbeSet] /\ cached.expires \in Nat
      /\ failed \in 0..NoInstant
  BY ProfileTimes DEF ProfileInv, ProfileTypes
<1>2. /\ family = Releases[1] /\ family' = Releases[2] /\ changed' = instant
      /\ changed = NoInstant
      /\ instant' = instant /\ failed' = failed /\ cached' = cached /\ probe' = probe
  BY DEF Upgrade, ProfileInv, UpgradeInv
<1>3. ProfileTypes' /\ UpgradeInv'
  BY <1>1, <1>2, ReleasesApart, AgeIsNatural DEF ProfileInv, ProfileTypes, UpgradeInv, FamilySet, NoInstant
<1>4. EntryInv'
  BY <1>1, <1>2, AgeIsNatural DEF ProfileInv, EntryInv, NoInstant
<1>5. ProbeInv'
  <2>1. \A q \in Callers : probe[q].began \in Nat /\ probe[q].began <= instant
    BY <1>1 DEF ProfileInv, ProbeInv, ProbeSet
  <2> QED
    BY <1>1, <1>2, <2>1, AgeIsNatural DEF ProfileInv, ProbeInv, NoInstant
<1>6. FamilyCurrent'
  <2> SUFFICES ASSUME NEW q \in Callers
               PROVE  LET asked == probe[q]
                          Recent(when) == when >= asked.began \/ when + ProfileTtl > asked.at
                      IN /\ asked.said = Releases[1] => Recent(instant + Age)
                         /\ asked.said = Releases[2] => instant <= asked.at
                         /\ asked.said = "unknown" => failed # NoInstant /\ Recent(failed)
    BY <1>2 DEF FamilyCurrent, NoInstant
  <2>1. /\ probe[q] \in ProbeSet /\ probe[q].began <= instant /\ probe[q].at <= instant
    BY <1>1 DEF ProfileInv, ProbeInv
  <2>2. probe[q].said = Releases[2] => changed <= probe[q].at
    BY DEF ProfileInv, FamilyCurrent
  <2> QED
    BY <1>1, <1>2, <2>1, <2>2, AgeIsNatural DEF ProfileInv, FamilyCurrent, NoInstant, ProbeSet
<1> QED
  BY <1>3, <1>4, <1>5, <1>6 DEF ProfileInv

(* The family that a call answers was WHMCS's after the call began or less *)
(* than one lifetime and the age of a shared answer before it answered,    *)
(* however slow the probes that overlap and whichever of them ends last.   *)
THEOREM FamilyIsCurrent == ProfileSpec => []FamilyCurrent
<1>1. ProfileInit => ProfileInv
  <2> SUFFICES ASSUME ProfileInit
               PROVE  ProfileInv
    OBVIOUS
  <2>1. /\ instant = 0 /\ family = Releases[1] /\ changed = NoInstant /\ failed = NoInstant
        /\ cached = [family |-> "none", expires |-> 0] /\ MaxInstant \in Nat
        /\ ProfileTtl \in Nat /\ \A p \in Callers : probe[p] = NoProbe
        /\ probe \in [Callers -> ProbeSet]
    BY ProfileTimes, NoProbeTyped DEF ProfileInit
  <2>2. ProfileTypes /\ UpgradeInv /\ EntryInv
    BY <2>1, ReleasesApart, AgeIsNatural DEF ProfileTypes, UpgradeInv, EntryInv, FamilySet, NoInstant
  <2>3. ProbeInv /\ FamilyCurrent
    BY <2>1, ReleasesApart, AgeIsNatural DEF ProbeInv, FamilyCurrent, NoProbe
  <2> QED
    BY <2>2, <2>3 DEF ProfileInv
<1>2. ProfileInv /\ [ProfileNext]_profileVars => ProfileInv'
  <2> SUFFICES ASSUME ProfileInv, [ProfileNext]_profileVars
               PROVE  ProfileInv'
    OBVIOUS
  <2>1. ASSUME NEW p \in Callers, AskFamily(p) PROVE ProfileInv'
    BY <2>1, AskKept
  <2>2. ASSUME NEW p \in Callers, Serve(p) PROVE ProfileInv'
    BY <2>2, ServeKept
  <2>8. ASSUME NEW p \in Callers, Share(p) PROVE ProfileInv'
    BY <2>8, ShareKept
  <2>3. ASSUME NEW p \in Callers, VersionArrives(p) PROVE ProfileInv'
    <3> DEFINE what == probe[p].served
    <3>1. /\ Store(p, what) /\ what \in FamilySet \cup {"unknown"} /\ what # "unknown"
          /\ UNCHANGED <<instant, family, changed>> /\ failed' = failed
      BY <2>3, ReleasesApart, AgeIsNatural DEF VersionArrives, ProfileInv, ProfileTypes, ProbeSet, FamilySet
    <3> QED
      BY <3>1, StoreKept
  <2>4. ASSUME NEW p \in Callers, NoVersion(p) PROVE ProfileInv'
    <3>1. CASE probe[p].step < Len(Stages)
      BY <2>4, <3>1, StageKept
    <3>2. CASE ~(probe[p].step < Len(Stages))
      <4>1. /\ Store(p, "unknown") /\ UNCHANGED <<instant, family, changed>>
            /\ failed' = instant
        BY <2>4, <3>2 DEF NoVersion
      <4> QED
        BY <4>1, StoreKept
    <3> QED
      BY <3>1, <3>2
  <2>5. ASSUME Upgrade PROVE ProfileInv'
    BY <2>5, UpgradeKept
  <2>6. ASSUME Pass PROVE ProfileInv'
    <3>1. /\ instant \in 0..MaxInstant /\ MaxInstant \in Nat /\ ProfileTtl \in Nat
          /\ probe \in [Callers -> ProbeSet] /\ instant' = instant + 1
          /\ instant' \in 0..MaxInstant
          /\ changed \in 0..NoInstant /\ failed \in 0..NoInstant /\ cached.expires \in Nat
      BY <2>6, ProfileTimes DEF Pass, ProfileInv, ProfileTypes
    <3>2. /\ family' = family /\ changed' = changed /\ failed' = failed /\ cached' = cached
          /\ probe' = probe
      BY <2>6 DEF Pass
    <3>3. ProfileTypes' /\ UpgradeInv' /\ EntryInv'
      BY <3>1, <3>2, AgeIsNatural DEF ProfileInv, ProfileTypes, UpgradeInv, EntryInv, NoInstant
    <3>4. ProbeInv'
      BY <3>1, <3>2 DEF ProfileInv, ProbeInv, NoInstant, ProbeSet
    <3>5. FamilyCurrent'
      BY <3>2 DEF ProfileInv, FamilyCurrent, NoInstant
    <3> QED
      BY <3>3, <3>4, <3>5 DEF ProfileInv
  <2>7. ASSUME UNCHANGED profileVars PROVE ProfileInv'
    BY <2>7 DEF profileVars, ProfileInv, ProfileTypes, UpgradeInv, EntryInv, ProbeInv,
                FamilyCurrent, NoInstant
  <2> QED
    BY <2>1, <2>2, <2>3, <2>4, <2>5, <2>6, <2>7, <2>8 DEF ProfileNext
<1>3. ProfileInv => FamilyCurrent
  BY DEF ProfileInv
<1> QED
  BY <1>1, <1>2, <1>3, PTL DEF ProfileSpec

-----------------------------------------------------------------------------
(* The consumer registry.                                                  *)

Sources == Versions \cup {deployment.inline : deployment \in Setups}

(* A version that stood in the source at a moment, loads, and is what is   *)
(* held.                                                                   *)
HeldFrom(registry, t, history) ==
  \E version \in history[t] :
    version \in Sources /\ Loads(version) /\ registry = Profiles(version)

GovernanceTypes ==
  /\ setup \in Setups /\ source \in Sources
  /\ moment \in 0..MaxMoment /\ edits \in Nat
  /\ past = [t \in 0..MaxMoment |-> past[t]] /\ source \in past[moment]
  /\ call = [phase |-> call.phase, request |-> call.request, identity |-> call.identity,
             view |-> call.view, at |-> call.at]
  /\ call.at \in 0..moment

RegistryInv ==
  loadedAt = Never \/ (loadedAt \in 0..moment /\ HeldFrom(loaded, loadedAt, past))

(* Over HTTP a call that is being served bears the identity that its token *)
(* had when the process started.                                           *)
IdentityInv ==
  call.phase = "reading" /\ setup.transport = "http"
    => KnownAtStart(call.identity, call.request.token)

(* What toProfile changes of an entry is its write scopes.                 *)
MadeFrom(p, e) ==
  /\ p.id = e.id /\ p.token = e.token /\ p.anonymous = e.anonymous
  /\ p.defaultContract = e.defaultContract /\ p.allowedContracts = e.allowedContracts
  /\ p.allowedActions = e.allowedActions /\ p.envRestrictions = e.envRestrictions
  /\ p.writeCapability = e.writeCapability
  /\ p.scopes = e.scopes \cup (IF e.anonymous THEN {} ELSE setup.extraScopes)

LEMMA ProfileOfEntry ==
  ASSUME NEW version \in Sources, NEW p \in Profiles(version)
  PROVE  \E e \in version.entries : HasSchema(e) /\ MadeFrom(p, e)
<1>1. PICK e \in version.entries :
        p = IF e.anonymous THEN e ELSE [e EXCEPT !.scopes = @ \cup setup.extraScopes]
  BY DEF Profiles
<1>2. HasSchema(e)
  BY EntriesHaveSchema DEF Sources
<1>3. CASE e.anonymous
  BY <1>1, <1>2, <1>3 DEF HasSchema, MadeFrom
<1>4. CASE ~e.anonymous
  <2> DEFINE fields == [id |-> e.id, token |-> e.token, defaultContract |-> e.defaultContract,
          allowedContracts |-> e.allowedContracts, allowedActions |-> e.allowedActions,
          envRestrictions |-> e.envRestrictions, writeCapability |-> e.writeCapability,
          scopes |-> e.scopes, anonymous |-> e.anonymous]
  <2>1. e = fields
    BY <1>2 DEF HasSchema
  <2>2. p = [fields EXCEPT !.scopes = @ \cup setup.extraScopes]
    BY <1>1, <1>4, <2>1
  <2> QED
    BY <1>2, <1>4, <2>2 DEF MadeFrom
<1> QED
  BY <1>3, <1>4

(* No entry of a version carries a token that none of its profiles does.   *)
LEMMA EntryHasProfile ==
  ASSUME NEW version \in Sources, NEW e \in version.entries
  PROVE  \E p \in Profiles(version) : p.token = e.token
<1>1. HasSchema(e)
  BY EntriesHaveSchema DEF Sources
<1>2. CASE e.anonymous
  BY <1>2 DEF Profiles
<1>3. CASE ~e.anonymous
  <2> DEFINE p == [e EXCEPT !.scopes = @ \cup setup.extraScopes]
             fields == [id |-> e.id, token |-> e.token, defaultContract |-> e.defaultContract,
          allowedContracts |-> e.allowedContracts, allowedActions |-> e.allowedActions,
          envRestrictions |-> e.envRestrictions, writeCapability |-> e.writeCapability,
          scopes |-> e.scopes, anonymous |-> e.anonymous]
  <2>1. e = fields
    BY <1>1 DEF HasSchema
  <2>2. [fields EXCEPT !.scopes = @ \cup setup.extraScopes].token = e.token
    OBVIOUS
  <2>3. p.token = e.token
    BY <2>1, <2>2
  <2>4. p \in Profiles(version)
    BY <1>3 DEF Profiles
  <2> QED
    BY <2>3, <2>4
<1> QED
  BY <1>2, <1>3

(* Consulting the registry yields a version that stood in the source at    *)
(* most one TTL ago.                                                       *)
LEMMA ConsultIsFresh ==
  ASSUME GovernanceTypes, RegistryInv, Consult, UNCHANGED <<setup, source, moment, past>>
  PROVE  /\ loadedAt' \in 0..moment /\ moment - loadedAt' <= Ttl
         /\ \E version \in past[loadedAt'] :
              version \in Sources /\ Loads(version) /\ loaded' = Profiles(version)
<1>1. moment \in 0..MaxMoment /\ Ttl \in Nat /\ MaxMoment \in Nat
  BY GovernanceTimes DEF GovernanceTypes
<1>2. CASE Stale
  <2>1. Loads(source) /\ loaded' = Profiles(source) /\ loadedAt' = moment
    BY <1>2 DEF Consult
  <2> QED
    BY <1>1, <2>1 DEF GovernanceTypes
<1>3. CASE ~Stale
  <2>1. loadedAt' = loadedAt /\ loaded' = loaded
    BY <1>3 DEF Consult
  <2>2. loadedAt # Never /\ ~(moment - loadedAt > Ttl)
    BY <1>3 DEF Stale
  <2>3. loadedAt \in 0..moment /\ HeldFrom(loaded, loadedAt, past)
    BY <2>2 DEF RegistryInv
  <2> QED
    BY <1>1, <2>1, <2>2, <2>3 DEF HeldFrom
<1> QED
  BY <1>2, <1>3

(* A profile that a call resolves to was made from an entry that stands    *)
(* for the caller.                                                         *)
LEMMA ResolvedStandsFor ==
  ASSUME GovernanceTypes, IdentityInv, call.phase = "reading", NEW version \in Sources,
         NEW allowed \in BOOLEAN, allowed => setup.allowAnon /\ call.request.kind = "read",
         NEW p \in Resolved(Profiles(version), call.request, call.identity, allowed)
  PROVE  \E e \in version.entries :
           HasSchema(e) /\ MadeFrom(p, e) /\ StandsFor(e, version)
<1> DEFINE token == EffectiveToken(call.request)
           profiles == Profiles(version)
<1>1. p \in profiles
  BY DEF Resolved, Resolve, WithToken, Fallback
<1>2. PICK e \in version.entries : HasSchema(e) /\ MadeFrom(p, e)
  BY <1>1, ProfileOfEntry
<1>3. CASE setup.transport = "http"
  <2>1. EffectiveToken(call.request) = call.request.token
    BY <1>3 DEF EffectiveToken
  <2>2. e.id = call.identity
    BY <1>2, <1>3 DEF Resolved, MadeFrom
  <2> QED
    BY <1>2, <1>3, <2>1, <2>2 DEF IdentityInv, StandsFor
<1>4. CASE setup.transport # "http"
  <2>1. p \in Resolve(profiles, token, allowed)
    BY <1>4 DEF Resolved
  <2>2. CASE WithToken(profiles, token) # {}
    <3>1. token # "none" /\ p.token = token
      BY <2>1, <2>2 DEF Resolve, WithToken
    <3> QED
      BY <1>2, <1>4, <3>1 DEF StandsFor, MadeFrom
  <2>3. CASE WithToken(profiles, token) = {}
    <3>1. p.anonymous /\ allowed /\ setup.env # "production"
      BY <2>1, <2>3 DEF Resolve, Fallback
    <3>2. ASSUME NEW f \in version.entries PROVE f.token # token
      <4>1. f.token # "none"
        BY EntriesHaveSchema DEF Sources, HasSchema
      <4>2. PICK q \in profiles : q.token = f.token
        BY EntryHasProfile
      <4> QED
        BY <2>3, <4>1, <4>2 DEF WithToken
    <3> QED
      BY <1>2, <1>4, <3>1, <3>2 DEF StandsFor, MadeFrom
  <2> QED
    BY <2>2, <2>3
<1> QED
  BY <1>3, <1>4

RevocationInv == GovernanceTypes /\ RegistryInv /\ IdentityInv /\ RevocationBites

(* What a step that answers has to show.                                   *)
LEMMA AnswerIsBacked ==
  ASSUME GovernanceTypes, RegistryInv, Consult,
         UNCHANGED <<setup, source, moment, past>>,
         call' = [call EXCEPT !.phase = call'.phase, !.view = call'.view, !.at = moment],
         call'.phase = "answered" =>
           \A version \in Sources :
             Loads(version) /\ loaded' = Profiles(version) =>
               \E e \in version.entries : StandsFor(e, version)' /\ Grants(e)'
  PROVE  RevocationBites'
<1>1. /\ loadedAt' \in 0..moment /\ moment - loadedAt' <= Ttl
      /\ \E version \in past[loadedAt'] :
           version \in Sources /\ Loads(version) /\ loaded' = Profiles(version)
  BY ConsultIsFresh
<1>2. call'.at = moment
  <2>1. call = [phase |-> call.phase, request |-> call.request, identity |-> call.identity,
                view |-> call.view, at |-> call.at]
    BY DEF GovernanceTypes
  <2> QED
    BY <2>1
<1>3. past' = past /\ loadedAt' \in 0..call'.at
  BY <1>1, <1>2
<1> SUFFICES ASSUME call'.phase = "answered"
             PROVE  \E version \in past'[loadedAt'] :
                      Loads(version)' /\ \E e \in version.entries :
                        StandsFor(e, version)' /\ Grants(e)'
  BY <1>1, <1>2, <1>3 DEF RevocationBites
<1>4. PICK version \in past[loadedAt'] :
        version \in Sources /\ Loads(version) /\ loaded' = Profiles(version)
  BY <1>1
<1>5. \E e \in version.entries : StandsFor(e, version)' /\ Grants(e)'
  BY <1>4
<1>6. Loads(version)'
  BY <1>4 DEF Loads, ValidEntry, Unambiguous
<1> QED
  BY <1>3, <1>4, <1>5, <1>6

(* A reply leaves the request and the identity of the call as they are.    *)
LEMMA ReplyKeeps ==
  ASSUME GovernanceTypes, NEW phase, NEW view, Reply(phase, view)
  PROVE  /\ call' = [phase |-> phase, request |-> call.request,
                     identity |-> call.identity, view |-> view, at |-> moment]
         /\ call' = [call EXCEPT !.phase = call'.phase, !.view = call'.view, !.at = moment]
<1>1. call = [phase |-> call.phase, request |-> call.request, identity |-> call.identity,
              view |-> call.view, at |-> call.at]
  BY DEF GovernanceTypes
<1>2. call' = [call EXCEPT !.phase = phase, !.view = view, !.at = moment]
  BY DEF Reply
<1>3. call' = [phase |-> phase, request |-> call.request,
               identity |-> call.identity, view |-> view, at |-> moment]
  BY <1>1, <1>2
<1> QED
  BY <1>2, <1>3

LEMMA AnswerGovernedKept ==
  ASSUME GovernanceTypes, RegistryInv, IdentityInv, AnswerGoverned
  PROVE  RevocationBites'
<1> DEFINE profiles == Resolved(loaded', call.request, call.identity, setup.allowAnon)
           granted == {e \in profiles : ActionAllowed(e, call.request.action)}
           contracts == {PickContract(e, call.request.contract) : e \in granted}
<1>1. /\ call.request.kind = "read" /\ call.phase = "reading" /\ Consult
      /\ setup' = setup /\ source' = source /\ moment' = moment /\ past' = past
      /\ \/ Reply("refused", NoView)
         \/ \E contract \in contracts : EnvAllowed(contract) /\ Reply("answered", View(contract))
  BY DEF AnswerGoverned
<1>2. CASE Reply("refused", NoView)
  BY <1>2, ReplyKeeps DEF RevocationBites
<1>3. ASSUME NEW contract \in contracts, EnvAllowed(contract),
             Reply("answered", View(contract))
      PROVE  RevocationBites'
  <2>1. /\ call' = [phase |-> "answered", request |-> call.request,
                    identity |-> call.identity, view |-> View(contract), at |-> moment]
        /\ call' = [call EXCEPT !.phase = call'.phase, !.view = call'.view, !.at = moment]
    BY <1>3, ReplyKeeps
  <2>2. PICK p \in profiles :
          ActionAllowed(p, call.request.action) /\ contract = PickContract(p, call.request.contract)
    OBVIOUS
  <2>3. ASSUME NEW version \in Sources, Loads(version), loaded' = Profiles(version)
        PROVE  \E e \in version.entries : StandsFor(e, version)' /\ Grants(e)'
    <3>1. PICK e \in version.entries :
            HasSchema(e) /\ MadeFrom(p, e) /\ StandsFor(e, version)
      <4> DEFINE allowed == p \notin Resolved(loaded', call.request, call.identity, FALSE)
      <4>1. p \in Resolved(Profiles(version), call.request, call.identity, allowed)
        BY <2>2, <2>3 DEF Resolved, Resolve, Fallback
      <4>2. allowed => setup.allowAnon /\ call.request.kind = "read"
        BY <1>1, <2>2 DEF Resolved, Resolve, Fallback
      <4>3. allowed \in BOOLEAN
        OBVIOUS
      <4> HIDE DEF allowed
      <4> QED
        BY <1>1, <4>1, <4>2, <4>3, <2>3, ResolvedStandsFor
    <3>2. StandsFor(e, version)'
      BY <1>1, <2>1, <3>1 DEF StandsFor, EffectiveToken, KnownAtStart
    <3>3. ActionAllowed(e, call.request.action)
      BY <2>2, <3>1 DEF ActionAllowed, MadeFrom
    <3>4. contract \in e.allowedContracts
      <4>1. ValidEntry(e)
        BY <2>3 DEF Loads
      <4> QED
        BY <2>2, <3>1, <4>1 DEF ValidEntry, PickContract, MadeFrom
    <3>5. EnvAllowed(contract)' /\ View(contract)' = View(contract)
      BY <1>1, <1>3 DEF EnvAllowed, View, Survives
    <3>6. ActionAllowed(e, call.request.action)'
      BY <2>1, <3>3 DEF ActionAllowed
    <3>7. Grants(e)'
      BY <1>1, <2>1, <3>4, <3>5, <3>6 DEF Grants
    <3> QED
      BY <3>2, <3>7
  <2> QED
    BY <1>1, <2>1, <2>3, AnswerIsBacked
<1> QED
  BY <1>1, <1>2, <1>3

LEMMA AnswerDraftKept ==
  ASSUME GovernanceTypes, RegistryInv, IdentityInv, AnswerDraft
  PROVE  RevocationBites'
<1> DEFINE profiles == Resolved(loaded', call.request, call.identity, FALSE)
<1>1. /\ call.request.kind = "draft" /\ call.phase = "reading" /\ Consult
      /\ setup' = setup /\ source' = source /\ moment' = moment /\ past' = past
      /\ \/ Reply("refused", NoView)
         \/ /\ \E p \in profiles : WriteScopeAllowed(p, call.request.scope)
            /\ Reply("answered", NoView)
  BY DEF AnswerDraft
<1>2. CASE Reply("refused", NoView)
  BY <1>2, ReplyKeeps DEF RevocationBites
<1>3. ASSUME NEW p \in profiles, WriteScopeAllowed(p, call.request.scope),
             Reply("answered", NoView)
      PROVE  RevocationBites'
  <2>1. /\ call' = [phase |-> "answered", request |-> call.request,
                    identity |-> call.identity, view |-> NoView, at |-> moment]
        /\ call' = [call EXCEPT !.phase = call'.phase, !.view = call'.view, !.at = moment]
    BY <1>3, ReplyKeeps
  <2>2. ASSUME NEW version \in Sources, Loads(version), loaded' = Profiles(version)
        PROVE  \E e \in version.entries : StandsFor(e, version)' /\ Grants(e)'
    <3>1. PICK e \in version.entries :
            HasSchema(e) /\ MadeFrom(p, e) /\ StandsFor(e, version)
      BY <1>1, <2>2, <1>3, ResolvedStandsFor
    <3>2. StandsFor(e, version)'
      BY <1>1, <2>1, <3>1 DEF StandsFor, EffectiveToken, KnownAtStart
    <3>3. Grants(e)'
      BY <1>1, <1>3, <2>1, <3>1 DEF Grants, WriteScopeAllowed, MadeFrom
    <3> QED
      BY <3>2, <3>3
  <2> QED
    BY <1>1, <2>1, <2>2, AnswerIsBacked
<1> QED
  BY <1>1, <1>2, <1>3

(* Every step keeps what is known of the types and of the cache.           *)
LEMMA GovernanceTypesKept ==
  ASSUME GovernanceTypes, RegistryInv, [GovernanceNext]_governance
  PROVE  GovernanceTypes' /\ RegistryInv'
<1>1. /\ moment \in 0..MaxMoment /\ {Ttl, MaxMoment, MaxEdits} \subseteq Nat /\ edits \in Nat
      /\ call.at \in 0..moment /\ source \in Sources /\ setup \in Setups
      /\ past = [t \in 0..MaxMoment |-> past[t]] /\ source \in past[moment]
  BY GovernanceTimes DEF GovernanceTypes
<1>2. ASSUME NEW phase, NEW view, Reply(phase, view),
             UNCHANGED <<setup, source, moment, past, edits>>
      PROVE  GovernanceTypes'
  <2>1. call' = [phase |-> phase, request |-> call.request,
                 identity |-> call.identity, view |-> view, at |-> moment]
    BY <1>2, ReplyKeeps
  <2> QED
    BY <1>1, <1>2, <2>1 DEF GovernanceTypes
<1>0. setup' = setup =>
        /\ Sources' = Sources
        /\ \A version : Loads(version)' = Loads(version)
        /\ \A version : Profiles(version)' = Profiles(version)
  <2> SUFFICES ASSUME setup' = setup, NEW version
               PROVE  /\ Sources' = Sources /\ Loads(version)' = Loads(version)
                      /\ Profiles(version)' = Profiles(version)
    OBVIOUS
  <2>1. Sources' = Sources
    BY DEF Sources
  <2>2. Loads(version)' = Loads(version)
    BY DEF Loads, ValidEntry, Unambiguous
  <2>3. Profiles(version)' = Profiles(version)
    BY DEF Profiles
  <2> QED
    BY <2>1, <2>2, <2>3
<1>3. ASSUME UNCHANGED <<loaded, loadedAt, moment, past, setup>> PROVE RegistryInv'
  BY <1>0, <1>3 DEF RegistryInv, HeldFrom, Never
<1>4. ASSUME Consult, UNCHANGED <<setup, source, moment, past>> PROVE RegistryInv'
  <2>1. /\ loadedAt' \in 0..moment
        /\ \E version \in past[loadedAt'] :
             version \in Sources /\ Loads(version) /\ loaded' = Profiles(version)
    BY <1>4, ConsultIsFresh
  <2> QED
    BY <1>0, <1>4, <2>1 DEF RegistryInv, HeldFrom
<1>5. CASE Arrive
  <2> DEFINE Sent(phase, identity, asked) ==
        [phase |-> phase, request |-> asked, identity |-> identity, view |-> NoView, at |-> 0]
  <2>1. \E phase, identity, asked : call' = Sent(phase, identity, asked)
    BY <1>5 DEF Arrive, Idle
  <2>2. UNCHANGED <<setup, source, loaded, loadedAt, moment, past, edits>>
    BY <1>5 DEF Arrive
  <2> QED
    BY <1>1, <1>3, <2>1, <2>2 DEF GovernanceTypes
<1>6. CASE RegistryFails
  BY <1>2, <1>3, <1>6 DEF RegistryFails
<1>7. CASE AnswerLegacy
  BY <1>2, <1>3, <1>7 DEF AnswerLegacy
<1>8. CASE AnswerGoverned
  <2>1. /\ Consult /\ UNCHANGED <<setup, source, moment, past, edits>>
        /\ \E phase, view : Reply(phase, view)
    BY <1>8 DEF AnswerGoverned
  <2> QED
    BY <1>2, <1>4, <2>1
<1>9. CASE AnswerDraft
  <2>1. /\ Consult /\ UNCHANGED <<setup, source, moment, past, edits>>
        /\ \E phase, view : Reply(phase, view)
    BY <1>9 DEF AnswerDraft
  <2> QED
    BY <1>2, <1>4, <2>1
<1>10. CASE EditRegistry
  <2>1. PICK version \in Versions :
          source' = version /\ past' = [past EXCEPT ![moment] = @ \cup {version}]
    BY <1>10 DEF EditRegistry
  <2>2. /\ edits' = edits + 1
        /\ setup' = setup /\ loaded' = loaded /\ loadedAt' = loadedAt
        /\ moment' = moment /\ call' = call
    BY <1>10 DEF EditRegistry
  <2>3. /\ past' = [t \in 0..MaxMoment |-> past'[t]]
        /\ version \in past'[moment]
        /\ \A t \in 0..MaxMoment : past[t] \subseteq past'[t]
    BY <1>1, <2>1
  <2>4. GovernanceTypes'
    BY <1>1, <2>1, <2>2, <2>3 DEF GovernanceTypes, Sources
  <2>5. RegistryInv'
    <3>1. CASE loadedAt = Never
      BY <2>2, <3>1 DEF RegistryInv, Never
    <3>2. CASE loadedAt # Never
      <4>1. loadedAt \in 0..moment /\ HeldFrom(loaded, loadedAt, past)
        BY <3>2 DEF RegistryInv
      <4>2. past[loadedAt] \subseteq past'[loadedAt]
        BY <1>1, <2>3, <4>1
      <4> QED
        BY <1>0, <2>2, <4>1, <4>2 DEF RegistryInv, HeldFrom
    <3> QED
      BY <3>1, <3>2
  <2> QED
    BY <2>4, <2>5
<1>11. CASE MomentPasses
  <2>1. /\ moment' = moment + 1 /\ moment' \in 0..MaxMoment
        /\ past' = [past EXCEPT ![moment + 1] = {source}]
        /\ UNCHANGED <<setup, source, loaded, loadedAt, call, edits>>
    BY <1>1, <1>11 DEF MomentPasses
  <2>2. /\ past' = [t \in 0..MaxMoment |-> past'[t]]
        /\ source \in past'[moment']
        /\ \A t \in 0..moment : past'[t] = past[t]
    <3> DEFINE next == moment + 1
    <3>1. next \in 0..MaxMoment /\ moment' = next /\ past' = [past EXCEPT ![next] = {source}]
      BY <2>1
    <3>2. \A t \in 0..moment : t \in 0..MaxMoment /\ t # next
      BY <1>1
    <3> HIDE DEF next
    <3> QED
      BY <1>1, <3>1, <3>2
  <2>3. GovernanceTypes'
    BY <1>1, <2>1, <2>2 DEF GovernanceTypes
  <2>4. RegistryInv'
    <3>1. CASE loadedAt = Never
      BY <2>1, <3>1 DEF RegistryInv, Never
    <3>2. CASE loadedAt # Never
      <4>1. loadedAt \in 0..moment /\ HeldFrom(loaded, loadedAt, past)
        BY <3>2 DEF RegistryInv
      <4>2. past'[loadedAt] = past[loadedAt] /\ loadedAt \in 0..moment'
        BY <1>1, <2>1, <2>2, <4>1
      <4>3. HeldFrom(loaded, loadedAt, past)'
        BY <1>0, <2>1, <4>1, <4>2 DEF HeldFrom
      <4> QED
        BY <2>1, <4>2, <4>3 DEF RegistryInv
    <3> QED
      BY <3>1, <3>2
  <2> QED
    BY <2>3, <2>4
<1>12. CASE UNCHANGED governance
  BY <1>3, <1>12 DEF governance, GovernanceTypes
<1> QED
  BY <1>5, <1>6, <1>7, <1>8, <1>9, <1>10, <1>11, <1>12 DEF GovernanceNext

(* The identity is bound when the request arrives, and the table it comes  *)
(* from never changes.                                                     *)
LEMMA IdentityKept ==
  ASSUME GovernanceTypes, IdentityInv, [GovernanceNext]_governance
  PROVE  IdentityInv'
<1>1. ASSUME UNCHANGED <<setup, call>> PROVE IdentityInv'
  BY <1>1 DEF IdentityInv, KnownAtStart
<1>2. ASSUME NEW phase, NEW view, Reply(phase, view), phase # "reading" PROVE IdentityInv'
  BY <1>2, ReplyKeeps DEF IdentityInv
<1>3. CASE Arrive
  <2>1. PICK request \in Requests :
          setup.transport = "http" =>
            \/ call' = [Idle EXCEPT !.phase = "refused", !.request = request]
            \/ \E e \in Resolve(Profiles(setup.inline), request.token, FALSE) :
                 call' = [Idle EXCEPT !.phase = "reading", !.request = request, !.identity = e.id]
    BY <1>3 DEF Arrive
  <2>2. setup' = setup
    BY <1>3 DEF Arrive
  <2> SUFFICES ASSUME call'.phase = "reading", setup.transport = "http"
               PROVE  KnownAtStart(call'.identity, call'.request.token)
    BY <2>2 DEF IdentityInv, KnownAtStart
  <2>3. PICK p \in Resolve(Profiles(setup.inline), request.token, FALSE) :
          call' = [Idle EXCEPT !.phase = "reading", !.request = request, !.identity = p.id]
    BY <2>1 DEF Idle
  <2>4. call'.identity = p.id /\ call'.request = request
    BY <2>3 DEF Idle
  <2>5. p \in Profiles(setup.inline) /\ p.token = request.token
    BY <2>3 DEF Resolve, WithToken, Fallback
  <2>6. setup.inline \in Sources
    BY DEF GovernanceTypes, Sources
  <2>7. PICK e \in setup.inline.entries : MadeFrom(p, e)
    BY <2>5, <2>6, ProfileOfEntry
  <2>8. e.id = call'.identity /\ e.token = call'.request.token
    BY <2>4, <2>5, <2>7 DEF MadeFrom
  <2> QED
    BY <2>8 DEF KnownAtStart
<1>4. CASE RegistryFails
  BY <1>2, <1>4 DEF RegistryFails
<1>5. CASE AnswerLegacy
  BY <1>2, <1>5 DEF AnswerLegacy
<1>6. CASE AnswerGoverned
  BY <1>2, <1>6 DEF AnswerGoverned
<1>7. CASE AnswerDraft
  BY <1>2, <1>7 DEF AnswerDraft
<1>8. CASE EditRegistry
  BY <1>1, <1>8 DEF EditRegistry
<1>9. CASE MomentPasses
  BY <1>1, <1>9 DEF MomentPasses
<1>10. CASE UNCHANGED governance
  BY <1>1, <1>10 DEF governance
<1> QED
  BY <1>3, <1>4, <1>5, <1>6, <1>7, <1>8, <1>9, <1>10 DEF GovernanceNext

(* Steps that leave an answered call alone keep what backs it, for the     *)
(* history of the moments up to the answer only grows.                     *)
LEMMA AnswerStaysBacked ==
  ASSUME GovernanceTypes, RevocationBites, UNCHANGED <<setup, call>>,
         \A t \in 0..moment : past[t] \subseteq past'[t]
  PROVE  RevocationBites'
<1> SUFFICES ASSUME call.phase = "answered" /\ (setup.governed \/ call.request.kind = "draft")
             PROVE  \E t \in 0..call.at :
                      /\ call.at - t <= Ttl
                      /\ \E version \in past'[t] :
                           Loads(version) /\ \E e \in version.entries :
                             StandsFor(e, version) /\ Grants(e)
  <2>1. \A e, version : StandsFor(e, version)' = StandsFor(e, version)
    BY DEF StandsFor, EffectiveToken, KnownAtStart
  <2>2. \A contract : View(contract)' = View(contract) /\ EnvAllowed(contract)' = EnvAllowed(contract)
    BY DEF View, Survives, EnvAllowed
  <2>3. \A e, action : ActionAllowed(e, action)' = ActionAllowed(e, action)
    BY DEF ActionAllowed
  <2>4. \A e : Grants(e)' = Grants(e)
    BY <2>2, <2>3 DEF Grants
  <2>5. \A version : Loads(version)' = Loads(version)
    BY DEF Loads, ValidEntry, Unambiguous
  <2> QED
    BY <2>1, <2>4, <2>5 DEF RevocationBites
<1>1. PICK t \in 0..call.at :
        /\ call.at - t <= Ttl
        /\ \E version \in past[t] :
             Loads(version) /\ \E e \in version.entries : StandsFor(e, version) /\ Grants(e)
  BY DEF RevocationBites
<1>2. t \in 0..moment
  BY DEF GovernanceTypes
<1> QED
  BY <1>1, <1>2

(* However often the cache of the registry is used and whenever the file   *)
(* is edited: what a governed call is given stood in the file, within the  *)
(* TTL, as a grant to the one who asks: to the bearer of the token that is *)
(* written in the file on stdio, over HTTP to the consumer whose token the *)
(* start-up registry bears.                                                *)
THEOREM RevocationHolds == GovernanceSpec => []RevocationBites
<1>1. GovernanceInit => RevocationInv
  <2> SUFFICES ASSUME GovernanceInit PROVE RevocationInv
    OBVIOUS
  <2>1. GovernanceTypes
    <3>1. call = [phase |-> call.phase, request |-> call.request, identity |-> call.identity,
                  view |-> call.view, at |-> call.at] /\ call.at = 0 /\ call.phase = "idle"
      BY DEF GovernanceInit, Idle
    <3>2. past = [t \in 0..MaxMoment |-> past[t]] /\ past[0] = {source} /\ moment = 0
      BY GovernanceTimes DEF GovernanceInit
    <3> QED
      BY <3>1, <3>2, GovernanceTimes DEF GovernanceInit, GovernanceTypes, Sources
  <2>2. call.phase = "idle"
    BY DEF GovernanceInit, Idle
  <2> QED
    BY <2>1, <2>2 DEF GovernanceInit, RevocationInv, RegistryInv, IdentityInv, RevocationBites
<1>2. RevocationInv /\ [GovernanceNext]_governance => RevocationInv'
  <2> SUFFICES ASSUME RevocationInv, [GovernanceNext]_governance
               PROVE  RevocationBites'
    BY GovernanceTypesKept, IdentityKept DEF RevocationInv
  <2>1. GovernanceTypes /\ RegistryInv /\ IdentityInv /\ RevocationBites /\ moment \in 0..MaxMoment
    BY DEF RevocationInv, GovernanceTypes
  <2>2. CASE Arrive
    <3>1. call'.phase # "answered"
      BY <2>2 DEF Arrive, Idle
    <3> QED
      BY <3>1 DEF RevocationBites
  <2>3. CASE RegistryFails
    BY <2>1, <2>3, ReplyKeeps DEF RegistryFails, RevocationBites
  <2>4. CASE AnswerLegacy
    <3>1. Reply("answered", RawView) /\ call.request.kind = "read" /\ ~setup.governed
          /\ setup' = setup
      BY <2>4 DEF AnswerLegacy
    <3>2. call'.request = call.request
      BY <2>1, <3>1, ReplyKeeps
    <3> QED
      BY <3>1, <3>2 DEF RevocationBites
  <2>5. CASE AnswerGoverned
    BY <2>1, <2>5, AnswerGovernedKept
  <2>6. CASE AnswerDraft
    BY <2>1, <2>6, AnswerDraftKept
  <2>7. CASE EditRegistry
    <3>1. /\ setup' = setup /\ call' = call
          /\ \E version : past' = [past EXCEPT ![moment] = @ \cup {version}]
      BY <2>7 DEF EditRegistry
    <3>2. \A t \in 0..moment : past[t] \subseteq past'[t]
      <4>1. past = [t \in 0..MaxMoment |-> past[t]]
        BY <2>1 DEF GovernanceTypes
      <4> QED
        BY <2>1, <3>1, <4>1, GovernanceTimes
    <3> QED
      BY <2>1, <3>1, <3>2, AnswerStaysBacked
  <2>8. CASE MomentPasses
    <3>1. /\ setup' = setup /\ call' = call
          /\ past' = [past EXCEPT ![moment + 1] = {source}]
      BY <2>8 DEF MomentPasses
    <3>2. \A t \in 0..moment : past[t] \subseteq past'[t]
      <4>1. past = [t \in 0..MaxMoment |-> past[t]]
        BY <2>1 DEF GovernanceTypes
      <4> QED
        BY <2>1, <3>1, <4>1, GovernanceTimes
    <3> QED
      BY <2>1, <3>1, <3>2, AnswerStaysBacked
  <2>9. CASE UNCHANGED governance
    BY <2>1, <2>9, AnswerStaysBacked DEF governance
  <2> QED
    BY <2>2, <2>3, <2>4, <2>5, <2>6, <2>7, <2>8, <2>9 DEF GovernanceNext
<1>3. RevocationInv => RevocationBites
  BY DEF RevocationInv
<1> QED
  BY <1>1, <1>2, <1>3, PTL DEF GovernanceSpec

-----------------------------------------------------------------------------
(* The amounts that the caps judge.                                        *)

LEMMA PickSends ==
  ASSUME NEW p, NEW keys, NEW k
  PROVE  /\ k \in DOMAIN Pick(p, keys) <=> k \in keys /\ Value(p, k) # "undefined"
         /\ k \in DOMAIN Pick(p, keys) => Pick(p, keys)[k] = Value(p, k)
<1>1. Value(p, k) # "undefined" => p[k] = Value(p, k)
  BY DEF Value
<1> QED
  BY <1>1 DEF Pick

LEMMA WorthOf ==
  /\ \A v : Worth(v) \in Int /\ PriceOf(v) \in Nat
  /\ Worth("undefined") = 0 /\ PriceOf("undefined") = 0
<1>1. \A v : Worth(v) \in Int
  BY DEF Worth
<1>2. \A v : PriceOf(v) \in Nat
  BY DEF PriceOf
<1>3. Worth("undefined") = 0
  BY DEF Worth
<1>4. PriceOf("undefined") = 0
  BY DEF PriceOf
<1> QED
  BY <1>1, <1>2, <1>3, <1>4

(* What a list of parameters has at a key; most lists hold one amount.     *)
At(list, k) == IF k \in DOMAIN list THEN list[k] ELSE "undefined"

Moved(list) ==
  Worth(At(list, "amount")) + Worth(At(list, "amountout"))
    + PriceOf(At(list, "domainpriceoverride"))

LEMMA MovesIsMoved == Moves = Moved(sent)
BY WorthOf DEF Moves, Moved, At

(* No list has a key without a value: what is undefined is not sent.       *)
Sparse(list) == \A k : k \in DOMAIN list <=> At(list, k) # "undefined"

LEMMA PickAt ==
  ASSUME NEW p, NEW keys
  PROVE  /\ Sparse(Pick(p, keys))
         /\ \A k : At(Pick(p, keys), k) = IF k \in keys THEN Value(p, k) ELSE "undefined"
<1> DEFINE list == Pick(p, keys)
<1> SUFFICES ASSUME NEW k
             PROVE  /\ k \in DOMAIN list <=> At(list, k) # "undefined"
                    /\ At(list, k) = IF k \in keys THEN Value(p, k) ELSE "undefined"
  BY DEF Sparse
<1>1. /\ k \in DOMAIN list <=> k \in keys /\ Value(p, k) # "undefined"
      /\ k \in DOMAIN list => list[k] = Value(p, k)
  BY PickSends
<1> HIDE DEF list
<1> QED
  BY <1>1 DEF At

LEMMA ItemAt ==
  ASSUME NEW name, NEW v
  PROVE  /\ Sparse(Item(name, v))
         /\ \A k : At(Item(name, v), k) = IF k = name THEN v ELSE "undefined"
BY DEF At, Item, Sparse

LEMMA BothAt ==
  ASSUME NEW f, NEW g, Sparse(f), Sparse(g)
  PROVE  /\ Sparse(Both(f, g))
         /\ \A k : At(Both(f, g), k) = IF At(f, k) # "undefined" THEN At(f, k) ELSE At(g, k)
<1> SUFFICES ASSUME NEW k
             PROVE  /\ k \in DOMAIN Both(f, g) <=> At(Both(f, g), k) # "undefined"
                    /\ At(Both(f, g), k) = IF At(f, k) # "undefined" THEN At(f, k) ELSE At(g, k)
  BY DEF Sparse
<1> QED
  BY DEF Both, At, Sparse

(* A list that has none of the keys under which money is moved.            *)
Beside(list) ==
  Sparse(list) /\ \A k \in {"amount", "amountout", "domainpriceoverride"} :
                    At(list, k) = "undefined"

LEMMA ItemBeside ==
  ASSUME NEW name, NEW v, name \notin {"amount", "amountout", "domainpriceoverride"}
  PROVE  Beside(Item(name, v))
<1>1. Sparse(Item(name, v)) /\ \A k : k # name => At(Item(name, v), k) = "undefined"
  BY ItemAt
<1> QED
  BY <1>1 DEF Beside

LEMMA PickBeside ==
  ASSUME NEW p, NEW keys, keys \cap {"amount", "amountout", "domainpriceoverride"} = {}
  PROVE  Beside(Pick(p, keys))
<1>1. Sparse(Pick(p, keys)) /\ \A k : k \notin keys => At(Pick(p, keys), k) = "undefined"
  BY PickAt
<1> QED
  BY <1>1 DEF Beside

(* What the mappers of the scopes that move money send, by key.            *)
LEMMA MapperMoves ==
  ASSUME NEW p
  PROVE  /\ Moved(MapPayment(p)) = Worth(Value(p, "amount"))
         /\ Moved(MapRefund(p)) = Worth(Value(p, "amount"))
         /\ Moved(MapOrder(p)) = PriceOf(Value(p, "domains"))
<1>1. Moved(MapPayment(p)) = Worth(Value(p, "amount"))
  <2> DEFINE a == Pick(p, {"invoiceid", "amount", "date"})
             b == Item("transid", Transid(p))
             gateway == IF Value(p, "gateway") \in {"null", "blank"}
                        THEN "undefined" ELSE Value(p, "gateway")
             c == Item("gateway", gateway)
             list == Both(a, Both(b, c))
  <2>1. /\ Sparse(a) /\ At(a, "amount") = Value(p, "amount")
        /\ At(a, "amountout") = "undefined" /\ At(a, "domainpriceoverride") = "undefined"
    BY PickAt
  <2>2. Beside(b)
    BY ItemBeside
  <2>3. Beside(c)
    <3> HIDE DEF gateway
    <3> QED
      BY ItemBeside
  <2> HIDE DEF a, b, c
  <2>4. Beside(Both(b, c))
    BY <2>2, <2>3, BothAt DEF Beside
  <2>5. /\ At(list, "amount") = Value(p, "amount")
        /\ At(list, "amountout") = "undefined" /\ At(list, "domainpriceoverride") = "undefined"
    BY <2>1, <2>4, BothAt DEF Beside
  <2>6. MapPayment(p) = list
    BY DEF MapPayment, a, b, c
  <2> QED
    BY <2>5, <2>6, WorthOf DEF Moved
<1>2. Moved(MapRefund(p)) = Worth(Value(p, "amount"))
  <2> DEFINE a == Pick(p, {"invoiceid", "paymentmethod"})
             b == Item("amountout", Value(p, "amount"))
             c == Item("transid", "of the key")
             text == IF Present(Value(p, "description")) THEN Value(p, "description") ELSE "text"
             d == Item("description", text)
             list == Both(Both(a, b), Both(c, d))
  <2>1. Beside(a)
    BY PickBeside
  <2>2. /\ Sparse(b) /\ At(b, "amountout") = Value(p, "amount")
        /\ At(b, "amount") = "undefined" /\ At(b, "domainpriceoverride") = "undefined"
    BY ItemAt
  <2>3. Beside(c)
    BY ItemBeside
  <2>4. Beside(d)
    <3> HIDE DEF text
    <3> QED
      BY ItemBeside
  <2> HIDE DEF a, b, c, d
  <2>5. Beside(Both(c, d))
    BY <2>3, <2>4, BothAt DEF Beside
  <2>6. /\ Sparse(Both(a, b)) /\ At(Both(a, b), "amountout") = Value(p, "amount")
        /\ At(Both(a, b), "amount") = "undefined"
        /\ At(Both(a, b), "domainpriceoverride") = "undefined"
    BY <2>1, <2>2, BothAt DEF Beside
  <2>7. /\ At(list, "amountout") = Value(p, "amount")
        /\ At(list, "amount") = "undefined" /\ At(list, "domainpriceoverride") = "undefined"
    BY <2>5, <2>6, BothAt DEF Beside
  <2>8. MapRefund(p) = list
    BY DEF MapRefund, a, b, c, d
  <2> QED
    BY <2>7, <2>8, WorthOf DEF Moved
<1>3. Moved(MapOrder(p)) = PriceOf(Value(p, "domains"))
  <2> DEFINE a == Pick(p, {"clientid", "paymentmethod"})
             b == Item("domainpriceoverride", Value(p, "domains"))
             c == Item("noinvoice", "false")
             d == Item("noemail", "true")
             list == Both(Both(a, b), Both(c, d))
  <2>1. Beside(a)
    BY PickBeside
  <2>2. /\ Sparse(b) /\ At(b, "domainpriceoverride") = Value(p, "domains")
        /\ At(b, "amount") = "undefined" /\ At(b, "amountout") = "undefined"
    BY ItemAt
  <2>3. Beside(c) /\ Beside(d)
    BY ItemBeside
  <2> HIDE DEF a, b, c, d
  <2>4. Beside(Both(c, d))
    BY <2>3, BothAt DEF Beside
  <2>5. /\ Sparse(Both(a, b)) /\ At(Both(a, b), "domainpriceoverride") = Value(p, "domains")
        /\ At(Both(a, b), "amount") = "undefined" /\ At(Both(a, b), "amountout") = "undefined"
    BY <2>1, <2>2, BothAt DEF Beside
  <2>6. /\ At(list, "domainpriceoverride") = Value(p, "domains")
        /\ At(list, "amount") = "undefined" /\ At(list, "amountout") = "undefined"
    BY <2>4, <2>5, BothAt DEF Beside
  <2>7. MapOrder(p) = list
    BY DEF MapOrder, a, b, c, d
  <2> QED
    BY <2>6, <2>7, WorthOf DEF Moved
<1> QED
  BY <1>1, <1>2, <1>3

(* What an executed intent of a scope that moves money sends.              *)
LEMMA ExecutedMoves ==
  ASSUME NEW s \in HighRisk \ (Destructive \cup Composite), NEW p
  PROVE  Moved(IntentToWhmcsParams(s, p)) =
           CASE s \in {"billing:payment:add", "billing:credit:add", "billing:refund:record",
                       "billing:credit:apply"} -> Worth(Value(p, "amount"))
             [] s = "order:create" -> PriceOf(Value(p, "domains"))
             [] s \in {"billing:payment:capture", "domain:register", "domain:renew",
                       "service:upgrade", "billing:quote:accept"} -> 0
<1> DEFINE asked == IntentToWhmcsParams(s, p)
<1>1. CASE s = "billing:payment:add"
  <2>1. asked = MapPayment(p)
    BY <1>1 DEF IntentToWhmcsParams
  <2> QED
    BY <1>1, <2>1, MapperMoves
<1>2. CASE s = "billing:refund:record"
  <2>1. asked = MapRefund(p)
    BY <1>2 DEF IntentToWhmcsParams
  <2> QED
    BY <1>2, <2>1, MapperMoves
<1>3. CASE s = "order:create"
  <2>1. asked = MapOrder(p)
    BY <1>3 DEF IntentToWhmcsParams
  <2> QED
    BY <1>3, <2>1, MapperMoves
<1>4. CASE s = "billing:credit:add"
  <2>1. asked = Pick(p, {"clientid", "amount", "description"})
    BY <1>4 DEF IntentToWhmcsParams, MapCredit
  <2> QED
    BY <1>4, <2>1, PickAt, WorthOf DEF Moved
<1>5. CASE s = "billing:credit:apply"
  <2>1. asked = Pick(p, {"invoiceid", "amount"})
    BY <1>5 DEF IntentToWhmcsParams
  <2> QED
    BY <1>5, <2>1, PickAt, WorthOf DEF Moved
<1>6. CASE s = "billing:payment:capture"
  <2>1. asked = Pick(p, {"invoiceid"})
    BY <1>6 DEF IntentToWhmcsParams
  <2> QED
    BY <1>6, <2>1, PickAt, WorthOf DEF Moved
<1>7. CASE s = "domain:register"
  <2> DEFINE keys == {"domainid"} \cup {k \in {"ns1"} : Value(p, k) \in Strings \ {"blank"}}
  <2>1. asked = Pick(p, keys)
    BY <1>7 DEF IntentToWhmcsParams, MapRegister
  <2>2. "amount" \notin keys /\ "amountout" \notin keys /\ "domainpriceoverride" \notin keys
    OBVIOUS
  <2> HIDE DEF keys
  <2> QED
    BY <1>7, <2>1, <2>2, PickAt, WorthOf DEF Moved
<1>8. CASE s = "domain:renew"
  <2>1. asked = Pick(p, {"domainid", "regperiod"})
    BY <1>8 DEF IntentToWhmcsParams
  <2> QED
    BY <1>8, <2>1, PickAt, WorthOf DEF Moved
<1>9. CASE s = "service:upgrade"
  <2>1. asked = Pick(p, {"serviceid", "type", "newproductid", "newproductbillingcycle",
                         "configoptions", "addonid", "promocode", "paymentmethod"})
    BY <1>9 DEF IntentToWhmcsParams, MapUpgrade
  <2> QED
    BY <1>9, <2>1, PickAt, WorthOf DEF Moved
<1>10. CASE s = "billing:quote:accept"
  <2>1. asked = Pick(p, {"quoteid"})
    BY <1>10 DEF IntentToWhmcsParams
  <2> QED
    BY <1>10, <2>1, PickAt, WorthOf DEF Moved
<1>11. \/ s = "billing:payment:add" \/ s = "billing:refund:record" \/ s = "order:create"
       \/ s = "billing:credit:add" \/ s = "billing:credit:apply"
       \/ s = "billing:payment:capture" \/ s = "domain:register" \/ s = "domain:renew"
       \/ s = "service:upgrade" \/ s = "billing:quote:accept"
  BY DEF HighRisk, Destructive, Composite
<1> QED
  BY <1>1, <1>2, <1>3, <1>4, <1>5, <1>6, <1>7, <1>8, <1>9, <1>10, <1>11

(* Whatever is drafted, under whatever cap and version of WHMCS: what an   *)
(* executed intent moves is not negative and no more than the caps judged. *)
THEOREM JudgedFully == ParamsSpec => []JudgedInFull
<1>1. ParamsInit => JudgedInFull
  BY DEF ParamsInit, JudgedInFull
<1>2. JudgedInFull /\ [ParamsNext]_paramVars => JudgedInFull'
  <2> SUFFICES ASSUME JudgedInFull, [ParamsNext]_paramVars
               PROVE  JudgedInFull'
    OBVIOUS
  <2>1. CASE Validate
    BY <2>1 DEF Validate, JudgedInFull
  <2>2. CASE Block
    BY <2>2 DEF Block, JudgedInFull
  <2>3. CASE Execute
    <3> SUFFICES ASSUME stage' = "executed", scope \in HighRisk \ Destructive
                 PROVE  0 <= Moves' /\ Moves' <= judged'
      BY <2>3 DEF Execute, JudgedInFull
    <3>1. /\ scope \in HighRisk \ (Destructive \cup Composite)
          /\ 0 < AmountOf(scope, params) /\ judged' = AmountOf(scope, params)
          /\ sent' = IntentToWhmcsParams(scope, params)
      BY <2>3 DEF Execute, WithinCap
    <3>2. Moves' = Moved(IntentToWhmcsParams(scope, params))
      <4>1. Moves' = Moved(sent')
        BY WorthOf DEF Moves, Moved, At
      <4> QED
        BY <3>1, <4>1
    <3>3. Worth(Value(params, "amount")) \in Int /\ PriceOf(Value(params, "domains")) \in Nat
      BY WorthOf
    <3>4. CASE scope \in {"billing:payment:add", "billing:credit:add", "billing:refund:record",
                          "billing:credit:apply"}
      <4>1. Moves' = Worth(Value(params, "amount"))
        BY <3>1, <3>2, <3>4, ExecutedMoves
      <4>2. AmountOf(scope, params) = Worth(Value(params, "amount"))
        BY <3>4 DEF AmountOf
      <4> QED
        BY <3>1, <3>3, <4>1, <4>2
    <3>5. CASE scope = "order:create"
      <4>1. Moves' = PriceOf(Value(params, "domains"))
        BY <3>1, <3>2, <3>5, ExecutedMoves
      <4> QED
        BY <3>1, <3>3, <3>5, <4>1 DEF AmountOf
    <3>6. CASE scope \in {"billing:payment:capture", "domain:register", "domain:renew",
                          "service:upgrade", "billing:quote:accept"}
      <4>1. Moves' = 0
        BY <3>1, <3>2, <3>6, ExecutedMoves
      <4>2. AmountOf(scope, params) = Worth(Value(params, "amount"))
        BY <3>6 DEF AmountOf
      <4> QED
        BY <3>1, <3>3, <4>1, <4>2
    <3> QED
      BY <3>1, <3>4, <3>5, <3>6 DEF HighRisk, Destructive, Composite
  <2>4. CASE UNCHANGED paramVars
    BY <2>4 DEF paramVars, JudgedInFull, Moves
  <2> QED
    BY <2>1, <2>2, <2>3, <2>4 DEF ParamsNext
<1> QED
  BY <1>1, <1>2, PTL DEF ParamsSpec

-----------------------------------------------------------------------------
(* Plans and their evidence.                                               *)

Targets == {TargetOf(p) : p \in Processes}

(* WHMCS served the action, and what stands until t does not outlast that. *)
BackedUntil(target, action, t) ==
  /\ target \in Targets /\ action \in KnownActions
  /\ provenAt[target][action] > 0
  /\ t <= provenAt[target][action] + EvidenceTtl + Slack(action)

PlanningTypes ==
  /\ process \in Processes /\ tick \in Nat \ {0}
  /\ provenAt \in [Targets -> [KnownActions -> Nat]]
  /\ \A target \in Targets, action \in KnownActions : provenAt[target][action] <= tick

EvidenceInv ==
  \A key \in DOMAIN evidence :
    /\ evidence[key].expires \in Nat
    /\ evidence[key].status = "supported" =>
         BackedUntil(key.target, key.action, evidence[key].expires)

PlanInv ==
  \A plan \in plans :
    /\ plan.expires \in Nat /\ plan.candidate \in Candidates
    /\ \A i \in DOMAIN plan.candidate.steps : plan.candidate.steps[i].op \in DOMAIN Catalog
    /\ \A action \in Needed(plan.candidate) : BackedUntil(plan.target, action, plan.expires)

PreflightShaped(f) ==
  \/ f = NoPreflight
  \/ /\ f = [at |-> f.at, candidate |-> f.candidate, context |-> f.context,
            since |-> f.since, todo |-> f.todo, answers |-> f.answers,
            aborted |-> f.aborted, served |-> f.served]
     /\ f.at \in {"probing", "reading"}
     /\ f.candidate \in Candidates
     /\ f.since \in Nat /\ f.since <= tick
     /\ \A p \in f.todo :
          p.turn \in Nat /\ p.key.target \in Targets /\ p.key.action \in KnownActions
     /\ f.at = "reading" => f.todo # {}
     /\ f.at = "probing" => f.served = "none"

PreflightInv ==
  /\ preflight = [x \in Preflights |-> preflight[x]]
  /\ \A x \in Preflights :
       /\ PreflightShaped(preflight[x])
       /\ preflight[x].at = "reading" /\ preflight[x].served = "supported" =>
            LET key == ProbeKey(x)
            IN /\ provenAt[key.target][key.action] > 0
               /\ provenAt[key.target][key.action] + Slack(key.action) >= preflight[x].since

DraftInv ==
  \A d \in drafting :
    /\ d = [who |-> d.who, plan |-> d.plan, todo |-> d.todo, at |-> d.at]
    /\ d.at \in Nat
    /\ \A action \in Needed(d.plan.candidate) : BackedUntil(Target, action, d.at + 1)

PlannerInv == PlanningTypes /\ EvidenceInv /\ PlanInv /\ PreflightInv /\ DraftInv

(* What was forbidden was forbidden before now.                            *)
RevokedInv ==
  /\ revokedAt \in [KnownActions -> Nat]
  /\ \A action \in KnownActions : revokedAt[action] <= tick

LEMMA SlackIsNatural == \A action : Slack(action) \in Nat
  BY PlanningTimes DEF Slack

(* Of some numbers one is least.                                           *)
LEMMA LeastNatural ==
  ASSUME NEW S \in SUBSET Nat, S # {}
  PROVE  \E n \in S : \A m \in S : n <= m
<1>1. PICK n \in S : \A m \in S : ~(<<m, n>> \in OpToRel(<, Nat))
  BY NatLessThanWellFounded, WFMin
<1>2. \A m \in S : ~(m < n)
  BY <1>1 DEF OpToRel
<1> QED
  BY <1>2

LEMMA MinOfNaturals ==
  ASSUME NEW S \in SUBSET Nat, S # {}
  PROVE  Min(S) \in S /\ \A m \in S : Min(S) <= m
BY LeastNatural DEF Min

(* The probe that is next is one of those to be done.                      *)
LEMMA NextTurnIsTurn ==
  ASSUME NEW x, preflight[x].todo # {}, \A p \in preflight[x].todo : p.turn \in Nat
  PROVE  NextTurn(x) \in preflight[x].todo
<1> DEFINE S == {p.turn : p \in preflight[x].todo}
<1>1. S \in SUBSET Nat /\ S # {}
  OBVIOUS
<1>2. PICK n \in S : \A m \in S : n <= m
  <2> HIDE DEF S
  <2> QED
    BY <1>1, LeastNatural
<1>3. \E p \in preflight[x].todo : \A q \in preflight[x].todo : p.turn <= q.turn
  BY <1>2
<1> QED
  BY <1>3 DEF NextTurn

(* What a list of evidence shows is in the store.                          *)
LEMMA LiveOf ==
  ASSUME NEW t
  PROVE  /\ DOMAIN Live(evidence, t) \subseteq DOMAIN evidence
         /\ \A key \in DOMAIN Live(evidence, t) : Live(evidence, t)[key] = evidence[key]
BY DEF Live

LEMMA ListedOf ==
  ASSUME NEW t, NEW key \in DOMAIN Listed(t)
  PROVE  /\ key \in DOMAIN evidence /\ key.target = Target
         /\ Listed(t)[key] = evidence[key]
<1> DEFINE live == Live(evidence, t)
<1>1. /\ DOMAIN live \subseteq DOMAIN evidence
      /\ \A k \in DOMAIN live : live[k] = evidence[k]
  BY LiveOf
<1>2. Listed(t) = [k \in {j \in DOMAIN live : j.target = Target} |-> live[k]]
  BY DEF Listed
<1> HIDE DEF live
<1> QED
  BY <1>1, <1>2

(* Evidence that was kept is backed as before.                             *)
LEMMA LiveKept ==
  ASSUME EvidenceInv, NEW t, evidence' = Live(evidence, t), UNCHANGED provenAt
  PROVE  EvidenceInv'
<1>1. \A key \in DOMAIN evidence' : key \in DOMAIN evidence /\ evidence'[key] = evidence[key]
  BY LiveOf
<1> QED
  BY <1>1 DEF EvidenceInv, BackedUntil, Targets, KnownActions

(* A plan that is compiled stands no longer than what it relies on.        *)
LEMMA CompiledIsBacked ==
  ASSUME PlanningTypes, EvidenceInv, NEW candidate \in Candidates, NEW context, NEW t \in Nat,
         NEW ttl \in Nat, NEW plan \in Compiled(candidate, context, Listed(t), t, ttl)
  PROVE  /\ plan.expires \in Nat /\ plan.candidate \in Candidates
         /\ \A i \in DOMAIN plan.candidate.steps : plan.candidate.steps[i].op \in DOMAIN Catalog
         /\ \A action \in Needed(plan.candidate) : BackedUntil(plan.target, action, plan.expires)
<1> DEFINE listed == Listed(t)
           cap == IF ttl < MaxPlanTtl THEN ttl ELSE MaxPlanTtl
<1>1. /\ Acceptable(candidate, context) /\ Proven(candidate, listed)
      /\ plan.candidate = candidate /\ plan.target = Target
      /\ plan.expires \in Expiries(candidate, listed, t, ttl)
  BY DEF Compiled
<1>2. PICK found \in [Needed(candidate) -> DOMAIN listed] :
        /\ \A a \in Needed(candidate) : found[a].action = a
        /\ plan.expires = Min({t + cap} \cup {listed[found[a]].expires : a \in DOMAIN found})
  BY <1>1 DEF Expiries
<1>3. \A a \in Needed(candidate) : Supported(listed, a)
  BY <1>1 DEF Proven, Needed
<1>4. t + cap \in Nat
  BY PlanningTimes
<1>5. \A a \in Needed(candidate) :
        /\ found[a] \in DOMAIN evidence /\ found[a].target = Target
        /\ listed[found[a]] = evidence[found[a]]
        /\ listed[found[a]].status = "supported"
  <2> TAKE a \in Needed(candidate)
  <2>1. found[a] \in DOMAIN listed /\ found[a].action = a
    BY <1>2
  <2>2. found[a] \in DOMAIN evidence /\ found[a].target = Target
        /\ listed[found[a]] = evidence[found[a]]
    BY <2>1, ListedOf
  <2>3. listed[found[a]].status = "supported"
    BY <1>3, <2>1 DEF Supported, About
  <2> QED
    BY <2>2, <2>3
<1> HIDE DEF listed, cap
<1>6. \A a \in Needed(candidate) :
        /\ listed[found[a]].expires \in Nat
        /\ BackedUntil(Target, a, listed[found[a]].expires)
  <2> TAKE a \in Needed(candidate)
  <2>1. found[a].action = a
    BY <1>2
  <2> QED
    BY <1>5, <2>1 DEF EvidenceInv
<1> DEFINE S == {t + cap} \cup {listed[found[a]].expires : a \in DOMAIN found}
<1>7. S \in SUBSET Nat /\ S # {} /\ plan.expires = Min(S)
  BY <1>2, <1>4, <1>6
<1>8. \A a \in Needed(candidate) : listed[found[a]].expires \in S
  BY <1>2
<1> HIDE DEF S
<1>9. plan.expires \in Nat /\ \A m \in S : plan.expires <= m
  <2>1. Min(S) \in S /\ \A m \in S : Min(S) <= m
    BY <1>7, MinOfNaturals
  <2> QED
    BY <1>7, <2>1
<1>10. ASSUME NEW a \in Needed(candidate) PROVE BackedUntil(Target, a, plan.expires)
  <2>1. /\ listed[found[a]].expires \in Nat /\ plan.expires <= listed[found[a]].expires
        /\ BackedUntil(Target, a, listed[found[a]].expires)
    BY <1>6, <1>8, <1>9
  <2>2. provenAt[Target][a] \in Nat /\ EvidenceTtl \in Nat /\ Slack(a) \in Nat
    BY <2>1, PlanningTimes, SlackIsNatural DEF BackedUntil, PlanningTypes
  <2> QED
    BY <1>9, <2>1, <2>2 DEF BackedUntil
<1>11. \A i \in DOMAIN candidate.steps : candidate.steps[i].op \in DOMAIN Catalog
  BY <1>1 DEF Acceptable, StepValid, Steps, ToSet
<1> QED
  BY <1>1, <1>9, <1>10, <1>11

(* What a preflight has to do: probes of the running installation.         *)
LEMMA ProbesAreTurns ==
  ASSUME process \in Processes, NEW candidate \in Candidates, NEW context,
         \A i \in DOMAIN candidate.steps : candidate.steps[i].op \in DOMAIN Catalog,
         NEW p \in Probes(candidate, context)
  PROVE  p.turn \in Nat /\ p.key.target \in Targets /\ p.key.action \in KnownActions
<1>1. PICK i \in DOMAIN candidate.steps : \E a \in Actions(candidate.steps[i]) :
        p = [turn |-> i, key |-> EvidenceKey(candidate.steps[i], a)]
  BY DEF Probes
<1>2. PICK a \in Actions(candidate.steps[i]) :
        p = [turn |-> i, key |-> EvidenceKey(candidate.steps[i], a)]
  BY <1>1
<1>3. i \in Nat
  BY StepsAreLists
<1>4. Target \in Targets
  BY DEF Target, Targets
<1>5. a \in KnownActions
  BY DEF Actions, KnownActions
<1> QED
  BY <1>2, <1>3, <1>4, <1>5 DEF EvidenceKey

(* What stays backed while the history of the probes does not change.      *)
LEMMA BackingKept ==
  ASSUME UNCHANGED provenAt
  PROVE  /\ UNCHANGED evidence /\ EvidenceInv => EvidenceInv'
         /\ UNCHANGED plans /\ PlanInv => PlanInv'
         /\ UNCHANGED <<process, drafting>> /\ DraftInv => DraftInv'
         /\ UNCHANGED <<process, tick>> /\ PlanningTypes => PlanningTypes'
<1>1. UNCHANGED evidence /\ EvidenceInv => EvidenceInv'
  BY DEF EvidenceInv, BackedUntil, Targets, KnownActions
<1>2. UNCHANGED plans /\ PlanInv => PlanInv'
  BY DEF PlanInv, BackedUntil, Needed, Actions, Steps, Targets, KnownActions
<1>3. UNCHANGED <<process, drafting>> /\ DraftInv => DraftInv'
  BY DEF DraftInv, BackedUntil, Needed, Actions, Steps, Target, TargetOf, Targets, KnownActions
<1>4. UNCHANGED <<process, tick>> /\ PlanningTypes => PlanningTypes'
  BY DEF PlanningTypes, Targets, KnownActions
<1> QED
  BY <1>1, <1>2, <1>3, <1>4

LEMMA HeldAreBacked ==
  ASSUME PlanInv, NEW made, Hold(made), UNCHANGED provenAt,
         \A plan \in made :
           /\ plan.expires \in Nat /\ plan.candidate \in Candidates
           /\ \A i \in DOMAIN plan.candidate.steps :
                plan.candidate.steps[i].op \in DOMAIN Catalog
           /\ \A action \in Needed(plan.candidate) :
                BackedUntil(plan.target, action, plan.expires)
  PROVE  PlanInv'
<1>1. \A plan \in plans' : plan \in plans \/ plan \in made
  BY DEF Hold
<1> QED
  BY <1>1 DEF PlanInv, BackedUntil, Needed, Actions, Steps, Targets, KnownActions

(* A preflight that rests while no probe is served.                        *)
LEMMA PreflightRests ==
  ASSUME PreflightInv, UNCHANGED <<preflight, tick, provenAt>>
  PROVE  PreflightInv'
<1>1. \A x : ProbeKey(x)' = ProbeKey(x)
  BY DEF ProbeKey, NextTurn
<1>2. \A x : PreflightShaped(preflight[x])' <=> PreflightShaped(preflight[x])
  BY DEF PreflightShaped, Targets, KnownActions
<1> QED
  BY <1>1, <1>2 DEF PreflightInv

(* One preflight takes a step that does not bring an answer.               *)
LEMMA PreflightMoves ==
  ASSUME PreflightInv, NEW x \in Preflights, NEW f, PreflightShaped(f),
         preflight' = [preflight EXCEPT ![x] = f], UNCHANGED <<tick, provenAt>>,
         f.at = "reading" /\ f.served = "supported" =>
           /\ preflight[x].at = "reading" /\ preflight[x].served = "supported"
           /\ f.todo = preflight[x].todo /\ f.since = preflight[x].since
  PROVE  PreflightInv'
<1>1. /\ preflight' = [y \in Preflights |-> preflight'[y]]
      /\ preflight'[x] = f
      /\ \A y \in Preflights \ {x} : preflight'[y] = preflight[y]
  BY DEF PreflightInv
<1>2. ASSUME NEW y \in Preflights
      PROVE  /\ PreflightShaped(preflight[y])'
             /\ preflight'[y].at = "reading" /\ preflight'[y].served = "supported" =>
                  LET key == ProbeKey(y)'
                  IN /\ provenAt'[key.target][key.action] > 0
                     /\ provenAt'[key.target][key.action] + Slack(key.action)
                          >= preflight'[y].since
  <2>1. CASE y = x
    <3>1. PreflightShaped(preflight[y])'
      BY <1>1, <2>1 DEF PreflightShaped, Targets, KnownActions
    <3>2. f.todo = preflight[x].todo => ProbeKey(x)' = ProbeKey(x)
      BY <1>1 DEF ProbeKey, NextTurn
    <3> QED
      BY <1>1, <2>1, <3>1, <3>2 DEF PreflightInv
  <2>2. CASE y # x
    <3>1. preflight'[y] = preflight[y]
      BY <1>1, <2>2
    <3>2. ProbeKey(y)' = ProbeKey(y)
      BY <3>1 DEF ProbeKey, NextTurn
    <3>3. PreflightShaped(preflight[y])'
      BY <3>1 DEF PreflightInv, PreflightShaped, Targets, KnownActions
    <3> QED
      BY <3>1, <3>2, <3>3 DEF PreflightInv
  <2> QED
    BY <2>1, <2>2
<1> QED
  BY <1>1, <1>2 DEF PreflightInv

LEMMA NextProbeKept ==
  ASSUME PreflightInv, NEW x \in Preflights, preflight[x].at \in {"probing", "reading"},
         NextProbe(x), UNCHANGED <<tick, provenAt>>
  PROVE  PreflightInv'
<1> DEFINE b == preflight[x]
           rest == b.todo \ {NextTurn(x)}
           f == [at |-> "probing", candidate |-> b.candidate, context |-> b.context,
                 since |-> b.since, todo |-> rest, answers |-> b.answers,
                 aborted |-> b.aborted, served |-> "none"]
<1>1. PreflightShaped(b) /\ b # NoPreflight
  BY DEF PreflightInv, NoPreflight
<1>2. b = [at |-> b.at, candidate |-> b.candidate, context |-> b.context,
           since |-> b.since, todo |-> b.todo, answers |-> b.answers,
           aborted |-> b.aborted, served |-> b.served]
  BY <1>1 DEF PreflightShaped
<1>3. preflight' = [preflight EXCEPT ![x] = f]
  <2>1. preflight' = [preflight EXCEPT ![x] =
          [b EXCEPT !.todo = rest, !.at = "probing", !.served = "none"]]
    BY DEF NextProbe, PreflightInv
  <2> DEFINE shape == [at |-> b.at, candidate |-> b.candidate, context |-> b.context,
                       since |-> b.since, todo |-> b.todo, answers |-> b.answers,
                       aborted |-> b.aborted, served |-> b.served]
  <2> HIDE DEF b, rest
  <2>2. [shape EXCEPT !.todo = rest, !.at = "probing", !.served = "none"] = f
    <3> DEFINE Shape(at, todo, served) ==
                 [at |-> at, candidate |-> b.candidate, context |-> b.context,
                  since |-> b.since, todo |-> todo, answers |-> b.answers,
                  aborted |-> b.aborted, served |-> served]
    <3>1. [Shape(b.at, b.todo, b.served) EXCEPT !.todo = rest] = Shape(b.at, rest, b.served)
      OBVIOUS
    <3>2. [Shape(b.at, rest, b.served) EXCEPT !.at = "probing"]
            = Shape("probing", rest, b.served)
      OBVIOUS
    <3>3. [Shape("probing", rest, b.served) EXCEPT !.served = "none"]
            = Shape("probing", rest, "none")
      OBVIOUS
    <3>4. shape = Shape(b.at, b.todo, b.served) /\ f = Shape("probing", rest, "none")
      OBVIOUS
    <3> HIDE DEF shape, f, Shape
    <3> QED
      BY <3>1, <3>2, <3>3, <3>4
  <2>3. b = shape
    BY <1>2
  <2> QED
    BY <2>1, <2>2, <2>3
<1>4. PreflightShaped(f)
  BY <1>1 DEF PreflightShaped
<1> QED
  BY <1>3, <1>4, PreflightMoves

LEMMA ProbeKept ==
  ASSUME PlannerInv, NEW x \in Preflights, Probe(x)
  PROVE  PlannerInv'
<1>1. /\ preflight[x].at = "probing" /\ preflight[x].todo # {}
      /\ UNCHANGED <<process, tick, plans, drafting, provenAt>>
      /\ \/ NextProbe(x) /\ UNCHANGED evidence
         \/ /\ evidence' = Live(evidence, preflight[x].since)
            /\ preflight' = [preflight EXCEPT ![x].at = "reading"]
  BY DEF Probe, around, outcome
<1>2. PlanningTypes' /\ PlanInv' /\ DraftInv'
  BY <1>1, BackingKept DEF PlannerInv
<1>3. EvidenceInv'
  BY <1>1, BackingKept, LiveKept DEF PlannerInv
<1>4. PreflightInv'
  <2>1. CASE NextProbe(x)
    BY <1>1, <2>1, NextProbeKept DEF PlannerInv
  <2>2. CASE preflight' = [preflight EXCEPT ![x].at = "reading"]
    <3> DEFINE b == preflight[x]
               f == [at |-> "reading", candidate |-> b.candidate, context |-> b.context,
                     since |-> b.since, todo |-> b.todo, answers |-> b.answers,
                     aborted |-> b.aborted, served |-> b.served]
    <3>1. PreflightInv /\ PreflightShaped(b) /\ b # NoPreflight /\ b.served = "none"
      BY <1>1 DEF PlannerInv, PreflightInv, PreflightShaped, NoPreflight
    <3>2. b = [at |-> b.at, candidate |-> b.candidate, context |-> b.context,
               since |-> b.since, todo |-> b.todo, answers |-> b.answers,
               aborted |-> b.aborted, served |-> b.served]
      BY <3>1 DEF PreflightShaped
    <3>3. preflight' = [preflight EXCEPT ![x] = f]
      <4>1. preflight' = [preflight EXCEPT ![x] = [b EXCEPT !.at = "reading"]]
        BY <2>2
      <4> HIDE DEF b
      <4>2. [b EXCEPT !.at = "reading"] = f
        BY <3>2
      <4> QED
        BY <4>1, <4>2
    <3>4. PreflightShaped(f)
      BY <1>1, <3>1 DEF PreflightShaped
    <3> QED
      BY <1>1, <3>1, <3>3, <3>4, PreflightMoves
  <2> QED
    BY <1>1, <2>1, <2>2
<1> QED
  BY <1>2, <1>3, <1>4 DEF PlannerInv

LEMMA AwaitKept ==
  ASSUME PlanningTypes, PreflightInv, NEW x \in Preflights, NEW candidate \in Candidates,
         NEW context, NEW answers, Await(x, candidate, context, answers),
         \A i \in DOMAIN candidate.steps : candidate.steps[i].op \in DOMAIN Catalog,
         UNCHANGED <<tick, provenAt>>
  PROVE  PreflightInv'
<1> DEFINE f == [at |-> "probing", candidate |-> candidate, context |-> context,
                 since |-> tick, todo |-> Probes(candidate, context), answers |-> answers,
                 aborted |-> FALSE, served |-> "none"]
<1>1. preflight' = [preflight EXCEPT ![x] = f]
  BY DEF Await
<1>2. \A p \in Probes(candidate, context) :
        p.turn \in Nat /\ p.key.target \in Targets /\ p.key.action \in KnownActions
  BY ProbesAreTurns DEF PlanningTypes
<1>3. PreflightShaped(f)
  BY <1>2 DEF PreflightShaped, PlanningTypes
<1> QED
  BY <1>1, <1>3, PreflightMoves

LEMMA AbortKept ==
  ASSUME PlannerInv, NEW x \in Preflights, AbortPreflight(x)
  PROVE  PlannerInv'
<1> DEFINE b == preflight[x]
           yes == TRUE
           f == [at |-> b.at, candidate |-> b.candidate, context |-> b.context,
                 since |-> b.since, todo |-> b.todo, answers |-> b.answers,
                 aborted |-> yes, served |-> b.served]
<1>1. /\ b.at # "idle" /\ preflight' = [preflight EXCEPT ![x].aborted = TRUE]
      /\ UNCHANGED <<process, tick, evidence, plans, drafting, provenAt>>
  BY DEF AbortPreflight, around, outcome
<1>2. PreflightInv /\ PreflightShaped(b) /\ b # NoPreflight
  BY <1>1 DEF PlannerInv, PreflightInv, NoPreflight
<1>3. b = [at |-> b.at, candidate |-> b.candidate, context |-> b.context,
           since |-> b.since, todo |-> b.todo, answers |-> b.answers,
           aborted |-> b.aborted, served |-> b.served]
  BY <1>2 DEF PreflightShaped
<1>4. preflight' = [preflight EXCEPT ![x] = f]
  <2>1. preflight' = [preflight EXCEPT ![x] = [b EXCEPT !.aborted = yes]]
    BY <1>1
  <2> DEFINE shape == [at |-> b.at, candidate |-> b.candidate, context |-> b.context,
                       since |-> b.since, todo |-> b.todo, answers |-> b.answers,
                       aborted |-> b.aborted, served |-> b.served]
  <2> HIDE DEF b, yes
  <2>2. [shape EXCEPT !.aborted = yes] = f
    OBVIOUS
  <2>3. b = shape
    BY <1>3
  <2> QED
    BY <2>1, <2>2, <2>3
<1>5. PreflightShaped(f)
  BY <1>2 DEF PreflightShaped
<1>6. PreflightInv'
  BY <1>1, <1>2, <1>4, <1>5, PreflightMoves
<1> QED
  BY <1>1, <1>6, BackingKept DEF PlannerInv

(* What WHMCS serves once more is only better backed.                      *)
LEMMA BackingGrows ==
  ASSUME PlannerInv, UNCHANGED <<process, tick, evidence, plans, drafting>>,
         provenAt' \in [Targets -> [KnownActions -> Nat]],
         \A target \in Targets, action \in KnownActions :
           /\ provenAt[target][action] <= provenAt'[target][action]
           /\ provenAt'[target][action] <= tick
  PROVE  PlanningTypes' /\ EvidenceInv' /\ PlanInv' /\ DraftInv'
<1>1. PlanningTypes /\ EvidenceInv /\ PlanInv /\ DraftInv
  BY DEF PlannerInv
<1>2. Targets' = Targets /\ KnownActions' = KnownActions /\ Target' = Target
  BY DEF Targets, KnownActions, Target, TargetOf
<1>3. PlanningTypes'
  BY <1>1, <1>2 DEF PlanningTypes
<1>4. ASSUME NEW target, NEW action, NEW t \in Nat, BackedUntil(target, action, t)
      PROVE  BackedUntil(target, action, t)'
  <2>1. target \in Targets /\ action \in KnownActions
    BY <1>4 DEF BackedUntil
  <2>2. provenAt[target][action] \in Nat /\ provenAt'[target][action] \in Nat
    BY <1>1, <2>1 DEF PlanningTypes
  <2>3. provenAt[target][action] <= provenAt'[target][action]
        /\ EvidenceTtl \in Nat /\ Slack(action) \in Nat
    BY <2>1, PlanningTimes, SlackIsNatural
  <2>4. /\ provenAt[target][action] > 0
        /\ t <= provenAt[target][action] + EvidenceTtl + Slack(action)
    BY <1>4 DEF BackedUntil
  <2>5. /\ provenAt'[target][action] > 0
        /\ t <= provenAt'[target][action] + EvidenceTtl + Slack(action)
    BY <2>2, <2>3, <2>4
  <2> QED
    BY <1>2, <2>1, <2>5 DEF BackedUntil
<1>5. EvidenceInv'
  BY <1>1, <1>4 DEF EvidenceInv
<1>6. \A candidate : Needed(candidate)' = Needed(candidate)
  BY DEF Needed, Actions, Steps
<1>7. PlanInv'
  BY <1>1, <1>4, <1>6 DEF PlanInv
<1>8. DraftInv'
  <2> SUFFICES ASSUME NEW d \in drafting
               PROVE  /\ d = [who |-> d.who, plan |-> d.plan, todo |-> d.todo, at |-> d.at]
                      /\ d.at \in Nat
                      /\ \A action \in Needed(d.plan.candidate) :
                           BackedUntil(Target, action, d.at + 1)'
    BY <1>6 DEF DraftInv
  <2>1. d.at \in Nat /\ d.at + 1 \in Nat
    BY <1>1 DEF DraftInv
  <2> QED
    BY <1>1, <1>2, <1>4, <2>1 DEF DraftInv
<1> QED
  BY <1>3, <1>5, <1>7, <1>8

(* An answer is on its way, and the history of the grants with it.         *)
LEMMA AnswerOnItsWay ==
  ASSUME PlannerInv, NEW x \in Preflights, NEW status, NEW at \in Nat,
         preflight[x].at = "reading", preflight[x].served = "none",
         preflight' = [preflight EXCEPT ![x].served = status],
         provenAt' = [provenAt EXCEPT ![ProbeKey(x).target][ProbeKey(x).action] = at],
         UNCHANGED <<process, tick, evidence, plans, drafting>>,
         at <= tick, provenAt[ProbeKey(x).target][ProbeKey(x).action] <= at,
         status = "supported" =>
           at > 0 /\ at + Slack(ProbeKey(x).action) >= preflight[x].since
  PROVE  PlannerInv'
<1> DEFINE b == preflight[x]
           key == ProbeKey(x)
           f == [at |-> b.at, candidate |-> b.candidate, context |-> b.context,
                 since |-> b.since, todo |-> b.todo, answers |-> b.answers,
                 aborted |-> b.aborted, served |-> status]
<1>1. /\ b.at = "reading" /\ b.served = "none"
      /\ preflight' = [preflight EXCEPT ![x].served = status]
      /\ provenAt' = [provenAt EXCEPT ![key.target][key.action] = at]
      /\ UNCHANGED <<process, tick, evidence, plans, drafting>>
  OBVIOUS
<1>2. /\ PreflightInv /\ PlanningTypes /\ PreflightShaped(b) /\ b # NoPreflight
      /\ preflight = [y \in Preflights |-> preflight[y]]
  BY <1>1 DEF PlannerInv, PreflightInv, NoPreflight
<1>3. /\ b = [at |-> b.at, candidate |-> b.candidate, context |-> b.context,
              since |-> b.since, todo |-> b.todo, answers |-> b.answers,
              aborted |-> b.aborted, served |-> b.served]
      /\ b.todo # {} /\ b.since \in Nat /\ b.since <= tick
      /\ \A p \in b.todo :
           p.turn \in Nat /\ p.key.target \in Targets /\ p.key.action \in KnownActions
  BY <1>1, <1>2 DEF PreflightShaped
<1>4. key.target \in Targets /\ key.action \in KnownActions
  <2>1. NextTurn(x) \in b.todo
    BY <1>3, NextTurnIsTurn
  <2> QED
    BY <1>3, <2>1 DEF ProbeKey
<1>5. tick \in Nat /\ tick > 0 /\ provenAt \in [Targets -> [KnownActions -> Nat]]
      /\ \A target \in Targets, action \in KnownActions : provenAt[target][action] <= tick
  BY <1>2 DEF PlanningTypes
<1>6. at \in Nat /\ at <= tick /\ provenAt[key.target][key.action] <= at
  OBVIOUS
<1>7. status = "supported" => at > 0 /\ at + Slack(key.action) >= b.since
  OBVIOUS
<1>8. preflight' = [preflight EXCEPT ![x] = f]
  <2>1. preflight' = [preflight EXCEPT ![x] = [b EXCEPT !.served = status]]
    BY <1>1
  <2> DEFINE shape == [at |-> b.at, candidate |-> b.candidate, context |-> b.context,
                       since |-> b.since, todo |-> b.todo, answers |-> b.answers,
                       aborted |-> b.aborted, served |-> b.served]
  <2> HIDE DEF b, key
  <2>2. [shape EXCEPT !.served = status] = f
    OBVIOUS
  <2>3. b = shape
    BY <1>3
  <2> QED
    BY <2>1, <2>2, <2>3
<1> HIDE DEF key
<1>9. /\ provenAt' \in [Targets -> [KnownActions -> Nat]]
      /\ provenAt'[key.target][key.action] = at
  <2> DEFINE target == key.target
             action == key.action
  <2>1. /\ target \in Targets /\ action \in KnownActions
        /\ provenAt' = [provenAt EXCEPT ![target][action] = at]
    BY <1>1, <1>4
  <2> DEFINE row == [provenAt[target] EXCEPT ![action] = at]
  <2> HIDE DEF target, action
  <2>3. provenAt[target] \in [KnownActions -> Nat] /\ provenAt' = [provenAt EXCEPT ![target] = row]
    BY <1>5, <2>1
  <2>4. row \in [KnownActions -> Nat] /\ row[action] = at
    BY <1>6, <2>1, <2>3
  <2> HIDE DEF row
  <2>2. /\ provenAt' \in [Targets -> [KnownActions -> Nat]]
        /\ provenAt'[target][action] = at
    BY <1>5, <2>1, <2>3, <2>4
  <2> QED
    BY <2>2 DEF target, action
<1>10. \A target \in Targets, action \in KnownActions :
         /\ provenAt[target][action] <= provenAt'[target][action]
         /\ provenAt'[target][action] <= tick
  <2> TAKE target \in Targets, action \in KnownActions
  <2>1. provenAt[target][action] \in Nat /\ provenAt[target][action] <= tick
    BY <1>5
  <2>2. CASE target = key.target /\ action = key.action
    BY <1>6, <1>9, <2>2
  <2>3. CASE ~(target = key.target /\ action = key.action)
    <3>1. provenAt'[target][action] = provenAt[target][action]
      BY <1>1, <1>4, <1>5, <2>3
    <3> QED
      BY <2>1, <3>1
  <2> QED
    BY <2>2, <2>3
<1>11. PlanningTypes' /\ EvidenceInv' /\ PlanInv' /\ DraftInv'
  BY <1>1, <1>9, <1>10, BackingGrows
<1>12. PreflightInv'
  <2>1. /\ preflight' = [y \in Preflights |-> preflight'[y]]
        /\ preflight'[x] = f
        /\ \A y \in Preflights \ {x} : preflight'[y] = preflight[y]
    BY <1>2, <1>8
  <2>2. \A y \in Preflights : preflight'[y].todo = preflight[y].todo
    BY <2>1
  <2>3. \A y \in Preflights : ProbeKey(y)' = ProbeKey(y)
    BY <2>2 DEF ProbeKey, NextTurn
  <2>4. ASSUME NEW y \in Preflights
        PROVE  /\ PreflightShaped(preflight[y])'
               /\ preflight'[y].at = "reading" /\ preflight'[y].served = "supported" =>
                    LET k == ProbeKey(y)
                    IN /\ provenAt'[k.target][k.action] > 0
                       /\ provenAt'[k.target][k.action] + Slack(k.action)
                            >= preflight'[y].since
    <3>1. CASE y = x
      <4>1. PreflightShaped(preflight[y])'
        BY <1>1, <1>2, <2>1, <3>1 DEF PreflightShaped, Targets, KnownActions
      <4>2. f.served = "supported" => at > 0 /\ at + Slack(key.action) >= b.since
        BY <1>7
      <4>3. f.since = b.since /\ f.served = status
        OBVIOUS
      <4> HIDE DEF f, b
      <4>4. preflight'[y].served = "supported" =>
              /\ provenAt'[key.target][key.action] = at /\ at > 0
              /\ at + Slack(key.action) >= preflight'[y].since
        BY <1>3, <1>9, <2>1, <3>1, <4>2, <4>3
      <4> QED
        BY <1>3, <1>5, <2>1, <3>1, <4>1, <4>3, <4>4 DEF key
    <3>2. CASE y # x
      <4>1. preflight'[y] = preflight[y]
        BY <2>1, <3>2
      <4>2. PreflightShaped(preflight[y]) /\ PreflightShaped(preflight[y])'
        BY <1>1, <1>2, <4>1 DEF PreflightInv, PreflightShaped, Targets, KnownActions
      <4> DEFINE k == ProbeKey(y)
      <4>3. ASSUME preflight[y].at = "reading", preflight[y].served = "supported"
            PROVE  /\ provenAt'[k.target][k.action] > 0
                   /\ provenAt'[k.target][k.action] + Slack(k.action) >= preflight[y].since
        <5>1. /\ provenAt[k.target][k.action] > 0
              /\ provenAt[k.target][k.action] + Slack(k.action) >= preflight[y].since
          BY <1>2, <4>3 DEF PreflightInv
        <5>2. /\ preflight[y].todo # {} /\ preflight[y].since \in Nat
              /\ \A p \in preflight[y].todo :
                   p.turn \in Nat /\ p.key.target \in Targets /\ p.key.action \in KnownActions
          BY <4>2, <4>3 DEF PreflightShaped, NoPreflight
        <5>3. k.target \in Targets /\ k.action \in KnownActions
          <6>1. NextTurn(y) \in preflight[y].todo
            BY <5>2, NextTurnIsTurn
          <6> QED
            BY <5>2, <6>1 DEF ProbeKey
        <5> HIDE DEF k
        <5>4. /\ provenAt[k.target][k.action] \in Nat /\ provenAt'[k.target][k.action] \in Nat
              /\ provenAt[k.target][k.action] <= provenAt'[k.target][k.action]
              /\ Slack(k.action) \in Nat
          BY <1>5, <1>9, <1>10, <5>3, SlackIsNatural
        <5> QED
          BY <5>1, <5>2, <5>4
      <4> QED
        BY <4>1, <4>2, <4>3
    <3> QED
      BY <3>1, <3>2
  <2> QED
    BY <2>1, <2>3, <2>4 DEF PreflightInv
<1> QED
  BY <1>11, <1>12 DEF PlannerInv

(* The probe that a preflight is reading is about a known target.          *)
LEMMA ProbeIsKnown ==
  ASSUME PlannerInv, NEW x \in Preflights, preflight[x].at = "reading"
  PROVE  /\ ProbeKey(x).target \in Targets /\ ProbeKey(x).action \in KnownActions
         /\ provenAt[ProbeKey(x).target][ProbeKey(x).action] \in Nat
         /\ provenAt[ProbeKey(x).target][ProbeKey(x).action] <= tick
         /\ preflight[x].since \in Nat /\ preflight[x].since <= tick
         /\ tick \in Nat /\ tick > 0
<1> DEFINE b == preflight[x]
<1>1. PreflightShaped(b) /\ b # NoPreflight /\ PlanningTypes
  BY DEF PlannerInv, PreflightInv, NoPreflight
<1>2. /\ b.todo # {} /\ b.since \in Nat /\ b.since <= tick
      /\ \A p \in b.todo :
           p.turn \in Nat /\ p.key.target \in Targets /\ p.key.action \in KnownActions
  BY <1>1 DEF PreflightShaped
<1>3. NextTurn(x) \in b.todo
  BY <1>2, NextTurnIsTurn
<1>4. ProbeKey(x).target \in Targets /\ ProbeKey(x).action \in KnownActions
  BY <1>2, <1>3 DEF ProbeKey
<1> QED
  BY <1>1, <1>2, <1>4 DEF PlanningTypes

LEMMA ServeProbeKept ==
  ASSUME PlannerInv, NEW x \in Preflights, ServeProbe(x)
  PROVE  PlannerInv'
<1> DEFINE key == ProbeKey(x)
<1>1. preflight[x].at = "reading" /\ preflight[x].served = "none"
  BY DEF ServeProbe
<1>2. /\ provenAt[key.target][key.action] \in Nat /\ provenAt[key.target][key.action] <= tick
      /\ preflight[x].since \in Nat /\ preflight[x].since <= tick
      /\ tick \in Nat /\ tick > 0 /\ Slack(key.action) \in Nat
  BY <1>1, ProbeIsKnown, SlackIsNatural
<1>3. CASE key.action \in permitted
  <2> DEFINE at == tick
  <2>1. /\ preflight' = [preflight EXCEPT ![x].served = "supported"]
        /\ provenAt' = [provenAt EXCEPT ![key.target][key.action] = at]
        /\ UNCHANGED <<process, tick, evidence, plans, drafting>>
    BY <1>3 DEF ServeProbe, Grant, around
  <2>2. /\ at \in Nat /\ at <= tick /\ at > 0 /\ provenAt[key.target][key.action] <= at
        /\ at + Slack(key.action) >= preflight[x].since
    BY <1>2
  <2> HIDE DEF at
  <2> QED
    BY <1>1, <1>2, <2>1, <2>2, AnswerOnItsWay
<1>4. CASE key.action \notin permitted
  <2> DEFINE at == provenAt[key.target][key.action]
             status == "not_authorized"
  <2>1. /\ preflight' = [preflight EXCEPT ![x].served = status]
        /\ provenAt' = provenAt
        /\ UNCHANGED <<process, tick, evidence, plans, drafting>>
    BY <1>4 DEF ServeProbe, around, outcome
  <2>2. provenAt' = [provenAt EXCEPT ![key.target][key.action] = at]
    <3>1. provenAt \in [Targets -> [KnownActions -> Nat]]
      BY DEF PlannerInv, PlanningTypes
    <3> QED
      BY <2>1, <3>1
  <2>3. /\ at \in Nat /\ at <= tick /\ provenAt[key.target][key.action] <= at
        /\ status # "supported"
    BY <1>2
  <2> HIDE DEF status, at
  <2> QED
    BY <1>1, <1>2, <2>1, <2>2, <2>3, AnswerOnItsWay
<1> QED
  BY <1>3, <1>4

(* A shared answer is no older than the lag, so that it was true at most   *)
(* that long before the probe began.                                       *)
LEMMA ShareProbeKept ==
  ASSUME PlannerInv, RevokedInv, NEW x \in Preflights, ShareProbe(x)
  PROVE  PlannerInv'
<1> DEFINE key == ProbeKey(x)
           granted == revokedAt[key.action]
           proven == provenAt[key.target][key.action]
           at == IF granted > proven THEN granted ELSE proven
<1>1. /\ preflight[x].at = "reading" /\ preflight[x].served = "none"
      /\ key.action \in SharedReads /\ granted > 0 /\ tick <= granted + AnswerLag
      /\ Grant(x)
      /\ provenAt' = [provenAt EXCEPT ![key.target][key.action] =
                        IF granted > @ THEN granted ELSE @]
  BY DEF ShareProbe
<1>2. /\ key.target \in Targets /\ key.action \in KnownActions
      /\ proven \in Nat /\ proven <= tick
      /\ preflight[x].since \in Nat /\ preflight[x].since <= tick
      /\ tick \in Nat /\ tick > 0
  BY <1>1, ProbeIsKnown
<1>3. granted \in Nat /\ granted <= tick
  BY <1>2 DEF RevokedInv
<1>4. Slack(key.action) = AnswerLag /\ AnswerLag \in Nat
  BY <1>1, PlanningTimes DEF Slack
<1>5. provenAt' = [provenAt EXCEPT ![key.target][key.action] = at]
  <2>1. provenAt \in [Targets -> [KnownActions -> Nat]]
    BY DEF PlannerInv, PlanningTypes
  <2> QED
    BY <1>1, <1>2, <2>1
<1>6. /\ preflight' = [preflight EXCEPT ![x].served = "supported"]
      /\ UNCHANGED <<process, tick, evidence, plans, drafting>>
  BY <1>1 DEF Grant, around
<1> HIDE DEF granted, proven
<1>7. /\ at \in Nat /\ at <= tick /\ proven <= at /\ at > 0
      /\ at + Slack(key.action) >= preflight[x].since
  BY <1>1, <1>2, <1>3, <1>4
<1> HIDE DEF at
<1> QED
  BY <1>1, <1>5, <1>6, <1>7, AnswerOnItsWay DEF proven

(* What an answer records is no younger than the probe that it answers.    *)
LEMMA ProbeAnsweredKept ==
  ASSUME PlannerInv, NEW x \in Preflights, ProbeAnswered(x)
  PROVE  PlannerInv'
<1> DEFINE b == preflight[x]
           key == ProbeKey(x)
           until == b.since + EvidenceTtl
<1>1. /\ b.at = "reading" /\ NextProbe(x)
      /\ UNCHANGED <<process, tick, plans, drafting, provenAt>>
  BY DEF ProbeAnswered, around, outcome
<1>2. PICK status : Record(x, status) /\ (status = "supported" => b.served = "supported")
  BY DEF ProbeAnswered
<1>3. evidence' = [k \in DOMAIN evidence \cup {key} |->
                     IF k = key THEN [status |-> status, expires |-> until] ELSE evidence[k]]
  BY <1>2 DEF Record, ObservedAt
<1>4. /\ PlanningTypes /\ EvidenceInv /\ PreflightInv /\ PreflightShaped(b)
      /\ b # NoPreflight
  BY <1>1 DEF PlannerInv, PreflightInv, NoPreflight
<1>5. /\ b.todo # {} /\ b.since \in Nat
      /\ \A p \in b.todo :
           p.turn \in Nat /\ p.key.target \in Targets /\ p.key.action \in KnownActions
  BY <1>1, <1>4 DEF PreflightShaped
<1>6. key.target \in Targets /\ key.action \in KnownActions
  <2>1. NextTurn(x) \in b.todo
    BY <1>5, NextTurnIsTurn
  <2> QED
    BY <1>5, <2>1 DEF ProbeKey
<1>7. b.served = "supported" =>
        /\ provenAt[key.target][key.action] > 0
        /\ provenAt[key.target][key.action] + Slack(key.action) >= b.since
  BY <1>1, <1>4 DEF PreflightInv
<1>8. until \in Nat /\ EvidenceTtl \in Nat
  BY <1>5, PlanningTimes
<1>9. status = "supported" => BackedUntil(key.target, key.action, until)
  <2>1. provenAt[key.target][key.action] \in Nat /\ Slack(key.action) \in Nat
    BY <1>4, <1>6, SlackIsNatural DEF PlanningTypes
  <2>2. ASSUME status = "supported"
        PROVE  until <= provenAt[key.target][key.action] + EvidenceTtl + Slack(key.action)
    <3>1. provenAt[key.target][key.action] + Slack(key.action) >= b.since
      BY <1>2, <1>7, <2>2
    <3> HIDE DEF key, b
    <3> QED
      BY <1>5, <1>8, <2>1, <3>1
  <2> QED
    BY <1>2, <1>6, <1>7, <2>2 DEF BackedUntil
<1>10. EvidenceInv'
  <2> HIDE DEF until, key, b
  <2>1. ASSUME NEW k \in DOMAIN evidence'
        PROVE  /\ evidence'[k].expires \in Nat
               /\ evidence'[k].status = "supported" =>
                    BackedUntil(k.target, k.action, evidence'[k].expires)
    <3>1. CASE k = key
      <4>1. evidence'[k] = [status |-> status, expires |-> until]
        BY <1>3, <2>1, <3>1
      <4> QED
        BY <1>8, <1>9, <3>1, <4>1
    <3>2. CASE k # key
      BY <1>3, <1>4, <2>1, <3>2 DEF EvidenceInv
    <3> QED
      BY <3>1, <3>2
  <2> QED
    BY <1>1, <2>1 DEF EvidenceInv, BackedUntil, Targets, KnownActions
<1>11. PlanningTypes' /\ PlanInv' /\ DraftInv'
  BY <1>1, BackingKept DEF PlannerInv
<1>12. PreflightInv'
  BY <1>1, <1>4, NextProbeKept
<1> QED
  BY <1>10, <1>11, <1>12 DEF PlannerInv

LEMMA ProbeCancelledKept ==
  ASSUME PlannerInv, NEW x \in Preflights, ProbeCancelled(x)
  PROVE  PlannerInv'
<1>1. /\ preflight[x].at = "reading" /\ NextProbe(x)
      /\ UNCHANGED <<process, tick, evidence, plans, drafting, provenAt>>
  BY DEF ProbeCancelled, around, outcome
<1>2. PreflightInv'
  BY <1>1, NextProbeKept DEF PlannerInv
<1> QED
  BY <1>1, <1>2, BackingKept DEF PlannerInv

LEMMA PreflightEndsKept ==
  ASSUME PlannerInv, NEW x \in Preflights, PreflightEnds(x)
  PROVE  PlannerInv'
<1> DEFINE b == preflight[x]
           made == IF b.answers
                     THEN Compiled(b.candidate, b.context, Listed(b.since), b.since, PreflightTtl)
                     ELSE {}
<1>1. /\ b.at = "probing" /\ Hold(made)
      /\ evidence' = IF b.answers THEN Live(evidence, b.since) ELSE evidence
      /\ preflight' = [preflight EXCEPT ![x] = NoPreflight]
      /\ UNCHANGED <<process, tick, drafting, provenAt>>
  BY DEF PreflightEnds, around, outcome
<1>2. /\ PlanningTypes /\ EvidenceInv /\ PreflightInv /\ PlanInv /\ PreflightShaped(b)
      /\ b # NoPreflight
  BY <1>1 DEF PlannerInv, PreflightInv, NoPreflight
<1>3. b.candidate \in Candidates /\ b.since \in Nat /\ PreflightTtl \in Nat
  BY <1>2, PlanningTimes DEF PreflightShaped
<1>4. \A plan \in made :
        /\ plan.expires \in Nat /\ plan.candidate \in Candidates
        /\ \A i \in DOMAIN plan.candidate.steps : plan.candidate.steps[i].op \in DOMAIN Catalog
        /\ \A action \in Needed(plan.candidate) :
             BackedUntil(plan.target, action, plan.expires)
  <2> SUFFICES ASSUME NEW plan \in made
               PROVE  /\ plan.expires \in Nat /\ plan.candidate \in Candidates
                      /\ \A i \in DOMAIN plan.candidate.steps :
                           plan.candidate.steps[i].op \in DOMAIN Catalog
                      /\ \A action \in Needed(plan.candidate) :
                           BackedUntil(plan.target, action, plan.expires)
    OBVIOUS
  <2>1. plan \in Compiled(b.candidate, b.context, Listed(b.since), b.since, PreflightTtl)
    OBVIOUS
  <2> HIDE DEF b, made
  <2> QED
    BY <1>2, <1>3, <2>1, CompiledIsBacked
<1> HIDE DEF made
<1>5. PlanInv'
  BY <1>1, <1>2, <1>4, HeldAreBacked
<1>6. EvidenceInv'
  BY <1>1, <1>2, BackingKept, LiveKept
<1>7. PreflightInv'
  <2>1. NoPreflight.at # "reading" /\ PreflightShaped(NoPreflight)
    BY DEF NoPreflight, PreflightShaped
  <2> QED
    BY <1>1, <1>2, <2>1, PreflightMoves
<1>8. PlanningTypes' /\ DraftInv'
  BY <1>1, BackingKept DEF PlannerInv
<1> QED
  BY <1>5, <1>6, <1>7, <1>8 DEF PlannerInv

(* A plan is compiled outside any preflight.                               *)
LEMMA CompileKept ==
  ASSUME PlannerInv, NEW who \in Planners, NEW candidate \in Candidates, NEW ttl \in PlanTtls,
         Compile(who, candidate, ttl)
  PROVE  PlannerInv'
<1> DEFINE made == Compiled(candidate, Context(who), Listed(tick), tick, ttl)
<1>1. /\ Hold(made) /\ evidence' = Live(evidence, tick)
      /\ UNCHANGED <<process, tick, preflight, drafting, provenAt>>
  BY DEF Compile, around, outcome
<1>2. ttl \in Nat /\ tick \in Nat
  BY PlanningTimes DEF PlannerInv, PlanningTypes
<1>3. \A plan \in made :
        /\ plan.expires \in Nat /\ plan.candidate \in Candidates
        /\ \A i \in DOMAIN plan.candidate.steps : plan.candidate.steps[i].op \in DOMAIN Catalog
        /\ \A action \in Needed(plan.candidate) :
             BackedUntil(plan.target, action, plan.expires)
  BY <1>2, CompiledIsBacked DEF PlannerInv
<1> HIDE DEF made
<1>4. PlanInv'
  BY <1>1, <1>3, HeldAreBacked DEF PlannerInv
<1>5. EvidenceInv'
  BY <1>1, LiveKept DEF PlannerInv
<1>6. PreflightInv'
  BY <1>1, PreflightRests DEF PlannerInv
<1>7. PlanningTypes' /\ DraftInv'
  BY <1>1, BackingKept DEF PlannerInv
<1> QED
  BY <1>4, <1>5, <1>6, <1>7 DEF PlannerInv

LEMMA PreflightCandidateKept ==
  ASSUME PlannerInv, NEW x \in Preflights, NEW who \in Planners, NEW candidate \in Candidates,
         PreflightCandidate(x, who, candidate)
  PROVE  PlannerInv'
<1>1. /\ Await(x, candidate, Context(who), TRUE) /\ evidence' = Live(evidence, tick)
      /\ Acceptable(candidate, Context(who))
      /\ UNCHANGED <<process, tick, plans, drafting, provenAt>>
  BY DEF PreflightCandidate, around, outcome
<1>2. \A i \in DOMAIN candidate.steps : candidate.steps[i].op \in DOMAIN Catalog
  BY <1>1 DEF Acceptable, StepValid, Steps, ToSet
<1>3. PreflightInv'
  <2> DEFINE context == Context(who)
             yes == TRUE
  <2>1. Await(x, candidate, context, yes)
    BY <1>1
  <2> HIDE DEF context, yes
  <2> QED
    BY <1>1, <1>2, <2>1, AwaitKept DEF PlannerInv
<1>4. EvidenceInv'
  BY <1>1, LiveKept DEF PlannerInv
<1> QED
  BY <1>1, <1>3, <1>4, BackingKept DEF PlannerInv

LEMMA PreflightPlanKept ==
  ASSUME PlannerInv, NEW x \in Preflights, NEW who \in Planners, NEW plan \in plans,
         PreflightPlan(x, who, plan)
  PROVE  PlannerInv'
<1> DEFINE candidate == plan.candidate
           context == Context(who)
           no == FALSE
<1>1. /\ Await(x, candidate, context, no)
      /\ UNCHANGED <<process, tick, evidence, plans, drafting, provenAt>>
  BY DEF PreflightPlan, around, outcome
<1>2. /\ candidate \in Candidates
      /\ \A i \in DOMAIN candidate.steps : candidate.steps[i].op \in DOMAIN Catalog
  BY DEF PlannerInv, PlanInv
<1> HIDE DEF candidate, context, no
<1>3. PreflightInv'
  BY <1>1, <1>2, AwaitKept DEF PlannerInv
<1> QED
  BY <1>1, <1>3, BackingKept DEF PlannerInv

(* A plan that is presented in time is backed at that time.                *)
LEMMA BeginDraftsKept ==
  ASSUME PlannerInv, NEW who \in Planners, NEW plan \in plans, BeginDrafts(who, plan)
  PROVE  PlannerInv'
<1> DEFINE d == [who |-> who, plan |-> plan, todo |-> DraftSteps(plan), at |-> tick]
<1>1. /\ plan.target = Target /\ plan.expires > tick /\ drafting' = {d}
      /\ UNCHANGED <<process, tick, evidence, plans, preflight, provenAt>>
  BY DEF BeginDrafts, Verified, around
<1>2. /\ plan.expires \in Nat /\ tick \in Nat
      /\ \A action \in Needed(plan.candidate) : BackedUntil(Target, action, plan.expires)
  BY <1>1 DEF PlannerInv, PlanInv, PlanningTypes
<1>3. ASSUME NEW action \in Needed(plan.candidate)
      PROVE  BackedUntil(Target, action, tick + 1)
  <2>1. BackedUntil(Target, action, plan.expires)
    BY <1>2
  <2>2. provenAt[Target][action] \in Nat /\ EvidenceTtl \in Nat /\ Slack(action) \in Nat
    BY <2>1, PlanningTimes, SlackIsNatural DEF BackedUntil, PlannerInv, PlanningTypes
  <2>3. tick + 1 <= plan.expires
    BY <1>1, <1>2
  <2> QED
    BY <1>2, <2>1, <2>2, <2>3 DEF BackedUntil
<1>4. DraftInv'
  <2>1. /\ d = [who |-> d.who, plan |-> d.plan, todo |-> d.todo, at |-> d.at]
        /\ d.at = tick /\ d.plan = plan
    OBVIOUS
  <2>2. \A action : BackedUntil(Target, action, tick + 1) =>
                      BackedUntil(Target, action, tick + 1)'
    BY <1>1 DEF BackedUntil, Target, TargetOf, Targets, KnownActions
  <2>3. Needed(plan.candidate)' = Needed(plan.candidate)
    BY DEF Needed, Actions, Steps
  <2> HIDE DEF d
  <2> SUFFICES ASSUME NEW e \in drafting'
               PROVE  /\ e = [who |-> e.who, plan |-> e.plan, todo |-> e.todo, at |-> e.at]
                      /\ e.at \in Nat
                      /\ \A action \in Needed(e.plan.candidate) :
                           BackedUntil(Target, action, e.at + 1)'
    BY DEF DraftInv, Needed, Actions, Steps
  <2>4. e = d
    BY <1>1
  <2> QED
    BY <1>1, <1>2, <1>3, <2>1, <2>2, <2>4
<1>5. EvidenceInv' /\ PlanInv' /\ PlanningTypes'
  BY <1>1, BackingKept DEF PlannerInv
<1>6. PreflightInv'
  BY <1>1, PreflightRests DEF PlannerInv
<1> QED
  BY <1>4, <1>5, <1>6 DEF PlannerInv

LEMMA DraftNextKept ==
  ASSUME PlannerInv, DraftNext
  PROVE  PlannerInv'
<1>1. PICK d \in drafting : drafting' = {} \/ drafting' = {[d EXCEPT !.todo = Tail(d.todo)]}
  BY DEF DraftNext
<1>2. UNCHANGED <<process, tick, evidence, plans, preflight, provenAt>>
  BY DEF DraftNext, around
<1> DEFINE e == [who |-> d.who, plan |-> d.plan, todo |-> Tail(d.todo), at |-> d.at]
<1>3. drafting' = {} \/ drafting' = {e}
  <2>1. d = [who |-> d.who, plan |-> d.plan, todo |-> d.todo, at |-> d.at]
    BY DEF PlannerInv, DraftInv
  <2>2. [d EXCEPT !.todo = Tail(d.todo)] = e
    <3> DEFINE rest == Tail(d.todo)
               who == d.who
               plan == d.plan
               todo == d.todo
               at == d.at
    <3>1. d = [who |-> who, plan |-> plan, todo |-> todo, at |-> at]
      BY <2>1
    <3>2. e = [who |-> who, plan |-> plan, todo |-> rest, at |-> at]
      OBVIOUS
    <3> HIDE DEF rest, who, plan, todo, at, e
    <3>3. [d EXCEPT !.todo = rest] = e
      BY <3>1, <3>2
    <3> QED
      BY <3>3 DEF rest
  <2> QED
    BY <1>1, <2>2
<1>4. /\ d.at \in Nat
      /\ \A action \in Needed(d.plan.candidate) : BackedUntil(Target, action, d.at + 1)
  BY DEF PlannerInv, DraftInv
<1>5. /\ e = [who |-> e.who, plan |-> e.plan, todo |-> e.todo, at |-> e.at]
      /\ e.plan = d.plan /\ e.at = d.at
  OBVIOUS
<1> HIDE DEF e
<1>6. DraftInv'
  <2>1. \A action, t : BackedUntil(Target, action, t) => BackedUntil(Target, action, t)'
    BY <1>2 DEF BackedUntil, Target, TargetOf, Targets, KnownActions
  <2> SUFFICES ASSUME NEW c \in drafting'
               PROVE  /\ c = [who |-> c.who, plan |-> c.plan, todo |-> c.todo, at |-> c.at]
                      /\ c.at \in Nat
                      /\ \A action \in Needed(c.plan.candidate) :
                           BackedUntil(Target, action, c.at + 1)'
    BY DEF DraftInv, Needed, Actions, Steps
  <2>2. c = e
    BY <1>3
  <2> QED
    BY <1>4, <1>5, <2>1, <2>2
<1>7. EvidenceInv' /\ PlanInv' /\ PlanningTypes'
  BY <1>2, BackingKept DEF PlannerInv
<1>8. PreflightInv'
  BY <1>2, PreflightRests DEF PlannerInv
<1> QED
  BY <1>3, <1>5, <1>6, <1>7, <1>8 DEF PlannerInv

(* The world around the planner moves on.                                  *)
LEMMA SurroundingsKept ==
  ASSUME PlannerInv,
         \/ \E who \in Planners : EditGrants(who)
         \/ PermissionsChange \/ ProcessRestarts \/ TickPasses \/ UNCHANGED planningVars
  PROVE  PlannerInv'
<1>1. UNCHANGED <<plans, provenAt>>
  BY DEF EditGrants, PermissionsChange, ProcessRestarts, TickPasses, planningVars, outcome
<1>2. CASE UNCHANGED <<process, tick, evidence, drafting, preflight>>
  <2>1. PreflightInv'
    BY <1>1, <1>2, PreflightRests DEF PlannerInv
  <2> QED
    BY <1>1, <1>2, <2>1, BackingKept DEF PlannerInv
<1>3. CASE ProcessRestarts
  <2>1. /\ process' \in Processes /\ UNCHANGED tick /\ DOMAIN evidence' = {} /\ drafting' = {}
        /\ preflight' = [x \in Preflights |-> NoPreflight]
    BY <1>3 DEF ProcessRestarts
  <2>2. PlanningTypes'
    BY <1>1, <2>1 DEF PlannerInv, PlanningTypes, Targets, KnownActions
  <2>3. EvidenceInv' /\ DraftInv'
    BY <2>1 DEF EvidenceInv, DraftInv
  <2>4. PreflightInv'
    <3>1. \A x \in Preflights : preflight'[x] = NoPreflight
      BY <2>1
    <3>2. NoPreflight.at # "reading"
      BY DEF NoPreflight
    <3>3. \A x \in Preflights : PreflightShaped(preflight[x])'
      BY <3>1 DEF PreflightShaped, NoPreflight
    <3>4. preflight' = [x \in Preflights |-> preflight'[x]]
      BY <2>1
    <3> QED
      BY <3>1, <3>2, <3>3, <3>4 DEF PreflightInv
  <2> QED
    BY <1>1, <2>1, <2>2, <2>3, <2>4, BackingKept DEF PlannerInv
<1>4. CASE TickPasses
  <2>1. tick' = tick + 1 /\ UNCHANGED <<process, evidence, drafting, preflight>>
    BY <1>4 DEF TickPasses, outcome
  <2>2. PlanningTypes'
    <3>1. Targets' = Targets /\ KnownActions' = KnownActions
      BY DEF Targets, KnownActions
    <3>2. tick' \in Nat \ {0} /\ process' \in Processes
      BY <2>1 DEF PlannerInv, PlanningTypes
    <3>3. \A target \in Targets, action \in KnownActions : provenAt'[target][action] <= tick'
      <4> TAKE target \in Targets, action \in KnownActions
      <4>1. /\ provenAt[target][action] \in Nat /\ provenAt[target][action] <= tick
            /\ tick \in Nat
        BY DEF PlannerInv, PlanningTypes
      <4> QED
        BY <1>1, <2>1, <4>1
    <3> QED
      BY <1>1, <3>1, <3>2, <3>3 DEF PlannerInv, PlanningTypes
  <2>3. PreflightInv'
    <3>1. \A x \in Preflights : PreflightShaped(preflight[x]) => PreflightShaped(preflight[x])'
      <4> TAKE x \in Preflights
      <4>1. tick \in Nat /\ preflight'[x] = preflight[x]
        BY <2>1 DEF PlannerInv, PlanningTypes
      <4>2. \A t \in Nat : t <= tick => t <= tick'
        BY <2>1, <4>1
      <4>3. Targets' = Targets /\ KnownActions' = KnownActions /\ NoPreflight' = NoPreflight
        BY DEF Targets, KnownActions, NoPreflight
      <4> QED
        BY <4>1, <4>2, <4>3 DEF PreflightShaped
    <3>2. \A x \in Preflights : ProbeKey(x)' = ProbeKey(x)
      BY <2>1 DEF ProbeKey, NextTurn
    <3> QED
      BY <1>1, <2>1, <3>1, <3>2 DEF PlannerInv, PreflightInv
  <2> QED
    BY <1>1, <2>1, <2>2, <2>3, BackingKept DEF PlannerInv
<1> QED
  BY <1>2, <1>3, <1>4
  DEF EditGrants, PermissionsChange, TickPasses, planningVars, outcome

LEMMA PlannerStarts ==
  ASSUME PlanningInit
  PROVE  PlannerInv
<1>1. /\ process \in Processes /\ tick = 1 /\ DOMAIN evidence = {} /\ plans = {}
      /\ drafting = {} /\ preflight = [x \in Preflights |-> NoPreflight]
      /\ provenAt = [target \in Targets |-> [a \in KnownActions |-> 0]]
  BY DEF PlanningInit, PlanningStart, Targets
<1>2. PlanningTypes
  BY <1>1 DEF PlanningTypes
<1>3. EvidenceInv /\ PlanInv /\ DraftInv
  BY <1>1 DEF EvidenceInv, PlanInv, DraftInv
<1>4. PreflightInv
  <2>1. NoPreflight.at # "reading"
    BY DEF NoPreflight
  <2> QED
    BY <1>1, <2>1 DEF PreflightInv, PreflightShaped
<1> QED
  BY <1>2, <1>3, <1>4 DEF PlannerInv

(* What was forbidden is dated by the clock, until the process restarts.   *)
LEMMA RevokedKept ==
  ASSUME PlannerInv, RevokedInv, [PlanningNext]_planningVars
  PROVE  RevokedInv'
<1>1. /\ tick \in Nat /\ KnownActions' = KnownActions
      /\ revokedAt \in [KnownActions -> Nat]
      /\ \A action \in KnownActions : revokedAt[action] <= tick
  BY DEF PlannerInv, PlanningTypes, RevokedInv, KnownActions
<1>2. CASE PermissionsChange
  <2>1. /\ tick' = tick
        /\ revokedAt' = [a \in KnownActions |-> IF a \in permitted \ permitted' THEN tick
                                                                          ELSE revokedAt[a]]
    BY <1>2 DEF PermissionsChange
  <2> QED
    BY <1>1, <2>1 DEF RevokedInv
<1>3. CASE ProcessRestarts
  BY <1>1, <1>3 DEF ProcessRestarts, RevokedInv
<1>4. CASE TickPasses
  <2>1. tick' = tick + 1 /\ revokedAt' = revokedAt
    BY <1>4 DEF TickPasses
  <2>2. \A action \in KnownActions : revokedAt[action] \in Nat /\ revokedAt[action] <= tick + 1
    BY <1>1
  <2> QED
    BY <1>1, <2>1, <2>2 DEF RevokedInv
<1>5. CASE UNCHANGED <<tick, revokedAt>>
  BY <1>1, <1>5 DEF RevokedInv
<1>6. ASSUME NEW who \in Planners, NEW candidate \in Candidates,
             \/ \E ttl \in PlanTtls : Compile(who, candidate, ttl)
             \/ \E x \in Preflights : PreflightCandidate(x, who, candidate)
      PROVE  UNCHANGED <<tick, revokedAt>>
  BY <1>6 DEF Compile, PreflightCandidate, around
<1>7. ASSUME NEW who \in Planners,
             \/ EditGrants(who)
             \/ \E plan \in plans : \/ BeginDrafts(who, plan)
                                   \/ \E x \in Preflights : PreflightPlan(x, who, plan)
      PROVE  UNCHANGED <<tick, revokedAt>>
  BY <1>7 DEF EditGrants, BeginDrafts, PreflightPlan, around
<1>8. ASSUME NEW x \in Preflights,
             \/ Probe(x) \/ ServeProbe(x) \/ ShareProbe(x) \/ ProbeAnswered(x)
             \/ ProbeCancelled(x) \/ AbortPreflight(x) \/ PreflightEnds(x)
      PROVE  UNCHANGED <<tick, revokedAt>>
  BY <1>8 DEF Probe, ServeProbe, ShareProbe, Grant, ProbeAnswered, ProbeCancelled,
              AbortPreflight, PreflightEnds, around
<1>9. DraftNext \/ UNCHANGED planningVars => UNCHANGED <<tick, revokedAt>>
  BY DEF DraftNext, planningVars, around
<1> QED
  BY <1>2, <1>3, <1>4, <1>5, <1>6, <1>7, <1>8, <1>9 DEF PlanningNext

LEMMA PlannerKept ==
  ASSUME PlannerInv, RevokedInv, [PlanningNext]_planningVars
  PROVE  PlannerInv'
<1>1. ASSUME NEW who \in Planners, NEW candidate \in Candidates,
             \/ \E ttl \in PlanTtls : Compile(who, candidate, ttl)
             \/ \E x \in Preflights : PreflightCandidate(x, who, candidate)
      PROVE  PlannerInv'
  BY <1>1, CompileKept, PreflightCandidateKept
<1>2. ASSUME NEW who \in Planners, NEW plan \in plans,
             \/ \E x \in Preflights : PreflightPlan(x, who, plan)
             \/ BeginDrafts(who, plan)
      PROVE  PlannerInv'
  BY <1>2, PreflightPlanKept, BeginDraftsKept
<1>3. ASSUME NEW x \in Preflights,
             \/ Probe(x) \/ ServeProbe(x) \/ ShareProbe(x) \/ ProbeAnswered(x)
             \/ ProbeCancelled(x) \/ AbortPreflight(x) \/ PreflightEnds(x)
      PROVE  PlannerInv'
  BY <1>3, ProbeKept, ServeProbeKept, ShareProbeKept, ProbeAnsweredKept, ProbeCancelledKept, AbortKept,
     PreflightEndsKept
<1> QED
  BY <1>1, <1>2, <1>3, DraftNextKept, SurroundingsKept DEF PlanningNext

(* What a call begins to draft was backed then, and what it has still to   *)
(* draft later comes from the same plan.                                   *)
LEMMA OnlyBackedDrafts ==
  ASSUME PlannerInv, DraftInv', [PlanningNext]_planningVars
  PROVE  \A d \in drafting' \ drafting : \A action \in Needed(d.plan.candidate) :
           /\ provenAt[Target][action] > 0
           /\ d.at < provenAt[Target][action] + EvidenceTtl + Slack(action)
<1>1. CASE UNCHANGED <<process, provenAt>>
  <2> SUFFICES ASSUME NEW d \in drafting', NEW action \in Needed(d.plan.candidate)
               PROVE  /\ provenAt[Target][action] > 0
                      /\ d.at < provenAt[Target][action] + EvidenceTtl + Slack(action)
    OBVIOUS
  <2>1. d.at \in Nat /\ BackedUntil(Target, action, d.at + 1)'
    BY DEF DraftInv, Needed, Actions, Steps
  <2>2. BackedUntil(Target, action, d.at + 1)
    BY <1>1, <2>1 DEF BackedUntil, Target, TargetOf, Targets, KnownActions
  <2>3. provenAt[Target][action] \in Nat /\ EvidenceTtl \in Nat /\ Slack(action) \in Nat
    BY <2>2, PlanningTimes, SlackIsNatural DEF BackedUntil, PlannerInv, PlanningTypes
  <2> QED
    BY <2>1, <2>2, <2>3 DEF BackedUntil
<1>2. CASE drafting' \subseteq drafting
  BY <1>2
<1>3. UNCHANGED <<process, provenAt>> \/ drafting' \subseteq drafting
  BY DEF PlanningNext, planningVars, Compile, PreflightCandidate, PreflightPlan, BeginDrafts,
     EditGrants, Probe, ServeProbe, ShareProbe, Grant, ProbeAnswered, ProbeCancelled, AbortPreflight,
     PreflightEnds, DraftNext, PermissionsChange, ProcessRestarts, TickPasses, around, outcome
<1> QED
  BY <1>1, <1>2, <1>3

(* DraftsAreBacked: under any interleaving of compilations, preflights with *)
(* slow, shared or cancelled probes, edits of grants and of permissions and *)
(* restarts (tools/planning.ts, governance/capabilityEvidence.ts), no draft *)
(* is begun from a plan unless WHMCS granted this installation every action *)
(* the plan needs within the lifetime of evidence, and the age of a shared  *)
(* answer where reads of the action may be shared.                          *)
THEOREM DraftsAreBacked == PlanningSpec => DraftsBacked
<1> DEFINE Inv == PlannerInv /\ RevokedInv
<1>1. PlanningInit => Inv
  <2>1. PlanningInit => RevokedInv
    BY DEF PlanningInit, PlanningStart, RevokedInv
  <2> QED
    BY <2>1, PlannerStarts
<1>2. Inv /\ [PlanningNext]_planningVars => Inv'
  BY PlannerKept, RevokedKept
<1>3. Inv /\ Inv' /\ [PlanningNext]_planningVars =>
        [\A d \in drafting' \ drafting : \A action \in Needed(d.plan.candidate) :
           /\ provenAt[Target][action] > 0
           /\ d.at < provenAt[Target][action] + EvidenceTtl + Slack(action)]_planningVars
  BY OnlyBackedDrafts DEF PlannerInv
<1> QED
  BY <1>1, <1>2, <1>3, PTL DEF PlanningSpec, DraftsBacked

-----------------------------------------------------------------------------
(* What the legacy tools settle.                                           *)

CallFields ==
  {"ask", "at", "key", "got", "served", "mutated", "answer", "began", "known"}

(* Calls that read before they do what must not be done twice.             *)
Judging(q) ==
  \/ q.tool \in Payments \/ GatewayRefund(q)
  \/ q.tool = "create_client" /\ q.variant = "reuse"

InvoiceRow(v) ==
  /\ DOMAIN v = {"row", "unpaid", "paid", "out", "credit", "failed"}
  /\ v.unpaid \in BOOLEAN /\ v.paid \in Nat /\ v.out \in Nat /\ v.credit \in Nat

(* Nothing that was paid or refunded on an invoice comes undone.           *)
Later(v, w) ==
  /\ w.unpaid => v.unpaid
  /\ v.paid <= w.paid /\ v.out <= w.out

ShopInv == DOMAIN invoices = AskIds /\ \A i \in AskIds : InvoiceRow(invoices[i])

(* What a step may do to the shop.                                         *)
ShopMoves ==
  /\ ShopInv'
  /\ \A i \in AskIds : Later(invoices[i], invoices'[i])
  /\ clients \subseteq clients'

(* What was read leaves it to be done.                                     *)
Passes(t) == Judged(t) = "go on"

CallShape(c) ==
  /\ DOMAIN tool[c] = CallFields
  /\ Called(c) =>
       /\ tool[c].ask \in Asks /\ tool[c].at <= Len(Awaits(tool[c].ask))
       /\ InvoiceRow(tool[c].began)
       /\ Later(tool[c].began, invoices[tool[c].ask.id])
       /\ tool[c].known => tool[c].ask.id \in clients
  /\ ~Called(c) => tool[c] = NotCalled
  /\ tool[c].at \in Nat

(* What it was called for stays to be done until it has done it.           *)
CallJudges(c) ==
  Judging(tool[c].ask) =>
    /\ tool[c].at = 1 => ~tool[c].mutated
    /\ tool[c].at = 2 /\ ~tool[c].served => ~tool[c].mutated
    /\ tool[c].at = 1 /\ tool[c].served /\ Passes(tool[c]) => Unsettled(c)
    /\ tool[c].at = 2 \/ tool[c].mutated => Unsettled(c)

SettleInv ==
  /\ DOMAIN tool = ToolCalls
  /\ \A c \in ToolCalls : CallShape(c) /\ CallJudges(c)
  /\ ShopInv

LEMMA HandlersAwait ==
  ASSUME NEW q \in Asks
  PROVE  /\ Len(Awaits(q)) \in Nat /\ Len(Awaits(q)) >= 1
         /\ Judging(q) => Len(Awaits(q)) = 2 /\ Awaits(q)[1] \in {"GetInvoice", "GetClients"}
                            /\ ~Reading(Awaits(q)[2])
         /\ q.tool \in Payments \/ GatewayRefund(q) => Awaits(q)[1] = "GetInvoice"
         /\ q.tool = "create_client" /\ q.variant = "reuse" => Awaits(q)[1] = "GetClients"
         /\ q.tool \in Payments =>
              Awaits(q)[2] \in {"AddInvoicePayment", "CapturePayment"}
         /\ GatewayRefund(q) => Awaits(q)[2] = "AddTransaction"
         /\ \A k \in 1..Len(Awaits(q)) :
              /\ Awaits(q)[k] \in {"AddInvoicePayment", "CapturePayment"} => q.tool \in Payments
              /\ Awaits(q)[k] = "AddTransaction" => GatewayRefund(q)
              /\ q.tool = "create_client" /\ ~Reading(Awaits(q)[k]) => Awaits(q)[k] = "AddClient"
<1>1. q.tool \in ToolNames /\ (q.tool = "record_refund" => q.variant \in {"gateway", "credit", "applied"})
  BY LegacyAssumption DEF LegacyAssumption
<1>2. CASE q.tool = "mark_invoice_paid"
  BY <1>2 DEF Awaits, MarkInvoicePaid, Judging, GatewayRefund, Payments, Reading
<1>3. CASE q.tool = "capture_payment"
  BY <1>3 DEF Awaits, CapturePayment, Judging, GatewayRefund, Payments, Reading
<1>4. CASE q.tool = "record_refund"
  <2>1. CASE q.variant = "gateway"
    BY <1>4, <2>1 DEF Awaits, RecordRefund, Judging, GatewayRefund, Payments, Reading
  <2>2. CASE q.variant = "credit"
    BY <1>4, <2>2 DEF Awaits, RecordRefund, Judging, GatewayRefund, Payments, Reading
  <2>3. CASE q.variant = "applied"
    BY <1>4, <2>3 DEF Awaits, RecordRefund, Judging, GatewayRefund, Payments, Reading
  <2> QED
    BY <1>1, <1>4, <2>1, <2>2, <2>3
<1>5. CASE q.tool = "create_client"
  <2>1. CASE q.variant = "reuse"
    BY <1>5, <2>1 DEF Awaits, CreateClient, Judging, GatewayRefund, Payments, Reading
  <2>2. CASE q.variant # "reuse"
    BY <1>5, <2>2 DEF Awaits, CreateClient, Judging, GatewayRefund, Payments, Reading
  <2> QED
    BY <2>1, <2>2
<1>6. ASSUME q.tool \notin {"mark_invoice_paid", "capture_payment", "record_refund",
                            "create_client"}
      PROVE  /\ Len(Awaits(q)) \in Nat /\ Len(Awaits(q)) >= 1
             /\ \A k \in 1..Len(Awaits(q)) :
                  Awaits(q)[k] \notin {"AddInvoicePayment", "CapturePayment", "AddTransaction"}
  <2>1. CASE q.tool = "create_invoice"
    BY <2>1 DEF Awaits, CreateInvoice
  <2>2. CASE q.tool = "add_credit"
    BY <2>2 DEF Awaits, AddCredit
  <2>3. CASE q.tool = "apply_credit"
    BY <2>3 DEF Awaits, ApplyCredit
  <2>4. CASE q.tool = "accept_order"
    BY <2>4 DEF Awaits, AcceptOrder
  <2>5. CASE q.tool = "update_client"
    BY <2>5 DEF Awaits, UpdateClient
  <2>6. CASE q.tool = "register_domain"
    BY <2>6 DEF Awaits, RegisterDomain
  <2>7. CASE q.tool = "renew_domain"
    BY <2>7 DEF Awaits, RenewDomain
  <2>8. CASE q.tool = "transfer_domain"
    BY <2>8 DEF Awaits, TransferDomain
  <2>9. CASE q.tool = "create_ticket"
    BY <2>9 DEF Awaits, CreateTicket
  <2>10. CASE q.tool = "reply_ticket"
    BY <2>10 DEF Awaits, ReplyTicket
  <2> QED
    BY <1>1, <1>6, <2>1, <2>2, <2>3, <2>4, <2>5, <2>6, <2>7, <2>8, <2>9, <2>10
    DEF ToolNames
<1> QED
  BY <1>2, <1>3, <1>4, <1>5, <1>6 DEF Judging, GatewayRefund, Payments

LEMMA AskTyped ==
  ASSUME SettleInv, NEW c \in ToolCalls, Called(c)
  PROVE  /\ tool[c].ask \in Asks /\ tool[c].ask.amount \in Nat /\ tool[c].ask.id \in AskIds
         /\ InvoiceRow(tool[c].began) /\ InvoiceRow(invoices[tool[c].ask.id])
         /\ Later(tool[c].began, invoices[tool[c].ask.id])
<1>1. /\ tool[c].ask \in Asks /\ InvoiceRow(tool[c].began)
      /\ Later(tool[c].began, invoices[tool[c].ask.id])
  BY Zenon DEF SettleInv, CallShape
<1>2. tool[c].ask.amount \in Nat /\ tool[c].ask.id \in AskIds
  BY <1>1, LegacyAssumption DEF LegacyAssumption, AskIds
<1> QED
  BY <1>1, <1>2 DEF SettleInv, ShopInv

LEMMA LaterStill ==
  ASSUME NEW u, NEW v, NEW w, InvoiceRow(u), InvoiceRow(v), InvoiceRow(w),
         Later(u, v), Later(v, w)
  PROVE  Later(u, w)
<1>1. u.paid <= w.paid
  <2>1. u.paid \in Nat /\ v.paid \in Nat /\ w.paid \in Nat /\ u.paid <= v.paid /\ v.paid <= w.paid
    BY DEF InvoiceRow, Later
  <2> QED
    BY <2>1
<1>2. u.out <= w.out
  <2>1. u.out \in Nat /\ v.out \in Nat /\ w.out \in Nat /\ u.out <= v.out /\ v.out <= w.out
    BY DEF InvoiceRow, Later
  <2> QED
    BY <2>1
<1> QED
  BY <1>1, <1>2 DEF Later

LEMMA SameLater == \A v : InvoiceRow(v) => Later(v, v)
  BY DEF InvoiceRow, Later

LEMMA ShopQuiet ==
  ASSUME SettleInv, UNCHANGED shopVars
  PROVE  ShopMoves
  BY SameLater DEF SettleInv, ShopInv, ShopMoves, shopVars

(* What is unsettled stays so: it is of the invoice before the call, and of*)
(* payments, which do not come undone.                                     *)
LEMMA UnsettledStays ==
  ASSUME SettleInv, NEW c \in ToolCalls, Called(c), Unsettled(c),
         tool'[c].ask = tool[c].ask, tool'[c].began = tool[c].began,
         tool'[c].known = tool[c].known, ShopMoves
  PROVE  Unsettled(c)'
<1> DEFINE q == tool[c].ask
           out == tool[c].began.out
           paid == invoices[q.id].paid
           next == invoices'[q.id].paid
<1>1. q.amount \in Nat /\ out \in Nat /\ paid \in Nat /\ next \in Nat /\ paid <= next
  BY AskTyped DEF ShopMoves, ShopInv, InvoiceRow, Later
<1>2. ASSUME GatewayRefund(q)
      PROVE  out + q.amount <= next
  <2>1. out + q.amount <= paid
    BY <1>2 DEF Unsettled
  <2> HIDE DEF q, out, paid, next
  <2> QED
    BY <1>1, <2>1
<1> QED
  BY <1>2 DEF Unsettled, GatewayRefund

(* The other calls do not notice.                                          *)
LEMMA OthersStay ==
  ASSUME SettleInv, NEW d \in ToolCalls, tool'[d] = tool[d], ShopMoves
  PROVE  CallShape(d)' /\ CallJudges(d)'
<1>1. CallShape(d) /\ CallJudges(d)
  BY DEF SettleInv
<1>2. CASE Called(d)
  <2>1. tool[d].ask.id \in AskIds
    BY <1>2, AskTyped
  <2>2. Later(tool[d].began, invoices'[tool[d].ask.id])
    BY <1>2, <2>1, AskTyped, LaterStill DEF ShopMoves, ShopInv
  <2>3. tool[d].known => tool[d].ask.id \in clients'
    BY <1>1, <1>2 DEF CallShape, ShopMoves
  <2>4. CallShape(d)'
    BY <1>1, <1>2, <2>2, <2>3, Zenon DEF CallShape, Called
  <2>5. Unsettled(d) => Unsettled(d)'
    BY <1>2, UnsettledStays
  <2> QED
    BY <1>1, <2>4, <2>5, Zenon DEF CallJudges
<1>3. CASE ~Called(d)
  <2>1. tool[d].ask = NoAsk
    BY <1>3 DEF Called
  <2>2. ~Judging(tool[d].ask)
    BY <2>1 DEF NoAsk, Judging, Payments, GatewayRefund
  <2>3. CallShape(d)'
    BY <1>1, <1>3, Zenon DEF CallShape, Called
  <2> QED
    BY <2>2, <2>3, Zenon DEF CallJudges
<1> QED
  BY <1>2, <1>3

(* What the step leaves of the call that takes it.                         *)
LEMMA OwnShape ==
  ASSUME SettleInv, NEW c \in ToolCalls, Called(c), ShopMoves,
         DOMAIN tool'[c] = CallFields, tool'[c].ask = tool[c].ask,
         tool'[c].began = tool[c].began, tool'[c].known = tool[c].known,
         tool'[c].at \in Nat, tool'[c].at <= Len(Awaits(tool[c].ask))
  PROVE  CallShape(c)'
<1>1. tool[c].ask.id \in AskIds
  BY AskTyped
<1>2. Later(tool[c].began, invoices'[tool[c].ask.id])
  BY <1>1, AskTyped, LaterStill DEF ShopMoves, ShopInv
<1>3. tool[c].known => tool[c].ask.id \in clients'
  BY DEF SettleInv, CallShape, ShopMoves
<1>4. tool[c].ask \in Asks /\ InvoiceRow(tool[c].began)
  BY AskTyped
<1>5. Called(c)'
  BY DEF Called
<1> QED
  BY <1>2, <1>3, <1>4, <1>5, Zenon DEF CallShape

(* A call that ends keeps what it asked for and what it did.               *)
LEMMA AnswerKeeps ==
  ASSUME SettleInv, NEW c \in ToolCalls, Pending(c), NEW how,
         tool' = [tool EXCEPT ![c] = Answered(tool[c], how)], ShopMoves
  PROVE  SettleInv'
<1>1. /\ DOMAIN tool' = ToolCalls /\ \A d \in ToolCalls : d # c => tool'[d] = tool[d]
      /\ tool'[c] = Answered(tool[c], how)
      /\ CallShape(c) /\ CallJudges(c)
  BY DEF SettleInv
<1>2. /\ DOMAIN tool'[c] = CallFields
      /\ tool'[c].ask = tool[c].ask /\ tool'[c].began = tool[c].began
      /\ tool'[c].known = tool[c].known
      /\ tool'[c].mutated = tool[c].mutated /\ tool'[c].at = 0
  BY <1>1 DEF CallShape, CallFields, Answered
<1>3. Called(c)
  BY <1>1 DEF CallShape, Pending, NotCalled
<1>4. \A d \in ToolCalls : d # c => CallShape(d)' /\ CallJudges(d)'
  BY <1>1, OthersStay
<1>5. CallShape(c)'
  <2>1. 0 \in Nat /\ 0 <= Len(Awaits(tool[c].ask))
    BY <1>3, AskTyped, HandlersAwait
  <2> QED
    BY <1>2, <1>3, <2>1, OwnShape
<1>6. CallJudges(c)'
  <2>1. ASSUME Judging(tool[c].ask), tool[c].mutated
        PROVE  Unsettled(c)'
    <3>1. Unsettled(c)
      BY <1>1, <2>1 DEF CallJudges
    <3> QED
      BY <1>2, <1>3, <3>1, UnsettledStays
  <2>2. tool'[c].at # 1 /\ tool'[c].at # 2
    BY <1>2
  <2> QED
    BY <1>2, <2>1, <2>2, Zenon DEF CallJudges
<1> QED
  BY <1>1, <1>4, <1>5, <1>6 DEF SettleInv, ShopMoves

(* A call that goes on to what it does has read that it is to be done.     *)
LEMMA GoesOn ==
  ASSUME SettleInv, NEW c \in ToolCalls, Pending(c),
         Judging(tool[c].ask) /\ tool[c].at = 1 => Unsettled(c),
         tool[c].at # Len(Awaits(tool[c].ask)),
         tool' = [tool EXCEPT ![c].at = @ + 1, ![c].served = FALSE, ![c].got = NotCalled.got],
         UNCHANGED shopVars
  PROVE  SettleInv'
<1>1. /\ DOMAIN tool' = ToolCalls /\ \A d \in ToolCalls : d # c => tool'[d] = tool[d]
      /\ tool'[c] = [tool[c] EXCEPT !.at = @ + 1, !.served = FALSE, !.got = NotCalled.got]
      /\ CallShape(c) /\ CallJudges(c)
  BY DEF SettleInv
<1>2. /\ DOMAIN tool'[c] = CallFields
      /\ tool'[c].ask = tool[c].ask /\ tool'[c].began = tool[c].began
      /\ tool'[c].known = tool[c].known
      /\ tool'[c].mutated = tool[c].mutated /\ tool'[c].at = tool[c].at + 1
      /\ ~tool'[c].served
  BY <1>1 DEF CallShape, CallFields
<1>3. Called(c)
  BY <1>1 DEF CallShape, Pending, NotCalled
<1>4. ShopMoves
  BY ShopQuiet
<1>5. \A d \in ToolCalls : d # c => CallShape(d)' /\ CallJudges(d)'
  BY <1>1, <1>4, OthersStay
<1>6. /\ tool[c].ask \in Asks /\ tool[c].at \in Nat /\ tool[c].at > 0
      /\ Len(Awaits(tool[c].ask)) \in Nat /\ tool[c].at <= Len(Awaits(tool[c].ask))
  BY <1>1, <1>3, AskTyped, HandlersAwait DEF CallShape, Pending
<1>7. CallShape(c)'
  <2>1. tool[c].at + 1 \in Nat /\ tool[c].at + 1 <= Len(Awaits(tool[c].ask))
    BY <1>6
  <2> QED
    BY <1>2, <1>3, <1>4, <2>1, OwnShape
<1>8. CallJudges(c)'
  <2>1. ASSUME Judging(tool[c].ask)
        PROVE  tool[c].at = 1 /\ ~tool[c].mutated /\ Unsettled(c)'
    <3>1. tool[c].at = 1
      BY <1>6, <2>1, HandlersAwait
    <3>2. Unsettled(c) /\ ~tool[c].mutated
      BY <1>1, <2>1, <3>1, Zenon DEF CallJudges
    <3> QED
      BY <1>2, <1>3, <1>4, <3>1, <3>2, UnsettledStays
  <2> QED
    BY <1>2, <2>1, Zenon DEF CallJudges
<1> QED
  BY <1>1, <1>4, <1>5, <1>7, <1>8 DEF SettleInv, ShopMoves

(* A call takes over what was done before it.                              *)
LEMMA CallBegins ==
  ASSUME SettleInv, NEW c \in ToolCalls, NEW q \in Asks, CallTool(c, q)
  PROVE  SettleInv'
<1> DEFINE t == [NotCalled EXCEPT !.ask = q, !.key = Key(q),
                   !.began = invoices[q.id], !.known = q.id \in clients]
<1>1. /\ ~Called(c) /\ UNCHANGED shopVars
      /\ \/ tool' = [tool EXCEPT ![c] = Answered(t, "cached")]
         \/ tool' = [tool EXCEPT ![c] = [t EXCEPT !.at = 1]]
         \/ tool' = [tool EXCEPT ![c] = Answered(t, "limited")]
  BY Zenon DEF CallTool, clockVars
<1>2. /\ DOMAIN tool' = ToolCalls /\ \A d \in ToolCalls : d # c => tool'[d] = tool[d]
      /\ tool'[c] \in {Answered(t, "cached"), [t EXCEPT !.at = 1], Answered(t, "limited")}
      /\ ShopInv
  BY <1>1 DEF SettleInv
<1>3. /\ DOMAIN t = CallFields /\ t.ask = q /\ t.began = invoices[q.id]
      /\ t.known = (q.id \in clients)
      /\ t.mutated = FALSE /\ t.at = 0 /\ t.served = FALSE
  BY DEF NotCalled, CallFields
<1> HIDE DEF t
<1>4. /\ DOMAIN tool'[c] = CallFields /\ tool'[c].ask = q /\ tool'[c].began = invoices[q.id]
      /\ tool'[c].known = (q.id \in clients)
      /\ tool'[c].mutated = FALSE /\ tool'[c].at \in {0, 1} /\ tool'[c].served = FALSE
  BY <1>2, <1>3 DEF CallFields, Answered
<1>5. ShopMoves
  BY <1>1, ShopQuiet
<1>6. \A d \in ToolCalls : d # c => CallShape(d)' /\ CallJudges(d)'
  BY <1>2, <1>5, OthersStay
<1>7. CallShape(c)'
  <2>1. q # NoAsk
    BY LegacyAssumption DEF LegacyAssumption, NoAsk, ToolNames
  <2>2. tool'[c].at \in Nat /\ tool'[c].at <= Len(Awaits(q))
    BY <1>4, HandlersAwait
  <2>3. InvoiceRow(invoices[q.id]) /\ Later(invoices[q.id], invoices'[q.id])
    BY <1>1, <1>2, SameLater DEF ShopInv, AskIds, shopVars
  <2> QED
    BY <1>1, <1>4, <2>1, <2>2, <2>3 DEF CallShape, Called, shopVars
<1>8. CallJudges(c)'
  <2>1. ~tool'[c].mutated /\ ~tool'[c].served /\ tool'[c].at # 2
    BY <1>4
  <2> QED
    BY <2>1, Zenon DEF CallJudges
<1> QED
  BY <1>2, <1>5, <1>6, <1>7, <1>8 DEF SettleInv, ShopMoves

(* What a call reads when what it is for was done before shows it.         *)
LEMMA ReadingShows ==
  ASSUME SettleInv, NEW c \in ToolCalls, Called(c), Judging(tool[c].ask), tool[c].at = 1,
         Whmcs(c), Passes(tool'[c])
  PROVE  Unsettled(c)
<1> DEFINE q == tool[c].ask
           was == tool[c].began
           is == invoices[q.id]
<1>1. /\ CallShape(c) /\ DOMAIN tool = ToolCalls
      /\ q \in Asks /\ q.amount \in Nat /\ q.id \in AskIds
      /\ InvoiceRow(was) /\ InvoiceRow(is) /\ Later(was, is)
      /\ tool[c].known => q.id \in clients
  BY AskTyped DEF SettleInv, CallShape
<1>2. PICK seenRow \in CASE Action(c) = "GetInvoice" -> {is}
                     [] Action(c) = "GetClients" /\ FirstRow(q.id) # {} ->
                            {[Nothing EXCEPT !.row = x] : x \in FirstRow(q.id)}
                     [] OTHER -> {Nothing} :
             tool' = [tool EXCEPT ![c].served = TRUE, ![c].got = seenRow,
                                  ![c].mutated = @ \/ ~Reading(Action(c))]
  BY Zenon DEF Whmcs
<1>3. tool'[c].ask = q /\ tool'[c].got = seenRow
  BY <1>1, <1>2 DEF CallShape, CallFields
<1>4. Action(c) = Awaits(q)[1]
  BY DEF Action
<1>5. CASE q.tool \in Payments
  <2>1. seenRow = is
    BY <1>1, <1>2, <1>4, <1>5, HandlersAwait
  <2>2. seenRow.unpaid
    BY <1>3, <1>5 DEF Passes, Judged
  <2>3. was.unpaid
    BY <1>1, <2>1, <2>2 DEF Later
  <2> QED
    BY <1>5, <2>3 DEF Unsettled, Payments, GatewayRefund
<1>6. CASE GatewayRefund(q)
  <2>1. seenRow = is
    BY <1>1, <1>2, <1>4, <1>6, HandlersAwait
  <2>2. ~(q.amount > is.paid - is.out)
    BY <1>3, <1>6, <2>1 DEF Passes, Judged, GatewayRefund, Payments
  <2> DEFINE before == was.out
             out == is.out
             paid == is.paid
             amount == q.amount
  <2>3. before \in Nat /\ out \in Nat /\ paid \in Nat /\ amount \in Nat /\ before <= out
    BY <1>1 DEF InvoiceRow, Later
  <2>4. before + amount <= paid
    <3>1. ~(amount > paid - out)
      BY <2>2
    <3> HIDE DEF before, out, paid, amount
    <3> QED
      BY <2>3, <3>1
  <2> QED
    BY <1>6, <2>4 DEF Unsettled, Payments, GatewayRefund
<1>7. CASE q.tool = "create_client" /\ q.variant = "reuse"
  <2>1. ASSUME LookAlikes[q.id] = {}, tool[c].known
        PROVE  FALSE
    <3>1. FirstRow(q.id) = {q.id}
      BY <1>1, <2>1 DEF FirstRow
    <3>2. Action(c) = "GetClients"
      BY <1>1, <1>4, <1>7, HandlersAwait
    <3>3. seenRow = [Nothing EXCEPT !.row = q.id]
      BY <1>2, <3>1, <3>2
    <3>4. seenRow.row = q.id
      BY <3>3 DEF Nothing
    <3> QED
      BY <1>3, <1>7, <3>4 DEF Passes, Judged, Payments
  <2> QED
    BY <1>7, <2>1 DEF Unsettled, GatewayRefund, Payments
<1> QED
  BY <1>5, <1>6, <1>7 DEF Judging

LEMMA Sums ==
  ASSUME NEW v, InvoiceRow(v), NEW sum \in Nat
  PROVE  /\ Balance(v) \in Nat
         /\ InvoiceRow(Paid(v, sum)) /\ Later(v, Paid(v, sum))
         /\ InvoiceRow(Credited(v, sum)) /\ Later(v, Credited(v, sum))
         /\ InvoiceRow([v EXCEPT !.out = @ + sum]) /\ Later(v, [v EXCEPT !.out = @ + sum])
         /\ InvoiceRow([v EXCEPT !.failed = TRUE]) /\ Later(v, [v EXCEPT !.failed = TRUE])
<1>1. /\ DOMAIN v = {"row", "unpaid", "paid", "out", "credit", "failed"}
      /\ v.unpaid \in BOOLEAN /\ v.paid \in Nat /\ v.out \in Nat /\ v.credit \in Nat
      /\ Total \in Nat
  BY LegacyAssumption DEF InvoiceRow, LegacyAssumption
<1>2. Balance(v) \in Nat
  BY <1>1 DEF Balance
<1> DEFINE left == sum < Balance(v)
<1>3. left \in BOOLEAN
  OBVIOUS
<1> HIDE DEF left
<1>4. InvoiceRow([v EXCEPT !.paid = @ + sum, !.unpaid = @ /\ left])
      /\ Later(v, [v EXCEPT !.paid = @ + sum, !.unpaid = @ /\ left])
  BY <1>1, <1>3 DEF InvoiceRow, Later
<1>5. InvoiceRow([v EXCEPT !.credit = @ + sum, !.unpaid = @ /\ left])
      /\ Later(v, [v EXCEPT !.credit = @ + sum, !.unpaid = @ /\ left])
  BY <1>1, <1>3 DEF InvoiceRow, Later
<1>6. InvoiceRow([v EXCEPT !.out = @ + sum]) /\ Later(v, [v EXCEPT !.out = @ + sum])
  BY <1>1 DEF InvoiceRow, Later
<1>7. InvoiceRow([v EXCEPT !.failed = TRUE]) /\ Later(v, [v EXCEPT !.failed = TRUE])
  BY <1>1 DEF InvoiceRow, Later
<1> QED
  BY <1>2, <1>4, <1>5, <1>6, <1>7 DEF Paid, Credited, left

(* One invoice moves on.                                                   *)
LEMMA InvoiceMoves ==
  ASSUME ShopInv, NEW i \in AskIds, NEW next, InvoiceRow(next), Later(invoices[i], next),
         invoices' = [invoices EXCEPT ![i] = next], clients \subseteq clients'
  PROVE  ShopMoves
  BY SameLater DEF ShopInv, ShopMoves, AskIds

(* Whatever WHMCS does, the shop moves on.                                 *)
LEMMA WhmcsMoves ==
  ASSUME SettleInv, NEW c \in ToolCalls, Called(c), Whmcs(c)
  PROVE  ShopMoves
<1> DEFINE q == tool[c].ask
           action == Action(c)
           invoice == invoices[q.id]
           next == CASE action = "AddInvoicePayment" -> Paid(invoice, SumOf(q))
                     [] action = "CapturePayment" -> Paid(invoice, Balance(invoice))
                     [] action = "AddTransaction" -> [invoice EXCEPT !.out = @ + q.amount]
                     [] action = "ApplyCredit" -> Credited(invoice, SumOf(q))
                     [] OTHER -> invoice
<1>1. ShopInv /\ q.id \in AskIds /\ q.amount \in Nat /\ InvoiceRow(invoice)
  BY AskTyped DEF SettleInv
<1>2. /\ invoices' = [invoices EXCEPT ![q.id] = next]
      /\ clients \subseteq clients'
  BY DEF Whmcs
<1>3. Balance(invoice) \in Nat /\ SumOf(q) \in Nat
  <2>1. 0 \in Nat
    OBVIOUS
  <2>2. Balance(invoice) \in Nat
    BY <1>1, <2>1, Sums
  <2> QED
    BY <1>1, <2>2 DEF SumOf
<1> HIDE DEF action, invoice
<1>4. InvoiceRow(next) /\ Later(invoice, next)
  <2>1. CASE action = "AddInvoicePayment"
    BY <1>1, <1>3, <2>1, Sums
  <2>2. CASE action = "CapturePayment"
    BY <1>1, <1>3, <2>2, Sums
  <2>3. CASE action = "AddTransaction"
    BY <1>1, <2>3, Sums
  <2>4. CASE action = "ApplyCredit"
    BY <1>1, <1>3, <2>4, Sums
  <2>5. CASE action \notin {"AddInvoicePayment", "CapturePayment", "AddTransaction", "ApplyCredit"}
    BY <1>1, <2>5, SameLater
  <2> QED
    BY <2>1, <2>2, <2>3, <2>4, <2>5
<1> HIDE DEF next
<1> QED
  BY <1>1, <1>2, <1>4, InvoiceMoves DEF invoice

LEMMA WhmcsSettles ==
  ASSUME SettleInv, NEW c \in ToolCalls, Whmcs(c)
  PROVE  SettleInv'
<1> DEFINE q == tool[c].ask
<1>1. /\ CallShape(c) /\ CallJudges(c) /\ DOMAIN tool = ToolCalls
      /\ Pending(c) /\ tool[c].served # TRUE
  BY Zenon DEF SettleInv, Whmcs
<1>2. Called(c)
  BY <1>1 DEF CallShape, Pending, NotCalled
<1>3. PICK seenRow :
             tool' = [tool EXCEPT ![c].served = TRUE, ![c].got = seenRow,
                                  ![c].mutated = @ \/ ~Reading(Action(c))]
  BY Zenon DEF Whmcs
<1>4. /\ DOMAIN tool' = ToolCalls /\ \A d \in ToolCalls : d # c => tool'[d] = tool[d]
      /\ DOMAIN tool'[c] = CallFields
      /\ tool'[c].ask = q /\ tool'[c].began = tool[c].began /\ tool'[c].at = tool[c].at
      /\ tool'[c].known = tool[c].known /\ tool'[c].served = TRUE
      /\ tool'[c].mutated = (tool[c].mutated \/ ~Reading(Action(c)))
  BY <1>1, <1>3 DEF CallShape, CallFields
<1>5. ShopMoves
  BY <1>2, WhmcsMoves
<1>6. \A d \in ToolCalls : d # c => CallShape(d)' /\ CallJudges(d)'
  BY <1>4, <1>5, OthersStay
<1>7. q \in Asks /\ tool[c].at \in 1..Len(Awaits(q)) /\ tool[c].at \in Nat
  BY <1>1, <1>2, AskTyped, HandlersAwait DEF CallShape, Pending
<1>8. CallShape(c)'
  <2>1. tool'[c].at \in Nat /\ tool'[c].at <= Len(Awaits(q))
    BY <1>4, <1>7
  <2> QED
    BY <1>2, <1>4, <1>5, <2>1, OwnShape
<1>9. CallJudges(c)'
  <2>1. ASSUME Judging(q)
        PROVE  /\ tool[c].at = 1 => ~tool'[c].mutated
               /\ tool[c].at = 1 /\ Passes(tool'[c]) => Unsettled(c)'
               /\ tool[c].at = 2 => Unsettled(c)'
               /\ tool[c].at = 1 \/ tool[c].at = 2
    <3>1. Unsettled(c) => Unsettled(c)'
      BY <1>2, <1>4, <1>5, UnsettledStays
    <3>2. tool[c].at = 1 /\ Passes(tool'[c]) => Unsettled(c)
      BY <1>2, <2>1, ReadingShows
    <3>3. tool[c].at \in {1, 2} /\ (tool[c].at = 1 => Reading(Action(c)))
      BY <1>7, <2>1, HandlersAwait DEF Action, Reading
    <3>4. /\ tool[c].at = 1 => ~tool[c].mutated
          /\ tool[c].at = 2 => Unsettled(c)
      BY <1>1, <2>1, Zenon DEF CallJudges
    <3>5. tool[c].at = 1 => ~tool'[c].mutated
      BY <1>4, <3>3, <3>4, Zenon
    <3> QED
      BY <3>1, <3>2, <3>3, <3>4, <3>5
  <2> QED
    BY <1>4, <2>1, Zenon DEF CallJudges
<1> QED
  BY <1>4, <1>5, <1>6, <1>8, <1>9 DEF SettleInv, ShopMoves

LEMMA CallAnswered ==
  ASSUME SettleInv, NEW c \in ToolCalls, AnswerReceived(c)
  PROVE  SettleInv'
<1>1. Pending(c) /\ UNCHANGED shopVars
  BY Zenon DEF AnswerReceived
<1>2. CASE \E how : tool' = [tool EXCEPT ![c] = Answered(tool[c], how)]
  BY <1>1, <1>2, AnswerKeeps, ShopQuiet
<1>3. CASE /\ tool[c].served
           /\ (IF Reading(Action(c)) THEN Judged(tool[c]) ELSE "go on") = "go on"
           /\ tool[c].at # Len(Awaits(tool[c].ask))
           /\ tool' = [tool EXCEPT ![c].at = @ + 1, ![c].served = FALSE,
                                   ![c].got = NotCalled.got]
  <2>1. CallShape(c) /\ CallJudges(c)
    BY DEF SettleInv
  <2>2. ASSUME Judging(tool[c].ask), tool[c].at = 1
        PROVE  Unsettled(c)
    <3>1. Called(c)
      BY <1>1, <2>1 DEF CallShape, Pending, NotCalled
    <3>2. Reading(Action(c))
      BY <2>2, <3>1, AskTyped, HandlersAwait DEF Action, Reading
    <3> QED
      BY <1>3, <2>1, <2>2, <3>2, Zenon DEF CallJudges, Passes
  <2>3. tool[c].at # Len(Awaits(tool[c].ask))
        /\ tool' = [tool EXCEPT ![c].at = @ + 1, ![c].served = FALSE, ![c].got = NotCalled.got]
    BY <1>3, Zenon
  <2> QED
    BY <1>1, <2>2, <2>3, GoesOn, Zenon
<1> QED
  BY <1>2, <1>3, Zenon DEF AnswerReceived, FinishCall

(* The gateway declines: the invoice lists it, and nothing is paid.        *)
LEMMA DeclinedSettles ==
  ASSUME SettleInv, NEW c \in ToolCalls, Declined(c)
  PROVE  SettleInv'
<1> DEFINE id == tool[c].ask.id
           next == [invoices[id] EXCEPT !.failed = TRUE]
<1>1. /\ Pending(c) /\ tool' = [tool EXCEPT ![c] = Answered(tool[c], "error")]
      /\ invoices' = [invoices EXCEPT ![id] = next] /\ clients' = clients
  BY DEF Declined
<1>2. Called(c)
  BY <1>1 DEF SettleInv, CallShape, Pending, NotCalled
<1>3. ShopInv /\ id \in AskIds /\ InvoiceRow(invoices[id])
  BY <1>2, AskTyped DEF SettleInv
<1>4. InvoiceRow(next) /\ Later(invoices[id], next)
  <2>1. 0 \in Nat
    OBVIOUS
  <2> QED
    BY <1>3, <2>1, Sums
<1> HIDE DEF next, id
<1>5. ShopMoves
  BY <1>1, <1>3, <1>4, InvoiceMoves
<1> QED
  BY <1>1, <1>5, AnswerKeeps

(* Nothing that the clock or the cleanup does is about what was settled.   *)
LEMMA ClockSettles ==
  ASSUME SettleInv, UNCHANGED <<tool, shopVars>>
  PROVE  SettleInv'
<1>1. (\A d \in ToolCalls : tool'[d] = tool[d]) /\ DOMAIN tool' = ToolCalls
  BY DEF SettleInv
<1>2. ShopMoves
  BY ShopQuiet
<1>3. \A d \in ToolCalls : CallShape(d)' /\ CallJudges(d)'
  BY <1>1, <1>2, OthersStay
<1> QED
  BY <1>1, <1>2, <1>3 DEF SettleInv, ShopMoves

LEMMA SettleInit == LegacyInit => SettleInv
<1> SUFFICES ASSUME LegacyInit
             PROVE  SettleInv
  OBVIOUS
<1>1. DOMAIN tool = ToolCalls /\ \A d \in ToolCalls : tool[d] = NotCalled
  BY DEF LegacyInit
<1>2. ASSUME NEW c \in ToolCalls
      PROVE  CallShape(c) /\ CallJudges(c)
  <2>1. ~Called(c) /\ tool[c] = NotCalled
    BY <1>1, <1>2 DEF Called, NotCalled
  <2>2. CallShape(c)
    BY <2>1 DEF CallShape, NotCalled, CallFields
  <2>3. ~Judging(tool[c].ask)
    BY <2>1 DEF NotCalled, NoAsk, Judging, GatewayRefund, Payments
  <2> QED
    BY <2>2, <2>3, Zenon DEF CallJudges
<1>3. ShopInv
  <2>1. InvoiceRow(Nothing)
    BY DEF Nothing, InvoiceRow
  <2>2. InvoiceRow(Paid(Nothing, Total))
    BY <2>1, Sums, LegacyAssumption DEF LegacyAssumption
  <2>3. invoices = [i \in AskIds |-> IF i = "paid" THEN Paid(Nothing, Total) ELSE Nothing]
    BY DEF LegacyInit
  <2> QED
    BY <2>1, <2>2, <2>3 DEF ShopInv
<1> QED
  BY <1>1, <1>2, <1>3 DEF SettleInv

(* What was settled in WHMCS before a call began is not settled again by   *)
(* it, though the answer was lost then, the key's bucket is over or the    *)
(* cache lost the key: the calls that could, read first, and what they read*)
(* shows it (the handlers of src/tools/billing.ts and of create_client).   *)
THEOREM SettledBefore == LegacySpec => []SettledOnce
<1>1. SettleInv /\ [LegacyNext]_legacyVars => SettleInv'
  <2> SUFFICES ASSUME SettleInv, [LegacyNext]_legacyVars
               PROVE  SettleInv'
    OBVIOUS
  <2>1. ASSUME NEW c \in ToolCalls, NEW q \in Asks, CallTool(c, q)
        PROVE  SettleInv'
    BY <2>1, CallBegins
  <2>2. ASSUME NEW c \in ToolCalls, Whmcs(c)
        PROVE  SettleInv'
    BY <2>2, WhmcsSettles
  <2>3. ASSUME NEW c \in ToolCalls, AnswerReceived(c)
        PROVE  SettleInv'
    BY <2>3, CallAnswered
  <2>4. ASSUME NEW c \in ToolCalls, AnswerLost(c)
        PROVE  SettleInv'
    BY <2>4, AnswerKeeps, ShopQuiet DEF AnswerLost, shopVars
  <2>6. ASSUME NEW c \in ToolCalls, Declined(c)
        PROVE  SettleInv'
    BY <2>6, DeclinedSettles
  <2>5. CASE CleanupCache \/ ClockTicks \/ ClockStepsBack \/ UNCHANGED legacyVars
    <3>1. UNCHANGED <<tool, shopVars>>
      BY <2>5, Zenon DEF CleanupCache, ClockTicks, ClockStepsBack, legacyVars
    <3> QED
      BY <3>1, ClockSettles
  <2> QED
    BY <2>1, <2>2, <2>3, <2>4, <2>5, <2>6, Zenon DEF LegacyNext
<1>2. SettleInv => SettledOnce
  <2> SUFFICES ASSUME SettleInv, NEW c \in ToolCalls, tool[c].mutated
               PROVE  Unsettled(c)
    BY DEF SettledOnce
  <2>1. CASE Judging(tool[c].ask)
    BY <2>1, Zenon DEF SettleInv, CallJudges
  <2>2. CASE ~Judging(tool[c].ask)
    BY <2>2 DEF Unsettled, Judging
  <2> QED
    BY <2>1, <2>2
<1> QED
  BY <1>1, <1>2, SettleInit, PTL DEF LegacySpec
=============================================================================
