--------------------------- MODULE EventReceiver ---------------------------
(***************************************************************************)
(* The WHMCS event receiver (src/http/eventReceiver.ts): the store that    *)
(* drops repeated events within a window and is swept lazily, and the      *)
(* forward to the notifier that nobody waits for.                          *)
(***************************************************************************)
EXTENDS Integers

CONSTANTS
  Events,       \* event ids of payloads that pass signature and allowlist
  Window,       \* dedupWindowMs; 0 turns the store off
  MaxEventTime, \* bound on the clock
  MaxRestarts   \* bound on restarts

EventAssumption == Window \in Nat /\ MaxEventTime \in Nat /\ MaxRestarts \in Nat

ASSUME EventAssumption

VARIABLES
  time,       \* Date.now(), from 1
  seen,       \* when each event id was added; 0 when it is not in the map
  swept,      \* lastSweep
  forwarding, \* events on their way to the notifier
  notified,   \* how often each reached it
  accepted,   \* when each was last answered 202 by this process
  verdict,    \* the last answer: the event, and its age if it had been accepted
  restarts

eventVars == <<time, seen, swept, forwarding, notified, accepted, verdict, restarts>>

Nobody == [dup |-> FALSE, again |-> FALSE, age |-> 0]

\* Variant with a defect: an entry as old as the window is swept too.
ExpiredEarly(t) == t <= time - Window

Expired(t) == t < time - Window

(* has() sweeps first, at most every half window.                          *)
Sweeps == 2 * (time - swept) >= Window

SeenAfterSweep ==
  [e \in Events |-> IF Sweeps /\ Expired(seen[e]) THEN 0 ELSE seen[e]]

(* handle(), from the end of the body on: one step up to the answer.       *)
Deliver(e) ==
  LET known == SeenAfterSweep
      dup == Window > 0 /\ known[e] # 0
  IN
  /\ swept' = IF Window > 0 /\ Sweeps THEN time ELSE swept
  /\ seen' = IF dup \/ Window = 0 THEN known ELSE [known EXCEPT ![e] = time]
  /\ verdict' = [dup |-> dup, again |-> accepted[e] # 0, age |-> time - accepted[e]]
  /\ forwarding' = IF dup THEN forwarding ELSE forwarding \cup {e}
  /\ accepted' = IF dup THEN accepted ELSE [accepted EXCEPT ![e] = time]
  /\ UNCHANGED <<time, notified, restarts>>

(* forwardToNotifier: a failure or a timeout is logged, never retried.     *)
ForwardEnds(e) ==
  /\ e \in forwarding
  /\ forwarding' = forwarding \ {e}
  /\ \/ notified' = [notified EXCEPT ![e] = @ + 1]
     \/ UNCHANGED notified
  /\ UNCHANGED <<time, seen, swept, accepted, verdict, restarts>>

(* The store is in memory, and so are the forwards.                        *)
Restart ==
  /\ restarts < MaxRestarts
  /\ restarts' = restarts + 1
  /\ seen' = [e \in Events |-> 0]
  /\ swept' = time
  /\ forwarding' = {}
  /\ accepted' = [e \in Events |-> 0]
  /\ verdict' = Nobody
  /\ UNCHANGED <<time, notified>>

EventTick ==
  /\ time < MaxEventTime
  /\ time' = time + 1
  /\ verdict' = Nobody
  /\ UNCHANGED <<seen, swept, forwarding, notified, accepted, restarts>>

EventInit ==
  /\ time = 1
  /\ seen = [e \in Events |-> 0]
  /\ swept = 1
  /\ forwarding = {}
  /\ notified = [e \in Events |-> 0]
  /\ accepted = [e \in Events |-> 0]
  /\ verdict = Nobody
  /\ restarts = 0

EventNext ==
  \/ \E e \in Events : Deliver(e) \/ ForwardEnds(e)
  \/ Restart
  \/ EventTick

EventSpec == EventInit /\ [][EventNext]_eventVars

-----------------------------------------------------------------------------
(* Properties.                                                             *)

(* However deliveries of other events trigger the lazy sweep: one process  *)
(* accepts an event again only when it is older than the window, and drops *)
(* a delivery as repeated only when less than one and a half windows have  *)
(* passed since it accepted the event.                                     *)
RepeatsJudged ==
  Window > 0 /\ verdict.again =>
    IF verdict.dup THEN 2 * verdict.age < 3 * Window
                   ELSE verdict.age > Window
=============================================================================
