---------------------------- MODULE HttpSessions ----------------------------
(***************************************************************************)
(* The HTTP transport (src/http/httpServer.ts) with its modern adapter     *)
(* (src/http/httpServerV2.ts): sessions that initialize requests open,     *)
(* requests that ride on them, exchanges without a session, eviction and   *)
(* sweeping, and the drain at shutdown.                                    *)
(*                                                                         *)
(* A session is named by the request that initializes it.  The gates that  *)
(* a request passes before its body is read (method, host, origin, token)  *)
(* keep no state: Requests are those that pass them.                       *)
(***************************************************************************)
EXTENDS Integers, FiniteSets, FiniteSetsExt

CONSTANTS
  Requests,     \* the HTTP requests of a behaviour
  Kind,         \* what each asks: "init", "use", "stream", "delete", "modern"
  Target,       \* the session each legacy request names; itself for "init"
  Consumer,     \* the consumer each authenticated as
  MaxSessions,  \* MCP_HTTP_MAX_SESSIONS
  IdleLimit,    \* MCP_HTTP_SESSION_IDLE_MS
  MaxClock      \* bound on the clock

Inits == {r \in Requests : Kind[r] = "init"}

HttpAssumption ==
  /\ Kind \in [Requests -> {"init", "use", "stream", "delete", "modern"}]
  /\ Target \in [Requests -> Inits]
  /\ \A r \in Inits : Target[r] = r
  /\ MaxSessions \in Nat \ {0}
  /\ IdleLimit \in Nat
  /\ MaxClock \in Nat

ASSUME HttpAssumption

VARIABLES
  phase,      \* where each request is
  answer,     \* how each was answered
  sessions,   \* the keys of transports, lastSeen and sessionOwner
  lastSeen,   \* when each session was last addressed
  clock,      \* Date.now()
  shut,       \* where close() is
  drainedBy,  \* what ended the drain
  peak        \* the most initializations that were connecting at once

httpVars == <<phase, answer, sessions, lastSeen, clock, shut, drainedBy, peak>>

In(p) == {r \in Requests : phase[r] = p}

Connecting == In("connecting")

(* `active`, the modern exchanges in flight.                               *)
Active == In("exchanging")

(* `closing` of the adapter.                                               *)
Draining == shut # "open"

Move(r, p) == phase' = [phase EXCEPT ![r] = p]

Finish(r, how) ==
  /\ Move(r, "done")
  /\ answer' = [answer EXCEPT ![r] = how]

-----------------------------------------------------------------------------
(* Sessions.                                                               *)

(* The requests a closed transport leaves without their answer.            *)
Riding(s) == {r \in In("serving") : Target[r] = s}

(* closeSession, and the transport's onclose: the three maps forget the    *)
(* session and its streams end.                                            *)
CloseSession(closed, p, a) ==
  LET lost == UNION {{r \in Riding(s) : p[r] # "done"} : s \in closed} IN
  /\ sessions' = sessions \ closed
  /\ lastSeen' = [s \in Inits |-> IF s \in closed THEN 0 ELSE lastSeen[s]]
  /\ phase' = [r \in Requests |-> IF r \in lost THEN "done" ELSE p[r]]
  /\ answer' = [r \in Requests |-> IF r \in lost THEN "cut" ELSE a[r]]

Oldest == {s \in sessions : \A o \in sessions : lastSeen[s] <= lastSeen[o]}

(* The request is in: headers passed the gates, the body is being read and *)
(* classified.                                                             *)
Receive(r) ==
  /\ phase[r] = "idle"
  /\ shut # "closed"
  /\ Move(r, "reading")
  /\ UNCHANGED <<answer, sessions, lastSeen, clock, shut, drainedBy, peak>>

\* Variant with a defect: a full table is not thinned.
MakesRoomNever(s) == FALSE

(* The cap's victim, if the table is full.                                 *)
MakesRoom(s) == Cardinality(sessions) >= MaxSessions /\ s \in Oldest

(* An initialize request: the least recently used session makes room, then *)
(* a server is built and connected.                                        *)
Initialize(r) ==
  LET p == [phase EXCEPT ![r] = "connecting"] IN
  /\ phase[r] = "reading"
  /\ r \in Inits
  /\ \/ /\ ~\E s \in sessions : MakesRoom(s)
        /\ CloseSession({}, p, answer)
     \/ \E s \in sessions : MakesRoom(s) /\ CloseSession({s}, p, answer)
  /\ peak' = Max({peak, Cardinality(Connecting) + 1})
  /\ UNCHANGED <<clock, shut, drainedBy>>

InitializeFails(r) ==
  /\ phase[r] = "connecting"
  /\ Finish(r, "failed")
  /\ UNCHANGED <<sessions, lastSeen, clock, shut, drainedBy, peak>>

(* onsessioninitialized: the SDK accepted the request and named a session. *)
SessionInitialized(r) ==
  /\ phase[r] = "connecting"
  /\ Move(r, "serving")
  /\ sessions' = sessions \cup {r}
  /\ lastSeen' = [lastSeen EXCEPT ![r] = clock]
  /\ UNCHANGED <<answer, clock, shut, drainedBy, peak>>

(* The owner check and the lookup, in one step with the hand-off.          *)
MayRide(r) ==
  /\ Target[r] \in sessions
  /\ Consumer[r] = Consumer[Target[r]]

Ride(r) ==
  /\ phase[r] = "reading"
  /\ Kind[r] \in {"use", "stream", "delete"}
  /\ MayRide(r)
  /\ Move(r, "serving")
  /\ lastSeen' = [lastSeen EXCEPT ![Target[r]] = clock]
  /\ UNCHANGED <<answer, sessions, clock, shut, drainedBy, peak>>

Refuse(r) ==
  /\ phase[r] = "reading"
  /\ Kind[r] \in {"use", "stream", "delete"}
  /\ ~MayRide(r)
  /\ Finish(r, "refused")
  /\ UNCHANGED <<sessions, lastSeen, clock, shut, drainedBy, peak>>

(* The transport answered, or the client is gone: a stream ends in no      *)
(* other way.                                                              *)
Served(r) ==
  /\ phase[r] = "serving"
  /\ Kind[r] # "delete"
  /\ Finish(r, "ok")
  /\ UNCHANGED <<sessions, lastSeen, clock, shut, drainedBy, peak>>

(* DELETE: the transport closes, and answers.                              *)
Deleted(r) ==
  /\ phase[r] = "serving"
  /\ Kind[r] = "delete"
  /\ CloseSession({Target[r]}, [phase EXCEPT ![r] = "done"],
                  [answer EXCEPT ![r] = "ok"])
  /\ UNCHANGED <<clock, shut, drainedBy, peak>>

(* The sweeper's interval.                                                 *)
Sweep ==
  LET idle == {s \in sessions : lastSeen[s] < clock - IdleLimit} IN
  /\ shut = "open"
  /\ idle # {}
  /\ CloseSession(idle, phase, answer)
  /\ UNCHANGED <<clock, shut, drainedBy, peak>>

-----------------------------------------------------------------------------
(* Modern exchanges.                                                       *)

\* Variant with a defect: `closing` was looked at before the classification.
AcceptsLate == TRUE

Accepts == ~Draining

(* isLegacyRequest has answered: the exchange counts from here.            *)
BeginExchange(r) ==
  /\ phase[r] = "reading"
  /\ Kind[r] = "modern"
  /\ Accepts
  /\ Move(r, "exchanging")
  /\ UNCHANGED <<answer, sessions, lastSeen, clock, shut, drainedBy, peak>>

RefuseExchange(r) ==
  /\ phase[r] = "reading"
  /\ Kind[r] = "modern"
  /\ ~Accepts
  /\ Finish(r, "draining")
  /\ UNCHANGED <<sessions, lastSeen, clock, shut, drainedBy, peak>>

(* The classification threw.                                               *)
Unclassified(r) ==
  /\ phase[r] = "reading"
  /\ Finish(r, "failed")
  /\ UNCHANGED <<sessions, lastSeen, clock, shut, drainedBy, peak>>

EndExchange(r) ==
  /\ phase[r] = "exchanging"
  /\ \E how \in {"ok", "failed"} : Finish(r, how)
  /\ UNCHANGED <<sessions, lastSeen, clock, shut, drainedBy, peak>>

-----------------------------------------------------------------------------
(* close().                                                                *)

BeginClose ==
  /\ shut = "open"
  /\ shut' = "draining"
  /\ UNCHANGED <<phase, answer, sessions, lastSeen, clock, drainedBy, peak>>

\* Variant with a defect: the drain has no timeout.
DrainEndsByLast == {"last"}

(* What ends the wait: the last exchange in flight, or the drain timeout.  *)
DrainEnds == {"last", "timeout"}

(* handler.close(), after the last exchange or the drain timeout: what is  *)
(* still in flight loses its answer.                                       *)
CloseAdapter(why) ==
  /\ shut = "draining"
  /\ why = "last" => Active = {}
  /\ shut' = "closing"
  /\ drainedBy' = why
  /\ phase' = [r \in Requests |-> IF r \in Active THEN "done" ELSE phase[r]]
  /\ answer' = [r \in Requests |-> IF r \in Active THEN "cut" ELSE answer[r]]
  /\ UNCHANGED <<sessions, lastSeen, clock, peak>>

(* The loop over the transports, one await each.                           *)
CloseTransport ==
  /\ shut = "closing"
  /\ \E s \in sessions : CloseSession({s}, phase, answer)
  /\ UNCHANGED <<clock, shut, drainedBy, peak>>

(* The maps are cleared in the step that ends the loop; connections are    *)
(* waited for.                                                             *)
AllClosed ==
  /\ shut = "closing"
  /\ sessions = {}
  /\ shut' = "waiting"
  /\ UNCHANGED <<phase, answer, sessions, lastSeen, clock, drainedBy, peak>>

ConnectionsEnded ==
  /\ shut = "waiting"
  /\ \A r \in Requests : phase[r] \in {"idle", "done"}
  /\ shut' = "closed"
  /\ UNCHANGED <<phase, answer, sessions, lastSeen, clock, drainedBy, peak>>

HttpTick ==
  /\ clock < MaxClock
  /\ shut # "closed"
  /\ clock' = clock + 1
  /\ UNCHANGED <<phase, answer, sessions, lastSeen, shut, drainedBy, peak>>

HttpInit ==
  /\ phase = [r \in Requests |-> "idle"]
  /\ answer = [r \in Requests |-> "none"]
  /\ sessions = {}
  /\ lastSeen = [s \in Inits |-> 0]
  /\ clock = 0
  /\ shut = "open"
  /\ drainedBy = "nothing"
  /\ peak = 0

(* What close() does next.                                                 *)
CloseStep ==
  \/ \E why \in DrainEnds : CloseAdapter(why)
  \/ CloseTransport
  \/ AllClosed
  \/ ConnectionsEnded

(* What the server does next for a request, but for a stream it serves.    *)
RequestStep(r) ==
  \/ Initialize(r) \/ Ride(r) \/ Refuse(r) \/ BeginExchange(r) \/ RefuseExchange(r)
  \/ SessionInitialized(r) \/ InitializeFails(r)
  \/ Kind[r] # "stream" /\ (Served(r) \/ Deleted(r))

HttpNext ==
  \/ \E r \in Requests :
       \/ Receive(r) \/ RequestStep(r) \/ Served(r)
       \/ Unclassified(r) \/ EndExchange(r)
  \/ Sweep
  \/ BeginClose
  \/ CloseStep
  \/ HttpTick

(* The drain timer fires, transports close, and legacy requests other than *)
(* streams are answered; clients owe nothing, and an exchange may last.    *)
HttpFairness ==
  /\ WF_httpVars(CloseStep)
  /\ \A r \in Requests : WF_httpVars(RequestStep(r))

HttpSpec == HttpInit /\ [][HttpNext]_httpVars /\ HttpFairness

-----------------------------------------------------------------------------
(* Properties.                                                             *)

(* The cap is checked before the awaits that register a session, so it may *)
(* be exceeded, and stays so: by the initializations that ever overlapped, *)
(* less one, and by no more.                                               *)
SessionsBounded ==
  Cardinality(sessions) + Cardinality(Connecting)
    <= MaxSessions - 1 + Max({peak, 1})

(* An exchange loses its answer at shutdown only when the drain timed out, *)
(* and none begins behind the closed adapter, however close() overlaps     *)
(* with requests that are still being read and classified.                 *)
DrainHonest ==
  /\ shut \in {"closing", "waiting", "closed"} => Active = {}
  /\ \A r \in Requests :
       Kind[r] = "modern" /\ answer[r] = "cut" => drainedBy = "timeout"

(* A shutdown without streams ends, whatever exchanges are in flight and   *)
(* whatever sessions are being initialized when it begins.                 *)
ShutdownEnds ==
  (\A r \in Requests : Kind[r] # "stream") => (shut = "draining" ~> shut = "closed")
=============================================================================
