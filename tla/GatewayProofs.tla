--------------------------- MODULE GatewayProofs ---------------------------
(***************************************************************************)
(* Proofs about what lets requests in and reads out, for every value of    *)
(* the constants: the sessions of the HTTP transport and its drain, and    *)
(* the slots, lanes and shared operations of the read coordinator.         *)
(***************************************************************************)
EXTENDS HttpSessions, ReadCoordinator, FiniteSetTheorems, WellFoundedInduction,
        SequenceTheorems, TLAPS

(* A set of naturals that is not empty has a least member.                 *)
LEMMA LeastNatural ==
  ASSUME NEW N \in SUBSET Nat, N # {}
  PROVE  \E n \in N : \A m \in N : n <= m
<1>1. PICK n \in N : \A m \in N : ~(<<m, n>> \in OpToRel(<, Nat))
  BY NatLessThanWellFounded, WFMin
<1>2. ASSUME NEW m \in N
      PROVE  n <= m
  <2>1. m \in Nat /\ n \in Nat /\ <<m, n>> \in Nat \X Nat
    OBVIOUS
  <2>2. ~(<<m, n>>[1] < <<m, n>>[2])
    BY <1>1, <2>1 DEF OpToRel
  <2> QED
    BY <2>1, <2>2
<1> QED
  BY <1>2

LEMMA MaxOfTwo ==
  ASSUME NEW a \in Nat, NEW b \in Nat
  PROVE  Max({a, b}) \in {a, b} /\ Max({a, b}) >= a /\ Max({a, b}) >= b
<1>1. \E x \in {a, b} : \A y \in {a, b} : x >= y
  BY a >= b \/ b >= a
<1> QED
  BY <1>1 DEF Max

-----------------------------------------------------------------------------
(* Sessions and the drain of the HTTP transport.                           *)

Phase == {"idle", "reading", "connecting", "serving", "exchanging", "done"}

Answer == {"none", "ok", "failed", "refused", "draining", "cut"}

HttpTypes ==
  /\ phase \in [Requests -> Phase]
  /\ answer \in [Requests -> Answer]
  /\ sessions \subseteq Inits
  /\ lastSeen \in [Inits -> Nat]
  /\ clock \in Nat
  /\ peak \in Nat

(* The table is finite, and as large as the initializations that overlapped*)
(* have let it grow.                                                       *)
RoomInv ==
  /\ IsFiniteSet(sessions) /\ IsFiniteSet(Connecting)
  /\ Cardinality(Connecting) <= peak
  /\ SessionsBounded

(* Only initialize requests connect, no modern exchange rides a session,   *)
(* and nothing ends the drain before it begins.                            *)
DrainInv ==
  /\ \A r \in Requests : phase[r] = "connecting" => r \in Inits
  /\ \A r \in Requests : phase[r] = "serving" => Kind[r] # "modern"
  /\ shut \in {"open", "draining"} => drainedBy = "nothing"
  /\ DrainHonest

LEMMA OldestExists ==
  ASSUME HttpTypes, sessions # {}
  PROVE  Oldest # {}
<1> DEFINE N == {lastSeen[s] : s \in sessions}
<1>1. N \in SUBSET Nat /\ N # {}
  BY DEF HttpTypes
<1>2. PICK n \in N : \A m \in N : n <= m
  BY <1>1, LeastNatural
<1>3. PICK s \in sessions : lastSeen[s] = n
  OBVIOUS
<1> QED
  BY <1>2, <1>3 DEF Oldest

(* Sessions and initializations that end make room.                        *)
LEMMA FewerRoom ==
  ASSUME HttpTypes, RoomInv, sessions' \subseteq sessions,
         Connecting' \subseteq Connecting, peak' = peak
  PROVE  RoomInv'
<1>1. /\ IsFiniteSet(sessions') /\ Cardinality(sessions') <= Cardinality(sessions)
      /\ IsFiniteSet(Connecting') /\ Cardinality(Connecting') <= Cardinality(Connecting)
  BY FS_Subset DEF RoomInv
<1>2. /\ Cardinality(sessions) \in Nat /\ Cardinality(sessions') \in Nat
      /\ Cardinality(Connecting) \in Nat /\ Cardinality(Connecting') \in Nat
  BY <1>1, FS_CardinalityType DEF RoomInv
<1>3. MaxSessions \in Nat /\ peak \in Nat /\ Max({peak, 1}) \in Nat
  BY HttpAssumption, MaxOfTwo DEF HttpAssumption, HttpTypes
<1>4. SessionsBounded'
  BY <1>1, <1>2, <1>3 DEF RoomInv, SessionsBounded
<1> QED
  BY <1>1, <1>2, <1>3, <1>4 DEF RoomInv

LEMMA CloseSessionTyped ==
  ASSUME HttpTypes, NEW closed, NEW p \in [Requests -> Phase],
         NEW a \in [Requests -> Answer], CloseSession(closed, p, a)
  PROVE  /\ phase' \in [Requests -> Phase]
         /\ answer' \in [Requests -> Answer]
         /\ sessions' \subseteq sessions
         /\ lastSeen' \in [Inits -> Nat]
         /\ \A r \in Requests : phase'[r] \in {p[r], "done"}
         /\ \A r \in Requests : answer'[r] = a[r] \/ phase[r] = "serving"
  BY DEF HttpTypes, CloseSession, Phase, Answer, Riding, In

LEMMA FinishTyped ==
  ASSUME HttpTypes, NEW r \in Requests, NEW how \in Answer, Finish(r, how)
  PROVE  /\ phase' \in [Requests -> Phase]
         /\ answer' \in [Requests -> Answer]
         /\ phase'[r] = "done" /\ \A q \in Requests \ {r} : phase'[q] = phase[q]
         /\ answer'[r] = how /\ \A q \in Requests \ {r} : answer'[q] = answer[q]
  BY DEF HttpTypes, Finish, Move, Phase

LEMMA MoveTyped ==
  ASSUME HttpTypes, NEW r \in Requests, NEW p \in Phase, Move(r, p)
  PROVE  /\ phase' \in [Requests -> Phase]
         /\ phase'[r] = p /\ \A q \in Requests \ {r} : phase'[q] = phase[q]
  BY DEF HttpTypes, Move

LEMMA InitializeRoom ==
  ASSUME HttpTypes, RoomInv, NEW r \in Requests, Initialize(r)
  PROVE  RoomInv'
<1> DEFINE p == [phase EXCEPT ![r] = "connecting"]
<1>1. /\ phase[r] = "reading" /\ r \notin Connecting
      /\ p \in [Requests -> Phase] /\ p[r] = "connecting"
      /\ \A q \in Requests \ {r} : p[q] = phase[q]
  BY DEF Initialize, Connecting, In, HttpTypes, Phase
<1>2. PICK closed \in SUBSET sessions :
        /\ CloseSession(closed, p, answer)
        /\ \/ closed = {} /\ ~\E s \in sessions : MakesRoom(s)
           \/ \E s \in sessions : closed = {s} /\ MakesRoom(s)
  BY DEF Initialize
<1>3. sessions' = sessions \ closed
  BY <1>2 DEF CloseSession
<1>4. Connecting' = Connecting \cup {r}
  <2>1. \A q \in Requests : phase'[q] = p[q] \/ (phase[q] = "serving" /\ phase'[q] = "done")
    BY <1>2 DEF CloseSession, Riding, In
  <2> QED
    BY <1>1, <2>1 DEF Connecting, In
<1>5. /\ IsFiniteSet(Connecting') /\ Cardinality(Connecting') = Cardinality(Connecting) + 1
      /\ IsFiniteSet(sessions')
  BY <1>1, <1>3, <1>4, FS_AddElement, FS_Subset DEF RoomInv
<1>6. /\ Cardinality(sessions) \in Nat /\ Cardinality(sessions') \in Nat
      /\ Cardinality(Connecting) \in Nat
  BY <1>5, FS_CardinalityType DEF RoomInv
<1>7. /\ peak' \in Nat /\ peak' >= peak /\ peak' >= Cardinality(Connecting) + 1
      /\ MaxSessions \in Nat \ {0}
  BY <1>6, MaxOfTwo, HttpAssumption DEF HttpAssumption, Initialize, HttpTypes
<1>8. /\ Max({peak, 1}) \in {peak, 1} /\ Max({peak', 1}) >= peak' /\ Max({peak', 1}) \in Nat
      /\ Max({peak', 1}) >= 1
  BY <1>7, MaxOfTwo DEF HttpTypes
<1>9. Cardinality(sessions') + Cardinality(Connecting') <= MaxSessions - 1 + Max({peak', 1})
  <2>1. ASSUME NEW s \in sessions, closed = {s}
        PROVE  Cardinality(sessions') = Cardinality(sessions) - 1
    BY <1>3, <2>1, FS_RemoveElement DEF RoomInv
  <2>2. CASE closed = {} /\ ~\E s \in sessions : MakesRoom(s)
    <3>1. Cardinality(sessions) < MaxSessions
      <4> SUFFICES ASSUME Cardinality(sessions) >= MaxSessions
                   PROVE  FALSE
        BY <1>6, <1>7
      <4>1. sessions # {}
        BY <1>7, FS_EmptySet
      <4>2. PICK s : s \in Oldest
        BY <4>1, OldestExists
      <4> QED
        BY <2>2, <4>2 DEF MakesRoom, Oldest
    <3>2. sessions' = sessions
      BY <1>3, <2>2
    <3> QED
      BY <1>5, <1>6, <1>7, <1>8, <3>1, <3>2
  <2>3. CASE \E s \in sessions : closed = {s}
    <3>1. Cardinality(sessions') = Cardinality(sessions) - 1
      BY <2>1, <2>3
    <3>2. Cardinality(sessions) + Cardinality(Connecting) <= MaxSessions - 1 + Max({peak, 1})
      BY DEF RoomInv, SessionsBounded
    <3>3. peak \in Nat
      BY DEF HttpTypes
    <3> QED
      BY <1>5, <1>6, <1>7, <1>8, <3>1, <3>2, <3>3
  <2> QED
    BY <1>2, <2>2, <2>3
<1>10. SessionsBounded'
  BY <1>9 DEF SessionsBounded
<1> QED
  BY <1>5, <1>7, <1>10 DEF RoomInv

LEMMA InitializedRoom ==
  ASSUME HttpTypes, RoomInv, NEW r \in Requests, SessionInitialized(r)
  PROVE  RoomInv'
<1>1. r \in Connecting /\ Connecting' = Connecting \ {r} /\ sessions' = sessions \cup {r}
  BY DEF SessionInitialized, Move, Connecting, In, HttpTypes
<1>2. /\ IsFiniteSet(Connecting') /\ Cardinality(Connecting') = Cardinality(Connecting) - 1
      /\ IsFiniteSet(sessions') /\ Cardinality(sessions') <= Cardinality(sessions) + 1
  <2>1. IsFiniteSet(Connecting') /\ Cardinality(Connecting') = Cardinality(Connecting) - 1
    BY <1>1, FS_RemoveElement DEF RoomInv
  <2>2. /\ IsFiniteSet(sessions \cup {r}) /\ Cardinality(sessions) \in Nat
        /\ Cardinality(sessions \cup {r}) \in {Cardinality(sessions), Cardinality(sessions) + 1}
    BY FS_AddElement, FS_CardinalityType DEF RoomInv
  <2> QED
    BY <1>1, <2>1, <2>2
<1>3. /\ Cardinality(sessions) \in Nat /\ Cardinality(sessions') \in Nat
      /\ Cardinality(Connecting) \in Nat /\ Cardinality(Connecting') \in Nat
  BY <1>2, FS_CardinalityType DEF RoomInv
<1>4. peak' = peak /\ peak \in Nat /\ MaxSessions \in Nat /\ Max({peak, 1}) \in Nat
  BY HttpAssumption, MaxOfTwo DEF HttpAssumption, HttpTypes, SessionInitialized
<1>5. SessionsBounded'
  BY <1>2, <1>3, <1>4 DEF RoomInv, SessionsBounded
<1> QED
  BY <1>2, <1>3, <1>4, <1>5 DEF RoomInv

(* A step of a request that touches no session, or only closes some.       *)
HttpQuiet ==
  /\ phase' \in [Requests -> Phase]
  /\ answer' \in [Requests -> Answer]
  /\ sessions' \subseteq sessions
  /\ lastSeen' \in [Inits -> Nat]
  /\ clock' \in Nat
  /\ peak' = peak
  /\ Connecting' \subseteq Connecting

LEMMA QuietHttp ==
  ASSUME HttpTypes, RoomInv, HttpQuiet
  PROVE  HttpTypes' /\ RoomInv'
  BY FewerRoom DEF HttpTypes, HttpQuiet

LEMMA FinishQuiet ==
  ASSUME HttpTypes, NEW r \in Requests, NEW how \in Answer, Finish(r, how),
         UNCHANGED <<sessions, lastSeen, clock, peak>>
  PROVE  HttpQuiet
<1>1. Connecting' \subseteq Connecting
  BY FinishTyped DEF Connecting, In
<1> QED
  BY <1>1, FinishTyped DEF HttpQuiet, HttpTypes

LEMMA MoveQuiet ==
  ASSUME HttpTypes, NEW r \in Requests, NEW p \in Phase \ {"connecting"}, Move(r, p),
         UNCHANGED <<answer, sessions, clock, peak>>, lastSeen' \in [Inits -> Nat]
  PROVE  HttpQuiet
<1>1. Connecting' \subseteq Connecting
  BY MoveTyped DEF Connecting, In
<1> QED
  BY <1>1, MoveTyped DEF HttpQuiet, HttpTypes

LEMMA CloseQuiet ==
  ASSUME HttpTypes, NEW closed, NEW p \in [Requests -> Phase],
         NEW a \in [Requests -> Answer], CloseSession(closed, p, a),
         \A r \in Requests : p[r] \in {phase[r], "done"},
         UNCHANGED <<clock, peak>>
  PROVE  HttpQuiet
<1>1. Connecting' \subseteq Connecting
  BY CloseSessionTyped DEF Connecting, In
<1> QED
  BY <1>1, CloseSessionTyped DEF HttpQuiet, HttpTypes

(* A step that begins no session for a modern exchange, accepts none behind*)
(* the closed adapter and cuts none.                                       *)
DrainQuiet ==
  /\ UNCHANGED <<shut, drainedBy>>
  /\ \A r \in Requests :
       /\ phase'[r] = "connecting" => phase[r] = "connecting" \/ r \in Inits
       /\ phase'[r] = "serving" =>
            phase[r] \in {"serving", "connecting"} \/ Kind[r] # "modern"
       /\ phase'[r] = "exchanging" => phase[r] = "exchanging" \/ shut = "open"
       /\ answer'[r] = "cut" => answer[r] = "cut" \/ phase[r] = "serving"

LEMMA QuietDrain ==
  ASSUME HttpTypes, DrainInv, DrainQuiet
  PROVE  DrainInv'
<1>1. \A r \in Requests : phase'[r] = "connecting" => r \in Inits
  BY DEF DrainInv, DrainQuiet
<1>2. \A r \in Requests : phase'[r] = "serving" => Kind[r] # "modern"
  BY DEF DrainInv, DrainQuiet, Inits
<1>3. DrainHonest'
  BY DEF DrainInv, DrainQuiet, DrainHonest, Active, In
<1> QED
  BY <1>1, <1>2, <1>3 DEF DrainInv, DrainQuiet

(* What every step does to the table and to the drain.                     *)
RoomStep ==
  HttpQuiet \/ \E r \in Requests : Initialize(r) \/ SessionInitialized(r)

LEMMA HttpShape ==
  ASSUME HttpTypes, HttpNext
  PROVE  /\ RoomStep
         /\ DrainQuiet \/ BeginClose \/ (\E why \in DrainEnds : CloseAdapter(why))
              \/ AllClosed \/ ConnectionsEnded
<1> USE DEF HttpTypes
<1>1. ASSUME NEW r \in Requests,
             Receive(r) \/ Ride(r) \/ BeginExchange(r)
      PROVE  RoomStep /\ DrainQuiet
  <2>1. PICK p \in {"reading", "serving", "exchanging"} : Move(r, p)
    BY <1>1 DEF Receive, Ride, BeginExchange
  <2>2. lastSeen' \in [Inits -> Nat] /\ UNCHANGED <<answer, sessions, clock, peak, shut, drainedBy>>
    BY <1>1 DEF Receive, Ride, BeginExchange
  <2>3. p \in Phase \ {"connecting"}
    BY DEF Phase
  <2>4. HttpQuiet
    BY <2>1, <2>2, <2>3, MoveQuiet
  <2>5. /\ phase'[r] = "serving" => Kind[r] # "modern"
        /\ phase'[r] = "exchanging" => shut = "open"
        /\ phase'[r] # "connecting"
    BY <1>1 DEF Receive, Ride, BeginExchange, Move, Accepts, Draining
  <2>6. \A q \in Requests \ {r} : phase'[q] = phase[q]
    BY <2>1 DEF Move
  <2> QED
    BY <2>2, <2>4, <2>5, <2>6 DEF RoomStep, DrainQuiet
<1>2. ASSUME NEW r \in Requests, NEW how \in Answer \ {"cut"}, Finish(r, how),
             UNCHANGED <<sessions, lastSeen, clock, shut, drainedBy, peak>>
      PROVE  RoomStep /\ DrainQuiet
  <2>1. HttpQuiet
    BY <1>2, FinishQuiet
  <2>2. DrainQuiet
    BY <1>2, FinishTyped DEF DrainQuiet
  <2> QED
    BY <2>1, <2>2 DEF RoomStep
<1>3. ASSUME NEW r \in Requests,
             \/ InitializeFails(r) \/ Refuse(r) \/ Served(r) \/ RefuseExchange(r)
             \/ Unclassified(r) \/ EndExchange(r)
      PROVE  RoomStep /\ DrainQuiet
  <2>1. /\ \E how \in Answer \ {"cut"} : Finish(r, how)
        /\ UNCHANGED <<sessions, lastSeen, clock, shut, drainedBy, peak>>
    BY <1>3 DEF InitializeFails, Refuse, Served, RefuseExchange, Unclassified, EndExchange,
                Answer
  <2> QED
    BY <1>2, <2>1
<1>4. ASSUME NEW r \in Requests, Initialize(r) PROVE RoomStep /\ DrainQuiet
  <2> DEFINE p == [phase EXCEPT ![r] = "connecting"]
  <2>1. /\ p[r] = "connecting" /\ r \in Inits /\ \A q \in Requests \ {r} : p[q] = phase[q]
        /\ p \in [Requests -> Phase]
    BY <1>4 DEF Initialize, Phase
  <2>2. UNCHANGED <<shut, drainedBy>> /\ \E closed : CloseSession(closed, p, answer)
    BY <1>4 DEF Initialize
  <2> HIDE DEF p
  <2>3. DrainQuiet
    BY <2>1, <2>2, CloseSessionTyped DEF DrainQuiet
  <2> QED
    BY <1>4, <2>3 DEF RoomStep
<1>5. ASSUME NEW r \in Requests, SessionInitialized(r) PROVE RoomStep /\ DrainQuiet
  BY <1>5 DEF SessionInitialized, Move, DrainQuiet, RoomStep
<1>6. ASSUME NEW r \in Requests, Deleted(r) PROVE RoomStep /\ DrainQuiet
  <2> DEFINE p == [phase EXCEPT ![r] = "done"]
             a == [answer EXCEPT ![r] = "ok"]
             closed == {Target[r]}
  <2>1. /\ p \in [Requests -> Phase] /\ a \in [Requests -> Answer]
        /\ \A q \in Requests : p[q] \in {phase[q], "done"}
        /\ \A q \in Requests : a[q] \in {answer[q], "ok"}
    BY DEF Phase, Answer
  <2>2. UNCHANGED <<clock, shut, drainedBy, peak>> /\ CloseSession(closed, p, a)
    BY <1>6 DEF Deleted
  <2> HIDE DEF p, a, closed
  <2>3. HttpQuiet
    BY <2>1, <2>2, CloseQuiet
  <2>4. DrainQuiet
    <3>1. \A q \in Requests : phase'[q] \in {p[q], "done"}
      BY <2>1, <2>2, CloseSessionTyped
    <3>2. \A q \in Requests : answer'[q] = a[q] \/ phase[q] = "serving"
      BY <2>1, <2>2, CloseSessionTyped
    <3>3. \A q \in Requests : phase'[q] \in {phase[q], "done"}
      BY <2>1, <3>1
    <3>4. \A q \in Requests : answer'[q] = "cut" => answer[q] = "cut" \/ phase[q] = "serving"
      BY <2>1, <3>2
    <3> QED
      BY <2>2, <3>3, <3>4 DEF DrainQuiet
  <2> QED
    BY <2>3, <2>4 DEF RoomStep
<1>7. ASSUME NEW closed, CloseSession(closed, phase, answer),
             UNCHANGED <<clock, shut, drainedBy, peak>>
      PROVE  RoomStep /\ DrainQuiet
  <2>1. HttpQuiet
    BY <1>7, CloseQuiet
  <2>2. DrainQuiet
    BY <1>7, CloseSessionTyped DEF DrainQuiet
  <2> QED
    BY <2>1, <2>2 DEF RoomStep
<1>8. ASSUME Sweep \/ CloseTransport PROVE RoomStep /\ DrainQuiet
  <2>1. /\ UNCHANGED <<clock, shut, drainedBy, peak>>
        /\ \E closed : CloseSession(closed, phase, answer)
    BY <1>8 DEF Sweep, CloseTransport
  <2> QED
    BY <1>7, <2>1
<1>9. ASSUME BeginClose \/ AllClosed \/ ConnectionsEnded PROVE RoomStep
  BY <1>9 DEF BeginClose, AllClosed, ConnectionsEnded, RoomStep, HttpQuiet, Connecting, In
<1>10. ASSUME NEW why \in DrainEnds, CloseAdapter(why) PROVE RoomStep
  BY <1>10 DEF CloseAdapter, RoomStep, HttpQuiet, Connecting, In, Phase, Answer
<1>11. ASSUME HttpTick PROVE RoomStep /\ DrainQuiet
  BY <1>11 DEF HttpTick, RoomStep, HttpQuiet, Connecting, In, DrainQuiet
<1> QED
  BY <1>1, <1>3, <1>4, <1>5, <1>6, <1>8, <1>9, <1>10, <1>11
     DEF HttpNext, RequestStep, CloseStep

LEMMA RoomKept ==
  ASSUME HttpTypes, RoomInv, DrainInv, RoomStep
  PROVE  HttpTypes' /\ RoomInv'
<1>1. CASE HttpQuiet
  BY <1>1, QuietHttp
<1>2. ASSUME NEW r \in Requests, Initialize(r) PROVE HttpTypes' /\ RoomInv'
  <2> DEFINE p == [phase EXCEPT ![r] = "connecting"]
  <2>1. /\ p \in [Requests -> Phase] /\ answer \in [Requests -> Answer]
        /\ clock' = clock /\ \E closed : CloseSession(closed, p, answer)
    BY <1>2 DEF HttpTypes, Initialize, Phase
  <2>2. peak' \in Nat
    <3>1. Cardinality(Connecting) + 1 \in Nat
      BY FS_CardinalityType DEF RoomInv
    <3> QED
      BY <1>2, <3>1, MaxOfTwo DEF HttpTypes, Initialize
  <2> HIDE DEF p
  <2>3. HttpTypes'
    BY <2>1, <2>2, CloseSessionTyped DEF HttpTypes
  <2> QED
    BY <1>2, <2>3, InitializeRoom
<1>3. ASSUME NEW r \in Requests, SessionInitialized(r)
      PROVE  HttpTypes' /\ RoomInv'
  <2>1. r \in Inits
    BY <1>3 DEF SessionInitialized, DrainInv
  <2> QED
    BY <1>3, <2>1, InitializedRoom DEF SessionInitialized, Move, HttpTypes, Phase
<1> QED
  BY <1>1, <1>2, <1>3 DEF RoomStep

(* The adapter closes behind the last exchange, or cuts what the timeout   *)
(* finds.                                                                  *)
LEMMA CloseDrain ==
  ASSUME HttpTypes, DrainInv, NEW why \in DrainEnds, CloseAdapter(why)
  PROVE  DrainInv'
<1>1. /\ \A r \in Requests : phase'[r] \in {phase[r], "done"}
      /\ Active' = {}
  BY DEF CloseAdapter, Active, In
<1>2. ASSUME NEW r \in Requests, Kind[r] = "modern", answer'[r] = "cut"
      PROVE  drainedBy' = "timeout"
  <2>1. drainedBy # "timeout" /\ answer[r] # "cut"
    BY <1>2 DEF CloseAdapter, DrainInv, DrainHonest
  <2>2. r \in Active
    BY <1>2, <2>1 DEF CloseAdapter
  <2> QED
    BY <2>2 DEF CloseAdapter, DrainEnds
<1>3. DrainHonest'
  BY <1>1, <1>2 DEF DrainHonest
<1> QED
  BY <1>1, <1>3 DEF DrainInv, CloseAdapter

LEMMA DrainKept ==
  ASSUME HttpTypes, DrainInv,
         DrainQuiet \/ BeginClose \/ (\E why \in DrainEnds : CloseAdapter(why))
           \/ AllClosed \/ ConnectionsEnded
  PROVE  DrainInv'
<1>1. CASE BeginClose \/ AllClosed \/ ConnectionsEnded
  BY <1>1 DEF BeginClose, AllClosed, ConnectionsEnded, DrainInv, DrainHonest, Active, In
<1> QED
  BY <1>1, QuietDrain, CloseDrain

(* The table and the drain, however requests, sweeps and close() interleave.*)
THEOREM HttpCorrect == HttpSpec => [](HttpTypes /\ RoomInv /\ DrainInv)
<1>1. HttpInit => HttpTypes /\ RoomInv /\ DrainInv
  <2> SUFFICES ASSUME HttpInit
               PROVE  HttpTypes /\ RoomInv /\ DrainInv
    OBVIOUS
  <2>1. HttpTypes
    BY DEF HttpInit, HttpTypes, Phase, Answer
  <2>2. sessions = {} /\ Connecting = {} /\ Active = {} /\ peak = 0
    BY DEF HttpInit, Connecting, Active, In
  <2>3. IsFiniteSet({}) /\ Cardinality({}) = 0
    BY FS_EmptySet
  <2>4. MaxSessions \in Nat \ {0} /\ Max({0, 1}) >= 1 /\ Max({0, 1}) \in {0, 1}
    BY MaxOfTwo, HttpAssumption DEF HttpAssumption
  <2>5. RoomInv
    BY <2>2, <2>3, <2>4 DEF RoomInv, SessionsBounded
  <2> QED
    BY <2>1, <2>2, <2>5 DEF HttpInit, DrainInv, DrainHonest
<1>2. HttpTypes /\ RoomInv /\ DrainInv /\ [HttpNext]_httpVars
        => (HttpTypes /\ RoomInv /\ DrainInv)'
  <2> SUFFICES ASSUME HttpTypes, RoomInv, DrainInv, [HttpNext]_httpVars
               PROVE  HttpTypes' /\ RoomInv' /\ DrainInv'
    OBVIOUS
  <2>1. CASE HttpNext
    BY <2>1, HttpShape, RoomKept, DrainKept
  <2>2. CASE UNCHANGED httpVars
    BY <2>2 DEF httpVars, HttpTypes, RoomInv, DrainInv, SessionsBounded, DrainHonest,
                Connecting, Active, In
  <2> QED
    BY <2>1, <2>2
<1> QED
  BY <1>1, <1>2, PTL DEF HttpSpec

(* The session cap is exceeded by the initializations that overlapped, less*)
(* one, and by no more.                                                    *)
THEOREM SessionCap == HttpSpec => []SessionsBounded
<1>1. RoomInv => SessionsBounded
  BY DEF RoomInv
<1> QED
  BY <1>1, HttpCorrect, PTL

(* A modern exchange loses its answer only to the drain timeout, and none  *)
(* begins behind the closed adapter.                                       *)
THEOREM HonestDrain == HttpSpec => []DrainHonest
<1>1. DrainInv => DrainHonest
  BY DEF DrainInv
<1> QED
  BY <1>1, HttpCorrect, PTL

-----------------------------------------------------------------------------
(* Sequences without repetition.                                           *)

LEMMA Appended ==
  ASSUME NEW S, NEW q \in Seq(S), NEW x \in S, IsInjective(q), x \notin ToSet(q)
  PROVE  /\ Append(q, x) \in Seq(S) /\ IsInjective(Append(q, x))
         /\ ToSet(Append(q, x)) = ToSet(q) \cup {x}
         /\ Append(q, x) # <<>>
<1> DEFINE r == Append(q, x)
<1>1. /\ r \in Seq(S) /\ Len(r) = Len(q) + 1
      /\ \A k \in 1..Len(q) : r[k] = q[k]
      /\ r[Len(q) + 1] = x
      /\ DOMAIN q = 1..Len(q) /\ DOMAIN r = 1..(Len(q) + 1) /\ Len(q) \in Nat
  OBVIOUS
<1> HIDE DEF r
<1>2. IsInjective(r)
  BY <1>1 DEF IsInjective, ToSet
<1>3. ToSet(r) = ToSet(q) \cup {x}
  BY <1>1 DEF ToSet
<1>4. r # <<>>
  BY <1>1
<1> QED
  BY <1>1, <1>2, <1>3, <1>4 DEF r

LEMMA Shifted ==
  ASSUME NEW S, NEW q \in Seq(S), q # <<>>, IsInjective(q)
  PROVE  /\ Head(q) \in S /\ Head(q) \in ToSet(q)
         /\ Tail(q) \in Seq(S) /\ IsInjective(Tail(q))
         /\ ToSet(Tail(q)) = ToSet(q) \ {Head(q)}
         /\ Len(q) = 1 <=> Tail(q) = <<>>
<1> DEFINE r == Tail(q)
<1>1. /\ r \in Seq(S) /\ Len(r) = Len(q) - 1 /\ Len(q) \in Nat /\ Len(q) > 0
      /\ \A k \in 1..(Len(q) - 1) : r[k] = q[k + 1]
      /\ DOMAIN q = 1..Len(q) /\ DOMAIN r = 1..(Len(q) - 1)
      /\ Head(q) = q[1] /\ Head(q) \in S
  OBVIOUS
<1> HIDE DEF r
<1>2. IsInjective(r)
  BY <1>1 DEF IsInjective
<1>3. ASSUME NEW x \in ToSet(q), x # q[1]
      PROVE  x \in ToSet(r)
  <2>1. PICK k \in 1..Len(q) : q[k] = x
    BY <1>1 DEF ToSet
  <2>2. k - 1 \in 1..(Len(q) - 1) /\ r[k - 1] = x
    BY <1>1, <1>3, <2>1
  <2> QED
    BY <1>1, <2>2 DEF ToSet
<1>4. ASSUME NEW x \in ToSet(r)
      PROVE  x \in ToSet(q) /\ x # q[1]
  <2>1. PICK k \in 1..(Len(q) - 1) : r[k] = x
    BY <1>1, <1>4 DEF ToSet
  <2>2. k + 1 \in 1..Len(q) /\ q[k + 1] = x /\ k + 1 # 1
    BY <1>1, <2>1
  <2> QED
    BY <1>1, <2>2 DEF ToSet, IsInjective
<1>5. ToSet(r) = ToSet(q) \ {q[1]}
  BY <1>3, <1>4
<1>6. Len(q) = 1 <=> r = <<>>
  BY <1>1
<1>7. q[1] \in ToSet(q)
  BY <1>1 DEF ToSet
<1> QED
  BY <1>1, <1>2, <1>5, <1>6, <1>7 DEF r

LEMMA RemovedAt ==
  ASSUME NEW S, NEW q \in Seq(S), NEW i \in 1..Len(q), IsInjective(q)
  PROVE  /\ RemoveAt(q, i) \in Seq(S) /\ IsInjective(RemoveAt(q, i))
         /\ ToSet(RemoveAt(q, i)) = ToSet(q) \ {q[i]}
         /\ Len(RemoveAt(q, i)) = Len(q) - 1
<1> DEFINE r == RemoveAt(q, i)
<1>1. /\ r \in Seq(S) /\ Len(r) = Len(q) - 1 /\ Len(q) \in Nat
      /\ DOMAIN q = 1..Len(q) /\ DOMAIN r = 1..(Len(q) - 1)
      /\ \A k \in 1..(Len(q) - 1) : r[k] = IF k < i THEN q[k] ELSE q[k + 1]
  <2> DEFINE a == SubSeq(q, 1, i - 1)
             b == SubSeq(q, i + 1, Len(q))
  <2>5. Len(q) \in Nat /\ i \in Nat /\ DOMAIN q = 1..Len(q)
    OBVIOUS
  <2>1. /\ a \in Seq(S) /\ Len(a) = i - 1
        /\ \A k \in 1..(i - 1) : a[k] = q[k]
    OBVIOUS
  <2>2. /\ b \in Seq(S) /\ Len(b) = Len(q) - i
        /\ \A k \in 1..(Len(q) - i) : b[k] = q[i + k]
    OBVIOUS
  <2>3. r = a \o b
    BY DEF RemoveAt
  <2> HIDE DEF a, b, r
  <2>0. /\ r \in Seq(S) /\ Len(r) = Len(a) + Len(b)
        /\ \A k \in 1..(Len(a) + Len(b)) :
             r[k] = IF k <= Len(a) THEN a[k] ELSE b[k - Len(a)]
    <3>1. a \in Seq(S) /\ b \in Seq(S)
      BY <2>1, <2>2
    <3> QED
      BY <2>3, <3>1, ConcatProperties
  <2>4. /\ r \in Seq(S) /\ Len(r) = Len(a) + Len(b)
        /\ \A k \in 1..Len(a) : r[k] = a[k]
        /\ \A k \in (Len(a) + 1)..(Len(a) + Len(b)) : r[k] = b[k - Len(a)]
    <3>1. Len(a) \in Nat /\ Len(b) \in Nat
      BY <2>1, <2>2
    <3> QED
      BY <2>0, <3>1
  <2>6. DOMAIN r = 1..(Len(q) - 1) /\ Len(r) = Len(q) - 1
    BY <2>1, <2>2, <2>4, <2>5
  <2>7. ASSUME NEW k \in 1..(Len(q) - 1)
        PROVE  r[k] = IF k < i THEN q[k] ELSE q[k + 1]
    <3>1. CASE k < i
      BY <2>1, <2>4, <2>5, <3>1
    <3>2. CASE ~(k < i)
      <4>1. k \in (Len(a) + 1)..(Len(a) + Len(b)) /\ k - Len(a) \in 1..(Len(q) - i)
        BY <2>1, <2>2, <2>5, <3>2
      <4>2. r[k] = q[i + (k - Len(a))] /\ i + (k - Len(a)) = k + 1
        BY <2>1, <2>2, <2>4, <2>5, <4>1
      <4> QED
        BY <3>2, <4>2
    <3> QED
      BY <3>1, <3>2
  <2> QED
    BY <2>4, <2>5, <2>6, <2>7
<1> HIDE DEF r
<1>2. IsInjective(r)
  <2> SUFFICES ASSUME NEW j \in DOMAIN r, NEW k \in DOMAIN r, r[j] = r[k]
               PROVE  j = k
    BY DEF IsInjective
  <2> DEFINE at(m) == IF m < i THEN m ELSE m + 1
  <2>1. /\ j \in Int /\ k \in Int /\ i \in Int
        /\ at(j) \in 1..Len(q) /\ at(k) \in 1..Len(q)
        /\ r[j] = q[at(j)] /\ r[k] = q[at(k)]
    BY <1>1
  <2>2. at(j) = at(k)
    BY <1>1, <2>1 DEF IsInjective
  <2> QED
    BY <2>1, <2>2
<1>3. ASSUME NEW x \in ToSet(q), x # q[i]
      PROVE  x \in ToSet(r)
  <2>1. PICK k \in 1..Len(q) : q[k] = x
    BY <1>1 DEF ToSet
  <2>2. CASE k < i
    BY <1>1, <2>1, <2>2 DEF ToSet
  <2>3. CASE k > i
    <3>1. k - 1 \in 1..(Len(q) - 1) /\ r[k - 1] = x
      BY <1>1, <2>1, <2>3
    <3> QED
      BY <1>1, <3>1 DEF ToSet
  <2> QED
    BY <1>3, <2>1, <2>2, <2>3
<1>4. ASSUME NEW x \in ToSet(r)
      PROVE  x \in ToSet(q) /\ x # q[i]
  <2>1. PICK k \in 1..(Len(q) - 1) : r[k] = x
    BY <1>1, <1>4 DEF ToSet
  <2>2. \E j \in 1..Len(q) : j # i /\ q[j] = x
    BY <1>1, <2>1
  <2> QED
    BY <1>1, <2>2 DEF ToSet, IsInjective
<1>5. ToSet(r) = ToSet(q) \ {q[i]}
  BY <1>3, <1>4
<1> QED
  BY <1>1, <1>2, <1>5 DEF r

LEMMA Positioned ==
  ASSUME NEW S, NEW q \in Seq(S), NEW x \in ToSet(q)
  PROVE  /\ Position(q, x) + 1 \in 1..Len(q) /\ q[Position(q, x) + 1] = x
         /\ Position(q, x) \in Nat
<1>1. \E k \in 1..Len(q) : q[k] = x
  BY DEF ToSet
<1> DEFINE p == CHOOSE k \in 1..Len(q) : q[k] = x
<1>2. p \in 1..Len(q) /\ q[p] = x
  BY <1>1
<1>3. Position(q, x) = p - 1
  BY DEF Position
<1> HIDE DEF p
<1> QED
  BY <1>2, <1>3

LEMMA WithoutOne ==
  ASSUME NEW S, NEW q \in Seq(S), NEW x \in ToSet(q), IsInjective(q)
  PROVE  /\ Without(q, x) \in Seq(S) /\ IsInjective(Without(q, x))
         /\ ToSet(Without(q, x)) = ToSet(q) \ {x}
<1> DEFINE i == Position(q, x) + 1
<1>1. i \in 1..Len(q) /\ q[i] = x
  BY Positioned
<1>2. Without(q, x) = RemoveAt(q, i)
  BY DEF Without
<1> HIDE DEF i
<1> QED
  BY <1>1, <1>2, RemovedAt

LEMMA NoneInside ==
  ASSUME NEW S, NEW q \in Seq(S)
  PROVE  q = <<>> <=> ToSet(q) = {}
<1>1. DOMAIN q = 1..Len(q) /\ Len(q) \in Nat /\ (q = <<>> <=> Len(q) = 0)
  OBVIOUS
<1>2. Len(q) # 0 => q[1] \in ToSet(q)
  BY <1>1 DEF ToSet
<1>3. Len(q) = 0 => ToSet(q) = {}
  BY <1>1 DEF ToSet
<1> QED
  BY <1>1, <1>2, <1>3

-----------------------------------------------------------------------------
(* The scheduler's state.                                                  *)

Task == {"none", "queued", "running", "abandoned"}

Sched == [task : [ReadCalls -> Task], queue : [Consumers -> Seq(ReadCalls)],
          lanes : Seq(Consumers), cursor : Nat, last : Consumers \cup {NoOne},
          active : Nat]

Holding(s) == {t \in ReadCalls : s.task[t] \in {"running", "abandoned"}}

Alive(s) == {t \in ReadCalls : s.task[t] \in {"queued", "running"}}

(* What SlotsExact says of a state that the pump may not have reached yet. *)
Orderly(s) ==
  /\ s \in Sched
  /\ IsFiniteSet(Holding(s))
  /\ s.active = Cardinality(Holding(s))
  /\ s.active <= MaxConcurrency
  /\ IsInjective(s.lanes)
  /\ ToSet(s.lanes) = {x \in Consumers : s.queue[x] # <<>>}
  /\ \A x \in Consumers :
       /\ IsInjective(s.queue[x])
       /\ ToSet(s.queue[x]) = {t \in ReadCalls : s.task[t] = "queued" /\ Lane(t) = x}

Busy(s) == s.lanes # <<>> => s.active = MaxConcurrency

(* One more slot, or one more read, is all the pump will find.             *)
OneShort(s) ==
  \/ s.lanes = <<>>
  \/ s.active >= MaxConcurrency - 1
  \/ \E x \in Consumers : s.lanes = <<x>> /\ Len(s.queue[x]) = 1

LEMMA LaneOf ==
  ASSUME NEW t \in ReadCalls
  PROVE  Lane(t) \in Consumers
  BY CoordinatorAssumption DEF CoordinatorAssumption, Lane

LEMMA EnqueuedFields ==
  ASSUME NEW s \in Sched, NEW t \in ReadCalls
  PROVE  LET r == Enqueued(s, t)
             x == Lane(t) IN
         /\ r \in Sched
         /\ r.task = [s.task EXCEPT ![t] = "queued"]
         /\ r.queue = [s.queue EXCEPT ![x] = Append(s.queue[x], t)]
         /\ r.lanes = IF Contains(s.lanes, x) THEN s.lanes ELSE Append(s.lanes, x)
         /\ r.active = s.active
<1> DEFINE x == Lane(t)
           r == Enqueued(s, t)
           q == Append(s.queue[x], t)
           l == IF Contains(s.lanes, x) THEN s.lanes ELSE Append(s.lanes, x)
<1>1. x \in Consumers /\ q \in Seq(ReadCalls) /\ l \in Seq(Consumers)
  BY LaneOf DEF Sched
<1>2. r = [s EXCEPT !.task[t] = "queued", !.queue[x] = q, !.lanes = l]
  BY DEF Enqueued
<1> HIDE DEF x, q, l, r
<1>3. r \in Sched
  BY <1>1, <1>2 DEF Sched, Task
<1> QED
  BY <1>1, <1>2, <1>3 DEF Sched, x, q, l, r

LEMMA EnqueuedOrderly ==
  ASSUME NEW s, Orderly(s), Busy(s), NEW t \in ReadCalls, s.task[t] = "none"
  PROVE  /\ Orderly(Enqueued(s, t)) /\ OneShort(Enqueued(s, t))
         /\ Alive(Enqueued(s, t)) = Alive(s) \cup {t}
<1> DEFINE x == Lane(t)
           r == Enqueued(s, t)
<1>1. /\ s \in Sched /\ x \in Consumers
      /\ r \in Sched
      /\ r.task = [s.task EXCEPT ![t] = "queued"]
      /\ r.queue = [s.queue EXCEPT ![x] = Append(s.queue[x], t)]
      /\ r.lanes = IF Contains(s.lanes, x) THEN s.lanes ELSE Append(s.lanes, x)
      /\ r.active = s.active
  BY EnqueuedFields, LaneOf DEF Orderly
<1>2. /\ s.task \in [ReadCalls -> Task] /\ s.queue \in [Consumers -> Seq(ReadCalls)]
      /\ s.lanes \in Seq(Consumers) /\ s.active \in Nat
  BY <1>1 DEF Sched
<1> HIDE DEF r
<1>3. Holding(r) = Holding(s) /\ Alive(r) = Alive(s) \cup {t}
  BY <1>1, <1>2 DEF Holding, Alive
<1>4. Contains(s.lanes, x) <=> x \in ToSet(s.lanes)
  BY <1>2 DEF Contains, ToSet
<1>5. t \notin ToSet(s.queue[x])
  BY <1>1 DEF Orderly
<1>6. /\ IsInjective(r.queue[x]) /\ r.queue[x] # <<>>
      /\ ToSet(r.queue[x]) = ToSet(s.queue[x]) \cup {t}
  <2>1. s.queue[x] \in Seq(ReadCalls) /\ IsInjective(s.queue[x])
    BY <1>1, <1>2 DEF Orderly
  <2>2. r.queue[x] = Append(s.queue[x], t)
    BY <1>1, <1>2
  <2> QED
    BY <1>5, <2>1, <2>2, Appended
<1>7. \A y \in Consumers \ {x} : r.queue[y] = s.queue[y]
  BY <1>1, <1>2
<1>8. IsInjective(r.lanes) /\ ToSet(r.lanes) = ToSet(s.lanes) \cup {x}
  BY <1>1, <1>2, <1>4, Appended DEF Orderly
<1>9. ToSet(r.lanes) = {y \in Consumers : r.queue[y] # <<>>}
  BY <1>1, <1>6, <1>7, <1>8 DEF Orderly
<1>10. ASSUME NEW y \in Consumers
       PROVE  /\ IsInjective(r.queue[y])
              /\ ToSet(r.queue[y]) = {u \in ReadCalls : r.task[u] = "queued" /\ Lane(u) = y}
  BY <1>1, <1>2, <1>6, <1>7 DEF Orderly
<1>11. Orderly(r)
  BY <1>1, <1>3, <1>8, <1>9, <1>10 DEF Orderly
<1>12. OneShort(r)
  <2>1. CASE s.lanes # <<>>
    BY <1>1, <1>2, <2>1, CoordinatorAssumption DEF Busy, OneShort, CoordinatorAssumption
  <2>2. CASE s.lanes = <<>>
    <3>1. x \notin ToSet(s.lanes)
      BY <1>2, <2>2, NoneInside
    <3>2. s.queue[x] = <<>>
      BY <1>1, <3>1 DEF Orderly
    <3>3. r.lanes = <<x>> /\ r.queue[x] = <<t>>
      BY <1>1, <1>2, <1>4, <2>2, <3>1, <3>2
    <3> QED
      BY <1>1, <3>3 DEF OneShort
  <2> QED
    BY <2>1, <2>2
<1> QED
  BY <1>3, <1>11, <1>12 DEF r

LEMMA TurnListed ==
  ASSUME NEW s \in Sched, s.lanes # <<>>
  PROVE  /\ Turn(s) \in Nat /\ Turn(s) + 1 \in 1..Len(s.lanes)
         /\ (Turn(s) + 1) % Len(s.lanes) \in Nat
<1>1. Len(s.lanes) \in Nat \ {0} /\ s.cursor \in Nat
  BY DEF Sched
<1>2. Contains(s.lanes, s.last) => Position(s.lanes, s.last) \in Nat
  BY Positioned DEF Sched, Contains, ToSet
<1>3. \A n \in Nat : n % Len(s.lanes) \in Nat /\ n % Len(s.lanes) < Len(s.lanes)
  BY <1>1
<1>4. Turn(s) \in Nat /\ Turn(s) < Len(s.lanes)
  BY <1>1, <1>2, <1>3 DEF Turn
<1> QED
  BY <1>1, <1>3, <1>4

(* What the next dispatch takes from the lanes.                            *)
NextLane(s) == s.lanes[Turn(s) + 1]

NextTask(s) == Head(s.queue[NextLane(s)])

LEMMA DispatchedFields ==
  ASSUME NEW s, Orderly(s), s.lanes # <<>>
  PROVE  LET r == Dispatched(s)
             x == NextLane(s)
             t == NextTask(s) IN
         /\ x \in Consumers /\ s.queue[x] # <<>>
         /\ t \in ReadCalls /\ s.task[t] = "queued" /\ Lane(t) = x
         /\ r \in Sched
         /\ r.task = [s.task EXCEPT ![t] = "running"]
         /\ r.queue = [s.queue EXCEPT ![x] = Tail(s.queue[x])]
         /\ r.lanes = IF Len(s.queue[x]) = 1 THEN RemoveAt(s.lanes, Turn(s) + 1) ELSE s.lanes
         /\ r.active = s.active + 1
<1> DEFINE x == NextLane(s)
           t == NextTask(s)
           r == Dispatched(s)
           at == Turn(s)
           q == Tail(s.queue[x])
           alone == Len(s.queue[x]) = 1
           l == IF alone THEN RemoveAt(s.lanes, at + 1) ELSE s.lanes
           k == IF alone THEN at ELSE (at + 1) % Len(s.lanes)
           n == s.active + 1
<1>1. /\ s \in Sched /\ s.lanes \in Seq(Consumers) /\ s.queue \in [Consumers -> Seq(ReadCalls)]
      /\ s.active \in Nat
  BY DEF Orderly, Sched
<1>2. at + 1 \in 1..Len(s.lanes) /\ k \in Nat
  BY <1>1, TurnListed
<1>3. x \in Consumers /\ x \in ToSet(s.lanes)
  BY <1>1, <1>2 DEF ToSet, NextLane
<1>4. s.queue[x] # <<>> /\ s.queue[x] \in Seq(ReadCalls) /\ IsInjective(s.queue[x])
  BY <1>1, <1>3 DEF Orderly
<1>5. t \in ReadCalls /\ t \in ToSet(s.queue[x]) /\ q \in Seq(ReadCalls)
  BY <1>4, Shifted DEF NextTask
<1>6. s.task[t] = "queued" /\ Lane(t) = x
  BY <1>3, <1>5 DEF Orderly
<1>7. l \in Seq(Consumers) /\ n \in Nat
  BY <1>1, <1>2, RemovedAt DEF Orderly
<1>8. r = [s EXCEPT !.task[t] = "running", !.active = n, !.last = x, !.queue[x] = q,
                    !.lanes = l, !.cursor = k]
  BY DEF Dispatched, NextLane, NextTask
<1> HIDE DEF x, t, q, l, k, n, r
<1>9. r \in Sched
  BY <1>1, <1>2, <1>3, <1>5, <1>7, <1>8 DEF Sched, Task
<1>10. /\ r.task = [s.task EXCEPT ![t] = "running"]
       /\ r.queue = [s.queue EXCEPT ![x] = q]
       /\ r.lanes = l /\ r.active = n
  BY <1>1, <1>8 DEF Sched
<1> QED
  BY <1>3, <1>4, <1>5, <1>6, <1>9, <1>10 DEF x, t, q, l, n, r

LEMMA DispatchedOrderly ==
  ASSUME NEW s, Orderly(s), s.lanes # <<>>, s.active < MaxConcurrency
  PROVE  /\ Orderly(Dispatched(s))
         /\ Alive(Dispatched(s)) = Alive(s)
         /\ OneShort(s) => Busy(Dispatched(s))
<1> DEFINE r == Dispatched(s)
           x == NextLane(s)
           t == NextTask(s)
           alone == Len(s.queue[x]) = 1
<1>1. /\ x \in Consumers /\ s.queue[x] # <<>>
      /\ t \in ReadCalls /\ s.task[t] = "queued" /\ Lane(t) = x
      /\ r \in Sched
      /\ r.task = [s.task EXCEPT ![t] = "running"]
      /\ r.queue = [s.queue EXCEPT ![x] = Tail(s.queue[x])]
      /\ r.lanes = IF alone THEN RemoveAt(s.lanes, Turn(s) + 1) ELSE s.lanes
      /\ r.active = s.active + 1
  BY DispatchedFields
<1>2. /\ s.task \in [ReadCalls -> Task] /\ s.queue \in [Consumers -> Seq(ReadCalls)]
      /\ s.lanes \in Seq(Consumers) /\ s.active \in Nat /\ s \in Sched
      /\ MaxConcurrency \in Nat
  BY CoordinatorAssumption DEF Orderly, Sched, CoordinatorAssumption
<1>3. t = Head(s.queue[x]) /\ x = s.lanes[Turn(s) + 1] /\ Turn(s) + 1 \in 1..Len(s.lanes)
  BY <1>2, TurnListed DEF NextTask, NextLane
<1> HIDE DEF r, x, t
<1>4. Holding(r) = Holding(s) \cup {t} /\ t \notin Holding(s) /\ Alive(r) = Alive(s)
  BY <1>1, <1>2 DEF Holding, Alive
<1>5. IsFiniteSet(Holding(r)) /\ Cardinality(Holding(r)) = Cardinality(Holding(s)) + 1
  BY <1>4, FS_AddElement DEF Orderly
<1>6. /\ IsInjective(r.queue[x]) /\ ToSet(r.queue[x]) = ToSet(s.queue[x]) \ {t}
      /\ r.queue[x] = <<>> <=> alone
  <2>1. s.queue[x] \in Seq(ReadCalls) /\ IsInjective(s.queue[x])
    BY <1>1, <1>2 DEF Orderly
  <2>2. r.queue[x] = Tail(s.queue[x])
    BY <1>1, <1>2
  <2> QED
    BY <1>1, <1>3, <2>1, <2>2, Shifted
<1>7. \A y \in Consumers \ {x} : r.queue[y] = s.queue[y]
  BY <1>1, <1>2
<1>8. /\ IsInjective(r.lanes)
      /\ ToSet(r.lanes) = IF alone THEN ToSet(s.lanes) \ {x} ELSE ToSet(s.lanes)
      /\ alone => Len(r.lanes) = Len(s.lanes) - 1
  <2>1. IsInjective(s.lanes)
    BY DEF Orderly
  <2>2. LET rest == RemoveAt(s.lanes, Turn(s) + 1) IN
        /\ IsInjective(rest) /\ ToSet(rest) = ToSet(s.lanes) \ {x}
        /\ Len(rest) = Len(s.lanes) - 1
    BY <1>2, <1>3, <2>1, RemovedAt
  <2> QED
    BY <1>1, <2>1, <2>2
<1>9. ToSet(r.lanes) = {y \in Consumers : r.queue[y] # <<>>}
  BY <1>1, <1>6, <1>7, <1>8 DEF Orderly
<1>10. ASSUME NEW y \in Consumers
       PROVE  /\ IsInjective(r.queue[y])
              /\ ToSet(r.queue[y]) = {u \in ReadCalls : r.task[u] = "queued" /\ Lane(u) = y}
  <2>1. /\ IsInjective(s.queue[y])
        /\ ToSet(s.queue[y]) = {u \in ReadCalls : s.task[u] = "queued" /\ Lane(u) = y}
    BY DEF Orderly
  <2>2. \A u \in ReadCalls : r.task[u] = IF u = t THEN "running" ELSE s.task[u]
    BY <1>1, <1>2
  <2>3. CASE y = x
    BY <1>1, <1>6, <2>1, <2>2, <2>3
  <2>4. CASE y # x
    BY <1>1, <1>7, <2>1, <2>2, <2>4
  <2> QED
    BY <2>3, <2>4
<1>11. Orderly(r)
  <2>1. r.active = Cardinality(Holding(r)) /\ r.active <= MaxConcurrency
    BY <1>1, <1>2, <1>5 DEF Orderly
  <2>2. r \in Sched /\ IsInjective(r.lanes)
    BY <1>1, <1>8
  <2> QED
    BY <1>5, <1>9, <1>10, <2>1, <2>2 DEF Orderly
<1>12. ASSUME OneShort(s)
       PROVE  Busy(r)
  <2>1. CASE s.active >= MaxConcurrency - 1
    BY <1>1, <1>2, <2>1 DEF Busy
  <2>2. ASSUME NEW y \in Consumers, s.lanes = <<y>>, Len(s.queue[y]) = 1
        PROVE  Busy(r)
    <3>1. y = x /\ Len(s.lanes) = 1
      BY <1>3, <2>2
    <3>2. Len(r.lanes) = 0
      BY <1>8, <2>2, <3>1
    <3> QED
      BY <1>1, <3>2 DEF Busy, Sched
  <2> QED
    BY <1>12, <2>1, <2>2 DEF OneShort
<1> QED
  BY <1>4, <1>11, <1>12 DEF r

LEMMA FilledOrderly ==
  ASSUME NEW s, Orderly(s), OneShort(s)
  PROVE  /\ Orderly(Filled(s)) /\ Busy(Filled(s))
         /\ Alive(Filled(s)) = Alive(s)
         /\ Filled(Filled(s)) = Filled(s)
<1>1. /\ MaxConcurrency \in Nat /\ s.active \in Nat /\ s.active <= MaxConcurrency
  BY CoordinatorAssumption DEF CoordinatorAssumption, Orderly, Sched
<1>2. /\ Orderly(Filled(s)) /\ Busy(Filled(s))
      /\ Alive(Filled(s)) = Alive(s)
  <2>1. CASE s.active < MaxConcurrency /\ s.lanes # <<>>
    BY <2>1, DispatchedOrderly DEF Filled
  <2>2. CASE ~(s.active < MaxConcurrency /\ s.lanes # <<>>)
    BY <1>1, <2>2 DEF Filled, Busy
  <2> QED
    BY <2>1, <2>2
<1> QED
  BY <1>1, <1>2 DEF Filled, Busy

(* The pump settles after its first iteration.                             *)
LEMMA PumpedOnce ==
  ASSUME NEW s, Filled(Filled(s)) = Filled(s)
  PROVE  Pumped(s) = Filled(s)
<1> DEFINE D == 0..MaxConcurrency
           Pumps(g) == g = [k \in D |-> IF k = 0 THEN s ELSE Filled(g[k - 1])]
           p == CHOOSE g : Pumps(g)
           settled == [k \in D |-> IF k = 0 THEN s ELSE Filled(s)]
<1>1. MaxConcurrency \in Nat /\ MaxConcurrency > 0
  BY CoordinatorAssumption DEF CoordinatorAssumption
<1>2. Pumps(settled)
  <2>1. \A k \in D : settled[k] = IF k = 0 THEN s ELSE Filled(settled[k - 1])
    BY <1>1
  <2> QED
    BY <2>1
<1> HIDE DEF settled
<1>3. Pumps(p)
  BY <1>2
<1>4. Pumped(s) = p[MaxConcurrency]
  BY DEF Pumped
<1> HIDE DEF p
<1>5. \A k \in D : p[k] = IF k = 0 THEN s ELSE Filled(p[k - 1])
  BY <1>3
<1> DEFINE N == {k \in Nat : k \in D /\ k > 0 /\ p[k] # Filled(s)}
<1>6. N = {}
  <2> SUFFICES ASSUME N # {}
               PROVE  FALSE
    OBVIOUS
  <2>1. PICK k \in N : \A m \in N : k <= m
    <3>1. N \in SUBSET Nat
      OBVIOUS
    <3> HIDE DEF N
    <3> QED
      BY <3>1, LeastNatural
  <2>2. k \in D /\ k > 0 /\ p[k] = Filled(p[k - 1]) /\ k - 1 \in D
    BY <1>1, <1>5, <2>1
  <2>3. k - 1 = 0 \/ p[k - 1] = Filled(s)
    BY <1>1, <2>1, <2>2
  <2>4. 0 \in D /\ p[0] = s
    BY <1>1, <1>5
  <2>5. p[k] = Filled(s)
    BY <2>2, <2>3, <2>4
  <2> QED
    BY <2>1, <2>5
<1> QED
  BY <1>1, <1>4, <1>6

LEMMA PumpedOrderly ==
  ASSUME NEW s, Orderly(s), OneShort(s)
  PROVE  /\ Orderly(Pumped(s)) /\ Busy(Pumped(s))
         /\ Alive(Pumped(s)) = Alive(s)
  BY FilledOrderly, PumpedOnce

LEMMA RemovedFields ==
  ASSUME NEW s, Orderly(s), NEW t \in ReadCalls, s.task[t] = "queued"
  PROVE  LET r == Removed(s, t)
             x == Lane(t)
             rest == Without(s.queue[x], t) IN
         /\ x \in Consumers /\ t \in ToSet(s.queue[x]) /\ x \in ToSet(s.lanes)
         /\ r \in Sched
         /\ r.task = s.task
         /\ r.queue = [s.queue EXCEPT ![x] = rest]
         /\ r.lanes = IF rest # <<>> THEN s.lanes ELSE Without(s.lanes, x)
         /\ r.active = s.active
<1> DEFINE x == Lane(t)
           r == Removed(s, t)
           rest == Without(s.queue[x], t)
           lanes == Without(s.lanes, x)
           cursor == IF Position(s.lanes, x) < s.cursor THEN s.cursor - 1 ELSE s.cursor
           k == IF cursor >= Len(lanes) THEN 0 ELSE cursor
<1>1. /\ s \in Sched /\ s.lanes \in Seq(Consumers) /\ s.queue \in [Consumers -> Seq(ReadCalls)]
      /\ s.cursor \in Nat /\ x \in Consumers /\ IsInjective(s.lanes)
  BY LaneOf DEF Orderly, Sched
<1>2. t \in ToSet(s.queue[x]) /\ s.queue[x] \in Seq(ReadCalls) /\ IsInjective(s.queue[x])
  BY <1>1 DEF Orderly
<1>3. s.queue[x] # <<>> /\ x \in ToSet(s.lanes)
  <2>1. s.queue[x] # <<>>
    BY <1>2, NoneInside
  <2> QED
    BY <1>1, <2>1 DEF Orderly
<1>4. rest \in Seq(ReadCalls) /\ lanes \in Seq(Consumers)
  BY <1>1, <1>2, <1>3, WithoutOne
<1>5. k \in Nat
  <2>1. Position(s.lanes, x) \in Nat
    BY <1>1, <1>3, Positioned
  <2> QED
    BY <1>1, <2>1
<1>6. r = IF rest # <<>> THEN [s EXCEPT !.queue[x] = rest]
          ELSE [s EXCEPT !.queue[x] = <<>>, !.lanes = lanes, !.cursor = k]
  BY DEF Removed
<1> HIDE DEF x, rest, lanes, k, r
<1>7. r \in Sched /\ r.task = s.task /\ r.active = s.active
  BY <1>1, <1>4, <1>5, <1>6 DEF Sched
<1>8. /\ r.queue = [s.queue EXCEPT ![x] = rest]
      /\ r.lanes = IF rest # <<>> THEN s.lanes ELSE lanes
  BY <1>1, <1>4, <1>5, <1>6 DEF Sched
<1> QED
  BY <1>1, <1>2, <1>3, <1>7, <1>8 DEF x, r, rest, lanes

LEMMA RemovedOrderly ==
  ASSUME NEW s, Orderly(s), Busy(s), NEW t \in ReadCalls, s.task[t] = "queued"
  PROVE  LET r == [Removed(s, t) EXCEPT !.task[t] = "none"] IN
         /\ Orderly(r) /\ Busy(r) /\ Alive(r) = Alive(s) \ {t}
<1> DEFINE x == Lane(t)
           p == Removed(s, t)
           r == [p EXCEPT !.task[t] = "none"]
           rest == Without(s.queue[x], t)
<1>1. /\ x \in Consumers /\ t \in ToSet(s.queue[x]) /\ x \in ToSet(s.lanes)
      /\ p \in Sched /\ p.task = s.task
      /\ p.queue = [s.queue EXCEPT ![x] = rest]
      /\ p.lanes = IF rest # <<>> THEN s.lanes ELSE Without(s.lanes, x)
      /\ p.active = s.active
  BY RemovedFields
<1>2. /\ s \in Sched /\ s.lanes \in Seq(Consumers) /\ s.queue \in [Consumers -> Seq(ReadCalls)]
      /\ s.task \in [ReadCalls -> Task]
      /\ IsInjective(s.lanes) /\ s.queue[x] \in Seq(ReadCalls) /\ IsInjective(s.queue[x])
  BY <1>1 DEF Orderly, Sched
<1>3. /\ IsInjective(rest) /\ ToSet(rest) = ToSet(s.queue[x]) \ {t}
      /\ IsInjective(Without(s.lanes, x)) /\ ToSet(Without(s.lanes, x)) = ToSet(s.lanes) \ {x}
  BY <1>1, <1>2, WithoutOne
<1> HIDE DEF x, p, rest
<1>4. /\ r \in Sched /\ r.task = [s.task EXCEPT ![t] = "none"]
      /\ r.queue = p.queue /\ r.lanes = p.lanes /\ r.active = s.active
  BY <1>1 DEF Sched, Task
<1> HIDE DEF r
<1>5. Holding(r) = Holding(s) /\ Alive(r) = Alive(s) \ {t}
  BY <1>2, <1>4 DEF Holding, Alive
<1>6. r.queue[x] = rest /\ \A y \in Consumers \ {x} : r.queue[y] = s.queue[y]
  BY <1>1, <1>2, <1>4
<1>7. /\ IsInjective(r.lanes)
      /\ ToSet(r.lanes) = IF rest # <<>> THEN ToSet(s.lanes) ELSE ToSet(s.lanes) \ {x}
  BY <1>1, <1>2, <1>3, <1>4
<1>8. ToSet(r.lanes) = {y \in Consumers : r.queue[y] # <<>>}
  BY <1>1, <1>6, <1>7 DEF Orderly
<1>9. ASSUME NEW y \in Consumers
      PROVE  /\ IsInjective(r.queue[y])
             /\ ToSet(r.queue[y]) = {u \in ReadCalls : r.task[u] = "queued" /\ Lane(u) = y}
  <2>1. /\ IsInjective(s.queue[y])
        /\ ToSet(s.queue[y]) = {u \in ReadCalls : s.task[u] = "queued" /\ Lane(u) = y}
    BY DEF Orderly
  <2>2. \A u \in ReadCalls : r.task[u] = IF u = t THEN "none" ELSE s.task[u]
    BY <1>2, <1>4
  <2>3. CASE y = x
    BY <1>3, <1>6, <2>1, <2>2, <2>3
  <2>4. CASE y # x
    <3>1. Lane(t) # y
      BY <2>4 DEF x
    <3> QED
      BY <1>6, <2>1, <2>2, <2>4, <3>1
  <2> QED
    BY <2>3, <2>4
<1>10. Orderly(r)
  BY <1>4, <1>5, <1>7, <1>8, <1>9 DEF Orderly
<1>11. Busy(r)
  <2> SUFFICES ASSUME r.lanes # <<>>
               PROVE  r.active = MaxConcurrency
    BY DEF Busy
  <2>1. s.lanes # <<>>
    BY <1>1, <1>2, NoneInside
  <2> QED
    BY <1>4, <2>1 DEF Busy
<1> QED
  BY <1>5, <1>10, <1>11 DEF r, p

(* An operation changes its phase and the slots in use.                    *)
Slotted(s, t, p, n) == [s EXCEPT !.task[t] = p, !.active = n]

(* Aborting what runs keeps its slot; what settles gives it back.          *)
LEMMA SlotFields ==
  ASSUME NEW s, Orderly(s), NEW t \in ReadCalls, s.task[t] \in {"running", "abandoned"},
         NEW p \in Task \ {"queued"}, NEW n \in Nat, n <= MaxConcurrency,
         n = IF p = "none" THEN s.active - 1 ELSE s.active,
         NEW r, r = Slotted(s, t, p, n)
  PROVE  /\ Orderly(r)
         /\ r.lanes = s.lanes /\ r.queue = s.queue /\ r.active = n
         /\ p # "running" => Alive(r) = Alive(s) \ {t}
<1>1. /\ s \in Sched /\ s.task \in [ReadCalls -> Task] /\ s.active \in Nat
  BY DEF Orderly, Sched
<1>2. /\ r \in Sched /\ r.task = [s.task EXCEPT ![t] = p]
      /\ r.lanes = s.lanes /\ r.queue = s.queue /\ r.active = n
  BY <1>1 DEF Sched, Task, Slotted
<1>3. Holding(r) = IF p = "none" THEN Holding(s) \ {t} ELSE Holding(s)
  BY <1>1, <1>2 DEF Holding, Task
<1>4. t \in Holding(s) /\ IsFiniteSet(Holding(s)) /\ s.active = Cardinality(Holding(s))
  BY DEF Orderly, Holding
<1>5. IsFiniteSet(Holding(r)) /\ n = Cardinality(Holding(r))
  BY <1>3, <1>4, FS_RemoveElement
<1>6. \A x \in Consumers :
        {u \in ReadCalls : r.task[u] = "queued" /\ Lane(u) = x}
          = {u \in ReadCalls : s.task[u] = "queued" /\ Lane(u) = x}
  BY <1>1, <1>2
<1>7. Orderly(r)
  BY <1>2, <1>5, <1>6 DEF Orderly
<1>8. p # "running" => Alive(r) = Alive(s) \ {t}
  BY <1>1, <1>2 DEF Alive, Task
<1> QED
  BY <1>2, <1>7, <1>8

LEMMA CancelledOrderly ==
  ASSUME NEW s, Orderly(s), Busy(s), NEW t \in ReadCalls, s.task[t] # "none"
  PROVE  /\ Orderly(CancelledRead(s, t)) /\ Busy(CancelledRead(s, t))
         /\ Alive(CancelledRead(s, t)) = Alive(s) \ {t}
<1>1. ASSUME NEW r, Orderly(r), Busy(r) PROVE OneShort(r)
  BY <1>1, CoordinatorAssumption DEF Busy, OneShort, Orderly, Sched, CoordinatorAssumption
<1>2. CASE s.task[t] = "queued"
  <2> DEFINE r == [Removed(s, t) EXCEPT !.task[t] = "none"]
  <2>1. Orderly(r) /\ Busy(r) /\ Alive(r) = Alive(s) \ {t}
    BY <1>2, RemovedOrderly
  <2>2. CancelledRead(s, t) = Pumped(r)
    BY <1>2 DEF CancelledRead
  <2> HIDE DEF r
  <2> QED
    BY <1>1, <2>1, <2>2, PumpedOrderly
<1>3. CASE s.task[t] # "queued"
  <2> DEFINE r == [s EXCEPT !.task[t] = "abandoned"]
             n == s.active
  <2>1. /\ s \in Sched /\ s.task[t] \in {"running", "abandoned"}
        /\ n \in Nat /\ n <= MaxConcurrency /\ "abandoned" \in Task \ {"queued"}
    BY <1>3 DEF Orderly, Sched, Task
  <2>2. r = [s EXCEPT !.task[t] = "abandoned", !.active = n]
    BY <2>1 DEF Sched
  <2>3. Orderly(r) /\ r.lanes = s.lanes /\ r.active = n /\ Alive(r) = Alive(s) \ {t}
    <3> DEFINE p == "abandoned"
    <3>1. /\ p \in Task \ {"queued"} /\ p # "running" /\ n \in Nat
          /\ n = IF p = "none" THEN s.active - 1 ELSE s.active
          /\ r = Slotted(s, t, p, n)
      BY <2>1, <2>2 DEF Slotted
    <3> HIDE DEF n, r, p
    <3> QED
      BY <2>1, <3>1, SlotFields
  <2>4. Busy(r)
    BY <2>3 DEF Busy
  <2>5. CancelledRead(s, t) = Pumped(r)
    BY <1>3 DEF CancelledRead
  <2> HIDE DEF r
  <2> QED
    BY <1>1, <2>3, <2>4, <2>5, PumpedOrderly
<1> QED
  BY <1>2, <1>3

LEMMA ReleasedOrderly ==
  ASSUME NEW s, Orderly(s), Busy(s), NEW t \in ReadCalls, s.task[t] \in {"running", "abandoned"}
  PROVE  /\ Orderly(Released(s, t)) /\ Busy(Released(s, t))
         /\ Alive(Released(s, t)) = Alive(s) \ {t}
<1> DEFINE n == s.active - 1
           r == [s EXCEPT !.task[t] = "none", !.active = n]
<1>1. /\ s \in Sched /\ s.active \in Nat /\ s.active <= MaxConcurrency
      /\ MaxConcurrency \in Nat
  BY CoordinatorAssumption DEF CoordinatorAssumption, Orderly, Sched
<1>2. s.active > 0
  <2>1. /\ t \in Holding(s) /\ IsFiniteSet(Holding(s))
        /\ s.active = Cardinality(Holding(s))
    BY DEF Orderly, Holding
  <2> QED
    BY <1>1, <2>1, FS_EmptySet
<1>3. n \in Nat /\ n <= MaxConcurrency /\ "none" \in Task \ {"queued"}
  BY <1>1, <1>2 DEF Task
<1>4. Released(s, t) = Pumped(r)
  BY <1>1 DEF Released, Sched
<1>5. Orderly(r) /\ r.lanes = s.lanes /\ r.active = n /\ Alive(r) = Alive(s) \ {t}
  <2> DEFINE p == "none"
  <2>1. /\ p \in Task \ {"queued"} /\ p # "running"
        /\ n = IF p = "none" THEN s.active - 1 ELSE s.active
        /\ r = Slotted(s, t, p, n)
    BY <1>3 DEF Slotted
  <2> HIDE DEF n, r, p
  <2> QED
    BY <1>3, <2>1, SlotFields
<1>6. OneShort(r)
  BY <1>1, <1>5 DEF Busy, OneShort
<1> HIDE DEF r
<1> QED
  BY <1>4, <1>5, <1>6, PumpedOrderly

LEMMA StartedOrderly ==
  ASSUME NEW s, Orderly(s), Busy(s), NEW t \in ReadCalls, s.task[t] = "none"
  PROVE  LET r == Pumped(Enqueued(s, t)) IN
         /\ Orderly(r) /\ Busy(r) /\ Alive(r) = Alive(s) \cup {t}
  BY EnqueuedOrderly, PumpedOrderly

-----------------------------------------------------------------------------
(* Who awaits what.                                                        *)

Waiters(t) == {c \in ReadCalls : waits[c] = t}

(* A caller awaits an operation of its own or shares one of its key, which *)
(* is the one in flight for it as long as it is wanted; shared operations  *)
(* count their callers.                                                    *)
SharingInv ==
  /\ waits \in [ReadCalls -> ReadCalls \cup {NoOne}]
  /\ flight \in [Keys -> ReadCalls \cup {NoOne}]
  /\ subscribers \in [ReadCalls -> Nat]
  /\ \A t \in ReadCalls : t \in Alive(sched) <=> Waiters(t) # {}
  /\ \A c, t \in ReadCalls : waits[c] = t /\ c # t => Input[c].coalesce /\ Input[t].coalesce
  /\ \A t \in ReadCalls : t \in Alive(sched) /\ Input[t].coalesce =>
       IsFiniteSet(Waiters(t)) /\ subscribers[t] = Cardinality(Waiters(t))
  /\ \A k \in Keys : flight[k] # NoOne =>
       flight[k] \in Alive(sched) /\ Input[flight[k]].coalesce

CoordinatorInv == Orderly(sched) /\ Busy(sched) /\ SharingInv

LEMMA InvAnswers ==
  ASSUME CoordinatorInv
  PROVE  SlotsExact /\ WantedIffAlive
<1>1. SlotsExact
  BY DEF CoordinatorInv, Orderly, Busy, Holding, SlotsExact
<1>2. WantedIffAlive
  BY DEF CoordinatorInv, SharingInv, Alive, Waiters, WantedIffAlive
<1> QED
  BY <1>1, <1>2

-----------------------------------------------------------------------------
(* Each step keeps who awaits what.                                        *)

LEMMA JoinKept ==
  ASSUME CoordinatorInv, NEW c \in ReadCalls, Join(c)
  PROVE  CoordinatorInv'
<1> DEFINE t == flight[Input[c].key]
<1>1. /\ waits \in [ReadCalls -> ReadCalls \cup {NoOne}] /\ subscribers \in [ReadCalls -> Nat]
      /\ NoOne \notin ReadCalls
  BY CoordinatorAssumption DEF CoordinatorInv, SharingInv, CoordinatorAssumption
<1>2. t \in Alive(sched) /\ Input[t].coalesce /\ Input[c].coalesce /\ t \in ReadCalls
  BY CoordinatorAssumption
    DEF CoordinatorInv, SharingInv, CoordinatorAssumption, Join, Shared, Alive
<1>3. /\ waits[c] = NoOne /\ waits' = [waits EXCEPT ![c] = t]
      /\ subscribers' = [subscribers EXCEPT ![t] = @ + 1]
      /\ sched' = sched /\ flight' = flight
  BY DEF Join
<1> HIDE DEF t
<1>4. /\ waits' \in [ReadCalls -> ReadCalls \cup {NoOne}] /\ subscribers' \in [ReadCalls -> Nat]
      /\ flight' \in [Keys -> ReadCalls \cup {NoOne}]
  BY <1>1, <1>2, <1>3 DEF CoordinatorInv, SharingInv
<1>5. /\ Alive(sched)' = Alive(sched) /\ Orderly(sched)' /\ Busy(sched)'
  BY <1>3 DEF CoordinatorInv, Alive, Orderly, Busy, Holding
<1>6. ASSUME NEW u \in ReadCalls
      PROVE  Waiters(u)' = IF u = t THEN Waiters(t) \cup {c} ELSE Waiters(u)
  BY <1>1, <1>2, <1>3 DEF Waiters
<1>7. \A u \in ReadCalls : u \in Alive(sched)' <=> Waiters(u)' # {}
  BY <1>2, <1>5, <1>6 DEF CoordinatorInv, SharingInv
<1>8. \A b, u \in ReadCalls :
        waits'[b] = u /\ b # u => Input[b].coalesce /\ Input[u].coalesce
  BY <1>1, <1>2, <1>3 DEF CoordinatorInv, SharingInv
<1>9. \A u \in ReadCalls : u \in Alive(sched)' /\ Input[u].coalesce =>
        IsFiniteSet(Waiters(u)') /\ subscribers'[u] = Cardinality(Waiters(u)')
  <2> TAKE u \in ReadCalls
  <2> HAVE u \in Alive(sched)' /\ Input[u].coalesce
  <2>1. IsFiniteSet(Waiters(u)) /\ subscribers[u] = Cardinality(Waiters(u))
    BY <1>5 DEF CoordinatorInv, SharingInv
  <2>2. CASE u = t
    <3>1. c \notin Waiters(t)
      BY <1>1, <1>2, <1>3 DEF Waiters
    <3>2. /\ IsFiniteSet(Waiters(t) \cup {c})
          /\ Cardinality(Waiters(t) \cup {c}) = Cardinality(Waiters(t)) + 1
      BY <2>1, <2>2, <3>1, FS_AddElement
    <3>3. subscribers'[u] = subscribers[u] + 1
      BY <1>1, <1>3, <2>2
    <3> QED
      BY <1>6, <2>1, <2>2, <3>2, <3>3
  <2>3. CASE u # t
    <3>1. subscribers'[u] = subscribers[u]
      BY <1>1, <1>3, <2>3
    <3> QED
      BY <1>6, <2>1, <2>3, <3>1
  <2> QED
    BY <2>2, <2>3
<1>10. \A k \in Keys : flight'[k] # NoOne =>
         flight'[k] \in Alive(sched)' /\ Input[flight'[k]].coalesce
  BY <1>3, <1>5 DEF CoordinatorInv, SharingInv
<1>11. SharingInv'
  BY <1>4, <1>7, <1>8, <1>9, <1>10 DEF SharingInv
<1> QED
  BY <1>5, <1>11 DEF CoordinatorInv

LEMMA StartKept ==
  ASSUME CoordinatorInv, NEW c \in ReadCalls, Start(c)
  PROVE  CoordinatorInv'
<1>1. /\ waits \in [ReadCalls -> ReadCalls \cup {NoOne}] /\ subscribers \in [ReadCalls -> Nat]
      /\ flight \in [Keys -> ReadCalls \cup {NoOne}] /\ Input[c].key \in Keys
      /\ NoOne \notin ReadCalls
  BY CoordinatorAssumption DEF CoordinatorInv, SharingInv, CoordinatorAssumption
<1>2. /\ waits[c] = NoOne /\ waits' = [waits EXCEPT ![c] = c]
      /\ sched.task[c] = "none" /\ sched' = Pumped(Enqueued(sched, c))
  BY DEF Start
<1>3. \/ /\ Input[c].coalesce /\ flight' = [flight EXCEPT ![Input[c].key] = c]
         /\ subscribers' = [subscribers EXCEPT ![c] = 1]
      \/ ~Input[c].coalesce /\ flight' = flight /\ subscribers' = subscribers
  BY DEF Start
<1>4. /\ Orderly(sched') /\ Busy(sched')
      /\ Alive(sched') = Alive(sched) \cup {c}
  BY <1>2, StartedOrderly DEF CoordinatorInv
<1>5. /\ waits' \in [ReadCalls -> ReadCalls \cup {NoOne}] /\ subscribers' \in [ReadCalls -> Nat]
      /\ flight' \in [Keys -> ReadCalls \cup {NoOne}]
  BY <1>1, <1>2, <1>3
<1>6. c \notin Alive(sched) /\ Waiters(c) = {}
  BY <1>2 DEF CoordinatorInv, SharingInv, Alive
<1>7. ASSUME NEW u \in ReadCalls
      PROVE  Waiters(u)' = IF u = c THEN {c} ELSE Waiters(u)
  BY <1>1, <1>2, <1>6 DEF Waiters
<1>8. \A u \in ReadCalls : u \in Alive(sched') <=> Waiters(u)' # {}
  BY <1>4, <1>7 DEF CoordinatorInv, SharingInv
<1>9. \A b, u \in ReadCalls :
        waits'[b] = u /\ b # u => Input[b].coalesce /\ Input[u].coalesce
  BY <1>1, <1>2 DEF CoordinatorInv, SharingInv
<1>10. \A u \in ReadCalls : u \in Alive(sched') /\ Input[u].coalesce =>
         IsFiniteSet(Waiters(u)') /\ subscribers'[u] = Cardinality(Waiters(u)')
  <2> TAKE u \in ReadCalls
  <2> HAVE u \in Alive(sched') /\ Input[u].coalesce
  <2>1. CASE u = c
    <3>1. IsFiniteSet({c}) /\ Cardinality({c}) = 1
      BY FS_Singleton
    <3>2. subscribers'[c] = 1
      BY <1>1, <1>3, <2>1
    <3> QED
      BY <1>7, <2>1, <3>1, <3>2
  <2>2. CASE u # c
    <3>1. IsFiniteSet(Waiters(u)) /\ subscribers[u] = Cardinality(Waiters(u))
      BY <1>4, <2>2 DEF CoordinatorInv, SharingInv
    <3>2. subscribers'[u] = subscribers[u]
      BY <1>1, <1>3, <2>2
    <3> QED
      BY <1>7, <2>2, <3>1, <3>2
  <2> QED
    BY <2>1, <2>2
<1>11. \A k \in Keys : flight'[k] # NoOne =>
         flight'[k] \in Alive(sched') /\ Input[flight'[k]].coalesce
  BY <1>1, <1>3, <1>4 DEF CoordinatorInv, SharingInv
<1>12. SharingInv'
  BY <1>5, <1>8, <1>9, <1>10, <1>11 DEF SharingInv
<1> QED
  BY <1>4, <1>12 DEF CoordinatorInv

(* The last caller to leave takes the operation along; an earlier one only *)
(* gives up its count.                                                     *)
LEMMA LastWaiter ==
  ASSUME CoordinatorInv, NEW c \in ReadCalls, NEW t \in ReadCalls, waits[c] = t,
         ~(Input[c].coalesce /\ subscribers[t] > 1)
  PROVE  Waiters(t) = {c}
<1>1. c \in Waiters(t) /\ t \in Alive(sched)
  BY DEF CoordinatorInv, SharingInv, Waiters
<1>2. CASE ~Input[c].coalesce
  BY <1>1, <1>2 DEF CoordinatorInv, SharingInv, Waiters
<1>3. CASE Input[c].coalesce
  <2>1. Input[t].coalesce
    BY <1>3 DEF CoordinatorInv, SharingInv
  <2>2. /\ IsFiniteSet(Waiters(t)) /\ subscribers[t] = Cardinality(Waiters(t))
        /\ subscribers[t] \in Nat /\ ~(subscribers[t] > 1)
    BY <1>1, <1>3, <2>1 DEF CoordinatorInv, SharingInv
  <2>3. IsFiniteSet(Waiters(t) \ {c}) /\ Cardinality(Waiters(t) \ {c}) = Cardinality(Waiters(t)) - 1
    BY <1>1, <2>2, FS_RemoveElement
  <2>4. Cardinality(Waiters(t) \ {c}) \in Nat
    BY <2>3, FS_CardinalityType
  <2>5. Cardinality(Waiters(t) \ {c}) = 0
    BY <2>2, <2>3, <2>4
  <2>6. Waiters(t) \ {c} = {}
    BY <2>3, <2>5, FS_EmptySet
  <2> QED
    BY <1>1, <2>6
<1> QED
  BY <1>2, <1>3

(* An operation that is dropped takes its callers and its flight with it.  *)
LEMMA DroppedKept ==
  ASSUME CoordinatorInv, NEW t \in ReadCalls,
         Orderly(sched'), Busy(sched'), Alive(sched') = Alive(sched) \ {t},
         waits' = [c \in ReadCalls |-> IF waits[c] = t THEN NoOne ELSE waits[c]],
         subscribers' = [subscribers EXCEPT ![t] = 0],
         flight' = Landed(t)
  PROVE  CoordinatorInv'
<1>1. /\ waits \in [ReadCalls -> ReadCalls \cup {NoOne}] /\ subscribers \in [ReadCalls -> Nat]
      /\ flight \in [Keys -> ReadCalls \cup {NoOne}] /\ NoOne \notin ReadCalls
  BY CoordinatorAssumption DEF CoordinatorInv, SharingInv, CoordinatorAssumption
<1>2. /\ waits' \in [ReadCalls -> ReadCalls \cup {NoOne}] /\ subscribers' \in [ReadCalls -> Nat]
      /\ flight' \in [Keys -> ReadCalls \cup {NoOne}]
  BY <1>1 DEF Landed
<1>3. ASSUME NEW u \in ReadCalls
      PROVE  Waiters(u)' = IF u = t THEN {} ELSE Waiters(u)
  BY <1>1 DEF Waiters
<1>4. \A u \in ReadCalls : u \in Alive(sched') <=> Waiters(u)' # {}
  BY <1>3 DEF CoordinatorInv, SharingInv
<1>5. \A b, u \in ReadCalls :
        waits'[b] = u /\ b # u => Input[b].coalesce /\ Input[u].coalesce
  BY <1>1 DEF CoordinatorInv, SharingInv
<1>6. \A u \in ReadCalls : u \in Alive(sched') /\ Input[u].coalesce =>
        IsFiniteSet(Waiters(u)') /\ subscribers'[u] = Cardinality(Waiters(u)')
  <2> TAKE u \in ReadCalls
  <2> HAVE u \in Alive(sched') /\ Input[u].coalesce
  <2>1. u # t /\ u \in Alive(sched)
    OBVIOUS
  <2>2. IsFiniteSet(Waiters(u)) /\ subscribers[u] = Cardinality(Waiters(u))
    BY <2>1 DEF CoordinatorInv, SharingInv
  <2>3. subscribers'[u] = subscribers[u]
    BY <1>1, <2>1
  <2> QED
    BY <1>3, <2>1, <2>2, <2>3
<1>7. \A k \in Keys : flight'[k] # NoOne =>
        flight'[k] \in Alive(sched') /\ Input[flight'[k]].coalesce
  BY <1>1 DEF CoordinatorInv, SharingInv, Landed
<1>8. SharingInv'
  BY <1>2, <1>4, <1>5, <1>6, <1>7 DEF SharingInv
<1> QED
  BY <1>8 DEF CoordinatorInv

LEMMA LeaveKept ==
  ASSUME CoordinatorInv, NEW c \in ReadCalls, Leave(c)
  PROVE  CoordinatorInv'
<1> DEFINE t == waits[c]
<1>1. /\ waits \in [ReadCalls -> ReadCalls \cup {NoOne}] /\ subscribers \in [ReadCalls -> Nat]
      /\ NoOne \notin ReadCalls
  BY CoordinatorAssumption DEF CoordinatorInv, SharingInv, CoordinatorAssumption
<1>2. /\ t \in ReadCalls /\ waits' = [waits EXCEPT ![c] = NoOne]
  BY <1>1 DEF Leave
<1>3. c \in Waiters(t) /\ t \in Alive(sched)
  BY <1>2 DEF CoordinatorInv, SharingInv, Waiters
<1>4. CASE Input[c].coalesce /\ subscribers[t] > 1
  <2>1. /\ subscribers' = [subscribers EXCEPT ![t] = @ - 1]
        /\ sched' = sched /\ flight' = flight
    BY <1>4 DEF Leave
  <2>2. waits[c] = t
    OBVIOUS
  <2> HIDE DEF t
  <2>3. /\ Input[t].coalesce
        /\ IsFiniteSet(Waiters(t)) /\ subscribers[t] = Cardinality(Waiters(t))
    BY <1>2, <1>3, <1>4, <2>2 DEF CoordinatorInv, SharingInv
  <2>4. /\ IsFiniteSet(Waiters(t) \ {c})
        /\ Cardinality(Waiters(t) \ {c}) = Cardinality(Waiters(t)) - 1
    BY <1>3, <2>3, FS_RemoveElement
  <2>5. Waiters(t) \ {c} # {}
    BY <1>1, <1>2, <1>4, <2>3, <2>4, FS_EmptySet
  <2>6. /\ waits' \in [ReadCalls -> ReadCalls \cup {NoOne}] /\ subscribers' \in [ReadCalls -> Nat]
        /\ flight' \in [Keys -> ReadCalls \cup {NoOne}]
    BY <1>1, <1>2, <1>4, <2>1 DEF CoordinatorInv, SharingInv
  <2>7. Alive(sched)' = Alive(sched) /\ Orderly(sched)' /\ Busy(sched)'
    BY <2>1 DEF CoordinatorInv, Alive, Orderly, Busy, Holding
  <2>8. ASSUME NEW u \in ReadCalls
        PROVE  Waiters(u)' = IF u = t THEN Waiters(t) \ {c} ELSE Waiters(u)
    BY <1>1, <1>2, <2>2 DEF Waiters
  <2>9. \A u \in ReadCalls : u \in Alive(sched)' <=> Waiters(u)' # {}
    BY <1>3, <2>5, <2>7, <2>8 DEF CoordinatorInv, SharingInv
  <2>10. \A b, u \in ReadCalls :
           waits'[b] = u /\ b # u => Input[b].coalesce /\ Input[u].coalesce
    BY <1>1, <1>2 DEF CoordinatorInv, SharingInv
  <2>11. \A u \in ReadCalls : u \in Alive(sched)' /\ Input[u].coalesce =>
           IsFiniteSet(Waiters(u)') /\ subscribers'[u] = Cardinality(Waiters(u)')
    <3> TAKE u \in ReadCalls
    <3> HAVE u \in Alive(sched)' /\ Input[u].coalesce
    <3>1. CASE u = t
      <4>1. subscribers'[u] = subscribers[u] - 1
        BY <1>1, <2>1, <3>1
      <4> QED
        BY <2>3, <2>4, <2>8, <3>1, <4>1
    <3>2. CASE u # t
      <4>1. IsFiniteSet(Waiters(u)) /\ subscribers[u] = Cardinality(Waiters(u))
        BY <2>7 DEF CoordinatorInv, SharingInv
      <4>2. subscribers'[u] = subscribers[u]
        BY <1>1, <2>1, <3>2
      <4> QED
        BY <2>8, <3>2, <4>1, <4>2
    <3> QED
      BY <3>1, <3>2
  <2>12. \A k \in Keys : flight'[k] # NoOne =>
           flight'[k] \in Alive(sched)' /\ Input[flight'[k]].coalesce
    BY <2>1, <2>7 DEF CoordinatorInv, SharingInv
  <2>13. SharingInv'
    BY <2>6, <2>9, <2>10, <2>11, <2>12 DEF SharingInv
  <2> QED
    BY <2>7, <2>13 DEF CoordinatorInv
<1>5. CASE ~(Input[c].coalesce /\ subscribers[t] > 1)
  <2>1. /\ subscribers' = [subscribers EXCEPT ![t] = 0]
        /\ sched' = CancelledRead(sched, t) /\ flight' = Landed(t)
    BY <1>5 DEF Leave
  <2>2. Waiters(t) = {c}
    BY <1>2, <1>5, LastWaiter
  <2> HIDE DEF t
  <2>3. waits' = [b \in ReadCalls |-> IF waits[b] = t THEN NoOne ELSE waits[b]]
    BY <1>1, <1>2, <2>2 DEF Waiters
  <2>4. sched.task[t] # "none"
    BY <1>3 DEF Alive
  <2>5. Orderly(sched') /\ Busy(sched') /\ Alive(sched') = Alive(sched) \ {t}
    BY <1>2, <2>1, <2>4, CancelledOrderly DEF CoordinatorInv
  <2> QED
    BY <1>2, <2>1, <2>3, <2>5, DroppedKept
<1> QED
  BY <1>4, <1>5

LEMMA SettleKept ==
  ASSUME CoordinatorInv, NEW t \in ReadCalls, Settle(t)
  PROVE  CoordinatorInv'
<1>1. /\ sched.task[t] \in {"running", "abandoned"} /\ sched' = Released(sched, t)
      /\ waits' = [c \in ReadCalls |-> IF waits[c] = t THEN NoOne ELSE waits[c]]
      /\ subscribers' = [subscribers EXCEPT ![t] = 0] /\ flight' = Landed(t)
  BY DEF Settle
<1>2. Orderly(sched') /\ Busy(sched') /\ Alive(sched') = Alive(sched) \ {t}
  BY <1>1, ReleasedOrderly DEF CoordinatorInv
<1> QED
  BY <1>1, <1>2, DroppedKept

-----------------------------------------------------------------------------
(* The slots, the lanes and the callers of every operation agree in every  *)
(* state: the invariant of readCoordinator.ts that its tests only sample.  *)
THEOREM CoordinatorCorrect == Spec => []CoordinatorInv
<1>1. Init => CoordinatorInv
  <2> SUFFICES ASSUME Init
               PROVE  CoordinatorInv
    OBVIOUS
  <2>1. /\ sched.task = [t \in ReadCalls |-> "none"] /\ sched.queue = [x \in Consumers |-> <<>>]
        /\ sched.lanes = <<>> /\ sched.active = 0 /\ sched.cursor = 0 /\ sched.last = NoOne
        /\ sched \in Sched
    BY DEF Init, Sched, Task
  <2>2. Holding(sched) = {} /\ Alive(sched) = {}
    BY <2>1 DEF Holding, Alive
  <2>3. IsFiniteSet({}) /\ Cardinality({}) = 0
    BY FS_EmptySet
  <2>4. IsInjective(<<>>) /\ ToSet(<<>>) = {}
    BY DEF IsInjective, ToSet
  <2>5. Orderly(sched)
    BY <2>1, <2>2, <2>3, <2>4, CoordinatorAssumption DEF Orderly, CoordinatorAssumption
  <2>6. Busy(sched)
    BY <2>1 DEF Busy
  <2>7. \A t \in ReadCalls : Waiters(t) = {}
    BY CoordinatorAssumption DEF Init, Waiters, CoordinatorAssumption
  <2>8. SharingInv
    BY <2>2, <2>7, CoordinatorAssumption DEF Init, SharingInv, CoordinatorAssumption
  <2> QED
    BY <2>5, <2>6, <2>8 DEF CoordinatorInv
<1>2. CoordinatorInv /\ [Next]_vars => CoordinatorInv'
  <2> SUFFICES ASSUME CoordinatorInv, [Next]_vars
               PROVE  CoordinatorInv'
    OBVIOUS
  <2>1. ASSUME NEW c \in ReadCalls, Join(c) PROVE CoordinatorInv'
    BY <2>1, JoinKept
  <2>2. ASSUME NEW c \in ReadCalls, Start(c) PROVE CoordinatorInv'
    BY <2>2, StartKept
  <2>3. ASSUME NEW c \in ReadCalls, Leave(c) PROVE CoordinatorInv'
    BY <2>3, LeaveKept
  <2>4. ASSUME NEW t \in ReadCalls, Settle(t) PROVE CoordinatorInv'
    BY <2>4, SettleKept
  <2>5. ASSUME UNCHANGED vars PROVE CoordinatorInv'
    BY <2>5 DEF vars, CoordinatorInv, SharingInv, Orderly, Busy, Holding, Alive, Waiters
  <2> QED
    BY <2>1, <2>2, <2>3, <2>4, <2>5 DEF Next
<1> QED
  BY <1>1, <1>2, PTL DEF Spec

(* The slots in use are counted right under every interleaving of aborts,  *)
(* joins and answers, none idles while a read is queued, and the lanes hold*)
(* each queued read once.                                                  *)
THEOREM SlotsAreExact == Spec => []SlotsExact
<1>1. CoordinatorInv => SlotsExact
  BY InvAnswers
<1> QED
  BY <1>1, CoordinatorCorrect, PTL

(* A read somebody awaits is queued or running and a read nobody awaits is *)
(* neither, whichever of its callers left first.                           *)
THEOREM WantedAlive == Spec => []WantedIffAlive
<1>1. CoordinatorInv => WantedIffAlive
  BY InvAnswers
<1> QED
  BY <1>1, CoordinatorCorrect, PTL
=============================================================================
