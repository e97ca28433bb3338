---------------------------- MODULE WhmcsClient ----------------------------
(***************************************************************************)
(* WhmcsClient.read and mutate (src/whmcs/WhmcsClient.ts) over the request *)
(* pipeline: the read cache with its epoch and tags, reads that share one  *)
(* operation, and the data of WHMCS as a version per entity.               *)
(*                                                                         *)
(* Of the coordinator only what the cache can tell is kept: an operation   *)
(* starts some time after it was scheduled, and serves everybody who       *)
(* joined it.  ReadCoordinator has the rest.                               *)
(***************************************************************************)
EXTENDS RequestPipeline

CONSTANTS
  Entities,    \* what WHMCS keeps: a client, the products
  Keys,        \* action and parameters of a read, the coordination and cache key
  EntityOf,    \* the entity each key reads
  Tagged,      \* keys that carry their entity's tag
  Input,       \* each call's key or entity, and how it may be accelerated
  MaxEntries,  \* READ_CACHE_MAX_ENTRIES
  NoOne        \* no call

ClientAssumption ==
  /\ EntityOf \in [Keys -> Entities]
  /\ Tagged \subseteq Keys
  /\ Input \in [Calls -> [key : Keys, cached : BOOLEAN, shared : BOOLEAN]]
  /\ MaxEntries \in Nat \ {0}
  /\ NoOne \notin Calls

ASSUME ClientAssumption

VARIABLES
  db,        \* external: the version of each entity
  seen,      \* the version each operation read or wrote
  waits,     \* the operation each reader awaits
  flight,    \* inflight: the shared operation of each key
  entries,   \* the cache: version of each entry, and the keys whose entries are older
  epoch,     \* cacheEpoch
  began,     \* epoch and acknowledged version when each read was called
  acked,     \* the newest acknowledged version of each entity
  returned   \* the version each read returned last, and the one it owed

clientVars == <<db, seen, waits, flight, entries, epoch, began, acked, returned>>

vars == <<pipelineVars, clientVars>>

NotBegun == [epoch |-> 0, owed |-> 0]

Reads == {c \in Calls : Effect[c] = "read"}
Writes == Calls \ Reads
Entity(c) == EntityOf[Input[c].key]

-----------------------------------------------------------------------------
(* ReadCache.                                                              *)

Cached(key) == key \in DOMAIN entries

Without(keys) ==
  [key \in DOMAIN entries \ keys |-> [entries[key] EXCEPT !.older = @ \ keys]]

(* set: the youngest entry of its key; the oldest entries make room.       *)
Stored(key, version) ==
  LET rest == Without({key})
      all == [k \in DOMAIN rest \cup {key} |->
                IF k = key THEN [version |-> version, older |-> DOMAIN rest] ELSE rest[k]]
      oldest == {k \in DOMAIN all : all[k].older = {}}
  IN IF Cardinality(DOMAIN all) > MaxEntries
     THEN [k \in DOMAIN all \ oldest |-> [all[k] EXCEPT !.older = @ \ oldest]]
     ELSE all

(* A client mutation removes what bears its client's tag, any other clears *)
(* the cache.                                                              *)
Invalidated(c, known) ==
  Without(IF known THEN {key \in Tagged : EntityOf[key] = Entity(c)} ELSE Keys)

(* The TTL of an entry is over.                                            *)
Expire ==
  /\ \E key \in Keys : Cached(key) /\ entries' = Without({key})
  /\ UNCHANGED pipelineVars
  /\ UNCHANGED <<db, seen, waits, flight, epoch, began, acked, returned>>

-----------------------------------------------------------------------------
(* read.                                                                   *)

Idle(c) == c \in Reads /\ waits[c] = NoOne /\ exec[c].at \in {"idle", "ended"}

ReadCached(c) ==
  LET key == Input[c].key IN
  /\ Idle(c)
  /\ Input[c].cached
  /\ Cached(key)
  /\ returned' = [returned EXCEPT ![c] = [got |-> entries[key].version, owed |-> acked[Entity(c)]]]
  /\ UNCHANGED pipelineVars
  /\ UNCHANGED <<db, seen, waits, flight, entries, epoch, began, acked>>

(* A miss: the read joins the operation in flight for its key or schedules *)
(* one of its own.                                                         *)
ReadMissed(c) ==
  LET key == Input[c].key
      joins == Input[c].shared /\ flight[key] # NoOne
  IN
  /\ Idle(c)
  /\ ~(Input[c].cached /\ Cached(key))
  /\ waits' = [waits EXCEPT ![c] = IF joins THEN flight[key] ELSE c]
  /\ flight' = IF Input[c].shared /\ ~joins
               THEN [flight EXCEPT ![key] = c] ELSE flight
  /\ exec' = IF joins THEN exec ELSE [exec EXCEPT ![c] = Fresh]
  /\ began' = [began EXCEPT ![c] = [epoch |-> epoch, owed |-> acked[Entity(c)]]]
  /\ UNCHANGED <<aborted, updater, allowed, now>>
  /\ UNCHANGED <<db, seen, entries, epoch, acked, returned>>

(* The scheduled operation has its slot.                                   *)
RunRead(c) ==
  /\ c \in Reads
  /\ waits[c] = c
  /\ exec[c].at = "idle"
  /\ exec' = [exec EXCEPT ![c] = Posted(@)]
  /\ UNCHANGED <<aborted, updater, allowed, now>>
  /\ UNCHANGED clientVars

Awaiting(op) == {c \in Reads : waits[c] = op}

Landed(op) == [k \in Keys |-> IF flight[k] = op THEN NoOne ELSE flight[k]]

\* Variant with a defect: the epoch is not compared.
StoresAlways(op) == {c \in Awaiting(op) : Input[c].cached}

(* Who may store the operation's answer: no mutation was acknowledged      *)
(* since it asked.                                                         *)
Stores(op) == {c \in Awaiting(op) : Input[c].cached /\ began[c].epoch = epoch}

EndRead(op) ==
  LET got == seen[op] IN
  /\ op \in Reads
  /\ AnswerOk(op)
  /\ entries' = IF Stores(op) # {} THEN Stored(Input[op].key, got) ELSE entries
  /\ returned' = [c \in Calls |-> IF c \in Awaiting(op)
                                  THEN [got |-> got, owed |-> began[c].owed]
                                  ELSE returned[c]]
  /\ waits' = [c \in Calls |-> IF waits[c] = op THEN NoOne ELSE waits[c]]
  /\ flight' = Landed(op)
  /\ seen' = [seen EXCEPT ![op] = 0]
  /\ began' = [c \in Calls |-> IF waits[c] = op THEN NotBegun ELSE began[c]]
  /\ UNCHANGED <<db, epoch, acked>>

-----------------------------------------------------------------------------
(* mutate.                                                                 *)

Mutate(c) ==
  /\ c \in Writes
  /\ Execute(c)
  /\ UNCHANGED clientVars

\* Variant with a defect: the cache is invalidated, the reads in flight are not told.
EndMutationKeepingEpoch(c) ==
  /\ c \in Writes
  /\ AnswerOk(c)
  /\ \E known \in BOOLEAN :
       /\ known => Input[c].key \in Tagged
       /\ entries' = Invalidated(c, known)
  /\ acked' = [acked EXCEPT ![Entity(c)] = IF seen[c] > @ THEN seen[c] ELSE @]
  /\ UNCHANGED <<db, seen, waits, flight, epoch, began, returned>>

(* A success invalidates; any other end leaves epoch and cache alone.      *)
EndMutation(c) ==
  /\ c \in Writes
  /\ AnswerOk(c)
  /\ epoch' = epoch + 1
  /\ \E known \in BOOLEAN :
       /\ known => Input[c].key \in Tagged
       /\ entries' = Invalidated(c, known)
  /\ acked' = [acked EXCEPT ![Entity(c)] = IF seen[c] > @ THEN seen[c] ELSE @]
  /\ UNCHANGED <<db, seen, waits, flight, began, returned>>

-----------------------------------------------------------------------------
(* The rest of the pipeline, and WHMCS.                                    *)

(* External: a read sees the entity's version, a write makes the next.     *)
ServeData(c) ==
  LET x == Entity(c)
      version == IF c \in Writes THEN db[x] + 1 ELSE db[x]
  IN
  /\ Serve(c)
  /\ db' = [db EXCEPT ![x] = version]
  /\ seen' = [seen EXCEPT ![c] = version]
  /\ UNCHANGED <<waits, flight, entries, epoch, began, acked, returned>>

(* Operations that end without an answer fail whoever awaits them; an      *)
(* aborted one that still waits for the updater is awaited by nobody.      *)
Delivered ==
  LET failed == {op \in Reads : \/ exec'[op].at = "ended"
                                \/ exec'[op].at = "healing" /\ aborted'[op]}
  IN
  /\ waits' = [c \in Calls |-> IF waits[c] \in failed THEN NoOne ELSE waits[c]]
  /\ flight' = [k \in Keys |-> IF flight[k] \in failed THEN NoOne ELSE flight[k]]
  /\ seen' = [c \in Calls |-> IF exec'[c].wire = "served" THEN seen[c] ELSE 0]
  /\ began' = [c \in Calls |-> IF waits'[c] = NoOne THEN NotBegun ELSE began[c]]
  /\ UNCHANGED <<db, entries, epoch, acked, returned>>

GiveUp(c) == Abort(c) /\ Delivered

AnswerOther(c) ==
  /\ \/ AnswerRefused(c)
     \/ AnswerTransient(c)
     \/ AnswerEmptyForbidden(c)
     \/ AnswerInvalidIp(c)
  /\ Delivered

Resume(c) == Wake(c) /\ Delivered

HealEnds == UpdaterEnds /\ Delivered

Environment ==
  /\ AddressChanges \/ Tick
  /\ UNCHANGED clientVars

Nothing == [got |-> 0, owed |-> 0]

Init ==
  /\ PipelineInit
  /\ db = [x \in Entities |-> 0]
  /\ seen = [c \in Calls |-> 0]
  /\ waits = [c \in Calls |-> NoOne]
  /\ flight = [k \in Keys |-> NoOne]
  /\ entries = [key \in {} |-> 0]
  /\ epoch = 0
  /\ began = [c \in Calls |-> NotBegun]
  /\ acked = [x \in Entities |-> 0]
  /\ returned = [c \in Calls |-> Nothing]

Next ==
  \/ \E c \in Calls :
       \/ ReadCached(c) \/ ReadMissed(c) \/ RunRead(c) \/ EndRead(c)
       \/ Mutate(c) \/ EndMutation(c) \/ ServeData(c)
       \/ GiveUp(c) \/ AnswerOther(c) \/ Resume(c)
  \/ HealEnds
  \/ Expire
  \/ Environment

(* The coordinator gives every operation its slot, the transport answers   *)
(* or times out, timers fire, and the updater exits or is killed.          *)
Fairness ==
  /\ \A c \in Calls :
       /\ WF_vars(RunRead(c))
       /\ WF_vars(EndRead(c) \/ EndMutation(c) \/ AnswerOther(c))
       /\ WF_vars(Resume(c))
  /\ WF_vars(HealEnds)

Spec == Init /\ [][Next]_vars /\ Fairness

-----------------------------------------------------------------------------
(* Properties.                                                             *)

(* The types; a shared operation is awaited by somebody.                   *)
TypeOK ==
  /\ PipelineTypeOK
  /\ db \in [Entities -> Nat]
  /\ seen \in [Calls -> Nat]
  /\ waits \in [Calls -> Reads \cup {NoOne}]
  /\ flight \in [Keys -> Reads \cup {NoOne}]
  /\ \A k \in Keys : flight[k] # NoOne => Awaiting(flight[k]) # {}
  /\ DOMAIN entries \subseteq Keys
  /\ \A key \in DOMAIN entries :
       entries[key] \in [version : Nat, older : SUBSET DOMAIN entries]
  /\ epoch \in Nat
  /\ began \in [Calls -> [epoch : Nat, owed : Nat]]
  /\ acked \in [Entities -> Nat]
  /\ returned \in [Calls -> [got : Nat, owed : Nat]]

(* Keys that invalidation covers: no mutation of their entity names a tag  *)
(* they do not bear.                                                       *)
Covered(key) ==
  key \in Tagged \/ \A w \in Writes : Input[w].key \in Tagged => Entity(w) # EntityOf[key]

(* Nobody joins an older read of the key and stores what it brings.        *)
Apart(key) ==
  \A c \in Calls : Input[c].key = key => ~(Input[c].shared /\ Input[c].cached)

(* A read that began after the answer to a mutation returns what that      *)
(* mutation wrote or something newer, from the cache or not, however reads *)
(* and mutations overlap, fail and are repeated.                           *)
ReadsFresh ==
  \A c \in Reads :
    /\ Covered(Input[c].key)
    /\ Apart(Input[c].key)
    /\ ~Input[c].shared
    => returned[c].got >= returned[c].owed

(* The test "does not repopulate the cache from a read that began before a *)
(* mutation", for every interleaving: no entry is older than the newest    *)
(* acknowledged mutation of its entity.                                    *)
CacheFresh ==
  \A key \in DOMAIN entries :
    Covered(key) /\ Apart(key) => entries[key].version >= acked[EntityOf[key]]

(* The same with reads that coalesce, which the test's title does not      *)
(* except.                                                                 *)
SharedCacheFresh ==
  \A key \in DOMAIN entries :
    Covered(key) => entries[key].version >= acked[EntityOf[key]]
=============================================================================
