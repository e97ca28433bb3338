---------------------------- MODULE SectionReads ----------------------------
(***************************************************************************)
(* Tools that compose several reads of WHMCS into one answer: the          *)
(* aggregators (src/tools/aggregators.ts) and the workflows                *)
(* (src/tools/workflows.ts).  Each section of the answer is read apart,    *)
(* and one that fails leaves an entry in partial_errors and an empty list. *)
(*                                                                         *)
(* A row of WHMCS is a record [list, id, who, state, of]: the list it is   *)
(* in, the client it belongs to, what filters look at, and the row that it *)
(* refers to, if any.                                                      *)
(* Numbers of rows are cut at one page, whatever a list's limit is.        *)
(***************************************************************************)
EXTENDS Integers, Sequences, FiniteSets, FiniteSetsExt, Functions

CONSTANTS
  Rows,     \* rows that WHMCS may hold
  Worlds,   \* sets of rows that it may hold at the start, one per id
  Page,     \* how many rows one read answers at most
  MaxMoves  \* bound on the changes that others make

(* The ids of different lists are told apart.                              *)
SectionAssumption ==
  /\ Page \in Nat \ {0} /\ MaxMoves \in Nat
  /\ Worlds \subseteq SUBSET Rows
  /\ \A rows \in Worlds : IsFiniteSet(rows) /\ \A r, s \in rows : r.id = s.id => r = s
  /\ \A r, s \in Rows : r.id = s.id => r.list = s.list

ASSUME SectionAssumption

VARIABLES
  world,     \* external: the rows that WHMCS holds
  steady,    \* those of them that have been there since the call began
  moves,     \* how often others changed them
  pending,   \* groups of queries still to be answered, in order
  got,       \* the rows each section's reads answered
  full,      \* sections with a read that answered a whole page
  truncated, \* sections whose truncated flag is set
  errors     \* partial_errors

worldVars == <<world, steady, moves>>
readVars == <<pending, got, full, truncated, errors>>

(* A query: its section, the list, what WHMCS filters by, what of the      *)
(* answer is kept, and whether a full page is reported.  A section with    *)
(* two lists has two queries in one group (Promise.all).                   *)
Query(section, list, states, keep, flagged) ==
  [section |-> section, list |-> list, who |-> "all", states |-> states,
   keep |-> keep, flagged |-> flagged]

AnyState == {r.state : r \in Rows}

Begin(groups) ==
  /\ pending' = groups
  /\ got' = [s \in {q.section : q \in UNION Range(groups)} |-> {}]
  /\ full' = {}
  /\ truncated' = {}
  /\ errors' = {}
  /\ steady' = world
  /\ UNCHANGED <<world, moves>>

Matching(q) == {r \in world : r.list = q.list /\ r.state \in q.states
                             /\ (q.who = "all" \/ r.who = q.who)}

Pages(q) ==
  LET rows == Matching(q) IN
  IF Cardinality(rows) <= Page THEN {rows} ELSE kSubset(Page, rows)

Fills(page) == Cardinality(page) >= Page

Reported(q, page) == q.flagged /\ Fills(page)

Recorded(q) == errors \cup {q.section}

PageRead(q) ==
  \E page \in Pages(q) :
    /\ got' = [got EXCEPT ![q.section] = @ \cup {r \in page : r.state \in q.keep}]
    /\ full' = IF Fills(page) THEN full \cup {q.section} ELSE full
    /\ truncated' = IF Reported(q, page) THEN truncated \cup {q.section} ELSE truncated
    /\ UNCHANGED errors

(* The first failure fails the section; nobody waits for the other read.   *)
Failed(q) ==
  /\ errors' = Recorded(q)
  /\ got' = [got EXCEPT ![q.section] = {}]
  /\ UNCHANGED <<full, truncated>>

ReadsInit ==
  /\ world \in Worlds
  /\ steady = world
  /\ moves = 0
  /\ pending = <<>>
  /\ got = <<>>
  /\ full = {} /\ truncated = {} /\ errors = {}

(* The next answer, or failure, of a read of the group that is awaited.    *)
Settle ==
  /\ pending # <<>>
  /\ \E q \in Head(pending) :
       LET rest == Head(pending) \ {q} IN
       \/ /\ PageRead(q)
          /\ pending' = IF rest = {} THEN Tail(pending) ELSE <<rest>> \o Tail(pending)
       \/ /\ Failed(q)
          /\ pending' = Tail(pending)

(* Others add, change or remove the row of an id.                          *)
Others(r) ==
  LET rest == {s \in world : s.id # r.id} IN
  /\ moves < MaxMoves
  /\ world' \in {rest, rest \cup {r}} \ {world}
  /\ steady' = steady \cap world'
  /\ moves' = moves + 1
  /\ UNCHANGED readVars

(* A steady row that a query of the section asks for and keeps.            *)
Expected(q) == {r \in steady : r.list = q.list /\ r.state \in q.states \cap q.keep
                                 /\ (q.who = "all" \/ r.who = q.who)}

(* Why it may be missing: the section says so, or, where no flag is        *)
(* computed, a whole page was read.                                        *)
Explained(q) ==
  \/ q.section \in errors
  \/ q.flagged /\ q.section \in truncated
  \/ ~q.flagged /\ q.section \in full
=============================================================================
