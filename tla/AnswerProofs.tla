---------------------------- MODULE AnswerProofs ----------------------------
(***************************************************************************)
(* Proofs about answers that are composed of several reads of WHMCS, for   *)
(* every value of the constants: aggregators, workflows and staff jobs     *)
(* explain what they leave out, a workflow accounts for what calls for a   *)
(* draft, a job asked for by address is about whom it leads to, and a      *)
(* chain of pages leaves no row out.                                       *)
(***************************************************************************)
EXTENDS MCTools, FunctionTheorems, FiniteSetTheorems, SequenceTheorems, TLAPS

-----------------------------------------------------------------------------
(* Answers that are composed of sections.                                  *)

AllIn(groups) == UNION Range(groups)

(* A query is still to be read, or it is answered, or its section says why *)
(* not.                                                                    *)
Fulfilled(q) ==
  q \in AllIn(pending) \/ Expected(q) \subseteq got[q.section] \/ Explained(q)

(* WHMCS holds finitely many rows, one per id.                             *)
WorldInv ==
  /\ IsFiniteSet(world) /\ world \subseteq Rows /\ steady \subseteq world
  /\ \A r, s \in world : r.id = s.id => r = s

OneSection(group) ==
  \A p, q \in group : /\ p.section = q.section
                      /\ DOMAIN q = {"section", "list", "who", "states", "keep", "flagged"}

Grouped(groups) ==
  /\ \E U : groups \in Seq(SUBSET U)
  /\ \A i \in 1..Len(groups) : OneSection(groups[i])

ReadsShape ==
  /\ Grouped(pending)
  /\ \A q \in AllIn(pending) : q.section \in DOMAIN got
  /\ got = [s \in DOMAIN got |-> got[s]]
  /\ \A s \in DOMAIN got : IsFiniteSet(got[s]) /\ got[s] \subseteq Rows

LEMMA GroupsSplit ==
  ASSUME NEW U, NEW groups \in Seq(SUBSET U), groups # <<>>
  PROVE  AllIn(groups) = Head(groups) \cup AllIn(Tail(groups))
<1>1. /\ Len(groups) \in Nat /\ Len(groups) > 0 /\ DOMAIN groups = 1..Len(groups)
      /\ Tail(groups) \in Seq(SUBSET U) /\ Len(Tail(groups)) = Len(groups) - 1
      /\ Head(groups) = groups[1]
      /\ \A i \in 1..(Len(groups) - 1) : Tail(groups)[i] = groups[i + 1]
  OBVIOUS
<1>2. \A i \in 1..Len(groups) : i = 1 \/ (i - 1 \in 1..(Len(groups) - 1) /\ groups[i] = Tail(groups)[i - 1])
  BY <1>1
<1>3. DOMAIN Tail(groups) = 1..(Len(groups) - 1)
  BY <1>1
<1>4. AllIn(groups) \subseteq Head(groups) \cup AllIn(Tail(groups))
  BY <1>1, <1>2, <1>3 DEF AllIn, Range
<1>5. \A i \in 1..(Len(groups) - 1) : i + 1 \in 1..Len(groups)
  BY <1>1
<1>6. Head(groups) \cup AllIn(Tail(groups)) \subseteq AllIn(groups)
  BY <1>1, <1>3, <1>5 DEF AllIn, Range
<1> QED
  BY <1>4, <1>6

Joined(g, groups) == <<g>> \o groups

LEMMA GroupsJoined ==
  ASSUME NEW groups, Grouped(groups), NEW g, OneSection(g)
  PROVE  Grouped(Joined(g, groups)) /\ AllIn(Joined(g, groups)) = g \cup AllIn(groups)
<1> DEFINE all == Joined(g, groups)
<1>1. PICK V : groups \in Seq(SUBSET V)
  BY DEF Grouped
<1> DEFINE U == V \cup g
<1>2. groups \in Seq(SUBSET U) /\ g \in SUBSET U
  BY <1>1
<1> HIDE DEF U
<1>3. /\ all \in Seq(SUBSET U) /\ Len(groups) \in Nat /\ Len(all) = Len(groups) + 1
      /\ all[1] = g
      /\ \A j \in 1..Len(groups) : all[j + 1] = groups[j]
  BY <1>2 DEF Joined
<1> HIDE DEF all
<1>4. all # <<>> /\ Head(all) = g
  BY <1>3
<1>5. /\ Tail(all) \in Seq(SUBSET U) /\ Len(Tail(all)) = Len(groups)
      /\ \A j \in 1..Len(groups) : Tail(all)[j] = groups[j]
  BY <1>3
<1>6. Tail(all) = groups
  BY <1>2, <1>5
<1>7. \A i \in 1..Len(all) : i = 1 \/ (i - 1 \in 1..Len(groups) /\ all[i] = groups[i - 1])
  BY <1>3
<1>8. AllIn(all) = g \cup AllIn(groups)
  BY <1>3, <1>4, <1>6, GroupsSplit
<1>9. \A i \in 1..Len(all) : OneSection(all[i])
  BY <1>3, <1>7 DEF Grouped
<1> QED
  BY <1>3, <1>8, <1>9 DEF all, Grouped

LEMMA FiniteReads ==
  ASSUME WorldInv, NEW q, NEW page \in Pages(q)
  PROVE  /\ page \subseteq Matching(q) /\ IsFiniteSet(page)
         /\ page = Matching(q) \/ Fills(page)
<1>1. Matching(q) \subseteq world
  BY DEF Matching
<1>2. page = Matching(q) \/ (page \subseteq Matching(q) /\ Cardinality(page) = Page)
  BY DEF Pages, kSubset
<1>3. IsFiniteSet(page)
  BY <1>1, <1>2, FS_Subset DEF WorldInv
<1> QED
  BY <1>2, <1>3, SectionAssumption DEF Fills, SectionAssumption

LEMMA ReadSettles ==
  ASSUME WorldInv, ReadsShape, Settle
  PROVE  /\ ReadsShape' /\ DOMAIN got' = DOMAIN got
         /\ errors \subseteq errors' /\ full \subseteq full' /\ truncated \subseteq truncated'
         /\ AllIn(pending') \subseteq AllIn(pending)
         /\ \E p \in AllIn(pending) :
              /\ \A s \in DOMAIN got : s = p.section \/ got'[s] = got[s]
              /\ \A q \in AllIn(pending) \ {p} :
                   q \in AllIn(pending') \/ (q.section = p.section /\ q.section \in errors')
              /\ p.section \in errors' \/ got[p.section] \subseteq got'[p.section]
              /\ \/ p.section \in errors'
                 \/ \E page \in Pages(p) :
                      /\ got'[p.section] = got[p.section] \cup {r \in page : r.state \in p.keep}
                      /\ Fills(page) => p.section \in full'
                      /\ Fills(page) /\ p.flagged => p.section \in truncated'
<1>1. PICK U : pending \in Seq(SUBSET U)
  BY DEF ReadsShape, Grouped
<1> DEFINE rest == Tail(pending)
<1>2. PICK p \in Head(pending) :
        \/ /\ PageRead(p)
           /\ pending' = IF Head(pending) \ {p} = {} THEN rest
                         ELSE <<Head(pending) \ {p}>> \o rest
        \/ Failed(p) /\ pending' = rest
  BY DEF Settle
<1>3. pending # <<>>
  BY DEF Settle
<1>4. /\ Head(pending) = pending[1] /\ Head(pending) \in SUBSET U /\ 1 \in 1..Len(pending)
      /\ rest \in Seq(SUBSET U)
      /\ \A i \in 1..Len(rest) : i + 1 \in 1..Len(pending) /\ rest[i] = pending[i + 1]
  BY <1>1, <1>3
<1>5. AllIn(pending) = Head(pending) \cup AllIn(rest)
  BY <1>1, <1>3, GroupsSplit
<1>6. OneSection(Head(pending)) /\ \A i \in 1..Len(rest) : OneSection(rest[i])
  BY <1>4 DEF ReadsShape, Grouped
<1>7. p.section \in DOMAIN got /\ \A q \in Head(pending) : q.section = p.section
  BY <1>5, <1>6 DEF ReadsShape, OneSection
<1>8. /\ got = [s \in DOMAIN got |-> got[s]]
      /\ \A s \in DOMAIN got : IsFiniteSet(got[s]) /\ got[s] \subseteq Rows
      /\ \A q \in AllIn(pending) : q.section \in DOMAIN got
  BY DEF ReadsShape
<1> HIDE DEF rest
<1>9. CASE Failed(p) /\ pending' = rest
  <2>1. /\ errors' = errors \cup {p.section} /\ full' = full /\ truncated' = truncated
        /\ got' = [got EXCEPT ![p.section] = {}]
    BY <1>9 DEF Failed, Recorded
  <2>2. /\ DOMAIN got' = DOMAIN got /\ got'[p.section] = {}
        /\ \A s \in DOMAIN got : s = p.section \/ got'[s] = got[s]
        /\ got' = [s \in DOMAIN got' |-> got'[s]]
    BY <1>7, <1>8, <2>1
  <2>3. Grouped(pending')
    BY <1>4, <1>6, <1>9 DEF Grouped
  <2>4. AllIn(pending') = AllIn(rest)
    BY <1>9
  <2>5. \A s \in DOMAIN got' : IsFiniteSet(got'[s]) /\ got'[s] \subseteq Rows
    BY <1>8, <2>2, FS_EmptySet
  <2>6. ReadsShape'
    BY <1>5, <1>8, <2>2, <2>3, <2>4, <2>5 DEF ReadsShape
  <2> QED
    BY <1>5, <1>7, <2>1, <2>2, <2>4, <2>6
<1>10. CASE /\ PageRead(p)
            /\ pending' = IF Head(pending) \ {p} = {} THEN rest
                          ELSE <<Head(pending) \ {p}>> \o rest
  <2>1. PICK page \in Pages(p) :
          /\ got' = [got EXCEPT ![p.section] = @ \cup {r \in page : r.state \in p.keep}]
          /\ full' = IF Fills(page) THEN full \cup {p.section} ELSE full
          /\ truncated' = IF p.flagged /\ Fills(page) THEN truncated \cup {p.section} ELSE truncated
          /\ errors' = errors
    BY <1>10 DEF PageRead, Reported
  <2> DEFINE kept == {r \in page : r.state \in p.keep}
  <2>2. page \subseteq world /\ IsFiniteSet(kept) /\ kept \subseteq Rows
    <3>1. page \subseteq world /\ IsFiniteSet(page)
      BY FiniteReads DEF Matching
    <3> QED
      BY <3>1, FS_Subset DEF WorldInv
  <2>3. /\ DOMAIN got' = DOMAIN got /\ got'[p.section] = got[p.section] \cup kept
        /\ \A s \in DOMAIN got : s = p.section \/ got'[s] = got[s]
        /\ got' = [s \in DOMAIN got' |-> got'[s]]
    <3> HIDE DEF kept
    <3> QED
      BY <1>7, <1>8, <2>1 DEF kept
  <2> HIDE DEF kept
  <2>4. \A s \in DOMAIN got' : IsFiniteSet(got'[s]) /\ got'[s] \subseteq Rows
    <3>1. IsFiniteSet(got[p.section] \cup kept) /\ got[p.section] \cup kept \subseteq Rows
      BY <1>7, <1>8, <2>2, FS_Union
    <3> QED
      BY <1>8, <2>3, <3>1
  <2> DEFINE left == Head(pending) \ {p}
  <2>5. left \in SUBSET U /\ OneSection(left)
    BY <1>4, <1>6 DEF OneSection
  <2>6. Grouped(pending') /\ AllIn(pending') = left \cup AllIn(rest)
    <3>1. CASE left = {}
      BY <1>4, <1>6, <1>10, <3>1 DEF Grouped
    <3>2. CASE left # {}
      <4>1. pending' = Joined(left, rest)
        BY <1>10, <3>2 DEF Joined
      <4>2. Grouped(rest)
        BY <1>4, <1>6 DEF Grouped
      <4> HIDE DEF left
      <4> QED
        BY <2>5, <4>1, <4>2, GroupsJoined
    <3> QED
      BY <3>1, <3>2
  <2>7. ReadsShape'
    BY <1>5, <1>8, <2>3, <2>4, <2>6 DEF ReadsShape
  <2> QED
    BY <1>5, <1>7, <2>1, <2>3, <2>6, <2>7 DEF kept
<1> QED
  BY <1>2, <1>9, <1>10

(* What is due stays due until it is answered or explained.                *)
LEMMA SettleKeepFulfilled ==
  ASSUME WorldInv, ReadsShape, Settle, UNCHANGED <<world, steady>>,
         NEW q, q.section \in DOMAIN got, Fulfilled(q)
  PROVE  Fulfilled(q)'
<1>1. /\ errors \subseteq errors' /\ full \subseteq full' /\ truncated \subseteq truncated'
      /\ \E p \in AllIn(pending) :
              /\ \A s \in DOMAIN got : s = p.section \/ got'[s] = got[s]
              /\ \A x \in AllIn(pending) \ {p} :
                   x \in AllIn(pending') \/ (x.section = p.section /\ x.section \in errors')
              /\ p.section \in errors' \/ got[p.section] \subseteq got'[p.section]
              /\ \/ p.section \in errors'
                 \/ \E page \in Pages(p) :
                      /\ got'[p.section] = got[p.section] \cup {r \in page : r.state \in p.keep}
                      /\ Fills(page) => p.section \in full'
                      /\ Fills(page) /\ p.flagged => p.section \in truncated'
  BY ReadSettles
<1>2. PICK p \in AllIn(pending) :
              /\ \A s \in DOMAIN got : s = p.section \/ got'[s] = got[s]
              /\ \A x \in AllIn(pending) \ {p} :
                   x \in AllIn(pending') \/ (x.section = p.section /\ x.section \in errors')
              /\ p.section \in errors' \/ got[p.section] \subseteq got'[p.section]
              /\ \/ p.section \in errors'
                 \/ \E page \in Pages(p) :
                      /\ got'[p.section] = got[p.section] \cup {r \in page : r.state \in p.keep}
                      /\ Fills(page) => p.section \in full'
                      /\ Fills(page) /\ p.flagged => p.section \in truncated'
  BY <1>1
<1>3. Expected(q)' = Expected(q)
  BY DEF Expected
<1>4. CASE q.section \in errors'
  BY <1>4 DEF Fulfilled, Explained
<1>5. CASE q.section \notin errors' /\ q # p /\ q \in AllIn(pending)
  BY <1>2, <1>5 DEF Fulfilled
<1>6. CASE q.section \notin errors' /\ q = p
  <2>1. PICK page \in Pages(q) :
          /\ got'[q.section] = got[q.section] \cup {r \in page : r.state \in q.keep}
          /\ Fills(page) => q.section \in full'
          /\ Fills(page) /\ q.flagged => q.section \in truncated'
    BY <1>2, <1>6
  <2>2. page = Matching(q) \/ Fills(page)
    BY FiniteReads
  <2>3. CASE Fills(page)
    BY <2>1, <2>3 DEF Fulfilled, Explained
  <2>4. CASE page = Matching(q)
    <3>1. Expected(q) \subseteq {r \in page : r.state \in q.keep}
      BY <2>4 DEF Expected, Matching, WorldInv
    <3> QED
      BY <1>3, <2>1, <3>1 DEF Fulfilled
  <2> QED
    BY <2>2, <2>3, <2>4
<1>7. CASE q.section \notin errors' /\ q \notin AllIn(pending)
  <2>1. CASE Explained(q)
    BY <1>1, <2>1 DEF Fulfilled, Explained
  <2>2. CASE Expected(q) \subseteq got[q.section]
    <3>1. got[q.section] \subseteq got'[q.section]
      BY <1>2, <1>7
    <3> QED
      BY <1>3, <2>2, <3>1 DEF Fulfilled
  <2> QED
    BY <1>7, <2>1, <2>2 DEF Fulfilled
<1> QED
  BY <1>4, <1>5, <1>6, <1>7

LEMMA OthersKeepFulfilled ==
  ASSUME WorldInv, NEW r \in Rows, Others(r)
  PROVE  /\ WorldInv' /\ steady' \subseteq steady /\ UNCHANGED readVars
         /\ ReadsShape => ReadsShape'
         /\ \A q : Fulfilled(q) => Fulfilled(q)'
<1> DEFINE rest == {s \in world : s.id # r.id}
<1>1. /\ world' \in {rest, rest \cup {r}} /\ steady' = steady \cap world'
      /\ UNCHANGED <<pending, got, full, truncated, errors>>
  BY DEF Others, readVars
<1>2. IsFiniteSet(rest) /\ IsFiniteSet(rest \cup {r})
  <2>1. rest \subseteq world /\ IsFiniteSet(world)
    BY DEF WorldInv
  <2> QED
    BY <2>1, FS_Subset, FS_AddElement
<1>3. WorldInv'
  BY <1>1, <1>2 DEF WorldInv
<1>4. ReadsShape => ReadsShape'
  BY <1>1 DEF ReadsShape, Grouped
<1>5. ASSUME NEW q, Fulfilled(q)
      PROVE  Fulfilled(q)'
  <2>1. Expected(q)' \subseteq Expected(q)
    BY <1>1 DEF Expected
  <2> QED
    BY <1>1, <1>5, <2>1 DEF Fulfilled, Explained
<1> QED
  BY <1>1, <1>3, <1>4, <1>5 DEF readVars

LEMMA ReadsBegin ==
  ASSUME NEW groups, Grouped(groups), pending' = groups,
         got' = [s \in {q.section : q \in UNION Range(groups)} |-> {}]
  PROVE  /\ ReadsShape'
         /\ DOMAIN got' = {q.section : q \in AllIn(groups)}
         /\ \A q \in AllIn(groups) : q.section \in DOMAIN got' /\ Fulfilled(q)'
<1>1. DOMAIN got' = {q.section : q \in AllIn(groups)} /\ \A s \in DOMAIN got' : got'[s] = {}
  BY DEF AllIn
<1>2. \A q \in AllIn(groups) : q.section \in DOMAIN got'
  BY <1>1
<1>3. got' = [s \in DOMAIN got' |-> got'[s]]
  OBVIOUS
<1>4. Grouped(pending') /\ AllIn(pending') = AllIn(groups)
  OBVIOUS
<1> QED
  BY <1>1, <1>2, <1>3, <1>4, FS_EmptySet DEF ReadsShape, Fulfilled
-----------------------------------------------------------------------------
(* The aggregators.                                                        *)

LEMMA ListOfGroups ==
  /\ Grouped(<<>>)
  /\ \A a : OneSection(a) => Grouped(<<a>>)
  /\ \A a, b : OneSection(a) /\ OneSection(b) => Grouped(<<a, b>>)
  /\ \A a, b, c : OneSection(a) /\ OneSection(b) /\ OneSection(c) => Grouped(<<a, b, c>>)
  /\ \A a, b, c, d : OneSection(a) /\ OneSection(b) /\ OneSection(c) /\ OneSection(d)
       => Grouped(<<a, b, c, d>>)
  /\ \A a, b, c, d, e :
       OneSection(a) /\ OneSection(b) /\ OneSection(c) /\ OneSection(d) /\ OneSection(e)
       => Grouped(<<a, b, c, d, e>>)
  /\ \A a, b, c, d, e, f :
       /\ OneSection(a) /\ OneSection(b) /\ OneSection(c)
       /\ OneSection(d) /\ OneSection(e) /\ OneSection(f)
       => Grouped(<<a, b, c, d, e, f>>)
<1>1. \A s : (\E U : s \in Seq(SUBSET U)) /\ (\A i \in 1..Len(s) : OneSection(s[i])) => Grouped(s)
  BY DEF Grouped
<1>2. Grouped(<<>>)
  <2>1. <<>> \in Seq(SUBSET {}) /\ \A i \in 1..Len(<<>>) : OneSection(<<>>[i])
    OBVIOUS
  <2> QED
    BY <1>1, <2>1
<1>3. ASSUME NEW a, OneSection(a)
      PROVE  Grouped(<<a>>)
  <2>1. <<a>> \in Seq(SUBSET a) /\ \A i \in 1..Len(<<a>>) : OneSection(<<a>>[i])
    BY <1>3
  <2> QED
    BY <1>1, <2>1
<1>4. ASSUME NEW a, NEW b, OneSection(a), OneSection(b)
      PROVE  Grouped(<<a, b>>)
  <2>1. <<a, b>> \in Seq(SUBSET (a \cup b)) /\ \A i \in 1..Len(<<a, b>>) : OneSection(<<a, b>>[i])
    BY <1>4
  <2> QED
    BY <1>1, <2>1
<1>5. ASSUME NEW a, NEW b, NEW c, OneSection(a), OneSection(b), OneSection(c)
      PROVE  Grouped(<<a, b, c>>)
  <2>1. /\ <<a, b, c>> \in Seq(SUBSET (a \cup b \cup c))
        /\ \A i \in 1..Len(<<a, b, c>>) : OneSection(<<a, b, c>>[i])
    BY <1>5
  <2> QED
    BY <1>1, <2>1
<1>6. ASSUME NEW a, NEW b, NEW c, NEW d, OneSection(a), OneSection(b), OneSection(c), OneSection(d)
      PROVE  Grouped(<<a, b, c, d>>)
  <2>1. /\ <<a, b, c, d>> \in Seq(SUBSET (a \cup b \cup c \cup d))
        /\ \A i \in 1..Len(<<a, b, c, d>>) : OneSection(<<a, b, c, d>>[i])
    BY <1>6
  <2> QED
    BY <1>1, <2>1
<1>7. ASSUME NEW a, NEW b, NEW c, NEW d, NEW e,
             OneSection(a), OneSection(b), OneSection(c), OneSection(d), OneSection(e)
      PROVE  Grouped(<<a, b, c, d, e>>)
  <2>1. /\ <<a, b, c, d, e>> \in Seq(SUBSET (a \cup b \cup c \cup d \cup e))
        /\ \A i \in 1..Len(<<a, b, c, d, e>>) : OneSection(<<a, b, c, d, e>>[i])
    BY <1>7
  <2> QED
    BY <1>1, <2>1
<1>8. ASSUME NEW a, NEW b, NEW c, NEW d, NEW e, NEW f,
             OneSection(a), OneSection(b), OneSection(c),
             OneSection(d), OneSection(e), OneSection(f)
      PROVE  Grouped(<<a, b, c, d, e, f>>)
  <2>1. /\ <<a, b, c, d, e, f>> \in Seq(SUBSET (a \cup b \cup c \cup d \cup e \cup f))
        /\ \A i \in 1..Len(<<a, b, c, d, e, f>>) : OneSection(<<a, b, c, d, e, f>>[i])
    BY <1>8
  <2> QED
    BY <1>1, <2>1
<1> QED
  BY <1>2, <1>3, <1>4, <1>5, <1>6, <1>7, <1>8

LEMMA SectionIsOne ==
  /\ \A section, list, states, keep, flag :
       /\ OneSection(Section(section, list, states, keep, flag))
       /\ \A more : OneSection(Section(section, list, states, keep, flag)
                                 \cup Section(section, list, more, keep, flag))
       /\ \A q \in Section(section, list, states, keep, flag) : q.section = section
  /\ OneSection(ClientDetails) /\ OneSection(TicketsOf) /\ OneSection(OrdersOf)
  /\ OneSection(InvoicesOf) /\ \A keep, flag : OneSection(Transactions(keep, flag))
  BY DEF OneSection, Section, Query, ClientDetails, TicketsOf, OrdersOf, InvoicesOf, Transactions

LEMMA TuplesJoined == \A a, b : <<a>> \o <<b>> = <<a, b>> /\ <<a>> \o <<>> = <<a>>
<1> TAKE a, b
<1> DEFINE S == {a, b}
<1>1. <<a>> \in Seq(S) /\ <<b>> \in Seq(S) /\ <<a, b>> \in Seq(S)
  OBVIOUS
<1>2. /\ Len(<<a>>) = 1 /\ Len(<<b>>) = 1 /\ Len(<<a, b>>) = 2
      /\ <<a>>[1] = a /\ <<b>>[1] = b /\ <<a, b>>[1] = a /\ <<a, b>>[2] = b
  OBVIOUS
<1> HIDE DEF S
<1> DEFINE two == <<a>> \o <<b>>
<1>3. two \in Seq(S) /\ Len(two) = 2 /\ two[1] = a /\ two[2] = b
  BY <1>1, <1>2, ConcatProperties, SMT
<1> HIDE DEF two
<1>4. two = <<a, b>>
  BY <1>1, <1>2, <1>3, SeqEqual
<1>5. <<a>> \o <<>> = <<a>>
  BY <1>1, ConcatEmptySeq
<1> QED
  BY <1>4, <1>5 DEF two

(* Three tools read GetTransactions besides, if it is supported.           *)
LEMMA SupportedReads ==
  ASSUME NEW supported \in BOOLEAN
  PROVE  /\ ReconciliationSnapshot(supported) =
              IF supported THEN <<InvoicesOf, Transactions(AnyState, TRUE)>> ELSE <<InvoicesOf>>
         /\ RevenueReport(supported) =
              LET paid == Section("invoices", "invoices", {"paid", "settled"}, {"paid"}, FALSE)
              IN IF supported THEN <<paid, Transactions({"in", "out"}, FALSE)>> ELSE <<paid>>
         /\ ReconciliationExport(supported) =
              IF supported THEN <<InvoicesOf, Transactions(AnyState, FALSE)>> ELSE <<InvoicesOf>>
<1> DEFINE paid == Section("invoices", "invoices", {"paid", "settled"}, {"paid"}, FALSE)
<1>1. RevenueReport(supported) =
        IF supported THEN <<paid, Transactions({"in", "out"}, FALSE)>> ELSE <<paid>>
  <2> HIDE DEF paid
  <2>1. RevenueReport(supported) =
          <<paid>> \o (IF supported THEN <<Transactions({"in", "out"}, FALSE)>> ELSE <<>>)
    BY DEF RevenueReport, paid
  <2> QED
    BY <2>1, TuplesJoined
<1>2. ReconciliationExport(supported) =
        IF supported THEN <<InvoicesOf, Transactions(AnyState, FALSE)>> ELSE <<InvoicesOf>>
  BY TuplesJoined DEF ReconciliationExport
<1> QED
  BY <1>1, <1>2 DEF ReconciliationSnapshot

LEMMA GroupsOfTools ==
  ASSUME NEW t \in Aggregates, NEW supported \in BOOLEAN
  PROVE  Grouped(Groups(t, supported))
<1>1. CASE t \in {"get_account_360", "get_billing_snapshot", "get_support_snapshot"}
  BY <1>1, ListOfGroups, SectionIsOne DEF Groups, Account360, BillingSnapshot, SupportSnapshot
<1>2. CASE t \in {"get_renewal_snapshot", "get_domain_portfolio_snapshot",
                  "get_accounts_receivable_aging", "get_activity_timeline"}
  BY <1>2, ListOfGroups, SectionIsOne
  DEF Groups, RenewalSnapshot, DomainPortfolioSnapshot, AccountsReceivableAging, ActivityTimeline
<1>3. CASE t = "get_reconciliation_snapshot"
  BY <1>3, ListOfGroups, SectionIsOne, SupportedReads DEF Groups
<1>4. CASE t \in {"get_provisioning_snapshot", "get_risk_snapshot", "get_service_lifecycle"}
  BY <1>4, ListOfGroups, SectionIsOne
  DEF Groups, ProvisioningSnapshot, RiskSnapshot, ServiceLifecycle
<1>5. CASE t = "get_revenue_report"
  BY <1>5, ListOfGroups, SectionIsOne, SupportedReads DEF Groups
<1>6. CASE t = "get_reconciliation_export"
  BY <1>6, ListOfGroups, SectionIsOne, SupportedReads DEF Groups
<1> QED
  BY <1>1, <1>2, <1>3, <1>4, <1>5, <1>6 DEF Aggregates

(* Queries narrowed to a client are queries of the same sections.          *)
LEMMA NarrowedGroups ==
  ASSUME NEW groups, Grouped(groups),
         NEW more, more = [i \in DOMAIN groups |-> more[i]],
         \A i \in DOMAIN groups :
           /\ \A q \in more[i] : \E p \in groups[i] :
                /\ q.section = p.section
                /\ DOMAIN q = {"section", "list", "who", "states", "keep", "flagged"}
           /\ \A p \in groups[i] : \E q \in more[i] : q.section = p.section
  PROVE  /\ Grouped(more)
         /\ {q.section : q \in AllIn(more)} = {q.section : q \in AllIn(groups)}
<1> DEFINE U == UNION {more[i] : i \in DOMAIN groups}
<1>1. DOMAIN groups = 1..Len(groups) /\ Len(groups) \in Nat
  BY DEF Grouped
<1>2. more \in Seq(SUBSET U) /\ Len(more) = Len(groups) /\ DOMAIN more = DOMAIN groups
  <2>1. \A i \in DOMAIN groups : more[i] \in SUBSET U
    OBVIOUS
  <2> HIDE DEF U
  <2> QED
    BY <1>1, <2>1
<1>3. ASSUME NEW i \in 1..Len(groups)
      PROVE  OneSection(more[i])
  <2>1. OneSection(groups[i])
    BY DEF Grouped
  <2> QED
    BY <1>1, <2>1 DEF OneSection
<1>4. Grouped(more)
  BY <1>2, <1>3 DEF Grouped
<1>5. {q.section : q \in AllIn(more)} \subseteq {q.section : q \in AllIn(groups)}
  BY <1>2 DEF AllIn, Range
<1>6. {q.section : q \in AllIn(groups)} \subseteq {q.section : q \in AllIn(more)}
  BY <1>2 DEF AllIn, Range
<1> QED
  BY <1>4, <1>5, <1>6

LEMMA QueriesWell ==
  ASSUME NEW t \in Aggregates, NEW c, NEW supported \in BOOLEAN
  PROVE  /\ Grouped(Queries(t, c, supported))
         /\ {q.section : q \in AllIn(Queries(t, c, supported))}
              = {q.section : q \in AllIn(Groups(t, supported))}
<1> DEFINE groups == Groups(t, supported)
           all == Queries(t, c, supported)
<1>1. Grouped(groups)
  BY GroupsOfTools
<1>2. all = [i \in DOMAIN groups |-> For(groups[i], c)]
  BY DEF Queries
<1> HIDE DEF groups, all
<1>3. ASSUME NEW i \in DOMAIN groups
      PROVE  /\ \A q \in all[i] : \E p \in groups[i] :
                  /\ q.section = p.section
                  /\ DOMAIN q = {"section", "list", "who", "states", "keep", "flagged"}
             /\ \A p \in groups[i] : \E q \in all[i] : q.section = p.section
  <2>1. all[i] = {[q EXCEPT !.who = IF q.list \in Global THEN "all" ELSE c] : q \in groups[i]}
    BY <1>2 DEF For
  <2>2. \A q \in groups[i] : DOMAIN q = {"section", "list", "who", "states", "keep", "flagged"}
    BY <1>1 DEF Grouped, OneSection
  <2>3. ASSUME NEW q \in groups[i], NEW who
        PROVE  /\ [q EXCEPT !.who = who].section = q.section
               /\ DOMAIN [q EXCEPT !.who = who]
                    = {"section", "list", "who", "states", "keep", "flagged"}
    BY <2>2
  <2> DEFINE to(q) == [q EXCEPT !.who = IF q.list \in Global THEN "all" ELSE c]
  <2>4. \A q \in groups[i] :
          /\ to(q).section = q.section
          /\ DOMAIN to(q) = {"section", "list", "who", "states", "keep", "flagged"}
    BY <2>3
  <2>5. all[i] = {to(q) : q \in groups[i]}
    BY <2>1
  <2> HIDE DEF to
  <2> QED
    BY <2>4, <2>5
<1>4. all = [i \in DOMAIN groups |-> all[i]]
  BY <1>2
<1> QED
  BY <1>1, <1>3, <1>4, NarrowedGroups DEF groups, all

(* Whether transactions are read shows in the sections.                    *)
LEMMA ComposedGroups ==
  ASSUME NEW t \in Aggregates, NEW supported \in BOOLEAN
  PROVE  Groups(t, "transactions" \in {q.section : q \in AllIn(Groups(t, supported))})
           = Groups(t, supported)
<1> DEFINE composed == "transactions" \in {q.section : q \in AllIn(Groups(t, supported))}
<1>1. composed \in BOOLEAN
  OBVIOUS
<1>2. CASE t \notin {"get_reconciliation_snapshot", "get_revenue_report",
                     "get_reconciliation_export"}
  <2> HIDE DEF composed
  <2> QED
    BY <1>1, <1>2 DEF Groups, Aggregates
<1>3. CASE t \in {"get_reconciliation_snapshot", "get_revenue_report",
                  "get_reconciliation_export"}
  <2>1. PICK a, keep, flag :
          /\ OneSection(a) /\ \A q \in a : q.section = "invoices"
          /\ Groups(t, supported) = IF supported THEN <<a, Transactions(keep, flag)>> ELSE <<a>>
    <3>1. \A q \in InvoicesOf : q.section = "invoices"
      BY SectionIsOne DEF InvoicesOf
    <3>2. CASE t = "get_reconciliation_snapshot"
      <4>1. Groups(t, supported) = IF supported THEN <<InvoicesOf, Transactions(AnyState, TRUE)>>
                                   ELSE <<InvoicesOf>>
        BY <3>2, SupportedReads DEF Groups
      <4> QED
        BY <3>1, <4>1, SectionIsOne, Zenon
    <3>3. CASE t = "get_revenue_report"
      <4> DEFINE paid == Section("invoices", "invoices", {"paid", "settled"}, {"paid"}, FALSE)
      <4>1. Groups(t, supported) = IF supported THEN <<paid, Transactions({"in", "out"}, FALSE)>>
                                   ELSE <<paid>>
        BY <3>3, SupportedReads DEF Groups
      <4>2. OneSection(paid) /\ \A q \in paid : q.section = "invoices"
        BY SectionIsOne
      <4> HIDE DEF paid
      <4> QED
        BY <4>1, <4>2, Zenon
    <3>4. CASE t = "get_reconciliation_export"
      <4>1. Groups(t, supported) = IF supported THEN <<InvoicesOf, Transactions(AnyState, FALSE)>>
                                   ELSE <<InvoicesOf>>
        BY <3>4, SupportedReads DEF Groups
      <4> QED
        BY <3>1, <4>1, SectionIsOne, Zenon
    <3> QED
      BY <1>3, <3>2, <3>3, <3>4
  <2>2. CASE supported
    <3>1. Query("transactions", "transactions", AnyState, keep, flag)
            \in AllIn(<<a, Transactions(keep, flag)>>)
      <4>1. Query("transactions", "transactions", AnyState, keep, flag) \in Transactions(keep, flag)
        BY DEF Transactions, Section
      <4> HIDE DEF Transactions, Query
      <4> QED
        BY <4>1 DEF AllIn, Range
    <3>2. Query("transactions", "transactions", AnyState, keep, flag).section = "transactions"
      BY DEF Query
    <3>3. composed
      BY <2>1, <2>2, <3>1, <3>2
    <3> HIDE DEF composed
    <3> QED
      BY <2>2, <3>3 DEF composed
  <2>3. CASE ~supported
    <3>1. AllIn(<<a>>) = a
      BY DEF AllIn, Range
    <3>2. ~composed
      BY <2>1, <2>3, <3>1
    <3> HIDE DEF composed
    <3> QED
      BY <2>3, <3>2 DEF composed
  <2> QED
    BY <2>2, <2>3
<1> QED
  BY <1>2, <1>3

(* Every query of the aggregator that runs is still to be read, answered   *)
(* or explained.                                                           *)
AggregateInv ==
  /\ WorldInv /\ ReadsShape
  /\ report # "none" =>
       /\ report \in Aggregates
       /\ \A q \in AllIn(Queries(report, client, Composed)) :
            q.section \in DOMAIN got /\ Fulfilled(q)

LEMMA AggregatesStart == ASSUME AggregatesInit PROVE AggregateInv
<1>1. world \in Worlds /\ steady = world /\ pending = <<>> /\ got = <<>> /\ report = "none"
  BY DEF AggregatesInit, ReadsInit
<1>2. WorldInv
  BY <1>1, SectionAssumption DEF WorldInv, SectionAssumption
<1>3. Grouped(pending) /\ AllIn(pending) = {}
  BY <1>1, ListOfGroups DEF AllIn, Range
<1>4. DOMAIN got = {} /\ got = [s \in DOMAIN got |-> got[s]]
  BY <1>1
<1> QED
  BY <1>1, <1>2, <1>3, <1>4 DEF AggregateInv, ReadsShape

LEMMA AggregatesStep ==
  ASSUME AggregateInv, [AggregatesNext]_aggregateVars PROVE AggregateInv'
<1>1. WorldInv /\ ReadsShape
  BY DEF AggregateInv
<1>2. ASSUME NEW t \in Reports, NEW c \in Clients, Call(t, c)
      PROVE  AggregateInv'
  <2>1. PICK supported \in BOOLEAN : Begin(Queries(t, c, supported))
    BY <1>2 DEF Call
  <2> DEFINE groups == Queries(t, c, supported)
  <2>2. t \in Aggregates
    BY CalledAggregates
  <2>3. /\ pending' = groups /\ world' = world /\ steady' = world
        /\ got' = [s \in {q.section : q \in UNION Range(groups)} |-> {}]
        /\ report' = t /\ client' = c
    BY <1>2, <2>1 DEF Begin, Call
  <2>4. /\ Grouped(groups)
        /\ {q.section : q \in AllIn(groups)} = {q.section : q \in AllIn(Groups(t, supported))}
    BY <2>2, QueriesWell
  <2> HIDE DEF groups
  <2>5. /\ ReadsShape'
        /\ DOMAIN got' = {q.section : q \in AllIn(groups)}
        /\ \A q \in AllIn(groups) : q.section \in DOMAIN got' /\ Fulfilled(q)'
    BY <2>3, <2>4, ReadsBegin
  <2>6. WorldInv'
    BY <1>1, <2>3 DEF WorldInv
  <2>7. Composed' = ("transactions" \in {q.section : q \in AllIn(Groups(t, supported))})
    BY <2>4, <2>5 DEF Composed
  <2>8. Groups(t, Composed') = Groups(t, supported)
    BY <2>2, <2>7, ComposedGroups
  <2>9. Queries(report', client', Composed') = groups
    BY <2>3, <2>8 DEF Queries, groups
  <2> QED
    BY <2>2, <2>3, <2>5, <2>6, <2>9 DEF AggregateInv
<1>3. CASE ReadOn
  <2>1. Settle /\ UNCHANGED <<world, steady, moves, report, client>>
    BY <1>3 DEF ReadOn, callVars
  <2>2. ReadsShape' /\ DOMAIN got' = DOMAIN got
    BY <1>1, <2>1, ReadSettles
  <2>3. WorldInv' /\ Composed' = Composed
    BY <1>1, <2>1, <2>2 DEF WorldInv, Composed
  <2>4. \A q : q.section \in DOMAIN got /\ Fulfilled(q) => Fulfilled(q)'
    BY <1>1, <2>1, SettleKeepFulfilled
  <2> DEFINE due == AllIn(Queries(report, client, Composed))
  <2>5. AllIn(Queries(report', client', Composed')) = due
    BY <2>1, <2>3
  <2>6. report # "none" => report \in Aggregates /\ \A q \in due : q.section \in DOMAIN got /\ Fulfilled(q)
    BY DEF AggregateInv
  <2> HIDE DEF due
  <2> QED
    BY <2>1, <2>2, <2>3, <2>4, <2>5, <2>6 DEF AggregateInv
<1>4. ASSUME NEW r \in Touched, Move(r)
      PROVE  AggregateInv'
  <2>1. r \in Rows /\ Others(r) /\ UNCHANGED <<report, client>>
    BY <1>4, CalledAggregates DEF Move, callVars
  <2>2. WorldInv' /\ ReadsShape' /\ UNCHANGED readVars /\ \A q : Fulfilled(q) => Fulfilled(q)'
    BY <1>1, <2>1, OthersKeepFulfilled
  <2>3. got' = got /\ Composed' = Composed
    BY <2>2 DEF readVars, Composed
  <2> DEFINE due == AllIn(Queries(report, client, Composed))
  <2>4. AllIn(Queries(report', client', Composed')) = due
    BY <2>1, <2>3
  <2>5. report # "none" => report \in Aggregates /\ \A q \in due : q.section \in DOMAIN got /\ Fulfilled(q)
    BY DEF AggregateInv
  <2> HIDE DEF due
  <2> QED
    BY <2>1, <2>2, <2>3, <2>4, <2>5 DEF AggregateInv
<1>5. CASE UNCHANGED aggregateVars
  <2>1. UNCHANGED <<world, steady, pending, got, full, truncated, errors, report, client>>
    BY <1>5 DEF aggregateVars, worldVars, readVars, callVars
  <2> QED
    BY <2>1 DEF AggregateInv, WorldInv, ReadsShape, Grouped, Fulfilled, Explained, Expected, Composed
<1> QED
  BY <1>2, <1>3, <1>4, <1>5 DEF AggregatesNext

LEMMA AggregatesEnd == ASSUME AggregateInv PROVE AbsenceExplained
<1> SUFFICES ASSUME report # "none", pending = <<>>
             PROVE  /\ \A q \in Sections(Composed) : Expected(q) \subseteq got[q.section] \/ Explained(q)
                    /\ report = "get_reconciliation_snapshot" /\ Composed =>
                         LET of(list) == {r \in steady : r.list = list /\ r.who = client} IN
                         \/ {i \in of("invoices") : i.state \in Open
                               /\ \E t \in of("transactions") : t.state = "in" /\ t.of = i.id}
                              \subseteq UnpaidThoughPaid(got["transactions"], got["invoices"])
                         \/ \E q \in Sections(TRUE) : Explained(q)
  BY DEF AbsenceExplained, Done
<1>1. AllIn(pending) = {}
  BY DEF AllIn, Range
<1>2. \A q \in Sections(Composed) : Expected(q) \subseteq got[q.section] \/ Explained(q)
  BY <1>1 DEF AggregateInv, Sections, AllIn, Fulfilled
<1>3. ASSUME report = "get_reconciliation_snapshot", Composed
      PROVE  \/ {i \in {r \in steady : r.list = "invoices" /\ r.who = client} : i.state \in Open
                   /\ \E t \in {r \in steady : r.list = "transactions" /\ r.who = client} :
                        t.state = "in" /\ t.of = i.id}
                  \subseteq UnpaidThoughPaid(got["transactions"], got["invoices"])
             \/ \E q \in Sections(TRUE) : Explained(q)
  <2> DEFINE to(q) == [q EXCEPT !.who = IF q.list \in Global THEN "all" ELSE client]
             inv == to(Query("invoices", "invoices", AnyState, AnyState, FALSE))
             txn == to(Query("transactions", "transactions", AnyState, AnyState, TRUE))
             groups == Groups("get_reconciliation_snapshot", TRUE)
  <2>1. groups = <<InvoicesOf, Transactions(AnyState, TRUE)>>
    BY DEF Groups, ReconciliationSnapshot
  <2>2. inv \in For(InvoicesOf, client) /\ txn \in For(Transactions(AnyState, TRUE), client)
    BY DEF For, InvoicesOf, Transactions, Section
  <2>3. /\ inv.section = "invoices" /\ inv.list = "invoices" /\ inv.who = client
        /\ inv.states = AnyState /\ inv.keep = AnyState
        /\ txn.section = "transactions" /\ txn.list = "transactions" /\ txn.who = client
        /\ txn.states = AnyState /\ txn.keep = AnyState
    BY DEF Query, Global
  <2> HIDE DEF to, inv, txn, groups
  <2>4. DOMAIN groups = {1, 2} /\ groups[1] = InvoicesOf /\ groups[2] = Transactions(AnyState, TRUE)
    BY <2>1
  <2>5. Queries(report, client, TRUE) = [i \in DOMAIN groups |-> For(groups[i], client)]
    BY <1>3 DEF Queries, groups
  <2>6. inv \in Sections(TRUE) /\ txn \in Sections(TRUE)
    <3> DEFINE all == Queries(report, client, TRUE)
    <3>1. DOMAIN all = {1, 2} /\ inv \in all[1] /\ txn \in all[2]
      BY <2>2, <2>4, <2>5
    <3> HIDE DEF all
    <3>2. inv \in UNION Range(all) /\ txn \in UNION Range(all)
      BY <3>1 DEF Range
    <3> QED
      BY <3>2 DEF Sections, all
  <2>7. /\ Explained(inv) \/ Expected(inv) \subseteq got["invoices"]
        /\ Explained(txn) \/ Expected(txn) \subseteq got["transactions"]
    BY <1>2, <1>3, <2>3, <2>6
  <2>8. steady \subseteq Rows
    BY DEF AggregateInv, WorldInv
  <2>9. /\ {r \in steady : r.list = "invoices" /\ r.who = client} \subseteq Expected(inv)
        /\ {r \in steady : r.list = "transactions" /\ r.who = client} \subseteq Expected(txn)
    BY <2>3, <2>8 DEF Expected, AnyState
  <2>10. CASE Expected(inv) \subseteq got["invoices"] /\ Expected(txn) \subseteq got["transactions"]
    BY <2>9, <2>10 DEF UnpaidThoughPaid
  <2> QED
    BY <2>6, <2>7, <2>10
<1> QED
  BY <1>2, <1>3
-----------------------------------------------------------------------------
(* The workflows.                                                          *)

LEMMA FewerNames ==
  ASSUME NEW rows, IsFiniteSet(rows)
  PROVE  /\ IsFiniteSet(Ids(rows)) /\ Cardinality(Ids(rows)) <= Cardinality(rows)
         /\ IsFiniteSet(Owners(rows)) /\ Cardinality(Owners(rows)) <= Cardinality(rows)
         /\ Cardinality(rows) \in Nat /\ Cardinality(Ids(rows)) \in Nat
         /\ Cardinality(Owners(rows)) \in Nat
<1>1. [r \in rows |-> r.id] \in Surjection(rows, Ids(rows))
  BY DEF Surjection, Ids
<1>2. [r \in rows |-> r.who] \in Surjection(rows, Owners(rows))
  BY DEF Surjection, Owners
<1>3. /\ IsFiniteSet(Ids(rows)) /\ Cardinality(Ids(rows)) <= Cardinality(rows)
      /\ IsFiniteSet(Owners(rows)) /\ Cardinality(Owners(rows)) <= Cardinality(rows)
  BY <1>1, <1>2, FS_Surjection
<1> QED
  BY <1>3, FS_CardinalityType

(* All candidates are taken, or as many as the limit allows.               *)
LEMMA AllOrLimit ==
  ASSUME NEW ids, IsFiniteSet(ids), NEW before, NEW taken \in FirstFew(ids, before)
  PROVE  /\ taken \subseteq ids
         /\ taken = ids \/ Cardinality(ids) >= Limit
<1>1. Cardinality(ids) \in Nat /\ Limit \in Nat
  BY FS_CardinalityType, LimitIsPositive
<1> QED
  BY <1>1 DEF FirstFew, kSubset

OnePerId(rows) == \A r, s \in rows : r.id = s.id => r = s

(* At the limit, only renewals at risk are in the way of others.           *)
LEMMA RiskyFirst ==
  ASSUME NEW rows, IsFiniteSet(rows), OnePerId(rows), NEW taken \in Taken(rows),
         NEW r \in rows, r.state = "risk"
  PROVE  LET made == {Intent("ticket:create", s.id) : s \in {s \in taken : s.state = "risk"}}
         IN Intent("ticket:create", r.id) \in made \/ Cardinality(made) >= Limit
<1> DEFINE risky == {s \in rows : s.state = "risk"}
           made == {Intent("ticket:create", s.id) : s \in {s \in taken : s.state = "risk"}}
<1>1. /\ taken = rows \/ (taken \subseteq rows /\ Cardinality(taken) = Limit)
      /\ risky \subseteq taken \/ taken \subseteq risky
  BY DEF Taken, FirstFew, kSubset
<1>2. CASE r \in taken
  BY <1>2
<1>3. CASE r \notin taken
  <2>1. taken \subseteq risky /\ taken \subseteq rows /\ Cardinality(taken) = Limit
    BY <1>1, <1>3
  <2>2. made = {Intent("ticket:create", s.id) : s \in taken}
    BY <2>1
  <2> DEFINE f == [s \in taken |-> Intent("ticket:create", s.id)]
  <2>3. f \in Surjection(taken, made)
    BY <2>2 DEF Surjection
  <2>4. f \in Injection(taken, made)
    <3>1. f \in [taken -> made]
      BY <2>3 DEF Surjection
    <3>2. \A i, j : Intent("ticket:create", i) = Intent("ticket:create", j) => i = j
      BY DEF Intent
    <3>3. ASSUME NEW a \in taken, NEW b \in taken, f[a] = f[b] PROVE a = b
      <4>1. a.id = b.id
        BY <3>2, <3>3
      <4> QED
        BY <2>1, <4>1 DEF OnePerId
    <3> HIDE DEF f, made
    <3> QED
      BY <3>1, <3>3 DEF Injection, IsInjective
  <2>5. IsFiniteSet(taken)
    BY <2>1, FS_Subset
  <2> HIDE DEF f, made
  <2>6. Cardinality(made) = Limit
    BY <2>1, <2>3, <2>4, <2>5, FS_Surjection
  <2> QED
    BY <2>6, LimitIsPositive DEF made
<1> QED
  BY <1>2, <1>3

LEMMA FlowReads ==
  ASSUME NEW w \in Flows
  PROVE  Grouped(FirstReads(w))
<1>1. CASE w \in {"dunning_sweep", "renewal_risk_triage", "ticket_triage_to_resolution"}
  BY <1>1, ListOfGroups, SectionIsOne DEF FirstReads
<1>2. CASE w \in {"month_end_close", "suspend_for_nonpayment", "new_client_onboarding"}
  BY <1>2, ListOfGroups, SectionIsOne DEF FirstReads
<1> QED
  BY <1>1, <1>2 DEF Flows

(* The sections of a workflow's first reads, apart from its items.         *)
SectionNames == {"invoices", "services", "domains", "tickets", "transactions", "clients"}

FlowQuery(section, states, keep) == Query(section, section, states, keep, FALSE)

LEMMA FlowQueries ==
  /\ AllIn(FirstReads("dunning_sweep"))
       = {FlowQuery("invoices", {"unpaid"}, AnyState), FlowQuery("invoices", {"overdue"}, AnyState)}
  /\ AllIn(FirstReads("renewal_risk_triage"))
       = {FlowQuery("services", AnyState, {"due", "risk"}),
          FlowQuery("domains", AnyState, {"soon", "risk"})}
  /\ AllIn(FirstReads("ticket_triage_to_resolution")) = {FlowQuery("tickets", {"open"}, AnyState)}
  /\ AllIn(FirstReads("month_end_close"))
       = {FlowQuery("transactions", AnyState, AnyState), FlowQuery("invoices", AnyState, AnyState)}
  /\ AllIn(FirstReads("suspend_for_nonpayment")) = {FlowQuery("invoices", {"unpaid"}, AnyState)}
  /\ AllIn(FirstReads("new_client_onboarding")) = {FlowQuery("clients", {"mail", "alike"}, AnyState)}
<1>1. \A a : AllIn(<<a>>) = a
  BY DEF AllIn, Range
<1>2. ASSUME NEW a, NEW b PROVE AllIn(<<a, b>>) = a \cup b
  <2>1. DOMAIN <<a, b>> = {1, 2} /\ <<a, b>>[1] = a /\ <<a, b>>[2] = b
    OBVIOUS
  <2>2. \A s : DOMAIN s = {1, 2} => UNION Range(s) = s[1] \cup s[2]
    BY DEF Range
  <2>3. UNION Range(<<a, b>>) = <<a, b>>[1] \cup <<a, b>>[2]
    BY <2>1, <2>2
  <2> QED
    BY <2>1, <2>3 DEF AllIn
<1>3. \A list, states, keep :
        Section(list, list, states, keep, FALSE) = {FlowQuery(list, states, keep)}
  BY DEF Section, FlowQuery
<1>4. \A p, q : {p} \cup {q} = {p, q}
  OBVIOUS
<1>5. InvoicesOf = {FlowQuery("invoices", AnyState, AnyState)}
      /\ Transactions(AnyState, FALSE) = {FlowQuery("transactions", AnyState, AnyState)}
  BY <1>3 DEF InvoicesOf, Transactions
<1>6. AllIn(FirstReads("dunning_sweep"))
        = {FlowQuery("invoices", {"unpaid"}, AnyState), FlowQuery("invoices", {"overdue"}, AnyState)}
  <2>1. FirstReads("dunning_sweep")
          = <<Section("invoices", "invoices", {"unpaid"}, AnyState, FALSE)
               \cup Section("invoices", "invoices", {"overdue"}, AnyState, FALSE)>>
    BY DEF FirstReads
  <2>2. AllIn(FirstReads("dunning_sweep"))
          = Section("invoices", "invoices", {"unpaid"}, AnyState, FALSE)
              \cup Section("invoices", "invoices", {"overdue"}, AnyState, FALSE)
    BY <1>1, <2>1
  <2>3. Section("invoices", "invoices", {"unpaid"}, AnyState, FALSE)
          = {FlowQuery("invoices", {"unpaid"}, AnyState)}
    BY <1>3
  <2>4. Section("invoices", "invoices", {"overdue"}, AnyState, FALSE)
          = {FlowQuery("invoices", {"overdue"}, AnyState)}
    BY <1>3
  <2> QED
    BY <1>4, <2>2, <2>3, <2>4
<1>7. AllIn(FirstReads("renewal_risk_triage"))
       = {FlowQuery("services", AnyState, {"due", "risk"}),
          FlowQuery("domains", AnyState, {"soon", "risk"})}
  <2>1. FirstReads("renewal_risk_triage")
          = <<Section("services", "services", AnyState, {"due", "risk"}, FALSE),
              Section("domains", "domains", AnyState, {"soon", "risk"}, FALSE)>>
    BY DEF FirstReads
  <2>2. AllIn(FirstReads("renewal_risk_triage"))
          = Section("services", "services", AnyState, {"due", "risk"}, FALSE)
              \cup Section("domains", "domains", AnyState, {"soon", "risk"}, FALSE)
    BY <1>2, <2>1
  <2>3. Section("services", "services", AnyState, {"due", "risk"}, FALSE)
          = {FlowQuery("services", AnyState, {"due", "risk"})}
    BY <1>3
  <2>4. Section("domains", "domains", AnyState, {"soon", "risk"}, FALSE)
          = {FlowQuery("domains", AnyState, {"soon", "risk"})}
    BY <1>3
  <2> QED
    BY <1>4, <2>2, <2>3, <2>4
<1>8. AllIn(FirstReads("month_end_close"))
       = {FlowQuery("transactions", AnyState, AnyState), FlowQuery("invoices", AnyState, AnyState)}
  <2>1. FirstReads("month_end_close") = <<Transactions(AnyState, FALSE), InvoicesOf>>
    BY DEF FirstReads
  <2>2. AllIn(FirstReads("month_end_close")) = Transactions(AnyState, FALSE) \cup InvoicesOf
    BY <1>2, <2>1
  <2> QED
    BY <1>4, <1>5, <2>2
<1>9. AllIn(FirstReads("ticket_triage_to_resolution")) = {FlowQuery("tickets", {"open"}, AnyState)}
  BY <1>1, <1>3 DEF FirstReads
<1>10. /\ AllIn(FirstReads("suspend_for_nonpayment")) = {FlowQuery("invoices", {"unpaid"}, AnyState)}
       /\ AllIn(FirstReads("new_client_onboarding"))
            = {FlowQuery("clients", {"mail", "alike"}, AnyState)}
  BY <1>1, <1>3 DEF FirstReads
<1> QED
  BY <1>6, <1>7, <1>8, <1>9, <1>10

(* The first reads are done with when items are looked into, and what is   *)
(* read of an item is still to be read, answered or explained.             *)
FlowShape ==
  /\ report = "none" /\ flow \in Flows /\ phase \in {"reading", "items", "done"}
  /\ phase = "reading" => item = "none" /\ todo = {} /\ drafted = {} /\ skipped = {}
  /\ phase = "items" => flow \in {"ticket_triage_to_resolution", "suspend_for_nonpayment"}
  /\ phase = "done" => item = "none" /\ todo = {}
  /\ phase # "reading" /\ item = "none" => pending = <<>>
  /\ item # "none" =>
       /\ item \in Ids(Rows) \cup Owners(Rows)
       /\ item \in DOMAIN got /\ Fulfilled(ItemRead(item))
       /\ AllIn(pending) \subseteq {ItemRead(item)}
  /\ \A q \in AllIn(FirstReads(flow)) : q.section \in DOMAIN got /\ Fulfilled(q)

(* Each of the two lists is answered by one page of one moment.            *)
RenewalReads ==
  flow = "renewal_risk_triage" =>
    LET reads == FirstReads("renewal_risk_triage") IN
    /\ {"services", "domains"} \subseteq DOMAIN got
    /\ OnePerId(got["services"]) /\ \A r \in got["services"] : r.list = "services"
    /\ OnePerId(got["domains"]) /\ \A r \in got["domains"] : r.list = "domains"
    /\ \/ pending = reads /\ got["services"] = {} /\ got["domains"] = {}
       \/ pending = <<reads[2]>> /\ got["domains"] = {}
       \/ pending = <<>>

TicketSeen(i) == Accounted("ticket:note", i) /\ Accounted("ticket:status", i)

SuspendedAll(c) ==
  \A s \in Steadily("services", AnyState) : s.who = c => Accounted("service:suspend", s.id)

(* An item is still to be looked into, or done with, or past the limit.    *)
ItemsSeen ==
  phase \in {"items", "done"} =>
    /\ flow = "ticket_triage_to_resolution" =>
         \A i \in Ids(got["tickets"]) :
           i \in todo \/ i = item \/ TicketSeen(i) \/ Cardinality(got["tickets"]) >= Limit
    /\ flow = "suspend_for_nonpayment" =>
         \A c \in Owners(got["invoices"]) :
           \/ c \in todo \/ c = item \/ c \in errors \cup full \/ SuspendedAll(c)
           \/ Cardinality(Owners(got["invoices"])) >= Limit

(* What the four workflows without items have drafted.                     *)
DraftsMade ==
  phase = "done" =>
    /\ flow = "dunning_sweep" =>
         \A c \in Owners(got["invoices"]) :
           \/ Accounted("client_note:write", c)
           \/ Cardinality(Owners(got["invoices"])) >= Limit
    /\ flow = "renewal_risk_triage" =>
         \A r \in got["services"] \cup got["domains"] :
           r.state = "risk" =>
             \/ Accounted("ticket:create", r.id)
             \/ Cardinality({d \in drafted \cup skipped : d.scope = "ticket:create"}) >= Limit
    /\ flow = "month_end_close" =>
         \A i \in UnpaidThoughPaid(got["transactions"], got["invoices"]) :
           Accounted("client_note:write", i.id) \/ Cardinality(Discrepancies) >= Limit
    /\ flow = "new_client_onboarding" =>
         Accounted("client:create", "mail") \/ \E r \in got["clients"] : r.state = "mail"

WorkInv ==
  /\ WorldInv /\ ReadsShape
  /\ flow = "none" => NoFlow /\ AggregateInv
  /\ flow # "none" => FlowShape /\ RenewalReads /\ ItemsSeen /\ DraftsMade

LEMMA NoneIsNoItem ==
  ASSUME NEW i \in Ids(Rows) \cup Owners(Rows)
  PROVE  i \notin SectionNames /\ i # "none"
<1>1. PICK r \in Rows : i = r.id \/ i = r.who
  BY DEF Ids, Owners
<1>2. {r.id, r.who} \cap {"invoices", "services", "domains", "tickets",
                          "transactions", "clients", "none"} = {}
  BY ItemsApart
<1> QED
  BY <1>1, <1>2 DEF SectionNames

LEMMA FirstSections ==
  ASSUME NEW w \in Flows, NEW q \in AllIn(FirstReads(w))
  PROVE  q.section \in SectionNames
<1>1. \A section, states, keep :
        FlowQuery(section, states, keep).section = section
  BY DEF FlowQuery, Query
<1>2. q.section \in {"invoices", "services", "domains", "tickets", "transactions", "clients"}
  BY <1>1, FlowQueries DEF Flows
<1> QED
  BY <1>2 DEF SectionNames

LEMMA ItemSection ==
  ASSUME NEW i
  PROVE  /\ ItemRead(i).section = i /\ OneSection({ItemRead(i)})
         /\ ~ItemRead(i).flagged
  BY DEF ItemRead, Query, OneSection

(* Of what Excused takes as an excuse, nothing is lost.                    *)
LEMMA ReadOrExcused ==
  ASSUME NEW section, NEW states, NEW keep, pending = <<>>, steady \subseteq Rows,
         Fulfilled(FlowQuery(section, states, keep)), section \notin errors \cup full
  PROVE  \A r \in steady : r.list = section /\ r.state \in states \cap keep
           => r \in got[section]
<1> DEFINE q == FlowQuery(section, states, keep)
<1>1. /\ q.section = section /\ q.list = section /\ q.who = "all"
      /\ q.states = states /\ q.keep = keep /\ q.flagged = FALSE
  BY DEF FlowQuery, Query
<1>2. q \notin AllIn(pending)
  BY DEF AllIn, Range
<1> HIDE DEF q
<1>3. Expected(q) \subseteq got[section]
  BY <1>1, <1>2 DEF Fulfilled, Explained, q
<1> QED
  BY <1>1, <1>3 DEF Expected

LEMMA FlowsStart == ASSUME FlowsInit PROVE WorkInv
<1>1. NoFlow /\ AggregateInv
  BY AggregatesStart DEF FlowsInit
<1>2. flow = "none"
  BY <1>1 DEF NoFlow
<1> QED
  BY <1>1, <1>2 DEF WorkInv, AggregateInv

LEMMA AggregatesInFlows ==
  ASSUME WorkInv, NoFlow, AggregatesNext, UNCHANGED flowVars PROVE WorkInv'
<1>1. flow = "none" /\ AggregateInv
  BY DEF NoFlow, WorkInv
<1>2. AggregateInv'
  BY <1>1, AggregatesStep
<1>3. NoFlow' /\ flow' = "none"
  BY <1>1 DEF NoFlow, flowVars
<1> QED
  BY <1>2, <1>3 DEF WorkInv, AggregateInv

LEMMA StartFlowKeeps ==
  ASSUME WorkInv, report = "none", NEW w \in Flows, StartFlow(w) PROVE WorkInv'
<1>1. /\ flow = "none" /\ flow' = w /\ report' = report
      /\ todo' = todo /\ item' = item /\ drafted' = drafted /\ skipped' = skipped /\ phase' = phase
      /\ pending' = FirstReads(w) /\ world' = world /\ steady' = world
      /\ got' = [s \in {q.section : q \in UNION Range(FirstReads(w))} |-> {}]
  BY DEF StartFlow, Begin, callVars
<1>2. NoFlow /\ WorldInv
  BY <1>1 DEF WorkInv
<1>3. WorldInv'
  BY <1>1, <1>2 DEF WorldInv
<1>4. w # "none"
  BY DEF Flows
<1>5. Grouped(FirstReads(w))
  BY FlowReads
<1> DEFINE groups == FirstReads(w)
<1> HIDE DEF groups
<1>6. /\ ReadsShape'
      /\ DOMAIN got' = {q.section : q \in AllIn(groups)}
      /\ \A q \in AllIn(groups) : q.section \in DOMAIN got' /\ Fulfilled(q)'
  BY <1>1, <1>5, ReadsBegin DEF groups
<1>7. AllIn(FirstReads(flow')) = AllIn(groups)
  BY <1>1 DEF groups
<1>8. /\ item' = "none" /\ todo' = {} /\ drafted' = {} /\ skipped' = {} /\ phase' = "reading"
  BY <1>1, <1>2 DEF NoFlow
<1>9. FlowShape'
  BY <1>1, <1>6, <1>7, <1>8 DEF FlowShape
<1>10. RenewalReads'
  <2> SUFFICES ASSUME w = "renewal_risk_triage"
               PROVE  /\ {"services", "domains"} \subseteq DOMAIN got'
                      /\ got'["services"] = {} /\ got'["domains"] = {}
                      /\ pending' = FirstReads("renewal_risk_triage")
    BY <1>1 DEF RenewalReads, OnePerId
  <2>1. {q.section : q \in AllIn(groups)} = {"services", "domains"}
    <3>1. FlowQuery("services", AnyState, {"due", "risk"}).section = "services"
          /\ FlowQuery("domains", AnyState, {"soon", "risk"}).section = "domains"
      BY DEF FlowQuery, Query
    <3>2. AllIn(groups) = {FlowQuery("services", AnyState, {"due", "risk"}),
                           FlowQuery("domains", AnyState, {"soon", "risk"})}
      BY FlowQueries DEF groups
    <3> QED
      BY <3>1, <3>2
  <2>2. got' = [s \in {q.section : q \in AllIn(groups)} |-> {}]
    BY <1>1 DEF AllIn, groups
  <2> QED
    BY <1>1, <2>1, <2>2
<1>11. ItemsSeen' /\ DraftsMade'
  BY <1>8 DEF ItemsSeen, DraftsMade
<1> QED
  BY <1>1, <1>3, <1>4, <1>6, <1>9, <1>10, <1>11 DEF WorkInv

(* The read that is alone in its group is answered by one page.            *)
LEMMA OneQueryPage ==
  ASSUME WorldInv, Settle, NEW q, Head(pending) = {q},
         q.section \in DOMAIN got, got[q.section] = {}
  PROVE  /\ pending' = Tail(pending) /\ DOMAIN got' = DOMAIN got
         /\ got'[q.section] \subseteq {r \in world : r.list = q.list}
         /\ \A s \in DOMAIN got : s # q.section => got'[s] = got[s]
<1>1. Head(pending) \ {q} = {}
  OBVIOUS
<1>2. \/ PageRead(q) /\ pending' = Tail(pending)
      \/ Failed(q) /\ pending' = Tail(pending)
  BY <1>1 DEF Settle
<1>3. CASE Failed(q)
  <2>1. got' = [got EXCEPT ![q.section] = {}]
    BY <1>3 DEF Failed
  <2> QED
    BY <1>2, <2>1
<1>4. CASE PageRead(q)
  <2>1. PICK page \in Pages(q) :
          got' = [got EXCEPT ![q.section] = @ \cup {r \in page : r.state \in q.keep}]
    BY <1>4 DEF PageRead
  <2>2. page \subseteq {r \in world : r.list = q.list}
    BY FiniteReads DEF Matching
  <2> DEFINE kept == {r \in page : r.state \in q.keep}
  <2>3. kept \subseteq {r \in world : r.list = q.list}
    BY <2>2
  <2> HIDE DEF kept
  <2>4. /\ DOMAIN got' = DOMAIN got /\ got'[q.section] = kept
        /\ \A s \in DOMAIN got : s # q.section => got'[s] = got[s]
    BY <2>1 DEF kept
  <2> QED
    BY <1>2, <2>3, <2>4
<1> QED
  BY <1>2, <1>3, <1>4

LEMMA RenewalSettles ==
  ASSUME WorldInv, RenewalReads, Settle, flow' = flow, flow = "renewal_risk_triage"
  PROVE  RenewalReads'
<1> DEFINE reads == FirstReads("renewal_risk_triage")
           S == FlowQuery("services", AnyState, {"due", "risk"})
           D == FlowQuery("domains", AnyState, {"soon", "risk"})
<1>1. reads = <<{S}, {D}>>
  BY DEF FirstReads, Section, FlowQuery
<1>2. /\ S.section = "services" /\ S.list = "services"
      /\ D.section = "domains" /\ D.list = "domains"
  BY DEF FlowQuery, Query
<1> HIDE DEF S, D
<1>3. Head(<<{S}, {D}>>) = {S} /\ Tail(<<{S}, {D}>>) = <<{D}>> /\ <<{S}, {D}>>[2] = {D}
      /\ Head(<<{D}>>) = {D} /\ Tail(<<{D}>>) = <<>>
  OBVIOUS
<1> HIDE DEF reads
<1>4. Head(reads) = {S} /\ Tail(reads) = <<{D}>> /\ reads[2] = {D}
  BY <1>1, <1>3
<1>5. /\ {"services", "domains"} \subseteq DOMAIN got
      /\ OnePerId(got["services"]) /\ \A r \in got["services"] : r.list = "services"
      /\ \/ pending = reads /\ got["services"] = {} /\ got["domains"] = {}
         \/ pending = <<{D}>> /\ got["domains"] = {}
      /\ pending # <<>>
  BY <1>4 DEF RenewalReads, reads, Settle
<1>6. \A s : s \subseteq world => OnePerId(s)
  BY DEF WorldInv, OnePerId
<1>7. CASE pending = reads /\ got["services"] = {} /\ got["domains"] = {}
  <2>1. /\ pending' = <<{D}>> /\ DOMAIN got' = DOMAIN got
        /\ got'["services"] \subseteq {r \in world : r.list = "services"}
        /\ got'["domains"] = {}
    BY <1>2, <1>4, <1>5, <1>7, OneQueryPage
  <2>2. /\ OnePerId(got'["services"]) /\ \A r \in got'["services"] : r.list = "services"
        /\ OnePerId(got'["domains"])
    BY <1>6, <2>1
  <2> QED
    BY <1>4, <1>5, <2>1, <2>2 DEF RenewalReads, reads
<1>8. CASE pending = <<{D}>> /\ got["domains"] = {}
  <2>1. /\ pending' = <<>> /\ DOMAIN got' = DOMAIN got
        /\ got'["domains"] \subseteq {r \in world : r.list = "domains"}
        /\ got'["services"] = got["services"]
    BY <1>2, <1>3, <1>5, <1>8, OneQueryPage
  <2>2. OnePerId(got'["domains"]) /\ \A r \in got'["domains"] : r.list = "domains"
    BY <1>6, <2>1
  <2> QED
    BY <1>4, <1>5, <2>1, <2>2 DEF RenewalReads, reads
<1> QED
  BY <1>5, <1>7, <1>8

(* The sections that each workflow reads first.                            *)
LEMMA FirstInGot ==
  ASSUME FlowShape
  PROVE  /\ flow \in {"dunning_sweep", "suspend_for_nonpayment", "month_end_close"}
              => "invoices" \in DOMAIN got
         /\ flow = "renewal_risk_triage" => "services" \in DOMAIN got /\ "domains" \in DOMAIN got
         /\ flow = "ticket_triage_to_resolution" => "tickets" \in DOMAIN got
         /\ flow = "month_end_close" => "transactions" \in DOMAIN got
         /\ flow = "new_client_onboarding" => "clients" \in DOMAIN got
<1>1. \A section, states, keep :
        FlowQuery(section, states, keep) \in AllIn(FirstReads(flow)) => section \in DOMAIN got
  <2>1. \A section, states, keep : FlowQuery(section, states, keep).section = section
    BY DEF FlowQuery, Query
  <2> QED
    BY <2>1 DEF FlowShape
<1> QED
  BY <1>1, FlowQueries

LEMMA ReadForFlowKeeps ==
  ASSUME WorkInv, ReadForFlow PROVE WorkInv'
<1>1. /\ flow # "none" /\ Settle
      /\ UNCHANGED <<world, steady, report, flow, granted, goodwill, todo, item, drafted,
                     skipped, phase>>
  BY DEF ReadForFlow, worldVars, callVars, flowVars
<1>2. WorldInv /\ ReadsShape /\ FlowShape /\ RenewalReads /\ ItemsSeen /\ DraftsMade
  BY <1>1 DEF WorkInv
<1>3. /\ ReadsShape' /\ DOMAIN got' = DOMAIN got
      /\ errors \subseteq errors' /\ full \subseteq full'
      /\ AllIn(pending') \subseteq AllIn(pending)
      /\ \E p \in AllIn(pending) : \A s \in DOMAIN got : s = p.section \/ got'[s] = got[s]
  BY <1>1, <1>2, ReadSettles
<1>4. WorldInv'
  BY <1>1, <1>2 DEF WorldInv
<1>5. \A q : q.section \in DOMAIN got /\ Fulfilled(q) => Fulfilled(q)'
  BY <1>1, <1>2, SettleKeepFulfilled
<1>6. pending # <<>>
  BY <1>1 DEF Settle
<1>7. phase = "reading" \/ item # "none"
  BY <1>2, <1>6 DEF FlowShape
<1>8. FlowShape'
  <2> DEFINE q == ItemRead(item)
             first == AllIn(FirstReads(flow))
  <2>1. q' = q /\ first' = first
    BY <1>1 DEF ItemRead
  <2>2. item # "none" => q.section \in DOMAIN got
    BY <1>2, ItemSection DEF FlowShape
  <2>3. item # "none" => item \in DOMAIN got /\ Fulfilled(q) /\ AllIn(pending) \subseteq {q}
    BY <1>2 DEF FlowShape
  <2>4. \A x \in first : x.section \in DOMAIN got /\ Fulfilled(x)
    BY <1>2 DEF FlowShape
  <2> HIDE DEF q, first
  <2>5. item' # "none" => Fulfilled(q)' /\ AllIn(pending') \subseteq {q'} /\ item' \in DOMAIN got'
    BY <1>1, <1>3, <1>5, <2>1, <2>2, <2>3
  <2>6. item' # "none" => Fulfilled(ItemRead(item))'
    <3>1. q = ItemRead(item) => (Fulfilled(q)' => Fulfilled(ItemRead(item))')
      BY <2>1 DEF q
    <3> QED
      BY <2>1, <2>5, <3>1 DEF q
  <2>7. \A x \in first : x.section \in DOMAIN got' /\ Fulfilled(x)'
    BY <1>3, <1>5, <2>4
  <2>8. AllIn(FirstReads(flow')) = first
    BY <1>1 DEF first
  <2>9. q' = ItemRead(item)'
    BY DEF q
  <2>10. phase' # "reading" /\ item' = "none" => pending' = <<>>
    BY <1>1, <1>7
  <2> QED
    BY <1>1, <1>2, <2>5, <2>6, <2>7, <2>8, <2>9, <2>10 DEF FlowShape
<1>9. RenewalReads'
  BY <1>1, <1>2, RenewalSettles DEF RenewalReads
<1>10. phase # "done"
  BY <1>2, <1>6, <1>7 DEF FlowShape
<1>11. DraftsMade'
  BY <1>1, <1>10 DEF DraftsMade
<1>12. ItemsSeen'
  <2> SUFFICES ASSUME phase = "items" PROVE ItemsSeen'
    BY <1>1, <1>10 DEF ItemsSeen
  <2>1. item # "none" /\ item \in Ids(Rows) \cup Owners(Rows) /\ AllIn(pending) \subseteq {ItemRead(item)}
    BY <1>2, <1>7 DEF FlowShape
  <2>2. item \notin SectionNames
    BY <2>1, NoneIsNoItem
  <2>3. \A s \in DOMAIN got : s = item \/ got'[s] = got[s]
    BY <1>3, <2>1, ItemSection
  <2>4. flow = "ticket_triage_to_resolution" => got'["tickets"] = got["tickets"]
    BY <1>2, <2>2, <2>3, FirstInGot DEF SectionNames
  <2>5. flow = "suspend_for_nonpayment" => got'["invoices"] = got["invoices"]
    BY <1>2, <2>2, <2>3, FirstInGot DEF SectionNames
  <2>6. \A c : SuspendedAll(c)' = SuspendedAll(c) /\ TicketSeen(c)' = TicketSeen(c)
    BY <1>1 DEF SuspendedAll, TicketSeen, Accounted, Steadily
  <2>7. flow' = "ticket_triage_to_resolution" => 
         \A i \in Ids(got'["tickets"]) :
           i \in todo' \/ i = item' \/ TicketSeen(i)' \/ Cardinality(got'["tickets"]) >= Limit
    BY <1>1, <1>2, <2>4, <2>6 DEF ItemsSeen
  <2>8. flow' = "suspend_for_nonpayment" =>
         \A c \in Owners(got'["invoices"]) :
           \/ c \in todo' \/ c = item' \/ c \in errors' \cup full' \/ SuspendedAll(c)'
           \/ Cardinality(Owners(got'["invoices"])) >= Limit
    BY <1>1, <1>2, <1>3, <2>5, <2>6 DEF ItemsSeen
  <2> QED
    BY <2>7, <2>8 DEF ItemsSeen
<1> QED
  BY <1>1, <1>3, <1>4, <1>8, <1>9, <1>11, <1>12 DEF WorkInv

(* Nothing that is wanted is lost: it is drafted or its denial is listed.  *)
LEMMA NothingLost ==
  ASSUME NEW wanted, DraftOrSkip(wanted)
  PROVE  /\ drafted' \cup skipped' = drafted \cup skipped \cup wanted
         /\ \A x, y : Intent(x, y) \in wanted => Accounted(x, y)'
         /\ \A x, y : Accounted(x, y) => Accounted(x, y)'
  BY DEF DraftOrSkip, Skips, Accounted

LEMMA DraftAllKeeps ==
  ASSUME WorkInv, report = "none", DraftAll PROVE WorkInv'
<1>1. /\ phase = "reading" /\ flow \in Flows /\ pending = <<>>
      /\ flow \notin {"ticket_triage_to_resolution", "suspend_for_nonpayment"}
      /\ UNCHANGED <<world, steady, pending, got, full, truncated, errors, report, flow,
                     granted, goodwill, item, todo>>
      /\ phase' = "done"
  BY DEF DraftAll, Swept, worldVars, readVars, callVars
<1>2. flow # "none"
  BY <1>1 DEF Flows
<1>3. WorldInv /\ ReadsShape /\ FlowShape /\ RenewalReads
  BY <1>2 DEF WorkInv
<1>4. PICK wanted \in Wanted : DraftOrSkip(wanted)
  BY DEF DraftAll
<1>5. item = "none" /\ todo = {} /\ drafted = {} /\ skipped = {}
  BY <1>1, <1>3 DEF FlowShape
<1>6. /\ drafted' \cup skipped' = wanted
      /\ \A x, y : Intent(x, y) \in wanted => Accounted(x, y)'
  BY <1>4, <1>5, NothingLost
<1>7. WorldInv' /\ ReadsShape'
  BY <1>1, <1>3 DEF WorldInv, ReadsShape, Grouped
<1>8. FlowShape'
  <2>1. \A q : Fulfilled(q)' = Fulfilled(q)
    BY <1>1 DEF Fulfilled, Expected, Explained
  <2> QED
    BY <1>1, <1>3, <1>5, <2>1 DEF FlowShape
<1>9. RenewalReads'
  BY <1>1, <1>3 DEF RenewalReads
<1>10. ItemsSeen'
  BY <1>1 DEF ItemsSeen
<1>11. \A s \in DOMAIN got : IsFiniteSet(got[s])
  BY <1>3 DEF ReadsShape
<1>12. DraftsMade'
  <2>1. CASE flow = "dunning_sweep"
    <3> DEFINE owners == Owners(got["invoices"])
    <3>1. IsFiniteSet(owners)
      BY <1>3, <1>11, <2>1, FirstInGot, FewerNames
    <3>2. PICK o \in TakenIds(owners) : wanted = Reminders(o)
      BY <1>4, <2>1 DEF Wanted
    <3>3. o = owners \/ Cardinality(owners) >= Limit
      BY <3>1, <3>2, AllOrLimit DEF TakenIds
    <3>4. \A c \in o : Intent("client_note:write", c) \in wanted
      BY <3>2 DEF Reminders
    <3>5. \A c \in owners : Accounted("client_note:write", c)' \/ Cardinality(owners) >= Limit
      BY <1>6, <3>3, <3>4
    <3>6. Owners(got'["invoices"]) = owners
      BY <1>1
    <3> HIDE DEF owners
    <3> QED
      BY <1>1, <2>1, <3>5, <3>6 DEF DraftsMade
  <2>2. CASE flow = "renewal_risk_triage"
    <3> DEFINE rows == got["services"] \cup got["domains"]
    <3>1. IsFiniteSet(rows)
      BY <1>3, <1>11, <2>2, FirstInGot, FS_Union
    <3>2. OnePerId(rows)
      <4>1. rows \subseteq Rows
        BY <1>3, <2>2, FirstInGot DEF ReadsShape
      <4>2. \A r, s \in rows : r.id = s.id => r.list = s.list
        BY <4>1, SectionAssumption DEF SectionAssumption
      <4>3. /\ OnePerId(got["services"]) /\ \A r \in got["services"] : r.list = "services"
            /\ OnePerId(got["domains"]) /\ \A r \in got["domains"] : r.list = "domains"
        BY <1>3, <2>2 DEF RenewalReads
      <4> QED
        BY <4>2, <4>3 DEF OnePerId
    <3>3. PICK taken \in Taken(rows) :
            wanted = {Intent("ticket:create", s.id) : s \in {s \in taken : s.state = "risk"}}
      BY <1>4, <2>2 DEF Wanted
    <3>4. {d \in drafted' \cup skipped' : d.scope = "ticket:create"} = wanted
      BY <1>6, <3>3 DEF Intent
    <3> HIDE DEF rows
    <3>5. \A r \in rows : r.state = "risk" =>
            Intent("ticket:create", r.id) \in wanted \/ Cardinality(wanted) >= Limit
      BY <3>1, <3>2, <3>3, RiskyFirst
    <3>6. got'["services"] \cup got'["domains"] = rows
      BY <1>1 DEF rows
    <3>7. \A r \in got'["services"] \cup got'["domains"] : r.state = "risk" =>
            \/ Accounted("ticket:create", r.id)'
            \/ Cardinality({d \in drafted' \cup skipped' : d.scope = "ticket:create"}) >= Limit
      BY <1>6, <3>4, <3>5, <3>6
    <3> QED
      BY <1>1, <2>2, <3>7 DEF DraftsMade
  <2>3. CASE flow = "month_end_close"
    <3> DEFINE open == UnpaidThoughPaid(got["transactions"], got["invoices"])
               twice == {u \in DuplicateRisk(got["transactions"]) : u.of # "none"}
               late == {Discrepancy("unpaid_with_recent_payment", i.id) : i \in open}
    <3>1. IsFiniteSet(Discrepancies)
      <4>1. open \subseteq got["invoices"] /\ twice \subseteq got["transactions"]
        BY DEF UnpaidThoughPaid, DuplicateRisk, Receipts
      <4>2. IsFiniteSet(open) /\ IsFiniteSet(twice)
        BY <1>3, <1>11, <2>3, <4>1, FirstInGot, FS_Subset
      <4> HIDE DEF open, twice
      <4>3. /\ [i \in open |-> Discrepancy("unpaid_with_recent_payment", i.id)]
                 \in Surjection(open, late)
            /\ [t \in twice |-> Discrepancy(t.state, t.of)]
                 \in Surjection(twice, {Discrepancy(t.state, t.of) : t \in twice})
        BY DEF Surjection
      <4>4. IsFiniteSet(late) /\ IsFiniteSet({Discrepancy(t.state, t.of) : t \in twice})
        BY <4>2, <4>3, FS_Surjection
      <4> QED
        BY <4>4, FS_Union DEF Discrepancies, Duplicates, twice, open
    <3>2. PICK t \in FirstFew(Discrepancies, Duplicates) :
            wanted = {Intent("client_note:write", i) : i \in Annotated(t)}
      BY <1>4, <2>3 DEF Wanted
    <3>3. t = Discrepancies \/ Cardinality(Discrepancies) >= Limit
      BY <3>1, <3>2, AllOrLimit
    <3>4. \A i \in open :
            Accounted("client_note:write", i.id)' \/ Cardinality(Discrepancies) >= Limit
      <4> SUFFICES ASSUME NEW i \in open, t = Discrepancies
                   PROVE  Accounted("client_note:write", i.id)'
        BY <3>3
      <4>1. Discrepancy("unpaid_with_recent_payment", i.id) \in t
        BY DEF Discrepancies
      <4>2. i.id \in Annotated(t)
        BY <4>1 DEF Annotated, Discrepancy, Ids, UnpaidThoughPaid
      <4> QED
        BY <1>6, <3>2, <4>2
    <3>5. Discrepancies' = Discrepancies /\ open' = open
      BY <1>1 DEF Discrepancies, Duplicates
    <3> QED
      BY <1>1, <2>3, <3>4, <3>5 DEF DraftsMade
  <2>4. CASE flow = "new_client_onboarding"
    <3>1. wanted = IF Duplicate THEN {} ELSE {Intent("client:create", "mail")}
      BY <1>4, <2>4 DEF Wanted
    <3>2. Accounted("client:create", "mail")' \/ \E r \in got'["clients"] : r.state = "mail"
      BY <1>1, <1>6, <3>1 DEF Duplicate
    <3> QED
      BY <1>1, <2>4, <3>2 DEF DraftsMade
  <2> QED
    BY <1>1, <2>1, <2>2, <2>3, <2>4 DEF Flows
<1> QED
  BY <1>1, <1>2, <1>7, <1>8, <1>9, <1>10, <1>12 DEF WorkInv

LEMMA PickItemsKeeps ==
  ASSUME WorkInv, report = "none", PickItems PROVE WorkInv'
<1>1. /\ phase = "reading" /\ flow \in {"ticket_triage_to_resolution", "suspend_for_nonpayment"}
      /\ pending = <<>>
      /\ UNCHANGED <<world, steady, pending, got, full, truncated, errors, report, flow,
                     granted, goodwill, item, drafted, skipped>>
      /\ phase' = "items"
      /\ flow = "ticket_triage_to_resolution" => todo' \in TakenIds(Ids(got["tickets"]))
      /\ flow = "suspend_for_nonpayment" => todo' \in TakenIds(Owners(got["invoices"]))
  BY DEF PickItems, Swept, worldVars, readVars, callVars
<1>2. flow # "none"
  BY <1>1
<1>3. WorldInv /\ ReadsShape /\ FlowShape /\ RenewalReads
  BY <1>2 DEF WorkInv
<1>4. WorldInv' /\ ReadsShape'
  BY <1>1, <1>3 DEF WorldInv, ReadsShape, Grouped
<1>5. item = "none"
  BY <1>1, <1>3 DEF FlowShape
<1>6. FlowShape'
  <2>1. \A q : Fulfilled(q)' = Fulfilled(q)
    BY <1>1 DEF Fulfilled, Expected, Explained
  <2> QED
    BY <1>1, <1>3, <1>5, <2>1 DEF FlowShape
<1>7. RenewalReads' /\ DraftsMade'
  BY <1>1 DEF RenewalReads, DraftsMade
<1>8. \A s \in DOMAIN got : IsFiniteSet(got[s])
  BY <1>3 DEF ReadsShape
<1>9. CASE flow = "ticket_triage_to_resolution"
  <2> DEFINE rows == got["tickets"]
  <2>1. IsFiniteSet(rows)
    BY <1>3, <1>8, <1>9, FirstInGot
  <2>2. todo' \in TakenIds(Ids(rows))
    BY <1>1, <1>9
  <2>3. got'["tickets"] = rows
    BY <1>1
  <2> HIDE DEF rows
  <2>4. todo' = Ids(rows) \/ Cardinality(Ids(rows)) >= Limit
    BY <2>1, <2>2, AllOrLimit, FewerNames DEF TakenIds
  <2>5. todo' = Ids(rows) \/ Cardinality(rows) >= Limit
    BY <2>1, <2>4, FewerNames, LimitIsPositive
  <2>6. ItemsSeen'
    BY <1>1, <1>9, <2>3, <2>5 DEF ItemsSeen
  <2> QED
    BY <1>1, <1>2, <1>4, <1>6, <1>7, <2>6 DEF WorkInv
<1>10. CASE flow = "suspend_for_nonpayment"
  <2> DEFINE rows == got["invoices"]
  <2>1. IsFiniteSet(rows)
    BY <1>3, <1>8, <1>10, FirstInGot
  <2>2. todo' \in TakenIds(Owners(rows))
    BY <1>1, <1>10
  <2>3. got'["invoices"] = rows
    BY <1>1
  <2> HIDE DEF rows
  <2>4. todo' = Owners(rows) \/ Cardinality(Owners(rows)) >= Limit
    BY <2>1, <2>2, AllOrLimit, FewerNames DEF TakenIds
  <2>5. ItemsSeen'
    BY <1>1, <1>10, <2>3, <2>4 DEF ItemsSeen
  <2> QED
    BY <1>1, <1>2, <1>4, <1>6, <1>7, <2>5 DEF WorkInv
<1> QED
  BY <1>1, <1>9, <1>10

LEMMA LookIntoKeeps ==
  ASSUME WorkInv, flow # "none", NEW i \in Ids(Rows) \cup Owners(Rows), LookInto(i)
  PROVE  WorkInv'
<1> DEFINE q == ItemRead(i)
<1>1. /\ phase = "items" /\ item = "none" /\ i \in todo
      /\ item' = i /\ todo' = todo \ {i} /\ pending' = <<{q}>>
      /\ got' = [s \in DOMAIN got \cup {i} |-> IF s = i THEN {} ELSE got[s]]
      /\ UNCHANGED <<world, steady, full, truncated, errors, report, flow,
                     granted, goodwill, drafted, skipped, phase>>
  BY DEF LookInto, worldVars, callVars
<1>2. WorldInv /\ ReadsShape /\ FlowShape /\ ItemsSeen
  BY DEF WorkInv
<1>3. i \notin SectionNames /\ i # "none"
  BY NoneIsNoItem
<1>4. q.section = i /\ OneSection({q})
  BY ItemSection
<1>5. ItemRead(item)' = q
  BY <1>1 DEF ItemRead
<1> HIDE DEF q
<1>6. pending = <<>> /\ AllIn(pending) = {}
  <2>1. pending = <<>>
    BY <1>1, <1>2 DEF FlowShape
  <2> QED
    BY <2>1 DEF AllIn, Range
<1>7. AllIn(pending') = {q} /\ Grouped(pending')
  <2>1. \A a : AllIn(<<a>>) = a
    BY DEF AllIn, Range
  <2> QED
    BY <1>1, <1>4, <2>1, ListOfGroups
<1>8. /\ DOMAIN got' = DOMAIN got \cup {i} /\ got'[i] = {}
      /\ \A s \in DOMAIN got : s # i => got'[s] = got[s]
      /\ got' = [s \in DOMAIN got' |-> got'[s]]
  BY <1>1
<1>9. ReadsShape'
  <2>1. \A s \in DOMAIN got' : IsFiniteSet(got'[s]) /\ got'[s] \subseteq Rows
    BY <1>2, <1>8, FS_EmptySet DEF ReadsShape
  <2>2. \A x \in AllIn(pending') : x.section \in DOMAIN got'
    BY <1>4, <1>7, <1>8
  <2> QED
    BY <1>7, <1>8, <2>1, <2>2 DEF ReadsShape
<1>10. WorldInv'
  BY <1>1, <1>2 DEF WorldInv
<1>11. \A x : x.section \in DOMAIN got /\ x.section # i /\ Fulfilled(x) => Fulfilled(x)'
  BY <1>1, <1>6, <1>8 DEF Fulfilled, Expected, Explained
<1>12. FlowShape'
  <2> DEFINE first == AllIn(FirstReads(flow))
  <2>1. \A x \in first : x.section \in DOMAIN got /\ Fulfilled(x) /\ x.section # i
    BY <1>2, <1>3, FirstSections DEF FlowShape
  <2>2. AllIn(FirstReads(flow')) = first
    BY <1>1
  <2> HIDE DEF first
  <2>3. \A x \in first : x.section \in DOMAIN got' /\ Fulfilled(x)'
    BY <1>8, <1>11, <2>1
  <2>4. Fulfilled(q)'
    <3>1. q' = q
      BY <1>1 DEF q, ItemRead
    <3> QED
      BY <1>7, <3>1 DEF Fulfilled
  <2>5. Fulfilled(ItemRead(item))'
    <3>1. q' = q
      BY <1>1 DEF q, ItemRead
    <3>2. q' = ItemRead(item)' => (Fulfilled(q)' => Fulfilled(ItemRead(item))')
      BY DEF Fulfilled, Expected, Explained
    <3> QED
      BY <1>5, <2>4, <3>1, <3>2
  <2>6. report = "none" /\ flow \in {"ticket_triage_to_resolution", "suspend_for_nonpayment"}
    BY <1>1, <1>2 DEF FlowShape
  <2>7. flow' \in Flows
    BY <1>1, <2>6 DEF Flows
  <2> QED
    BY <1>1, <1>3, <1>5, <1>7, <1>8, <2>2, <2>3, <2>5, <2>6, <2>7 DEF FlowShape
<1>13. flow' \in {"ticket_triage_to_resolution", "suspend_for_nonpayment"}
  BY <1>1, <1>2 DEF FlowShape
<1>14. RenewalReads' /\ DraftsMade'
  BY <1>1, <1>13 DEF RenewalReads, DraftsMade
<1>15. ItemsSeen'
  <2>1. flow = "ticket_triage_to_resolution" => got'["tickets"] = got["tickets"]
    BY <1>2, <1>3, <1>8, FirstInGot DEF SectionNames
  <2>2. flow = "suspend_for_nonpayment" => got'["invoices"] = got["invoices"]
    BY <1>2, <1>3, <1>8, FirstInGot DEF SectionNames
  <2>3. \A c : SuspendedAll(c)' = SuspendedAll(c) /\ TicketSeen(c)' = TicketSeen(c)
    BY <1>1 DEF SuspendedAll, TicketSeen, Accounted, Steadily
  <2>4. \A c : c \in todo \/ c = item => c \in todo' \/ c = item' \/ c = "none"
    BY <1>1
  <2>5. \A c \in Ids(Rows) \cup Owners(Rows) : c # "none"
    BY NoneIsNoItem
  <2>6. flow = "ticket_triage_to_resolution" => Ids(got["tickets"]) \subseteq Ids(Rows)
    BY <1>2, FirstInGot DEF ReadsShape, Ids
  <2>7. flow = "suspend_for_nonpayment" => Owners(got["invoices"]) \subseteq Owners(Rows)
    BY <1>2, FirstInGot DEF ReadsShape, Owners
  <2>8. flow' = "ticket_triage_to_resolution" =>
         \A c \in Ids(got'["tickets"]) :
           c \in todo' \/ c = item' \/ TicketSeen(c)' \/ Cardinality(got'["tickets"]) >= Limit
    BY <1>1, <1>2, <2>1, <2>3, <2>4, <2>5, <2>6 DEF ItemsSeen
  <2>9. flow' = "suspend_for_nonpayment" =>
         \A c \in Owners(got'["invoices"]) :
           \/ c \in todo' \/ c = item' \/ c \in errors' \cup full' \/ SuspendedAll(c)'
           \/ Cardinality(Owners(got'["invoices"])) >= Limit
    BY <1>1, <1>2, <2>2, <2>3, <2>4, <2>5, <2>7 DEF ItemsSeen
  <2> QED
    BY <2>8, <2>9 DEF ItemsSeen
<1> QED
  BY <1>1, <1>9, <1>10, <1>12, <1>14, <1>15 DEF WorkInv

LEMMA DraftForItemKeeps ==
  ASSUME WorkInv, flow # "none", DraftForItem PROVE WorkInv'
<1>1. /\ item # "none" /\ pending = <<>> /\ DraftOrSkip(WantedForItem) /\ item' = "none"
      /\ UNCHANGED <<world, steady, pending, got, full, truncated, errors, report, flow,
                     granted, goodwill, todo, phase>>
  BY DEF DraftForItem, worldVars, readVars, callVars
<1>2. WorldInv /\ ReadsShape /\ FlowShape /\ RenewalReads /\ ItemsSeen
  BY <1>1 DEF WorkInv
<1>3. phase = "items" /\ flow \in {"ticket_triage_to_resolution", "suspend_for_nonpayment"}
  BY <1>1, <1>2 DEF FlowShape
<1>4. WorldInv' /\ ReadsShape'
  BY <1>1, <1>2 DEF WorldInv, ReadsShape, Grouped
<1>5. FlowShape'
  <2>1. \A q : Fulfilled(q)' = Fulfilled(q)
    BY <1>1 DEF Fulfilled, Expected, Explained
  <2> QED
    BY <1>1, <1>2, <1>3, <2>1 DEF FlowShape
<1>6. RenewalReads' /\ DraftsMade'
  BY <1>1, <1>3 DEF RenewalReads, DraftsMade
<1>7. /\ \A x, y : Intent(x, y) \in WantedForItem => Accounted(x, y)'
      /\ \A x, y : Accounted(x, y) => Accounted(x, y)'
  <2> DEFINE wanted == WantedForItem
  <2>1. DraftOrSkip(wanted)
    BY <1>1
  <2> HIDE DEF wanted
  <2>2. /\ \A x, y : Intent(x, y) \in wanted => Accounted(x, y)'
        /\ \A x, y : Accounted(x, y) => Accounted(x, y)'
    BY <2>1, NothingLost
  <2> QED
    BY <2>2 DEF wanted
<1>8. CASE flow = "ticket_triage_to_resolution"
  <2>1. WantedForItem = {Intent("ticket:note", item), Intent("ticket:status", item)}
    BY <1>8 DEF WantedForItem
  <2>2. ASSUME NEW i, i = item PROVE TicketSeen(i)'
    <3>1. Intent("ticket:note", i) \in WantedForItem /\ Intent("ticket:status", i) \in WantedForItem
      BY <2>1, <2>2
    <3> QED
      BY <1>7, <3>1 DEF TicketSeen
  <2>3. \A i : TicketSeen(i) => TicketSeen(i)'
    BY <1>7 DEF TicketSeen
  <2>4. \A i \in Ids(got["tickets"]) :
          i \in todo \/ i = item \/ TicketSeen(i) \/ Cardinality(got["tickets"]) >= Limit
    BY <1>2, <1>3, <1>8 DEF ItemsSeen
  <2>5. got'["tickets"] = got["tickets"]
    BY <1>1
  <2>6. ItemsSeen'
    BY <1>1, <1>8, <2>2, <2>3, <2>4, <2>5 DEF ItemsSeen
  <2> QED
    BY <1>1, <1>4, <1>5, <1>6, <2>6 DEF WorkInv
<1>9. CASE flow = "suspend_for_nonpayment"
  <2>1. WantedForItem = {Intent("service:suspend", r.id) : r \in got[item]}
    BY <1>9 DEF WantedForItem
  <2>2. ASSUME NEW c, c = item, c \notin errors \cup full PROVE SuspendedAll(c)'
    <3> DEFINE q == ItemRead(c)
    <3>1. /\ q.section = c /\ q.list = "services" /\ q.who = c
          /\ q.states = AnyState /\ q.keep = AnyState /\ q.flagged = FALSE
      BY <1>9 DEF ItemRead, Query
    <3>2. Fulfilled(q)
      BY <1>1, <1>2, <2>2 DEF FlowShape
    <3>3. q \notin AllIn(pending)
      BY <1>1 DEF AllIn, Range
    <3> HIDE DEF q
    <3>4. Expected(q) \subseteq got[c]
      BY <2>2, <3>1, <3>2, <3>3 DEF Fulfilled, Explained
    <3>5. \A s \in Steadily("services", AnyState) :
            s.who = c => Intent("service:suspend", s.id) \in WantedForItem
      BY <2>1, <2>2, <3>1, <3>4 DEF Expected, Steadily
    <3>6. \A s \in Steadily("services", AnyState)' :
            s.who = c => Accounted("service:suspend", s.id)'
      BY <1>1, <1>7, <3>5 DEF Steadily
    <3> QED
      BY <3>6 DEF SuspendedAll
  <2>3. \A c : SuspendedAll(c) => SuspendedAll(c)'
    BY <1>1, <1>7 DEF SuspendedAll, Steadily
  <2>4. \A c \in Owners(got["invoices"]) :
           \/ c \in todo \/ c = item \/ c \in errors \cup full \/ SuspendedAll(c)
           \/ Cardinality(Owners(got["invoices"])) >= Limit
    BY <1>2, <1>3, <1>9 DEF ItemsSeen
  <2>5. got'["invoices"] = got["invoices"]
    BY <1>1
  <2>6. ItemsSeen'
    BY <1>1, <1>9, <2>2, <2>3, <2>4, <2>5 DEF ItemsSeen
  <2> QED
    BY <1>1, <1>4, <1>5, <1>6, <2>6 DEF WorkInv
<1> QED
  BY <1>3, <1>8, <1>9

LEMMA ItemsDoneKeeps ==
  ASSUME WorkInv, flow # "none", ItemsDone PROVE WorkInv'
<1>1. /\ phase = "items" /\ item = "none" /\ todo = {} /\ phase' = "done"
      /\ UNCHANGED <<world, steady, pending, got, full, truncated, errors, report, flow,
                     granted, goodwill, todo, item, drafted, skipped>>
  BY DEF ItemsDone, worldVars, readVars, callVars
<1>2. WorldInv /\ ReadsShape /\ FlowShape /\ ItemsSeen
  BY DEF WorkInv
<1>3. flow \in {"ticket_triage_to_resolution", "suspend_for_nonpayment"}
  BY <1>1, <1>2 DEF FlowShape
<1>4. WorldInv' /\ ReadsShape'
  BY <1>1, <1>2 DEF WorldInv, ReadsShape, Grouped
<1>5. FlowShape'
  <2>1. \A q : Fulfilled(q)' = Fulfilled(q)
    BY <1>1 DEF Fulfilled, Expected, Explained
  <2> QED
    BY <1>1, <1>2, <1>3, <2>1 DEF FlowShape
<1>6. RenewalReads' /\ DraftsMade'
  BY <1>1, <1>3 DEF RenewalReads, DraftsMade
<1>7. ItemsSeen'
  <2>1. \A c : SuspendedAll(c)' = SuspendedAll(c) /\ TicketSeen(c)' = TicketSeen(c)
    BY <1>1 DEF SuspendedAll, TicketSeen, Accounted, Steadily
  <2> QED
    BY <1>1, <1>2, <2>1 DEF ItemsSeen
<1> QED
  BY <1>1, <1>4, <1>5, <1>6, <1>7 DEF WorkInv

LEMMA FlowMoveKeeps ==
  ASSUME WorkInv, flow # "none", NEW r \in Touched, FlowMove(r) PROVE WorkInv'
<1>1. r \in Rows /\ Others(r)
  BY CalledAggregates DEF FlowMove
<1>2. WorldInv /\ ReadsShape /\ FlowShape /\ RenewalReads /\ ItemsSeen /\ DraftsMade
  BY DEF WorkInv
<1>3. /\ WorldInv' /\ steady' \subseteq steady /\ ReadsShape'
      /\ UNCHANGED <<pending, got, full, truncated, errors>>
      /\ \A q : Fulfilled(q) => Fulfilled(q)'
  BY <1>1, <1>2, OthersKeepFulfilled DEF readVars
<1>4. UNCHANGED <<report, flow, granted, goodwill, todo, item, drafted, skipped, phase>>
  BY DEF FlowMove, callVars, flowVars
<1>5. FlowShape'
  <2> DEFINE q == ItemRead(item)
             first == AllIn(FirstReads(flow))
  <2>1. q' = q /\ first' = first
    BY <1>4 DEF ItemRead
  <2>2. item # "none" => Fulfilled(q) /\ AllIn(pending) \subseteq {q}
    BY <1>2 DEF FlowShape
  <2>3. \A x \in first : x.section \in DOMAIN got /\ Fulfilled(x)
    BY <1>2 DEF FlowShape
  <2> HIDE DEF q, first
  <2>4. item' # "none" => Fulfilled(q)' /\ AllIn(pending') \subseteq {q'}
    BY <1>3, <1>4, <2>1, <2>2
  <2>5. item' # "none" => Fulfilled(ItemRead(item))'
    <3>1. q = ItemRead(item) => (Fulfilled(q)' => Fulfilled(ItemRead(item))')
      BY <2>1 DEF q
    <3> QED
      BY <2>1, <2>4, <3>1 DEF q
  <2>6. \A x \in first : x.section \in DOMAIN got' /\ Fulfilled(x)'
    BY <1>3, <2>3
  <2>7. AllIn(FirstReads(flow')) = first
    BY <1>4 DEF first
  <2>8. q' = ItemRead(item)'
    BY DEF q
  <2> QED
    BY <1>2, <1>3, <1>4, <2>4, <2>5, <2>6, <2>7, <2>8 DEF FlowShape
<1>6. RenewalReads'
  BY <1>2, <1>3, <1>4 DEF RenewalReads
<1>7. DraftsMade'
  <2>1. \A x, y : Accounted(x, y)' = Accounted(x, y)
    BY <1>4 DEF Accounted
  <2>2. Discrepancies' = Discrepancies
    BY <1>3 DEF Discrepancies, Duplicates
  <2> QED
    BY <1>2, <1>3, <1>4, <2>1, <2>2 DEF DraftsMade
<1>8. ItemsSeen'
  <2>1. \A c : SuspendedAll(c) => SuspendedAll(c)'
    BY <1>3, <1>4 DEF SuspendedAll, Accounted, Steadily
  <2>2. \A c : TicketSeen(c)' = TicketSeen(c)
    BY <1>4 DEF TicketSeen, Accounted
  <2> QED
    BY <1>2, <1>3, <1>4, <2>1, <2>2 DEF ItemsSeen
<1> QED
  BY <1>3, <1>4, <1>5, <1>6, <1>7, <1>8 DEF WorkInv

LEMMA FlowsStep ==
  ASSUME WorkInv, [FlowsNext]_workflowVars PROVE WorkInv'
<1>1. CASE NoFlow /\ AggregatesNext /\ UNCHANGED flowVars
  BY <1>1, AggregatesInFlows
<1>2. ASSUME report = "none", NEW w \in Flows, StartFlow(w) PROVE WorkInv'
  BY <1>2, StartFlowKeeps
<1>3. CASE ReadForFlow
  BY <1>3, ReadForFlowKeeps
<1>4. CASE report = "none" /\ DraftAll
  BY <1>4, DraftAllKeeps
<1>5. CASE report = "none" /\ PickItems
  BY <1>5, PickItemsKeeps
<1>6. CASE DraftForItem
  <2>1. flow # "none"
    BY <1>6 DEF DraftForItem, WorkInv, NoFlow
  <2> QED
    BY <1>6, <2>1, DraftForItemKeeps
<1>7. CASE ItemsDone
  <2>1. flow # "none"
    BY <1>7 DEF ItemsDone, WorkInv, NoFlow
  <2> QED
    BY <1>7, <2>1, ItemsDoneKeeps
<1>8. ASSUME NEW i \in Ids(Rows) \cup Owners(Rows), LookInto(i) PROVE WorkInv'
  <2>1. flow # "none"
    BY <1>8 DEF LookInto, WorkInv, NoFlow
  <2> QED
    BY <1>8, <2>1, LookIntoKeeps
<1>9. ASSUME NEW r \in Touched, flow # "none", FlowMove(r) PROVE WorkInv'
  BY <1>9, FlowMoveKeeps
<1>10. CASE UNCHANGED workflowVars
  <2>1. UNCHANGED <<world, steady, moves, pending, got, full, truncated, errors, report, client,
                    flow, granted, goodwill, todo, item, drafted, skipped, phase>>
    BY <1>10 DEF workflowVars, worldVars, readVars, callVars, flowVars
  <2>2. AggregateInv => AggregateInv'
    <3>1. UNCHANGED aggregateVars
      BY <2>1 DEF aggregateVars, worldVars, readVars, callVars
    <3> QED
      BY <3>1, AggregatesStep
  <2>3. WorldInv' = WorldInv /\ ReadsShape' = ReadsShape /\ NoFlow' = NoFlow
    BY <2>1 DEF WorldInv, ReadsShape, Grouped, NoFlow
  <2>4. FlowShape' = FlowShape
    <3>1. \A q : Fulfilled(q)' = Fulfilled(q)
      BY <2>1 DEF Fulfilled, Expected, Explained
    <3>2. ItemRead(item)' = ItemRead(item) /\ AllIn(FirstReads(flow))' = AllIn(FirstReads(flow))
      BY <2>1 DEF ItemRead
    <3>3. Fulfilled(ItemRead(item))' = Fulfilled(ItemRead(item))
      BY <2>1 DEF Fulfilled, Expected, Explained, ItemRead
    <3> QED
      BY <2>1, <3>1, <3>2, <3>3 DEF FlowShape
  <2>5. RenewalReads' = RenewalReads
    BY <2>1 DEF RenewalReads
  <2>6. ItemsSeen' = ItemsSeen
    BY <2>1 DEF ItemsSeen, SuspendedAll, TicketSeen, Accounted, Steadily
  <2>7. DraftsMade' = DraftsMade
    BY <2>1 DEF DraftsMade, Accounted, Discrepancies, Duplicates
  <2> QED
    BY <2>1, <2>2, <2>3, <2>4, <2>5, <2>6, <2>7 DEF WorkInv
<1> QED
  BY <1>1, <1>2, <1>3, <1>4, <1>5, <1>6, <1>7, <1>8, <1>9, <1>10 DEF FlowsNext

LEMMA FlowsEnd == ASSUME WorkInv PROVE MatchesAccounted /\ AbsenceExplained
<1>1. AbsenceExplained
  <2>1. CASE flow = "none"
    BY <2>1, AggregatesEnd DEF WorkInv
  <2>2. CASE flow # "none"
    BY <2>2 DEF WorkInv, FlowShape, AbsenceExplained, Done
  <2> QED
    BY <2>1, <2>2
<1>2. MatchesAccounted
  <2> SUFFICES ASSUME phase = "done" PROVE MatchesAccounted
    BY DEF MatchesAccounted
  <2>1. flow # "none"
    BY DEF WorkInv, NoFlow
  <2>2. FlowShape /\ ItemsSeen /\ DraftsMade /\ steady \subseteq Rows
    BY <2>1 DEF WorkInv, WorldInv
  <2>3. item = "none" /\ todo = {} /\ pending = <<>> /\ flow \in Flows
    BY <2>2 DEF FlowShape
  <2>4. \A section, states, keep :
          /\ FlowQuery(section, states, keep) \in AllIn(FirstReads(flow))
          /\ section \notin errors \cup full
          => \A r \in Steadily(section, states \cap keep) : r \in got[section]
    <3> SUFFICES ASSUME NEW section, NEW states, NEW keep,
                        FlowQuery(section, states, keep) \in AllIn(FirstReads(flow)),
                        section \notin errors \cup full
                 PROVE  \A r \in Steadily(section, states \cap keep) : r \in got[section]
      OBVIOUS
    <3>1. Fulfilled(FlowQuery(section, states, keep))
      BY <2>2 DEF FlowShape
    <3> QED
      BY <2>2, <2>3, <3>1, ReadOrExcused DEF Steadily
  <2>5. \A section, states, keep :
          Steadily(section, states) \subseteq Steadily(section, states \cap AnyState)
    BY <2>2 DEF Steadily, AnyState
  <2>6. CASE flow = "dunning_sweep"
    <3> SUFFICES ASSUME NEW r \in Steadily("invoices", Open), "invoices" \notin errors \cup full
                 PROVE  \/ Accounted("client_note:write", r.who)
                        \/ Cardinality(Owners(got["invoices"])) >= Limit
      BY <2>6 DEF MatchesAccounted, Excused
    <3>1. FlowQuery("invoices", {"unpaid"}, AnyState) \in AllIn(FirstReads(flow))
          /\ FlowQuery("invoices", {"overdue"}, AnyState) \in AllIn(FirstReads(flow))
      BY <2>6, FlowQueries
    <3>2. r \in Steadily("invoices", {"unpaid"} \cap AnyState)
          \/ r \in Steadily("invoices", {"overdue"} \cap AnyState)
      BY <2>2 DEF Steadily, AnyState, Open
    <3>3. r \in got["invoices"]
      BY <2>4, <3>1, <3>2
    <3> QED
      BY <2>2, <2>6, <3>3 DEF DraftsMade, Owners
  <2>7. CASE flow = "renewal_risk_triage"
    <3> SUFFICES ASSUME NEW list \in {"services", "domains"}, NEW r \in Steadily(list, {"risk"}),
                        list \notin errors \cup full
                 PROVE  \/ Accounted("ticket:create", r.id)
                        \/ Cardinality({d \in drafted \cup skipped : d.scope = "ticket:create"})
                             >= Limit
      BY <2>7 DEF MatchesAccounted, Excused
    <3>1. FlowQuery("services", AnyState, {"due", "risk"}) \in AllIn(FirstReads(flow))
          /\ FlowQuery("domains", AnyState, {"soon", "risk"}) \in AllIn(FirstReads(flow))
      BY <2>7, FlowQueries
    <3>2. r \in Steadily(list, AnyState \cap {"due", "risk"})
          /\ r \in Steadily(list, AnyState \cap {"soon", "risk"}) /\ r.state = "risk"
      BY <2>2 DEF Steadily, AnyState
    <3>3. r \in got["services"] \cup got["domains"]
      BY <2>4, <3>1, <3>2
    <3> QED
      BY <2>2, <2>7, <3>2, <3>3 DEF DraftsMade
  <2>8. CASE flow = "ticket_triage_to_resolution"
    <3> SUFFICES ASSUME NEW r \in Steadily("tickets", {"open"}), "tickets" \notin errors \cup full
                 PROVE  \/ Accounted("ticket:note", r.id) /\ Accounted("ticket:status", r.id)
                        \/ Cardinality(got["tickets"]) >= Limit
      BY <2>8 DEF MatchesAccounted, Excused
    <3>1. FlowQuery("tickets", {"open"}, AnyState) \in AllIn(FirstReads(flow))
      BY <2>8, FlowQueries
    <3>2. r \in got["tickets"]
      BY <2>4, <2>5, <3>1
    <3>3. r.id \in Ids(got["tickets"])
      BY <3>2 DEF Ids
    <3>4. r.id # "none"
      BY <2>2, NoneIsNoItem DEF Steadily, Ids
    <3> QED
      BY <2>2, <2>3, <2>8, <3>3, <3>4 DEF ItemsSeen, TicketSeen
  <2>9. CASE flow = "month_end_close"
    <3> SUFFICES ASSUME NEW r \in Steadily("invoices", Open),
                        NEW t \in Steadily("transactions", {"in"}), t.of = r.id,
                        "invoices" \notin errors \cup full, "transactions" \notin errors \cup full
                 PROVE  \/ Accounted("client_note:write", r.id)
                        \/ Cardinality(Discrepancies) >= Limit
      BY <2>9 DEF MatchesAccounted, Excused
    <3>1. FlowQuery("invoices", AnyState, AnyState) \in AllIn(FirstReads(flow))
          /\ FlowQuery("transactions", AnyState, AnyState) \in AllIn(FirstReads(flow))
      BY <2>9, FlowQueries
    <3>2. r \in Steadily("invoices", AnyState \cap AnyState)
          /\ t \in Steadily("transactions", AnyState \cap AnyState)
      BY <2>2 DEF Steadily, AnyState
    <3>3. r \in got["invoices"] /\ t \in got["transactions"]
      BY <2>4, <3>1, <3>2
    <3>4. r \in UnpaidThoughPaid(got["transactions"], got["invoices"])
      BY <3>3 DEF UnpaidThoughPaid, Steadily
    <3> QED
      BY <2>2, <2>9, <3>4 DEF DraftsMade, Ids
  <2>10. CASE flow = "suspend_for_nonpayment"
    <3> SUFFICES ASSUME NEW r \in Steadily("invoices", {"unpaid"}),
                        NEW s \in Steadily("services", AnyState), s.who = r.who,
                        "invoices" \notin errors \cup full, r.who \notin errors \cup full
                 PROVE  \/ Accounted("service:suspend", s.id)
                        \/ Cardinality(Owners(got["invoices"])) >= Limit
      BY <2>10 DEF MatchesAccounted, Excused
    <3>1. FlowQuery("invoices", {"unpaid"}, AnyState) \in AllIn(FirstReads(flow))
      BY <2>10, FlowQueries
    <3>2. r \in got["invoices"]
      BY <2>4, <2>5, <3>1
    <3>3. r.who \in Owners(got["invoices"])
      BY <3>2 DEF Owners
    <3>4. r.who # "none"
      BY <2>2, NoneIsNoItem DEF Steadily, Owners
    <3> QED
      BY <2>2, <2>3, <2>10, <3>3, <3>4 DEF ItemsSeen, SuspendedAll
  <2>11. CASE flow = "new_client_onboarding"
    BY <2>2, <2>11 DEF MatchesAccounted, DraftsMade
  <2> QED
    BY <2>3, <2>6, <2>7, <2>8, <2>9, <2>10, <2>11 DEF Flows
<1> QED
  BY <1>1, <1>2

(* A workflow's answer accounts for every row that was there, unchanged,   *)
(* for the whole call and calls for a draft (src/tools/workflows.ts), for  *)
(* whatever WHMCS holds, others change and the limits are.                 *)
THEOREM MatchesAreAccounted == FlowsSpec => []MatchesAccounted
<1>1. FlowsInit => WorkInv
  BY FlowsStart
<1>2. WorkInv /\ [FlowsNext]_workflowVars => WorkInv'
  BY FlowsStep
<1>3. WorkInv => MatchesAccounted
  BY FlowsEnd
<1> QED
  BY <1>1, <1>2, <1>3, PTL DEF FlowsSpec
-----------------------------------------------------------------------------
(* Whom a job is about.                                                    *)

(* WHMCS holds one client per address and one row per client, and a search *)
(* finds an address or something like it.                                  *)
AddressesApart ==
  \A r, s \in ClientRows(world \cup JobRows) :
    /\ r.state \in {"mail", "alike"}
    /\ r.who = s.who \/ (r.state = "mail" /\ s.state = "mail") => r.id = s.id

PrincipalInv ==
  /\ WorldInv /\ AddressesApart
  /\ standing = "idle" => lookup = "none" /\ subject = "none"
  /\ lookup # "none" => subject = "none"
  /\ standing # "idle" => ClientRows(world) \subseteq known
  /\ PrincipalBacked

LEMMA SequenceOfSet ==
  ASSUME NEW S, IsFiniteSet(S)
  PROVE  /\ SetToSeq(S) \in [1..Cardinality(S) -> S]
         /\ Cardinality(S) \in Nat /\ Len(SetToSeq(S)) = Cardinality(S)
<1>1. Cardinality(S) \in Nat /\ ExistsBijection(1..Cardinality(S), S)
  BY FS_CardinalityType
<1>2. \E f \in [1..Cardinality(S) -> S] : IsInjective(f)
  BY <1>1 DEF ExistsBijection, Bijection, Injection
<1>3. SetToSeq(S) \in [1..Cardinality(S) -> S]
  BY <1>2 DEF SetToSeq
<1> HIDE DEF SetToSeq
<1>4. SetToSeq(S) \in Seq(S) /\ DOMAIN SetToSeq(S) = 1..Cardinality(S)
  BY <1>1, <1>3
<1> QED
  BY <1>1, <1>3, <1>4

LEMMA TakenPrincipal ==
  ASSUME NEW named, NEW from, TakePrincipal(named, from)
  PROVE  /\ origin' = from /\ lookup' = "none" /\ standing' # "idle"
         /\ subject' = subject \/ subject' \in Chosen(named)
  BY DEF TakePrincipal

(* The page that a search answers, and the clients in it.                  *)
LEMMA SearchedPage ==
  ASSUME PrincipalInv, Page > 1,
         NEW page \in Pages(CHOOSE q \in Read("clients", "clients", {"mail", "alike"}) : TRUE)
  PROVE  LET people == {r.who : r \in page}
         IN /\ page \subseteq ClientRows(world) /\ IsFiniteSet(people)
            /\ \A c : people = {c} => page = ClientRows(world)
<1> DEFINE q == Query("clients", "clients", {"mail", "alike"}, AnyState, FALSE)
           rows == Matching(q)
           people == {r.who : r \in page}
<1>1. page \in Pages(q)
  BY DEF Read
<1>2. rows = ClientRows(world)
  BY DEF Matching, Query, ClientRows, PrincipalInv, AddressesApart
<1> HIDE DEF q
<1>3. page = rows \/ (page \subseteq rows /\ Cardinality(page) = Page)
  BY <1>1 DEF Pages, kSubset
<1>4. IsFiniteSet(page)
  <2>1. page \subseteq world /\ IsFiniteSet(world)
    BY <1>2, <1>3 DEF ClientRows, PrincipalInv, WorldInv
  <2> QED
    BY <2>1, FS_Subset
<1>5. IsFiniteSet(people)
  <2> DEFINE f == [r \in page |-> r.who]
  <2>1. f \in Surjection(page, people)
    BY DEF Surjection
  <2> HIDE DEF f, people
  <2> QED
    BY <1>4, <2>1, FS_Surjection
<1>6. ASSUME NEW c, people = {c}, page # rows
      PROVE  FALSE
  <2>1. PICK r \in page : r.who = c
    BY <1>6
  <2>2. \A s \in page : s = r
    <3> TAKE s \in page
    <3>1. s.who = c
      BY <1>6
    <3>2. r \in ClientRows(world) /\ s \in ClientRows(world)
      BY <1>2, <1>3
    <3> QED
      BY <2>1, <3>1, <3>2 DEF PrincipalInv, AddressesApart, WorldInv, ClientRows
  <2>3. page = {r}
    BY <2>2
  <2>4. Cardinality(page) = 1
    BY <2>3, FS_Singleton
  <2> QED
    BY <1>3, <1>6, <2>4
<1> HIDE DEF rows
<1> QED
  BY <1>2, <1>3, <1>5, <1>6

LEMMA LookUpKept ==
  ASSUME PrincipalInv, Page > 1, LookUp
  PROVE  PrincipalInv'
<1>1. UNCHANGED <<world, steady, request, known>>
  BY DEF LookUp, worldVars
<1>2. lookup # "none" /\ subject = "none" /\ standing # "idle" /\ ClientRows(world) \subseteq known
  BY DEF LookUp, DetailsAnswer, DetailsFail, SearchAnswer, SearchFail, PrincipalInv
<1>3. AddressesApart' /\ WorldInv' /\ ClientRows(world') \subseteq known'
  BY <1>1, <1>2 DEF PrincipalInv, AddressesApart, WorldInv, ClientRows
<1>4. steady \subseteq world /\ AddressesApart /\ WorldInv
  BY DEF PrincipalInv, WorldInv
<1>5. CASE DetailsFail \/ SearchFail
  <2>1. standing' # "idle" /\ subject' = subject
    BY <1>2, <1>5 DEF DetailsFail, SearchFail
  <2> QED
    BY <1>2, <1>3, <2>1 DEF PrincipalInv, PrincipalBacked, ByAddressAlone
<1>6. CASE DetailsAnswer
  <2>1. PICK r \in ClientRows(world) :
          /\ IF request.email THEN r.state = "mail" ELSE r.who = request.clientid
          /\ TakePrincipal(Links(r), "details")
    BY <1>6 DEF DetailsAnswer
  <2> DEFINE named == Links(r)
  <2>2. /\ origin' = "details" /\ lookup' = "none" /\ standing' # "idle"
        /\ subject' = subject \/ subject' \in Chosen(named)
    BY <2>1, TakenPrincipal
  <2>3. named \in Seq(Range(named))
    <3>1. CASE r.of \in DOMAIN Users
      BY <3>1, UsersAreLists DEF Links
    <3>2. CASE r.of \notin DOMAIN Users
      <4>1. named = <<r.who>>
        BY <3>2 DEF Links
      <4>2. r.who \in Range(named)
        BY <4>1 DEF Range
      <4> HIDE DEF named
      <4> QED
        BY <4>1, <4>2
    <3> QED
      BY <3>1, <3>2
  <2>4. ASSUME subject' # subject
        PROVE  /\ subject' \in Range(named)
               /\ request.clientid = "none" => Range(named) = {subject'}
    <3>1. subject' \in Chosen(named)
      BY <2>2, <2>4
    <3> HIDE DEF named
    <3>2. Len(named) = 1 => Range(named) = {Head(named)}
      BY <2>3 DEF Range
    <3> QED
      BY <3>1, <3>2 DEF Chosen
  <2>5. ASSUME request.email, NEW s \in ClientRows(steady), s.state = "mail"
        PROVE  s = r
    <3>1. r \in ClientRows(world) /\ s \in ClientRows(world) /\ r.state = "mail"
      BY <1>4, <2>1, <2>5 DEF ClientRows
    <3> QED
      BY <1>4, <2>5, <3>1 DEF AddressesApart, WorldInv, ClientRows
  <2>6. PrincipalBacked'
    <3>1. ASSUME subject' # "none", request.email
          PROVE  \E s \in known : s.state = "mail" /\ subject' \in Range(Links(s))
      BY <1>2, <2>1, <2>4, <3>1
    <3>2. ASSUME subject' # "none", request.email, request.clientid = "none",
                 NEW s \in ClientRows(steady), s.state = "mail"
          PROVE  Range(Links(s)) = {subject'}
      BY <1>2, <2>4, <2>5, <3>2
    <3> QED
      BY <1>1, <2>2, <3>1, <3>2 DEF PrincipalBacked, ByAddressAlone, ClientRows, Links
  <2> QED
    BY <1>3, <2>2, <2>6 DEF PrincipalInv
<1>7. CASE SearchAnswer
  <2>1. PICK page \in Pages(CHOOSE q \in Read("clients", "clients", {"mail", "alike"}) : TRUE) :
          TakePrincipal(SetToSeq({r.who : r \in page}), "search")
    BY <1>7 DEF SearchAnswer
  <2> DEFINE people == {r.who : r \in page}
             named == SetToSeq(people)
  <2>2. /\ origin' = "search" /\ lookup' = "none" /\ standing' # "idle"
        /\ subject' = subject \/ subject' \in Chosen(named)
    BY <2>1, TakenPrincipal
  <2>3. /\ page \subseteq ClientRows(world) /\ IsFiniteSet(people)
        /\ \A c : people = {c} => page = ClientRows(world)
    BY SearchedPage
  <2>4. ASSUME subject' # subject
        PROVE  /\ subject' \in people
               /\ request.clientid = "none" => people = {subject'}
    <3>1. subject' \in Chosen(named)
      BY <2>2, <2>4
    <3> HIDE DEF people
    <3>2. /\ named \in [1..Cardinality(people) -> people] /\ Cardinality(people) \in Nat
          /\ Len(named) = Cardinality(people)
      BY <2>3, SequenceOfSet
    <3> HIDE DEF named
    <3>3. Range(named) \subseteq people
      BY <3>2 DEF Range
    <3>4. Len(named) = 1 => Head(named) \in people /\ \E c : people = {c}
      <4>1. Len(named) = 1 => Head(named) = named[1] /\ named[1] \in people
        BY <3>2
      <4>2. Len(named) = 1 => \E c : people = {c}
        BY <2>3, <3>2, FS_Singleton
      <4> QED
        BY <4>1, <4>2
    <3> QED
      BY <3>1, <3>3, <3>4 DEF Chosen
  <2>5. PrincipalBacked'
    <3>1. ASSUME subject' # "none"
          PROVE  \E s \in known : subject' = s.who
      <4>1. subject' \in people
        BY <1>2, <2>4, <3>1
      <4>2. PICK r \in page : subject' = r.who
        BY <4>1
      <4> QED
        BY <1>2, <2>3, <4>2
    <3>2. ASSUME subject' # "none", request.clientid = "none", NEW s \in ClientRows(steady)
          PROVE  s.who = subject'
      <4>1. people = {subject'}
        BY <1>2, <2>4, <3>2
      <4>2. s \in page
        BY <1>4, <2>3, <3>2, <4>1 DEF ClientRows
      <4> QED
        BY <4>1, <4>2
    <3> QED
      BY <1>1, <2>2, <3>1, <3>2 DEF PrincipalBacked, ByAddressAlone, ClientRows
  <2> QED
    BY <1>3, <2>2, <2>5 DEF PrincipalInv
<1> QED
  BY <1>5, <1>6, <1>7 DEF LookUp

LEMMA ChangesKept ==
  ASSUME PrincipalInv, NEW r \in JobRows, Changes(r)
  PROVE  PrincipalInv'
<1> DEFINE rest == {s \in world : s.id # r.id}
<1>1. /\ standing # "idle" /\ world' \in {rest, rest \cup {r}} /\ steady' = steady \cap world'
      /\ known' = known \cup ClientRows(world')
      /\ UNCHANGED <<request, standing, lookup, origin, subject>>
  BY DEF Changes, Others, principalVars
<1>2. AddressesApart'
  <2>1. world' \cup JobRows \subseteq world \cup JobRows
    BY <1>1
  <2>2. ClientRows(world' \cup JobRows) \subseteq ClientRows(world \cup JobRows)
    BY <2>1 DEF ClientRows
  <2> QED
    BY <2>2 DEF PrincipalInv, AddressesApart, ClientRows
<1>3. PrincipalBacked'
  <2>1. ClientRows(steady') \subseteq ClientRows(steady) /\ known \subseteq known'
    BY <1>1 DEF ClientRows
  <2>2. PrincipalBacked
    BY DEF PrincipalInv
  <2> QED
    BY <1>1, <2>1, <2>2 DEF PrincipalBacked, ByAddressAlone, ClientRows, Links
<1>4. WorldInv'
  BY JobsAssumption, OthersKeepFulfilled DEF Changes, PrincipalInv, JobsAssumption
<1> QED
  BY <1>1, <1>2, <1>3, <1>4 DEF PrincipalInv, ClientRows

LEMMA PrincipalKept ==
  ASSUME PrincipalInv, Page > 1, [StaffNext]_staffVars
  PROVE  PrincipalInv'
<1>1. CASE AskOps(request)
  <2>1. /\ standing = "idle" /\ subject = "none" /\ UNCHANGED <<world, subject, request>>
        /\ steady' = world /\ known' = ClientRows(world)
        /\ standing' = Verdict(request)
    BY <1>1 DEF AskOps, Begin, PrincipalInv
  <2>2. Verdict(request) # "idle"
    BY DEF Verdict
  <2> QED
    BY <2>1, <2>2
    DEF PrincipalInv, PrincipalBacked, ByAddressAlone, AddressesApart, WorldInv, ClientRows
<1>2. CASE JobReads \/ UNCHANGED staffVars
  <2>1. UNCHANGED <<world, steady, request, standing, lookup, origin, subject, known>>
    BY <1>2 DEF JobReads, staffVars, worldVars, jobVars, principalVars
  <2> QED
    BY <2>1
    DEF PrincipalInv, PrincipalBacked, ByAddressAlone, AddressesApart, WorldInv, ClientRows, Links
<1> QED
  BY <1>1, <1>2, LookUpKept, ChangesKept DEF StaffNext

(* PrincipalIsBacked: where addresses and rows of clients are unique       *)
(* and a search answers more than one row, a job of ops_ask for an address *)
(* is about a client that the address led to, alone if no id was given, in *)
(* whatever order lookups fail and others edit (identity/resolvePrincipal). *)
THEOREM PrincipalIsBacked == Page > 1 /\ AddressesApart /\ StaffSpec => []PrincipalBacked
<1> SUFFICES ASSUME Page > 1
             PROVE  AddressesApart /\ StaffSpec => []PrincipalBacked
  OBVIOUS
<1>1. AddressesApart /\ StaffInit => PrincipalInv
  <2>1. StaffInit => WorldInv
    BY SectionAssumption DEF StaffInit, ReadsInit, WorldInv, SectionAssumption
  <2> QED
    BY <2>1 DEF StaffInit, ReadsInit, JobsStart, PrincipalInv, PrincipalBacked, ByAddressAlone
<1>2. PrincipalInv /\ [StaffNext]_staffVars => PrincipalInv'
  BY PrincipalKept
<1>3. PrincipalInv => PrincipalBacked
  BY DEF PrincipalInv
<1> QED
  BY <1>1, <1>2, <1>3, PTL DEF StaffSpec
-----------------------------------------------------------------------------
(* What a job of ops_ask answers.                                          *)

JobQueries ==
  AllIn(IF subject = "none" THEN GlobalReads(request.job)
        ELSE OfClient(ClientReads(request.job), subject))

(* GetClientsDetails of the client that the job is about.                  *)
StatsQuery(c) == [Query("client", "clients", AnyState, AnyState, FALSE) EXCEPT !.who = c]

(* The counts say what stood all the time.                                 *)
CountsTrue ==
  \A r \in steady : r.who = subject =>
    /\ r.list = "invoices" /\ r.state = "overdue" => counted.overdue
    /\ r.list = "invoices" /\ r.state = "unpaid" => counted.unpaid
    /\ r.list = "tickets" => counted.tickets

(* Every query of the job that runs is still to be read, answered or       *)
(* explained, and so are the counts of its client.                         *)
JobInv ==
  /\ WorldInv /\ ReadsShape
  /\ request \in JobCalls
  /\ standing = "idle" => lookup = "none"
  /\ standing \in {"idle", "resolving"} => subject = "none"
  /\ lookup # "none" => standing = "resolving"
  /\ standing = "resolving" => request.job \in ClientJobs
  /\ standing = "running" =>
       /\ (subject = "none") = (request.job \notin ClientJobs)
       /\ AllIn(pending) \subseteq JobQueries
       /\ \A q \in JobQueries : q.section \in DOMAIN got /\ Fulfilled(q)
       /\ subject # "none" =>
            StatsQuery(subject) \in AllIn(pending) \/ "client" \in errors \/ CountsTrue

LEMMA ReadIsOne ==
  /\ \A section, list, states : OneSection(Read(section, list, states))
  /\ OneSection(Details) /\ OneSection(Overdue)
  /\ \A section : OneSection(Unpaid(section)) /\ OneSection(Awaiting(section))
  BY DEF OneSection, Read, Query, Details, Overdue, Unpaid, Awaiting

LEMMA GlobalWell ==
  ASSUME NEW job \in (StaffJobs \cup {"credit_notes"}) \ ClientJobs
  PROVE  Grouped(GlobalReads(job))
  BY ReadIsOne, ListOfGroups DEF GlobalReads, StaffJobs, ClientJobs

(* The first read of a job about a client is that of its details, and no   *)
(* other one of its reads is of that section.                              *)
LEMMA ClientWell ==
  ASSUME NEW job \in ClientJobs, NEW c
  PROVE  /\ Grouped(OfClient(ClientReads(job), c))
         /\ StatsQuery(c) \in AllIn(OfClient(ClientReads(job), c))
         /\ \A q \in AllIn(OfClient(ClientReads(job), c)) :
              q.section = "client" => q = StatsQuery(c)
<1> DEFINE groups == ClientReads(job)
           more == OfClient(groups, c)
<1>1. Grouped(groups)
  BY ReadIsOne, ListOfGroups DEF ClientReads, ClientJobs
<1>2. groups[1] = Details /\ 1 \in DOMAIN groups
  BY DEF ClientReads, ClientJobs
<1>3. \A i \in DOMAIN groups : i # 1 => \A q \in groups[i] : q.section # "client"
  BY DEF ClientReads, ClientJobs, Overdue, Unpaid, Awaiting, Read, Query
<1>4. more = [i \in DOMAIN groups |-> {[q EXCEPT !.who = c] : q \in groups[i]}]
  BY DEF OfClient
<1> HIDE DEF groups, more
<1> DEFINE to(q) == [q EXCEPT !.who = c]
<1>5. \A i \in DOMAIN groups : \A q \in groups[i] :
        /\ to(q).section = q.section
        /\ DOMAIN to(q) = {"section", "list", "who", "states", "keep", "flagged"}
  <2>1. \A i \in DOMAIN groups : \A q \in groups[i] :
          DOMAIN q = {"section", "list", "who", "states", "keep", "flagged"}
    BY <1>1 DEF Grouped, OneSection
  <2> QED
    BY <2>1
<1>6. to(Query("client", "clients", AnyState, AnyState, FALSE)) = StatsQuery(c)
  BY DEF StatsQuery
<1>7. /\ DOMAIN more = DOMAIN groups /\ \A i \in DOMAIN groups : more[i] = {to(q) : q \in groups[i]}
      /\ more = [i \in DOMAIN groups |-> more[i]]
  BY <1>4
<1> HIDE DEF to
<1>8. Grouped(more)
  <2>1. ASSUME NEW i \in DOMAIN groups
        PROVE  /\ \A q \in more[i] : \E p \in groups[i] :
                    /\ q.section = p.section
                    /\ DOMAIN q = {"section", "list", "who", "states", "keep", "flagged"}
               /\ \A p \in groups[i] : \E q \in more[i] : q.section = p.section
    <3>1. more[i] = {to(q) : q \in groups[i]}
      BY <1>7
    <3>2. \A q \in groups[i] :
            /\ to(q).section = q.section
            /\ DOMAIN to(q) = {"section", "list", "who", "states", "keep", "flagged"}
      BY <1>5
    <3> QED
      BY <3>1, <3>2
  <2>2. more = [i \in DOMAIN groups |-> more[i]]
    BY <1>7
  <2> QED
    BY <1>1, <2>1, <2>2, NarrowedGroups
<1>9. more[1] = {StatsQuery(c)}
  <2> DEFINE x == Query("client", "clients", AnyState, AnyState, FALSE)
  <2>1. groups[1] = {x}
    BY <1>2 DEF Details, Read
  <2>2. to(x) = StatsQuery(c)
    BY <1>6
  <2> HIDE DEF x
  <2>3. more[1] = {to(q) : q \in {x}}
    BY <1>2, <1>7, <2>1
  <2> QED
    BY <2>2, <2>3, Zenon
<1>10. StatsQuery(c) \in AllIn(more)
  BY <1>2, <1>7, <1>9 DEF AllIn, Range
<1>11. ASSUME NEW i \in DOMAIN more, NEW q \in more[i], q.section = "client"
       PROVE  q = StatsQuery(c)
  <2>1. i = 1
    BY <1>3, <1>5, <1>7, <1>11
  <2> QED
    BY <1>9, <2>1
<1>12. \A q \in AllIn(more) : q.section = "client" => q = StatsQuery(c)
  BY <1>11 DEF AllIn, Range
<1> QED
  BY <1>8, <1>10, <1>12 DEF groups, more

LEMMA JobsBegin == ASSUME StaffInit PROVE JobInv
<1>1. /\ world \in Worlds /\ steady = world /\ pending = <<>> /\ got = <<>>
      /\ standing = "idle" /\ lookup = "none" /\ subject = "none" /\ request \in JobCalls
  BY DEF StaffInit, ReadsInit, JobsStart
<1>2. WorldInv
  BY <1>1, SectionAssumption DEF WorldInv, SectionAssumption
<1>3. Grouped(pending) /\ AllIn(pending) = {}
  BY <1>1, ListOfGroups DEF AllIn, Range
<1>4. DOMAIN got = {} /\ got = [s \in DOMAIN got |-> got[s]]
  BY <1>1
<1> QED
  BY <1>1, <1>2, <1>3, <1>4 DEF JobInv, ReadsShape

LEMMA AskKeeps ==
  ASSUME JobInv, AskOps(request) PROVE JobInv'
<1> DEFINE runs == Verdict(request) = "running"
           groups == IF runs THEN GlobalReads(request.job) ELSE <<>>
<1>1. /\ standing = "idle" /\ request' = request /\ standing' = Verdict(request)
      /\ lookup' = (IF Verdict(request) = "resolving" THEN "details" ELSE "none")
      /\ Begin(groups) /\ subject' = subject
  BY DEF AskOps
<1>2. /\ WorldInv /\ request \in JobCalls /\ subject = "none"
  BY <1>1 DEF JobInv
<1>3. /\ Verdict(request) # "idle"
      /\ Verdict(request) = "resolving" => request.job \in ClientJobs
      /\ runs => request.job \in (StaffJobs \cup {"credit_notes"}) \ ClientJobs
  <2>1. request.permitted \in BOOLEAN
    BY <1>2, JobsAssumption DEF JobsAssumption
  <2>2. AllowedJob(request.job, "staff") => request.job \in StaffJobs \cup {"credit_notes"}
    BY DEF AllowedJob
  <2>3. Audience(request) \in {"staff", "customer"}
    BY DEF Audience
  <2> DEFINE allowed == AllowedJob(request.job, Audience(request))
  <2>4. Verdict(request) =
          CASE ~request.permitted -> "action_denied"
            [] request.permitted /\ ~allowed -> "job_denied"
            [] request.permitted /\ allowed ->
                 IF Audience(request) = "customer" THEN "link_required"
                 ELSE IF request.job \notin ClientJobs THEN "running"
                 ELSE IF request.email \/ request.clientid # "none" THEN "resolving"
                 ELSE "picker_required"
    BY DEF Verdict
  <2>5. Audience(request) # "customer" /\ allowed => request.job \in StaffJobs \cup {"credit_notes"}
    BY <2>2, <2>3
  <2> HIDE DEF allowed
  <2>6. CASE ~request.permitted
    BY <2>4, <2>6
  <2>7. CASE request.permitted /\ ~allowed
    BY <2>4, <2>7
  <2>8. CASE request.permitted /\ allowed
    <3>1. Verdict(request) =
            IF Audience(request) = "customer" THEN "link_required"
            ELSE IF request.job \notin ClientJobs THEN "running"
            ELSE IF request.email \/ request.clientid # "none" THEN "resolving"
            ELSE "picker_required"
      BY <2>4, <2>8
    <3> QED
      BY <2>5, <2>8, <3>1
  <2> QED
    BY <2>1, <2>6, <2>7, <2>8
<1>4. Grouped(groups)
  BY <1>3, GlobalWell, ListOfGroups
<1>5. /\ pending' = groups /\ world' = world /\ steady' = world
      /\ got' = [s \in {q.section : q \in UNION Range(groups)} |-> {}]
  BY <1>1 DEF Begin
<1>6. runs => groups = GlobalReads(request.job)
  OBVIOUS
<1> HIDE DEF groups
<1>7. /\ ReadsShape'
      /\ \A q \in AllIn(groups) : q.section \in DOMAIN got' /\ Fulfilled(q)'
  BY <1>4, <1>5, ReadsBegin
<1>8. WorldInv'
  BY <1>2, <1>5 DEF WorldInv
<1>9. runs => JobQueries' = AllIn(groups) /\ AllIn(pending') = AllIn(groups)
  BY <1>1, <1>2, <1>5, <1>6 DEF JobQueries
<1> QED
  BY <1>1, <1>2, <1>3, <1>7, <1>8, <1>9 DEF JobInv

(* Whoever is taken is a client, and is read about from the start.         *)
LEMMA TakeKeeps ==
  ASSUME JobInv, lookup # "none", NEW named, NEW from, TakePrincipal(named, from),
         "none" \notin Chosen(named), UNCHANGED <<world, steady, full, truncated, errors, request>>
  PROVE  JobInv'
<1>1. /\ WorldInv /\ ReadsShape /\ request \in JobCalls
      /\ standing = "resolving" /\ request.job \in ClientJobs /\ subject = "none"
  BY DEF JobInv
<1>2. WorldInv' /\ lookup' = "none"
  BY <1>1 DEF WorldInv, TakePrincipal
<1>3. CASE standing' = "picker_required" /\ UNCHANGED <<subject, pending, got>>
  <2>1. ReadsShape'
    BY <1>1, <1>3 DEF ReadsShape, Grouped
  <2> QED
    BY <1>1, <1>2, <1>3, <2>1 DEF JobInv
<1>4. ASSUME NEW c \in Chosen(named), standing' = "running", subject' = c,
             pending' = OfClient(ClientReads(request.job), c),
             got' = [s \in {q.section : q \in UNION Range(pending')} |-> {}]
      PROVE  JobInv'
  <2> DEFINE groups == OfClient(ClientReads(request.job), c)
  <2>1. Grouped(groups) /\ StatsQuery(c) \in AllIn(groups)
    BY <1>1, ClientWell
  <2>2. c # "none"
    BY <1>4
  <2>3. JobQueries' = AllIn(groups)
    BY <1>4, <2>2 DEF JobQueries
  <2>4. pending' = groups /\ got' = [s \in {q.section : q \in UNION Range(groups)} |-> {}]
    BY <1>4
  <2> HIDE DEF groups
  <2>5. /\ ReadsShape'
        /\ \A q \in AllIn(groups) : q.section \in DOMAIN got' /\ Fulfilled(q)'
    BY <2>1, <2>4, ReadsBegin
  <2>6. StatsQuery(subject') \in AllIn(pending')
    BY <1>4, <2>1, <2>4
  <2>7. StatsQuery(subject)' = StatsQuery(subject')
    BY DEF StatsQuery
  <2> QED
    BY <1>1, <1>2, <1>4, <2>2, <2>3, <2>4, <2>5, <2>6, <2>7 DEF JobInv
<1> QED
  BY <1>3, <1>4 DEF TakePrincipal

LEMMA LookUpKeeps == ASSUME JobInv, LookUp PROVE JobInv'
<1>1. /\ UNCHANGED <<world, steady, full, truncated, errors, request>>
      /\ DetailsAnswer \/ DetailsFail \/ SearchAnswer \/ SearchFail
  BY DEF LookUp, worldVars
<1>2. lookup # "none"
  BY <1>1 DEF DetailsAnswer, DetailsFail, SearchAnswer, SearchFail
<1>3. /\ WorldInv /\ ReadsShape /\ request \in JobCalls /\ standing = "resolving"
      /\ request.job \in ClientJobs /\ subject = "none"
  BY <1>2 DEF JobInv
<1>4. CASE DetailsFail \/ SearchFail
  <2>1. /\ UNCHANGED <<subject, pending, got>>
        /\ standing' \in {"resolving", "error"}
        /\ lookup' # "none" => standing' = "resolving"
    BY <1>3, <1>4 DEF DetailsFail, SearchFail
  <2>2. WorldInv' /\ ReadsShape'
    BY <1>1, <1>3, <2>1 DEF WorldInv, ReadsShape, Grouped
  <2> QED
    BY <1>1, <1>3, <2>1, <2>2 DEF JobInv
<1>5. CASE DetailsAnswer
  <2>1. PICK r \in ClientRows(world) : TakePrincipal(Links(r), "details")
    BY <1>5 DEF DetailsAnswer
  <2> DEFINE named == Links(r)
  <2>2. named \in Seq(Range(named)) /\ "none" \notin Range(named)
    <3>1. CASE r.of \in DOMAIN Users
      BY <3>1, UsersAreLists DEF Links
    <3>2. CASE r.of \notin DOMAIN Users
      <4>1. named = <<r.who>>
        BY <3>2 DEF Links
      <4>2. r.who # "none"
        BY <1>3, JobsAssumption DEF ClientRows, WorldInv, JobsAssumption
      <4>3. Range(named) = {r.who}
        BY <4>1 DEF Range
      <4> HIDE DEF named
      <4> QED
        BY <4>1, <4>2, <4>3
    <3> QED
      BY <3>1, <3>2
  <2> HIDE DEF named
  <2>3. named # <<>> => Head(named) \in Range(named)
    BY <2>2 DEF Range
  <2>4. "none" \notin Chosen(named)
    BY <2>2, <2>3 DEF Chosen
  <2> QED
    BY <1>1, <1>2, <2>1, <2>4, TakeKeeps DEF named
<1>6. CASE SearchAnswer
  <2>1. PICK page \in Pages(CHOOSE q \in Read("clients", "clients", {"mail", "alike"}) : TRUE) :
          TakePrincipal(SetToSeq({r.who : r \in page}), "search")
    BY <1>6 DEF SearchAnswer
  <2> DEFINE q == Query("clients", "clients", {"mail", "alike"}, AnyState, FALSE)
             people == {r.who : r \in page}
             named == SetToSeq(people)
  <2>2. page \subseteq ClientRows(world) /\ IsFiniteSet(page)
    <3>1. page \in Pages(q)
      BY <2>1 DEF Read
    <3>2. Matching(q) \subseteq ClientRows(world)
      BY DEF Matching, Query, ClientRows
    <3> HIDE DEF q
    <3> QED
      BY <1>3, <3>1, <3>2, FiniteReads
  <2>3. "none" \notin people
    BY <1>3, <2>2, JobsAssumption DEF ClientRows, WorldInv, JobsAssumption
  <2>4. IsFiniteSet(people)
    BY <2>2, FewerNames DEF Owners
  <2> HIDE DEF people
  <2>5. /\ named \in [1..Cardinality(people) -> people] /\ Cardinality(people) \in Nat
        /\ Len(named) = Cardinality(people)
    BY <2>4, SequenceOfSet
  <2> HIDE DEF named
  <2>6. Range(named) \subseteq people /\ (Len(named) = 1 => Head(named) \in people)
    <3>1. Len(named) = 1 => Head(named) = named[1] /\ named[1] \in people
      BY <2>5
    <3>2. Range(named) \subseteq people
      BY <2>5 DEF Range
    <3> QED
      BY <3>1, <3>2
  <2>7. "none" \notin Chosen(named)
    BY <2>3, <2>6 DEF Chosen
  <2> QED
    BY <1>1, <1>2, <2>1, <2>7, TakeKeeps DEF named, people
<1> QED
  BY <1>1, <1>4, <1>5, <1>6

(* What is awaited first is settled first.                                 *)
LEMMA SettleHead ==
  ASSUME ReadsShape, Settle
  PROVE  /\ Head(pending) # {} /\ OneSection(Head(pending))
         /\ Head(pending) \subseteq AllIn(pending)
         /\ AllIn(pending) \ Head(pending) \subseteq AllIn(pending')
<1>1. PICK U : pending \in Seq(SUBSET U)
  BY DEF ReadsShape, Grouped
<1> DEFINE rest == Tail(pending)
<1>2. PICK p \in Head(pending) :
        pending' \in {rest, <<Head(pending) \ {p}>> \o rest}
  BY DEF Settle
<1>3. pending # <<>>
  BY DEF Settle
<1>4. /\ Head(pending) = pending[1] /\ Head(pending) \in SUBSET U /\ 1 \in 1..Len(pending)
      /\ rest \in Seq(SUBSET U)
      /\ \A i \in 1..Len(rest) : i + 1 \in 1..Len(pending) /\ rest[i] = pending[i + 1]
  BY <1>1, <1>3
<1>5. AllIn(pending) = Head(pending) \cup AllIn(rest)
  BY <1>1, <1>3, GroupsSplit
<1>6. OneSection(Head(pending)) /\ \A i \in 1..Len(rest) : OneSection(rest[i])
  BY <1>4 DEF ReadsShape, Grouped
<1> HIDE DEF rest
<1> DEFINE left == Head(pending) \ {p}
<1>7. AllIn(Joined(left, rest)) = left \cup AllIn(rest)
  <2>1. OneSection(left)
    BY <1>6 DEF OneSection
  <2>2. Grouped(rest)
    BY <1>4, <1>6 DEF Grouped
  <2> HIDE DEF left
  <2> QED
    BY <2>1, <2>2, GroupsJoined
<1>8. AllIn(rest) \subseteq AllIn(pending')
  BY <1>2, <1>7 DEF Joined
<1> QED
  BY <1>2, <1>5, <1>6, <1>8

LEMMA JobReadsKeeps == ASSUME JobInv, JobReads PROVE JobInv'
<1>1. /\ standing = "running" /\ Settle /\ \A q \in Head(pending) : StatsRead(q)
      /\ UNCHANGED <<world, steady, request, standing, lookup, subject>>
  BY DEF JobReads, worldVars, principalVars
<1>2. /\ WorldInv /\ ReadsShape /\ request \in JobCalls
      /\ (subject = "none") = (request.job \notin ClientJobs)
      /\ AllIn(pending) \subseteq JobQueries /\ lookup = "none"
      /\ \A q \in JobQueries : q.section \in DOMAIN got /\ Fulfilled(q)
      /\ subject # "none" =>
           StatsQuery(subject) \in AllIn(pending) \/ "client" \in errors \/ CountsTrue
  BY <1>1 DEF JobInv
<1>3. /\ ReadsShape' /\ DOMAIN got' = DOMAIN got /\ errors \subseteq errors'
      /\ AllIn(pending') \subseteq AllIn(pending)
  BY <1>1, <1>2, ReadSettles
<1>4. WorldInv' /\ JobQueries' = JobQueries
  BY <1>1, <1>2 DEF WorldInv, JobQueries
<1>5. \A q \in JobQueries : q.section \in DOMAIN got' /\ Fulfilled(q)'
  BY <1>1, <1>2, <1>3, SettleKeepFulfilled
<1>6. /\ Head(pending) # {} /\ OneSection(Head(pending))
      /\ Head(pending) \subseteq AllIn(pending)
      /\ AllIn(pending) \ Head(pending) \subseteq AllIn(pending')
  BY <1>1, <1>2, SettleHead
<1>7. ASSUME subject # "none"
      PROVE  StatsQuery(subject) \in AllIn(pending') \/ "client" \in errors' \/ CountsTrue'
  <2> DEFINE d == StatsQuery(subject)
  <2>1. \A q \in Head(pending) : q.section = "client" => q = d
    BY <1>2, <1>6, <1>7, ClientWell DEF JobQueries
  <2>2. d.section = "client"
    BY DEF StatsQuery, Query
  <2> HIDE DEF d
  <2>3. CASE d \in Head(pending)
    <3>1. counted' = IF "client" \in errors' THEN NoCounts ELSE Counts(subject)
      BY <1>1, <2>2, <2>3 DEF StatsRead
    <3>2. CASE "client" \notin errors'
      <4>1. counted' = Counts(subject) /\ steady \subseteq world
        BY <1>2, <3>1, <3>2 DEF WorldInv
      <4>2. \A r \in steady : r.who = subject =>
              /\ r.list = "invoices" /\ r.state = "overdue" => counted'.overdue
              /\ r.list = "invoices" /\ r.state = "unpaid" => counted'.unpaid
              /\ r.list = "tickets" => counted'.tickets
        BY <4>1 DEF Counts, OpenInvoices
      <4> QED
        BY <1>1, <4>2 DEF CountsTrue
    <3> QED
      BY <3>2
  <2>4. CASE d \notin Head(pending)
    <3>1. counted' = counted
      BY <1>1, <1>6, <2>1, <2>4 DEF StatsRead
    <3>2. CountsTrue' = CountsTrue
      BY <1>1, <3>1 DEF CountsTrue
    <3> QED
      BY <1>2, <1>3, <1>6, <1>7, <2>4, <3>2 DEF d
  <2> QED
    BY <2>3, <2>4
<1>8. StatsQuery(subject)' = StatsQuery(subject)
  BY <1>1 DEF StatsQuery
<1> QED
  BY <1>1, <1>2, <1>3, <1>4, <1>5, <1>7, <1>8 DEF JobInv

LEMMA ChangesKeep == ASSUME JobInv, NEW r \in JobRows, Changes(r) PROVE JobInv'
<1>1. /\ r \in Rows /\ Others(r)
      /\ UNCHANGED <<request, standing, lookup, subject, counted>>
  BY JobsAssumption DEF Changes, principalVars, JobsAssumption
<1>2. WorldInv /\ ReadsShape
  BY DEF JobInv
<1>3. /\ WorldInv' /\ steady' \subseteq steady /\ ReadsShape'
      /\ UNCHANGED <<pending, got, full, truncated, errors>>
      /\ \A q : Fulfilled(q) => Fulfilled(q)'
  BY <1>1, <1>2, OthersKeepFulfilled DEF readVars
<1>4. JobQueries' = JobQueries /\ StatsQuery(subject)' = StatsQuery(subject)
  BY <1>1 DEF JobQueries, StatsQuery
<1>5. CountsTrue => CountsTrue'
  BY <1>1, <1>3 DEF CountsTrue
<1> QED
  BY <1>1, <1>3, <1>4, <1>5 DEF JobInv

LEMMA JobsStep == ASSUME JobInv, [StaffNext]_staffVars PROVE JobInv'
<1>1. CASE UNCHANGED staffVars
  <2>1. UNCHANGED <<world, steady, pending, got, full, truncated, errors, request, standing,
                    lookup, subject, counted>>
    BY <1>1 DEF staffVars, worldVars, readVars, jobVars, principalVars
  <2>2. WorldInv' = WorldInv /\ ReadsShape' = ReadsShape
    BY <2>1 DEF WorldInv, ReadsShape, Grouped
  <2>3. \A q : Fulfilled(q)' = Fulfilled(q)
    BY <2>1 DEF Fulfilled, Expected, Explained
  <2>4. JobQueries' = JobQueries /\ StatsQuery(subject)' = StatsQuery(subject)
        /\ CountsTrue' = CountsTrue
    BY <2>1 DEF JobQueries, StatsQuery, CountsTrue
  <2> QED
    BY <2>1, <2>2, <2>3, <2>4 DEF JobInv
<1> QED
  BY <1>1, AskKeeps, LookUpKeeps, JobReadsKeeps, ChangesKeep DEF StaffNext

LEMMA JobsEnd == ASSUME JobInv PROVE AnswerExplained
<1> SUFFICES ASSUME standing = "running", pending = <<>> PROVE AnswerExplained
  BY DEF AnswerExplained, JobDone
<1>1. AllIn(pending) = {}
  BY DEF AllIn, Range
<1>2. /\ (subject = "none") = (request.job \notin ClientJobs)
      /\ \A q \in JobQueries : Expected(q) \subseteq got[q.section] \/ Explained(q)
      /\ subject # "none" => "client" \in errors \/ CountsTrue
      /\ steady \subseteq Rows
  BY <1>1 DEF JobInv, Fulfilled, WorldInv
<1> DEFINE rows(list, states) ==
             \E r \in steady : r.list = list /\ r.who = subject /\ r.state \in states
<1>3. ASSUME request.job = "next_best_action"
      PROVE  /\ rows("invoices", {"overdue"}) =>
                  "collect_overdue" \in Advice \/ "client" \in errors
             /\ rows("invoices", {"unpaid"}) =>
                  Advice \cap {"collect_overdue", "follow_up_unpaid"} # {} \/ "client" \in errors
             /\ rows("tickets", AnyState) =>
                  "reply_open_tickets" \in Advice \/ "client" \in errors
             /\ rows("services", {"suspended"}) =>
                  "review_suspended_services" \in Advice
                    \/ {"services"} \cap (errors \cup full) # {}
  <2>1. subject # "none"
    BY <1>2, <1>3 DEF ClientJobs
  <2>2. "client" \in errors \/ CountsTrue
    BY <1>2, <2>1
  <2>3. /\ counted.overdue => "collect_overdue" \in Advice
        /\ counted.unpaid /\ ~counted.overdue => "follow_up_unpaid" \in Advice
        /\ counted.tickets => "reply_open_tickets" \in Advice
        /\ (\E s \in got["services"] : s.state = "suspended")
             => "review_suspended_services" \in Advice
    <3> DEFINE suspended == \E s \in got["services"] : s.state = "suspended"
               signals == {a \in {"collect_overdue", "follow_up_unpaid", "reply_open_tickets",
                                  "review_suspended_services"} :
                             CASE a = "collect_overdue" -> counted.overdue
                               [] a = "follow_up_unpaid" -> counted.unpaid /\ ~counted.overdue
                               [] a = "reply_open_tickets" -> counted.tickets
                               [] a = "review_suspended_services" -> suspended}
    <3>1. Advice = IF signals = {} THEN {"none"} ELSE signals
      BY DEF Advice
    <3> HIDE DEF suspended
    <3>2. /\ counted.overdue => "collect_overdue" \in signals
          /\ counted.unpaid /\ ~counted.overdue => "follow_up_unpaid" \in signals
          /\ counted.tickets => "reply_open_tickets" \in signals
          /\ suspended => "review_suspended_services" \in signals
      OBVIOUS
    <3> HIDE DEF signals
    <3>3. \A a : a \in signals => a \in Advice
      BY <3>1
    <3> QED
      BY <3>2, <3>3 DEF suspended
  <2>4. ASSUME CountsTrue
        PROVE  /\ rows("invoices", {"overdue"}) => "collect_overdue" \in Advice
               /\ rows("invoices", {"unpaid"})
                    => Advice \cap {"collect_overdue", "follow_up_unpaid"} # {}
               /\ rows("tickets", AnyState) => "reply_open_tickets" \in Advice
    <3>1. /\ rows("invoices", {"overdue"}) => counted.overdue
          /\ rows("invoices", {"unpaid"}) => counted.unpaid
          /\ rows("tickets", AnyState) => counted.tickets
      BY <2>4 DEF CountsTrue
    <3> DEFINE proposed(a) == a \in Advice
    <3>2. /\ counted.overdue => proposed("collect_overdue")
          /\ counted.unpaid /\ ~counted.overdue => proposed("follow_up_unpaid")
          /\ counted.tickets => proposed("reply_open_tickets")
      BY <2>3
    <3>3. proposed("collect_overdue") \/ proposed("follow_up_unpaid")
            => Advice \cap {"collect_overdue", "follow_up_unpaid"} # {}
      OBVIOUS
    <3>4. /\ rows("invoices", {"overdue"}) => proposed("collect_overdue")
          /\ rows("invoices", {"unpaid"})
               => Advice \cap {"collect_overdue", "follow_up_unpaid"} # {}
          /\ rows("tickets", AnyState) => proposed("reply_open_tickets")
      <4> HIDE DEF rows, proposed
      <4> QED
        BY <3>1, <3>2, <3>3, Zenon
    <3> QED
      BY <3>4
  <2>5. ASSUME rows("services", {"suspended"}), "services" \notin errors \cup full
        PROVE  "review_suspended_services" \in Advice
    <3> DEFINE q == [Query("services", "services", AnyState, AnyState, FALSE)
                       EXCEPT !.who = subject]
               groups == ClientReads("next_best_action")
    <3>1. /\ q.section = "services" /\ q.list = "services" /\ q.who = subject
          /\ q.states = AnyState /\ q.keep = AnyState /\ q.flagged = FALSE
      BY DEF Query
    <3>2. groups[2] = Read("services", "services", AnyState) /\ 2 \in DOMAIN groups
      BY DEF ClientReads
    <3>3. OfClient(groups, subject)
            = [i \in DOMAIN groups |-> {[x EXCEPT !.who = subject] : x \in groups[i]}]
      BY DEF OfClient
    <3> HIDE DEF groups
    <3>4. q \in OfClient(groups, subject)[2] /\ 2 \in DOMAIN OfClient(groups, subject)
      BY <3>2, <3>3 DEF Read
    <3>5. q \in JobQueries
      BY <1>3, <2>1, <3>4 DEF JobQueries, AllIn, Range, groups
    <3> HIDE DEF q
    <3>6. Expected(q) \subseteq got["services"]
      BY <1>2, <2>5, <3>1, <3>5 DEF Explained
    <3>7. \E s \in Expected(q) : s.state = "suspended"
      BY <1>2, <2>5, <3>1 DEF Expected, AnyState
    <3> QED
      BY <2>3, <3>6, <3>7
  <2> DEFINE suspends == "review_suspended_services" \in Advice
             lacking == {"services"} \cap (errors \cup full) # {}
  <2>6. rows("services", {"suspended"}) => suspends \/ lacking
    BY <2>5
  <2> HIDE DEF rows
  <2> QED
    BY <2>2, <2>4, <2>6
<1> HIDE DEF rows
<1>4. \A q \in UNION Range(IF subject = "none" THEN GlobalReads(request.job)
                           ELSE OfClient(ClientReads(request.job), subject)) :
        Expected(q) \subseteq got[q.section] \/ Explained(q)
  BY <1>2 DEF JobQueries, AllIn
<1> QED
  BY <1>3, <1>4 DEF AnswerExplained, rows

-----------------------------------------------------------------------------
(* The answers, beside the other tools.                                    *)

AnswersInv ==
  /\ part = "flows" => WorkInv
  /\ part = "jobs" => JobInv

(* AnswersExplained: what an aggregator, a workflow or a job of ops_ask    *)
(* leaves out is explained, whatever WHMCS holds, whichever reads fail or  *)
(* answer a full page and whatever others change between two of them       *)
(* (tools/aggregators.ts, tools/workflows.ts, jobs/opsAsk.ts).             *)
THEOREM AnswersAreExplained == ToolsSpec => []AnswersExplained
<1>1. ToolsInit => AnswersInv
  <2> SUFFICES ASSUME ToolsInit PROVE AnswersInv
    OBVIOUS
  <2>1. FlowsInit
    BY DEF ToolsInit
  <2>2. part = "jobs" => StaffInit
    BY <2>1 DEF ToolsInit, StartingCalls, StaffInit, FlowsInit, AggregatesInit
  <2> QED
    BY <2>1, <2>2, FlowsStart, JobsBegin DEF AnswersInv
<1>2. AnswersInv /\ [ToolsNext]_toolsVars => AnswersInv'
  <2> SUFFICES ASSUME AnswersInv, [ToolsNext]_toolsVars PROVE AnswersInv'
    OBVIOUS
  <2>1. CASE part = "flows" /\ FlowsNext /\ UNCHANGED part
    BY <2>1, FlowsStep DEF AnswersInv
  <2>2. CASE part = "jobs" /\ StaffNext /\ UNCHANGED part
    BY <2>2, JobsStep DEF AnswersInv
  <2>3. CASE UNCHANGED part /\ part \notin {"flows", "jobs"}
    BY <2>3 DEF AnswersInv
  <2>4. CASE UNCHANGED toolsVars
    <3>1. UNCHANGED part /\ UNCHANGED workflowVars /\ UNCHANGED jobVars
      BY <2>4 DEF toolsVars
    <3>2. UNCHANGED staffVars
      BY <3>1 DEF staffVars, workflowVars
    <3> QED
      BY <3>1, <3>2, FlowsStep, JobsStep DEF AnswersInv
  <2> QED
    BY <2>1, <2>2, <2>3, <2>4 DEF ToolsNext
<1>3. AnswersInv => AnswersExplained
  BY FlowsEnd, JobsEnd DEF AnswersInv, AnswersExplained
<1> QED
  BY <1>1, <1>2, <1>3, PTL DEF ToolsSpec

-----------------------------------------------------------------------------
(* The matching rows of a list, by their ranks.                            *)

(* How many of the first rows match.                                       *)
LEMMA FiniteMatching ==
  ASSUME NEW rows, NEW n \in Nat
  PROVE  IsFiniteSet({i \in 1..n : rows[i].fits})
<1>1. IsFiniteSet(1..n)
  BY FS_Interval
<1>2. {i \in 1..n : rows[i].fits} \in SUBSET (1..n)
  OBVIOUS
<1> QED
  BY <1>1, <1>2, FS_Subset

LEMMA RankType ==
  ASSUME NEW rows, NEW n \in Nat
  PROVE  Rank(rows, n) \in Nat /\ Rank(rows, n) <= n
<1>1. IsFiniteSet(1..n) /\ Cardinality(1..n) = n
  BY FS_Interval
<1>2. {i \in 1..n : rows[i].fits} \in SUBSET (1..n)
  OBVIOUS
<1>3. Cardinality({i \in 1..n : rows[i].fits}) <= n
  BY <1>1, <1>2, FS_Subset
<1>4. Cardinality({i \in 1..n : rows[i].fits}) \in Nat
  BY FiniteMatching, FS_CardinalityType
<1> QED
  BY <1>3, <1>4 DEF Rank

LEMMA RankZero == \A rows : Rank(rows, 0) = 0
<1>1. \A rows : {i \in 1..0 : rows[i].fits} = {}
  OBVIOUS
<1> QED
  BY <1>1, FS_EmptySet DEF Rank

LEMMA RankStep ==
  ASSUME NEW rows, NEW n \in Nat
  PROVE  /\ rows[n + 1].fits => Rank(rows, n + 1) = Rank(rows, n) + 1
         /\ ~rows[n + 1].fits => Rank(rows, n + 1) = Rank(rows, n)
<1> DEFINE S == {i \in 1..n : rows[i].fits}
           T == {i \in 1..(n + 1) : rows[i].fits}
<1>1. IsFiniteSet(S)
  BY FiniteMatching
<1>2. n + 1 \notin S
  OBVIOUS
<1>3. 1..(n + 1) = (1..n) \cup {n + 1}
  OBVIOUS
<1>4. ASSUME rows[n + 1].fits PROVE T = S \cup {n + 1}
  BY <1>3, <1>4
<1>5. ASSUME ~rows[n + 1].fits PROVE T = S
  BY <1>3, <1>5
<1>6. rows[n + 1].fits => Cardinality(T) = Cardinality(S) + 1
  <2> HIDE DEF S, T
  <2> QED
    BY <1>1, <1>2, <1>4, FS_AddElement
<1> QED
  BY <1>5, <1>6 DEF Rank

LEMMA RankGrows ==
  ASSUME NEW rows, NEW m \in Nat, NEW n \in Nat, m <= n
  PROVE  /\ Rank(rows, m) <= Rank(rows, n)
         /\ m < n /\ rows[n].fits => Rank(rows, m) < Rank(rows, n)
<1>1. ASSUME NEW k \in Nat, m <= k PROVE Rank(rows, m) <= Rank(rows, k)
  <2>1. {i \in 1..m : rows[i].fits} \in SUBSET {i \in 1..k : rows[i].fits}
    BY <1>1
  <2> QED
    BY <2>1, FiniteMatching, FS_Subset DEF Rank
<1>2. ASSUME m < n, rows[n].fits PROVE Rank(rows, m) < Rank(rows, n)
  <2>1. n - 1 \in Nat /\ m <= n - 1 /\ (n - 1) + 1 = n
    BY <1>2
  <2>2. Rank(rows, n) = Rank(rows, n - 1) + 1
    BY <2>1, <1>2, RankStep
  <2>3. Rank(rows, m) <= Rank(rows, n - 1)
    BY <2>1, <1>1
  <2> QED
    BY <2>1, <2>2, <2>3, RankType
<1> QED
  BY <1>1, <1>2

(* Matching rows have ranks of their own, and every rank has its row.      *)
LEMMA RankApart ==
  ASSUME NEW rows, NEW i \in Nat, NEW j \in Nat, rows[i].fits, rows[j].fits,
         Rank(rows, i) = Rank(rows, j)
  PROVE  i = j
<1>1. Rank(rows, i) \in Nat /\ Rank(rows, j) \in Nat
  BY RankType
<1>2. CASE i < j
  BY <1>1, <1>2, RankGrows
<1>3. CASE j < i
  BY <1>1, <1>3, RankGrows
<1> QED
  BY <1>2, <1>3

LEMMA RankFilled ==
  ASSUME NEW rows, NEW n \in Nat, NEW k \in 1..Rank(rows, n)
  PROVE  \E i \in 1..n : rows[i].fits /\ Rank(rows, i) = k
<1> DEFINE S == {i \in 1..n : rows[i].fits}
           T == 1..Rank(rows, n)
           f == [i \in S |-> Rank(rows, i)]
<1>1. IsFiniteSet(S) /\ Cardinality(S) = Rank(rows, n) /\ Rank(rows, n) \in Nat
  BY FiniteMatching, RankType DEF Rank
<1>2. IsFiniteSet(T) /\ Cardinality(T) = Rank(rows, n)
  BY <1>1, FS_Interval
<1>3. ASSUME NEW i \in S PROVE Rank(rows, i) \in T
  <2>1. i \in Nat /\ i <= n /\ i - 1 \in Nat /\ (i - 1) + 1 = i /\ rows[i].fits
    OBVIOUS
  <2>2. Rank(rows, i) = Rank(rows, i - 1) + 1 /\ Rank(rows, i - 1) \in Nat
    BY <2>1, RankStep, RankType
  <2>3. Rank(rows, i) <= Rank(rows, n)
    BY <2>1, RankGrows
  <2> QED
    BY <2>2, <2>3, <1>1
<1>4. f \in [S -> T]
  BY <1>3
<1>5. ASSUME NEW i \in S, NEW j \in S, f[i] = f[j] PROVE i = j
  BY <1>5, RankApart
<1>6. f \in Injection(S, T)
  <2> HIDE DEF f, S, T
  <2> QED
    BY <1>4, <1>5, Fun_IsInj
<1>7. f \in Surjection(S, T)
  <2> HIDE DEF f, S, T
  <2> QED
    BY <1>6, <1>1, <1>2, FS_Injection
<1>8. \A t \in T : \E i \in S : f[i] = t
  <2> HIDE DEF f, S, T
  <2> QED
    BY <1>7, Fun_SurjectionProperties
<1> QED
  BY <1>8

(* A rank counts the rows before a place, then those that follow it.       *)
LEMMA RankAgree ==
  ASSUME NEW rows, NEW others, NEW n \in Nat,
         \A i \in 1..n : others[i] = rows[i]
  PROVE  Rank(others, n) = Rank(rows, n)
<1>1. {i \in 1..n : others[i].fits} = {i \in 1..n : rows[i].fits}
  OBVIOUS
<1> QED
  BY <1>1 DEF Rank

Follows(rows, m, others, n) == \A j \in 1..n : others[j] = rows[m + j]

LEMMA RankShift ==
  ASSUME NEW rows, NEW others, NEW m \in Nat, NEW n \in Nat, Follows(rows, m, others, n)
  PROVE  Rank(rows, m + n) = Rank(rows, m) + Rank(others, n)
<1> DEFINE A == {i \in 1..m : rows[i].fits}
           B == {i \in (m + 1)..(m + n) : rows[i].fits}
           D == {j \in 1..n : others[j].fits}
           C == {i \in 1..(m + n) : rows[i].fits}
           f == [j \in D |-> m + j]
<1>1. IsFiniteSet(A) /\ IsFiniteSet(C) /\ IsFiniteSet(D)
  BY FiniteMatching
<1>2. \A i : i \in 1..(m + n) <=> i \in 1..m \/ i \in (m + 1)..(m + n)
  OBVIOUS
<1>3. C = A \cup B /\ A \cap B = {}
  <2>1. C = A \cup B
    BY <1>2
  <2>2. \A i : ~(i \in 1..m /\ i \in (m + 1)..(m + n))
    OBVIOUS
  <2> QED
    BY <2>1, <2>2
<1>4. IsFiniteSet(B)
  BY <1>1, <1>3, FS_Subset
<1>5. \A j \in D : m + j \in B
  BY DEF Follows
<1>6. f \in [D -> B]
  BY <1>5
<1>7. \A i, j \in D : f[i] = f[j] => i = j
  OBVIOUS
<1>8. \A i \in B : i - m \in D /\ m + (i - m) = i
  BY DEF Follows
<1>9. \A i \in B : \E j \in D : f[j] = i
  BY <1>8
<1>10. Cardinality(D) = Cardinality(B)
  <2> HIDE DEF f, A, B, C, D
  <2>1. f \in Bijection(D, B)
    BY <1>6, <1>7, <1>9, Fun_IsBij
  <2>2. ExistsBijection(D, B)
    BY <2>1 DEF ExistsBijection
  <2> QED
    BY <2>2, <1>1, FS_Bijection
<1>11. Cardinality(C) = Cardinality(A) + Cardinality(B)
  <2> HIDE DEF f, A, B, C, D
  <2>1. Cardinality(A) \in Nat /\ Cardinality(B) \in Nat /\ Cardinality({}) = 0
    BY <1>1, <1>4, FS_CardinalityType, FS_EmptySet
  <2>2. Cardinality(A \cup B) = Cardinality(A) + Cardinality(B) - Cardinality(A \cap B)
    BY <1>1, <1>4, FS_Union
  <2>3. C = A \cup B /\ Cardinality(A \cap B) = 0
    BY <2>1, <1>3
  <2> QED
    BY <2>1, <2>2, <2>3
<1> QED
  BY <1>10, <1>11 DEF Rank

(* The rows that match, in order, one at its rank.                         *)
LEMMA FittingAt ==
  ASSUME NEW X, NEW rows \in Seq(X), NEW i \in 1..Len(rows), rows[i].fits
  PROVE  /\ Rank(rows, i) \in 1..Rank(rows, Len(rows))
         /\ Fitting(rows)[Rank(rows, i)] = rows[i]
<1>1. /\ Len(rows) \in Nat /\ i \in Nat /\ i <= Len(rows) /\ 0 < i /\ 0 \in Nat
      /\ DOMAIN rows = 1..Len(rows)
  BY LenProperties
<1>2. Rank(rows, i) \in Nat /\ Rank(rows, Len(rows)) \in Nat
  BY <1>1, RankType
<1>3. Rank(rows, 0) < Rank(rows, i)
  BY <1>1, RankGrows
<1>4. Rank(rows, i) <= Rank(rows, Len(rows))
  BY <1>1, RankGrows
<1>5. Rank(rows, i) \in 1..Rank(rows, Len(rows))
  BY <1>2, <1>3, <1>4, RankZero
<1> DEFINE R == Rank(rows, i)
           j == CHOOSE j \in DOMAIN rows : rows[j].fits /\ Rank(rows, j) = R
<1>6. j \in DOMAIN rows /\ rows[j].fits /\ Rank(rows, j) = R
  <2>1. \E h \in DOMAIN rows : rows[h].fits /\ Rank(rows, h) = R
    BY <1>1
  <2> QED
    BY <2>1, Zenon
<1>7. j = i
  <2> HIDE DEF j
  <2> QED
    BY <1>1, <1>6, RankApart
<1>8. Fitting(rows)[R] = rows[j]
  BY <1>5, Zenon DEF Fitting
<1> QED
  BY <1>5, <1>7, <1>8

LEMMA FittingRows ==
  ASSUME NEW X, NEW rows \in Seq(X)
  PROVE  /\ Fitting(rows) \in Seq(X) /\ Len(Fitting(rows)) = Rank(rows, Len(rows))
         /\ \A k \in 1..Len(Fitting(rows)) :
              \E i \in 1..Len(rows) : /\ rows[i].fits /\ Rank(rows, i) = k
                                      /\ Fitting(rows)[k] = rows[i]
<1>1. Len(rows) \in Nat /\ Rank(rows, Len(rows)) \in Nat /\ DOMAIN rows = 1..Len(rows)
  BY LenProperties, RankType
<1>2. DOMAIN Fitting(rows) = 1..Rank(rows, Len(rows))
  BY DEF Fitting
<1>3. ASSUME NEW k \in 1..Rank(rows, Len(rows))
      PROVE  \E i \in 1..Len(rows) : /\ rows[i].fits /\ Rank(rows, i) = k
                                     /\ Fitting(rows)[k] = rows[i]
  <2>1. PICK i \in 1..Len(rows) : rows[i].fits /\ Rank(rows, i) = k
    BY <1>1, RankFilled
  <2>2. Fitting(rows)[Rank(rows, i)] = rows[i]
    BY <2>1, FittingAt
  <2> QED
    BY <2>1, <2>2
<1>4. ASSUME NEW k \in 1..Rank(rows, Len(rows)) PROVE Fitting(rows)[k] \in X
  <2>1. PICK i \in 1..Len(rows) : Fitting(rows)[k] = rows[i]
    BY <1>3
  <2> QED
    BY <2>1, ElementOfSeq
<1>5. Fitting(rows) = [k \in 1..Rank(rows, Len(rows)) |-> Fitting(rows)[k]]
  BY DEF Fitting
<1>6. Fitting(rows) \in [1..Rank(rows, Len(rows)) -> X]
  BY <1>4, <1>5
<1>7. Fitting(rows) \in Seq(X) /\ Len(Fitting(rows)) = Rank(rows, Len(rows))
  BY <1>1, <1>2, <1>6
<1> QED
  BY <1>3, <1>7

LEMMA AllFitting ==
  ASSUME NEW X, NEW rows \in Seq(X), \A i \in 1..Len(rows) : rows[i].fits
  PROVE  Fitting(rows) = rows
<1>1. Len(rows) \in Nat /\ DOMAIN rows = 1..Len(rows)
  BY LenProperties
<1>2. ASSUME NEW n \in Nat, n <= Len(rows) PROVE Rank(rows, n) = n
  <2>1. \A i \in 1..n : rows[i].fits
    BY <1>2, <1>1
  <2>2. {i \in 1..n : rows[i].fits} = 1..n
    BY <2>1
  <2>3. Cardinality(1..n) = n
    BY FS_Interval
  <2> QED
    BY <2>2, <2>3 DEF Rank
<1>3. Len(Fitting(rows)) = Len(rows) /\ Fitting(rows) \in Seq(X)
  BY <1>1, <1>2, FittingRows
<1>4. ASSUME NEW i \in 1..Len(rows) PROVE Fitting(rows)[i] = rows[i]
  <2>1. Rank(rows, i) = i
    BY <1>1, <1>2
  <2>2. Fitting(rows)[Rank(rows, i)] = rows[i]
    BY FittingAt
  <2> QED
    BY <2>1, <2>2
<1> QED
  BY <1>3, <1>4, SeqEqual

LEMMA SmallerOf ==
  ASSUME NEW m \in Int, NEW n \in Int
  PROVE  /\ Smaller(m, n) \in Int /\ Smaller(m, n) <= m /\ Smaller(m, n) <= n
         /\ Smaller(m, n) = m \/ Smaller(m, n) = n
  BY DEF Smaller

LEMMA WindowRows ==
  ASSUME NEW X, NEW rows \in Seq(X), NEW from \in Nat, NEW n \in Nat
  PROVE  LET W == WindowOf(rows, from, n) IN
         /\ W \in Seq(X) /\ Len(W) \in Nat /\ Len(W) <= n
         /\ Len(W) > 0 => from + Len(W) <= Len(rows)
         /\ Len(W) < n => Len(rows) <= from + Len(W)
         /\ \A k \in 1..Len(W) : from + k \in 1..Len(rows) /\ W[k] = rows[from + k]
<1> DEFINE W == WindowOf(rows, from, n)
           to == Smaller(from + n, Len(rows))
<1>1. Len(rows) \in Nat
  BY LenProperties
<1>2. /\ from + 1 \in Int /\ to \in Int /\ to <= from + n /\ to <= Len(rows)
      /\ to = from + n \/ to = Len(rows)
  <2>1. from + n \in Int /\ Len(rows) \in Int /\ from + 1 \in Int
    BY <1>1
  <2> QED
    BY <2>1, SmallerOf
<1>3. \A i \in (from + 1)..to : rows[i] \in X
  BY <1>1, <1>2, ElementOfSeq
<1>4. /\ W \in Seq(X)
      /\ Len(W) = IF from + 1 <= to THEN to - (from + 1) + 1 ELSE 0
      /\ \A i \in 1..(to - (from + 1) + 1) : W[i] = rows[from + 1 + i - 1]
  <2>1. W = SubSeq(rows, from + 1, to)
    BY DEF WindowOf
  <2> HIDE DEF to, W
  <2>2. /\ SubSeq(rows, from + 1, to) \in Seq(X)
        /\ Len(SubSeq(rows, from + 1, to)) = IF from + 1 <= to THEN to - (from + 1) + 1 ELSE 0
        /\ \A i \in 1..(to - (from + 1) + 1) :
             SubSeq(rows, from + 1, to)[i] = rows[from + 1 + i - 1]
    BY <1>2, <1>3, SubSeqProperties
  <2> QED
    BY <2>1, <2>2
<1> DEFINE w == Len(W)
<1>5. w = IF from + 1 <= to THEN to - (from + 1) + 1 ELSE 0
  BY <1>4
<1> HIDE DEF to, W, w
<1>6. w \in Nat /\ w <= n
  BY <1>1, <1>2, <1>5
<1>7. /\ w > 0 => from + w <= Len(rows)
      /\ w < n => Len(rows) <= from + w
  BY <1>1, <1>2, <1>5
<1>8. ASSUME NEW k \in 1..w
      PROVE  from + k \in 1..Len(rows) /\ W[k] = rows[from + k]
  <2>1. k \in 1..(to - (from + 1) + 1) /\ from + 1 + k - 1 = from + k
    BY <1>2, <1>5, <1>6
  <2>2. from + k \in 1..Len(rows)
    BY <2>1, <1>1, <1>2
  <2> QED
    BY <2>1, <2>2, <1>4
<1> QED
  BY <1>4, <1>6, <1>7, <1>8 DEF W, w

(* What a scan has kept stays what matches in what it has read.            *)
Prefix(rows, kept, n) ==
  /\ n \in 0..Len(rows) /\ Len(kept) = Rank(rows, n)
  /\ \A i \in 1..n : rows[i].fits => kept[Rank(rows, i)] = rows[i]

LEMMA PrefixReads ==
  ASSUME NEW X, NEW rows \in Seq(X), NEW kept \in Seq(X), NEW n \in Nat, NEW width \in Nat,
         Prefix(rows, kept, n)
  PROVE  LET W == WindowOf(rows, n, width)
         IN  Prefix(rows, kept \o Fitting(W), n + Len(W))
<1> DEFINE W == WindowOf(rows, n, width)
           K == Fitting(W)
<1>1. /\ W \in Seq(X) /\ Len(W) \in Nat /\ Len(W) <= width
      /\ Len(W) > 0 => n + Len(W) <= Len(rows)
      /\ \A k \in 1..Len(W) : n + k \in 1..Len(rows) /\ W[k] = rows[n + k]
  BY WindowRows
<1>2. K \in Seq(X) /\ Len(K) = Rank(W, Len(W))
  BY <1>1, FittingRows
<1>3. Len(rows) \in Nat /\ Len(kept) \in Nat /\ Len(K) \in Nat
  BY <1>2, LenProperties
<1>4. n \in 0..Len(rows) /\ Len(kept) = Rank(rows, n)
  BY DEF Prefix
<1>5. \A i \in 1..n : rows[i].fits => kept[Rank(rows, i)] = rows[i]
  BY DEF Prefix
<1> HIDE DEF W
<1>6. ASSUME NEW j \in 0..Len(W)
      PROVE  Rank(rows, n + j) = Rank(rows, n) + Rank(W, j)
  <2>1. j \in Nat /\ Follows(rows, n, W, j)
    BY <1>1 DEF Follows
  <2> QED
    BY <2>1, RankShift
<1>7. n + Len(W) \in 0..Len(rows)
  BY <1>1, <1>3, <1>4
<1> HIDE DEF K
<1>8. /\ Len(kept \o K) = Len(kept) + Len(K)
      /\ \A k \in 1..(Len(kept) + Len(K)) :
           (kept \o K)[k] = IF k <= Len(kept) THEN kept[k] ELSE K[k - Len(kept)]
  BY <1>2, ConcatProperties
<1>9. Len(kept \o K) = Rank(rows, n + Len(W))
  BY <1>1, <1>2, <1>4, <1>6, <1>8
<1>10. ASSUME NEW i \in 1..n, rows[i].fits PROVE (kept \o K)[Rank(rows, i)] = rows[i]
  <2>1. i \in Nat /\ n \in Nat /\ i <= n /\ 0 < i /\ 0 \in Nat
    BY <1>3, <1>4
  <2>2. Rank(rows, 0) < Rank(rows, i) /\ Rank(rows, i) <= Rank(rows, n)
    BY <2>1, <1>10, RankGrows
  <2>3. Rank(rows, i) \in 1..Len(kept)
    BY <2>1, <2>2, <1>4, RankZero, RankType
  <2>4. (kept \o K)[Rank(rows, i)] = kept[Rank(rows, i)]
    <3> DEFINE k == Rank(rows, i)
    <3>1. k \in 1..Len(kept)
      BY <2>3
    <3> HIDE DEF k
    <3>2. (kept \o K)[k] = kept[k]
      BY <3>1, <1>3, <1>8
    <3> QED
      BY <3>2 DEF k
  <2> QED
    BY <2>4, <1>5, <1>10
<1>11. ASSUME NEW j \in 1..Len(W), rows[n + j].fits
       PROVE  (kept \o K)[Rank(rows, n + j)] = rows[n + j]
  <2>1. W[j] = rows[n + j] /\ j \in 0..Len(W)
    BY <1>1
  <2>2. Rank(W, j) \in 1..Rank(W, Len(W)) /\ Fitting(W)[Rank(W, j)] = W[j]
    BY <1>1, <1>11, <2>1, FittingAt
  <2> DEFINE k == Rank(W, j)
  <2>3. k \in 1..Len(K) /\ K[k] = rows[n + j]
    BY <2>1, <2>2, <1>2 DEF K
  <2>4. Rank(rows, n + j) = Len(kept) + k
    BY <2>1, <1>4, <1>6
  <2> HIDE DEF k
  <2>5. /\ Len(kept) + k \in 1..(Len(kept) + Len(K)) /\ ~(Len(kept) + k <= Len(kept))
        /\ (Len(kept) + k) - Len(kept) = k
    BY <2>3, <1>3
  <2>6. (kept \o K)[Len(kept) + k] = K[k]
    BY <2>5, <1>8
  <2> QED
    BY <2>3, <2>4, <2>6
<1>12. ASSUME NEW i \in 1..(n + Len(W)), rows[i].fits
       PROVE  (kept \o K)[Rank(rows, i)] = rows[i]
  <2>1. CASE i \in 1..n
    BY <2>1, <1>10, <1>12
  <2>2. CASE i \notin 1..n
    <3>1. i - n \in 1..Len(W) /\ n + (i - n) = i
      BY <2>2, <1>1, <1>3, <1>4
    <3>2. rows[n + (i - n)].fits
      BY <3>1, <1>12
    <3>3. (kept \o K)[Rank(rows, n + (i - n))] = rows[n + (i - n)]
      BY <3>1, <3>2, <1>11
    <3> QED
      BY <3>1, <3>3
  <2> QED
    BY <2>1, <2>2
<1> QED
  BY <1>7, <1>9, <1>12 DEF Prefix, K, W

(* Every matching row is still there, and not before the place it had.     *)
NoneBack(rows, others) ==
  \A i \in 1..Len(rows) : rows[i].fits =>
    \E j \in 1..Len(others) : others[j] = rows[i] /\ Rank(rows, i) <= Rank(others, j)

LEMMA InsertedRow ==
  ASSUME NEW X, NEW rows \in Seq(X), NEW r \in X, NEW p \in 0..Len(rows)
  PROVE  LET more == SubSeq(rows, 1, p) \o <<r>> \o SubSeq(rows, p + 1, Len(rows))
         IN  more \in Seq(X) /\ NoneBack(rows, more)
<1> DEFINE A == SubSeq(rows, 1, p)
           C == SubSeq(rows, p + 1, Len(rows))
           B == A \o <<r>>
           more == B \o C
           w == Len(rows) - p
<1>1. Len(rows) \in Nat /\ p \in Nat /\ p <= Len(rows) /\ w \in Nat /\ p + w = Len(rows)
  BY LenProperties
<1>2. \A i \in 1..Len(rows) : rows[i] \in X
  BY ElementOfSeq
<1>3. A \in Seq(X) /\ Len(A) = p /\ \A i \in 1..p : A[i] = rows[i]
  <2>1. 1 \in Int /\ p \in Int /\ \A i \in 1..p : rows[i] \in X
    BY <1>1, <1>2
  <2>2. /\ A \in Seq(X) /\ Len(A) = IF 1 <= p THEN p - 1 + 1 ELSE 0
        /\ \A i \in 1..(p - 1 + 1) : A[i] = rows[1 + i - 1]
    BY <2>1, SubSeqProperties
  <2> HIDE DEF A
  <2> QED
    BY <2>2, <1>1
<1>4. C \in Seq(X) /\ Len(C) = w /\ \A i \in 1..w : C[i] = rows[p + i]
  <2>1. p + 1 \in Int /\ Len(rows) \in Int /\ \A i \in (p + 1)..Len(rows) : rows[i] \in X
    BY <1>1, <1>2
  <2>2. /\ C \in Seq(X)
        /\ Len(C) = IF p + 1 <= Len(rows) THEN Len(rows) - (p + 1) + 1 ELSE 0
        /\ \A i \in 1..(Len(rows) - (p + 1) + 1) : C[i] = rows[p + 1 + i - 1]
    BY <2>1, SubSeqProperties
  <2> DEFINE l == Len(rows)
  <2> HIDE DEF C, w, l
  <2>3. l - (p + 1) + 1 = w /\ (~(p + 1 <= l) => w = 0)
    <3>1. l \in Nat /\ p \in Nat /\ p <= l /\ w \in Nat /\ p + w = l
      BY <1>1 DEF l
    <3> QED
      BY <3>1
  <2>4. Len(C) = w
    BY <2>2, <2>3 DEF l
  <2>5. ASSUME NEW i \in 1..w PROVE C[i] = rows[p + i]
    <3>1. p + 1 + i - 1 = p + i
      BY <1>1
    <3>2. C[i] = rows[p + 1 + i - 1]
      BY <2>2, <2>3 DEF l
    <3> QED
      BY <3>1, <3>2
  <2> QED
    BY <2>2, <2>4, <2>5
<1> HIDE DEF A, C, w
<1>5. B \in Seq(X) /\ Len(B) = p + 1 /\ \A i \in 1..p : B[i] = rows[i]
  <2>1. <<r>> \in Seq(X) /\ Len(<<r>>) = 1
    OBVIOUS
  <2>2. /\ A \o <<r>> \in Seq(X) /\ Len(A \o <<r>>) = Len(A) + Len(<<r>>)
        /\ \A i \in 1..(Len(A) + Len(<<r>>)) :
             (A \o <<r>>)[i] = IF i <= Len(A) THEN A[i] ELSE <<r>>[i - Len(A)]
    BY <2>1, <1>3, ConcatProperties
  <2> HIDE DEF B
  <2>3. B \in Seq(X) /\ Len(B) = p + 1
    BY <2>1, <2>2, <1>3 DEF B
  <2>4. \A i \in 1..p : B[i] = A[i]
    BY <2>1, <2>2, <1>1, <1>3 DEF B
  <2> QED
    BY <2>3, <2>4, <1>3
<1> HIDE DEF B
<1>6. /\ more \in Seq(X) /\ Len(more) = p + 1 + w
      /\ \A i \in 1..(p + 1 + w) :
           more[i] = IF i <= p + 1 THEN B[i] ELSE C[i - (p + 1)]
  <2>1. /\ B \o C \in Seq(X) /\ Len(B \o C) = Len(B) + Len(C)
        /\ \A i \in 1..(Len(B) + Len(C)) :
             (B \o C)[i] = IF i <= Len(B) THEN B[i] ELSE C[i - Len(B)]
    BY <1>4, <1>5, ConcatProperties
  <2> QED
    BY <2>1, <1>4, <1>5
<1> HIDE DEF more
<1>7. \A i \in 1..p : more[i] = rows[i]
  BY <1>1, <1>5, <1>6
<1>8. \A j \in 1..w : more[(p + 1) + j] = C[j]
  BY <1>1, <1>6
<1>9. ASSUME NEW i \in 1..p, rows[i].fits
      PROVE  \E j \in 1..Len(more) : more[j] = rows[i] /\ Rank(rows, i) <= Rank(more, j)
  <2>1. i \in Nat /\ i \in 1..Len(more) /\ \A h \in 1..i : more[h] = rows[h]
    BY <1>1, <1>6, <1>7
  <2>2. Rank(more, i) = Rank(rows, i)
    BY <2>1, RankAgree
  <2> QED
    BY <2>1, <2>2, RankType
<1>10. ASSUME NEW j \in 1..w
       PROVE  /\ more[(p + 1) + j] = rows[p + j] /\ (p + 1) + j \in 1..Len(more)
              /\ Rank(rows, p + j) <= Rank(more, (p + 1) + j)
  <2>1. j \in Nat /\ p + 1 \in Nat
    BY <1>1
  <2>2. Rank(rows, p + j) = Rank(rows, p) + Rank(C, j)
    <3>1. Follows(rows, p, C, j)
      BY <1>4 DEF Follows
    <3> QED
      BY <3>1, <2>1, <1>1, RankShift
  <2>3. Rank(more, (p + 1) + j) = Rank(more, p + 1) + Rank(C, j)
    <3>1. Follows(more, p + 1, C, j)
      BY <1>1, <1>8 DEF Follows
    <3> QED
      BY <3>1, <2>1, RankShift
  <2>4. Rank(more, p) = Rank(rows, p)
    BY <1>1, <1>7, RankAgree
  <2>5. Rank(more, p) <= Rank(more, p + 1)
    BY <1>1, RankGrows
  <2>6. /\ Rank(more, p) \in Nat /\ Rank(more, p + 1) \in Nat /\ Rank(C, j) \in Nat
        /\ Rank(rows, p) \in Nat
    BY <1>1, <2>1, RankType
  <2>7. Rank(rows, p + j) <= Rank(more, (p + 1) + j)
    BY <2>2, <2>3, <2>4, <2>5, <2>6
  <2>8. more[(p + 1) + j] = rows[p + j] /\ (p + 1) + j \in 1..Len(more)
    BY <1>1, <1>4, <1>6, <1>8
  <2> QED
    BY <2>7, <2>8
<1>11. ASSUME NEW i \in 1..Len(rows), rows[i].fits
       PROVE  \E j \in 1..Len(more) : more[j] = rows[i] /\ Rank(rows, i) <= Rank(more, j)
  <2>1. CASE i \in 1..p
    BY <2>1, <1>9, <1>11
  <2>2. CASE i \notin 1..p
    <3>1. i - p \in 1..w /\ p + (i - p) = i
      BY <2>2, <1>1
    <3>2. /\ more[(p + 1) + (i - p)] = rows[p + (i - p)]
          /\ (p + 1) + (i - p) \in 1..Len(more)
          /\ Rank(rows, p + (i - p)) <= Rank(more, (p + 1) + (i - p))
      BY <3>1, <1>10
    <3> QED
      BY <3>1, <3>2
  <2> QED
    BY <2>1, <2>2
<1> QED
  BY <1>6, <1>11 DEF NoneBack, more, B, A, C

LEMMA EditedRow ==
  ASSUME NEW X, NEW rows \in Seq(X), NEW others \in Seq(X), NEW e, ~rows[e].fits,
         Len(others) = Len(rows),
         \A i \in 1..Len(rows) : i # e => others[i] = rows[i]
  PROVE  NoneBack(rows, others)
<1> SUFFICES ASSUME NEW i \in 1..Len(rows), rows[i].fits
             PROVE  others[i] = rows[i] /\ Rank(rows, i) <= Rank(others, i)
  BY DEF NoneBack
<1>1. Len(rows) \in Nat /\ i \in Nat /\ i <= Len(rows)
  BY LenProperties
<1>2. others[i] = rows[i]
  OBVIOUS
<1>3. \A j \in 1..i : rows[j].fits => others[j].fits
  <2> TAKE j \in 1..i
  <2>1. j \in 1..Len(rows)
    BY <1>1
  <2> QED
    BY <2>1
<1>4. {j \in 1..i : rows[j].fits} \in SUBSET {j \in 1..i : others[j].fits}
  BY <1>3
<1>5. Rank(rows, i) <= Rank(others, i)
  BY <1>1, <1>4, FiniteMatching, FS_Subset DEF Rank
<1> QED
  BY <1>2, <1>5

-----------------------------------------------------------------------------
(* Chains of pages.                                                        *)

ListRow == [id : ListIds, fits : BOOLEAN]

PagingTypes ==
  /\ listing \in Seq(ListRow) /\ counts \in BOOLEAN
  /\ chain \in Chains \cup {NoChain} /\ cursor \in Nat
  /\ reading \in {"idle", "reading", "answering", "ended"}
  /\ pages \in Nat /\ scanned \in Nat /\ found \in Seq(ListRow) /\ exhausted \in BOOLEAN
  /\ total \in Nat /\ served \in Seq(ListIds) /\ flagged \in BOOLEAN
  /\ steadyIds \subseteq ListIds /\ shrunk \in BOOLEAN /\ came \in Nat

CallBegins ==
  /\ chain = NoChain => reading = "idle" /\ cursor = 0 /\ served = <<>> /\ steadyIds = {}
  /\ reading = "reading" => ~exhausted
  /\ reading = "reading" /\ (pages = 0 \/ chain.way = "page") =>
       pages = 0 /\ scanned = 0 /\ found = <<>>
  /\ reading = "answering" /\ chain.way = "report" => pages > 0

(* While no row was removed or stopped matching, a scan holds the matching *)
(* rows of what it has read, and one read holds its window of them.        *)
ScanKeeps ==
  reading \in {"reading", "answering"} /\ chain.way # "page" /\ ~shrunk =>
    /\ Prefix(listing, found, scanned)
    /\ exhausted /\ chain.way = "by_status" => scanned = Len(listing)
    /\ pages > 0 => total = Len(listing)

PageKeeps ==
  reading = "answering" /\ chain.way = "page" /\ ~shrunk =>
    /\ found = WindowOf(Fitting(listing), cursor, chain.limit)
    /\ exhausted => Rank(listing, Len(listing)) <= cursor + Len(found)

Ahead(rows, from, id) ==
  \E i \in 1..Len(rows) : rows[i].id = id /\ rows[i].fits /\ from < Rank(rows, i)

(* What has matched since the chain began was served or lies ahead.        *)
NoneLost ==
  ~flagged /\ ~shrunk =>
    \A id \in steadyIds : id \in Served \/ (reading # "ended" /\ Ahead(listing, cursor, id))

(* The ids that were served are those of the first matching rows.          *)
FirstOf(rows, ids) ==
  \A k \in 1..Len(ids) :
    \E i \in 1..Len(rows) : rows[i].fits /\ Rank(rows, i) = k /\ rows[i].id = ids[k]

InOrder ==
  came = 0 =>
    /\ ~shrunk
    /\ \A i, j \in 1..Len(listing) : listing[i].id = listing[j].id => i = j
    /\ reading # "ended" => Len(served) = cursor
    /\ FirstOf(listing, served)

PagingInv == PagingTypes /\ CallBegins /\ ScanKeeps /\ PageKeeps /\ NoneLost /\ InOrder

LEMMA ChainWell ==
  ASSUME PagingTypes, chain # NoChain
  PROVE  /\ chain \in Chains /\ chain.way \in {"page", "by_status", "report"}
         /\ chain.limit \in Nat /\ chain.limit > 0
         /\ chain.fetch \in Nat /\ chain.scan \in Nat
         /\ chain.way = "report" => chain.scan > 0
         /\ MaxPageSize \in Nat /\ MaxPageSize > 0
<1>1. chain \in Chains
  BY DEF PagingTypes
<1>2. /\ MaxPageSize \in Nat /\ MaxScanItems \in Nat
      /\ \A l \in Limits : l \in Nat /\ l > 0 /\ l <= MaxPageSize
      /\ \A f \in FetchSizes \cup ScanLimits : f \in Nat /\ f > 0
  <2>1. MaxPageSize \in Nat /\ MaxScanItems \in Nat
    BY PagingAssumption DEF PagingAssumption
  <2>2. \A l \in Limits : l \in 1..MaxPageSize
    BY PagingAssumption DEF PagingAssumption
  <2>3. \A f \in FetchSizes \cup ScanLimits : f \in Nat \ {0}
    BY PagingAssumption DEF PagingAssumption
  <2> QED
    BY <2>1, <2>2, <2>3
<1>3. CASE \E w \in {"page", "by_status"}, l \in Limits :
             chain = [way |-> w, limit |-> l, fetch |-> MaxPageSize, scan |-> MaxScanItems]
  BY <1>1, <1>2, <1>3
<1>4. CASE \E l \in Limits : chain = OnePage(l)
  <2>1. PICK l \in Limits : chain = OnePage(l)
    BY <1>4
  <2>2. Larger(l, MaxPageSize) \in Nat /\ Larger(l, MaxPageSize) > 0
    BY <1>2 DEF Larger
  <2> QED
    BY <1>1, <1>2, <2>1, <2>2 DEF OnePage
<1>5. CASE \E l \in Limits, f \in FetchSizes, s \in ScanLimits :
             chain = [way |-> "report", limit |-> l, fetch |-> f, scan |-> s]
  BY <1>1, <1>2, <1>5
<1> QED
  BY <1>1, <1>3, <1>4, <1>5 DEF Chains

(* What a page holds: the rows that follow the cursor.                     *)
PageIs(page) ==
  /\ \A i \in 1..Len(listing) :
       listing[i].fits /\ cursor < Rank(listing, i) /\ Rank(listing, i) <= cursor + Len(page) =>
         page[Rank(listing, i) - cursor] = listing[i]
  /\ Len(page) > 0 => cursor + Len(page) <= Rank(listing, Len(listing))

LastPage(page) == Rank(listing, Len(listing)) <= cursor + Len(page)

LEMMA OneReadPage ==
  ASSUME PagingInv, chain # NoChain, reading = "answering", ~shrunk, chain.way = "page"
  PROVE  /\ PageRows \in Seq(ListRow) /\ PageIs(PageRows)
         /\ ~HasMore => LastPage(PageRows)
<1> DEFINE K == Fitting(listing)
           W == WindowOf(K, cursor, chain.limit)
           T == Rank(listing, Len(listing))
<1>1. /\ PageRows = W /\ found = W
      /\ exhausted => T <= cursor + Len(W)
  BY DEF PagingInv, PageKeeps, PageRows
<1>2. /\ listing \in Seq(ListRow) /\ cursor \in Nat /\ chain.limit \in Nat
      /\ Len(listing) \in Nat
  BY ChainWell, LenProperties DEF PagingInv, PagingTypes
<1>3. K \in Seq(ListRow) /\ Len(K) = T /\ T \in Nat
  BY <1>2, FittingRows, RankType
<1>4. /\ W \in Seq(ListRow) /\ Len(W) \in Nat /\ Len(W) <= chain.limit
      /\ Len(W) > 0 => cursor + Len(W) <= Len(K)
      /\ Len(W) < chain.limit => Len(K) <= cursor + Len(W)
      /\ \A k \in 1..Len(W) : cursor + k \in 1..Len(K) /\ W[k] = K[cursor + k]
  <2> HIDE DEF K
  <2> QED
    BY <1>2, <1>3, WindowRows
<1>5. \A i \in 1..Len(listing) : listing[i].fits => K[Rank(listing, i)] = listing[i]
  BY <1>2, FittingAt
<1> HIDE DEF K, W, T
<1>6. ASSUME NEW i \in 1..Len(listing), listing[i].fits, cursor < Rank(listing, i),
             Rank(listing, i) <= cursor + Len(W)
      PROVE  W[Rank(listing, i) - cursor] = listing[i]
  <2> DEFINE r == Rank(listing, i)
  <2>1. r \in Nat
    BY <1>2, RankType
  <2>2. K[r] = listing[i] /\ cursor < r /\ r <= cursor + Len(W)
    BY <1>5, <1>6
  <2> HIDE DEF r
  <2>3. r - cursor \in 1..Len(W) /\ cursor + (r - cursor) = r
    BY <2>1, <2>2, <1>2, <1>4
  <2>4. W[r - cursor] = K[cursor + (r - cursor)]
    BY <2>3, <1>4
  <2> QED
    BY <2>2, <2>3, <2>4 DEF r
<1>7. PageIs(W)
  BY <1>3, <1>4, <1>6 DEF PageIs, T
<1>8. ASSUME ~HasMore PROVE T <= cursor + Len(W)
  <2>1. exhausted \/ Len(W) # chain.limit
    BY <1>1, <1>8 DEF HasMore
  <2>2. ASSUME Len(W) # chain.limit PROVE T <= cursor + Len(W)
    BY <2>2, <1>2, <1>3, <1>4
  <2> QED
    BY <2>1, <2>2, <1>1
<1> QED
  BY <1>1, <1>4, <1>7, <1>8 DEF LastPage, T

LEMMA ScannedPage ==
  ASSUME PagingInv, chain # NoChain, reading = "answering", ~shrunk, chain.way # "page"
  PROVE  /\ PageRows \in Seq(ListRow) /\ PageIs(PageRows)
         /\ ~HasMore /\ ~Incomplete => LastPage(PageRows)
<1> DEFINE W == WindowOf(found, cursor, chain.limit)
           T == Rank(listing, Len(listing))
<1>1. /\ PageRows = W /\ Prefix(listing, found, scanned)
      /\ exhausted /\ chain.way = "by_status" => scanned = Len(listing)
      /\ chain.way = "report" => total = Len(listing)
  BY DEF PagingInv, ScanKeeps, CallBegins, PageRows
<1>2. /\ listing \in Seq(ListRow) /\ found \in Seq(ListRow) /\ cursor \in Nat
      /\ chain.limit \in Nat /\ chain.limit > 0
      /\ chain.way = "by_status" \/ chain.way = "report"
  BY ChainWell DEF PagingInv, PagingTypes
<1>3. Len(listing) \in Nat /\ Len(found) \in Nat
  BY <1>2, LenProperties
<1>4. /\ W \in Seq(ListRow) /\ Len(W) \in Nat /\ Len(W) <= chain.limit
      /\ Len(W) > 0 => cursor + Len(W) <= Len(found)
      /\ Len(W) < chain.limit => Len(found) <= cursor + Len(W)
      /\ \A k \in 1..Len(W) : cursor + k \in 1..Len(found) /\ W[k] = found[cursor + k]
  BY <1>2, WindowRows
<1>5. scanned \in Nat /\ scanned <= Len(listing) /\ Len(found) = Rank(listing, scanned)
  BY <1>1, <1>3 DEF Prefix
<1>6. T \in Nat /\ Len(found) <= T
  BY <1>3, <1>5, RankGrows, RankType
<1> HIDE DEF W
<1>7. ASSUME NEW i \in 1..Len(listing), listing[i].fits, cursor < Rank(listing, i),
             Rank(listing, i) <= cursor + Len(W)
      PROVE  W[Rank(listing, i) - cursor] = listing[i]
  <2> DEFINE r == Rank(listing, i)
  <2>1. r \in Nat /\ cursor < r /\ r <= cursor + Len(W) /\ i \in Nat /\ 0 < i
    BY <1>3, <1>7, RankType
  <2>2. r <= Len(found)
    <3> HIDE DEF r
    <3> QED
      BY <2>1, <1>2, <1>3, <1>4
  <2>3. i <= scanned
    <3> SUFFICES ASSUME scanned < i PROVE FALSE
      BY <2>1, <1>5
    <3>1. Rank(listing, scanned) < Rank(listing, i)
      BY <1>5, <1>7, <2>1, RankGrows
    <3> QED
      BY <3>1, <2>1, <2>2, <1>3, <1>5
  <2>4. found[r] = listing[i]
    BY <2>1, <2>3, <1>1, <1>5, <1>7 DEF Prefix
  <2> HIDE DEF r
  <2>5. r - cursor \in 1..Len(W) /\ cursor + (r - cursor) = r
    BY <2>1, <1>2, <1>4
  <2>6. W[r - cursor] = found[cursor + (r - cursor)]
    BY <2>5, <1>4
  <2> QED
    BY <2>4, <2>5, <2>6 DEF r
<1> HIDE DEF T
<1>8. PageIs(W)
  <2>1. Len(W) > 0 => cursor + Len(W) <= T
    BY <1>2, <1>3, <1>4, <1>6
  <2> QED
    BY <2>1, <1>7 DEF PageIs, T
<1>9. ASSUME ~HasMore, ~Incomplete PROVE T <= cursor + Len(W)
  <2>1. CASE chain.way = "by_status"
    <3>1. Len(W) < chain.limit
      BY <2>1, <1>1, <1>2, <1>4, <1>9 DEF HasMore
    <3>2. Len(found) <= cursor + Len(W)
      BY <3>1, <1>4
    <3>3. exhausted \/ Len(found) >= cursor + chain.limit
      BY <2>1, <1>9 DEF Incomplete, WindowFull
    <3>4. exhausted
      BY <3>1, <3>2, <3>3, <1>2, <1>3, <1>4
    <3>5. Len(found) = T
      BY <2>1, <3>4, <1>1, <1>5 DEF T
    <3> QED
      BY <3>2, <3>5
  <2>2. CASE chain.way = "report"
    <3>1. Len(found) <= cursor + Len(W)
      <4>1. Len(W) # chain.limit \/ ~(cursor + Len(W) < Len(found))
        BY <2>2, <1>1, <1>9 DEF HasMore
      <4> QED
        BY <4>1, <1>2, <1>3, <1>4
    <3>2. ~(scanned < total)
      BY <2>2, <1>9 DEF Incomplete
    <3>3. scanned = Len(listing)
      BY <3>2, <2>2, <1>1, <1>3, <1>5
    <3>4. Len(found) = T
      BY <3>3, <1>5 DEF T
    <3> QED
      BY <3>1, <3>4
  <2> QED
    BY <2>1, <2>2, <1>2
<1> QED
  BY <1>1, <1>4, <1>8, <1>9 DEF LastPage, T

LEMMA PagingBegins == ASSUME PagingInit PROVE PagingInv
<1>1. listing \in Seq(ListRow)
  <2>1. PICK n \in 0..Cardinality(ListIds) : listing \in [1..n -> [id : ListIds, fits : BOOLEAN]]
    BY DEF PagingInit, Listings
  <2>2. n \in Nat
    BY PagingAssumption, FS_CardinalityType DEF PagingAssumption
  <2>3. listing \in [1..n -> ListRow]
    BY <2>1 DEF ListRow
  <2> QED
    BY <2>2, <2>3
<1>2. Len(listing) \in Nat /\ DOMAIN listing = 1..Len(listing)
  BY <1>1, LenProperties
<1>3. \A i, j \in 1..Len(listing) : i < j => listing[i].id < listing[j].id
  BY <1>2 DEF PagingInit, Listings
<1>4. ASSUME NEW i \in 1..Len(listing), NEW j \in 1..Len(listing), listing[i].id = listing[j].id
      PROVE  i = j
  <2>1. listing[i] \in ListRow /\ listing[j] \in ListRow
    BY <1>1, ElementOfSeq
  <2>2. listing[i].id \in Nat /\ listing[j].id \in Nat
    BY <2>1, PagingAssumption DEF PagingAssumption, ListRow
  <2>3. i \in Nat /\ j \in Nat
    BY <1>2
  <2>4. ~(i < j) /\ ~(j < i)
    BY <1>3, <1>4, <2>2
  <2> QED
    BY <2>3, <2>4
<1>5. PagingTypes
  <2>1. found \in Seq(ListRow) /\ served \in Seq(ListIds)
    BY DEF PagingInit, PagingStart
  <2> QED
    BY <1>1, <2>1 DEF PagingInit, PagingStart, PagingTypes
<1>6. CallBegins /\ ScanKeeps /\ PageKeeps
  BY DEF PagingInit, PagingStart, CallBegins, ScanKeeps, PageKeeps
<1>7. NoneLost
  BY DEF PagingInit, PagingStart, NoneLost
<1>8. InOrder
  BY <1>4 DEF PagingInit, PagingStart, InOrder, FirstOf
<1> QED
  BY <1>5, <1>6, <1>7, <1>8 DEF PagingInv

LEMMA StartKeeps == ASSUME PagingInv, NEW c \in Chains, Start(c) PROVE PagingInv'
<1>1. /\ chain = NoChain /\ chain' = c /\ reading' = "reading"
      /\ steadyIds' = {listing[i].id : i \in {j \in DOMAIN listing : listing[j].fits}}
      /\ pages' = 0 /\ scanned' = 0 /\ found' = <<>> /\ exhausted' = FALSE /\ total' = 0
      /\ UNCHANGED <<listing, counts, shrunk, came, cursor, served, flagged>>
  BY DEF Start, BeginCall
<1>2. /\ listing \in Seq(ListRow) /\ Len(listing) \in Nat /\ DOMAIN listing = 1..Len(listing)
      /\ cursor = 0 /\ reading = "idle"
  BY <1>1, LenProperties DEF PagingInv, PagingTypes, CallBegins
<1>3. \A i \in 1..Len(listing) : listing[i].id \in ListIds
  <2> TAKE i \in 1..Len(listing)
  <2>1. listing[i] \in ListRow
    BY <1>2, ElementOfSeq
  <2> QED
    BY <2>1 DEF ListRow
<1>4. PagingTypes'
  <2>1. steadyIds' \subseteq ListIds
    BY <1>1, <1>2, <1>3
  <2>2. found' \in Seq(ListRow)
    BY <1>1
  <2>3. chain' \in Chains \cup {NoChain} /\ reading' \in {"idle", "reading", "answering", "ended"}
    BY <1>1
  <2> QED
    BY <1>1, <2>1, <2>2, <2>3 DEF PagingInv, PagingTypes
<1>5. chain' # NoChain
  <2>1. \A w \in {"page", "by_status", "report"} : w # "none"
    OBVIOUS
  <2>2. c.way \in {"page", "by_status", "report"}
    BY DEF Chains, OnePage
  <2> QED
    BY <1>1, <2>2 DEF NoChain
<1>6. CallBegins'
  BY <1>1, <1>5 DEF CallBegins
<1>7. ScanKeeps'
  <2>1. Prefix(listing, <<>>, 0)
    BY <1>2, RankZero DEF Prefix
  <2>2. Prefix(listing', found', scanned')
    BY <1>1, <2>1
  <2> QED
    BY <1>1, <2>2 DEF ScanKeeps
<1>8. PageKeeps'
  BY <1>1 DEF PageKeeps
<1>9. NoneLost'
  <2>1. ASSUME NEW i \in 1..Len(listing), listing[i].fits
        PROVE  Ahead(listing, cursor, listing[i].id)
    <3>1. i \in Nat /\ 0 \in Nat /\ 0 < i
      BY <1>2
    <3>2. Rank(listing, 0) < Rank(listing, i)
      BY <3>1, <2>1, RankGrows
    <3> QED
      BY <3>2, <2>1, <1>2, RankZero DEF Ahead
  <2>2. \A id \in steadyIds' : Ahead(listing, cursor, id)
    BY <1>1, <1>2, <2>1
  <2> QED
    BY <1>1, <2>2 DEF NoneLost
<1>10. InOrder'
  BY <1>1, <1>2 DEF PagingInv, InOrder
<1> QED
  BY <1>4, <1>6, <1>7, <1>8, <1>9, <1>10 DEF PagingInv

LEMMA SourceRows ==
  ASSUME PagingInv, chain # NoChain, reading = "reading", ~Capped
  PROVE  /\ Source \in Seq(ListRow) /\ From \in Nat /\ Width \in Nat
         /\ chain.way # "report" => Width > 0
         /\ chain.way = "page" => Source = Fitting(listing) /\ From = cursor /\ Width = chain.limit
         /\ chain.way # "page" => Source = listing /\ From = scanned
<1>1. /\ listing \in Seq(ListRow) /\ cursor \in Nat /\ scanned \in Nat
      /\ chain.way \in {"page", "by_status", "report"} /\ chain.limit \in Nat
      /\ chain.limit > 0 /\ chain.fetch \in Nat /\ chain.scan \in Nat
      /\ MaxPageSize \in Nat /\ MaxPageSize > 0
  BY ChainWell DEF PagingInv, PagingTypes
<1>2. Fitting(listing) \in Seq(ListRow)
  BY <1>1, FittingRows
<1>3. CASE chain.way = "page"
  BY <1>1, <1>2, <1>3 DEF Source, From, Width
<1>4. CASE chain.way = "by_status"
  BY <1>1, <1>4 DEF Source, From, Width
<1>5. CASE chain.way = "report"
  <2>1. scanned < chain.scan
    BY <1>1, <1>5 DEF Capped
  <2>2. chain.scan - scanned \in Int /\ chain.scan - scanned >= 0
    BY <1>1, <2>1
  <2>3. Smaller(chain.fetch, chain.scan - scanned) \in Nat
    BY <1>1, <2>2 DEF Smaller
  <2> QED
    BY <1>1, <1>5, <2>3 DEF Source, From, Width
<1> QED
  BY <1>1, <1>3, <1>4, <1>5

LEMMA OneReadKeeps ==
  ASSUME PagingInv, chain # NoChain, ReadOnePage, chain.way = "page"
  PROVE  PageKeeps'
<1> DEFINE K == Fitting(listing)
           W == WindowOf(K, cursor, chain.limit)
<1>1. /\ reading = "reading" /\ ~Capped
      /\ found' = found \o Fitting(WindowOf(Source, From, Width))
      /\ exhausted' = ShowsEnd(WindowOf(Source, From, Width),
                               From + Len(WindowOf(Source, From, Width)))
      /\ UNCHANGED <<listing, chain, cursor, shrunk>>
  BY DEF ReadOnePage, listVars
<1>2. Source = K /\ From = cursor /\ Width = chain.limit /\ found = <<>>
  BY <1>1, SourceRows DEF PagingInv, CallBegins
<1>3. /\ listing \in Seq(ListRow) /\ Len(listing) \in Nat /\ cursor \in Nat
      /\ chain.limit \in Nat /\ chain.limit > 0
  BY ChainWell, LenProperties DEF PagingInv, PagingTypes
<1>4. /\ K \in Seq(ListRow) /\ Len(K) = Rank(listing, Len(listing)) /\ Len(K) \in Nat
      /\ \A k \in 1..Len(K) : K[k].fits
  <2>1. K \in Seq(ListRow) /\ Len(K) = Rank(listing, Len(listing))
    BY <1>3, FittingRows
  <2>2. Len(K) \in Nat
    BY <2>1, <1>3, RankType
  <2>3. \A k \in 1..Len(K) : \E i \in 1..Len(listing) : listing[i].fits /\ K[k] = listing[i]
    BY <1>3, FittingRows
  <2> QED
    BY <2>1, <2>2, <2>3
<1> HIDE DEF K
<1>5. /\ W \in Seq(ListRow) /\ Len(W) \in Nat
      /\ Len(W) < chain.limit => Len(K) <= cursor + Len(W)
      /\ \A k \in 1..Len(W) : cursor + k \in 1..Len(K) /\ W[k] = K[cursor + k]
  BY <1>3, <1>4, WindowRows
<1> HIDE DEF W
<1>6. Fitting(W) = W
  BY <1>4, <1>5, AllFitting
<1>7. found' = W
  <2>1. <<>> \o W = W
    BY <1>5
  <2> QED
    BY <2>1, <1>1, <1>2, <1>6 DEF W
<1>8. ASSUME exhausted' PROVE Len(K) <= cursor + Len(W)
  <2>1. ShowsEnd(W, cursor + Len(W))
    BY <1>1, <1>2, <1>8 DEF W
  <2>2. Len(W) = 0 \/ cursor + Len(W) >= Len(K) \/ Len(W) < chain.limit
    BY <2>1, <1>2 DEF ShowsEnd
  <2> QED
    BY <2>2, <1>3, <1>4, <1>5
<1>9. found' = WindowOf(Fitting(listing'), cursor', chain'.limit)
  BY <1>1, <1>7 DEF W, K
<1>10. exhausted' => Rank(listing', Len(listing')) <= cursor' + Len(found')
  BY <1>1, <1>4, <1>7, <1>8
<1> QED
  BY <1>9, <1>10 DEF PageKeeps

LEMMA ScanReadKeeps ==
  ASSUME PagingInv, chain # NoChain, ReadOnePage, chain.way # "page"
  PROVE  ScanKeeps'
<1> DEFINE W == WindowOf(listing, scanned, Width)
<1>1. /\ reading = "reading" /\ ~Capped
      /\ pages' = pages + 1
      /\ scanned' = scanned + Len(WindowOf(Source, From, Width))
      /\ found' = found \o Fitting(WindowOf(Source, From, Width))
      /\ exhausted' = ShowsEnd(WindowOf(Source, From, Width),
                               From + Len(WindowOf(Source, From, Width)))
      /\ total' = Len(Source)
      /\ UNCHANGED <<listing, chain, shrunk>>
  BY DEF ReadOnePage, listVars
<1>2. Source = listing /\ From = scanned /\ Width \in Nat /\ (chain.way # "report" => Width > 0)
  BY <1>1, SourceRows
<1>3. /\ listing \in Seq(ListRow) /\ Len(listing) \in Nat /\ scanned \in Nat
      /\ found \in Seq(ListRow)
  BY LenProperties DEF PagingInv, PagingTypes
<1>4. /\ Len(W) \in Nat
      /\ Len(W) < Width => Len(listing) <= scanned + Len(W)
  BY <1>2, <1>3, WindowRows
<1>5. /\ scanned' = scanned + Len(W) /\ found' = found \o Fitting(W)
      /\ exhausted' = ShowsEnd(W, scanned + Len(W)) /\ total' = Len(listing)
  BY <1>1, <1>2
<1> SUFFICES ASSUME ~shrunk
             PROVE  /\ Prefix(listing', found', scanned')
                    /\ exhausted' /\ chain'.way = "by_status" => scanned' = Len(listing')
                    /\ total' = Len(listing')
  BY <1>1 DEF ScanKeeps
<1>6. Prefix(listing, found, scanned)
  BY <1>1 DEF PagingInv, ScanKeeps
<1>7. Prefix(listing, found \o Fitting(W), scanned + Len(W))
  BY <1>2, <1>3, <1>6, PrefixReads
<1> HIDE DEF W
<1>8. scanned + Len(W) <= Len(listing)
  BY <1>3, <1>7 DEF Prefix
<1>9. ASSUME exhausted', chain.way = "by_status" PROVE scanned + Len(W) = Len(listing)
  <2>1. Len(W) = 0 \/ scanned + Len(W) >= Len(listing) \/ Len(W) < Width
    BY <1>2, <1>5, <1>9 DEF ShowsEnd
  <2> QED
    BY <2>1, <1>2, <1>3, <1>4, <1>8, <1>9
<1> QED
  BY <1>1, <1>5, <1>7, <1>9

LEMMA ReadOnePageKeeps ==
  ASSUME PagingInv, chain # NoChain, ReadOnePage
  PROVE  PagingInv'
<1> DEFINE W == WindowOf(Source, From, Width)
<1>1. /\ reading = "reading" /\ ~Capped
      /\ pages' = pages + 1 /\ scanned' = scanned + Len(W) /\ found' = found \o Fitting(W)
      /\ exhausted' = ShowsEnd(W, From + Len(W)) /\ total' = Len(Source)
      /\ reading' = IF ShowsEnd(W, From + Len(W)) \/ WindowFull(found \o Fitting(W))
                       \/ chain.way = "page"
                    THEN "answering" ELSE "reading"
      /\ UNCHANGED <<listVars, chain, cursor, served, flagged>>
  BY DEF ReadOnePage
<1>2. /\ Source \in Seq(ListRow) /\ From \in Nat /\ Width \in Nat
      /\ pages \in Nat /\ scanned \in Nat /\ found \in Seq(ListRow)
  BY <1>1, SourceRows DEF PagingInv, PagingTypes
<1>3. W \in Seq(ListRow) /\ Len(W) \in Nat
  BY <1>2, WindowRows
<1>4. Fitting(W) \in Seq(ListRow) /\ Len(Source) \in Nat
  BY <1>2, <1>3, FittingRows, LenProperties
<1> HIDE DEF W
<1>5. PagingTypes'
  <2>1. /\ found' \in Seq(ListRow) /\ pages' \in Nat /\ scanned' \in Nat /\ total' \in Nat
        /\ reading' \in {"idle", "reading", "answering", "ended"}
    BY <1>1, <1>2, <1>3, <1>4
  <2>2. exhausted' \in BOOLEAN
    BY <1>1 DEF ShowsEnd
  <2>3. UNCHANGED <<listing, counts, chain, cursor, served, flagged, steadyIds, shrunk, came>>
    BY <1>1 DEF listVars
  <2> QED
    BY <2>1, <2>2, <2>3 DEF PagingInv, PagingTypes
<1>6. CallBegins'
  <2>1. pages' > 0
    BY <1>1, <1>2
  <2>2. reading' = "reading" => ~exhausted' /\ chain'.way # "page"
    BY <1>1
  <2> QED
    BY <1>1, <2>1, <2>2 DEF CallBegins
<1>7. ScanKeeps'
  BY <1>1, ScanReadKeeps DEF ScanKeeps
<1>8. PageKeeps'
  BY <1>1, OneReadKeeps DEF PageKeeps
<1>9. UNCHANGED <<listing, shrunk, came, cursor, served, flagged, steadyIds>>
      /\ reading # "ended" /\ reading' # "ended"
  BY <1>1 DEF listVars
<1>10. NoneLost'
  BY <1>9 DEF PagingInv, NoneLost, Served
<1>11. InOrder'
  BY <1>9 DEF PagingInv, InOrder
<1> QED
  BY <1>5, <1>6, <1>7, <1>8, <1>10, <1>11 DEF PagingInv

LEMMA StopAtBoundKeeps ==
  ASSUME PagingInv, chain # NoChain, StopAtBound
  PROVE  PagingInv'
<1>1. /\ reading = "reading" /\ reading' = "answering" /\ Capped
      /\ UNCHANGED <<listing, counts, steadyIds, shrunk, came, chain, cursor, served, flagged>>
      /\ UNCHANGED <<pages, scanned, found, exhausted, total>>
  BY DEF StopAtBound, listVars, callState
<1>2. PagingTypes'
  BY <1>1 DEF PagingInv, PagingTypes
<1>3. chain.way # "page"
  BY <1>1 DEF Capped
<1>4. CallBegins'
  <2>1. chain.way = "report" => scanned >= chain.scan /\ chain.scan > 0 /\ chain.scan \in Nat
    BY <1>1, ChainWell DEF Capped, PagingInv
  <2>2. chain.way = "report" => pages > 0
    BY <1>1, <2>1 DEF PagingInv, CallBegins, PagingTypes
  <2> QED
    BY <1>1, <2>2 DEF CallBegins
<1>5. ScanKeeps' /\ PageKeeps'
  BY <1>1, <1>3 DEF PagingInv, ScanKeeps, PageKeeps
<1>6. NoneLost' /\ InOrder'
  BY <1>1 DEF PagingInv, NoneLost, Served, InOrder
<1> QED
  BY <1>2, <1>4, <1>5, <1>6 DEF PagingInv

LEMMA FollowKeeps ==
  ASSUME PagingInv, chain # NoChain, Follow
  PROVE  PagingInv'
<1>1. /\ reading = "idle" /\ reading' = "reading"
      /\ pages' = 0 /\ scanned' = 0 /\ found' = <<>> /\ exhausted' = FALSE /\ total' = 0
      /\ UNCHANGED <<listing, counts, steadyIds, shrunk, came, chain, cursor, served, flagged>>
  BY DEF Follow, BeginCall, listVars
<1>2. PagingTypes'
  <2>1. found' \in Seq(ListRow)
    BY <1>1
  <2> QED
    BY <1>1, <2>1 DEF PagingInv, PagingTypes
<1>3. CallBegins' /\ PageKeeps'
  BY <1>1 DEF CallBegins, PageKeeps
<1>4. ScanKeeps'
  <2>1. Len(listing) \in Nat
    BY LenProperties DEF PagingInv, PagingTypes
  <2>2. Prefix(listing, <<>>, 0)
    BY <2>1, RankZero DEF Prefix
  <2>3. Prefix(listing', found', scanned')
    BY <2>2, <1>1
  <2> QED
    BY <1>1, <2>3 DEF ScanKeeps
<1>5. NoneLost' /\ InOrder'
  BY <1>1 DEF PagingInv, NoneLost, Served, InOrder
<1> QED
  BY <1>2, <1>3, <1>4, <1>5 DEF PagingInv

LEMMA CallFailsKeeps ==
  ASSUME PagingInv, chain # NoChain, CallFails
  PROVE  PagingInv'
<1>1. /\ reading = "reading" /\ reading' = "idle"
      /\ UNCHANGED <<listing, counts, steadyIds, shrunk, came, chain, cursor, served, flagged>>
      /\ UNCHANGED <<pages, scanned, found, exhausted, total>>
  BY DEF CallFails, listVars, callState
<1>2. PagingTypes'
  BY <1>1 DEF PagingInv, PagingTypes
<1>3. CallBegins' /\ ScanKeeps' /\ PageKeeps'
  BY <1>1 DEF CallBegins, ScanKeeps, PageKeeps
<1>4. NoneLost' /\ InOrder'
  BY <1>1 DEF PagingInv, NoneLost, Served, InOrder
<1> QED
  BY <1>2, <1>3, <1>4 DEF PagingInv

(* What an answer adds to what was served.                                 *)
LEMMA ServedJoined ==
  ASSUME NEW ids \in Seq(ListIds), served \in Seq(ListIds), served' = served \o ids
  PROVE  /\ served' \in Seq(ListIds) /\ Len(served') = Len(served) + Len(ids)
         /\ \A k \in 1..Len(served) : served'[k] = served[k]
         /\ \A k \in 1..Len(ids) : served'[Len(served) + k] = ids[k]
         /\ Served \subseteq Served'
         /\ \A k \in 1..Len(ids) : ids[k] \in Served'
<1>1. /\ served \o ids \in Seq(ListIds) /\ Len(served \o ids) = Len(served) + Len(ids)
      /\ \A k \in 1..(Len(served) + Len(ids)) :
           (served \o ids)[k] = IF k <= Len(served) THEN served[k] ELSE ids[k - Len(served)]
  BY ConcatProperties
<1>2. Len(served) \in Nat /\ Len(ids) \in Nat
  BY LenProperties
<1>3. /\ served' \in Seq(ListIds) /\ Len(served') = Len(served) + Len(ids)
      /\ \A k \in 1..(Len(served) + Len(ids)) :
           served'[k] = IF k <= Len(served) THEN served[k] ELSE ids[k - Len(served)]
  BY <1>1
<1>4. \A k \in 1..Len(served) : served'[k] = served[k]
  BY <1>2, <1>3
<1>5. ASSUME NEW k \in 1..Len(ids) PROVE served'[Len(served) + k] = ids[k]
  <2>1. /\ Len(served) + k \in 1..(Len(served) + Len(ids)) /\ ~(Len(served) + k <= Len(served))
        /\ (Len(served) + k) - Len(served) = k
    BY <1>2
  <2> QED
    BY <2>1, <1>3
<1>6. DOMAIN served' = 1..Len(served') /\ DOMAIN served = 1..Len(served)
  BY <1>3, LenProperties
<1>7. \A k \in 1..Len(served') : served'[k] \in Served'
  BY <1>6 DEF Served
<1>8. Served \subseteq Served'
  <2> SUFFICES ASSUME NEW k \in 1..Len(served) PROVE served[k] \in Served'
    BY <1>6 DEF Served
  <2>1. k \in 1..Len(served')
    BY <1>2, <1>3
  <2> QED
    BY <2>1, <1>4, <1>7
<1>9. ASSUME NEW k \in 1..Len(ids) PROVE ids[k] \in Served'
  <2>1. Len(served) + k \in 1..Len(served')
    BY <1>2, <1>3
  <2> QED
    BY <2>1, <1>5, <1>7
<1> QED
  BY <1>3, <1>4, <1>5, <1>8, <1>9

LEMMA AnswerPageKeeps ==
  ASSUME PagingInv, chain # NoChain, AnswerPage
  PROVE  PagingInv'
<1> DEFINE P == PageRows
           ids == [i \in DOMAIN P |-> P[i].id]
           T == Rank(listing, Len(listing))
<1>1. /\ reading = "answering" /\ served' = served \o ids
      /\ flagged' = (flagged \/ Incomplete)
      /\ HasMore => cursor' = cursor + Len(P) /\ reading' = "idle"
      /\ ~HasMore => cursor' = cursor /\ reading' = "ended"
      /\ UNCHANGED <<listing, counts, steadyIds, shrunk, came, chain>>
      /\ UNCHANGED <<pages, scanned, found, exhausted, total>>
  BY DEF AnswerPage, NextCursor, listVars, callState
<1>2. /\ listing \in Seq(ListRow) /\ found \in Seq(ListRow) /\ cursor \in Nat
      /\ served \in Seq(ListIds) /\ chain.limit \in Nat
  BY ChainWell DEF PagingInv, PagingTypes
<1>3. P \in Seq(ListRow)
  BY <1>2, WindowRows DEF PageRows
<1>4. ~shrunk => /\ PageIs(P)
                 /\ ~HasMore /\ ~Incomplete => LastPage(P)
  BY <1>1, OneReadPage, ScannedPage
<1> HIDE DEF P
<1>5. Len(P) \in Nat /\ Len(listing) \in Nat /\ DOMAIN P = 1..Len(P) /\ Len(served) \in Nat
  BY <1>2, <1>3, LenProperties
<1>6. ids \in Seq(ListIds) /\ Len(ids) = Len(P) /\ \A k \in 1..Len(P) : ids[k] = P[k].id
  <2>1. \A k \in 1..Len(P) : P[k].id \in ListIds
    <3> TAKE k \in 1..Len(P)
    <3>1. P[k] \in ListRow
      BY <1>3, ElementOfSeq
    <3> QED
      BY <3>1 DEF ListRow
  <2>2. ids \in [1..Len(P) -> ListIds]
    BY <2>1, <1>5
  <2> HIDE DEF ids
  <2>3. ids \in Seq(ListIds) /\ Len(ids) = Len(P)
    BY <2>2, <1>5
  <2>4. \A k \in 1..Len(P) : ids[k] = P[k].id
    BY <1>5 DEF ids
  <2> QED
    BY <2>3, <2>4
<1> HIDE DEF ids
<1>7. /\ served' \in Seq(ListIds) /\ Len(served') = Len(served) + Len(P)
      /\ \A k \in 1..Len(served) : served'[k] = served[k]
      /\ \A k \in 1..Len(P) : served'[Len(served) + k] = P[k].id
      /\ Served \subseteq Served'
      /\ \A k \in 1..Len(P) : P[k].id \in Served'
  BY <1>1, <1>2, <1>6, ServedJoined
<1>8. PagingTypes'
  <2>1. cursor' \in Nat /\ reading' \in {"idle", "reading", "answering", "ended"}
    BY <1>1, <1>2, <1>5
  <2>2. flagged' \in BOOLEAN
    BY <1>1
  <2> QED
    BY <2>1, <2>2, <1>1, <1>7 DEF PagingInv, PagingTypes
<1>9. reading' \in {"idle", "ended"}
  BY <1>1
<1>10. CallBegins' /\ ScanKeeps' /\ PageKeeps'
  BY <1>1, <1>9 DEF CallBegins, ScanKeeps, PageKeeps
<1>11. NoneLost'
  <2> SUFFICES ASSUME ~flagged', ~shrunk, NEW id \in steadyIds
               PROVE  id \in Served' \/ (reading' # "ended" /\ Ahead(listing, cursor', id))
    BY <1>1 DEF NoneLost
  <2>1. ~flagged /\ ~Incomplete
    BY <1>1
  <2>2. id \in Served \/ Ahead(listing, cursor, id)
    BY <2>1 DEF PagingInv, NoneLost
  <2>3. CASE id \in Served
    BY <2>3, <1>7
  <2>4. CASE Ahead(listing, cursor, id)
    <3>1. PICK i \in 1..Len(listing) :
            listing[i].id = id /\ listing[i].fits /\ cursor < Rank(listing, i)
      BY <2>4 DEF Ahead
    <3> DEFINE r == Rank(listing, i)
    <3>2. r \in Nat /\ r <= T /\ T \in Nat
      <4>1. i \in Nat /\ i <= Len(listing)
        BY <1>5
      <4> QED
        BY <4>1, <1>5, RankGrows, RankType
    <3>3. CASE r <= cursor + Len(P)
      <4>1. P[r - cursor] = listing[i]
        BY <3>1, <3>3, <1>4 DEF PageIs
      <4> HIDE DEF r
      <4>2. cursor < r
        BY <3>1 DEF r
      <4>3. r - cursor \in 1..Len(P)
        BY <4>2, <3>2, <3>3, <1>2, <1>5
      <4> QED
        BY <4>1, <4>3, <3>1, <1>7
    <3>4. CASE ~(r <= cursor + Len(P))
      <4>1. HasMore
        <5>1. ~(T <= cursor + Len(P))
          <6> HIDE DEF r, T
          <6> QED
            BY <3>2, <3>4, <1>2, <1>5
        <5> QED
          BY <5>1, <2>1, <1>4 DEF LastPage
      <4>2. cursor' = cursor + Len(P) /\ reading' = "idle"
        BY <4>1, <1>1
      <4>3. cursor + Len(P) < r
        <5> HIDE DEF r
        <5> QED
          BY <3>2, <3>4, <1>2, <1>5
      <4>4. Ahead(listing, cursor + Len(P), id)
        BY <4>3, <3>1 DEF Ahead
      <4> QED
        BY <4>2, <4>4
    <3> QED
      BY <3>3, <3>4
  <2> QED
    BY <2>2, <2>3, <2>4
<1>12. InOrder'
  <2> SUFFICES ASSUME came = 0
               PROVE  (reading' # "ended" => Len(served') = cursor') /\ FirstOf(listing, served')
    BY <1>1 DEF PagingInv, InOrder
  <2>1. ~shrunk /\ Len(served) = cursor /\ FirstOf(listing, served)
    BY <1>1 DEF PagingInv, InOrder
  <2>2. reading' # "ended" => Len(served') = cursor'
    BY <2>1, <1>1, <1>7
  <2>3. PageIs(P)
    BY <2>1, <1>4
  <2>4. ASSUME NEW h \in 1..Len(P)
        PROVE  \E i \in 1..Len(listing) : /\ listing[i].fits /\ Rank(listing, i) = cursor + h
                                          /\ P[h] = listing[i]
    <3>1. /\ cursor + h \in 1..T /\ cursor < cursor + h /\ cursor + h <= cursor + Len(P)
          /\ (cursor + h) - cursor = h
      <4>1. cursor + Len(P) <= T /\ T \in Nat
        BY <2>3, <1>5, RankType DEF PageIs
      <4> HIDE DEF T
      <4> QED
        BY <4>1, <1>2, <1>5
    <3>2. PICK i \in 1..Len(listing) : listing[i].fits /\ Rank(listing, i) = cursor + h
      BY <3>1, <1>5, RankFilled
    <3>3. P[Rank(listing, i) - cursor] = listing[i]
      BY <3>1, <3>2, <2>3 DEF PageIs
    <3> QED
      BY <3>1, <3>2, <3>3
  <2>5. ASSUME NEW k \in 1..Len(served')
        PROVE  \E i \in 1..Len(listing) :
                 listing[i].fits /\ Rank(listing, i) = k /\ listing[i].id = served'[k]
    <3>1. CASE k \in 1..Len(served)
      <4>1. \E i \in 1..Len(listing) :
              listing[i].fits /\ Rank(listing, i) = k /\ listing[i].id = served[k]
        BY <3>1, <2>1 DEF FirstOf
      <4>2. served'[k] = served[k]
        BY <3>1, <1>7
      <4> QED
        BY <4>1, <4>2
    <3>2. CASE k \notin 1..Len(served)
      <4> DEFINE h == k - Len(served)
      <4>1. k \in 1..(Len(served) + Len(P))
        BY <1>7
      <4>2. h \in 1..Len(P) /\ Len(served) + h = k
        BY <4>1, <3>2, <1>5
      <4> HIDE DEF h
      <4>3. served'[k] = P[h].id
        BY <4>2, <1>7
      <4>4. cursor + h = k
        BY <4>2, <2>1
      <4> QED
        BY <4>2, <4>3, <4>4, <2>4
    <3> QED
      BY <3>1, <3>2
  <2> QED
    BY <2>2, <2>5 DEF FirstOf
<1> QED
  BY <1>8, <1>10, <1>11, <1>12 DEF PagingInv

LEMMA ListingMoved ==
  ASSUME PagingInv, chain # NoChain, ListMoves
  PROVE  /\ listing' \in Seq(ListRow) /\ steadyIds' \subseteq steadyIds
         /\ shrunk' \in BOOLEAN
         /\ ~shrunk' => ~shrunk /\ ~InScan /\ NoneBack(listing, listing')
<1>1. /\ listing \in Seq(ListRow) /\ steadyIds \subseteq ListIds /\ shrunk \in BOOLEAN
      /\ Len(listing) \in Nat /\ DOMAIN listing = 1..Len(listing)
  BY LenProperties DEF PagingInv, PagingTypes
<1>2. InScan \in BOOLEAN
  BY DEF InScan
<1>3. CASE \E id \in ListIds, fits \in BOOLEAN : Insert(id, fits)
  <2>1. PICK id \in ListIds, fits \in BOOLEAN : Insert(id, fits)
    BY <1>3
  <2> DEFINE r == [id |-> id, fits |-> fits]
  <2>2. PICK p \in 0..Len(listing) :
          listing' = SubSeq(listing, 1, p) \o <<r>> \o SubSeq(listing, p + 1, Len(listing))
    BY <2>1 DEF Insert
  <2>3. r \in ListRow
    BY <2>1 DEF ListRow
  <2> HIDE DEF r
  <2>4. listing' \in Seq(ListRow) /\ NoneBack(listing, listing')
    BY <2>2, <2>3, <1>1, InsertedRow
  <2> QED
    BY <2>1, <2>4, <1>1, <1>2 DEF Insert
<1>4. CASE \E i \in DOMAIN listing : RemoveRow(i)
  <2>1. PICK i \in DOMAIN listing : RemoveRow(i)
    BY <1>4
  <2>2. /\ listing' = SubSeq(listing, 1, i - 1) \o SubSeq(listing, i + 1, Len(listing))
        /\ steadyIds' = steadyIds \ {listing[i].id} /\ shrunk' = TRUE
    BY <2>1 DEF RemoveRow
  <2>3. /\ \A j \in 1..(i - 1) : listing[j] \in ListRow
        /\ \A j \in (i + 1)..Len(listing) : listing[j] \in ListRow
    <3>1. \A j \in 1..Len(listing) : listing[j] \in ListRow
      BY <1>1, ElementOfSeq
    <3> QED
      BY <3>1, <1>1, <2>1
  <2>4. SubSeq(listing, 1, i - 1) \in Seq(ListRow)
    BY <2>3, <1>1, SubSeqProperties
  <2>5. SubSeq(listing, i + 1, Len(listing)) \in Seq(ListRow)
    BY <2>3, <1>1, SubSeqProperties
  <2>6. listing' \in Seq(ListRow)
    BY <2>2, <2>4, <2>5, ConcatProperties
  <2> QED
    BY <2>2, <2>6
<1>5. CASE \E i \in DOMAIN listing : Edit(i)
  <2>1. PICK e \in DOMAIN listing : Edit(e)
    BY <1>5
  <2>2. /\ listing' = [listing EXCEPT ![e].fits = ~@]
        /\ steadyIds' = steadyIds \ {listing[e].id}
        /\ shrunk' = (shrunk \/ listing[e].fits \/ InScan)
    BY <2>1 DEF Edit
  <2>3. \A i \in 1..Len(listing) : listing[i] \in ListRow
    BY <1>1, ElementOfSeq
  <2> DEFINE r == [listing[e] EXCEPT !.fits = ~@]
  <2>4. r \in ListRow
    <3>1. listing[e] \in ListRow
      BY <1>1, <2>1, <2>3
    <3> QED
      BY <3>1 DEF ListRow
  <2>5. listing' = [listing EXCEPT ![e] = r]
    BY <2>2
  <2> HIDE DEF r
  <2>6. /\ listing' \in Seq(ListRow) /\ Len(listing') = Len(listing)
        /\ \A i \in 1..Len(listing) : i # e => listing'[i] = listing[i]
    BY <2>1, <2>4, <2>5, <1>1, ExceptSeq
  <2>7. shrunk' \in BOOLEAN
    <3>1. listing[e] \in ListRow
      BY <1>1, <2>1, <2>3
    <3> QED
      BY <3>1, <2>2, <1>1, <1>2 DEF ListRow
  <2>8. ~listing[e].fits => NoneBack(listing, listing')
    BY <2>6, <1>1, EditedRow
  <2> QED
    BY <2>2, <2>6, <2>7, <2>8
<1> QED
  BY <1>3, <1>4, <1>5 DEF ListMoves

LEMMA ListMovesKeeps ==
  ASSUME PagingInv, ListMoves
  PROVE  PagingInv'
<1>1. /\ chain # NoChain /\ reading # "answering" /\ came' = came + 1
      /\ UNCHANGED <<counts, chain, cursor, reading, served, flagged>>
      /\ UNCHANGED <<pages, scanned, found, exhausted, total>>
  BY DEF ListMoves, callState
<1>2. /\ listing' \in Seq(ListRow) /\ steadyIds' \subseteq steadyIds
      /\ shrunk' \in BOOLEAN
      /\ ~shrunk' => ~shrunk /\ ~InScan /\ NoneBack(listing, listing')
  BY <1>1, ListingMoved
<1>3. Len(listing) \in Nat /\ Len(listing') \in Nat
  BY <1>2, LenProperties DEF PagingInv, PagingTypes
<1>4. PagingTypes'
  BY <1>1, <1>2 DEF PagingInv, PagingTypes
<1>5. CallBegins'
  BY <1>1 DEF PagingInv, CallBegins
<1>6. ScanKeeps'
  <2> SUFFICES ASSUME reading = "reading", chain.way # "page", ~shrunk'
               PROVE  /\ Prefix(listing', found, scanned) /\ ~exhausted /\ pages = 0
    BY <1>1 DEF ScanKeeps
  <2>1. pages = 0 /\ scanned = 0 /\ found = <<>> /\ ~exhausted
    BY <1>2 DEF PagingInv, CallBegins, InScan, PagingTypes
  <2>2. Prefix(listing', <<>>, 0)
    BY <1>3, RankZero DEF Prefix
  <2> QED
    BY <2>1, <2>2
<1>7. PageKeeps'
  BY <1>1 DEF PageKeeps
<1>8. NoneLost'
  <2> SUFFICES ASSUME ~flagged, ~shrunk', NEW id \in steadyIds'
               PROVE  id \in Served \/ (reading # "ended" /\ Ahead(listing', cursor, id))
    BY <1>1 DEF NoneLost, Served
  <2>1. id \in Served \/ (reading # "ended" /\ Ahead(listing, cursor, id))
    BY <1>2 DEF PagingInv, NoneLost
  <2>2. ASSUME Ahead(listing, cursor, id) PROVE Ahead(listing', cursor, id)
    <3>1. PICK i \in 1..Len(listing) :
            listing[i].id = id /\ listing[i].fits /\ cursor < Rank(listing, i)
      BY <2>2 DEF Ahead
    <3>2. PICK j \in 1..Len(listing') :
            listing'[j] = listing[i] /\ Rank(listing, i) <= Rank(listing', j)
      BY <3>1, <1>2 DEF NoneBack
    <3>3. cursor \in Nat /\ Rank(listing, i) \in Nat /\ Rank(listing', j) \in Nat
      BY <1>3, RankType DEF PagingInv, PagingTypes
    <3>4. cursor < Rank(listing', j)
      BY <3>1, <3>2, <3>3
    <3> QED
      BY <3>1, <3>2, <3>4 DEF Ahead
  <2> QED
    BY <2>1, <2>2
<1>9. InOrder'
  <2>1. came' # 0
    BY <1>1 DEF PagingInv, PagingTypes
  <2> QED
    BY <2>1 DEF InOrder
<1> QED
  BY <1>4, <1>5, <1>6, <1>7, <1>8, <1>9 DEF PagingInv

LEMMA PagingMoves == ASSUME PagingInv, [PagingNext]_pagingVars PROVE PagingInv'
<1>1. CASE \E c \in Chains : Start(c)
  BY <1>1, StartKeeps
<1>2. CASE chain # NoChain /\ ReadOnePage
  BY <1>2, ReadOnePageKeeps
<1>3. CASE chain # NoChain /\ StopAtBound
  BY <1>3, StopAtBoundKeeps
<1>4. CASE chain # NoChain /\ AnswerPage
  BY <1>4, AnswerPageKeeps
<1>5. CASE chain # NoChain /\ Follow
  BY <1>5, FollowKeeps
<1>6. CASE chain # NoChain /\ CallFails
  BY <1>6, CallFailsKeeps
<1>7. CASE ListMoves
  BY <1>7, ListMovesKeeps
<1>8. CASE UNCHANGED pagingVars
  <2>1. /\ UNCHANGED <<listing, counts, steadyIds, shrunk, came, chain, cursor, reading>>
        /\ UNCHANGED <<pages, scanned, found, exhausted, total, served, flagged>>
    BY <1>8 DEF pagingVars, listVars, callState
  <2>2. PagingTypes' /\ CallBegins'
    BY <2>1 DEF PagingInv, PagingTypes, CallBegins
  <2>3. ScanKeeps' /\ PageKeeps'
    BY <2>1 DEF PagingInv, ScanKeeps, PageKeeps
  <2>4. NoneLost' /\ InOrder'
    BY <2>1 DEF PagingInv, NoneLost, Served, InOrder
  <2> QED
    BY <2>2, <2>3, <2>4 DEF PagingInv
<1> QED
  BY <1>1, <1>2, <1>3, <1>4, <1>5, <1>6, <1>7, <1>8 DEF PagingNext

(* Ids that are those of different rows are different.                     *)
LEMMA NoneTwice ==
  ASSUME PagingInv, came = 0
  PROVE  Cardinality(Served) = Len(served)
<1> DEFINE n == Len(served)
<1>1. served \in Seq(ListIds) /\ n \in Nat /\ DOMAIN served = 1..n
  BY LenProperties DEF PagingInv, PagingTypes
<1>2. /\ \A i, j \in 1..Len(listing) : listing[i].id = listing[j].id => i = j
      /\ FirstOf(listing, served)
  BY DEF PagingInv, InOrder
<1>3. \A k \in 1..n : \E i \in 1..Len(listing) :
        listing[i].fits /\ Rank(listing, i) = k /\ listing[i].id = served[k]
  BY <1>2 DEF FirstOf
<1>4. ASSUME NEW k \in 1..n, NEW h \in 1..n, served[k] = served[h] PROVE k = h
  <2>1. PICK i \in 1..Len(listing) : Rank(listing, i) = k /\ listing[i].id = served[k]
    BY <1>3
  <2>2. PICK j \in 1..Len(listing) : Rank(listing, j) = h /\ listing[j].id = served[h]
    BY <1>3
  <2>3. i = j
    BY <2>1, <2>2, <1>2, <1>4
  <2> QED
    BY <2>1, <2>2, <2>3
<1>5. served \in [1..n -> Served] /\ \A id \in Served : \E k \in 1..n : served[k] = id
  <2>1. Served = {served[k] : k \in 1..n}
    BY <1>1 DEF Served
  <2>2. served = [k \in 1..n |-> served[k]]
    BY <1>1
  <2> QED
    BY <2>1, <2>2
<1> HIDE DEF n
<1>6. served \in Bijection(1..n, Served)
  BY <1>4, <1>5, Fun_IsBij
<1>7. ExistsBijection(1..n, Served)
  BY <1>6 DEF ExistsBijection
<1>8. IsFiniteSet(1..n) /\ Cardinality(1..n) = n
  BY <1>1, FS_Interval
<1>9. Cardinality(Served) = Cardinality(1..n)
  BY <1>7, <1>8, FS_Bijection
<1> QED
  BY <1>8, <1>9 DEF n

LEMMA PagingEnds == ASSUME PagingInv PROVE ChainComplete
<1>1. reading = "ended" /\ ~flagged /\ ~shrunk => steadyIds \subseteq Served
  BY DEF PagingInv, NoneLost
<1> QED
  BY <1>1, NoneTwice DEF ChainComplete

(* A caller who follows the cursors of a list tool to the end has got      *)
(* every row that has matched since the first call, whatever rows others   *)
(* add between the calls, unless an answer said that rows may be missing   *)
(* or a row was removed or stopped matching; and no row twice if nothing   *)
(* was changed.                                                            *)
THEOREM ChainIsComplete == PagingSpec => []ChainComplete
<1>1. PagingInit => PagingInv
  BY PagingBegins
<1>2. PagingInv /\ [PagingNext]_pagingVars => PagingInv'
  BY PagingMoves
<1>3. PagingInv => ChainComplete
  BY PagingEnds
<1> QED
  BY <1>1, <1>2, <1>3, PTL DEF PagingSpec
=============================================================================
