------------------------------- MODULE Paging -------------------------------
(***************************************************************************)
(* The list tools (src/tools/listTools.ts, src/tools/reportingListTools.ts)*)
(* and a caller who follows nextCursor from page to page.  WHMCS answers a *)
(* window of the rows it holds at that moment.  Three ways to a page:      *)
(*   "page"       one read, WHMCS filters and cuts the window;             *)
(*   "by_status"  list_client_domains with a status: WHMCS does not filter,*)
(*                pages are scanned until the window is full;              *)
(*   "report"     list_invoices and list_services: pages are scanned up to *)
(*                a limit, filtered and cut here.                          *)
(* A cursor is the offset in the filtered rows; a garbled one is offset 0. *)
(***************************************************************************)
EXTENDS Integers, Sequences, FiniteSets

CONSTANTS
  ListIds,       \* rows, by id
  Limits,        \* parameter limit
  FetchSizes,    \* parameter fetch_limit, or its default
  ScanLimits,    \* parameter scan_limit, or its default
  MaxPageSize,   \* config.MCP_MAX_PAGE_SIZE
  MaxScanPages,  \* MAX_SCAN_PAGES
  MaxScanItems,  \* MAX_SCAN_ITEMS
  MaxListMoves   \* bound on the changes that others make

PagingAssumption ==
  /\ Limits \subseteq 1..MaxPageSize
  /\ FetchSizes \subseteq Nat \ {0} /\ ScanLimits \subseteq Nat \ {0}
  /\ {MaxPageSize, MaxScanPages, MaxScanItems, MaxListMoves} \subseteq Nat
  /\ ListIds \subseteq Nat /\ IsFiniteSet(ListIds)

ASSUME PagingAssumption

VARIABLES
  listing,   \* external: the rows that WHMCS holds, in its order
  counts,    \* whether WHMCS tells totalresults
  chain,     \* what is asked for: [way, limit, fetch, scan], or NoChain
  cursor,    \* offset of the page that is asked for
  reading,   \* "idle", "reading", "answering" or "ended"
  pages,     \* reads of this call
  scanned,   \* rows that this call has read
  found,     \* those of them that are kept, in order
  exhausted, \* whether the last read showed the end of the rows
  total,     \* totalresults of the last read
  served,    \* ids of the rows that the chain has answered
  flagged,   \* whether an answer said that rows may be missing
  steadyIds, \* rows that have matched since the chain began
  shrunk,    \* whether a row was removed, no longer matches, or moved in a scan
  came       \* how often the list was changed

listVars == <<listing, counts, steadyIds, shrunk, came>>
callState == <<pages, scanned, found, exhausted, total>>
pagingVars == <<listVars, chain, cursor, reading, callState, served, flagged>>

NoChain == [way |-> "none", limit |-> 0, fetch |-> 0, scan |-> 0]

(* How many of the first n rows match; the rows that match, in order.       *)
Rank(rows, n) == Cardinality({i \in 1..n : rows[i].fits})
Fitting(rows) ==
  [k \in 1..Rank(rows, Len(rows)) |->
     rows[CHOOSE i \in DOMAIN rows : rows[i].fits /\ Rank(rows, i) = k]]

Smaller(m, n) == IF m < n THEN m ELSE n
Larger(m, n) == IF m > n THEN m ELSE n

WindowOf(rows, from, n) == SubSeq(rows, from + 1, Smaller(from + n, Len(rows)))

(* Rows that WHMCS counts and cuts windows of.                             *)
Source == IF chain.way = "page" THEN Fitting(listing) ELSE listing

(* list_invoices without date filters reads one page, of at least this.    *)
OnePage(limit) == [way |-> "report", limit |-> limit,
                   fetch |-> Larger(limit, MaxPageSize), scan |-> Larger(limit, MaxPageSize)]

Chains ==
  {[way |-> w, limit |-> l, fetch |-> MaxPageSize, scan |-> MaxScanItems] :
     w \in {"page", "by_status"}, l \in Limits}
    \cup {OnePage(l) : l \in Limits}
    \cup {[way |-> "report", limit |-> l, fetch |-> f, scan |-> s] :
            l \in Limits, f \in FetchSizes, s \in ScanLimits}

BeginCall ==
  /\ reading' = "reading"
  /\ pages' = 0 /\ scanned' = 0 /\ found' = <<>> /\ exhausted' = FALSE /\ total' = 0

Start(c) ==
  /\ chain = NoChain
  /\ chain' = c
  /\ steadyIds' = {listing[i].id : i \in {j \in DOMAIN listing : listing[j].fits}}
  /\ BeginCall
  /\ UNCHANGED <<listing, counts, shrunk, came, cursor, served, flagged>>

(* How many rows the next read asks for.                                   *)
Width ==
  CASE chain.way = "page" -> chain.limit
    [] chain.way = "by_status" -> MaxPageSize
    [] chain.way = "report" -> Smaller(chain.fetch, chain.scan - scanned)

From == IF chain.way = "page" THEN cursor ELSE scanned

(* Bounds that end a scan before its next read.                            *)
Capped ==
  CASE chain.way = "page" -> FALSE
    [] chain.way = "by_status" -> pages >= MaxScanPages \/ scanned >= MaxScanItems
    [] chain.way = "report" -> scanned >= chain.scan

(* The end of the rows: everything counted was read, the page is empty, or *)
(* shorter than asked for; a report without totalresults reads one page.   *)
ShowsEnd(rows, n) ==
  \/ Len(rows) = 0
  \/ counts /\ n >= Len(Source)
  \/ chain.way # "report" /\ Len(rows) < Width
  \/ chain.way = "report" /\ ~counts

WindowFull(kept) == chain.way = "by_status" /\ Len(kept) >= cursor + chain.limit

ReadOnePage ==
  /\ reading = "reading" /\ ~Capped
  /\ LET rows == WindowOf(Source, From, Width)
         kept == found \o Fitting(rows)
         n == From + Len(rows)
         over == ShowsEnd(rows, n) IN
     /\ pages' = pages + 1
     /\ scanned' = scanned + Len(rows)
     /\ found' = kept
     /\ exhausted' = over
     /\ total' = Len(Source)
     /\ reading' = IF over \/ WindowFull(kept) \/ chain.way = "page"
                   THEN "answering" ELSE "reading"
  /\ UNCHANGED <<listVars, chain, cursor, served, flagged>>

StopAtBound ==
  /\ reading = "reading" /\ Capped
  /\ reading' = "answering"
  /\ UNCHANGED <<listVars, chain, cursor, callState, served, flagged>>

PageRows == IF chain.way = "page" THEN found ELSE WindowOf(found, cursor, chain.limit)

\* Variant with a defect: a scan that has read everything has no next page.
HasMoreUnlessExhausted == Len(PageRows) = chain.limit /\ ~exhausted

(* Whether the answer has a nextCursor.                                    *)
HasMore ==
  /\ Len(PageRows) = chain.limit
  /\ CASE chain.way = "page" -> ~exhausted
       [] chain.way = "by_status" -> TRUE
       [] chain.way = "report" -> cursor + Len(PageRows) < Len(found)

NextCursor == cursor + Len(PageRows)

(* warning of a capped scan; complete_scan that is false or null.          *)
Incomplete ==
  CASE chain.way = "page" -> FALSE
    [] chain.way = "by_status" -> ~exhausted /\ ~WindowFull(found)
    [] chain.way = "report" -> ~counts \/ scanned < total

AnswerPage ==
  /\ reading = "answering"
  /\ served' = served \o [i \in DOMAIN PageRows |-> PageRows[i].id]
  /\ flagged' = (flagged \/ Incomplete)
  /\ IF HasMore
     THEN /\ cursor' = NextCursor
          /\ reading' = "idle"
     ELSE /\ reading' = "ended"
          /\ UNCHANGED cursor
  /\ UNCHANGED <<listVars, chain, callState>>

(* The caller asks for the page at the cursor, again after a failure.      *)
Follow ==
  /\ reading = "idle"
  /\ BeginCall
  /\ UNCHANGED <<listVars, chain, cursor, served, flagged>>

(* A read fails, or the rate limiter has no token for it.                  *)
CallFails ==
  /\ reading = "reading"
  /\ reading' = "idle"
  /\ UNCHANGED <<listVars, chain, cursor, callState, served, flagged>>

InScan == reading = "reading" /\ pages > 0

(* Others insert a row, remove one, or change whether it matches.          *)
Insert(id, fits) ==
  /\ \A i \in DOMAIN listing : listing[i].id # id
  /\ \E i \in 0..Len(listing) :
       listing' = SubSeq(listing, 1, i) \o <<[id |-> id, fits |-> fits]>>
                    \o SubSeq(listing, i + 1, Len(listing))
  /\ shrunk' = (shrunk \/ InScan)
  /\ UNCHANGED steadyIds

RemoveRow(i) ==
  /\ listing' = SubSeq(listing, 1, i - 1) \o SubSeq(listing, i + 1, Len(listing))
  /\ steadyIds' = steadyIds \ {listing[i].id}
  /\ shrunk' = TRUE

Edit(i) ==
  /\ listing' = [listing EXCEPT ![i].fits = ~@]
  /\ steadyIds' = steadyIds \ {listing[i].id}
  /\ shrunk' = (shrunk \/ listing[i].fits \/ InScan)

(* Not between a read's answer and the answer of the call that it ends.    *)
ListMoves ==
  /\ chain # NoChain /\ reading # "answering" /\ came < MaxListMoves
  /\ \/ \E id \in ListIds, fits \in BOOLEAN : Insert(id, fits)
     \/ \E i \in DOMAIN listing : RemoveRow(i) \/ Edit(i)
  /\ came' = came + 1
  /\ UNCHANGED <<counts, chain, cursor, reading, callState, served, flagged>>

Listings ==
  {l \in UNION {[1..n -> [id : ListIds, fits : BOOLEAN]] : n \in 0..Cardinality(ListIds)} :
     \A i, j \in DOMAIN l : i < j => l[i].id < l[j].id}

PagingStart ==
  /\ chain = NoChain /\ cursor = 0 /\ reading = "idle"
  /\ pages = 0 /\ scanned = 0 /\ found = <<>> /\ exhausted = FALSE /\ total = 0
  /\ served = <<>> /\ flagged = FALSE /\ steadyIds = {} /\ shrunk = FALSE /\ came = 0

PagingInit == listing \in Listings /\ counts \in BOOLEAN /\ PagingStart

PagingNext ==
  \/ \E c \in Chains : Start(c)
  \/ chain # NoChain /\ (ReadOnePage \/ StopAtBound \/ AnswerPage \/ Follow \/ CallFails)
  \/ ListMoves

PagingSpec == PagingInit /\ [][PagingNext]_pagingVars

-----------------------------------------------------------------------------
(* Properties.                                                             *)

Served == {served[i] : i \in DOMAIN served}

(* A caller who follows the cursors to the end has got every row that has  *)
(* matched since the first call, unless an answer said that the scan was   *)
(* not complete, whatever rows are added between the calls; and no row     *)
(* twice if nothing was changed.                                           *)
ChainComplete ==
  /\ reading = "ended" /\ ~flagged /\ ~shrunk => steadyIds \subseteq Served
  /\ came = 0 => Cardinality(Served) = Len(served)

=============================================================================
