------------------------------- MODULE NotNode -------------------------------
(***************************************************************************)
(* The NOT condition node of the query engine (NotNode, query_engine.cpp). *)
(*                                                                         *)
(* A NotNode negates an inner query and remembers, for the row range it    *)
(* scanned most recently, the first row where the negation holds:          *)
(* [m_known_range_start, m_known_range_end) and m_first_in_known_range.    *)
(* find_first_local(start, end) dispatches over the five positions of the *)
(* request relative to that known range, answering from the cache where    *)
(* it can and widening the cache as it goes.                               *)
(*                                                                         *)
(* The inner query is abstracted to the set of rows of the current cluster *)
(* where it matches; evaluate_at(i) holds exactly at the rows outside it.  *)
(* A caller may issue any sequence of requests [start, end) within the     *)
(* cluster, and a cluster change replaces the inner match set and resets   *)
(* the cache.                                                              *)
(***************************************************************************)
EXTENDS Naturals, FiniteSetsExt

CONSTANTS
    N       \* number of rows in the current cluster

ASSUME N \in Nat \ {0}

Rows == 0 .. N - 1

\* not_found is npos, the largest size_t: above every row and every range end.
NotFound == N + 1

\* Every request the engine's callers issue: start <= end <= cluster size.
\* (find_first passes start < end; aggregate_local may pass start = end.)
Requests == {r \in (0 .. N) \X (0 .. N) : r[1] <= r[2]}

VARIABLES
    inner,          \* rows of the cluster where the inner query m_condition matches
    knownStart,     \* m_known_range_start
    knownEnd,       \* m_known_range_end
    firstInKnown,   \* m_first_in_known_range
    lastCall        \* history: the latest request and what it returned

vars == <<inner, knownStart, knownEnd, firstInKnown, lastCall>>

\* Before any request, and right after a cluster change, there is no call to
\* speak of: it is recorded as the empty request, whose answer is not_found.
NoCall == [start |-> 0, end |-> 0, result |-> NotFound]

Return(s, e, r) == lastCall' = [start |-> s, end |-> e, result |-> r]

(***************************************************************************)
(* Helpers of NotNode                                                      *)
(***************************************************************************)

\* evaluate_at: the inner query has no match in [i, i+1).
evaluate_at(i) == i \notin inner

\* A plausible slip: answering the range end, not not_found, for a range
\* without a match.
find_first_loop_end_sentinel(s, e) ==
    LET hits == {i \in s .. (e - 1) : evaluate_at(i)}
    IN  IF hits = {} THEN e ELSE Min(hits)

\* find_first_loop: the first row of [s, e) where evaluate_at holds.
find_first_loop(s, e) ==
    LET hits == {i \in s .. (e - 1) : evaluate_at(i)}
    IN  IF hits = {} THEN NotFound ELSE Min(hits)

update_known(s, e, f) ==
    /\ knownStart' = s
    /\ knownEnd' = e
    /\ firstInKnown' = f

(***************************************************************************)
(* The five cases of find_first_local                                      *)
(***************************************************************************)

\* [    ######    ]  the request covers the known range.
find_first_covers_known(s, e) ==
    LET below == find_first_loop(s, knownStart)
        above == find_first_loop(knownEnd, e)
    IN  \/ /\ below # NotFound
           /\ update_known(s, knownEnd, below)
           /\ Return(s, e, below)
        \/ /\ below = NotFound
           /\ firstInKnown # NotFound
           /\ update_known(s, knownEnd, firstInKnown)
           /\ Return(s, e, firstInKnown)
        \/ /\ below = NotFound
           /\ firstInKnown = NotFound
           /\ update_known(s, e, above)
           /\ Return(s, e, above)

\* ###[#####]###  the known range covers the request; the cache is kept.
find_first_covered_by_known(s, e) ==
    /\ \/ /\ firstInKnown # NotFound
          /\ firstInKnown > e
          /\ Return(s, e, NotFound)
       \/ /\ firstInKnown # NotFound
          /\ firstInKnown <= e
          /\ firstInKnown >= s
          /\ Return(s, e, firstInKnown)
       \/ /\ firstInKnown = NotFound \/ firstInKnown < s
          /\ Return(s, e, find_first_loop(s, e))
    /\ UNCHANGED <<knownStart, knownEnd, firstInKnown>>

\* [   ###]#####  partial overlap at the lower end.
find_first_overlap_lower(s, e) ==
    LET below  == find_first_loop(s, knownStart)
        result == IF below = NotFound THEN firstInKnown ELSE below
    IN  /\ update_known(s, knownEnd, result)
        /\ Return(s, e, IF result < e THEN result ELSE NotFound)

\* A plausible slip in the upper-overlap case: when the cached match lies
\* before start, caching the freshly scanned result instead of the older,
\* still-first match of the widened range.
find_first_overlap_upper_cache_result(s, e) ==
    \/ /\ firstInKnown # NotFound
       /\ firstInKnown >= s
       /\ update_known(knownStart, e, firstInKnown)
       /\ Return(s, e, firstInKnown)
    \/ /\ firstInKnown # NotFound
       /\ firstInKnown < s
       /\ update_known(knownStart, e, find_first_loop(s, e))
       /\ Return(s, e, find_first_loop(s, e))
    \/ /\ firstInKnown = NotFound
       /\ update_known(knownStart, e, find_first_loop(knownEnd, e))
       /\ Return(s, e, find_first_loop(knownEnd, e))

\* A plausible slip: reusing the cached match without checking that it is
\* not before start.
find_first_overlap_upper_no_start_check(s, e) ==
    \/ /\ firstInKnown # NotFound
       /\ update_known(knownStart, e, firstInKnown)
       /\ Return(s, e, firstInKnown)
    \/ /\ firstInKnown = NotFound
       /\ update_known(knownStart, e, find_first_loop(knownEnd, e))
       /\ Return(s, e, find_first_loop(knownEnd, e))

\* ####[###    ]  partial overlap at the upper end.
find_first_overlap_upper(s, e) ==
    \/ /\ firstInKnown # NotFound
       /\ firstInKnown >= s
       /\ update_known(knownStart, e, firstInKnown)
       /\ Return(s, e, firstInKnown)
    \/ /\ firstInKnown # NotFound
       /\ firstInKnown < s
       /\ update_known(knownStart, e, firstInKnown)
       /\ Return(s, e, find_first_loop(s, e))
    \/ /\ firstInKnown = NotFound
       /\ LET above == find_first_loop(knownEnd, e)
          IN  /\ update_known(knownStart, e, above)
              /\ Return(s, e, above)

\* ### [    ]  or  [    ] ####  no overlap: the cache is replaced only by a
\* strictly wider range.
find_first_no_overlap(s, e) ==
    LET result == find_first_loop(s, e)
    IN  /\ Return(s, e, result)
        /\ \/ /\ e - s > knownEnd - knownStart
              /\ update_known(s, e, result)
           \/ /\ e - s <= knownEnd - knownStart
              /\ UNCHANGED <<knownStart, knownEnd, firstInKnown>>

(***************************************************************************)
(* find_first_local: the if-chain choosing the case, in the code's order.  *)
(***************************************************************************)
CoversKnown(s, e) == s <= knownStart /\ e >= knownEnd
CoveredByKnown(s, e) == s >= knownStart /\ e <= knownEnd
OverlapsLower(s, e) == s < knownStart /\ e >= knownStart
OverlapsUpper(s, e) == s <= knownEnd /\ e > knownEnd

find_first_local(s, e) ==
    /\ \/ /\ CoversKnown(s, e)
          /\ find_first_covers_known(s, e)
       \/ /\ ~CoversKnown(s, e) /\ CoveredByKnown(s, e)
          /\ find_first_covered_by_known(s, e)
       \/ /\ ~CoversKnown(s, e) /\ ~CoveredByKnown(s, e) /\ OverlapsLower(s, e)
          /\ find_first_overlap_lower(s, e)
       \/ /\ ~CoversKnown(s, e) /\ ~CoveredByKnown(s, e) /\ ~OverlapsLower(s, e)
          /\ OverlapsUpper(s, e)
          /\ find_first_overlap_upper(s, e)
       \/ /\ ~CoversKnown(s, e) /\ ~CoveredByKnown(s, e) /\ ~OverlapsLower(s, e)
          /\ ~OverlapsUpper(s, e)
          /\ find_first_no_overlap(s, e)
    /\ UNCHANGED inner

(***************************************************************************)
(* Binding: init() and cluster_changed() start with an empty known range.  *)
(***************************************************************************)
ResetKnown ==
    /\ knownStart' = 0
    /\ knownEnd' = 0
    /\ firstInKnown' = NotFound

\* set_cluster -> cluster_changed: the rows now belong to another cluster,
\* where the inner query matches a different set of rows.
cluster_changed ==
    /\ \E rows \in SUBSET Rows : inner' = rows
    /\ ResetKnown
    /\ lastCall' = NoCall

Init ==
    /\ inner \in SUBSET Rows
    /\ knownStart = 0
    /\ knownEnd = 0
    /\ firstInKnown = NotFound
    /\ lastCall = NoCall

Next ==
    \/ \E r \in Requests : find_first_local(r[1], r[2])
    \/ cluster_changed

Spec == Init /\ [][Next]_vars

(***************************************************************************)
(* Properties                                                              *)
(***************************************************************************)

TypeOK ==
    /\ inner \subseteq Rows
    /\ knownStart \in 0 .. N /\ knownEnd \in 0 .. N
    /\ firstInKnown \in Rows \cup {NotFound}
    /\ lastCall \in [start : 0 .. N, end : 0 .. N, result : Rows \cup {NotFound}]

\* The cache the NOT node carries from one find_first_local call to the next
\* is exact: m_first_in_known_range is the first row of the known range where
\* the negation holds, or not_found if there is none.  Every case of
\* find_first_local that widens the range must keep this true.
KnownRangeExact ==
    /\ knownStart <= knownEnd
    /\ firstInKnown = find_first_loop(knownStart, knownEnd)

\* What ParentNode::find_first over several nodes relies on (a result
\* m # start means "advance to m", and m >= end ends the loop) and what
\* aggregate_local's probes find_first_local(r, r + 1) rely on (a result # r
\* means "no match"): a result inside [start, end) is the first matching
\* row there, and a result at or past end only ever means there is no match
\* in the range.  aggregate_local's own call find_first_local(pos, end) and
\* a one-node find_first read only not_found as "no match"; for them the
\* stricter FindFirstLocalExact below is what counts.
FindFirstLocalSound ==
    LET c == lastCall IN
    \/ /\ c.result < c.end
       /\ c.result = find_first_loop(c.start, c.end)
    \/ /\ c.result >= c.end
       /\ find_first_loop(c.start, c.end) = NotFound

\* The contract of find_first_local stated by the design (section 3, item 2
\* and section 4.1): for a non-empty request, as ParentNode::find_first
\* issues them, the result is the first matching row of [start, end), or
\* not_found; never a row outside the requested range.
FindFirstLocalExact ==
    lastCall.start < lastCall.end =>
        lastCall.result = find_first_loop(lastCall.start, lastCall.end)

=============================================================================
