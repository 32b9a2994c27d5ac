--------------------------- MODULE ListSortDistinct ---------------------------
(***************************************************************************)
(* ConstLstIf<T>::sort and ConstLstIf<T>::distinct (list.cpp) on a list  *)
(* of nullable doubles, with the caller's index vector reused from call  *)
(* to call, as the code supports ("If list size has increased, just add  *)
(* the missing indices").                                                 *)
(*                                                                         *)
(* The elements are compared with the element type's own < and == (of    *)
(* util::Optional<double>: null below every value; IEEE for the values,   *)
(* so -0 == +0 and NaN is neither below, above nor equal to anything).    *)
(* For the short lists modelled here (at most 16 elements) libstdc++'s    *)
(* std::sort is its insertion sort, which is what StdSort computes.       *)
(***************************************************************************)
EXTENDS Naturals, SequencesExt

CONSTANTS
    Vals,           \* element values: a subset of {"null", "nan", "mz", "pz", "one"}
    MaxList,        \* longest list (at most 16)
    ReuseDistinct   \* whether the caller hands a distinct result to sort

ASSUME MaxList <= 16

\* The numbers behind the non-null, non-NaN values (-0.0, +0.0, 1.0).
Num == [mz |-> 0, pz |-> 0, one |-> 1]

\* Optional<double>::operator< and operator==.
Less(a, b) ==
    CASE b = "null"                -> FALSE
      [] a = "null"                -> TRUE
      [] a = "nan" \/ b = "nan"    -> FALSE
      [] OTHER                     -> Num[a] < Num[b]
Equal(a, b) ==
    CASE a = "null" \/ b = "null"  -> a = b
      [] a = "nan" \/ b = "nan"    -> FALSE
      [] OTHER                     -> Num[a] = Num[b]

VARIABLES
    list,       \* the list's values, position i+1 holding index i
    indices,    \* the caller's index vector
    fromDistinct, \* indices holds a distinct result
    lastCall,   \* history: the latest sort or distinct call
    replica     \* the list as a follower replaying the replication log has it

vars == <<list, indices, fromDistinct, lastCall, replica>>

None == [op |-> "none"]

(***************************************************************************)
(* std::sort (libstdc++ __insertion_sort, lists of at most 16 elements)   *)
(***************************************************************************)

\* The comparators the calls hand to std::sort: m_tree->get(i1) <
\* m_tree->get(i2) ("asc"), its mirror ("desc"), or plain index order
\* ("index", distinct restoring the list order).
Lt(cmp, i1, i2) ==
    CASE cmp = "asc"  -> Less(list[i1 + 1], list[i2 + 1])
      [] cmp = "desc" -> Less(list[i2 + 1], list[i1 + 1])
      [] OTHER        -> i1 < i2

\* One step of __insertion_sort for the element at position i: to the
\* front if it is below the first element, otherwise moved left past the
\* elements it is below (__unguarded_linear_insert), i.e. placed after
\* the last earlier element it is not below.
InsertOne(a, i, cmp) ==
    LET v == a[i]
        rest == RemoveAt(a, i)
        p == IF Lt(cmp, v, a[1]) THEN 0 ELSE Max({q \in 1 .. i - 1 : ~Lt(cmp, v, a[q])})
    IN  InsertAt(rest, p + 1, v)

StdSort(a, cmp) ==
    LET RECURSIVE From(_, _)
        From(b, i) == IF i > Len(b) THEN b ELSE From(InsertOne(b, i, cmp), i + 1)
    IN  IF Len(a) < 2 THEN a ELSE From(a, 2)

\* std::unique with the elements' ==: an index is dropped when its value
\* equals that of the last index kept.
StdUnique(a) ==
    LET RECURSIVE U(_, _)
        U(kept, rest) ==
            IF rest = <<>> THEN kept
            ELSE IF kept # <<>> /\ Equal(list[Last(kept) + 1], list[Head(rest) + 1])
                 THEN U(kept, Tail(rest))
            ELSE U(Append(kept, Head(rest)), Tail(rest))
    IN  U(<<>>, a)

(***************************************************************************)
(* ConstLstIf<T>::sort and distinct                                        *)
(***************************************************************************)

\* The comparator of sort for a direction.
Dir(ascending) == IF ascending THEN "asc" ELSE "desc"

\* sort with the append loop starting one past the old size.
SortIndices_skip_first_new(idx, ascending) ==
    LET sz == Len(list)
        kept == IF sz < Len(idx) THEN <<>> ELSE idx
    IN  StdSort(kept \o [k \in 2 .. sz - Len(kept) |-> Len(kept) + k - 1], Dir(ascending))

\* sort with the comparators of the two directions exchanged.
SortIndices_swapped(idx, ascending) ==
    LET sz == Len(list)
        kept == IF sz < Len(idx) THEN <<>> ELSE idx
    IN  StdSort(kept \o [k \in 1 .. sz - Len(kept) |-> Len(kept) + k - 1], Dir(~ascending))

\* ConstLstIf<T>::sort(indices, ascending): start over when the list has
\* shrunk, otherwise keep the vector and append sz2 .. sz-1; then
\* std::sort the vector with the comparator.
SortIndices(idx, ascending) ==
    LET sz == Len(list)
        kept == IF sz < Len(idx) THEN <<>> ELSE idx
    IN  StdSort(kept \o [k \in 1 .. sz - Len(kept) |-> Len(kept) + k - 1], Dir(ascending))

\* distinct without restoring the original order.
DistinctIndices_sorted_only(order) ==
    StdUnique(SortIndices(<<>>, order # "desc"))

\* ConstLstIf<T>::distinct(indices, sort_order): clear, sort (ascending
\* without a sort order), std::unique with ==, erase the duplicates, and
\* without a sort order std::sort the indices back into ascending order.
DistinctIndices(order) ==
    LET u == StdUnique(SortIndices(<<>>, order # "desc"))
    IN  IF order = "none" THEN StdSort(u, "index") ELSE u

(***************************************************************************)
(* Replication of the edits: Lst<Optional<Double>>::set_repl, insert_repl  *)
(* and ConstLstBase::erase_repl, and the follower replaying the log        *)
(***************************************************************************)

\* The instruction set_repl writes: a value, or null for an empty Optional.
set_repl(ndx, v) ==
    IF v # "null" THEN [op |-> "list_set_double", ndx |-> ndx, value |-> v]
                  ELSE [op |-> "list_set_null", ndx |-> ndx]

\* A plausible slip: the null case of insert_repl copied from set_repl.
insert_repl_null_as_set(ndx, v) ==
    IF v # "null" THEN [op |-> "list_insert_double", ndx |-> ndx, value |-> v]
                  ELSE [op |-> "list_set_null", ndx |-> ndx]

insert_repl(ndx, v) ==
    IF v # "null" THEN [op |-> "list_insert_double", ndx |-> ndx, value |-> v]
                  ELSE [op |-> "list_insert_null", ndx |-> ndx]

erase_repl(ndx) == [op |-> "list_erase", ndx |-> ndx]

\* The follower applies an instruction to its copy of the list (the
\* replication log's replay, outside src).
ApplyList(r, i) ==
    CASE i.op = "list_set_double"    -> [r EXCEPT ![i.ndx + 1] = i.value]
      [] i.op = "list_set_null"      -> [r EXCEPT ![i.ndx + 1] = "null"]
      [] i.op = "list_insert_double" -> InsertAt(r, i.ndx + 1, i.value)
      [] i.op = "list_insert_null"   -> InsertAt(r, i.ndx + 1, "null")
      [] i.op = "list_erase"         -> RemoveAt(r, i.ndx + 1)

(***************************************************************************)
(* Actions                                                                 *)
(***************************************************************************)

\* The caller hands sort either the vector it kept (reuse) or a new one.
sort(ascending, reuse) ==
    /\ reuse => ReuseDistinct \/ ~fromDistinct
    /\ indices' = SortIndices(IF reuse THEN indices ELSE <<>>, ascending)
    /\ fromDistinct' = FALSE
    /\ lastCall' = [op |-> "sort", ascending |-> ascending]
    /\ UNCHANGED <<list, replica>>

distinct(order) ==
    /\ indices' = DistinctIndices(order)
    /\ fromDistinct' = TRUE
    /\ lastCall' = [op |-> "distinct", order |-> order]
    /\ UNCHANGED <<list, replica>>

\* insert without the list's size bound.
insert_unbounded(ndx, v) ==
    /\ ndx <= Len(list)
    /\ list' = InsertAt(list, ndx + 1, v)
    /\ replica' = ApplyList(replica, insert_repl(ndx, v))
    /\ lastCall' = None
    /\ UNCHANGED <<indices, fromDistinct>>

\* The list changes between calls; the caller keeps its vector.  Each edit
\* writes its instruction to the replication log, which the follower
\* replays in order.
insert(ndx, v) ==
    /\ Len(list) < MaxList /\ ndx <= Len(list)
    /\ list' = InsertAt(list, ndx + 1, v)
    /\ replica' = ApplyList(replica, insert_repl(ndx, v))
    /\ lastCall' = None
    /\ UNCHANGED <<indices, fromDistinct>>

erase(ndx) ==
    /\ ndx < Len(list)
    /\ list' = RemoveAt(list, ndx + 1)
    /\ replica' = ApplyList(replica, erase_repl(ndx))
    /\ lastCall' = None
    /\ UNCHANGED <<indices, fromDistinct>>

set(ndx, v) ==
    /\ ndx < Len(list)
    /\ list' = [list EXCEPT ![ndx + 1] = v]
    /\ replica' = ApplyList(replica, set_repl(ndx, v))
    /\ lastCall' = None
    /\ UNCHANGED <<indices, fromDistinct>>

Init ==
    /\ list = <<>>
    /\ indices = <<>>
    /\ fromDistinct = FALSE
    /\ lastCall = None
    /\ replica = <<>>

Next ==
    \/ \E asc, reuse \in BOOLEAN : sort(asc, reuse)
    \/ \E order \in {"none", "asc", "desc"} : distinct(order)
    \/ \E ndx \in 0 .. MaxList - 1, v \in Vals : insert(ndx, v) \/ set(ndx, v)
    \/ \E ndx \in 0 .. MaxList - 1 : erase(ndx)

Spec == Init /\ [][Next]_vars

(***************************************************************************)
(* Properties                                                              *)
(***************************************************************************)

TypeOK ==
    /\ list \in BoundedSeq(Vals, MaxList)
    /\ indices \in BoundedSeq(0 .. MaxList - 1, MaxList)
    /\ fromDistinct \in BOOLEAN
    /\ replica \in BoundedSeq(Vals, MaxList)

\* The design's order of values (null, then NaN, then numbers by value).
Rank(v) == CASE v = "null" -> 0 [] v = "nan" -> 1 [] OTHER -> 2 + Num[v]

Positions == 0 .. Len(list) - 1

\* After every sort handed a fresh vector or the vector an earlier sort
\* returned, with the list changed since, the vector holds every position
\* of the list exactly once (the sz2 .. sz-1 append of ConstLstIf::sort).
\* A vector distinct left behind is excluded unless ReuseDistinct.
SortYieldsPermutation ==
    lastCall.op = "sort" => Len(indices) = Len(list) /\ ToSet(indices) = Positions

\* After every sort the values at the returned positions are in the
\* design's order (nulls first, then NaN, then by value), ascending or
\* descending as asked.
SortOrdersValues ==
    lastCall.op = "sort" =>
        \A k \in 1 .. Len(indices) - 1 :
            LET r1 == Rank(list[indices[k] + 1])
                r2 == Rank(list[indices[k + 1] + 1])
            IN  IF lastCall.ascending THEN r1 <= r2 ELSE r1 >= r2

\* Positions holding the first occurrence of their value (by ==).
FirstOccurrences ==
    {i \in Positions : \A j \in 0 .. i - 1 : ~Equal(list[j + 1], list[i + 1])}

\* distinct keeps exactly one position per distinct value, the first one,
\* each once; without a sort order they come back in list order.
DistinctKeepsFirst ==
    lastCall.op = "distinct" =>
        /\ Len(indices) = Cardinality(FirstOccurrences)
        /\ ToSet(indices) = FirstOccurrences
        /\ lastCall.order = "none" => indices = SetToSortSeq(FirstOccurrences, <)

\* A follower replaying the log of set_repl, insert_repl and erase_repl
\* holds the same list as the writer after every edit, nulls included:
\* each instruction's kind and index agree with the change the edit made.
ReplicaMatchesList == replica = list

=============================================================================
