-------------------------- MODULE IndexedStringEqual --------------------------
(***************************************************************************)
(* Index-accelerated string equality: StringNodeEqualBase::init,           *)
(* StringNode<Equal>::_search_index_init and the indexed branch of         *)
(* StringNodeEqualBase::find_first_local (query_engine.cpp).               *)
(*                                                                         *)
(* At init the node asks the search index for every object whose string    *)
(* equals the needle: a key-sorted list m_index_matches[m_results_start    *)
(* .. m_results_end).  During the scan it walks that list with a cursor    *)
(* (m_results_ndx, m_actual_key) while the engine visits clusters and row  *)
(* ranges; a request whose first key is below the previous one            *)
(* (m_last_start_key) sends the cursor back to the start of the list.      *)
(*                                                                         *)
(* The table is a fixed sequence of clusters, each a sequence of object    *)
(* keys, ascending across the table.  The index content is the set of keys *)
(* holding the needle.  Requests may come in any order, as the design says *)
(* the node must tolerate non-monotonic ranges.                            *)
(*                                                                         *)
(* An OR of equalities on the same column is fused into one node by        *)
(* StringNode<Equal>::do_consume_condition: the other node's value joins   *)
(* this node's needle set and the search index is turned off, so the scan  *)
(* goes to _find_first_local and its haystack search over the needles.     *)
(* String values are abstracted to two: this node's own m_value ("self")   *)
(* and the value of a consumed node ("other"); otherKeys are the objects   *)
(* holding the latter.                                                      *)
(*                                                                         *)
(* The case-insensitive node StringNode<EqualIns> shares the cursor walk:  *)
(* its _search_index_init materialises the index's case-insensitive answer *)
(* as a key vector and leaves m_last_start_key as the previous scan left  *)
(* it; its _find_first_local compares row by row; it fuses no conditions.  *)
(* ins tells which of the two classes the node is.                        *)
(***************************************************************************)
EXTENDS Integers, Sequences, FiniteSetsExt

CONSTANTS
    Layout      \* Layout[c]: the object keys of cluster c, row by row

ASSUME Layout # <<>> /\ \A c \in DOMAIN Layout : Layout[c] # <<>>

Clusters == DOMAIN Layout
AllKeys == UNION {{Layout[c][i] : i \in DOMAIN Layout[c]} : c \in Clusters}
MaxRows == Max({Len(Layout[c]) : c \in Clusters})

NullKey == -1               \* ObjKey(): below every real key
NotFound == MaxRows + 1     \* npos

VARIABLES
    matchKeys,      \* keys of the objects whose string equals the needle
    resultsEnd,     \* m_results_end (m_results_start is 0)
    resultsNdx,     \* m_results_ndx
    actualKey,      \* m_actual_key
    lastStartKey,   \* m_last_start_key
    lastCall,       \* history: the latest request and its result
    otherKeys,      \* keys of the objects whose string equals the other value
    hasIndex,       \* m_has_search_index
    needles,        \* m_needles, as the values it holds
    accepted,       \* history: the values of every condition fused into the node
    ins             \* the node is a StringNode<EqualIns>, not a StringNode<Equal>

vars == <<matchKeys, resultsEnd, resultsNdx, actualKey, lastStartKey, lastCall,
          otherKeys, hasIndex, needles, accepted, ins>>
fuseVars == <<otherKeys, hasIndex, needles, accepted, ins>>

Strs == {"self", "other"}

\* The objects holding string v.
KeysOf(v) == IF v = "self" THEN matchKeys ELSE otherKeys

\* get_key(ndx): entry ndx (from 0) of the index's key-ordered answer,
\* m_index_matches.
get_key(ndx) ==
    CHOOSE k \in matchKeys : Cardinality({j \in matchKeys : j < k}) = ndx

\* Cluster::get_real_key(row)
get_real_key(c, row) == Layout[c][row + 1]

\* Cluster::lower_bound_key(key): the first row whose key is not below key.
lower_bound_key(c, k) ==
    Min({row \in 0 .. Len(Layout[c]) - 1 : get_real_key(c, row) >= k})

NoCall == [cluster |-> 1, start |-> 0, end |-> 0, result |-> NotFound]

(***************************************************************************)
(* StringNodeEqualBase::init -> StringNode<Equal>::_search_index_init      *)
(***************************************************************************)
\* A plausible slip: taking the index's end position as inclusive.
search_index_init_inclusive_end ==
    /\ hasIndex
    /\ lastStartKey' = NullKey
    /\ resultsNdx' = 0
    /\ \/ /\ Cardinality(matchKeys) = 0
          /\ resultsEnd' = 0
          /\ UNCHANGED actualKey
       \/ /\ Cardinality(matchKeys) = 1
          /\ resultsEnd' = 1
          /\ actualKey' = get_key(0)
       \/ /\ Cardinality(matchKeys) > 1
          /\ resultsEnd' = Cardinality(matchKeys) - 1
          /\ actualKey' = get_key(0)
    /\ lastCall' = NoCall
    /\ UNCHANGED <<matchKeys, otherKeys, hasIndex, needles, accepted, ins>>

\* StringNodeEqualBase::init calls _search_index_init only with an index.
search_index_init ==
    /\ ~ins
    /\ hasIndex
    /\ lastStartKey' = NullKey
    /\ resultsNdx' = 0
    /\ \/ /\ Cardinality(matchKeys) = 0      \* FindRes_not_found
          /\ resultsEnd' = 0
          /\ UNCHANGED actualKey
       \/ /\ Cardinality(matchKeys) = 1      \* FindRes_single (or primary key hit)
          /\ resultsEnd' = 1
          /\ actualKey' = get_key(0)
       \/ /\ Cardinality(matchKeys) > 1      \* FindRes_column
          /\ resultsEnd' = Cardinality(matchKeys)
          /\ actualKey' = get_key(0)
    /\ lastCall' = NoCall
    /\ UNCHANGED <<matchKeys, otherKeys, hasIndex, needles, accepted, ins>>

\* A plausible slip: re-filling m_index_matches without rewinding
\* m_results_ndx.
search_index_init_ins_keep_ndx ==
    /\ ins
    /\ hasIndex
    /\ resultsNdx' = IF resultsNdx <= Cardinality(matchKeys) THEN resultsNdx ELSE 0
    /\ resultsEnd' = Cardinality(matchKeys)
    /\ actualKey' = IF matchKeys # {} THEN get_key(0) ELSE actualKey
    /\ lastCall' = NoCall
    /\ UNCHANGED <<lastStartKey, matchKeys, otherKeys, hasIndex, needles, accepted, ins>>

\* StringNode<EqualIns>::_search_index_init: find_all(value, true) into
\* m_index_matches; m_actual_key is set only for a non-empty answer, and
\* m_last_start_key keeps the value the previous scan left.
search_index_init_ins ==
    /\ ins
    /\ hasIndex
    /\ resultsNdx' = 0
    /\ resultsEnd' = Cardinality(matchKeys)
    /\ actualKey' = IF matchKeys # {} THEN get_key(0) ELSE actualKey
    /\ lastCall' = NoCall
    /\ UNCHANGED <<lastStartKey, matchKeys, otherKeys, hasIndex, needles, accepted, ins>>

(***************************************************************************)
(* StringNodeEqualBase::find_first_local, indexed branch                   *)
(***************************************************************************)

\* A plausible slip: stopping the cursor only past keys equal to first_key.
AdvanceToPastEqual(ndx, act, firstKey) ==
    LET ahead == {j \in ndx + 1 .. resultsEnd - 1 : get_key(j) > firstKey}
    IN  IF act > firstKey THEN ndx
        ELSE IF ahead = {} THEN resultsEnd ELSE Min(ahead)

\* The cursor after "while (first_key > m_actual_key) { m_results_ndx++; ..."
\* ndx stays while act is not below firstKey; else it steps past ndx to the
\* first later position whose key is not below firstKey, or m_results_end.
AdvanceTo(ndx, act, firstKey) ==
    LET ahead == {j \in ndx + 1 .. resultsEnd - 1 : get_key(j) >= firstKey}
    IN  IF act >= firstKey THEN ndx
        ELSE IF ahead = {} THEN resultsEnd ELSE Min(ahead)

\* The row scan of _find_first_local: the leaf's find_first(m_value) when
\* there are no needles, find_first_haystack over the needles otherwise;
\* for EqualIns, the loop testing EqualIns on every row (its needles stay
\* empty).
find_first_local_scan(c, s, e) ==
    LET wanted == UNION {KeysOf(v) : v \in IF needles = {} THEN {"self"} ELSE needles}
        hits == {row \in s .. e - 1 : get_real_key(c, row) \in wanted}
    IN  /\ lastCall' = [cluster |-> c, start |-> s, end |-> e,
                        result |-> IF hits = {} THEN NotFound ELSE Min(hits)]
        /\ UNCHANGED <<matchKeys, resultsEnd, resultsNdx, actualKey, lastStartKey>>

find_first_local(c, s, e) ==
    \/ /\ ~hasIndex
       /\ find_first_local_scan(c, s, e)
    \/ /\ hasIndex
       /\ s >= e
       /\ lastCall' = [cluster |-> c, start |-> s, end |-> e, result |-> NotFound]
       /\ UNCHANGED <<resultsNdx, actualKey, lastStartKey>>
    \/ /\ hasIndex
       /\ s < e
       /\ LET firstKey == get_real_key(c, s)
              \* a request below the previous one restarts the cursor
              reset    == firstKey < lastStartKey
              ndx0     == IF reset THEN 0 ELSE resultsNdx
              act0     == IF reset
                          THEN (IF resultsEnd # 0 THEN get_key(0) ELSE NullKey)
                          ELSE actualKey
              ndx1     == AdvanceTo(ndx0, act0, firstKey)
              lastKey  == get_real_key(c, e - 1)
              Answer(r) == lastCall' = [cluster |-> c, start |-> s, end |-> e,
                                        result |-> r]
          IN  /\ lastStartKey' = firstKey
              /\ \/ /\ ndx0 >= resultsEnd
                    /\ resultsNdx' = ndx0 /\ actualKey' = act0
                    /\ Answer(NotFound)
                 \/ /\ ndx0 < resultsEnd
                    /\ ndx1 = resultsEnd           \* list exhausted in the loop
                    /\ resultsNdx' = resultsEnd
                    /\ actualKey' = get_key(resultsEnd - 1)
                    /\ Answer(NotFound)
                 \/ /\ ndx0 < resultsEnd
                    /\ ndx1 < resultsEnd
                    /\ resultsNdx' = ndx1 /\ actualKey' = get_key(ndx1)
                    /\ Answer(IF get_key(ndx1) > lastKey
                              THEN NotFound
                              ELSE lower_bound_key(c, get_key(ndx1)))
    /\ UNCHANGED <<matchKeys, resultsEnd>>
    /\ UNCHANGED fuseVars

(***************************************************************************)
(* StringNode<Equal>::do_consume_condition                                 *)
(***************************************************************************)

\* A plausible slip: consuming without turning the index off.
do_consume_condition_keep_index(v) ==
    /\ needles' = (IF needles = {} THEN {"self"} ELSE needles) \cup {v}
    /\ accepted' = accepted \cup {v}
    /\ lastCall' = NoCall
    /\ UNCHANGED <<hasIndex, otherKeys, matchKeys, resultsEnd, resultsNdx, actualKey,
                   lastStartKey, ins>>

\* Fuse "column == v" into this node: index off; this node's own value
\* enters the needles first if they are still empty, then v.  Only
\* StringNode<Equal> overrides do_consume_condition.
do_consume_condition(v) ==
    /\ ~ins
    /\ hasIndex' = FALSE
    /\ needles' = (IF needles = {} THEN {"self"} ELSE needles) \cup {v}
    /\ accepted' = accepted \cup {v}
    /\ lastCall' = NoCall
    /\ UNCHANGED <<otherKeys, matchKeys, resultsEnd, resultsNdx, actualKey,
                   lastStartKey, ins>>

Init ==
    /\ matchKeys \in SUBSET AllKeys
    /\ otherKeys \in SUBSET (AllKeys \ matchKeys)
    /\ hasIndex \in BOOLEAN
    /\ ins \in BOOLEAN
    /\ needles = {}
    /\ accepted = {"self"}
    /\ lastStartKey = NullKey
    /\ resultsNdx = 0
    /\ resultsEnd = Cardinality(matchKeys)
    /\ actualKey = IF matchKeys = {} THEN NullKey ELSE get_key(0)
    /\ lastCall = NoCall

Next ==
    \/ \E c \in Clusters :
          \E s, e \in 0 .. Len(Layout[c]) : find_first_local(c, s, e)
    \/ search_index_init
    \/ search_index_init_ins
    \/ \E v \in Strs : do_consume_condition(v)

Spec == Init /\ [][Next]_vars

(***************************************************************************)
(* Properties                                                              *)
(***************************************************************************)

TypeOK ==
    /\ matchKeys \subseteq AllKeys
    /\ resultsEnd = Cardinality(matchKeys)
    /\ resultsNdx \in 0 .. resultsEnd
    /\ actualKey \in AllKeys \cup {NullKey}
    /\ lastStartKey \in AllKeys \cup {NullKey}
    /\ lastCall \in [cluster : Clusters, start : 0 .. MaxRows,
                     end : 0 .. MaxRows, result : 0 .. MaxRows - 1 \cup {NotFound}]
    /\ otherKeys \subseteq AllKeys \ matchKeys
    /\ hasIndex \in BOOLEAN
    /\ needles \subseteq Strs
    /\ ins \in BOOLEAN

\* Reference: the first row of [s, e) in cluster c whose object holds one
\* of the values of the conditions the node stands for.
FirstMatchingRow(c, s, e) ==
    LET hits == {row \in s .. e - 1 : get_real_key(c, row) \in UNION {KeysOf(v) : v \in accepted}}
    IN  IF hits = {} THEN NotFound ELSE Min(hits)

\* Whatever order clusters and ranges are visited in, the cursor walk over
\* the index answers exactly what a scan of the rows would: the first row of
\* [start, end) whose object holds the needle, or not_found; and after
\* other equalities were fused in by do_consume_condition, before or after
\* init, the first row holding any of their values.  For EqualIns this
\* holds although a re-init keeps m_last_start_key from the previous scan.
IndexedFindFirstExact ==
    lastCall.result =
        FirstMatchingRow(lastCall.cluster, lastCall.start, lastCall.end)

=============================================================================
