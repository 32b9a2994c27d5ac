------------------------------- MODULE LinkMap -------------------------------
(***************************************************************************)
(* Link traversal for link queries: LinkMap (query_expression.cpp, which   *)
(* the repository stores inside realm/list.cpp).                           *)
(*                                                                         *)
(* A LinkMap is a chain of link columns m_link_column_keys[0 .. Hops-1]    *)
(* leading from the base table through tables 1 .. Hops.  A hop is a      *)
(* single link, a link list, or a backlink column (the inverse of a link   *)
(* or link list of the next table that points back).  set_base_table      *)
(* records the hop kinds and whether all of them are unary; map_links      *)
(* walks every path from a base object, handing each end object to a      *)
(* visitor (LinkMapFunction::consume); get_origin_ndxs walks the chain     *)
(* backwards from an end object to the base objects that reach it.         *)
(*                                                                         *)
(* The database is a small instance: every table has the objects Objs; a   *)
(* link column holds a sequence of at most one key (empty is null), a      *)
(* link list one of at most MaxList keys, duplicates allowed.  A           *)
(* backlink column is not stored separately: its content is derived from   *)
(* the forward column, as the storage layer keeps them (ArrayBacklink).    *)
(* The order of backlinks is storage order; the model lists them by        *)
(* origin key, one entry per forward link.                                 *)
(***************************************************************************)
EXTENDS Naturals, SequencesExt, FiniteSetsExt

CONSTANTS
    Hops,           \* number of link columns in the chain
    Objs,           \* object keys of every table (positive naturals)
    MaxList         \* longest link list

ASSUME Hops \in Nat \ {0} /\ Objs \subseteq Nat \ {0} /\ MaxList \in Nat

Null == 0                           \* null_key
Columns == 1 .. Hops                \* column c leads from table c-1 to table c
HopKinds == {"link", "list", "backlink"}

\* The values a forward column may hold for one object.
Values(type) == IF type = "link" THEN BoundedSeq(Objs, 1) ELSE BoundedSeq(Objs, MaxList)

VARIABLES
    kinds,          \* kinds[c]: the type of m_link_column_keys[c]
    fwdType,        \* for a backlink hop: the type of the forward column it inverts
    data,           \* data[c][o]: the forward column of hop c at object o
    linkTypes,      \* m_link_types, <<>> until set_base_table
    onlyUnary,      \* m_only_unary_links
    lastCall        \* history: the latest traversal and its outcome

vars == <<kinds, fwdType, data, linkTypes, onlyUnary, lastCall>>

(***************************************************************************)
(* The storage the traversal reads                                         *)
(***************************************************************************)

\* Occurrences of k in a sequence.
Occurrences(s, k) == Cardinality({i \in DOMAIN s : s[i] = k})

\* The backlinks to k through the forward column of hop c: one entry per
\* forward link, by origin key.
Backlinks(c, k) ==
    LET origins == SetToSortSeq({o \in Objs : Occurrences(data[c][o], k) > 0}, <)
    IN  FlattenSeq([i \in DOMAIN origins |->
                      [j \in 1 .. Occurrences(data[c][origins[i]], k) |-> origins[i]]])

\* A plausible slip: one backlink per origin object, however many links
\* it holds to k.
Targets_one_per_origin(c, k) ==
    IF kinds[c] = "backlink"
    THEN SetToSortSeq({o \in Objs : Occurrences(data[c][o], k) > 0}, <)
    ELSE data[c][k]

\* The keys hop c leads to from object k of table c-1: the link or list for
\* a forward hop, obj.get_all_backlinks / get_backlink for a backlink hop.
Targets(c, k) == IF kinds[c] = "backlink" THEN Backlinks(c, k) ELSE data[c][k]

(***************************************************************************)
(* LinkMap::set_base_table                                                 *)
(***************************************************************************)

\* A plausible slip: recording the type of the opposite (forward) column.
set_base_table_opposite_type ==
    /\ linkTypes = <<>>
    /\ linkTypes' = fwdType
    /\ onlyUnary' = \A c \in Columns : kinds[c] = "link"
    /\ UNCHANGED <<kinds, fwdType, data, lastCall>>

\* Runs once: a second call with the same table returns at once.
set_base_table ==
    /\ linkTypes = <<>>
    /\ linkTypes' = kinds
    /\ onlyUnary' = \A c \in Columns : kinds[c] = "link"
    /\ UNCHANGED <<kinds, fwdType, data, lastCall>>

(***************************************************************************)
(* LinkMap::map_links, both overloads (the row overload reads hop 1 from   *)
(* the cluster leaf, the key overload from the object: the same keys).     *)
(*                                                                         *)
(* A visitor is "vector" (MakeLinkVector: keeps every key, answers true)   *)
(* or "unary" (UnaryLinkResult: keeps the key, answers false).  The        *)
(* result is the sequence of keys consumed, in order.                      *)
(***************************************************************************)
Consume(visitor, out, k) == Append(out, k)
Continues(visitor) == visitor = "vector"

RECURSIVE map_links(_, _, _, _), map_links_loop(_, _, _, _, _)

map_links(visitor, c, k, out) ==
    LET ks == Targets(c, k)
        last == c = Hops
    IN  IF linkTypes[c] = "link"
        THEN IF ks = <<>> THEN out
             ELSE IF last THEN Consume(visitor, out, ks[1])    \* answer ignored
             ELSE map_links(visitor, c + 1, ks[1], out)
        ELSE map_links_loop(visitor, c, ks, 1, out)

\* for (t = 0; t < sz; t++): at the last hop a false answer returns from
\* this call only; before it, the deeper call's outcome is not looked at.
map_links_loop(visitor, c, ks, t, out) ==
    IF t > Len(ks) THEN out
    ELSE IF c = Hops
         THEN LET out2 == Consume(visitor, out, ks[t])
              IN  IF Continues(visitor) THEN map_links_loop(visitor, c, ks, t + 1, out2)
                  ELSE out2
         ELSE map_links_loop(visitor, c, ks, t + 1, map_links(visitor, c + 1, ks[t], out))

\* LinkMap::get_links: map_links with a MakeLinkVector.
get_links(k) == map_links("vector", 1, k, <<>>)

(***************************************************************************)
(* LinkMap::get_origin_ndxs                                                *)
(***************************************************************************)

\* A plausible slip: taking only the first entry of a link list.
OriginsOf_first_only(c, k) ==
    IF kinds[c] = "backlink"
    THEN IF data[c][k] = <<>> THEN <<Null>> ELSE <<data[c][k][1]>>
    ELSE Backlinks(c, k)

\* The origin side of hop c for a key of table c: for a backlink hop the
\* forward link or list of that key (o.get<ObjKey>() is pushed even when
\* null), for a forward hop its backlinks.
OriginsOf(c, k) ==
    IF kinds[c] = "backlink"
    THEN IF fwdType[c] = "link" /\ data[c][k] = <<>> THEN <<Null>> ELSE data[c][k]
    ELSE Backlinks(c, k)

RECURSIVE get_origin_ndxs(_, _)
get_origin_ndxs(key, c) ==
    IF c = Hops + 1 THEN <<key>>
    ELSE LET keys == get_origin_ndxs(key, c + 1)
         IN  FlattenSeq([i \in DOMAIN keys |-> OriginsOf(c, keys[i])])

(***************************************************************************)
(* Operations                                                              *)
(***************************************************************************)

\* Columns<Link>::evaluate(index): a unary chain gives one key (or null),
\* any other chain the whole link vector.
evaluate(k) ==
    /\ linkTypes # <<>>
    /\ LET links == get_links(k)
           dest  == IF onlyUnary THEN <<IF links = <<>> THEN Null ELSE links[1]>>
                    ELSE links
       IN  lastCall' = [op |-> "evaluate", key |-> k, out |-> dest]
    /\ UNCHANGED <<kinds, fwdType, data, linkTypes, onlyUnary>>

\* get_unary_link_or_not_found: map_links with a UnaryLinkResult.  Its
\* callers in src issue it only on chains set_base_table marked unary.
unary_link(k) ==
    /\ linkTypes # <<>>
    /\ onlyUnary
    /\ lastCall' = [op |-> "unary", key |-> k, out |-> map_links("unary", 1, k, <<>>)]
    /\ UNCHANGED <<kinds, fwdType, data, linkTypes, onlyUnary>>

\* get_origin_ndxs(key, 0) for an end object some base object reaches.
origin_ndxs(t) ==
    /\ linkTypes # <<>>
    /\ \E o \in Objs : t \in ToSet(get_links(o))
    /\ lastCall' = [op |-> "origins", key |-> t, out |-> get_origin_ndxs(t, 1)]
    /\ UNCHANGED <<kinds, fwdType, data, linkTypes, onlyUnary>>

Init ==
    /\ kinds \in [Columns -> HopKinds]
    /\ fwdType \in [Columns -> {"link", "list"}]
    /\ \A c \in Columns : kinds[c] # "backlink" => fwdType[c] = kinds[c]
    /\ data \in [Columns -> UNION {[Objs -> Values(t)] : t \in {"link", "list"}}]
    /\ \A c \in Columns : data[c] \in [Objs -> Values(fwdType[c])]
    /\ linkTypes = <<>>
    /\ onlyUnary = FALSE
    /\ lastCall = [op |-> "none", key |-> Null, out |-> <<>>]

Next ==
    \/ set_base_table
    \/ \E k \in Objs : evaluate(k) \/ unary_link(k) \/ origin_ndxs(k)

Spec == Init /\ [][Next]_vars

(***************************************************************************)
(* Properties                                                              *)
(***************************************************************************)

TypeOK ==
    /\ kinds \in [Columns -> HopKinds]
    /\ linkTypes \in {<<>>, kinds}
    /\ onlyUnary \in BOOLEAN
    /\ lastCall.op \in {"none", "evaluate", "unary", "origins"}
    /\ lastCall.out \in Seq(Objs \cup {Null})

\* Reference: how many links of hop c lead from object k of table c-1 to
\* object m of table c, read off the forward columns directly.
Multiplicity(c, k, m) ==
    IF kinds[c] = "backlink" THEN Occurrences(data[c][m], k) ELSE Occurrences(data[c][k], m)

\* Reference: the number of distinct paths from object k of table c-1 to
\* object t at the end of the chain.
RECURSIVE PathCount(_, _, _)
PathCount(c, k, t) ==
    IF c = Hops + 1 THEN (IF k = t THEN 1 ELSE 0)
    ELSE MapThenSumSet(LAMBDA m : Multiplicity(c, k, m) * PathCount(c + 1, m, t), Objs)

\* The bag of end objects reached from base object k, one per path.
PathBag(k) == [t \in {u \in Objs : PathCount(1, k, u) > 0} |-> PathCount(1, k, t)]
OriginBag(t) == [o \in {u \in Objs : PathCount(1, u, t) > 0} |-> PathCount(1, o, t)]

\* A link expression evaluated at a base object yields every object at the
\* end of the chain once per path, through any mix of single links, link
\* lists with repeated keys and backlinks; on a chain set_base_table marked
\* unary it is the one end object or null.
EvaluateYieldsAllPaths ==
    lastCall.op = "evaluate" =>
        IF onlyUnary
        THEN lastCall.out = <<IF PathBag(lastCall.key) = <<>> THEN Null
                              ELSE CHOOSE t \in DOMAIN PathBag(lastCall.key) : TRUE>>
        ELSE ToBag(lastCall.out) = PathBag(lastCall.key)

\* get_origin_ndxs inverts the traversal: for an end object, the base
\* objects among its answer are each base object once per path from it to
\* that end object.
OriginsInvertTraversal ==
    lastCall.op = "origins" =>
        ToBag(SelectSeq(lastCall.out, LAMBDA k : k # Null)) = OriginBag(lastCall.key)

=============================================================================
