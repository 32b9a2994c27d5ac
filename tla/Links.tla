-------------------------------- MODULE Links --------------------------------
(***************************************************************************)
(* Forward links and their backlinks (obj.cpp, list.cpp).                  *)
(*                                                                         *)
(* An origin table has a single-link column and a link-list column to a   *)
(* target table; the target table has one backlink column for each, where *)
(* every target object lists the origins linking to it, once per link     *)
(* (ArrayBacklink).  Every operation that changes a link updates the      *)
(* backlink of the old and of the new target in the same call:            *)
(*   Obj::set<ObjKey>            replace_backlink, then the link;          *)
(*   Lst<ObjKey>::do_insert      set_backlink, then the list;              *)
(*   Lst<ObjKey>::do_set         replace_backlink, then the list;          *)
(*   Lst<ObjKey>::do_remove      remove_backlink, then the list;           *)
(*   Lst<ObjKey>::clear          do_set(ndx, null) and erase, last first;  *)
(*   Table::remove_object(t)     nullify_link on every origin t lists;     *)
(*   LnkLst::remove_target_row   remove_object of one listed target;        *)
(*   LnkLst::remove_all_target_rows  remove_object of every listed target;  *)
(*   Obj::assign(src)            re-points every link to src at this.      *)
(*                                                                         *)
(* Every handler also writes its replication instructions (list.cpp      *)
(* *_repl, Obj::set<ObjKey>, Obj::nullify_link); replica is the link state *)
(* a follower reaches by applying them in the order they were written.    *)
(*                                                                         *)
(* Backlink columns are stored as counts: blLink[t][o] is how many times   *)
(* origin o appears among t's backlinks.  Columns are weak (no cascade     *)
(* deletion of targets).                                                   *)
(***************************************************************************)
EXTENDS Naturals, SequencesExt, FiniteSetsExt

CONSTANTS
    Origins,    \* keys of the origin table
    Targets,    \* keys of the target table
    MaxList     \* longest link list

Null == 0       \* null_key
ASSUME Null \notin Targets

VARIABLES
    link,       \* link[o]: the single-link column
    list,       \* list[o]: the link-list column
    blLink,     \* blLink[t][o]: backlinks of t from the single-link column
    blList,     \* blList[t][o]: backlinks of t from the link-list column
    alive,      \* target objects that exist
    replica     \* [link, list] as rebuilt from the replication log

vars == <<link, list, blLink, blList, alive, replica>>

\* The whole link state as a record, so that a handler's steps compose.
S == [link |-> link, list |-> list, blLink |-> blLink, blList |-> blList, alive |-> alive,
      replica |-> replica]
Commit(s) ==
    /\ link' = s.link /\ list' = s.list
    /\ blLink' = s.blLink /\ blList' = s.blList /\ alive' = s.alive
    /\ replica' = s.replica

NoBacklinks == [o \in Origins |-> 0]

(***************************************************************************)
(* Replication instructions                                                *)
(***************************************************************************)

\* An instruction on origin o; ndx and t are 0 and null where unused.
Instr(op, o, ndx, t) == [op |-> op, o |-> o, ndx |-> ndx, t |-> t]

\* What a follower does with each instruction (Replication and the
\* transaction-log parser, replication.hpp).
Apply(r, i) ==
    CASE i.op = "set"               -> [r EXCEPT !.link[i.o] = i.t]
      [] i.op \in {"nullify_link", "set_null"} -> [r EXCEPT !.link[i.o] = Null]
      [] i.op = "list_set_link"     -> [r EXCEPT !.list[i.o][i.ndx + 1] = i.t]
      [] i.op = "list_set_null"     -> [r EXCEPT !.list[i.o][i.ndx + 1] = Null]
      [] i.op = "list_insert_link"  -> [r EXCEPT !.list[i.o] = InsertAt(@, i.ndx + 1, i.t)]
      [] i.op = "list_insert_null"  -> [r EXCEPT !.list[i.o] = InsertAt(@, i.ndx + 1, Null)]
      [] i.op \in {"list_erase", "link_list_nullify"}
                                    -> [r EXCEPT !.list[i.o] = RemoveAt(@, i.ndx + 1)]
      [] i.op = "list_clear"        -> [r EXCEPT !.list[i.o] = <<>>]

\* repl->...(...): the instruction is written to the log, which the
\* follower applies in order.
Emit(s, i) == [s EXCEPT !.replica = Apply(@, i)]

\* Lst<ObjKey>::set_repl: a null key is written as list_set_null.
set_repl(s, o, ndx, t) ==
    Emit(s, IF t = Null THEN Instr("list_set_null", o, ndx, Null)
            ELSE Instr("list_set_link", o, ndx, t))

\* Lst<ObjKey>::insert_repl: a null key is written as list_insert_null.
insert_repl(s, o, ndx, t) ==
    Emit(s, IF t = Null THEN Instr("list_insert_null", o, ndx, Null)
            ELSE Instr("list_insert_link", o, ndx, t))

\* ConstLstBase::erase_repl
erase_repl(s, o, ndx) == Emit(s, Instr("list_erase", o, ndx, Null))

(***************************************************************************)
(* Obj: backlink bookkeeping                                               *)
(***************************************************************************)

\* Obj::add_backlink on target t (ArrayBacklink::add).
add_backlink(s, col, t, o) == [s EXCEPT ![col][t][o] = @ + 1]

\* Obj::remove_one_backlink on target t (ArrayBacklink::remove).
remove_one_backlink(s, col, t, o) == [s EXCEPT ![col][t][o] = @ - 1]

\* Obj::set_backlink: nothing for a null key.
set_backlink(s, col, t, o) == IF t = Null THEN s ELSE add_backlink(s, col, t, o)

\* Obj::remove_backlink: nothing for a null key.
remove_backlink(s, col, t, o) == IF t = Null THEN s ELSE remove_one_backlink(s, col, t, o)

\* Obj::replace_backlink: the old target first, then the new one.
replace_backlink(s, col, old, new, o) ==
    set_backlink(remove_backlink(s, col, old, o), col, new, o)

\* The index find_first(t) returns in origin o's list.
FindFirstNdx(s, o, t) == SelectInSeq(s.list[o], LAMBDA x : x = t) - 1

\* nullify_link as it would read without its list branch.
nullify_link_single_only(s, col, o, t) ==
    IF col = "blList" THEN s
    ELSE [Emit(s, Instr("nullify_link", o, 0, Null)) EXCEPT !.link[o] = Null]

\* nullify_link as it would read had the single-link branch lost its
\* repl->nullify_link.
nullify_link_unlogged(s, col, o, t) ==
    IF col = "blList"
    THEN LET ndx == FindFirstNdx(s, o, t)
         IN  [Emit(s, Instr("link_list_nullify", o, ndx, Null)) EXCEPT
                  !.list[o] = RemoveAt(@, ndx + 1)]
    ELSE [s EXCEPT !.link[o] = Null]

\* Obj::nullify_link(col, t) on origin o, called while t is removed: a list
\* writes link_list_nullify(ndx) for the first entry equal to t and erases
\* it from the tree directly; a single link, asserted to be t, is cleared
\* and written as nullify_link.  The target's backlinks are not touched (it
\* is going away).
nullify_link(s, col, o, t) ==
    IF col = "blList"
    THEN LET ndx == FindFirstNdx(s, o, t)
         IN  [Emit(s, Instr("link_list_nullify", o, ndx, Null)) EXCEPT
                  !.list[o] = RemoveAt(@, ndx + 1)]
    ELSE [Emit(s, Instr("nullify_link", o, 0, Null)) EXCEPT !.link[o] = Null]

(***************************************************************************)
(* Operations                                                              *)
(***************************************************************************)

\* Obj::set<ObjKey> past its checks: backlinks, the value, then repl->set.
do_set_link(s, o, t) ==
    Emit([replace_backlink(s, "blLink", s.link[o], t, o) EXCEPT !.link[o] = t],
         Instr("set", o, 0, t))

\* Obj::set<ObjKey>(col, t): a target that is not valid throws before any
\* change; setting the current value changes nothing and writes nothing.
set_link(o, t) ==
    /\ t = Null \/ t \in alive
    /\ t # link[o]
    /\ Commit(do_set_link(S, o, t))

\* A plausible slip: overwriting the list entry without dropping the old
\* target's backlink.
do_set_keep_old(o, ndx, t) ==
    [set_backlink(S, "blList", t, o) EXCEPT !.list[o][ndx + 1] = t]

\* Lst<ObjKey>::do_set(ndx, t), reached from Lst::set for a new value.
do_set(o, ndx, t) ==
    [replace_backlink(S, "blList", list[o][ndx + 1], t, o) EXCEPT !.list[o][ndx + 1] = t]

\* Lst<ObjKey>::set (list.hpp): do_set, then set_repl.
list_set(o, ndx, t) ==
    /\ ndx < Len(list[o])
    /\ t \in alive
    /\ t # list[o][ndx + 1]
    /\ Commit(set_repl(do_set(o, ndx, t), o, ndx, t))

\* Lst<ObjKey>::insert (list.hpp): do_insert(ndx, t), then insert_repl.
list_insert(o, ndx, t) ==
    /\ Len(list[o]) < MaxList
    /\ ndx <= Len(list[o])
    /\ t \in alive
    /\ Commit(insert_repl([set_backlink(S, "blList", t, o) EXCEPT
                               !.list[o] = InsertAt(@, ndx + 1, t)], o, ndx, t))

\* Lst<ObjKey>::remove (list.hpp): erase_repl, then do_remove(ndx).
list_remove(o, ndx) ==
    /\ ndx < Len(list[o])
    /\ Commit([remove_backlink(erase_repl(S, o, ndx), "blList", list[o][ndx + 1], o) EXCEPT
                   !.list[o] = RemoveAt(@, ndx + 1)])

\* Lst<ObjKey>::clear as it would read had the loop used do_remove: the
\* entry's backlink goes twice.
do_clear_erase_with_backlink(s, o) ==
    LET RECURSIVE Drop(_, _)
        Drop(s1, n) == IF n = 0 THEN s1
                       ELSE Drop(remove_backlink(remove_backlink(s1, "blList", s.list[o][n], o),
                                                 "blList", s.list[o][n], o), n - 1)
    IN  IF s.list[o] = <<>> THEN s
        ELSE [Drop(Emit(s, Instr("list_clear", o, 0, Null)), Len(s.list[o])) EXCEPT
                  !.list[o] = <<>>]

\* Lst<ObjKey>::clear on a weak column: nothing for an empty list; else one
\* list_clear instruction, then while (ndx--) { do_set(ndx, null);
\* m_tree->erase(ndx); } -- every entry's backlink goes, last entry first,
\* and the raw tree erase touches no backlink.
do_clear(s, o) ==
    LET RECURSIVE Drop(_, _)
        Drop(s1, n) == IF n = 0 THEN s1
                       ELSE Drop(remove_backlink(s1, "blList", s.list[o][n], o), n - 1)
    IN  IF s.list[o] = <<>> THEN s
        ELSE [Drop(Emit(s, Instr("list_clear", o, 0, Null)), Len(s.list[o])) EXCEPT
                  !.list[o] = <<>>]

list_clear(o) ==
    /\ list[o] # <<>>
    /\ Commit(do_clear(S, o))

\* Apply step(s, x) for every element of the sequence xs, first to last.
RECURSIVE ForEach(_, _, _)
ForEach(step(_, _), s, xs) ==
    IF xs = <<>> THEN s ELSE ForEach(step, step(s, Head(xs)), Tail(xs))

\* One backlink entry per link, origins in key order (get_all_backlinks).
BacklinkSeq(s, col, t) ==
    FlattenSeq([i \in 1..Cardinality(Origins) |->
                  LET o == SetToSortSeq(Origins, <)[i] IN [j \in 1..s[col][t][o] |-> o]])

\* Table::remove_object(t): one nullify_link per backlink entry of t, in
\* both backlink columns, then t and its backlink rows go.
RemoveObject(s, t) ==
    LET NullLink(s1, o) == nullify_link(s1, "blLink", o, t)
        NullList(s1, o) == nullify_link(s1, "blList", o, t)
        s2 == ForEach(NullList, ForEach(NullLink, s, BacklinkSeq(s, "blLink", t)),
                      BacklinkSeq(s, "blList", t))
    IN  [s2 EXCEPT !.blLink[t] = NoBacklinks, !.blList[t] = NoBacklinks,
                   !.alive = @ \ {t}]

remove_target(t) ==
    /\ t \in alive
    /\ Commit(RemoveObject(S, t))

\* LnkLst::remove_target_row(link_ndx): the target at link_ndx is removed
\* from its table, which also takes it out of this list.
remove_target_row(o, ndx) ==
    /\ ndx < Len(list[o])
    /\ Commit(RemoveObject(S, list[o][ndx + 1]))

\* LnkLst::remove_all_target_rows: batch_erase_rows over the list's keys,
\* copied first, each valid target removed once, in key order, while the
\* removals shrink the list itself.
remove_all_target_rows(o) ==
    /\ list[o] # <<>>
    /\ Commit(ForEach(RemoveObject, S, SetToSortSeq(ToSet(list[o]) \cap alive, <)))

\* Obj::assign(src) on target dst, copy_links part: for each backlink column
\* the backlinks of src are read once, then every origin in it is re-pointed
\* from src to dst, a single link by Obj::set<ObjKey>, a list entry by
\* Lst::set at find_first(src).
assign(dst, src) ==
    /\ {dst, src} \subseteq alive
    /\ LET SetLink(s, o) ==
               IF dst = s.link[o] THEN s ELSE do_set_link(s, o, dst)
           SetList(s, o) ==
               LET n == CHOOSE i \in DOMAIN s.list[o] :
                            /\ s.list[o][i] = src
                            /\ \A j \in 1..i-1 : s.list[o][j] # src
               IN  set_repl([replace_backlink(s, "blList", src, dst, o) EXCEPT
                                 !.list[o][n] = dst], o, n - 1, dst)
       IN  Commit(ForEach(SetList, ForEach(SetLink, S, BacklinkSeq(S, "blLink", src)),
                          BacklinkSeq(S, "blList", src)))

\* Obj::assign(src) on origin dst, column part: the single link is copied by
\* set_null (set(col, null_key), then a set_null instruction) or by
\* Obj::set(col, Mixed), i.e. set<ObjKey>; the list is cleared and src's
\* entries, counted before the clear, inserted one by one with insert_any.
\* copy_links then finds no backlinks: nothing links to the origin table.
assign_origin(dst, src) ==
    LET val == link[src]
        SetNull(s) == Emit(IF s.link[dst] = Null THEN s ELSE do_set_link(s, dst, Null),
                           Instr("set_null", dst, 0, Null))
        SetVal(s) == IF s.link[dst] = val THEN s ELSE do_set_link(s, dst, val)
        s1 == IF val = Null THEN SetNull(S) ELSE SetVal(S)
        Insert(s, i) == insert_repl([set_backlink(s, "blList", list[src][i], dst) EXCEPT
                                        !.list[dst] = Append(@, list[src][i])],
                                    dst, i - 1, list[src][i])
    IN  /\ dst # src
        /\ Commit(ForEach(Insert, do_clear(s1, dst), [i \in 1..Len(list[src]) |-> i]))

(***************************************************************************)
(* Specification                                                           *)
(***************************************************************************)

\* Backlink counts derived from forward links, as the storage keeps them.
DerivedLink(lk) == [t \in Targets |-> [o \in Origins |-> IF lk[o] = t THEN 1 ELSE 0]]
DerivedList(ls) == [t \in Targets |-> [o \in Origins |-> CopiesIn(t, ToBag(ls[o]))]]

\* Freshly created objects: null links, empty lists, no backlinks.
Init ==
    /\ link = [o \in Origins |-> Null]
    /\ list = [o \in Origins |-> <<>>]
    /\ blLink = DerivedLink(link)
    /\ blList = DerivedList(list)
    /\ alive = Targets
    /\ replica = [link |-> link, list |-> list]

Next ==
    \/ \E o \in Origins, t \in Targets \cup {Null} : set_link(o, t)
    \/ \E o \in Origins, ndx \in 0..MaxList, t \in Targets :
           list_set(o, ndx, t) \/ list_insert(o, ndx, t)
    \/ \E o \in Origins, ndx \in 0..MaxList : list_remove(o, ndx) \/ remove_target_row(o, ndx)
    \/ \E o \in Origins : list_clear(o) \/ remove_all_target_rows(o)
    \/ \E t \in Targets : remove_target(t)
    \/ \E dst, src \in Targets : dst # src /\ assign(dst, src)
    \/ \E dst, src \in Origins : assign_origin(dst, src)

Spec == Init /\ [][Next]_vars

(***************************************************************************)
(* Properties                                                              *)
(***************************************************************************)

\* Type: backlink counts never go below zero (ArrayBacklink::remove never
\* removes an entry that is not there) and lists stay within bound.
TypeOK ==
    /\ link \in [Origins -> Targets \cup {Null}]
    /\ list \in [Origins -> BoundedSeq(Targets, MaxList)]
    /\ blLink \in [Targets -> [Origins -> Nat]]
    /\ blList \in [Targets -> [Origins -> Nat]]
    /\ alive \subseteq Targets
    /\ replica \in [link : [Origins -> Targets \cup {Null}],
                    list : [Origins -> Seq(Targets \cup {Null})]]

\* After any sequence of set, list set/insert/remove/clear, object removal
\* and assign, the backlink columns of the target table hold exactly one
\* entry per forward link: what the replace/remove/set_backlink pairs in
\* Obj::set<ObjKey> and Lst<ObjKey>::do_* maintain together.
BacklinksMatchLinks ==
    /\ blLink = DerivedLink(link)
    /\ blList = DerivedList(list)

\* After Table::remove_object has called nullify_link for every backlink,
\* no forward link of either column points at a removed object.
NoDanglingLinks ==
    /\ \A o \in Origins : link[o] \in alive \cup {Null}
    /\ \A o \in Origins : ToSet(list[o]) \subseteq alive

\* A follower that applies the replication log in order ends with the same
\* links and lists as the writer, after every handler: the instruction
\* each one writes (nullify_link's link_list_nullify at find_first's index,
\* written before the raw tree erase; one list_clear for a whole clear;
\* repl->set after the value) describes exactly the change it made,
\* including the cascades of nullifications that a removal sets off.
ReplicaMatchesLinks == replica = [link |-> link, list |-> list]

====
