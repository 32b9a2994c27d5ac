----------------------------- MODULE ObjAccessor -----------------------------
(***************************************************************************)
(* Obj accessors over versioned, copy-on-write storage (obj.cpp).          *)
(*                                                                         *)
(* Object X and its link target Y live in the same cluster.  The cluster  *)
(* is a record stored at an address; after a commit its memory is read-  *)
(* only, and the first write copies it to a fresh address which the tree  *)
(* then records (sync -> update_ref_in_parent).  Structural changes made  *)
(* elsewhere in the table (a split by an insert) also move it.  Following *)
(* the design's version discipline, every move bumps the allocator's       *)
(* storage version, and an accessor re-resolves its m_mem when the        *)
(* version differs from the one it recorded.                              *)
(*                                                                         *)
(* Accessors holds the long-lived Obj accessors of X (several may exist); *)
(* Y is reached through get_object() in replace_backlink, a fresh and     *)
(* therefore current accessor.                                             *)
(*                                                                         *)
(* Every setter ends by writing its replication instruction; repl is X's  *)
(* int and link as a follower rebuilds them by applying the log in order. *)
(***************************************************************************)
EXTENDS Integers, TLC

CONSTANTS
    Accessors,  \* Obj accessors of X held by the application
    W,          \* width of the int column in bits
    NullInt,    \* null of the nullable int column
    Null,       \* null_key
    Y,          \* key of X's link target
    MaxAddr     \* addresses the allocator may hand out (bounds moves)

Addr == 1 .. MaxAddr
None == [op |-> "none"]

VARIABLES
    content,    \* content[a]: the cluster's fields stored at address a
    loc,        \* address the cluster tree records for the cluster
    ro,         \* read-only (committed) addresses
    nextAddr,   \* next address the allocator hands out
    sv,         \* the allocator's storage version
    mem,        \* mem[a]: accessor a's m_mem
    ver,        \* ver[a]: accessor a's m_storage_version
    index,      \* the search index entry of X's int column
    lastRead,   \* history: the latest get and what it returned
    repl        \* [xInt, xLink] as rebuilt from the replication log

vars == <<content, loc, ro, nextAddr, sv, mem, ver, index, lastRead, repl>>

A == INSTANCE AbstractObj WITH
        xInt <- content[loc].xInt, xLink <- content[loc].xLink, yBl <- content[loc].yBl

IntW == A!IntW

\* The whole storage and accessor state as one record.
S == [content |-> content, loc |-> loc, ro |-> ro, nextAddr |-> nextAddr, sv |-> sv,
      mem |-> mem, ver |-> ver, index |-> index, repl |-> repl]
Commit(s) ==
    /\ content' = s.content /\ loc' = s.loc /\ ro' = s.ro /\ nextAddr' = s.nextAddr
    /\ sv' = s.sv /\ mem' = s.mem /\ ver' = s.ver /\ index' = s.index
    /\ repl' = s.repl
    /\ s.nextAddr <= MaxAddr + 1

(***************************************************************************)
(* Storage                                                                 *)
(***************************************************************************)

\* The fields of c after a write that sets the fields of the record set
\* and changes Y's backlink count by bl.
Change(c, set, bl) == [set @@ c EXCEPT !.yBl = @ + bl]

\* No field set.
NoSet == [f \in {} |-> 0]

\* A write through the fields accessor obtained from address at: in place
\* if the memory is writable; otherwise the cluster is copied to a fresh
\* address, the write lands there and the tree is pointed at it.
Write(s, at, set, bl) ==
    IF at \in s.ro
    THEN [s EXCEPT !.content[s.nextAddr] = Change(s.content[at], set, bl), !.loc = s.nextAddr,
                   !.nextAddr = @ + 1, !.sv = @ + 1]
    ELSE [s EXCEPT !.content[at] = Change(@, set, bl)]

\* ConstObj::update: take the object's position from the tree, and the
\* current storage version.
update(s, a) == [s EXCEPT !.mem[a] = s.loc, !.ver[a] = s.sv]

\* ConstObj::update_if_needed / _update_if_needed: only on a version change.
update_if_needed(s, a) == IF s.ver[a] # s.sv THEN update(s, a) ELSE s

\* Obj::sync(fields): when the write moved the fields, record the new
\* memory and the current storage version.
sync(s, a, moved) ==
    IF moved THEN [s EXCEPT !.mem[a] = s.loc, !.ver[a] = s.sv] ELSE s

\* get_fields_accessor(fallback, m_mem), values.set, sync(fields).
WriteFields(s, a, set) == sync(Write(s, s.mem[a], set, 0), a, s.mem[a] \in s.ro)

\* Obj::ensure_writeable: a read-only object is copied by the tree (found
\* by key, so from the tree's address) and the accessor takes the copy.
ensure_writeable(s, a) ==
    IF s.mem[a] \in s.ro
    THEN LET s1 == Write(s, s.loc, NoSet, 0) IN update(s1, a)
    ELSE s

\* Y's fresh accessor adds or removes one backlink (add_backlink,
\* remove_one_backlink): a write at the tree's current address.
ChangeBacklink(s, delta) == Write(s, s.loc, NoSet, delta)

(***************************************************************************)
(* Replication                                                             *)
(***************************************************************************)

\* What a follower does with each instruction (replication.hpp, not under
\* src): add_int adds with the same wrap-around on the follower's value.
ApplyObj(r, op, v) ==
    CASE op = "set_int"  -> [r EXCEPT !.xInt = v]
      [] op = "add_int"  -> [r EXCEPT !.xInt = A!add_wrap(@, v)]
      [] op = "set_null" -> [r EXCEPT !.xInt = NullInt]
      [] op = "set"      -> [r EXCEPT !.xLink = v]

\* repl->op(table, col, key, v): written to the log, applied in order.
EmitObj(s, op, v) == [s EXCEPT !.repl = ApplyObj(@, op, v)]

(***************************************************************************)
(* Operations of an accessor a                                             *)
(***************************************************************************)

\* ConstObj::_get<T>, after its _update_if_needed: the value in the leaf
\* of the fields at m_mem.
get_value(s, a) == s.content[s.mem[a]].xInt

\* ConstObj::do_is_null<ArrayIntNull>: the leaf's is_null at m_mem.
do_is_null(s, a) == get_value(s, a) = NullInt

\* A _get<int64_t> that reads m_mem without comparing versions.
get_int_no_refresh(a) ==
    /\ lastRead' = [op |-> "get", val |-> content[mem[a]].xInt]
    /\ UNCHANGED <<content, loc, ro, nextAddr, sv, mem, ver, index, repl>>

\* ConstObj::get<int64_t> on the nullable column: _get<Optional<int64_t>>
\* refreshes on a version change and reads at m_mem; a null throws
\* "Cannot return null value".
get_int(a) ==
    LET s == update_if_needed(S, a)
        val == get_value(s, a)
    IN  /\ Commit(s)
        /\ lastRead' = IF val = NullInt THEN None ELSE [op |-> "get", val |-> val]

\* ConstObj::get_any on the nullable int column: the Mixed of
\* _get<Optional<int64_t>>, null included.
get_any(a) ==
    LET s == update_if_needed(S, a)
    IN  /\ Commit(s)
        /\ lastRead' = [op |-> "get_any", val |-> get_value(s, a)]

\* ConstObj::is_null: update_if_needed, then do_is_null<ArrayIntNull> at m_mem.
is_null(a) ==
    LET s == update_if_needed(S, a)
    IN  /\ Commit(s)
        /\ lastRead' = [op |-> "is_null", val |-> do_is_null(s, a)]

\* Obj::set<int64_t>: update_if_needed, search index, write, sync.
set_int(a, v) ==
    LET s == update_if_needed(S, a)
    IN  /\ Commit(EmitObj(WriteFields([s EXCEPT !.index = v], a, [xInt |-> v]), "set_int", v))
        /\ lastRead' = None

\* Obj::set<T> with T = Optional<int64_t>: the steps of set<int64_t>; on
\* the nullable column a null passes the column_not_nullable check and is
\* written, search index included, like any other value.
set_optional(a, v) == set_int(a, v)

\* A slip in add_int: plain signed addition instead of add_wrap.
add_int_no_wrap(a, d) ==
    LET s == update_if_needed(S, a)
        old == s.content[s.mem[a]].xInt
    IN  /\ old # NullInt
        /\ Commit(EmitObj(WriteFields([s EXCEPT !.index = old + d], a,
                                      [xInt |-> old + d]), "add_int", d))
        /\ lastRead' = None

\* A slip in add_int: the search index given the sum before wrapping.
add_int_index_unwrapped(a, d) ==
    LET s == update_if_needed(S, a)
        old == s.content[s.mem[a]].xInt
    IN  /\ old # NullInt
        /\ Commit(EmitObj(WriteFields([s EXCEPT !.index = old + d], a,
                                      [xInt |-> A!add_wrap(old, d)]), "add_int", d))
        /\ lastRead' = None

\* A slip in add_int: writing the sum, not the delta, to the log.
add_int_log_sum(a, d) ==
    LET s == update_if_needed(S, a)
        old == s.content[s.mem[a]].xInt
        new == A!add_wrap(old, d)
    IN  /\ IF old = NullInt
           THEN Commit(s)
           ELSE Commit(EmitObj(WriteFields([s EXCEPT !.index = new], a,
                                           [xInt |-> new]), "add_int", new))
        /\ lastRead' = None

\* Obj::add_int: the old value read from m_mem; a null throws
\* illegal_combination after the refresh and before any write or
\* instruction; otherwise repl->add_int(delta) after sync.
add_int(a, d) ==
    LET s == update_if_needed(S, a)
        old == s.content[s.mem[a]].xInt
        new == A!add_wrap(old, d)
    IN  /\ IF old = NullInt
           THEN Commit(s)
           ELSE Commit(EmitObj(WriteFields([s EXCEPT !.index = new], a,
                                           [xInt |-> new]), "add_int", d))
        /\ lastRead' = None

\* Obj::set_null on the int column: update_if_needed, ensure_writeable,
\* search index, do_set_null (a write in place, with no sync), then
\* repl->set_null.
set_null(a) ==
    LET s == ensure_writeable(update_if_needed(S, a), a)
        s1 == [s EXCEPT !.index = NullInt]
    IN  /\ Commit(EmitObj([s1 EXCEPT !.content[s1.mem[a]].xInt = NullInt], "set_null", NullInt))
        /\ lastRead' = None

\* Obj::set(ColKey, Mixed) on the nullable int column: a null goes to
\* set_null, a value to set(col, util::Optional<Int>(value)).
set_mixed(a, v) == IF v = NullInt THEN set_null(a) ELSE set_optional(a, v)

\* Obj::set<ObjKey> without the _update_if_needed after replace_backlink.
set_link_no_refresh(a, t) ==
    LET s == update_if_needed(S, a)
        old == s.content[s.mem[a]].xLink
        s1 == IF t = Y THEN ChangeBacklink(s, 1) ELSE ChangeBacklink(s, -1)
    IN  /\ t # old
        /\ Commit(EmitObj(WriteFields(s1, a, [xLink |-> t]), "set", t))
        /\ lastRead' = None

\* Obj::set<ObjKey>: for a new target, replace_backlink (remove from the
\* old target, add to the new; one of them is null here), which writes to
\* the shared cluster through Y's accessor; then this->_update_if_needed(),
\* then X's own write and sync.
set_link(a, t) ==
    LET s == update_if_needed(S, a)
        old == s.content[s.mem[a]].xLink
        s1 == IF t = Y THEN ChangeBacklink(s, 1) ELSE ChangeBacklink(s, -1)
    IN  /\ t # old
        /\ Commit(EmitObj(WriteFields(update_if_needed(s1, a), a, [xLink |-> t]), "set", t))
        /\ lastRead' = None

(***************************************************************************)
(* Environment                                                             *)
(***************************************************************************)

\* A write transaction commits: all memory in use becomes read-only.
commit ==
    /\ loc \notin ro
    /\ ro' = 1 .. nextAddr - 1
    /\ lastRead' = None
    /\ UNCHANGED <<content, loc, nextAddr, sv, mem, ver, index, repl>>

\* The cluster moves because of a change elsewhere in the table (a split
\* by another object's insert); the storage version is bumped.
move_cluster ==
    /\ Commit([S EXCEPT !.content[nextAddr] = content[loc], !.loc = nextAddr,
                        !.nextAddr = @ + 1, !.sv = @ + 1])
    /\ lastRead' = None

(***************************************************************************)
(* Specification                                                           *)
(***************************************************************************)

InitFields == [xInt |-> 0, xLink |-> Null, yBl |-> 0]

\* X and Y freshly created in writable memory; every accessor current.
Init ==
    /\ content = [a \in Addr |-> InitFields]
    /\ loc = 1
    /\ ro = {}
    /\ nextAddr = 2
    /\ sv = 0
    /\ mem = [a \in Accessors |-> 1]
    /\ ver = [a \in Accessors |-> 0]
    /\ index = 0
    /\ lastRead = None
    /\ repl = [xInt |-> 0, xLink |-> Null]

Next ==
    \/ \E a \in Accessors :
          \/ get_int(a) \/ get_any(a) \/ is_null(a)
          \/ \E v \in IntW \cup {NullInt} : set_optional(a, v) \/ set_mixed(a, v)
          \/ \E v \in IntW : set_int(a, v)
          \/ \E d \in IntW : add_int(a, d)
          \/ set_null(a)
          \/ \E t \in {Null, Y} : set_link(a, t)
    \/ commit
    \/ move_cluster

Spec == Init /\ [][Next]_vars

(***************************************************************************)
(* Properties                                                              *)
(***************************************************************************)

Fields == [xInt : IntW \cup {NullInt}, xLink : {Null, Y}, yBl : Int]

TypeOK ==
    /\ content \in [Addr -> Fields]
    /\ loc \in Addr /\ ro \subseteq Addr
    /\ mem \in [Accessors -> Addr]
    /\ sv \in Nat /\ ver \in [Accessors -> Nat]
    /\ index \in IntW \cup {NullInt}

\* The search index entry of X always equals the stored value, also after
\* add_int wrapped around (obj.cpp add_wrap) and after set_null.
IndexMatchesValue == index = content[loc].xInt

\* What a read of kind op answers on the fields c.
Observed(op, c) == IF op = "is_null" THEN c.xInt = NullInt ELSE c.xInt

\* Every read through any accessor (get, get_any, is_null) answers what is
\* stored where the tree finds the object now, however the cluster moved
\* since that accessor last looked (ConstObj::_get, update_if_needed and
\* the storage-version check).
ReadsAreCurrent == lastRead # None => lastRead.val = Observed(lastRead.op, content[loc])

\* Seen at the object's current address, every operation through any
\* accessor is one atomic step of the abstract object: no write is lost
\* on a stale copy, and a link and its backlink change together.
ObjRefinesAbstract == A!AbsSpec

\* A follower applying X's instructions in order holds what the writer's
\* tree holds: each setter's instruction is written after the write it
\* describes, with the value add_int added (not the sum it computed from an
\* accessor that may have been stale before its refresh), and a throwing
\* add_int on a null writes none.
ReplicaMatchesObj == repl = [xInt |-> content[loc].xInt, xLink |-> content[loc].xLink]

====
