# TLA+ models of the Realm query engine (Realm-Backup-5.5.2)

This directory holds TLA+ models of the query-evaluation core of realm-core
(`src/unnamed/part_000`, which is `query_engine.cpp`) and of the layers below it:
- link traversal (the `LinkMap` part of `list.cpp`, which is
  `query_expression.cpp`);
- links and backlinks (`obj.cpp`, `list.cpp`);
- object accessors over versioned storage (`obj.cpp`);
- list sort and distinct (`list.cpp`);
- value ordering (`mixed.cpp`);
- the message formatter `util::format` (`util/to_string.cpp`).

The TLC configurations that check them are kept beside the modules.
`PROJECT.json` records the following, and a reviewer can diff a definition
against its source lines from there:
- every component;
- every run;
- every mutant;
- the source lines each definition models;
- the findings;
- the hazards.

## The system and how its parts interact

A query is a tree of *condition nodes* (`ParentNode` subclasses). Its
top-level conjunction is the list `m_children`. The engine scans a table one
cluster at a time. After `set_cluster` (which calls `cluster_changed`) it asks
the nodes for matching rows.

- **Every node** answers `find_first_local(start, end)`: the first row in
  `[start, end)` where its own condition holds, or `not_found`.
- **Conjunction loop.** `ParentNode::find_first` (lines 41-68) asks the nodes
  in turn, round robin, and returns a row once all of them agree on it.
- **Cost-adaptive scan.** `Query::aggregate_internal` (in `query.cpp`, which
  is not under src) repeatedly picks the node with the best cost statistics.
  It hands that node a chunk and a budget `local_limit`.
  `ParentNode::aggregate_local` (lines 156-206) then finds the node's own
  matches and probes every other node at each of them with
  `find_first_local(r, r+1)`. It reports the agreed rows to the query state,
  which may stop the scan at a limit. It returns the position where the driver
  resumes: `r+1` when the budget is spent, `end` when the chunk is exhausted,
  and `size_t(-1)` when the query stops.
- **Nodes keep caches across calls**, which is where the difficulty lies:
  - `NotNode` remembers a *known range* and the first row in it where the
    negation holds (lines 457-588).
  - Indexed string equality walks a cursor over the search index's sorted key
    list (lines 208-307). The cursor rewinds when a request starts below the
    previous one.

  Because the driver alternates nodes, chunks and probes, a cached node sees
  requests in orders that no single test writes down.

Below the query engine:
- `Obj` accessors refresh themselves against the allocator's storage version.
- Single links and link lists maintain backlinks in the target table.
- `LinkMap` follows chains of link columns for link queries.
- `Mixed::compare` orders values for sort and distinct.

## Modules and runs

### `NotNode.tla`: the NOT node's known-range cache

- **State.** The variable `inner` is the inner query's match set in the
  current cluster. The variables `knownStart`, `knownEnd` and `firstInKnown`
  are the cache. `lastCall` is a history variable that records the latest
  request and its answer.
- **Actions.** `find_first_local(s, e)` is the code's if-chain. Each of the
  five cases is a separate operator whose disjuncts follow the case's branches.
  `cluster_changed` is `set_cluster`: the rows change and the cache resets.
- **Requests.** They range over every `start <= end <= N`. `aggregate_local`
  can pass `start = end`.

The node's two invariants are checked in the composed run `conjunction_not`
(below), where its requests come from every caller the engine has:
- `KnownRangeExact`: the cache is exact after every sequence of requests.
- `FindFirstLocalSound`: an answer in range is the first match, and an
  answer at or past `end` comes only when there is none. This is what the
  loop of a several-node `find_first` and `aggregate_local`'s probes
  `(r, r + 1)` rely on. It is not what `aggregate_local`'s own call
  `find_first_local(pos, end)` relies on (lines 177-179), nor a one-node
  `find_first`: both read only `not_found` as "no match".

Run:
- **`notnode_exact_contract`** (`NotNode_exact.cfg`) is a violation run.
  - It checks the design's stricter contract: the answer lies in
    `[start, end)` or is `not_found`.
  - TLC shows that `find_first_covered_by_known` (line 526) tests
    `m_first_in_known_range > end`. After the request `[0,2)` caches the first
    match 1, the request `[0,1)` answers 1.
  - See the finding in `PROJECT.json`. A one-node `find_first` returns the
    answer unconfirmed. `aggregate_local` treats any answer other than
    `not_found` as a candidate row. So through either caller the row `end`
    can reach the query as a match. The model does not check whether the
    triggering request sequence occurs under those callers.

### `Conjunction.tla`: `ParentNode::find_first`

- **Abstraction.** Each child is its match set, answering exactly per its
  contract.
- **Actions.** One loop pass is one step. `Step(m)` is the loop body once
  the current child has answered `m`, and `Iterate` asks the child and takes
  `Step`. `Exhausted` is the `while` condition failing, `Call` is entry and
  `Consume` is the caller returning.
- **Property.** `FindFirstIsFirstCommon`: the result is the first row
  common to all nodes. The module has no run of its own; it is checked as
  part of `ConjunctionNot`, where child 0 is a real `NotNode` and the other
  children are exactly this abstraction.

### `FindFirst.tla`: what `find_first` promises

- **Abstract specification.** A call on `[s, e)` returns, in one step
  (`AbsReturn`), the first row of the range where every condition holds, or
  `not_found`. Between calls (`AbsReconfigure`) the match sets may change.
  `AbsSpec` has weak fairness on `AbsReturn`: a call, once made, returns.
- **Refinement mapping** (in `ConjunctionNot`). The abstract `pc` is
  `"busy"` while the concrete loop runs. The abstract match sets are the
  children's match sets, with the NOT node's rows where `evaluate_at` holds.
  `start`, `current_cond` and `nb_cond_to_test` are hidden, so each loop
  iteration short of the return is a stutter.

### `ConjunctionNot.tla`: a conjunction whose first node is a `NotNode`

- **Composition.** The module instances `Conjunction` with `matches[0]`
  replaced by the rows where the NOT node's `evaluate_at` holds (rows outside
  `inner`). It also instances `NotNode` over its own variables.
  `otherMatches` holds the match sets of the other children.
- **Actions.**
  - `IterateNot`: the loop asks child 0, so the NOT node runs its five-case
    dispatch on `[start, end)`, and `Conjunction!Step` continues with its
    answer.
  - `IterateOther`: `Conjunction!Iterate` on another child.
  - `DirectCall`: between `find_first` calls, `aggregate_local` calls the
    same node directly (line 179 and the probes at line 191), on any range.
  - `SetCluster`: every child moves to another cluster. The NOT node resets
    its cache.
- **Run `conjunction_not`** (N = 3, K = 2) checks:
  - the NOT node's `KnownRangeExact` and `FindFirstLocalSound`;
  - the conjunction's `FindFirstIsFirstCommon`;
  - `ConjunctionRefinesFindFirst`: the loop implements `FindFirst!AbsSpec`,
    with the loop fed by the real cache. So `request` and `result` never
    change while the loop runs, the return gives the abstract answer, and
    every call returns (this replaces a separate termination property). The
    NOT node may answer a row past `end` rather than `not_found`, and the
    loop must still return `not_found`.

  The mutants of both components are caught here.

### `IndexedStringEqual.tla` and `MCIndexedStringEqual.tla`: the indexed cursor

- **Constant.** `Layout` is a table of clusters with ascending object keys.
  `MCLayout` has three clusters of 2, 3 and 1 rows, with gaps in the keys.
- **State.**
  - `matchKeys` is what the index returns for the needle.
  - `resultsEnd`, `resultsNdx`, `actualKey` and `lastStartKey` are the
    cursor.
- **Actions.**
  - `search_index_init` is `init`/`_search_index_init`, with the not-found,
    single and column result kinds.
  - `find_first_local(c, s, e)` is the indexed branch. Requests come in any
    cluster and range order.
  - `do_consume_condition(v)` is the IN fusion of `StringNode<Equal>`. The
    other value joins `needles` and the index is switched off, so later
    requests scan the rows for any needle (`find_first_local_scan`).
    `otherKeys` are the objects holding the other value. `accepted`
    records every value the node stands for.
  - `search_index_init_ins` is `StringNode<EqualIns>::_search_index_init`.
    `ins` picks the class of the node, and the two classes share the cursor.
    The EqualIns init does not reset `m_last_start_key`, so a re-init keeps
    the last key of the previous scan.
  - `AdvanceTo` follows the code's loop literally: it increments
    `m_results_ndx` before it reads the next key.
- **Run `indexed_string_equal`** checks `IndexedFindFirstExact`: every answer
  equals a plain row scan, for either node class. This includes backward
  jumps, exhaustion of the list, fusion before or after init, and re-init of
  the case-insensitive node with a stale `m_last_start_key`. That staleness
  is harmless: the rewound cursor makes a skipped rewind a no-op. A re-init
  that kept `m_results_ndx` would not be harmless, and its mutant is caught.

### `QueryAggregate.tla`: `aggregate_local` under the cost-based driver

- **Driver.** `DriverChunk` and `DriverDone` model the driver loop of
  `query.cpp` from the design. The node, the chunk end and `local_limit` are
  chosen nondeterministically, which covers every outcome of the cost
  statistics.
- **`aggregate_local`.** One pass of its `for (;;)` is one step.
- **Run `aggregate_scan`** (N = 4, K = 2, MaxLocal = 2, Limit = 2) checks two
  properties:
  - `ReportsFirstCommonRows`: the query state receives exactly the first
    `Limit` common rows, in order, each once.
  - `ScanTerminates`.
- **Deadlock.** Deadlock checking is off only because a finished scan
  (`pc = "done"`) is a final state.

### `LinkMap.tla`: link traversal

- **State.**
  - `kinds` and `data` are a chain of `Hops` link columns (single link, link
    list or backlink) over `Objs` objects per table.
  - `linkTypes` and `onlyUnary` are `set_base_table`'s results.
  - `lastCall` records the latest traversal and its output.
- **Operators.**
  - `map_links` and `map_links_loop` are the recursive `LinkMap::map_links`.
  - `Targets` and `Backlinks` read a hop's keys, the backlinks in
    `get_all_backlinks` order.
  - `get_origin_ndxs` walks the chain backwards.
- **Actions.** `evaluate(k)` is `Columns<Link>::evaluate`, `unary_link` is a
  `UnaryLinkResult` traversal, and `origin_ndxs` is `get_origin_ndxs`.
  `unary_link` is enabled only on chains that `set_base_table` marked
  unary, as its callers in src issue it.

Runs:
- **`linkmap_traversal`** (Hops = 2, two objects, lists up to 2) checks two
  properties:
  - `EvaluateYieldsAllPaths`: an expression yields every end object once per
    path.
  - `OriginsInvertTraversal`: `get_origin_ndxs` inverts the traversal for
    non-null keys.
- **Not checked.**
  - `map_links` returns only from the innermost loop when the visitor
    answers `false` (line 894). The design says that answer ends the
    traversal. On the unary chains where src uses a stopping visitor, there
    is only one key to visit, so no run checks this (hazard in
    `PROJECT.json`).
  - `get_origin_ndxs` can return `null_key` among its keys (line 985).
    Neither the design nor a comment promises non-null keys, so this is
    recorded as a hazard.

### `Links.tla`: links and backlinks

- **State.**
  - `link[o]` and `list[o]` are an origin table's single-link and link-list
    columns.
  - `blLink[t][o]` and `blList[t][o]` count the entries of origin `o` in
    target `t`'s backlink columns.
  - `alive` is the set of target objects that exist.
- **Actions.** Each is a whole handler, built from the same helpers as the
  code (`add_backlink`, `remove_one_backlink`, `set_backlink`,
  `replace_backlink`, `remove_backlink`, `nullify_link`):
  - `set_link` is `Obj::set<ObjKey>`.
  - `list_set`, `list_insert`, `list_remove` and `list_clear` are
    `Lst<ObjKey>`'s `do_set`, `do_insert`, `do_remove` and weak `clear`.
  - `remove_target` calls `nullify_link` once per backlink entry.
  - `remove_target_row` and `remove_all_target_rows` are `LnkLst`'s.
    They remove the listed targets, each through `RemoveObject`.
  - `assign` is `Obj::assign`'s `copy_links` on a target object, with the
    backlinks read once before the loop.
  - `assign_origin` is `Obj::assign`'s column copy on an origin object:
    - the single link goes through `set_null` (`set(col, null_key)`, then a
      `set_null` instruction) or through `set<ObjKey>`;
    - the list is cleared and refilled from the source's entries.
- **Replication.** `replica` is the link state a follower rebuilds by
  applying the log in order. `Apply` gives the meaning of each instruction
  (`replication.hpp` is not under src). Every handler writes what the code
  writes:
  - `repl->set` after `set<ObjKey>`;
  - `set_repl`, `insert_repl` and `erase_repl` from `Lst::set`, `insert`
    and `remove`;
  - one `list_clear` for a whole clear;
  - from `nullify_link`, `link_list_nullify` at the index `find_first`
    returned, before the raw tree erase, or `nullify_link` for a single link.
- **Run `links_backlinks`** (2 origins, 3 targets, lists up to 2) checks three
  properties:
  - `BacklinksMatchLinks`: the backlink columns hold exactly one entry per
    forward link.
  - `NoDanglingLinks`: no link points at a removed object.
  - `ReplicaMatchesLinks`: after every handler, the follower has the same
    links and lists as the writer. This includes the cascades of
    nullifications that removing one or several targets sets off.

  `TypeOK` also says that no backlink count goes negative. Deadlock checking
  is off: with every target removed and every link null, no operation is
  left.

### `AbstractObj.tla` and `ObjAccessor.tla`: accessors and storage versions

- **`AbstractObj`** is what an object promises. Object X has a nullable int
  and a link to Y, and Y holds its backlink. `SetInt`, `AddInt` (with
  `add_wrap`), `SetNull` and `SetLink` are each one atomic change.
- **`ObjAccessor`** puts the same object into copy-on-write storage.
  - **Storage.** `content[a]` is the cluster stored at address `a`, and
    `loc` is the address the tree records. `ro` holds the committed
    addresses, and `sv` is the storage version.
  - **Accessors.** Each accessor of X has its `m_mem` (`mem`) and
    `m_storage_version` (`ver`). `index` is the search index entry.
  - **Actions.** `get_int`, `get_any`, `is_null`, `set_int`, `set_optional`
    (`set<Optional<int64_t>>`), `set_mixed` (`set(ColKey, Mixed)`),
    `add_int`, `set_null` and `set_link` are the code's sequences of `update_if_needed`, fields-accessor write,
    `sync` and `ensure_writeable`. In `set_link`, the target's backlink write
    goes to the shared cluster, then X refreshes (line 928) and writes.
  - **Environment.** `commit` makes memory read-only. `move_cluster` is a
    split elsewhere in the table.
  - **Assumption.** As the design's version discipline requires, every move
    of the cluster bumps the storage version.
- **Run `obj_accessor`** (two accessors, W = 2 bits, 3 addresses) checks
  four properties and the refinement:
  - `IndexMatchesValue`, including after wrap-around.
  - `ReadsAreCurrent`: `get_int`, `get_any` and `is_null` return what the
    object holds.
  - `ReplicaMatchesObj`: a follower applying the setters' instructions
    holds X's value and link. The instructions are `set_int`, `add_int`
    with the delta, `set_null`, and `set` for the link. The follower's
    `add_int` wraps on its own value, and a throwing `add_int` writes
    nothing. Writing the sum instead of the delta is the mutant.
  - `ObjRefinesAbstract`, which is `AbstractObj!AbsSpec` under the mapping
    `xInt <- content[loc].xInt` and so on. A write to a stale copy, or a link
    written without its backlink, breaks it. The mutant without the line-928
    refresh loses the backlink.

### `MixedCompare.tla`: `Mixed::compare`

- **Value domain.**
  - Doubles are a 5-bit IEEE-style format: sign, 2 exponent bits and 2
    mantissa bits. It has six NaN payloads, signed zeros, infinities and
    subnormals, and its raw bits are what `memcpy` yields.
  - Ints, and binaries of up to 2 bytes, complete the domain. `memcmp` is
    glibc's byte difference.
- **Sampling.** Each state is a triple of values of one type, or null; a
  step replaces one of them.
- **Run `mixed_compare`** checks two properties:
  - `CompareIsTotalPreorder`: antisymmetry of the sign, and transitivity of
    both the order and the equivalence.
  - `CompareMatchesDesign`: null lowest, then NaN below numbers and NaNs by
    raw bits, binaries lexicographically.

### `ListSortDistinct.tla`: `ConstLstIf::sort` and `distinct`

- **Elements.** The list holds nullable doubles, compared with
  `Optional<double>`'s `<` and `==`.
- **`std::sort`.** For lists of at most 16 elements it is libstdc++'s
  insertion sort, so `StdSort` computes exactly what the build does.
- **State.** `indices` is the caller's vector, kept between calls. The list
  may change between calls by insert, erase and set.
- **Runs.**
  - **`list_sort_distinct`** (NaN-free values null, -0.0, +0.0, 1.0, lists up
    to 3) checks three properties:
    - `SortYieldsPermutation`;
    - `SortOrdersValues`;
    - `DistinctKeepsFirst`, which includes -0.0 and +0.0 being equal.

    Here the caller hands sort either a fresh vector or one a sort
    returned, never one distinct returned (`ReuseDistinct = FALSE`).
  - **`list_nan_order`** (violation, with NaN) checks `SortOrdersValues`
    against the design's order, in which NaN sorts below every number. TLC
    shows that ascending sort leaves `[+0.0, NaN]` unchanged, with NaN last.
  - **`list_nan_distinct`** (violation, with NaN) checks
    `DistinctKeepsFirst`. TLC shows that distinct of `[+0.0, NaN, +0.0]`
    returns `<<0, 1, 2>>`, which keeps both `+0.0`. `std::unique` removes
    only adjacent duplicates, and the sort leaves NaN between them.
- **Replication.** Each edit (`insert`, `set`, `erase`) also writes the
  instruction that `Lst<Optional<Double>>::insert_repl` or `set_repl`, or
  `ConstLstBase::erase_repl`, sends to the replication log. An empty
  `Optional` becomes `list_insert_null` or `list_set_null`. `replica` is a
  follower that replays each instruction as it is written.
  `ReplicaMatchesList` (in `list_sort_distinct`) states that the follower
  holds the writer's list after every edit. The mutant writes
  `list_set_null` for an inserted null, a slip copied from `set_repl`.
- **Reused vectors.** With `ReuseDistinct = TRUE` (the caller hands sort a
  vector that distinct returned), `SortYieldsPermutation` fails:
  `<<0, 2>>` becomes `<<2, 2, 0>>`. The contract on the vector is stated
  nowhere, so this is recorded as a hazard rather than a run.

### `ToString.tla`: `util::format`

- **State.** `fmt` is the format string as a sequence of characters, and `p`
  is where the `char*` `fmt` points. `out` is what has been written to the
  stream. Each character is written as itself, and each argument as one
  token naming it: `Printable::print`'s conversion is not what the property
  tells apart.
- **Actions.** One pass of the `while` loop is one step:
  - `EmitRest`: no `%` remains (lines 92-95);
  - `Escape`: `%%` (lines 103-107);
  - `Substitute`: `%<digits>` in range (lines 108-114). `strtoul` takes the
    longest digit run, saturates at `ULONG_MAX`, and `- 1` is taken modulo
    2^W;
  - `AssertFails`: one of the three `REALM_ASSERT`s (lines 100, 108 and 113);
  - `Return`: the `while (*fmt)` test fails.
- **Reference.** `Expand` is a recursive reading of the format language one
  token at a time. `%%` is a `%`. `%k` is argument k when 1 <= k <=
  `values.size()`. Any other `%` is invalid.
- **Run `tostring_format`** checks `FormatMatchesReference` for every format
  string of up to 5 characters over `a`, `%`, `0`, `1`, `2` and every
  argument count up to 2. The scan returns exactly the reference text, and
  it aborts exactly when the reference rejects the string. This covers
  `%0`, which is rejected only because the index wraps in unsigned
  arithmetic, and `%1` followed by another digit, which names argument 10
  or more. No format string can print argument 1 followed by a literal
  digit. `CHECK_DEADLOCK FALSE` is set because a call ends, by returning or
  by aborting.

### Mutants

Every property of a passing run has a mutant in `PROJECT.json`: a plausible
slip in the modelled code, defined next to the operator it replaces, which
TLC must catch. The slips are:
- a dropped re-arm of `nb_cond_to_test`, and a missing wrap of
  `current_cond`;
- `do_consume_condition` leaving the index on;
- the EqualIns re-init keeping the cursor position;
- an inclusive index end;
- resuming at `r` instead of `r+1`;
- caching the wrong match in the upper-overlap case;
- in the lower layers:
  - a backlink kept on overwrite;
  - the list branch of `nullify_link` dropped;
  - the single-link branch of `nullify_link` writing no instruction;
  - `clear` erasing through `do_remove`;
  - the line-928 refresh dropped;
  - a read without the version check;
  - the search index given the unwrapped sum;
  - `add_int` logging the sum instead of the delta;
  - NaN placed above numbers;
  - the sort directions exchanged;
  - distinct without restoring the order;
  - `insert_repl` writing `list_set_null` for a null;
- in `util::format`, the index computed in a signed type, and the scan
  resuming at the second `%` of `%%`.

## Bounds

- **ConjunctionNot, N = 3 and K = 2.** Every relative position of a
  request and the known range occurs, equal edges included. This is because
  direct calls issue every range. A NOT answer past `end` reaches the loop.
  N = 4 with K = 3 does not finish within the time budget.
  With K = 2, the NOT node can move `start` after the other node agreed, so
  re-arming `nb_cond_to_test` and the wrap-around of `current_cond` both
  matter, and their mutants are caught. K = 3 does not finish within the
  time budget with N = 3, and N = 2 leaves too few ranges.
- **QueryAggregate, K = 2 and MaxLocal = 2.** Budgets smaller than the number
  of matches occur, so resuming across chunks of different nodes happens.
  `Limit = 2` stops some scans early.
- **MCLayout.** Request order covers forward, backward and same-cluster
  requests, and the index answer ranges over every subset of the keys.

- **Links: 2 origins, 3 targets, lists of 2.** Every list can hold the same
  target twice, so `find_first` in `nullify_link` and `assign` matters.
  Removal and assign occur with both columns linked.
- **ObjAccessor: 3 addresses.** This allows a commit, the target's
  copy-on-write and a second copy by a stale accessor. W = 2 makes every
  `add_int` delta reach the wrap.
- **ToString: strings of up to 5 characters, digits 0-2, up to 2
  arguments, W = 16.** These cover `%%` before a digit, `%0`, a trailing
  `%`, a two-digit placeholder, a placeholder past the last argument, and
  two placeholders in one string. No digit run reaches 2^16, so `strtoul`
  never saturates, as on a 64-bit `unsigned long`.
- **ListSortDistinct: lists of 3.** Three elements are needed for a value
  between two equal ones, and for a distinct result shorter than the list.

## Fairness

All loops run on the caller's thread with no suspension points. Once entered,
`find_first` and the driver loop keep executing. This justifies weak fairness
on the loop steps (`IterateNot`, `IterateOther` and `Exhausted` in
`ConjunctionNot`). Under that fairness the loop implements `FindFirst`'s
weak fairness on `AbsReturn`. The same fairness applies to the whole scan
(`QueryAggregate`). Direct calls and cluster changes get no fairness.
`NotNode`, `IndexedStringEqual` and `ToString` are checked for safety only.
The callers of the first two may stop issuing requests at any time, and
`format` is a single call. The lower layers are checked for
safety: every operation there is a single call that returns, and none of them
promises that something happens later.

## Not modelled, and why

- `describe` and `size_of_list_from_ref`: formatting and type dispatch with no
  state.
- `aggregate_local_prepare`: it only selects a template specialisation.
- `ExpressionNode`: it forwards to the expression tree, which is not in src.
- Tests, benchmarks (`part_001`, `part_002`, `stats.cpp`), Swift bindings and
  examples, and the Jenkinsfile. They are not engine code.
- The parser, descriptor ordering and result views. Only the parser's tests
  are in src.

- **The strong-link branch of `Lst<ObjKey>::clear` and the cascade
  (`CascadeState`, `remove_recursive`).** Neither is under src, and the design
  does not describe them. The weak-link paths are modelled.
- **The other typed setters of `Obj`.** They share `set<int64_t>`'s path.
- **`Obj::assign`'s copy of non-link columns.** It is a loop of the typed
  setters. The link columns are modelled (`assign_origin`).
- **`to_json` and the getters of types other than int.** They do not change
  state, and they follow `_get<T>`, which is modelled.
- **Replication of the typed `Lst<T>` `set_repl`/`insert_repl` other than
  `Lst<Optional<Double>>` and of `move_repl`/`swap_repl`.** The other element
  types have the same two-branch dispatch. Move and swap live in `list.hpp`,
  which is not under src. The `Lst<ObjKey>` and `Lst<Optional<Double>>`
  dispatches are modelled.
- **`ConstObj::cmp` and `operator==`.** They compare column by column with
  each type's `<`, which the models of value order already cover.
- **List aggregates.** They are B+-tree folds in headers that are not under
  src.
- **String order in `Mixed::compare`.** It is `utf8_compare` in
  `unicode.cpp`, which is not under src.
- **`Printable::print`, `print_all` and `str` in `util/to_string.cpp`.**
  They are text layout: the decimal and `true`/`false` conversions, and
  `std::quoted`. `format` is modelled, with each printed argument as one
  token.
- **`ConstObj::cmp<Float>`/`<Double>` on NaN.** `cmp` uses `<` and `>`, so
  NaN compares equal to every value, and `operator==` of two objects is not
  transitive. This is listed as a hazard. The same `<` on
  `Optional<double>` is modelled in `ListSortDistinct`.

## Next steps

1. The list aggregates, once the B+-tree folds can be taken from the design.
2. `ConstObj::cmp` and `operator==` on objects with a float or double
   column, where NaN compares equal to everything. This needs a violation
   run, and the project is at its run budget.
3. The visitor divergence of `map_links` (list.cpp line 894), should a
   caller in src ever run a stopping visitor on a chain that is not unary.
   The model's `unary_link` already computes `map_links`' answer for any
   chain.
