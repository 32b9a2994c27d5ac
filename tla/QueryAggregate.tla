---------------------------- MODULE QueryAggregate ----------------------------
(***************************************************************************)
(* The cost-adaptive scan of a conjunction: ParentNode::aggregate_local    *)
(* (query_engine.cpp) driven by the engine's per-cluster loop              *)
(* (Query::aggregate_internal, query.cpp).                                 *)
(*                                                                         *)
(* The driver repeatedly picks one condition node, the one its cost        *)
(* statistics rate best, and hands it a chunk [start, td) of the cluster   *)
(* with a budget local_limit of its own matches.  The node runs its own    *)
(* find_first_local over the chunk, probes every other node of the         *)
(* conjunction at each of its matches with find_first_local(r, r + 1), and *)
(* passes rows all nodes agree on to the query state (count, find_all,     *)
(* ...), which answers whether to go on: a query limit stops the scan.     *)
(* aggregate_local returns where the driver must resume.                   *)
(*                                                                         *)
(* The statistics (m_dT, m_dD) are doubles that only steer the choice of   *)
(* node and chunk; the model lets every choice happen, so what it checks   *)
(* holds whatever the cost estimates are.                                  *)
(***************************************************************************)
EXTENDS Naturals, SequencesExt

CONSTANTS
    N,          \* rows in the cluster
    K,          \* condition nodes in the conjunction
    MaxLocal,   \* largest local_limit the driver passes (findlocals, probe_matches)
    Limit       \* the query's limit on matches (QueryState::m_limit)

ASSUME N \in Nat \ {0} /\ K \in Nat \ {0}
ASSUME MaxLocal \in Nat \ {0} /\ Limit \in Nat \ {0}

Rows == 0 .. N - 1
Children == 0 .. K - 1
NotFound == N + 1       \* not_found, and the size_t(-1) of a stopped scan

VARIABLES
    matches,        \* matches[c]: rows where node c's condition holds
    request,        \* <<start, end>> of the cluster range the driver scans
    pc,             \* "driver", "local" (inside aggregate_local) or "done"
    start,          \* the driver's resume position
    node,           \* the node running aggregate_local
    td,             \* end of the chunk handed to it
    localLimit,     \* its local_limit
    pos,            \* r + 1: where its next find_first_local starts
    localMatches,   \* local_matches
    reported        \* rows passed to the query state, in order

vars == <<matches, request, pc, start, node, td, localLimit, pos, localMatches,
          reported>>

\* find_first_local(s, e) of node c, honouring its contract.
find_first_local(c, s, e) ==
    LET hits == {r \in s .. e - 1 : r \in matches[c]}
    IN  IF hits = {} THEN NotFound ELSE Min(hits)

\* The probe loop "for (c = 1; c < m_children.size(); c++)": m_children of
\* the running node lists itself first, then the rest of the conjunction;
\* every other node must answer r to find_first_local(r, r + 1).
ProbesAgree(r) == \A c \in Children \ {node} : find_first_local(c, r, r + 1) = r

\* QueryState::match: count the row; go on while below the limit.
QueryStateContinues == Len(reported) + 1 < Limit

(***************************************************************************)
(* Query::aggregate_internal: the driver loop over one cluster range       *)
(***************************************************************************)

\* size_t best = find_best_node(pn); start = ...->aggregate_local(st, start,
\* td, local_limit, ...).  The best node and the chunk end td are chosen by
\* cost statistics; any node, chunk and budget may come out of them.
DriverChunk ==
    /\ pc = "driver"
    /\ start < request[2]
    /\ \E c \in Children, t \in start + 1 .. request[2], l \in 1 .. MaxLocal :
          /\ node' = c
          /\ td' = t
          /\ localLimit' = l
    /\ pos' = start                 \* size_t r = start - 1; pos = r + 1
    /\ localMatches' = 0
    /\ pc' = "local"
    /\ UNCHANGED <<matches, request, start, reported>>

DriverDone ==
    /\ pc = "driver"
    /\ start >= request[2]
    /\ pc' = "done"
    /\ UNCHANGED <<matches, request, start, node, td, localLimit, pos,
                   localMatches, reported>>

(***************************************************************************)
(* ParentNode::aggregate_local: one pass of its for (;;) loop per step     *)
(***************************************************************************)

\* Return to the driver with the resume position.
Yield(next) ==
    /\ start' = next
    /\ pc' = "driver"

\* A plausible slip: answering the search's own start when the node finds
\* nothing more in the chunk, instead of the chunk end.
aggregate_local_resume_at_pos ==
    /\ pc = "local"
    /\ \/ /\ localMatches = localLimit
          /\ Yield(pos)
          /\ UNCHANGED <<localMatches, pos, reported>>
       \/ /\ localMatches # localLimit
          /\ LET r == find_first_local(node, pos, td) IN
             \/ /\ r = NotFound
                /\ Yield(pos)
                /\ UNCHANGED <<localMatches, pos, reported>>
             \/ /\ r # NotFound
                /\ localMatches' = localMatches + 1
                /\ pos' = r + 1
                /\ \/ /\ ~ProbesAgree(r)
                      /\ UNCHANGED <<reported, start, pc>>
                   \/ /\ ProbesAgree(r) /\ QueryStateContinues
                      /\ reported' = Append(reported, r)
                      /\ UNCHANGED <<start, pc>>
                   \/ /\ ProbesAgree(r) /\ ~QueryStateContinues
                      /\ reported' = Append(reported, r)
                      /\ Yield(NotFound)
    /\ UNCHANGED <<matches, request, node, td, localLimit>>

\* A plausible slip: never yielding on local_limit.
aggregate_local_no_budget ==
    /\ pc = "local"
    /\ LET r == find_first_local(node, pos, td) IN
       \/ /\ r = NotFound
          /\ Yield(td)
          /\ UNCHANGED <<localMatches, pos, reported>>
       \/ /\ r # NotFound
          /\ localMatches' = localMatches + 1
          /\ pos' = r + 1
          /\ \/ /\ ~ProbesAgree(r)
                /\ UNCHANGED <<reported, start, pc>>
             \/ /\ ProbesAgree(r) /\ QueryStateContinues
                /\ reported' = Append(reported, r)
                /\ UNCHANGED <<start, pc>>
             \/ /\ ProbesAgree(r) /\ ~QueryStateContinues
                /\ reported' = Append(reported, r)
                /\ Yield(NotFound)
    /\ UNCHANGED <<matches, request, node, td, localLimit>>

\* A plausible slip: resuming at the last local match r instead of r + 1.
aggregate_local_resume_at_r ==
    /\ pc = "local"
    /\ \/ /\ localMatches = localLimit
          /\ Yield(pos - 1)
          /\ UNCHANGED <<localMatches, pos, reported>>
       \/ /\ localMatches # localLimit
          /\ LET r == find_first_local(node, pos, td) IN
             \/ /\ r = NotFound
                /\ Yield(td)
                /\ UNCHANGED <<localMatches, pos, reported>>
             \/ /\ r # NotFound
                /\ localMatches' = localMatches + 1
                /\ pos' = r + 1
                /\ \/ /\ ~ProbesAgree(r)
                      /\ UNCHANGED <<reported, start, pc>>
                   \/ /\ ProbesAgree(r) /\ QueryStateContinues
                      /\ reported' = Append(reported, r)
                      /\ UNCHANGED <<start, pc>>
                   \/ /\ ProbesAgree(r) /\ ~QueryStateContinues
                      /\ reported' = Append(reported, r)
                      /\ Yield(NotFound)
    /\ UNCHANGED <<matches, request, node, td, localLimit>>

aggregate_local ==
    /\ pc = "local"
    /\ \/ /\ localMatches = localLimit          \* budget spent: return r + 1
          /\ Yield(pos)
          /\ UNCHANGED <<localMatches, pos, reported>>
       \/ /\ localMatches # localLimit
          /\ LET r == find_first_local(node, pos, td) IN
             \/ /\ r = NotFound                 \* chunk exhausted: return end
                /\ Yield(td)
                /\ UNCHANGED <<localMatches, pos, reported>>
             \/ /\ r # NotFound
                /\ localMatches' = localMatches + 1
                /\ pos' = r + 1
                /\ \/ /\ ~ProbesAgree(r)        \* some other node disagrees
                      /\ UNCHANGED <<reported, start, pc>>
                   \/ /\ ProbesAgree(r) /\ QueryStateContinues
                      /\ reported' = Append(reported, r)
                      /\ UNCHANGED <<start, pc>>
                   \/ /\ ProbesAgree(r) /\ ~QueryStateContinues
                      /\ reported' = Append(reported, r)
                      /\ Yield(NotFound)        \* return size_t(-1)
    /\ UNCHANGED <<matches, request, node, td, localLimit>>

Init ==
    /\ matches \in [Children -> SUBSET Rows]
    /\ \E s, e \in 0 .. N : s <= e /\ request = <<s, e>> /\ start = s
    /\ pc = "driver"
    /\ node = 0
    /\ td = 0
    /\ localLimit = 1
    /\ pos = 0
    /\ localMatches = 0
    /\ reported = <<>>

Next == DriverChunk \/ DriverDone \/ aggregate_local

\* Both loops run to completion on the caller's thread.
Spec == Init /\ [][Next]_vars /\ WF_vars(Next)

(***************************************************************************)
(* Properties                                                              *)
(***************************************************************************)

TypeOK ==
    /\ matches \in [Children -> SUBSET Rows]
    /\ pc \in {"driver", "local", "done"}
    /\ start \in 0 .. N \cup {NotFound}
    /\ node \in Children
    /\ td \in 0 .. N
    /\ localLimit \in 1 .. MaxLocal
    /\ pos \in 0 .. N
    /\ localMatches \in 0 .. MaxLocal
    /\ reported \in Seq(Rows)

\* The rows of [s, e) where every node's condition holds, ascending.
CommonRows(s, e) ==
    SetToSortSeq({r \in s .. e - 1 : \A c \in Children : r \in matches[c]}, <)

\* Whatever node and chunk the cost statistics pick at each round, the scan
\* passes to the query state exactly the rows every condition holds on, in
\* row order, each once, and stops after the query's limit.  This needs the
\* resume positions of aggregate_local (r + 1 on a spent budget, end on an
\* exhausted chunk, size_t(-1) on a stop) to fit the driver's loop.
ReportsFirstCommonRows ==
    pc = "done" =>
        LET all == CommonRows(request[1], request[2])
        IN  reported = SubSeq(all, 1, IF Len(all) < Limit THEN Len(all) ELSE Limit)

\* The scan of a cluster range always finishes.
ScanTerminates == <>(pc = "done")

=============================================================================
