----------------------------- MODULE Conjunction -----------------------------
(***************************************************************************)
(* The conjunction loop of the query engine: ParentNode::find_first        *)
(* (query_engine.cpp).  A query is the conjunction of the condition nodes  *)
(* m_children[0 .. sz-1]; find_first(start, end) asks them in turn, round  *)
(* robin, for their first match at or after start.  A node answering a    *)
(* later row moves start forward and obliges every other node to confirm   *)
(* the new row again; the row is returned once sz consecutive answers      *)
(* agreed on it.                                                           *)
(*                                                                         *)
(* Each child is abstracted to the set of rows of the cluster where its    *)
(* condition holds, and answers find_first_local(start, end) with the      *)
(* first such row in [start, end), or not_found.  One loop iteration is    *)
(* one step, so a caller's view of the loop's progress is explicit.        *)
(***************************************************************************)
EXTENDS Naturals, FiniteSetsExt

CONSTANTS
    N,      \* number of rows in the cluster
    K       \* number of condition nodes in the conjunction (sz)

ASSUME N \in Nat \ {0} /\ K \in Nat \ {0}

Rows == 0 .. N - 1
Children == 0 .. K - 1
NotFound == N + 1

VARIABLES
    matches,    \* matches[c]: rows where m_children[c]'s condition holds
    pc,         \* "idle" between calls, "loop" inside the while loop, "done"
    request,    \* the arguments <<start, end>> find_first was called with
    start,      \* the local start, moved forward by the loop
    end_,       \* the local end
    current,    \* current_cond
    toTest,     \* nb_cond_to_test
    result      \* the value returned, once pc = "done"

vars == <<matches, pc, request, start, end_, current, toTest, result>>

\* Reference definition: the first row of [s, e) in every child's match set.
FirstCommon(s, e) ==
    LET hits == {r \in s .. (e - 1) : \A c \in Children : r \in matches[c]}
    IN  IF hits = {} THEN NotFound ELSE Min(hits)

\* m_children[c]->find_first_local(s, e) for a node honouring its contract.
find_first_local(c, s, e) ==
    LET hits == {r \in s .. (e - 1) : r \in matches[c]}
    IN  IF hits = {} THEN NotFound ELSE Min(hits)

(***************************************************************************)
(* ParentNode::find_first                                                  *)
(***************************************************************************)

\* Entry: sz, current_cond = 0 and nb_cond_to_test = sz.
Call ==
    /\ pc = "idle"
    /\ \E s, e \in 0 .. N :
          /\ request' = <<s, e>>
          /\ start' = s
          /\ end_' = e
    /\ current' = 0
    /\ toTest' = K
    /\ pc' = "loop"
    /\ UNCHANGED <<matches, result>>

\* A plausible slip: forgetting to re-arm nb_cond_to_test when start moves.
StepNoRearm(m) ==
    LET nb == toTest - 1
    IN  /\ start' = m
        /\ \/ /\ nb = 0
              /\ result' = m
              /\ pc' = "done"
              /\ UNCHANGED <<current, toTest>>
           \/ /\ nb # 0
              /\ toTest' = nb
              /\ current' = (current + 1) % K
              /\ UNCHANGED <<pc, result>>
        /\ UNCHANGED <<matches, request, end_>>

\* A plausible slip: re-arming nb_cond_to_test on every answer, not only
\* when start moved.
StepAlwaysRearm(m) ==
    LET nb == K - 1
    IN  /\ start' = m
        /\ \/ /\ nb = 0
              /\ result' = m
              /\ pc' = "done"
              /\ UNCHANGED <<current, toTest>>
           \/ /\ nb # 0
              /\ toTest' = nb
              /\ current' = (current + 1) % K
              /\ UNCHANGED <<pc, result>>
        /\ UNCHANGED <<matches, request, end_>>

\* A plausible slip: advancing current_cond without wrapping it to 0.
StepNoWrap(m) ==
    LET nb == IF m # start THEN K - 1 ELSE toTest - 1
    IN  /\ start' = m
        /\ \/ /\ nb = 0
              /\ result' = m
              /\ pc' = "done"
              /\ UNCHANGED <<current, toTest>>
           \/ /\ nb # 0
              /\ toTest' = nb
              /\ current' = current + 1
              /\ UNCHANGED <<pc, result>>
        /\ UNCHANGED <<matches, request, end_>>

\* The rest of the loop body once the current child answered m.
Step(m) ==
    \* if (m != start) { nb_cond_to_test = sz; start = m; } nb_cond_to_test--;
    LET nb == IF m # start THEN K - 1 ELSE toTest - 1
    IN  /\ start' = m
        /\ \/ /\ nb = 0
              /\ result' = m
              /\ pc' = "done"
              /\ UNCHANGED <<current, toTest>>
           \/ /\ nb # 0
              /\ toTest' = nb
              /\ current' = (current + 1) % K
              /\ UNCHANGED <<pc, result>>
        /\ UNCHANGED <<matches, request, end_>>

\* One pass of the while loop body: ask the current child, then Step.
Iterate ==
    /\ pc = "loop"
    /\ start < end_
    /\ Step(find_first_local(current, start, end_))

\* The while condition fails: return not_found.
Exhausted ==
    /\ pc = "loop"
    /\ start >= end_
    /\ result' = NotFound
    /\ pc' = "done"
    /\ UNCHANGED <<matches, request, start, end_, current, toTest>>

\* The caller consumes the result and may call again on the same cluster.
Consume ==
    /\ pc = "done"
    /\ pc' = "idle"
    /\ UNCHANGED <<matches, request, start, end_, current, toTest, result>>

Init ==
    /\ matches \in [Children -> SUBSET Rows]
    /\ pc = "idle"
    /\ request = <<0, 0>>
    /\ start = 0
    /\ end_ = 0
    /\ current = 0
    /\ toTest = K
    /\ result = NotFound

Next == Call \/ Iterate \/ Exhausted \/ Consume

\* The loop runs on the caller's thread without suspension points: once
\* entered, it keeps executing until it returns.
Spec == Init /\ [][Next]_vars /\ WF_vars(Iterate \/ Exhausted)

(***************************************************************************)
(* Properties                                                              *)
(***************************************************************************)

TypeOK ==
    /\ matches \in [Children -> SUBSET Rows]
    /\ pc \in {"idle", "loop", "done"}
    /\ request \in (0 .. N) \X (0 .. N)
    /\ start \in 0 .. N \cup {NotFound}
    /\ end_ \in 0 .. N
    /\ current \in Children
    /\ toTest \in 1 .. K
    /\ result \in Rows \cup {NotFound}

\* Design section 8: find_first(a, b) on a conjunction returns the smallest
\* row of [a, b) where every condition holds, else not_found.  The round
\* robin with nb_cond_to_test must never return a row that some node has not
\* confirmed since start last moved, nor skip a common match.
FindFirstIsFirstCommon ==
    pc = "done" => result = FirstCommon(request[1], request[2])

=============================================================================
