---------------------------- MODULE ConjunctionNot ----------------------------
(***************************************************************************)
(* A conjunction whose first condition is a NOT node: the composition of   *)
(* ParentNode::find_first (module Conjunction) with NotNode's cached        *)
(* find_first_local (module NotNode), query_engine.cpp.                    *)
(*                                                                         *)
(* m_children[0] is the NotNode; its matches are the rows where its inner  *)
(* query fails.  The other children keep the contract-honouring answer of  *)
(* module Conjunction.  Whenever the loop asks child 0, the NOT node runs  *)
(* its five-case dispatch, reading and widening its known-range cache, and *)
(* the loop continues with whatever it answered.  Between find_first       *)
(* calls the same node tree is also driven by ParentNode::aggregate_local, *)
(* which calls the children directly (line 191), and by set_cluster, which *)
(* moves every child to another cluster.                                   *)
(***************************************************************************)
EXTENDS Naturals

CONSTANTS
    N,      \* number of rows in the cluster
    K       \* number of condition nodes; m_children[0] is the NotNode

\* Chains of at least two nodes.  With K = 1, ParentNode::find_first
\* returns the NOT node's first answer unconfirmed (nb_cond_to_test drops to
\* 0 at once), so the answer end of NotNode line 526 reaches the caller;
\* that case is the violation run of module NotNode.
ASSUME K \in Nat /\ K >= 2

Rows == 0 .. N - 1
Others == 1 .. K - 1

VARIABLES
    otherMatches,   \* otherMatches[c]: rows where m_children[c] (c > 0) holds
    pc, request, start, end_, current, toTest, result,
    inner, knownStart, knownEnd, firstInKnown, lastCall

conjVars == <<pc, request, start, end_, current, toTest, result>>
notVars == <<inner, knownStart, knownEnd, firstInKnown, lastCall>>
vars == <<otherMatches, conjVars, notVars>>

\* The match sets the conjunction sees: child 0 matches where the NOT node's
\* evaluate_at holds.
ChildMatches ==
    [c \in 0 .. K - 1 |-> IF c = 0 THEN {r \in Rows : r \notin inner}
                                   ELSE otherMatches[c]]

C == INSTANCE Conjunction WITH matches <- ChildMatches
NN == INSTANCE NotNode

\* The refinement mapping onto the promise of module FindFirst: a call is
\* "busy" while the while loop runs, and the conditions are the children's
\* match sets.
Abs == INSTANCE FindFirst WITH matches <- ChildMatches,
                               pc <- IF pc = "loop" THEN "busy" ELSE pc

(***************************************************************************)
(* ParentNode::find_first with the NotNode as m_children[0]                *)
(***************************************************************************)

\* size_t m = m_children[0]->find_first_local(start, end): the NOT node's
\* dispatch, then the rest of the loop body with its answer.
IterateNot ==
    /\ pc = "loop"
    /\ start < end_
    /\ current = 0
    /\ NN!find_first_local(start, end_)
    /\ UNCHANGED otherMatches
    /\ C!Step(lastCall'.result)

\* The same call on any other child.
IterateOther ==
    /\ current # 0
    /\ UNCHANGED <<otherMatches, notVars>>
    /\ C!Iterate

\* aggregate_local, between find_first calls, asks the NOT node for any
\* range (find_first_local(pos, end) or the single row (r, r + 1)).
DirectCall ==
    /\ pc = "idle"
    /\ \E r \in NN!Requests : NN!find_first_local(r[1], r[2])
    /\ UNCHANGED <<otherMatches, conjVars>>

\* set_cluster: every child moves to another cluster; the NotNode resets
\* its cache in cluster_changed.
SetCluster ==
    /\ pc = "idle"
    /\ NN!cluster_changed
    /\ otherMatches' \in [Others -> SUBSET Rows]
    /\ UNCHANGED conjVars

\* while (start < end) fails: not_found.
Exhausted == UNCHANGED <<otherMatches, notVars>> /\ C!Exhausted

Init ==
    /\ otherMatches \in [Others -> SUBSET Rows]
    /\ NN!Init
    /\ C!Init

Next ==
    \/ UNCHANGED <<otherMatches, notVars>> /\ C!Call
    \/ IterateNot
    \/ IterateOther
    \/ Exhausted
    \/ UNCHANGED <<otherMatches, notVars>> /\ C!Consume
    \/ DirectCall
    \/ SetCluster

\* As in Conjunction: once entered, the loop runs to its return on the
\* caller's thread.
Spec == Init /\ [][Next]_vars /\ WF_vars(IterateNot \/ IterateOther \/ Exhausted)

(***************************************************************************)
(* Properties                                                              *)
(***************************************************************************)

TypeOK ==
    /\ otherMatches \in [Others -> SUBSET Rows]
    /\ C!TypeOK
    /\ NN!TypeOK

\* The NOT node's cache stays exact although the conjunction loop and the
\* direct calls of aggregate_local interleave their requests on it.
KnownRangeExact == NN!KnownRangeExact

\* Every answer the NOT node gives, to the loop or to a direct caller, is
\* the first row of the range where the negation holds, or means none.
FindFirstLocalSound == NN!FindFirstLocalSound

\* find_first on the conjunction returns the first row where the negation
\* and every other condition hold, although the NOT node may answer a row
\* past end rather than not_found.
FindFirstIsFirstCommon == C!FindFirstIsFirstCommon

\* find_first on this node tree implements the one-step find_first of
\* module FindFirst: every loop iteration short of the return is a
\* stutter (start, current_cond and nb_cond_to_test are invisible), the
\* return yields the abstract answer, the request and result never change
\* while the loop runs, and a call once entered returns whatever the NOT
\* node's cache answers.
ConjunctionRefinesFindFirst == Abs!AbsSpec

=============================================================================
