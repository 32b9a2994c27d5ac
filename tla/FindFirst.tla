------------------------------ MODULE FindFirst ------------------------------
(***************************************************************************)
(* What Query::find_first promises (design section 8), with no loop, no   *)
(* round robin and no node cache in sight: a call on [s, e) returns, in   *)
(* one step, the smallest row of the range where every condition holds,   *)
(* else not_found.  Between calls the rows each condition matches may     *)
(* change, as when the nodes move to another cluster.                     *)
(***************************************************************************)
EXTENDS Naturals, FiniteSetsExt

CONSTANTS
    N,      \* number of rows in the cluster
    K       \* number of conditions

Rows == 0 .. N - 1
Children == 0 .. K - 1
NotFound == N + 1

VARIABLES
    matches,    \* matches[c]: rows where condition c holds
    pc,         \* "idle", "busy" while the call runs, "done" once it returned
    request,    \* the range of the current call
    result      \* its answer

absVars == <<matches, pc, request, result>>

FirstMatch(s, e) ==
    LET hits == {r \in s .. (e - 1) : \A c \in Children : r \in matches[c]}
    IN  IF hits = {} THEN NotFound ELSE Min(hits)

AbsInit ==
    /\ matches \in [Children -> SUBSET Rows]
    /\ pc = "idle"
    /\ request = <<0, 0>>
    /\ result = NotFound

AbsCall ==
    /\ pc = "idle"
    /\ request' \in (0 .. N) \X (0 .. N)
    /\ pc' = "busy"
    /\ UNCHANGED <<matches, result>>

AbsReturn ==
    /\ pc = "busy"
    /\ result' = FirstMatch(request[1], request[2])
    /\ pc' = "done"
    /\ UNCHANGED <<matches, request>>

AbsConsume ==
    /\ pc = "done"
    /\ pc' = "idle"
    /\ UNCHANGED <<matches, request, result>>

AbsReconfigure ==
    /\ pc = "idle"
    /\ matches' \in [Children -> SUBSET Rows]
    /\ UNCHANGED <<pc, request, result>>

AbsNext == AbsCall \/ AbsReturn \/ AbsConsume \/ AbsReconfigure

\* A call, once made, returns.
AbsSpec == AbsInit /\ [][AbsNext]_absVars /\ WF_absVars(AbsReturn)

=============================================================================
