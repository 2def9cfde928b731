--------------------------- MODULE ExclusiveAccess ---------------------------
(* What a lock file promises: a resource has at most one user, and a user    *)
(* that stops, in whatever way, leaves it to the next one.                   *)
CONSTANTS Resources, Users

VARIABLE inside   \* the users of each resource

Init == inside = [r \in Resources |-> {}]

Enter(r, u) == inside[r] = {} /\ inside' = [inside EXCEPT ![r] = {u}]

Leave(r, u) == u \in inside[r] /\ inside' = [inside EXCEPT ![r] = {}]

Next == \E r \in Resources, u \in Users : Enter(r, u) \/ Leave(r, u)

Spec == Init /\ [][Next]_inside
=============================================================================
