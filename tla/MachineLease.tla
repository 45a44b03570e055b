---------------------------- MODULE MachineLease ----------------------------
(***************************************************************************)
(* What metal-api promises about machines, whatever happens in between: a  *)
(* request is granted at most one machine, a machine is granted only while *)
(* nobody has it, and it never passes from one request to another without  *)
(* being returned first.                                                   *)
(***************************************************************************)
CONSTANTS Machines, Requests, None

VARIABLES
    owner,   \* the request that has each machine, or None
    served   \* the requests that were granted a machine

vars == <<owner, served>>

TypeOK == owner \in [Machines -> Requests \cup {None}] /\ served \in SUBSET Requests

Init == owner = [m \in Machines |-> None] /\ served = {}

Grant(r, m) ==
    /\ r \notin served /\ owner[m] = None
    /\ owner' = [owner EXCEPT ![m] = r]
    /\ served' = served \cup {r}

Return(m) ==
    /\ owner[m] # None
    /\ owner' = [owner EXCEPT ![m] = None]
    /\ UNCHANGED served

Next == \E m \in Machines : Return(m) \/ \E r \in Requests : Grant(r, m)

Spec == Init /\ [][Next]_vars
=============================================================================
