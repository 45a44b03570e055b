-------------------------------- MODULE Lease --------------------------------
(***************************************************************************)
(* What the shared mutex and the integer pools promise: a resource is       *)
(* granted to a client only while nobody has it, and a client that has it   *)
(* is the one that gives it back.                                           *)
(***************************************************************************)
CONSTANTS Resources, Clients

VARIABLE holders   \* the clients that have each resource

Init == holders = [r \in Resources |-> {}]

Grant(c, r) ==
    /\ holders[r] = {}
    /\ holders' = [holders EXCEPT ![r] = {c}]

GiveBack(c, r) ==
    /\ c \in holders[r]
    /\ holders' = [holders EXCEPT ![r] = @ \ {c}]

Next == \E c \in Clients, r \in Resources : Grant(c, r) \/ GiveBack(c, r)

Spec == Init /\ [][Next]_holders
=============================================================================
