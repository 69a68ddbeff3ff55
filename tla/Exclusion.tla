------------------------------ MODULE Exclusion ------------------------------
(* What a lock, a claim or a turn promises: a resource is held by one owner  *)
(* at a time, is taken only while nobody holds it, and is given back by      *)
(* whoever holds it.  The job queue (grenat_ops::jobs), the green mutex      *)
(* (grenat_green::sync) and an agent's turn (grenat_interp::eval::agents)    *)
(* each implement it.                                                        *)
EXTENDS Naturals

CONSTANTS Resources, Owners

VARIABLE holders      \* the owners that hold each resource

Init == holders = [r \in Resources |-> {}]

Take(r, o) ==
    /\ holders[r] = {}
    /\ holders' = [holders EXCEPT ![r] = {o}]

GiveBack(r, o) ==
    /\ holders[r] = {o}
    /\ holders' = [holders EXCEPT ![r] = {}]

Next == \E r \in Resources, o \in Owners : Take(r, o) \/ GiveBack(r, o)

Spec == Init /\ [][Next]_holders
==============================================================================
