------------------------------ MODULE MCClient ------------------------------
(* Small instances of Client for TLC. *)
EXTENDS Client, TLC

CONSTANTS c1, c2, c3, h1, h2

\* One server before localhost, as in "h1/1 localhost/1".
HostThenLocal == <<h1, Local>>
OneHost == <<h1>>
TwoHosts == <<h1, h2>>

OneSlotEach == [h \in Hosts |-> 1]
TwoSlotsEach == [h \in Hosts |-> 2]

ClientSymmetry == Permutations(Client)
LockingSymmetry == Permutations(Client \ Recursive)
=============================================================================
