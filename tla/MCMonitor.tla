------------------------------ MODULE MCMonitor ------------------------------
EXTENDS Monitor

\* The order of the hosts is not that of the slots.
Places == {[host |-> 0, slot |-> 1], [host |-> 1, slot |-> 0]}
=============================================================================
