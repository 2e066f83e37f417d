---------------------------- MODULE MCSyncCycle ----------------------------
(* SyncCycle for TLC: what a .cfg file cannot write as a value.            *)
EXTENDS SyncCycle

NoSkew == [d \in Devices |-> 0]

\* The first device's clock runs ahead of all the others.
FastFirst == [d \in Devices |-> IF d = 1 THEN 3 ELSE 0]

=============================================================================
