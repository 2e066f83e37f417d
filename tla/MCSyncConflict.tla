--------------------------- MODULE MCSyncConflict ---------------------------
(* SyncConflict for TLC: what a .cfg file cannot write as a value.         *)
EXTENDS SyncConflict

NoSkew == [d \in Devices |-> 0]

=============================================================================
