------------------------- MODULE ReplicatedJournals -------------------------
(***************************************************************************)
(* What the journals promise, with nothing of how: every device owns one   *)
(* append-only log, the hub publishes what the owner last put there, and   *)
(* every other device holds what the hub published when it last asked.     *)
(* SyncCycle implements it (SyncCycle!ReplicatesJournals).                 *)
(***************************************************************************)
EXTENDS Sequences, SequencesExt

CONSTANTS Devices, Entry

VARIABLES
  own,     \* own[d]: the log d writes
  pub,     \* pub[d]: the hub's copy of it
  copy     \* copy[d][e]: the copy d holds of e's log

vars == <<own, pub, copy>>

Init ==
  /\ own = [d \in Devices |-> <<>>]
  /\ pub = [d \in Devices |-> <<>>]
  /\ copy = [d \in Devices |-> [e \in Devices \ {d} |-> <<>>]]

\* Only the owner writes, and only at the end.
Write(d) ==
  /\ own' = [own EXCEPT ![d] = own'[d]]
  /\ own'[d] \in Seq(Entry) /\ IsPrefix(own[d], own'[d])
  /\ UNCHANGED <<pub, copy>>

\* The owner's whole log replaces the hub's.
Publish(d) ==
  /\ pub' = [pub EXCEPT ![d] = own[d]]
  /\ UNCHANGED <<own, copy>>

\* The hub's log replaces the copy.
Fetch(d, e) ==
  /\ copy' = [copy EXCEPT ![d][e] = pub[e]]
  /\ UNCHANGED <<own, pub>>

Next == \E d \in Devices :
  \/ Write(d)
  \/ Publish(d)
  \/ \E e \in Devices \ {d} : Fetch(d, e)

Spec == Init /\ [][Next]_vars

=============================================================================
