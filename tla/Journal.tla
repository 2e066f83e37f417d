------------------------------- MODULE Journal -------------------------------
(***************************************************************************)
(* The operation log of internal/journal: what an operation is, the order  *)
(* in which operations of many devices are replayed, and the volume state  *)
(* a set of operations folds to.                                           *)
(*                                                                         *)
(* A blob is the identity of a file's bytes.  A delete carries no blob:    *)
(* the constant Absent stands for "no content", so that an operation is a  *)
(* put exactly when its blob is not Absent.                                *)
(***************************************************************************)
EXTENDS Integers, Sequences, Functions

CONSTANTS Absent     \* the blob of a delete; what a path that is not there holds

\* The author's mark on an operation, as far as anything reads it: an edit of
\* the user, an edit demoted on joining (adoptNote), a conflict copy, a merge.
Notes == {"edit", "adopt", "copy", "merge"}

Op(Devices, PathSet, Blobs) ==
  [lam : Nat, time : Nat, dev : Devices, seq : Nat,
   path : PathSet, blob : Blobs \union {Absent}, note : Notes]

IsPut(o) == o.blob # Absent

\* The replay order: logical clock, wall clock, device, sequence number.
\* The comparisons of the source below these four only matter between two
\* operations that share (device, seq), which honest devices never write.
Less(a, b) ==
  \/ a.lam < b.lam
  \/ a.lam = b.lam /\ a.time < b.time
  \/ a.lam = b.lam /\ a.time = b.time /\ a.dev < b.dev
  \/ a.lam = b.lam /\ a.time = b.time /\ a.dev = b.dev /\ a.seq < b.seq

At(ops, p) == {o \in ops : o.path = p}

\* The greatest operation of ops at p, as a set: empty when ops has none there.
Greatest(ops, p) ==
  {o \in At(ops, p) : \A x \in At(ops, p) : x = o \/ Less(x, o)}

\* The volume state of a set of operations: last writer wins path by path.
Replay(ops) ==
  LET live == UNION {{o \in Greatest(ops, p) : IsPut(o)} : p \in {o.path : o \in ops}}
  IN  [p \in {o.path : o \in live} |-> (CHOOSE o \in live : o.path = p).blob]

\* What a volume state, a folder or a state cache holds at p.
Holds(f, p) == IF p \in DOMAIN f THEN f[p] ELSE Absent

\* A crash or a full disk in the middle of an append leaves a torn line, and
\* the next append continues that line: the first operation of the batch is
\* glued to it and decodes to nothing for every reader.
AppendOps(file, ops, torn) == IF torn /\ ops # <<>> THEN file \o Tail(ops) ELSE file \o ops

=============================================================================
