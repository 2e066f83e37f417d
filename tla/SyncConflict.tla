---------------------------- MODULE SyncConflict ----------------------------
(***************************************************************************)
(* SyncCycle with the history its promise about concurrent edits needs:    *)
(* what each operation was built on.  The two history variables read the   *)
(* state and never disturb it.                                             *)
(*                                                                         *)
(* Two switches say how far actors overlap, so that the runs can tell      *)
(* which overlap costs a version: cycles of different devices, and a       *)
(* user's save in a folder whose cycle is running.                         *)
(***************************************************************************)
EXTENDS SyncCycle

CONSTANTS
  CyclesOverlap,  \* may a device start a cycle while another one's runs
  SavesOverlap    \* may a user save into a folder whose cycle is running

ASSUME OverlapAssumption == {CyclesOverlap, SavesOverlap} \subseteq BOOLEAN

VARIABLES
  shown,   \* shown[d]: operations d's folder has reflected at their path
  basis    \* basis[d][i]: what the operation i of d's journal was built on

hist == <<shown, basis>>

\* A user builds on what the folder showed, and on this device's own history;
\* a conflict copy or a merge is made with every operation at hand.
BuiltOn(d, o) ==
  At(IF o.note \in {"copy", "merge"} THEN AllOps(d) ELSE shown[d] \union Range(jour[d][d]), o.path)

Record ==
  /\ basis' = [d \in Devices |-> basis[d] \o
       [i \in 1 .. Len(jour'[d][d]) - Len(jour[d][d]) |->
          BuiltOn(d, jour'[d][d][Len(jour[d][d]) + i])]]
  /\ shown' = [d \in Devices |->
       IF mem[d].pc = "write" /\ mem'[d].pc = "blobs"
       THEN shown[d] \union {o \in Known(d) :
              Holds(file'[d], o.path) = Holds(Replay(Known(d)), o.path)}
       ELSE shown[d]]

InTurn(d) == CyclesOverlap \/ \A e \in Devices \ {d} : mem[e].pc = "idle"
MaySave(d) == SavesOverlap \/ mem[d].pc = "idle" \/ file' = file

InitHist == Init /\ shown = [d \in Devices |-> {}] /\ basis = [d \in Devices |-> <<>>]

NextHist == \E d \in Devices :
  \/ Step(d) /\ InTurn(d) /\ Record
  \/ Environment(d) /\ MaySave(d) /\ Record

SpecHist == InitHist /\ [][NextHist]_<<vars, hist>>

-----------------------------------------------------------------------------
AllHub == UNION {Range(hubJ[e]) : e \in Devices}

\* The version o is still somewhere a user can see it, or somebody who had it
\* in front of them replaced it.
Survives(o) ==
  \/ o.blob = Holds(Replay(AllHub), o.path)
  \/ \E x \in AllHub : o \in basis[x.dev][x.seq]
  \/ \E x \in AllHub : x.path = conflictName(o.path, o) /\ x.blob = o.blob

\* Of two concurrent edits the loser is preserved as a conflict copy, or merged:
\* once every device has converged, no version was replaced by somebody who had
\* not seen it.  A file demoted on joining is the documented exception.
NoSilentLoss ==
  Converged /\ (\A d \in Devices : mem[d].pc = "idle") =>
    \A o \in AllHub : IsPut(o) /\ o.note # "adopt" => Survives(o)

\* The contents the author of x had at its path, up to and including x.
Had(x) == {b.blob : b \in {b \in basis[x.dev][x.seq] \union {x} : IsPut(b)}}

\* A merge takes both sides' changes from content both sides had: with any other
\* base, a change one of them made would read as never made, and be dropped.
MergesFromShared ==
  [][\A d \in Devices : \A i \in Len(jour[d][d]) + 1 .. Len(jour'[d][d]) :
       LET o == jour'[d][d][i] IN o.note = "merge" =>
         \E m \in At(Unpushed(mem[d].mine, mem[d].pushed), o.path),
            t \in Greatest(mem[d].pulled, o.path) :
            \E base \in Had(m) \intersect Had(t) :
               o.blob \in mergeText(base, m.blob, t.blob)]_vars

\* Two devices may each merge the same two versions: whichever is called its own,
\* the merge comes to the same text, "or the fleet diverges" (merge.go, mergeText).
MergesAgree ==
  [][\A d \in Devices : \A i \in Len(jour[d][d]) + 1 .. Len(jour'[d][d]) :
       LET o == jour'[d][d][i] IN o.note = "merge" =>
         \A m \in At(Unpushed(mem[d].mine, mem[d].pushed), o.path),
            t \in Greatest(mem[d].pulled, o.path) :
            o.blob \in Merges(t, m, Known(d), blobs[d])]_vars

=============================================================================
