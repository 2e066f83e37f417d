----------------------------- MODULE Dashboard -----------------------------
(***************************************************************************)
(* The dashboard: components/Insights.tsx joins two answers of the hub that  *)
(* are asked for separately, the project's tree and its reads over thirty    *)
(* days, with a third of which files were emptied, under a lens, a           *)
(* threshold and a scope.  lib/heat.ts holds the arithmetic it shares with   *)
(* the file page and the folder listing.                                     *)
(*                                                                         *)
(* A path is the sequence of its names.  A file is old when it has not       *)
(* changed since the beginning.  Where things are drawn, opening a folder of   *)
(* the treemap, and the matrix of devices (a sum over another axis) are      *)
(* left out.                                                                 *)
(***************************************************************************)
EXTENDS Naturals, Sequences, FiniteSets, SequencesExt, FiniteSetsExt

CONSTANTS
  Places,    \* the paths files may have
  Start,     \* the files there are at first
  Scopes,    \* what the dashboard is opened for: the root, folders, files
  HotReads,  \* the default threshold
  MaxChanges, MaxReads \* bounds: changes of the project, reads in all

VARIABLES
  stored,    \* the hub's files: size (0 or 1), when changed, content before
  ledger,    \* the hub's reads by kind, also of files that are gone
  late,      \* files of which an older version arrived after the newer one
  changes,   \* changes so far
  tree,      \* the files this tab knows
  heat,      \* the reads it knows
  answers,   \* the answers it holds: which files are emptied, by key
  lens, hot, scope

hubSide == <<stored, ledger, late, changes>>
choices == <<lens, hot, scope>>
vars == <<hubSide, tree, heat, answers, choices>>

Kinds == {"agent", "human", "share"}
Root == <<>>
Under(p, dir) == IsStrictPrefix(dir, p)

-----------------------------------------------------------------------------
(* Reads (lib/heat.ts) *)

NoReads == [k \in Kinds |-> 0]
heatOf(p) == IF p \in DOMAIN heat THEN heat[p] ELSE NoReads
heatTotal(e) == e.agent + e.human + e.share
Total(S, N(_)) == MapThenSumSet(N, S)

\* What the folder listing and the file page print for a path.
heatFor(p, isDir) ==
  IF ~isDir THEN heatOf(p)
  ELSE [k \in Kinds |->
          Total({q \in DOMAIN heat : Under(q, p)}, LAMBDA q : heat[q][k])]
isFolder(p) == \E q \in DOMAIN tree : Under(q, p)

\* The kinds a lens counts, and the reads it sees.
kinds == IF lens = "all" THEN Kinds ELSE {lens}
lensReads(e) == Total(kinds, LAMBDA k : e[k])

\* The page and the listing warn with the default threshold.
isDanger(reads, p, least) == reads >= least /\ tree[p].at = 0
staleNote(p) == isDanger(heatTotal(heatOf(p)), p, HotReads)

-----------------------------------------------------------------------------
(* What was emptied *)

emptied == {p \in DOMAIN stored : stored[p].size = 0 /\ stored[p].had}

\* The question is keyed by the tab's own empty files and their times.
zero == {<<p, tree[p].at>> : p \in {q \in DOMAIN tree : tree[q].size = 0}}
told == IF zero \in DOMAIN answers THEN answers[zero] ELSE {}

-----------------------------------------------------------------------------
(* What is drawn *)

inScope(p) == IsPrefix(scope, p)
pts == {p \in DOMAIN tree : inScope(p)}

\* Paths with reads that left the project.
orphansAnywhere == {p \in DOMAIN heat \ DOMAIN tree : lensReads(heat[p]) > 0}
orphans == {p \in DOMAIN heat \ DOMAIN tree :
              inScope(p) /\ lensReads(heat[p]) > 0}
ReadsOf(S) == Total(S, LAMBDA p : lensReads(heatOf(p)))

empty(p) == p \in told /\ lensReads(heatOf(p)) > 0
danger(p) == ~empty(p) /\ isDanger(lensReads(heatOf(p)), p, hot)
fixFirst == {p \in pts : danger(p) \/ empty(p)}

\* The headline, and the totals over the lists of the hot path.
kpiReads == Total(Kinds, LAMBDA k :
              IF k \in kinds THEN Total(pts \cup orphans, LAMBDA p : heatOf(p)[k])
              ELSE 0)
hotPath(k) == Total(pts \cup orphans, LAMBDA p : heatOf(p)[k])

\* The treemap groups files by their folder, cut two levels below the scope.
scopeDir == IF isFolder(scope) THEN scope ELSE Root
groupKey(p) ==
  LET dirs == Front(p)
      depth == Len(scopeDir) + 2
  IN IF Len(dirs) <= depth THEN dirs ELSE SubSeq(dirs, 1, depth)
folderCells == {groupKey(p) : p \in pts}
cellFiles(c) == {p \in pts : groupKey(p) = c}

-----------------------------------------------------------------------------
(* The hub: devices and people change the project and read it *)

Change == changes < MaxChanges /\ changes' = changes + 1
Tab == <<tree, heat, answers, choices>>
NoCollision(p) == \A q \in DOMAIN stored : ~Under(p, q) /\ ~Under(q, p)
With(f, x, y) == [z \in DOMAIN f \cup {x} |-> IF z = x THEN y ELSE f[z]]
Less(f, x) == [z \in DOMAIN f \ {x} |-> f[z]]

\* A version of a file: filled, emptied, restored or new.
Write(p, size) ==
  /\ Change
  /\ p \notin DOMAIN stored => NoCollision(p)
  /\ stored' = With(stored, p,
       [size |-> size, at |-> changes + 1,
        had |-> p \in DOMAIN stored /\ (stored[p].had \/ stored[p].size > 0)])
  /\ late' = late \ {p}
  /\ UNCHANGED <<ledger, Tab>>

\* A file created anew after a delete inherits nothing.
Delete(p) ==
  /\ Change
  /\ p \in DOMAIN stored
  /\ stored' = Less(stored, p)
  /\ late' = late \ {p}
  /\ UNCHANGED <<ledger, Tab>>

\* A device that was offline uploads an older version, with content.
LateVersion(p) ==
  /\ Change
  /\ p \in DOMAIN stored /\ ~stored[p].had
  /\ stored' = [stored EXCEPT ![p].had = TRUE]
  /\ late' = late \cup {p}
  /\ UNCHANGED <<ledger, Tab>>

Read(k, p) ==
  /\ Total(DOMAIN ledger, LAMBDA q : heatTotal(ledger[q])) < MaxReads
  /\ p \in DOMAIN stored
  /\ ledger' = With(ledger, p,
       [IF p \in DOMAIN ledger THEN ledger[p] ELSE NoReads EXCEPT ![k] = @ + 1])
  /\ UNCHANGED <<stored, late, changes, Tab>>

-----------------------------------------------------------------------------
(* The tab *)

\* Each answer arrives when it arrives.
TreeArrives ==
  /\ tree' = stored
  /\ UNCHANGED <<hubSide, heat, answers, choices>>
HeatArrives ==
  /\ heat' = ledger
  /\ UNCHANGED <<hubSide, tree, answers, choices>>

\* Asked once for a key, when the tree has empty files.
EmptiedArrives ==
  /\ zero # {} /\ zero \notin DOMAIN answers
  /\ answers' = With(answers, zero, emptied)
  /\ UNCHANGED <<hubSide, tree, heat, choices>>

SetLens(l) == lens' = l /\ UNCHANGED <<hubSide, tree, heat, answers, hot, scope>>
SetHot(n) == hot' = n /\ UNCHANGED <<hubSide, tree, heat, answers, lens, scope>>

\* Another subject, maybe after leaving the dashboard, which forgets the lens
\* and keeps the threshold.
Scope(s) ==
  /\ scope' = s
  /\ lens' \in {lens, "all"}
  /\ UNCHANGED <<hubSide, tree, heat, answers, hot>>

-----------------------------------------------------------------------------
Init ==
  /\ \E sizes \in [Start -> {0, 1}] :
       stored = [p \in Start |-> [size |-> sizes[p], at |-> 0, had |-> FALSE]]
  /\ ledger = <<>> /\ late = {} /\ changes = 0
  /\ tree = stored /\ heat = <<>> /\ answers = <<>>
  /\ lens = "all" /\ hot = HotReads /\ scope = Root

Hub ==
  \/ \E p \in Places : Delete(p) \/ LateVersion(p) \/ \E n \in {0, 1} : Write(p, n)
  \/ \E k \in Kinds, p \in Places : Read(k, p)
User ==
  \/ \E l \in Kinds \cup {"all"} : SetLens(l)
  \/ \E n \in HotReads..HotReads + 1 : SetHot(n)
  \/ \E s \in Scopes : Scope(s)
Next == Hub \/ TreeArrives \/ HeatArrives \/ EmptiedArrives \/ User
Spec == Init /\ [][Next]_vars

-----------------------------------------------------------------------------
(* Properties *)

Files == [size : {0, 1}, at : 0..MaxChanges, had : BOOLEAN]

\* The type invariant.
TypeOK ==
  /\ \A f \in {stored, tree} : DOMAIN f \subseteq Places /\ \A p \in DOMAIN f : f[p] \in Files
  /\ \A f \in {ledger, heat} : \A p \in DOMAIN f : f[p] \in [Kinds -> 0..MaxReads]
  /\ late \subseteq DOMAIN stored /\ changes \in 0..MaxChanges
  /\ \A k \in DOMAIN answers : answers[k] \subseteq Places
  /\ lens \in Kinds \cup {"all"} /\ hot \in HotReads..HotReads + 1
  /\ scope \in Scopes

\* Every surface prints one arithmetic, whichever answers have come: the
\* headline is the sum of the hot path's lists, the treemap and the paths that
\* are gone; the headline of a folder or file that is there is what its own
\* page prints, with the reads of a file and of a folder of the same name added
\* when one took the other's place; and the page warns of the same files.
SurfacesAgree ==
  /\ kpiReads = Total(kinds, hotPath)
  /\ kpiReads = Total(folderCells, LAMBDA c : ReadsOf(cellFiles(c))) + ReadsOf(orphans)
  /\ (lens = "all" /\ scope # Root /\ pts # {}) =>
       kpiReads = heatTotal(heatFor(scope, TRUE)) + heatTotal(heatFor(scope, FALSE))
  /\ (lens = "all" /\ hot = HotReads) =>
       \A p \in pts : danger(p) <=> (staleNote(p) /\ ~empty(p))

\* A file that is empty, had content and is read is flagged, as soon as the
\* tab's tree and reads are the hub's and the question has its answer; but for
\* one whose content came to be known after it was emptied.
EmptiedFound ==
  tree = stored /\ heat = ledger /\ zero \in DOMAIN answers =>
    \A p \in (emptied \cap pts) \ late : lensReads(heatOf(p)) > 0 => p \in fixFirst /\ empty(p)

\* Insights.tsx:57: a flagged file is "size 0 and still read".
EmptiedIsEmpty == \A p \in pts : empty(p) => tree[p].size = 0
=============================================================================
