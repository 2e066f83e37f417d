------------------------------- MODULE Sidebar -------------------------------
(***************************************************************************)
(* The sidebar of the browser: the file tree and which rows it shows         *)
(* (lib/treeview.ts, FileTree.tsx, the expansion of Browser.tsx), the search *)
(* that replaces it, what counts as new since the last visit and the pinned  *)
(* paths (lib/visits.ts, Pinned.tsx).                                       *)
(*                                                                         *)
(* A path is the sequence of its names, a name is a number, and the tree     *)
(* lists the folders of a folder before its files, each by number.  A        *)
(* behaviour follows the tree, the visits or the pins.                       *)
(***************************************************************************)
EXTENDS Naturals, Sequences, FiniteSets

CONSTANTS
  Paths,     \* the files there may be
  Copies,    \* conflict copies among them: a function to what they are copies of
  System,    \* names of system files
  Cap,       \* children a nested folder shows at first
  MaxChanges, MaxActs \* bounds: changes of the files, acts of the reader

\* What is assumed of them: a path has a name, and a copy lies beside its original.
ConstantsSound ==
  /\ IsFiniteSet(Paths) /\ \A p \in Paths : p \in Seq(Nat) /\ p # <<>>
  /\ \A c \in DOMAIN Copies :
       /\ Len(Copies[c]) = Len(c) /\ \A i \in 1 .. Len(c) - 1 : Copies[c][i] = c[i]
  /\ Cap \in Nat /\ MaxChanges \in Nat

VARIABLES
  follow,    \* what is followed: "tree", "visits" or "pins"
  files,     \* the files on the hub, each with the time it changed
  tree,      \* the same as the tab's cached tree has them
  expanded,  \* folders unfolded, and the System files groups opened
  showAll,   \* folders whose "Show N more" was clicked
  order,     \* how the reader sorts: "name" or "recent"
  query,     \* the paths whose name the search field matches, once it has text
  treePath,  \* the path on screen, <<>> for the project's own pages
  now, acts, \* time: changes so far; acts so far
  here, stored, baseline, \* the reader is here; the marker stored; this visit's
  pins, stale, kept       \* pins: of this tab, of another tab, in storage

treeVars == <<files, tree, expanded, showAll, order, query, treePath, now>>
visitVars == <<here, stored, baseline>>
pinVars == <<pins, stale, kept>>
vars == <<follow, treeVars, acts, visitVars, pinVars>>

Name(p) == p[Len(p)]
Parent(p) == SubSeq(p, 1, Len(p) - 1)
Under(p, q) == Len(p) < Len(q) /\ SubSeq(q, 1, Len(p)) = p
ancestorsOf(p) == {SubSeq(p, 1, i) : i \in 1 .. Len(p) - 1}
Folders(t) == UNION {ancestorsOf(p) : p \in DOMAIN t}
Kids(t, f) == {n \in DOMAIN t \cup Folders(t) : Len(n) = Len(f) + 1 /\ Parent(n) = f}

-----------------------------------------------------------------------------
(* lib/treeview.ts *)

\* Copies beside a file, and files under a folder that changed after a time.
conflicts(t, p) == {c \in DOMAIN t \cap DOMAIN Copies : Copies[c] = p}
fresh(t, f, since) == {p \in DOMAIN t : Under(f, p) /\ since > 0 /\ t[p] > since}
latest(t, n) ==
  LET times == {t[p] : p \in {q \in DOMAIN t : q = n \/ Under(n, q)}} IN
  CHOOSE x \in times : \A y \in times : y <= x

\* A copy is folded into its original while that is there to carry the badge.
isFoldedCopy(t, n) == n \in DOMAIN Copies /\ Copies[n] \in DOMAIN t
Plain(t, f) == {n \in Kids(t, f) : ~isFoldedCopy(t, n) /\ Name(n) \notin System}
Housekeeping(t, f) == {n \in Kids(t, f) : ~isFoldedCopy(t, n) /\ Name(n) \in System}
onKeepPath(n) == n = treePath \/ Under(n, treePath)

\* The newest first; the tree's own order settles a tie.
Before(t, a, b) ==
  IF (a \in Folders(t)) # (b \in Folders(t)) THEN a \in Folders(t) ELSE Name(a) < Name(b)
Newer(t, a, b) == latest(t, a) > latest(t, b) \/ (latest(t, a) = latest(t, b) /\ Before(t, a, b))
Top(t, S) == {n \in S : Cardinality({x \in S \ {n} : Newer(t, x, n)}) < Cap}

\* Not what the code does, for contrast: the way to the selected path is capped too.
heldNowhere(t, f) == {}
\* A nested folder shows its newest children, and the way to the selected path.
capped(t, f) == Len(f) > 0 /\ Cardinality(Plain(t, f)) > Cap /\ f \notin showAll
held(t, f) == {n \in Plain(t, f) \ Top(t, Plain(t, f)) : onKeepPath(n)}
shown(t, f) == IF capped(t, f) THEN Top(t, Plain(t, f)) \cup held(t, f) ELSE Plain(t, f)
more(t, f) == IF capped(t, f) THEN Cardinality(Plain(t, f)) - Cap - Cardinality(held(t, f)) ELSE 0

\* The group of system files opens by a click, or on the way to the selected.
systemKey(f) == <<0>> \o f
systemOpen(t, f) == systemKey(f) \in expanded \/ \E n \in Housekeeping(t, f) : onKeepPath(n)

\* The nodes that have a row.
AtLevel(t, n) ==
  \/ n \in shown(t, Parent(n))
  \/ n \in Housekeeping(t, Parent(n)) /\ systemOpen(t, Parent(n))
buildRows(t) ==
  {n \in DOMAIN t \cup Folders(t) :
     AtLevel(t, n) /\ \A a \in ancestorsOf(n) : a \in expanded /\ AtLevel(t, a)}
Unfolded(t) == {<<>>} \cup {f \in Folders(t) : f \in expanded /\ f \in buildRows(t)}

\* The search lists files and folders by their names; copies are left out.
filterTree(t) == {p \in query : p \in Folders(t) \/ (p \in DOMAIN t /\ p \notin DOMAIN Copies)}

-----------------------------------------------------------------------------
(* The tree *)

Act == acts < MaxActs /\ acts' = acts + 1

\* A peer's change; the tab reads the tree again later.
Change ==
  /\ follow # "pins" /\ now < MaxChanges /\ now' = now + 1
  /\ \E p \in Paths :
       \/ files' = [x \in DOMAIN files \cup {p} |-> IF x = p THEN now' ELSE files[x]]
       \/ p \in DOMAIN files /\ files' = [x \in DOMAIN files \ {p} |-> files[x]]
  /\ UNCHANGED <<follow, tree, expanded, showAll, order, query, treePath, acts, visitVars, pinVars>>

\* The way to the selected path unfolds when it is selected, and whenever a
\* tree that differs is read.
reveal(t, p) ==
  IF p = <<>> THEN {} ELSE ancestorsOf(p) \cup {f \in Folders(t) : f = p}
useTree ==
  /\ tree # files /\ tree' = files
  /\ expanded' = expanded \cup reveal(files, treePath)
  /\ UNCHANGED <<follow, files, showAll, order, query, treePath, now, acts, visitVars, pinVars>>

\* A row, a pin, a hit or a link opens a path; the folder that is on screen
\* folds and unfolds.
Open(from) ==
  /\ follow = "tree" /\ Act
  /\ \E p \in from :
       /\ treePath' = p
       /\ expanded' = IF p = treePath /\ p \in Folders(tree)
                      THEN (expanded \ {p}) \cup ({p} \ expanded)
                      ELSE expanded \cup reveal(tree, p)
  /\ UNCHANGED <<follow, files, tree, showAll, order, query, now, visitVars, pinVars>>
RowClick == query = {} /\ Open(buildRows(tree))
HitClick == Open(filterTree(tree))
Link == Open(Paths \cup {<<>>})

onToggle ==
  /\ follow = "tree" /\ Act
  /\ \E k \in (Folders(tree) \cap buildRows(tree)) \cup
              {systemKey(f) : f \in {g \in Unfolded(tree) : Housekeeping(tree, g) # {}}} :
       expanded' = (expanded \ {k}) \cup ({k} \ expanded)
  /\ UNCHANGED <<follow, files, tree, showAll, order, query, treePath, now, visitVars, pinVars>>
ShowMore ==
  /\ follow = "tree" /\ Act
  /\ \E f \in Unfolded(tree) : capped(tree, f) /\ showAll' = showAll \cup {f}
  /\ UNCHANGED <<follow, files, tree, expanded, order, query, treePath, now, visitVars, pinVars>>
setTreeOrder ==
  /\ follow = "tree" /\ Act /\ order' = IF order = "name" THEN "recent" ELSE "name"
  /\ UNCHANGED <<follow, files, tree, expanded, showAll, query, treePath, now, visitVars, pinVars>>
setFilterQuery ==
  /\ follow = "tree" /\ Act
  /\ \E f \in Folders(tree) \cup DOMAIN tree : query' \in {{}, {f}}
  /\ UNCHANGED <<follow, files, tree, expanded, showAll, order, treePath, now, visitVars, pinVars>>

-----------------------------------------------------------------------------
(* Visits *)

Clock == now + 1
noteLeaving ==
  /\ follow = "visits" /\ here /\ Act /\ here' = FALSE /\ stored' = Clock /\ baseline' = 0
  /\ UNCHANGED <<follow, treeVars, pinVars>>
visitBaseline ==
  /\ follow = "visits" /\ ~here /\ Act /\ here' = TRUE /\ baseline' = stored /\ tree' = files
  /\ UNCHANGED <<follow, files, expanded, showAll, order, query, treePath, now, stored, pinVars>>
markAllSeen ==
  /\ follow = "visits" /\ here /\ Act /\ stored' = Clock /\ baseline' = Clock
  /\ UNCHANGED <<follow, treeVars, here, pinVars>>

-----------------------------------------------------------------------------
(* Pins: each tab reads them once, and writes all of its own *)

togglePin ==
  /\ follow = "pins" /\ Act
  /\ \E p \in Paths : pins' = (pins \ {p}) \cup ({p} \ pins)
  /\ kept' = pins' /\ UNCHANGED <<follow, treeVars, visitVars, stale>>
OtherTab ==
  /\ follow = "pins" /\ Act
  /\ \E p \in Paths : stale' = (stale \ {p}) \cup ({p} \ stale)
  /\ kept' = stale' /\ UNCHANGED <<follow, treeVars, visitVars, pins>>
Reload ==
  /\ follow = "pins" /\ Act /\ pins' = kept
  /\ UNCHANGED <<follow, treeVars, visitVars, stale, kept>>

\* At first every folder is shut, but for a lone one at the root.
Init ==
  /\ follow \in {"tree", "visits", "pins"}
  /\ files \in IF follow = "tree" THEN {[p \in S |-> 0] : S \in SUBSET Paths} ELSE {[p \in Paths |-> 0]}
  /\ tree = files
  /\ LET dirs == {f \in Folders(tree) : Len(f) = 1} IN
       expanded = IF Cardinality(dirs) = 1 THEN dirs ELSE {}
  /\ showAll = {} /\ order = "name" /\ query = {} /\ treePath = <<>> /\ now = 0 /\ acts = 0
  /\ here = TRUE /\ stored = Clock /\ baseline = Clock /\ pins = {} /\ stale = {} /\ kept = {}

Next ==
  \/ Change \/ useTree \/ RowClick \/ HitClick \/ Link
  \/ onToggle \/ ShowMore \/ setTreeOrder \/ setFilterQuery
  \/ noteLeaving \/ visitBaseline \/ markAllSeen \/ togglePin \/ OtherTab \/ Reload
Spec == Init /\ [][Next]_vars

-----------------------------------------------------------------------------
(* Properties *)

\* The type invariant.
TypeOK ==
  /\ DOMAIN files \subseteq Paths /\ DOMAIN tree \subseteq Paths
  /\ \A p \in DOMAIN tree : tree[p] <= now
  /\ treePath \in Paths \cup {<<>>} \cup UNION {ancestorsOf(p) : p \in Paths}
  /\ stored <= Clock /\ baseline <= stored
  /\ pins \subseteq Paths /\ stale \subseteq Paths /\ kept \subseteq Paths

\* Nothing vanishes from an unfolded folder: what has no row there is counted
\* by "Show N more", is one of its system files, or is a copy whose original
\* carries the badge; and no cap hides the way to the selected path.  Copies of
\* copies are left out: their badge would be on a copy that is folded itself.
FilesAccounted ==
  follow = "tree" =>
    \A f \in Unfolded(tree) :
      /\ Cardinality(Plain(tree, f) \ buildRows(tree)) = more(tree, f)
      /\ \A n \in Kids(tree, f) \ (Plain(tree, f) \cup Housekeeping(tree, f)) :
           Copies[n] \in Plain(tree, f) \cup Housekeeping(tree, f) \cup DOMAIN Copies
      /\ \A n \in Plain(tree, f) \cup Housekeeping(tree, f) : onKeepPath(n) => n \in buildRows(tree)

\* The same of copies of copies ("only when that original is still there to
\* carry the badge").
CopiesShown ==
  \A f \in Unfolded(tree) : \A n \in Kids(tree, f) :
    isFoldedCopy(tree, n) => ~isFoldedCopy(tree, Copies[n])

\* A folder stays folded until the reader unfolds it or selects something in it.
FoldKept == [][expanded' # expanded => acts' # acts]_vars

\* A change the reader's tab had not shown when they left counts as new when they
\* are back.
NewShown ==
  [][visitBaseline => \A p \in DOMAIN tree' : (p \notin DOMAIN tree \/ tree[p] # tree'[p]) => tree'[p] > baseline']_vars

\* A pin is dropped only by unpinning it.
PinsKept == [][kept \ kept' \subseteq (pins \ pins') \cup (stale \ stale')]_vars
=============================================================================
