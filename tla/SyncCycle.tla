------------------------------ MODULE SyncCycle ------------------------------
(***************************************************************************)
(* The sync cycle of internal/syncer on every device of one project, the   *)
(* volume store each device keeps (internal/store), the folder the user    *)
(* and the engine share, and the hub's objects (journals and blobs).       *)
(*                                                                         *)
(* A device runs one cycle at a time (the volume lock); between any two    *)
(* phases of it the user may edit the folder, other devices may run, and   *)
(* the process may be killed, losing mem and keeping everything else.      *)
(*                                                                         *)
(*   idle -Scan-> pull -PullJournal*, EndPull-> resolve -Resolve-> write   *)
(*        -Write-> blobs -PushBlobs-> journal -PushJournal-> finish        *)
(*        -Finish-> idle                                                   *)
(***************************************************************************)
EXTENDS Journal, FiniteSets, SequencesExt

CONSTANTS
  Devices,      \* device ids; the replay order compares them
  Names,        \* file names the users work with
  Lines,        \* what a file is made of: its content is a sequence of lines
  Skew,         \* how far each device's wall clock is ahead
  Second,       \* clock readings within one second
  Seeded,       \* devices whose folder may hold files before it joins
  InitLines,    \* and the lines those files may hold
  MayRemove,    \* may a user take a line out of a file
  MayTear,      \* may a full disk or a power cut cut an append short
  MaxEdits,     \* bounds: user writes and deletions,
  MaxFaults     \*   killed processes, failed or half-failed hub calls, torn appends

ASSUME DevicesAssumption == Devices \subseteq Nat /\ Devices # {}
ASSUME ClockAssumption == Skew \in [Devices -> Nat] /\ Second \in Nat \ {0}
ASSUME LinesAssumption == Lines \subseteq Nat /\ InitLines \subseteq Lines
ASSUME SeedAssumption == Seeded \subseteq Devices
ASSUME AbsentAssumption == Absent \notin Seq(Lines)
ASSUME BoundsAssumption ==
  {MaxEdits, MaxFaults} \subseteq Nat /\ {MayRemove, MayTear} \subseteq BOOLEAN

VARIABLES
  file,    \* file[d]: the synced folder, path -> content
  text,    \* names whose files are text, so that edits may be merged
  blobs,   \* blobs[d]: the content store of d's volume
  jour,    \* jour[d][e]: device e's journal as it stands in d's volume
  torn,    \* torn[d]: d's own journal file ends in a torn line
  saved,   \* saved[d]: the state cache and sync.json on d's disk
  mem,     \* mem[d]: what d's running cycle holds in memory
  hubJ,    \* hubJ[e]: the hub's journal/<e>.jsonl
  hubB,    \* the hub's blobs/
  budget   \* what is left of the bounds

vars == <<file, text, blobs, jour, torn, saved, mem, hubJ, hubB, budget>>
hub  == <<hubJ, hubB>>

Content == Seq(Lines)

\* A path is a name, and for a conflict copy the chain of (device, time) marks
\* conflictName appended to it, the time cut to the second.
PathSet == [name : Names, marks : Seq(Devices \X Nat)]
Plain(n) == [name |-> n, marks |-> <<>>]
conflictName(p, o) == [p EXCEPT !.marks = Append(@, <<o.dev, o.time \div Second>>)]

Ops == Op(Devices, PathSet, Content)

\* The wall clock of d when it appends operation n of its journal.  Clocks of
\* two devices need not agree; one device's clock moves between two commits.
Now(d, n) == Skew[d] + n

\* A cache entry: the blob last synced at a path, and whether the size and
\* mtime recorded with it are still those of the file on disk.
CacheEntry == [blob : Content, fresh : BOOLEAN]
SyncedAt(cache, p) == IF p \in DOMAIN cache THEN cache[p].blob ELSE Absent

Phases == {"idle", "pull", "resolve", "write", "blobs", "journal", "finish"}
Idle == [pc |-> "idle", cache |-> <<>>, lam |-> 0, pushed |-> 0, mine |-> <<>>,
         held |-> <<>>, pulled |-> {}, tried |-> {}, left |-> {},
         mount |-> FALSE, blocked |-> FALSE]
NothingSaved == [cache |-> <<>>, has |-> FALSE, lam |-> 0, pushed |-> 0]

\* Store.AllOps: every operation of every journal in d's volume.
AllOps(d) == UNION {Range(jour[d][e]) : e \in Devices}

\* The operations the running cycle folds: the union is read again from disk
\* only when the pull changed it, and grows in memory with what is appended.
Known(d) ==
  AllOps(d) \union {o \in Range(mem[d].mine) :
    o.note \in {"copy", "merge"} \/ (mem[d].pulled = {} /\ ~mem[d].blocked)}

\* The clock absorbLamport folds out of a reading and a set of operations.
Absorb(lam, ops) ==
  {l \in {lam} \union {o.lam : o \in ops} : lam <= l /\ \A o \in ops : o.lam <= l}

\* Every way to list a finite set: map iteration has no order.
Orders(S) ==
  {s \in UNION {[1..n -> S] : n \in 0..Cardinality(S)} : Range(s) = S /\ IsInjective(s)}

\* A finite set of positions, in order.
Ascending(S) == {s \in Orders(S) : \A i, j \in DOMAIN s : i < j => s[i] < s[j]}

-----------------------------------------------------------------------------
(* The folder and its cache.                                               *)

\* Paths the scan journals: files that are new or whose fingerprint moved and
\* whose content really differs, and tracked files that are gone.
Dirty(f, cache) ==
  {p \in DOMAIN f : p \notin DOMAIN cache \/ (~cache[p].fresh /\ cache[p].blob # f[p])}
    \union (DOMAIN cache \ DOMAIN f)

\* The cache after a scan: one entry per file, as it is now.
Scanned(f, cache) ==
  [p \in DOMAIN f |-> IF p \in DOMAIN cache /\ cache[p].fresh THEN cache[p]
                      ELSE [blob |-> f[p], fresh |-> TRUE]]

\* The operations of a scan, in the order it met the paths.
ScanOps(d, order, f, lam, n) ==
  [i \in DOMAIN order |->
     [lam |-> lam + i, time |-> Now(d, n + 1), dev |-> d, seq |-> n + i,
      path |-> order[i], blob |-> Holds(f, order[i]), note |-> "edit"]]

\* A write or a removal at the paths S by anybody: no fingerprint recorded for
\* them matches any more.
Stale(cache, S) ==
  [p \in DOMAIN cache |-> IF p \in S THEN [cache[p] EXCEPT !.fresh = FALSE] ELSE cache[p]]

-----------------------------------------------------------------------------
(* The cycle, phase by phase.                                              *)

Commit(d, ops) ==
  /\ jour' = [jour EXCEPT ![d][d] = AppendOps(@, ops, torn[d])]
  /\ torn' = [torn EXCEPT ![d] = @ /\ ops = <<>>]

\* A folder with no saved cache over a volume that holds something.
MountJoining(d) ==
  ~saved[d].has /\ (saved[d].lam > 0 \/ saved[d].pushed > 0 \/ AllOps(d) # {})

Joining(d) == MountJoining(d) \/ (saved[d].lam = 0 /\ saved[d].pushed = 0)

\* Slip: the clock is taken from sync.json alone.
StoredOnly(d) == {saved[d].lam}

\* The clock a cycle starts from: sync.json's, pushed past every journal.
Rederived(d) == Absorb(saved[d].lam, AllOps(d))

\* What a cycle of d holds in memory when its scan has ended.
Started(d, lam, mine, held) ==
  [pc |-> "pull", cache |-> Scanned(file[d], saved[d].cache), lam |-> lam,
   pushed |-> saved[d].pushed, mine |-> mine, held |-> held, pulled |-> {}, tried |-> {},
   left |-> Devices \ {d}, mount |-> MountJoining(d), blocked |-> FALSE]

\* The cycle reads its state back, re-derives its clock from every journal in
\* its volume, scans the folder and journals what changed.  A joining device
\* keeps the operations in memory until the pull has ended.
Scan(d) ==
  /\ mem[d].pc = "idle"
  /\ \E lam \in Rederived(d),
        order \in Orders(Dirty(file[d], saved[d].cache)) :
       LET own == jour[d][d]
           ops == ScanOps(d, order, file[d], lam, Len(own))
       IN  /\ blobs' = [blobs EXCEPT ![d] = @ \union ({o.blob : o \in Range(ops)} \ {Absent})]
           /\ \/ /\ Joining(d)
                 /\ mem' = [mem EXCEPT ![d] = Started(d, lam + Len(ops), own, ops)]
                 /\ UNCHANGED <<jour, torn>>
              \/ /\ ~Joining(d)
                 /\ mem' = [mem EXCEPT ![d] = Started(d, lam + Len(ops), own \o ops, <<>>)]
                 /\ Commit(d, ops)
  /\ UNCHANGED <<file, text, saved, hub, budget>>

\* Slip: the fetched journal is appended to the local copy.
PullAppends(d, e) ==
  /\ mem[d].pc = "pull" /\ e \in mem[d].left
  /\ mem' = [mem EXCEPT ![d].left = @ \ {e}]
  /\ jour' = [jour EXCEPT ![d][e] = IF Len(hubJ[e]) > Len(@) THEN @ \o hubJ[e] ELSE @]
  /\ UNCHANGED <<file, text, blobs, torn, saved, hub, budget>>

\* One peer's journal: skipped unless it grew, otherwise the local copy is
\* replaced and the operations beyond it are this cycle's pulled ones.
PullJournal(d, e) ==
  /\ mem[d].pc = "pull" /\ e \in mem[d].left
  /\ mem' = [mem EXCEPT ![d].left = @ \ {e},
                        ![d].pulled = @ \union Range(SubSeq(hubJ[e], Len(jour[d][e]) + 1, Len(hubJ[e])))]
  /\ jour' = [jour EXCEPT ![d][e] = IF Len(hubJ[e]) > Len(@) THEN hubJ[e] ELSE @]
  /\ UNCHANGED <<file, text, blobs, torn, saved, hub, budget>>

\* Slip: an adopted operation is sent below zero.
AdoptBelowZero(o, project) == [o EXCEPT !.lam = -1]

\* Step 1b on one operation held back by a joining device: where the project
\* holds a version of the path, ours goes below everything.
Adopt(o, project) ==
  IF \E w \in Greatest(project, o.path) : IsPut(w)
  THEN [o EXCEPT !.lam = 0, !.note = "adopt"] ELSE o

\* Adoption of the operations held back.  A folder joining a populated volume
\* drops the puts the project already holds and renumbers the rest.
Adopted(d) ==
  LET m       == mem[d]
      project == m.pulled \union (IF m.mount THEN AllOps(d) ELSE {})
      same(o) == IsPut(o) /\ \E w \in Greatest(project, o.path) : w.blob = o.blob
      kept    == {i \in DOMAIN m.held : ~(m.mount /\ same(m.held[i]))}
  IN  {[i \in DOMAIN order |->
          [Adopt(m.held[order[i]], project) EXCEPT !.seq = Len(m.mine) + i]] :
         order \in Ascending(kept)}

Wanted(d) == {o.blob : o \in mem[d].pulled} \ (blobs[d] \union {Absent})

\* The remote leg is over: clock absorbed, held operations journaled as ops.
PullOver(d, ops, next, blocked) ==
  /\ mem[d].pc = "pull"
  /\ \E lam \in Absorb(mem[d].lam, mem[d].pulled) :
       mem' = [mem EXCEPT ![d].pc = next, ![d].lam = lam, ![d].mine = @ \o ops,
                          ![d].held = <<>>, ![d].blocked = blocked,
                          ![d].tried = IF blocked THEN {} ELSE Wanted(d)]
  /\ Commit(d, ops)

\* All journals read; the blobs the pulled operations name are fetched.  One
\* that cannot be fetched now, or is not there, is left for a later cycle.
EndPull(d) ==
  /\ mem[d].left = {}
  /\ \E ops \in Adopted(d) : PullOver(d, ops, "resolve", FALSE)
  /\ \E got \in SUBSET (Wanted(d) \intersect hubB) :
       /\ blobs' = [blobs EXCEPT ![d] = @ \union got]
       /\ IF got = Wanted(d) \intersect hubB THEN UNCHANGED budget
          ELSE budget.faults > 0 /\ budget' = [budget EXCEPT !.faults = @ - 1]
  /\ UNCHANGED <<file, text, saved, hub>>

\* The hub cannot be reached any more: the cycle goes on with what it has.
PullOffline(d) ==
  /\ budget.faults > 0 /\ budget' = [budget EXCEPT !.faults = @ - 1]
  /\ \E ops \in Adopted(d) : PullOver(d, ops, "resolve", TRUE)
  /\ UNCHANGED <<file, text, blobs, saved, hub>>

\* Slip: a refused pull throws away what the scan captured.
PullForbiddenDropsHeld(d) ==
  /\ budget.faults > 0 /\ budget' = [budget EXCEPT !.faults = @ - 1]
  /\ PullOver(d, <<>>, "finish", TRUE)
  /\ UNCHANGED <<file, text, blobs, saved, hub>>

\* The hub refuses this account: journal what the scan captured and stop.
PullForbidden(d) ==
  /\ budget.faults > 0 /\ budget' = [budget EXCEPT !.faults = @ - 1]
  /\ PullOver(d, mem[d].held, "finish", TRUE)
  /\ UNCHANGED <<file, text, blobs, saved, hub>>

-----------------------------------------------------------------------------
(* Step 3: what loses replay is merged or kept as a conflict copy.         *)

\* The latest operation per path that is not known to be pushed, unless the
\* last word on that path is an adoption.
Unpushed(mine, pushed) ==
  {mine[i] : i \in {i \in pushed + 1..Len(mine) :
      /\ mine[i].note # "adopt"
      /\ \A j \in i + 1..Len(mine) : mine[j].path # mine[i].path}}

\* Slip: only our own version is ever the loser.
LosersOurs(m, pulled, state) == {m}

\* Which of two colliding versions replay dropped: ours, or a pulled one.
Losers(m, pulled, state) ==
  IF m.blob = Holds(state, m.path) THEN Greatest(pulled, m.path) ELSE {m}

\* Is l worth keeping: real content, other than what won, not kept already.
MustKeep(l, p, state, store) ==
  /\ IsPut(l) /\ l.blob # Holds(state, p)
  /\ l.blob \in store
  /\ Holds(state, conflictName(p, l)) # l.blob

\* The greatest put at the path that replay orders before both.
commonAncestor(m, t, ops) ==
  LET before == {o \in At(ops, m.path) : IsPut(o) /\ Less(o, m) /\ Less(o, t)}
  IN  Greatest(before, m.path)

\* The greatest of a set of numbers, as a set.
Longest(S) == {n \in S : \A x \in S : x <= n}

\* How many lines two texts share at the front; and at the back, past the front.
samePrefix(x, y) ==
  Longest({n \in 0..Len(x) : n <= Len(y) /\ \A i \in 1..n : x[i] = y[i]})
sameSuffix(x, y, p) ==
  Longest({n \in 0..Len(x) - p :
             n <= Len(y) - p /\ \A i \in 1..n : x[Len(x) + 1 - i] = y[Len(y) + 1 - i]})

\* The one span of the base's lines a side replaced, with what it put there: none
\* if it changed nothing.
changedRegions(base, side) ==
  IF base = side THEN {}
  ELSE UNION {{[from |-> p, to |-> Len(base) - s, with |-> SubSeq(side, p + 1, Len(side) - s)] :
                 s \in sameSuffix(base, side, p)} : p \in samePrefix(base, side)}

\* Two spans with a line in common, or two insertions at one point.
overlaps(x, y) ==
  \/ x.from < y.to /\ y.from < x.to
  \/ x.from = x.to /\ y.from = y.to /\ x.from = y.from

\* The base walked once, x's span replaced and then y's.  The walk goes on where
\* the span just replaced ends: before the first one, if y is an insertion at the
\* line x starts with.
Spliced(base, x, y) ==
  SubSeq(base, 1, x.from) \o x.with \o SubSeq(base, x.to + 1, y.from)
    \o y.with \o SubSeq(base, y.to + 1, Len(base))

\* Both sides' changes to the base, in the order of its lines, a's first of two
\* that start at one; none if they overlap.
mergeText(base, a, b) ==
  LET ca == changedRegions(base, a)
      cb == changedRegions(base, b)
  IN  IF ca = {} THEN {b} ELSE IF cb = {} THEN {a}
      ELSE UNION {{IF y.from < x.from THEN Spliced(base, y, x) ELSE Spliced(base, x, y) :
                     y \in {y \in cb : ~overlaps(x, y)}} : x \in ca}

\* A three-way merge from what both are taken to be built on.
Merges(m, t, ops, store) ==
  UNION {mergeText(b.blob, m.blob, t.blob) : b \in
     {b \in commonAncestor(m, t, ops) : {b.blob, m.blob, t.blob} \subseteq store}}

tryMerge(m, ts, ops, store) ==
  UNION {Merges(m, t, ops, store) : t \in {t \in ts :
    m.path.name \in text /\ IsPut(m) /\ IsPut(t) /\ m.blob # t.blob}}

\* The operations that preserve what m's path lost: at most one.
Kept(m, pulled, ops, store) ==
  LET state == Replay(ops)
      lost  == {l \in Losers(m, pulled, state) : MustKeep(l, m.path, state, store)}
      merge == tryMerge(m, Greatest(pulled, m.path), ops, store)
  IN  IF lost = {} THEN {}
      ELSE IF merge # {} THEN {[path |-> m.path, blob |-> b, note |-> "merge"] : b \in merge}
      ELSE {[path |-> conflictName(m.path, l), blob |-> l.blob, note |-> "copy"] : l \in lost}

\* Slip: only paths a pulled operation touched are looked at.
CopiesOfCollisions(d) ==
  UNION {Kept(m, mem[d].pulled, Known(d), blobs[d]) :
    m \in {m \in Unpushed(mem[d].mine, mem[d].pushed) : At(mem[d].pulled, m.path) # {}}}

\* What step 3 journals: conflict copies and merges of every path in question.
conflictCopies(d) ==
  UNION {Kept(m, mem[d].pulled, Known(d), blobs[d]) : m \in Unpushed(mem[d].mine, mem[d].pushed)}

Resolve(d) ==
  /\ mem[d].pc = "resolve"
  /\ \E order \in Orders(conflictCopies(d)) :
       LET ops == [i \in DOMAIN order |->
                     [lam |-> mem[d].lam + i, dev |-> d,
                      time |-> Now(d, Len(mem[d].mine) + 1), seq |-> Len(mem[d].mine) + i, path |-> order[i].path,
                      blob |-> order[i].blob, note |-> order[i].note]]
       IN  /\ mem' = [mem EXCEPT ![d].pc = "write", ![d].mine = @ \o ops, ![d].lam = @ + Len(ops)]
           /\ Commit(d, ops)
           /\ blobs' = [blobs EXCEPT ![d] = @ \union {o.blob : o \in Range(ops)}]
  /\ UNCHANGED <<file, text, saved, hub, budget>>

-----------------------------------------------------------------------------
(* Step 4: the merged state goes into the folder.                          *)

\* Slip: a tracked file is written over without a look at its fingerprint.
WritesUnlooking(f, cache, target, store) ==
  {p \in DOMAIN target : SyncedAt(cache, p) # target[p] /\ target[p] \in store}

\* Paths of the merged state materialize writes: never over a file that moved
\* since the scan, never over an untracked file that differs, and only with
\* the content at hand.
Writes(f, cache, target, store) ==
  {p \in DOMAIN target :
     /\ SyncedAt(cache, p) # target[p]
     /\ IF p \in DOMAIN cache THEN p \in DOMAIN f /\ cache[p].fresh
        ELSE Holds(f, p) \in {Absent, target[p]}
     /\ target[p] \in store}

\* Tracked paths the merged state no longer has; those it unlinks are unmoved.
Gone(cache, target)      == DOMAIN cache \ DOMAIN target
Unlinks(f, cache, target) == {p \in Gone(cache, target) : p \in DOMAIN f /\ cache[p].fresh}
Forgets(f, cache, target) == {p \in Gone(cache, target) : p \notin DOMAIN f \/ cache[p].fresh}

\* Slip: a blob the pull could not fetch is never asked for again.
NoBackfill(d, target) == {}

\* Content the merged state names, this store lacks and this cycle has not
\* asked for yet.
Backfill(d, target) ==
  {target[p] : p \in {p \in DOMAIN target : SyncedAt(mem[d].cache, p) # target[p]}}
     \ (blobs[d] \union mem[d].tried)

Write(d) ==
  LET target == Replay(Known(d))
      cache  == mem[d].cache
      wants  == IF mem[d].blocked THEN {} ELSE Backfill(d, target)
  IN  /\ mem[d].pc = "write"
      /\ \E got \in SUBSET (wants \intersect hubB) :
           LET puts == Writes(file[d], cache, target, blobs[d] \union got)
               dels == Unlinks(file[d], cache, target)
           IN  /\ blobs' = [blobs EXCEPT ![d] = @ \union got]
               /\ IF got = wants \intersect hubB THEN UNCHANGED budget
                  ELSE budget.faults > 0 /\ budget' = [budget EXCEPT !.faults = @ - 1]
               /\ file' = [file EXCEPT ![d] = [p \in (DOMAIN @ \union puts) \ dels |->
                                                 IF p \in puts THEN target[p] ELSE @[p]]]
               /\ mem' = [mem EXCEPT ![d].pc = "blobs",
                            ![d].cache = [p \in (DOMAIN cache \union puts) \ Forgets(file[d], cache, target) |->
                               IF p \in puts THEN [blob |-> target[p], fresh |-> TRUE] ELSE cache[p]]]
               /\ saved' = [saved EXCEPT ![d].cache = Stale(@, puts \union dels)]
  /\ UNCHANGED <<text, jour, torn, hub>>

-----------------------------------------------------------------------------
(* Step 5: our blobs, then our journal; then the two state files.          *)

\* Slip: the first operation beyond the cursor is skipped.
OutgoingShifted(d) ==
  {o.blob : o \in Range(SubSeq(mem[d].mine, mem[d].pushed + 2, Len(mem[d].mine)))} \ {Absent}

Outgoing(d) ==
  {o.blob : o \in Range(SubSeq(mem[d].mine, mem[d].pushed + 1, Len(mem[d].mine)))} \ {Absent}

PushBlobs(d) ==
  /\ mem[d].pc = "blobs"
  /\ \/ /\ mem[d].blocked \/ Len(mem[d].mine) <= mem[d].pushed
        /\ mem' = [mem EXCEPT ![d].pc = "finish"]
        /\ UNCHANGED hubB
     \/ /\ ~mem[d].blocked /\ Len(mem[d].mine) > mem[d].pushed
        /\ mem' = [mem EXCEPT ![d].pc = "journal"]
        /\ hubB' = hubB \union Outgoing(d)
  /\ UNCHANGED <<file, text, blobs, jour, torn, saved, hubJ, budget>>

\* Slip: only the operations beyond the cursor go up.
PushTail(d) ==
  /\ mem[d].pc = "journal"
  /\ hubJ' = [hubJ EXCEPT ![d] = SubSeq(jour[d][d], mem[d].pushed + 1, Len(jour[d][d]))]
  /\ mem' = [mem EXCEPT ![d].pc = "finish", ![d].pushed = Len(mem[d].mine)]
  /\ UNCHANGED <<file, text, blobs, jour, torn, saved, hubB, budget>>

\* The journal file goes up whole, as it is on disk.
PushJournal(d) ==
  /\ mem[d].pc = "journal"
  /\ hubJ' = [hubJ EXCEPT ![d] = jour[d][d]]
  /\ mem' = [mem EXCEPT ![d].pc = "finish", ![d].pushed = Len(mem[d].mine)]
  /\ UNCHANGED <<file, text, blobs, jour, torn, saved, hubB, budget>>

\* Slip: the cursor moves though the push failed.
PushFailsYetAdvances(d) ==
  /\ budget.faults > 0 /\ budget' = [budget EXCEPT !.faults = @ - 1]
  /\ mem[d].pc \in {"blobs", "journal"} /\ ~mem[d].blocked
  /\ mem' = [mem EXCEPT ![d].pc = "finish", ![d].pushed = Len(mem[d].mine)]
  /\ UNCHANGED <<file, text, blobs, jour, torn, saved, hub>>

\* An upload fails after some of the blobs, or the hub stored the journal but
\* its answer was lost, or it was refused: the cursor stays where it was.
PushFails(d) ==
  /\ budget.faults > 0 /\ budget' = [budget EXCEPT !.faults = @ - 1]
  /\ \/ /\ mem[d].pc = "blobs" /\ ~mem[d].blocked /\ Len(mem[d].mine) > mem[d].pushed
        /\ \E up \in SUBSET Outgoing(d) : hubB' = hubB \union up
        /\ UNCHANGED hubJ
     \/ /\ mem[d].pc = "journal"
        /\ hubJ' \in {hubJ, [hubJ EXCEPT ![d] = jour[d][d]]}
        /\ UNCHANGED hubB
  /\ mem' = [mem EXCEPT ![d].pc = "finish"]
  /\ UNCHANGED <<file, text, blobs, jour, torn, saved>>

\* finish saves the cache, then sync.json.
Finish(d) ==
  /\ mem[d].pc = "finish"
  /\ saved' = [saved EXCEPT ![d] = [cache |-> mem[d].cache, has |-> TRUE,
                                    lam |-> mem[d].lam, pushed |-> mem[d].pushed]]
  /\ mem' = [mem EXCEPT ![d] = Idle]
  /\ UNCHANGED <<file, text, blobs, jour, torn, hub, budget>>

-----------------------------------------------------------------------------
(* What happens around the cycle.                                          *)

\* The process dies; in finish it may have saved the cache and not sync.json.
Crash(d) ==
  /\ mem[d].pc # "idle"
  /\ budget.faults > 0 /\ budget' = [budget EXCEPT !.faults = @ - 1]
  /\ \/ UNCHANGED saved
     \/ /\ mem[d].pc = "finish"
        /\ saved' = [saved EXCEPT ![d].cache = mem[d].cache, ![d].has = TRUE]
  /\ mem' = [mem EXCEPT ![d] = Idle]
  /\ UNCHANGED <<file, text, blobs, jour, torn, hub>>

\* The append of a scan is cut short: some of its lines are whole, one is torn,
\* and the cycle ends there.
TornAppend(d) ==
  /\ MayTear /\ mem[d].pc = "idle" /\ ~Joining(d)
  /\ budget.faults > 0 /\ budget' = [budget EXCEPT !.faults = @ - 1]
  /\ \E lam \in Rederived(d),
        order \in Orders(Dirty(file[d], saved[d].cache)) :
       LET ops == ScanOps(d, order, file[d], lam, Len(jour[d][d]))
       IN  \E k \in 0..Len(ops) - 1 :
             /\ blobs' = [blobs EXCEPT ![d] = @ \union ({o.blob : o \in Range(ops)} \ {Absent})]
             /\ jour' = [jour EXCEPT ![d][d] = AppendOps(@, SubSeq(ops, 1, k), torn[d])]
  /\ torn' = [torn EXCEPT ![d] = TRUE]
  /\ UNCHANGED <<file, text, saved, mem, hub>>

\* A text with the line l put in before the first line that is greater, or, where
\* it has such a line, without one of them.
Retouched(c, l) ==
  IF l \in Range(c)
  THEN {RemoveAt(c, i) : i \in {i \in DOMAIN c : MayRemove /\ c[i] = l}}
  ELSE {InsertAt(c, i, l) : i \in {i \in 1..Len(c) + 1 :
          (\A j \in 1..i - 1 : c[j] < l) /\ (i <= Len(c) => l < c[i])}}

\* The user saves a file, changing one line of it, at any moment.
Edit(d, n, l) ==
  LET p == Plain(n) IN
  \E new \in Retouched(IF p \in DOMAIN file[d] THEN file[d][p] ELSE <<>>, l) :
    /\ budget.edits > 0 /\ budget' = [budget EXCEPT !.edits = @ - 1]
    /\ file' = [file EXCEPT ![d] = [q \in DOMAIN @ \union {p} |-> IF q = p THEN new ELSE @[q]]]
    /\ mem' = [mem EXCEPT ![d].cache = Stale(@, {p})]
    /\ saved' = [saved EXCEPT ![d].cache = Stale(@, {p})]
    /\ UNCHANGED <<text, blobs, jour, torn, hub>>

\* The user removes a file, a conflict copy included.
Delete(d, p) ==
  /\ budget.edits > 0 /\ budget' = [budget EXCEPT !.edits = @ - 1]
  /\ MayRemove /\ p \in DOMAIN file[d]
  /\ file' = [file EXCEPT ![d] = [q \in DOMAIN @ \ {p} |-> @[q]]]
  /\ mem' = [mem EXCEPT ![d].cache = Stale(@, {p})]
  /\ saved' = [saved EXCEPT ![d].cache = Stale(@, {p})]
  /\ UNCHANGED <<text, blobs, jour, torn, hub>>

Step(d) ==
  \/ Scan(d)
  \/ \E e \in Devices : PullJournal(d, e)
  \/ EndPull(d)
  \/ Resolve(d)
  \/ Write(d)
  \/ PushBlobs(d)
  \/ PushJournal(d)
  \/ Finish(d)

Environment(d) ==
  \/ PullOffline(d)
  \/ PullForbidden(d)
  \/ PushFails(d)
  \/ Crash(d)
  \/ TornAppend(d)
  \/ \E n \in Names, l \in Lines : Edit(d, n, l)
  \/ \E p \in DOMAIN file[d] : Delete(d, p)

\* A folder may hold files before it joins; nothing else exists yet.
Init ==
  /\ file \in {f \in [Devices -> UNION {[S -> {<<l>> : l \in InitLines}] :
                                          S \in SUBSET {Plain(n) : n \in Names}}] :
                 \A d \in Devices \ Seeded : f[d] = <<>>}
  /\ text \in SUBSET Names
  /\ blobs = [d \in Devices |-> {}]
  /\ jour = [d \in Devices |-> [e \in Devices |-> <<>>]]
  /\ torn = [d \in Devices |-> FALSE]
  /\ saved = [d \in Devices |-> NothingSaved]
  /\ mem = [d \in Devices |-> Idle]
  /\ hubJ = [d \in Devices |-> <<>>]
  /\ hubB = {}
  /\ budget = [edits |-> MaxEdits, faults |-> MaxFaults]

Next == \E d \in Devices : Step(d) \/ Environment(d)

Spec == Init /\ [][Next]_vars

\* The daemon runs a cycle on every scan interval and on every change, for ever.
FairSpec == Spec /\ \A d \in Devices : WF_vars(Step(d))

-----------------------------------------------------------------------------
(* Properties.                                                             *)

OverPaths(f, V) == DOMAIN f \subseteq PathSet /\ \A p \in DOMAIN f : f[p] \in V

SavedType(s) ==
  /\ s \in [cache : {s.cache}, has : BOOLEAN, lam : Nat, pushed : Nat]
  /\ OverPaths(s.cache, CacheEntry)

CycleType(m) ==
  /\ m \in [pc : Phases, cache : {m.cache}, lam : Nat, pushed : Nat, mine : Seq(Ops),
            held : Seq(Ops), pulled : SUBSET Ops, tried : SUBSET Content,
            left : SUBSET Devices, mount : BOOLEAN, blocked : BOOLEAN]
  /\ OverPaths(m.cache, CacheEntry)

\* The type of the state: journals and held operations are well formed (a
\* demoted clock included), and files and caches are over real paths.
TypeOK ==
  /\ DOMAIN file = Devices /\ \A d \in Devices : OverPaths(file[d], Content)
  /\ text \subseteq Names
  /\ blobs \in [Devices -> SUBSET Content]
  /\ jour \in [Devices -> [Devices -> Seq(Ops)]]
  /\ torn \in [Devices -> BOOLEAN]
  /\ DOMAIN saved = Devices /\ \A d \in Devices : SavedType(saved[d])
  /\ DOMAIN mem = Devices /\ \A d \in Devices : CycleType(mem[d])
  /\ hubJ \in [Devices -> Seq(Ops)]
  /\ hubB \subseteq Content
  /\ budget \in [edits : Nat, faults : Nat]

\* Push order: no journal on the hub names content the hub does not hold, so a
\* peer that pulled an operation can always get its bytes.
BlobBeforeJournal ==
  \A e \in Devices : \A i \in DOMAIN hubJ[e] : hubJ[e][i].blob \in hubB \union {Absent}

\* Journals only grow and only their author writes them: what a peer holds is a
\* prefix of what the hub holds, and that of the author's own file.
JournalChain ==
  /\ \A d, e \in Devices : d # e => IsPrefix(jour[d][e], hubJ[e])
  /\ \A d \in Devices : IsPrefix(hubJ[d], jour[d][d])

\* Whatever crashed or failed, push's cursor never claims an operation the hub
\* does not have: a cursor too far ahead would strand the operations behind it.
CursorHonest ==
  \A d \in Devices : saved[d].pushed <= Len(hubJ[d]) /\ mem[d].pushed <= Len(hubJ[d])

\* A journaled edit orders after every operation its device had already seen:
\* otherwise the user's save would lose, silently, to what it replaced.
\* Adoption, which wants to lose, is the exception.
ClockDominates ==
  [][\A d \in Devices : mem[d].held = <<>> =>
       \A i \in Len(jour[d][d]) + 1 .. Len(jour'[d][d]) :
          \A x \in AllOps(d) : x.lam < jour'[d][d][i].lam]_vars

\* The device can give the content c of path p back: journaled, and stored.
Captured(d, p, c) ==
  c \in blobs[d] /\ \E o \in AllOps(d) : o.path = p /\ o.blob = c

\* The engine never writes over or unlinks a file whose content its own journal
\* and blob store could not give back, however the user's saves interleave.
HistoryKeepsAll ==
  [][budget'.edits = budget.edits =>
       \A d \in Devices : \A p \in DOMAIN file[d] :
         Holds(file'[d], p) # file[d][p] => Captured(d, p, file[d][p])]_vars

\* A cache that calls a file unchanged knows its content, and that content is
\* journaled, or held back by this very cycle until its pull has ended: a
\* dishonest entry would hide a user's edit from every later scan.
Tells(d, cache, pending) ==
  \A p \in DOMAIN cache : cache[p].fresh /\ p \in DOMAIN file[d] =>
     /\ cache[p].blob = file[d][p]
     /\ \/ Captured(d, p, file[d][p])
        \/ \E o \in pending : o.path = p /\ o.blob = file[d][p]

CacheHonest ==
  \A d \in Devices : Tells(d, saved[d].cache, {}) /\ Tells(d, mem[d].cache, Range(mem[d].held))

CopyKept(d, l) == \E o \in Known(d) : o.path = conflictName(l.path, l) /\ o.blob = l.blob

\* A merge of this device came to the content c.
MergedInto(d, c) == \E o \in Range(mem[d].mine) : o.note = "merge" /\ o.blob = c

\* The version of m's path that m's collision put at risk: m itself where it
\* lost; where it is an edit that won, the pulled one it beat.
AtRisk(d, m) ==
  LET won  == Holds(Replay(Known(d)), m.path)
      beat == IF m.note = "edit" /\ m.blob = won THEN Greatest(mem[d].pulled, m.path) ELSE {}
  IN  {l \in {m} \union beat : IsPut(l) /\ l.blob # won}

\* Once step 3 is over no unpushed version has lost its path without a conflict
\* copy, and no pulled one has lost to an unpushed edit without a copy, unless
\* its content could not be had or is what a merge came to.
LoserKept ==
  \A d \in Devices : mem[d].pc \in {"write", "blobs", "journal"} =>
    \A m \in Unpushed(mem[d].mine, mem[d].pushed) : \A l \in AtRisk(d, m) :
      CopyKept(d, l) \/ (l # m /\ (l.blob \notin blobs[d] \/ MergedInto(d, l.blob)))

\* When the users stop and the hub stays up, every folder comes to hold the
\* same replay of the same journals, and stays so: no cycle goes on journaling.
Converged ==
  \A d \in Devices :
    /\ file[d] = Replay(UNION {Range(hubJ[e]) : e \in Devices})
    /\ \A e \in Devices : jour[d][e] = hubJ[e]
Converges == <>[]Converged

\* The journals of a project as a replicated log: see ReplicatedJournals.
Log == INSTANCE ReplicatedJournals WITH
  Entry <- Ops,
  own <- [d \in Devices |-> jour[d][d]],
  pub <- hubJ,
  copy <- [d \in Devices |-> [e \in Devices \ {d} |-> jour[d][e]]]

\* The cycle's journals are such a log, whatever fails.
ReplicatesJournals == Log!Spec

=============================================================================
