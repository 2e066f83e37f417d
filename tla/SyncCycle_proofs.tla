--------------------------- MODULE SyncCycle_proofs ---------------------------
(***************************************************************************)
(* What holds of SyncCycle whatever its constants: any number of devices,  *)
(* clocks, users' edits, crashes and failed hub calls.                     *)
(*                                                                         *)
(* Part 1 types the operators and then the state.  Part 2 shows that every *)
(* copy of a journal is a prefix of its author's file, and Part 3 that the *)
(* journals implement ReplicatedJournals.  Part 4 is about the clock, Part *)
(* 5 about the push cursor and the push order, Part 6 about the user's     *)
(* folder and Part 7 about the conflict copies, while no append is torn.   *)
(***************************************************************************)
EXTENDS SyncCycle, TLAPS, SequenceTheorems, FiniteSetTheorems

-----------------------------------------------------------------------------
(* Part 1a.  What the operators return.                                    *)

\* A listing of a set is a sequence over it: whatever order map iteration took.
LEMMA OrdersAreSequences ==
  ASSUME NEW S, NEW s \in Orders(S)
  PROVE  s \in Seq(S) /\ Range(s) = S
<1>1. PICK n \in 0..Cardinality(S) : s \in [1..n -> S]
  BY DEF Orders
<1>2. n \in Nat
  BY <1>1
<1>. QED  BY <1>1, <1>2, SeqDef DEF Orders

\* conflictName yields a path again.
LEMMA ConflictNameIsPath ==
  ASSUME NEW p \in PathSet, NEW o \in Ops
  PROVE  conflictName(p, o) \in PathSet
<1>1. o.dev \in Devices /\ o.time \in Nat
  BY DEF Ops, Op
<1>2. o.time \div Second \in Nat
  <2>1. o.time \in Nat /\ Second \in Nat \ {0}
    BY <1>1, ClockAssumption
  <2>. QED  BY <2>1
<1>3. Append(p.marks, <<o.dev, o.time \div Second>>) \in Seq(Devices \X Nat)
  BY <1>1, <1>2, AppendProperties DEF PathSet
<1>. QED  BY <1>3 DEF conflictName, PathSet

\* Replay's winners are among the operations replayed.
LEMMA GreatestIsAmong ==
  ASSUME NEW ops, NEW p
  PROVE  Greatest(ops, p) \subseteq ops /\ \A o \in Greatest(ops, p) : o.path = p
BY DEF Greatest, At

\* Replaying operations yields a folder: contents at paths.
LEMMA ReplayIsFolder ==
  ASSUME NEW ops \in SUBSET Ops
  PROVE  OverPaths(Replay(ops), Content)
<1>. DEFINE live == UNION {{o \in Greatest(ops, p) : IsPut(o)} : p \in {o.path : o \in ops}}
<1>1. live \subseteq ops /\ \A o \in live : IsPut(o)
  BY GreatestIsAmong
<1>2. \A o \in live : o.path \in PathSet /\ o.blob \in Content
  BY <1>1 DEF Ops, Op, IsPut
<1>3. Replay(ops) = [p \in {o.path : o \in live} |-> (CHOOSE o \in live : o.path = p).blob]
  BY DEF Replay
<1>4. ASSUME NEW p \in {o.path : o \in live}
      PROVE  (CHOOSE o \in live : o.path = p) \in live
  BY <1>4
<1>. HIDE DEF live
<1>. QED  BY <1>2, <1>3, <1>4 DEF OverPaths

\* What a folder, or a replayed state, holds at a path is a content or nothing.
LEMMA HoldsContent ==
  ASSUME NEW f, OverPaths(f, Content), NEW p
  PROVE  Holds(f, p) \in Content \union {Absent}
BY DEF Holds, OverPaths

\* A clock absorbed from clocks is a clock.
LEMMA AbsorbIsClock ==
  ASSUME NEW lam \in Nat, NEW ops \in SUBSET Ops
  PROVE  Absorb(lam, ops) \subseteq Nat
BY DEF Absorb, Ops, Op

\* A scan journals well-formed operations, one per path it lists.
LEMMA ScanOpsAreOps ==
  ASSUME NEW d \in Devices, NEW order \in Seq(PathSet), NEW f, OverPaths(f, Content),
         NEW lam \in Nat, NEW n \in Nat
  PROVE  /\ ScanOps(d, order, f, lam, n) \in Seq(Ops)
         /\ Len(ScanOps(d, order, f, lam, n)) = Len(order)
<1>1. Len(order) \in Nat /\ DOMAIN order = 1..Len(order)
  BY LenProperties
<1>2. \A i \in DOMAIN order :
        [lam |-> lam + i, time |-> Now(d, n + 1), dev |-> d, seq |-> n + i,
         path |-> order[i], blob |-> Holds(f, order[i]), note |-> "edit"] \in Ops
  <2>. SUFFICES ASSUME NEW i \in DOMAIN order
                PROVE  [lam |-> lam + i, time |-> Now(d, n + 1), dev |-> d, seq |-> n + i,
                        path |-> order[i], blob |-> Holds(f, order[i]), note |-> "edit"] \in Ops
    OBVIOUS
  <2>1. lam + i \in Nat /\ n + i \in Nat
    BY <1>1
  <2>2. Now(d, n + 1) \in Nat
    BY ClockAssumption DEF Now
  <2>3. order[i] \in PathSet
    BY <1>1, ElementOfSeq
  <2>4. Holds(f, order[i]) \in Content \union {Absent}
    BY HoldsContent
  <2>. QED  BY <2>1, <2>2, <2>3, <2>4 DEF Ops, Op, Notes
<1>3. ScanOps(d, order, f, lam, n) \in [1..Len(order) -> Ops]
  BY <1>1, <1>2 DEF ScanOps
<1>. QED  BY <1>1, <1>3, SeqDef

\* An append keeps what the file held and adds operations, torn or not.
LEMMA AppendOpsExtends ==
  ASSUME NEW own \in Seq(Ops), NEW ops \in Seq(Ops), NEW t \in BOOLEAN
  PROVE  /\ AppendOps(own, ops, t) \in Seq(Ops)
         /\ IsPrefix(own, AppendOps(own, ops, t))
<1>1. \A s \in Seq(Ops) : own \o s \in Seq(Ops) /\ IsPrefix(own, own \o s)
  <2>. TAKE s \in Seq(Ops)
  <2>1. /\ own \o s \in Seq(Ops)
        /\ Len(own \o s) = Len(own) + Len(s)
    BY ConcatProperties
  <2>2. Len(own) \in Nat /\ Len(s) \in Nat
    BY LenProperties
  <2>3. SubSeq(own, 1, Len(own)) = SubSeq(own \o s, 1, Len(own))
    <3>1. CASE Len(own) = 0
      BY <3>1, <2>2, SubSeqEmpty
    <3>2. CASE Len(own) # 0
      BY <3>2, <2>2, SubSeqOfConcat1
    <3>. QED  BY <3>1, <3>2
  <2>. QED  BY <2>1, <2>2, <2>3 DEF IsPrefix
<1>2. CASE t /\ ops # <<>>
  BY <1>1, <1>2, HeadTailProperties DEF AppendOps
<1>3. CASE ~(t /\ ops # <<>>)
  BY <1>1, <1>3 DEF AppendOps
<1>. QED  BY <1>2, <1>3

\* Touching files changes what a cache knows of them, not what it is.
LEMMA StaleIsCache ==
  ASSUME NEW cache, OverPaths(cache, CacheEntry), NEW S
  PROVE  OverPaths(Stale(cache, S), CacheEntry)
BY DEF OverPaths, Stale, CacheEntry

\* A scanned cache is a cache.
LEMMA ScannedIsCache ==
  ASSUME NEW f, OverPaths(f, Content), NEW cache, OverPaths(cache, CacheEntry)
  PROVE  OverPaths(Scanned(f, cache), CacheEntry)
BY DEF OverPaths, Scanned, CacheEntry

\* The volume's operations, and those a cycle folds, are operations.
LEMMA KnownAreOps ==
  ASSUME TypeOK, NEW d \in Devices
  PROVE  AllOps(d) \subseteq Ops /\ Known(d) \subseteq Ops
<1>1. \A e \in Devices : jour[d][e] \in Seq(Ops)
  BY DEF TypeOK
<1>2. \A e \in Devices : Range(jour[d][e]) \in SUBSET Ops
  BY <1>1, RangeOfSeq
<1>3. Range(mem[d].mine) \in SUBSET Ops
  BY RangeOfSeq DEF TypeOK, CycleType
<1>. QED  BY <1>2, <1>3 DEF AllOps, Known

\* What adoption journals are operations of this device's journal.
LEMMA AdoptedAreOps ==
  ASSUME TypeOK, NEW d \in Devices, NEW ops \in Adopted(d)
  PROVE  ops \in Seq(Ops)
<1>. DEFINE m == mem[d]
            project == m.pulled \union (IF m.mount THEN AllOps(d) ELSE {})
            same(o) == IsPut(o) /\ \E w \in Greatest(project, o.path) : w.blob = o.blob
            kept == {i \in DOMAIN m.held : ~(m.mount /\ same(m.held[i]))}
<1>1. m.held \in Seq(Ops) /\ m.mine \in Seq(Ops)
  BY DEF TypeOK, CycleType
<1>2. DOMAIN m.held = 1..Len(m.held) /\ \A i \in DOMAIN m.held : m.held[i] \in Ops
  BY <1>1, LenProperties, ElementOfSeq
<1>3. PICK order \in Ascending(kept) : ops =
        [i \in DOMAIN order |->
          [Adopt(m.held[order[i]], project) EXCEPT !.seq = Len(m.mine) + i]]
  BY DEF Adopted
<1>4. order \in Seq(kept)
  BY OrdersAreSequences DEF Ascending
<1>5. /\ Len(order) \in Nat /\ Len(m.mine) \in Nat
      /\ DOMAIN order = 1..Len(order)
      /\ \A i \in DOMAIN order : order[i] \in kept
  BY <1>1, <1>4, LenProperties, ElementOfSeq
<1>6. ASSUME NEW o \in Ops, NEW n \in Nat
      PROVE  [Adopt(o, project) EXCEPT !.seq = n] \in Ops
  <2>1. Adopt(o, project) \in Ops
    BY DEF Adopt, Ops, Op, Notes
  <2>. QED  BY <2>1 DEF Ops, Op
<1>7. ASSUME NEW i \in DOMAIN order
      PROVE  [Adopt(m.held[order[i]], project) EXCEPT !.seq = Len(m.mine) + i] \in Ops
  <2>1. m.held[order[i]] \in Ops
    BY <1>2, <1>5
  <2>2. Len(m.mine) + i \in Nat
    BY <1>5
  <2>. QED  BY <1>6, <2>1, <2>2
<1>. HIDE DEF kept, project, m
<1>8. ops \in [1..Len(order) -> Ops]
  BY <1>3, <1>5, <1>7
<1>. QED  BY <1>5, <1>8, SeqDef

\* What step 3 journals: a content at a path, with its note.
Keeper == [path : PathSet, blob : Content, note : {"copy", "merge"}]

\* A part of a text is a text.
LEMMA PartIsText ==
  ASSUME NEW c \in Content, NEW i \in Nat \ {0}, NEW j \in Int, j <= Len(c)
  PROVE  SubSeq(c, i, j) \in Content
BY DEF Content

\* A changed span lies within the base, and what is put there is a text.
LEMMA RegionsAreSpans ==
  ASSUME NEW base \in Content, NEW side \in Content, NEW x \in changedRegions(base, side)
  PROVE  x.from \in 0..Len(base) /\ x.to \in 0..Len(base) /\ x.with \in Content
<1>1. PICK p \in samePrefix(base, side) : \E s \in sameSuffix(base, side, p) :
        x = [from |-> p, to |-> Len(base) - s, with |-> SubSeq(side, p + 1, Len(side) - s)]
  BY DEF changedRegions
<1>2. PICK s \in sameSuffix(base, side, p) :
        x = [from |-> p, to |-> Len(base) - s, with |-> SubSeq(side, p + 1, Len(side) - s)]
  BY <1>1
<1>3. p \in 0..Len(base)
  BY DEF samePrefix, Longest
<1>4. s \in 0..Len(base) - p
  BY DEF sameSuffix, Longest
<1>5. Len(base) \in Nat /\ Len(side) \in Nat
  BY LenProperties DEF Content
<1>6. SubSeq(side, p + 1, Len(side) - s) \in Content
  BY <1>3, <1>4, <1>5, PartIsText
<1>. QED  BY <1>2, <1>3, <1>4, <1>5, <1>6

\* Splicing two spans into a base yields a text.
LEMMA SplicedIsText ==
  ASSUME NEW base \in Content, NEW x, NEW y,
         x.from \in 0..Len(base), x.to \in 0..Len(base), x.with \in Content,
         y.from \in 0..Len(base), y.to \in 0..Len(base), y.with \in Content
  PROVE  Spliced(base, x, y) \in Content
<1>1. Len(base) \in Nat
  BY LenProperties DEF Content
<1>2. /\ SubSeq(base, 1, x.from) \in Content
      /\ SubSeq(base, x.to + 1, y.from) \in Content
      /\ SubSeq(base, y.to + 1, Len(base)) \in Content
  BY <1>1, PartIsText
<1>3. ASSUME NEW a \in Content, NEW b \in Content
      PROVE  a \o b \in Content
  BY DEF Content
<1>. QED  BY <1>2, <1>3 DEF Spliced

\* What a merge of texts comes to is a text.
LEMMA MergeIsText ==
  ASSUME NEW base \in Content, NEW a \in Content, NEW b \in Content
  PROVE  mergeText(base, a, b) \subseteq Content
<1>1. ASSUME NEW x \in changedRegions(base, a), NEW y \in changedRegions(base, b)
      PROVE  Spliced(base, x, y) \in Content /\ Spliced(base, y, x) \in Content
  BY RegionsAreSpans, SplicedIsText
<1>. QED  BY <1>1 DEF mergeText

\* A merge is a content.
LEMMA MergesAreContents ==
  ASSUME NEW m \in Ops, NEW ts \in SUBSET Ops, NEW ops \in SUBSET Ops, NEW store
  PROVE  tryMerge(m, ts, ops, store) \subseteq Content
<1>. SUFFICES ASSUME NEW t \in ts, IsPut(m), IsPut(t)
              PROVE  Merges(m, t, ops, store) \subseteq Content
  BY DEF tryMerge
<1>1. m.blob \in Content /\ t.blob \in Content
  BY DEF Ops, Op, IsPut
<1>2. \A b \in commonAncestor(m, t, ops) : b.blob \in Content
  <2>1. commonAncestor(m, t, ops) \subseteq {o \in At(ops, m.path) : IsPut(o) /\ Less(o, m) /\ Less(o, t)}
    BY GreatestIsAmong DEF commonAncestor
  <2>. QED  BY <2>1 DEF At, IsPut, Ops, Op
<1>. QED  BY <1>1, <1>2, MergeIsText DEF Merges

\* What step 3 keeps of one unpushed operation is keepers.
LEMMA KeptAreKeepers ==
  ASSUME NEW m \in Ops, NEW pulled \in SUBSET Ops, NEW ops \in SUBSET Ops, NEW store
  PROVE  Kept(m, pulled, ops, store) \subseteq Keeper
<1>. DEFINE state == Replay(ops)
            lost  == {l \in Losers(m, pulled, state) : MustKeep(l, m.path, state, store)}
            merge == tryMerge(m, Greatest(pulled, m.path), ops, store)
<1>1. Losers(m, pulled, state) \subseteq Ops
  BY GreatestIsAmong DEF Losers
<1>2. \A l \in lost : l \in Ops /\ IsPut(l)
  BY <1>1 DEF MustKeep
<1>3. m.path \in PathSet
  BY DEF Ops, Op
<1>4. \A l \in lost : conflictName(m.path, l) \in PathSet /\ l.blob \in Content
  BY <1>2, <1>3, ConflictNameIsPath DEF Ops, Op, IsPut
<1>5. merge \subseteq Content
  BY GreatestIsAmong, MergesAreContents
<1>. HIDE DEF lost, merge, state
<1>6. Kept(m, pulled, ops, store) =
        IF lost = {} THEN {}
        ELSE IF merge # {} THEN {[path |-> m.path, blob |-> b, note |-> "merge"] : b \in merge}
        ELSE {[path |-> conflictName(m.path, l), blob |-> l.blob, note |-> "copy"] : l \in lost}
  BY DEF Kept, lost, merge, state
<1>. QED  BY <1>3, <1>4, <1>5, <1>6 DEF Keeper

\* And so is everything step 3 journals in a cycle.
LEMMA ConflictCopiesAreKeepers ==
  ASSUME TypeOK, NEW d \in Devices
  PROVE  conflictCopies(d) \subseteq Keeper
<1>1. /\ mem[d].mine \in Seq(Ops) /\ mem[d].pushed \in Nat /\ mem[d].pulled \in SUBSET Ops
      /\ Known(d) \in SUBSET Ops
  BY KnownAreOps DEF TypeOK, CycleType
<1>2. Len(mem[d].mine) \in Nat /\ \A i \in 1..Len(mem[d].mine) : mem[d].mine[i] \in Ops
  BY <1>1, LenProperties, ElementOfSeq
<1>3. Unpushed(mem[d].mine, mem[d].pushed) \subseteq Ops
  BY <1>1, <1>2 DEF Unpushed
<1>. QED  BY <1>1, <1>3, KeptAreKeepers DEF conflictCopies

-----------------------------------------------------------------------------
(* Part 1b.  The type of the state.                                        *)

\* What each variable's conjunct of TypeOK says once it has moved at one device.
LEMMA CommitTyped ==
  ASSUME TypeOK, NEW d \in Devices, NEW ops \in Seq(Ops), Commit(d, ops)
  PROVE  /\ jour' \in [Devices -> [Devices -> Seq(Ops)]]
         /\ torn' \in [Devices -> BOOLEAN]
<1>1. AppendOps(jour[d][d], ops, torn[d]) \in Seq(Ops)
  BY AppendOpsExtends DEF TypeOK
<1>. QED  BY <1>1 DEF Commit, TypeOK

\* One device's memory replaced by a typed record leaves all of mem typed.
LEMMA CycleTyped ==
  ASSUME TypeOK, NEW d \in Devices, NEW m, CycleType(m), mem' = [mem EXCEPT ![d] = m]
  PROVE  DOMAIN mem' = Devices /\ \A x \in Devices : CycleType(mem'[x])
<1>1. DOMAIN mem' = Devices /\ mem'[d] = m /\ \A x \in Devices \ {d} : mem'[x] = mem[x]
  BY DEF TypeOK
<1>2. \A x \in Devices : mem'[x] = IF x = d THEN m ELSE mem[x]
  BY <1>1
<1>3. \A x \in Devices : CycleType(IF x = d THEN m ELSE mem[x])
  BY DEF TypeOK
<1>. QED  BY <1>1, <1>2, <1>3

\* One device's state files replaced by a typed record leave all of saved typed.
LEMMA SavedTyped ==
  ASSUME TypeOK, NEW d \in Devices, NEW s, SavedType(s), saved' = [saved EXCEPT ![d] = s]
  PROVE  DOMAIN saved' = Devices /\ \A x \in Devices : SavedType(saved'[x])
<1>1. DOMAIN saved' = Devices /\ saved'[d] = s /\ \A x \in Devices \ {d} : saved'[x] = saved[x]
  BY DEF TypeOK
<1>2. \A x \in Devices : saved'[x] = IF x = d THEN s ELSE saved[x]
  BY <1>1
<1>3. \A x \in Devices : SavedType(IF x = d THEN s ELSE saved[x])
  BY DEF TypeOK
<1>. QED  BY <1>1, <1>2, <1>3

\* A spent fault or edit leaves the budget natural.
LEMMA BudgetTyped ==
  ASSUME TypeOK,
         \/ budget.faults > 0 /\ budget' = [budget EXCEPT !.faults = @ - 1]
         \/ budget.edits > 0 /\ budget' = [budget EXCEPT !.edits = @ - 1]
  PROVE  budget' \in [edits : Nat, faults : Nat]
BY DEF TypeOK

\* The initial states are typed.
LEMMA InitTyped == Init => TypeOK
<1>. SUFFICES ASSUME Init PROVE TypeOK
  OBVIOUS
<1>1. DOMAIN file = Devices /\ \A d \in Devices : OverPaths(file[d], Content)
  <2>1. file \in [Devices -> UNION {[S -> {<<l>> : l \in InitLines}] :
                                      S \in SUBSET {Plain(n) : n \in Names}}]
    BY DEF Init
  <2>2. \A n \in Names : Plain(n) \in PathSet
    BY EmptySeq DEF Plain, PathSet
  <2>3. \A l \in InitLines : <<l>> \in Content
    BY LinesAssumption DEF Content
  <2>4. ASSUME NEW d \in Devices PROVE OverPaths(file[d], Content)
    <3>1. PICK S \in SUBSET {Plain(n) : n \in Names} : file[d] \in [S -> {<<l>> : l \in InitLines}]
      BY <2>1
    <3>. QED  BY <3>1, <2>2, <2>3 DEF OverPaths
  <2>. QED  BY <2>1, <2>4
<1>2. /\ text \subseteq Names
      /\ blobs \in [Devices -> SUBSET Content]
      /\ jour \in [Devices -> [Devices -> Seq(Ops)]]
      /\ torn \in [Devices -> BOOLEAN]
      /\ hubJ \in [Devices -> Seq(Ops)]
      /\ hubB \subseteq Content
      /\ budget \in [edits : Nat, faults : Nat]
  BY EmptySeq, BoundsAssumption DEF Init
<1>3. SavedType(NothingSaved)
  BY DEF SavedType, NothingSaved, OverPaths
<1>4. CycleType(Idle)
  BY EmptySeq DEF CycleType, Idle, OverPaths, Phases
<1>. QED  BY <1>1, <1>2, <1>3, <1>4 DEF Init, TypeOK

\* A scan, whole or cut short, journals operations of the paths it found dirty.
LEMMA ScanTyped ==
  ASSUME TypeOK, NEW d \in Devices, NEW lam \in Rederived(d),
         NEW order \in Orders(Dirty(file[d], saved[d].cache))
  PROVE  /\ lam \in Nat
         /\ ScanOps(d, order, file[d], lam, Len(jour[d][d])) \in Seq(Ops)
         /\ Len(ScanOps(d, order, file[d], lam, Len(jour[d][d]))) \in Nat
         /\ {o.blob : o \in Range(ScanOps(d, order, file[d], lam, Len(jour[d][d])))} \ {Absent}
              \subseteq Content
<1>1. lam \in Nat
  <2>1. saved[d].lam \in Nat
    BY DEF TypeOK, SavedType
  <2>. QED  BY <2>1, KnownAreOps, AbsorbIsClock DEF Rederived
<1>2. order \in Seq(PathSet)
  <2>1. Dirty(file[d], saved[d].cache) \subseteq PathSet
    BY DEF TypeOK, SavedType, OverPaths, Dirty
  <2>. QED  BY <2>1, OrdersAreSequences, SeqMonotonic
<1>3. OverPaths(file[d], Content) /\ Len(jour[d][d]) \in Nat
  BY LenProperties DEF TypeOK
<1>4. ScanOps(d, order, file[d], lam, Len(jour[d][d])) \in Seq(Ops)
  BY <1>1, <1>2, <1>3, ScanOpsAreOps
<1>5. Range(ScanOps(d, order, file[d], lam, Len(jour[d][d]))) \in SUBSET Ops
  BY <1>4, RangeOfSeq
<1>. QED  BY <1>1, <1>4, <1>5, LenProperties DEF Ops, Op

\* The scan keeps the type: its operations, its cache and its clock are well formed.
LEMMA ScanKeepsType ==
  ASSUME TypeOK, NEW d \in Devices, Scan(d)
  PROVE  TypeOK'
<1>1. PICK lam \in Rederived(d), order \in Orders(Dirty(file[d], saved[d].cache)) :
       LET own == jour[d][d]
           ops == ScanOps(d, order, file[d], lam, Len(own))
       IN  /\ blobs' = [blobs EXCEPT ![d] = @ \union ({o.blob : o \in Range(ops)} \ {Absent})]
           /\ \/ /\ Joining(d)
                 /\ mem' = [mem EXCEPT ![d] = Started(d, lam + Len(ops), own, ops)]
                 /\ UNCHANGED <<jour, torn>>
              \/ /\ ~Joining(d)
                 /\ mem' = [mem EXCEPT ![d] = Started(d, lam + Len(ops), own \o ops, <<>>)]
                 /\ Commit(d, ops)
  BY DEF Scan
<1>. DEFINE own == jour[d][d]
            ops == ScanOps(d, order, file[d], lam, Len(own))
<1>2. /\ lam \in Nat /\ ops \in Seq(Ops) /\ Len(ops) \in Nat
      /\ {o.blob : o \in Range(ops)} \ {Absent} \subseteq Content
  BY ScanTyped
<1>3. own \in Seq(Ops) /\ own \o ops \in Seq(Ops)
  BY <1>2, ConcatProperties DEF TypeOK
<1>4. OverPaths(Scanned(file[d], saved[d].cache), CacheEntry)
  BY ScannedIsCache DEF TypeOK, SavedType
<1>. HIDE DEF own, ops
<1>5. ASSUME NEW mine \in Seq(Ops), NEW held \in Seq(Ops)
      PROVE  CycleType(Started(d, lam + Len(ops), mine, held))
  <2>1. lam + Len(ops) \in Nat /\ saved[d].pushed \in Nat /\ MountJoining(d) \in BOOLEAN
    BY <1>2 DEF TypeOK, SavedType, MountJoining
  <2>. QED  BY <1>4, <2>1 DEF CycleType, Started, Phases
<1>6. blobs' \in [Devices -> SUBSET Content]
  BY <1>1, <1>2 DEF TypeOK, own, ops
<1>7. CASE Joining(d) /\ mem' = [mem EXCEPT ![d] = Started(d, lam + Len(ops), own, ops)]
                      /\ UNCHANGED <<jour, torn>>
  <2>1. DOMAIN mem' = Devices /\ \A x \in Devices : CycleType(mem'[x])
    BY <1>2, <1>3, <1>5, <1>7, CycleTyped
  <2>. QED  BY <1>6, <1>7, <2>1 DEF Scan, TypeOK, hub
<1>8. CASE ~Joining(d) /\ mem' = [mem EXCEPT ![d] = Started(d, lam + Len(ops), own \o ops, <<>>)]
                       /\ Commit(d, ops)
  <2>1. DOMAIN mem' = Devices /\ \A x \in Devices : CycleType(mem'[x])
    BY <1>3, <1>5, <1>8, CycleTyped, EmptySeq
  <2>2. jour' \in [Devices -> [Devices -> Seq(Ops)]] /\ torn' \in [Devices -> BOOLEAN]
    BY <1>2, <1>8, CommitTyped
  <2>. QED  BY <1>6, <2>1, <2>2 DEF Scan, TypeOK, hub
<1>. QED  BY <1>1, <1>7, <1>8 DEF own, ops

\* Fetching a journal keeps the type: what it replaces and what is news are operations.
LEMMA PullJournalKeepsType ==
  ASSUME TypeOK, NEW d \in Devices, NEW e \in Devices, PullJournal(d, e)
  PROVE  TypeOK'
<1>. DEFINE news == Range(SubSeq(hubJ[e], Len(jour[d][e]) + 1, Len(hubJ[e])))
            m == [mem[d] EXCEPT !.left = @ \ {e}, !.pulled = @ \union news]
<1>1. news \in SUBSET Ops
  <2>1. /\ hubJ[e] \in Seq(Ops) /\ Len(hubJ[e]) \in Nat /\ Len(jour[d][e]) \in Nat
        /\ \A i \in 1..Len(hubJ[e]) : hubJ[e][i] \in Ops
    BY LenProperties, ElementOfSeq DEF TypeOK
  <2>2. SubSeq(hubJ[e], Len(jour[d][e]) + 1, Len(hubJ[e])) \in Seq(Ops)
    BY <2>1, SubSeqProperties
  <2>. QED  BY <2>2, RangeOfSeq
<1>2. CycleType(m)
  <2>1. CycleType(mem[d])
    BY DEF TypeOK
  <2>. HIDE DEF news
  <2>. QED  BY <1>1, <2>1 DEF CycleType
<1>3. mem' = [mem EXCEPT ![d] = m]
  BY DEF PullJournal
<1>4. DOMAIN mem' = Devices /\ \A x \in Devices : CycleType(mem'[x])
  BY <1>2, <1>3, CycleTyped
<1>5. jour' \in [Devices -> [Devices -> Seq(Ops)]]
  BY DEF PullJournal, TypeOK
<1>. QED  BY <1>4, <1>5 DEF PullJournal, TypeOK, hub

\* The end of the remote leg, however it ended.
LEMMA PullOverTyped ==
  ASSUME TypeOK, NEW d \in Devices, NEW ops \in Seq(Ops), NEW next \in Phases,
         NEW blocked \in BOOLEAN, PullOver(d, ops, next, blocked)
  PROVE  /\ DOMAIN mem' = Devices /\ \A x \in Devices : CycleType(mem'[x])
         /\ jour' \in [Devices -> [Devices -> Seq(Ops)]]
         /\ torn' \in [Devices -> BOOLEAN]
<1>1. PICK lam \in Absorb(mem[d].lam, mem[d].pulled) :
        mem' = [mem EXCEPT ![d].pc = next, ![d].lam = lam, ![d].mine = @ \o ops,
                           ![d].held = <<>>, ![d].blocked = blocked,
                           ![d].tried = IF blocked THEN {} ELSE Wanted(d)]
  BY DEF PullOver
<1>. DEFINE m == [mem[d] EXCEPT !.pc = next, !.lam = lam, !.mine = @ \o ops,
                    !.held = <<>>, !.blocked = blocked,
                    !.tried = IF blocked THEN {} ELSE Wanted(d)]
<1>2. CycleType(mem[d])
  BY DEF TypeOK
<1>3. lam \in Nat
  BY <1>2, AbsorbIsClock DEF CycleType
<1>4. mem[d].mine \o ops \in Seq(Ops)
  BY <1>2, ConcatProperties DEF CycleType
<1>5. Wanted(d) \subseteq Content
  BY <1>2 DEF Wanted, CycleType, Ops, Op
<1>6. CycleType(m)
  BY <1>2, <1>3, <1>4, <1>5, EmptySeq DEF CycleType
<1>7. mem' = [mem EXCEPT ![d] = m]
  BY <1>1
<1>. QED  BY <1>6, <1>7, CycleTyped, CommitTyped DEF PullOver

\* So do the three ends of a pull, adoption and demoted clocks included.
LEMMA EndOfPullKeepsType ==
  ASSUME TypeOK, NEW d \in Devices, EndPull(d) \/ PullOffline(d) \/ PullForbidden(d)
  PROVE  TypeOK'
<1>1. CASE EndPull(d)
  <2>1. PICK ops \in Adopted(d) : PullOver(d, ops, "resolve", FALSE)
    BY <1>1 DEF EndPull
  <2>2. ops \in Seq(Ops)
    BY AdoptedAreOps
  <2>3. PICK got \in SUBSET (Wanted(d) \intersect hubB) :
          /\ blobs' = [blobs EXCEPT ![d] = @ \union got]
          /\ IF got = Wanted(d) \intersect hubB THEN UNCHANGED budget
             ELSE budget.faults > 0 /\ budget' = [budget EXCEPT !.faults = @ - 1]
    BY <1>1 DEF EndPull
  <2>4. blobs' \in [Devices -> SUBSET Content] /\ budget' \in [edits : Nat, faults : Nat]
    <3>1. got \subseteq Content
      BY DEF TypeOK
    <3>. QED  BY <2>3, <3>1, BudgetTyped DEF TypeOK
  <2>5. "resolve" \in Phases
    BY DEF Phases
  <2>. QED  BY <1>1, <2>1, <2>2, <2>4, <2>5, PullOverTyped DEF EndPull, TypeOK, hub
<1>2. CASE PullOffline(d)
  <2>1. PICK ops \in Adopted(d) : PullOver(d, ops, "resolve", TRUE)
    BY <1>2 DEF PullOffline
  <2>2. ops \in Seq(Ops)
    BY AdoptedAreOps
  <2>3. "resolve" \in Phases
    BY DEF Phases
  <2>. QED  BY <1>2, <2>1, <2>2, <2>3, PullOverTyped, BudgetTyped DEF PullOffline, TypeOK, hub
<1>3. CASE PullForbidden(d)
  <2>1. mem[d].held \in Seq(Ops) /\ "finish" \in Phases
    BY DEF TypeOK, CycleType, Phases
  <2>. QED  BY <1>3, <2>1, PullOverTyped, BudgetTyped DEF PullForbidden, TypeOK, hub
<1>. QED  BY <1>1, <1>2, <1>3

\* What step 3 commits is a batch of well-formed operations, with their content.
LEMMA ResolveCommits ==
  ASSUME TypeOK, NEW d \in Devices, Resolve(d)
  PROVE  \E ops \in Seq(Ops) :
           /\ {o.blob : o \in Range(ops)} \subseteq Content
           /\ \A o \in Range(ops) : mem[d].lam < o.lam
           /\ \A i \in DOMAIN ops : ops[i].lam = mem[d].lam + i
           /\ {[path |-> o.path, blob |-> o.blob, note |-> o.note] : o \in Range(ops)} = conflictCopies(d)
           /\ mem' = [mem EXCEPT ![d].pc = "write", ![d].mine = @ \o ops, ![d].lam = @ + Len(ops)]
           /\ Commit(d, ops)
           /\ blobs' = [blobs EXCEPT ![d] = @ \union {o.blob : o \in Range(ops)}]
<1>1. PICK order \in Orders(conflictCopies(d)) :
       LET ops == [i \in DOMAIN order |->
                     [lam |-> mem[d].lam + i, dev |-> d,
                      time |-> Now(d, Len(mem[d].mine) + 1), seq |-> Len(mem[d].mine) + i, path |-> order[i].path,
                      blob |-> order[i].blob, note |-> order[i].note]]
       IN  /\ mem' = [mem EXCEPT ![d].pc = "write", ![d].mine = @ \o ops, ![d].lam = @ + Len(ops)]
           /\ Commit(d, ops)
           /\ blobs' = [blobs EXCEPT ![d] = @ \union {o.blob : o \in Range(ops)}]
  BY DEF Resolve
<1>. DEFINE ops == [i \in DOMAIN order |->
                     [lam |-> mem[d].lam + i, dev |-> d,
                      time |-> Now(d, Len(mem[d].mine) + 1), seq |-> Len(mem[d].mine) + i, path |-> order[i].path,
                      blob |-> order[i].blob, note |-> order[i].note]]
<1>2. order \in Seq(Keeper)
  BY OrdersAreSequences, ConflictCopiesAreKeepers, SeqMonotonic
<1>3. Len(order) \in Nat /\ DOMAIN order = 1..Len(order) /\ \A i \in DOMAIN order : order[i] \in Keeper
  BY <1>2, LenProperties, ElementOfSeq
<1>4. /\ CycleType(mem[d]) /\ mem[d].lam \in Nat
      /\ mem[d].mine \in Seq(Ops) /\ Len(mem[d].mine) \in Nat
  BY LenProperties DEF TypeOK, CycleType
<1>5. Now(d, Len(mem[d].mine) + 1) \in Nat
  BY <1>4, ClockAssumption DEF Now
<1>6. ASSUME NEW i \in DOMAIN order
      PROVE  ops[i] \in Ops /\ ops[i].blob \in Content /\ mem[d].lam < ops[i].lam
  <2>. HIDE DEF ops
  <2>0. i \in Nat \ {0}
    BY <1>3
  <2>1. mem[d].lam + i \in Nat /\ Len(mem[d].mine) + i \in Nat /\ mem[d].lam < mem[d].lam + i
    <3>. DEFINE lam == mem[d].lam
                len == Len(mem[d].mine)
    <3>1. lam \in Nat /\ len \in Nat
      BY <1>4
    <3>. HIDE DEF lam, len
    <3>2. lam + i \in Nat /\ len + i \in Nat /\ lam < lam + i
      BY <2>0, <3>1
    <3>. QED  BY <3>2 DEF lam, len
  <2>2. order[i] \in Keeper
    BY <1>3
  <2>3. ops[i] = [lam |-> mem[d].lam + i, dev |-> d,
                  time |-> Now(d, Len(mem[d].mine) + 1), seq |-> Len(mem[d].mine) + i, path |-> order[i].path,
                  blob |-> order[i].blob, note |-> order[i].note]
    BY DEF ops
  <2>. QED  BY <1>5, <2>1, <2>2, <2>3 DEF Keeper, Ops, Op, Notes
<1>7. DOMAIN ops = 1..Len(order) /\ \A i \in DOMAIN ops : ops[i].lam = mem[d].lam + i
  BY <1>3
<1>9. {[path |-> o.path, blob |-> o.blob, note |-> o.note] : o \in Range(ops)} = conflictCopies(d)
  <2>. DEFINE keeper(o) == [path |-> o.path, blob |-> o.blob, note |-> o.note]
  <2>1. \A i \in DOMAIN order : keeper(ops[i]) = order[i]
    BY <1>3 DEF Keeper
  <2>2. Range(order) = conflictCopies(d)
    BY <1>1, OrdersAreSequences
  <2>3. DOMAIN ops = DOMAIN order
    BY <1>3, <1>7
  <2>. HIDE DEF ops, keeper
  <2>4. {keeper(o) : o \in Range(ops)} = Range(order)
    BY <2>1, <2>3 DEF Range
  <2>. QED  BY <2>2, <2>4 DEF keeper
<1>. HIDE DEF ops
<1>8. /\ ops \in Seq(Ops) /\ {o.blob : o \in Range(ops)} \subseteq Content
      /\ \A o \in Range(ops) : mem[d].lam < o.lam
  <2>1. \A i \in 1..Len(order) :
          ops[i] \in Ops /\ ops[i].blob \in Content /\ mem[d].lam < ops[i].lam
    BY <1>3, <1>6
  <2>2. ops = [i \in 1..Len(order) |-> ops[i]]
    BY <1>7 DEF ops
  <2>3. ops \in [1..Len(order) -> Ops]
    BY <2>1, <2>2
  <2>4. ops \in Seq(Ops)
    BY <1>3, <2>3, SeqDef
  <2>5. \A o \in Range(ops) : o.blob \in Content /\ mem[d].lam < o.lam
    BY <1>7, <2>1 DEF Range
  <2>. QED  BY <2>4, <2>5
<1>. QED  BY <1>1, <1>7, <1>8, <1>9 DEF ops

\* Step 3 keeps the type: its copies and merges are operations over real paths.
LEMMA ResolveKeepsType ==
  ASSUME TypeOK, NEW d \in Devices, Resolve(d)
  PROVE  TypeOK'
<1>1. PICK ops \in Seq(Ops) :
        /\ {o.blob : o \in Range(ops)} \subseteq Content
        /\ mem' = [mem EXCEPT ![d].pc = "write", ![d].mine = @ \o ops, ![d].lam = @ + Len(ops)]
        /\ Commit(d, ops)
        /\ blobs' = [blobs EXCEPT ![d] = @ \union {o.blob : o \in Range(ops)}]
  BY ResolveCommits
<1>2. CycleType(mem[d]) /\ mem[d].lam \in Nat /\ mem[d].mine \in Seq(Ops) /\ Len(ops) \in Nat
  BY LenProperties DEF TypeOK, CycleType
<1>3. DOMAIN mem' = Devices /\ \A x \in Devices : CycleType(mem'[x])
  <2>. DEFINE m == [mem[d] EXCEPT !.pc = "write", !.mine = @ \o ops, !.lam = @ + Len(ops)]
  <2>1. mem[d].mine \o ops \in Seq(Ops)
    BY <1>2, ConcatProperties
  <2>2. mem[d].lam + Len(ops) \in Nat
    BY <1>2
  <2>3. CycleType(m)
    BY <1>2, <2>1, <2>2 DEF CycleType, Phases
  <2>4. mem' = [mem EXCEPT ![d] = m]
    BY <1>1
  <2>. QED  BY <2>3, <2>4, CycleTyped
<1>4. blobs' \in [Devices -> SUBSET Content]
  BY <1>1 DEF TypeOK
<1>5. jour' \in [Devices -> [Devices -> Seq(Ops)]] /\ torn' \in [Devices -> BOOLEAN]
  BY <1>1, CommitTyped
<1>. QED  BY <1>3, <1>4, <1>5 DEF Resolve, TypeOK, hub

\* Materializing keeps the type: only contents of the merged state reach the folder.
LEMMA WriteKeepsType ==
  ASSUME TypeOK, NEW d \in Devices, Write(d)
  PROVE  TypeOK'
<1>. DEFINE target == Replay(Known(d))
            cache  == mem[d].cache
            wants  == IF mem[d].blocked THEN {} ELSE Backfill(d, target)
            puts(got) == Writes(file[d], cache, target, blobs[d] \union got)
            dels == Unlinks(file[d], cache, target)
<1>1. PICK got \in SUBSET (wants \intersect hubB) :
        /\ blobs' = [blobs EXCEPT ![d] = @ \union got]
        /\ IF got = wants \intersect hubB THEN UNCHANGED budget
           ELSE budget.faults > 0 /\ budget' = [budget EXCEPT !.faults = @ - 1]
        /\ file' = [file EXCEPT ![d] = [p \in (DOMAIN @ \union puts(got)) \ dels |->
                                          IF p \in puts(got) THEN target[p] ELSE @[p]]]
        /\ mem' = [mem EXCEPT ![d].pc = "blobs",
                     ![d].cache = [p \in (DOMAIN cache \union puts(got)) \ Forgets(file[d], cache, target) |->
                        IF p \in puts(got) THEN [blob |-> target[p], fresh |-> TRUE] ELSE cache[p]]]
        /\ saved' = [saved EXCEPT ![d].cache = Stale(@, puts(got) \union dels)]
  BY DEF Write
<1>2. OverPaths(target, Content)
  BY KnownAreOps, ReplayIsFolder
<1>3. CycleType(mem[d]) /\ OverPaths(cache, CacheEntry) /\ OverPaths(file[d], Content)
  BY DEF TypeOK, CycleType
<1>4. puts(got) \subseteq DOMAIN target
  BY DEF Writes
<1>. HIDE DEF target, puts, dels
<1>5. blobs' \in [Devices -> SUBSET Content] /\ budget' \in [edits : Nat, faults : Nat]
  <2>1. got \subseteq Content
    BY DEF TypeOK
  <2>. QED  BY <1>1, <2>1, BudgetTyped DEF TypeOK
<1>6. DOMAIN file' = Devices /\ \A x \in Devices : OverPaths(file'[x], Content)
  <2>. DEFINE f == [p \in (DOMAIN file[d] \union puts(got)) \ dels |->
                      IF p \in puts(got) THEN target[p] ELSE file[d][p]]
  <2>1. OverPaths(f, Content)
    BY <1>2, <1>3, <1>4 DEF OverPaths
  <2>2. file' = [file EXCEPT ![d] = f]
    BY <1>1
  <2>. HIDE DEF f
  <2>. QED  BY <2>1, <2>2 DEF TypeOK
<1>7. DOMAIN mem' = Devices /\ \A x \in Devices : CycleType(mem'[x])
  <2>. DEFINE c == [p \in (DOMAIN cache \union puts(got)) \ Forgets(file[d], cache, target) |->
                      IF p \in puts(got) THEN [blob |-> target[p], fresh |-> TRUE] ELSE cache[p]]
              m == [mem[d] EXCEPT !.pc = "blobs", !.cache = c]
  <2>1. OverPaths(c, CacheEntry)
    BY <1>2, <1>3, <1>4 DEF OverPaths, CacheEntry
  <2>2. mem' = [mem EXCEPT ![d] = m]
    BY <1>1
  <2>. HIDE DEF c
  <2>3. CycleType(m)
    BY <1>3, <2>1 DEF CycleType, Phases
  <2>. QED  BY <2>2, <2>3, CycleTyped
<1>8. DOMAIN saved' = Devices /\ \A x \in Devices : SavedType(saved'[x])
  <2>. DEFINE s == [saved[d] EXCEPT !.cache = Stale(@, puts(got) \union dels)]
  <2>1. SavedType(s)
    BY StaleIsCache DEF TypeOK, SavedType
  <2>2. saved' = [saved EXCEPT ![d] = s]
    BY <1>1
  <2>. QED  BY <2>1, <2>2, SavedTyped
<1>. QED  BY <1>5, <1>6, <1>7, <1>8 DEF Write, TypeOK, hub

\* A step of the cycle that moves on, its cursor perhaps advanced.
LEMMA PhaseTyped ==
  ASSUME TypeOK, NEW d \in Devices, NEW pc \in Phases, NEW n \in Nat,
         \/ mem' = [mem EXCEPT ![d].pc = pc]
         \/ mem' = [mem EXCEPT ![d].pc = pc, ![d].pushed = n]
  PROVE  DOMAIN mem' = Devices /\ \A x \in Devices : CycleType(mem'[x])
<1>1. CycleType(mem[d])
  BY DEF TypeOK
<1>2. CASE mem' = [mem EXCEPT ![d].pc = pc]
  <2>1. CycleType([mem[d] EXCEPT !.pc = pc])
    BY <1>1 DEF CycleType
  <2>2. mem' = [mem EXCEPT ![d] = [mem[d] EXCEPT !.pc = pc]]
    BY <1>2
  <2>. QED  BY <2>1, <2>2, CycleTyped
<1>3. CASE mem' = [mem EXCEPT ![d].pc = pc, ![d].pushed = n]
  <2>1. CycleType([mem[d] EXCEPT !.pc = pc, !.pushed = n])
    BY <1>1 DEF CycleType
  <2>2. mem' = [mem EXCEPT ![d] = [mem[d] EXCEPT !.pc = pc, !.pushed = n]]
    BY <1>3
  <2>. QED  BY <2>1, <2>2, CycleTyped
<1>. QED  BY <1>2, <1>3

\* push uploads contents only.
LEMMA OutgoingAreContents ==
  ASSUME TypeOK, NEW d \in Devices
  PROVE  Outgoing(d) \subseteq Content
<1>1. mem[d].mine \in Seq(Ops) /\ mem[d].pushed \in Nat
  BY DEF TypeOK, CycleType
<1>2. Len(mem[d].mine) \in Nat /\ \A i \in 1..Len(mem[d].mine) : mem[d].mine[i] \in Ops
  BY <1>1, LenProperties, ElementOfSeq
<1>3. SubSeq(mem[d].mine, mem[d].pushed + 1, Len(mem[d].mine)) \in Seq(Ops)
  BY <1>1, <1>2, SubSeqProperties
<1>4. Range(SubSeq(mem[d].mine, mem[d].pushed + 1, Len(mem[d].mine))) \in SUBSET Ops
  BY <1>3, RangeOfSeq
<1>. QED  BY <1>4 DEF Outgoing, Ops, Op

\* Pushing blobs or the journal, and failing to, keep the type.
LEMMA PushKeepsType ==
  ASSUME TypeOK, NEW d \in Devices, PushBlobs(d) \/ PushJournal(d) \/ PushFails(d)
  PROVE  TypeOK'
<1>1. {"finish", "journal"} \subseteq Phases /\ 0 \in Nat
  BY DEF Phases
<1>2. jour[d][d] \in Seq(Ops)
  BY DEF TypeOK
<1>3. CASE PushBlobs(d)
  <2>1. DOMAIN mem' = Devices /\ \A x \in Devices : CycleType(mem'[x])
    BY <1>1, <1>3, PhaseTyped DEF PushBlobs
  <2>2. hubB' \subseteq Content
    BY <1>3, OutgoingAreContents DEF PushBlobs, TypeOK
  <2>. QED  BY <1>3, <2>1, <2>2 DEF PushBlobs, TypeOK
<1>4. CASE PushJournal(d)
  <2>1. Len(mem[d].mine) \in Nat
    BY LenProperties DEF TypeOK, CycleType
  <2>2. DOMAIN mem' = Devices /\ \A x \in Devices : CycleType(mem'[x])
    BY <1>1, <1>4, <2>1, PhaseTyped DEF PushJournal
  <2>3. hubJ' \in [Devices -> Seq(Ops)]
    BY <1>2, <1>4 DEF PushJournal, TypeOK
  <2>. QED  BY <1>4, <2>2, <2>3 DEF PushJournal, TypeOK
<1>5. CASE PushFails(d)
  <2>1. DOMAIN mem' = Devices /\ \A x \in Devices : CycleType(mem'[x])
    BY <1>1, <1>5, PhaseTyped DEF PushFails
  <2>2. hubJ' \in [Devices -> Seq(Ops)] /\ hubB' \subseteq Content
    BY <1>2, <1>5, OutgoingAreContents DEF PushFails, TypeOK
  <2>3. budget' \in [edits : Nat, faults : Nat]
    BY <1>5, BudgetTyped DEF PushFails
  <2>. QED  BY <1>5, <2>1, <2>2, <2>3 DEF PushFails, TypeOK
<1>. QED  BY <1>3, <1>4, <1>5

\* Saving the state files keeps the type.
LEMMA FinishKeepsType ==
  ASSUME TypeOK, NEW d \in Devices, Finish(d)
  PROVE  TypeOK'
<1>1. CycleType(mem[d]) /\ CycleType(Idle)
  BY EmptySeq DEF TypeOK, CycleType, Idle, OverPaths, Phases
<1>2. DOMAIN mem' = Devices /\ \A x \in Devices : CycleType(mem'[x])
  BY <1>1, CycleTyped DEF Finish
<1>3. SavedType([cache |-> mem[d].cache, has |-> TRUE, lam |-> mem[d].lam, pushed |-> mem[d].pushed])
  BY <1>1 DEF CycleType, SavedType
<1>4. DOMAIN saved' = Devices /\ \A x \in Devices : SavedType(saved'[x])
  BY <1>3, SavedTyped DEF Finish
<1>. QED  BY <1>2, <1>4 DEF Finish, TypeOK, hub

\* So does a crash, whichever of the two files finish had saved.
LEMMA CrashKeepsType ==
  ASSUME TypeOK, NEW d \in Devices, Crash(d)
  PROVE  TypeOK'
<1>1. CycleType(mem[d]) /\ CycleType(Idle)
  BY EmptySeq DEF TypeOK, CycleType, Idle, OverPaths, Phases
<1>2. DOMAIN mem' = Devices /\ \A x \in Devices : CycleType(mem'[x])
  BY <1>1, CycleTyped DEF Crash
<1>3. DOMAIN saved' = Devices /\ \A x \in Devices : SavedType(saved'[x])
  <2>1. CASE UNCHANGED saved
    BY <2>1 DEF TypeOK
  <2>2. CASE saved' = [saved EXCEPT ![d].cache = mem[d].cache, ![d].has = TRUE]
    <3>1. SavedType([saved[d] EXCEPT !.cache = mem[d].cache, !.has = TRUE])
      BY <1>1 DEF TypeOK, CycleType, SavedType
    <3>2. saved' = [saved EXCEPT ![d] = [saved[d] EXCEPT !.cache = mem[d].cache, !.has = TRUE]]
      BY <2>2
    <3>. QED  BY <3>1, <3>2, SavedTyped
  <2>. QED  BY <2>1, <2>2 DEF Crash
<1>4. budget' \in [edits : Nat, faults : Nat]
  BY BudgetTyped DEF Crash
<1>. QED  BY <1>2, <1>3, <1>4 DEF Crash, TypeOK, hub

\* What a torn append leaves whole is a batch of well-formed operations.
LEMMA TornAppendAppends ==
  ASSUME TypeOK, NEW d \in Devices, TornAppend(d)
  PROVE  /\ blobs' \in [Devices -> SUBSET Content]
         /\ \E ops \in Seq(Ops), lam \in Rederived(d),
              order \in Orders(Dirty(file[d], saved[d].cache)) :
              /\ Range(ops) \subseteq Range(ScanOps(d, order, file[d], lam, Len(jour[d][d])))
              /\ jour' = [jour EXCEPT ![d][d] = AppendOps(@, ops, torn[d])]
<1>1. PICK lam \in Rederived(d), order \in Orders(Dirty(file[d], saved[d].cache)) :
       LET ops == ScanOps(d, order, file[d], lam, Len(jour[d][d]))
       IN  \E k \in 0..Len(ops) - 1 :
             /\ blobs' = [blobs EXCEPT ![d] = @ \union ({o.blob : o \in Range(ops)} \ {Absent})]
             /\ jour' = [jour EXCEPT ![d][d] = AppendOps(@, SubSeq(ops, 1, k), torn[d])]
  BY DEF TornAppend
<1>. DEFINE ops == ScanOps(d, order, file[d], lam, Len(jour[d][d]))
<1>2. PICK k \in 0..Len(ops) - 1 :
        /\ blobs' = [blobs EXCEPT ![d] = @ \union ({o.blob : o \in Range(ops)} \ {Absent})]
        /\ jour' = [jour EXCEPT ![d][d] = AppendOps(@, SubSeq(ops, 1, k), torn[d])]
  BY <1>1
<1>3. ops \in Seq(Ops) /\ Len(ops) \in Nat /\ {o.blob : o \in Range(ops)} \ {Absent} \subseteq Content
  BY ScanTyped
<1>. HIDE DEF ops
<1>4. SubSeq(ops, 1, k) \in Seq(Ops) /\ Range(SubSeq(ops, 1, k)) \subseteq Range(ops)
  <2>1. k \in Nat /\ k <= Len(ops) /\ DOMAIN ops = 1..Len(ops)
    BY <1>3, LenProperties
  <2>2. \A i \in 1..k : i \in DOMAIN ops /\ ops[i] \in Ops
    BY <1>3, <2>1, ElementOfSeq
  <2>3. /\ SubSeq(ops, 1, k) \in Seq(Ops) /\ Len(SubSeq(ops, 1, k)) = k
        /\ \A i \in 1..k : SubSeq(ops, 1, k)[i] = ops[i]
    BY <2>1, <2>2, SubSeqProperties
  <2>4. DOMAIN SubSeq(ops, 1, k) = 1..k
    BY <2>3, LenProperties
  <2>. QED  BY <2>2, <2>3, <2>4 DEF Range
<1>5. blobs' \in [Devices -> SUBSET Content]
  BY <1>2, <1>3 DEF TypeOK
<1>. QED  BY <1>2, <1>4, <1>5 DEF ops

\* So does an append cut short: what is left of it is operations.
LEMMA TornAppendKeepsType ==
  ASSUME TypeOK, NEW d \in Devices, TornAppend(d)
  PROVE  TypeOK'
<1>1. blobs' \in [Devices -> SUBSET Content]
  BY TornAppendAppends
<1>2. PICK ops \in Seq(Ops) : jour' = [jour EXCEPT ![d][d] = AppendOps(@, ops, torn[d])]
  BY TornAppendAppends
<1>3. AppendOps(jour[d][d], ops, torn[d]) \in Seq(Ops)
  BY AppendOpsExtends DEF TypeOK
<1>4. jour' \in [Devices -> [Devices -> Seq(Ops)]]
  BY <1>2, <1>3 DEF TypeOK
<1>5. torn' \in [Devices -> BOOLEAN] /\ budget' \in [edits : Nat, faults : Nat]
  BY BudgetTyped DEF TornAppend, TypeOK
<1>. QED  BY <1>1, <1>4, <1>5 DEF TornAppend, TypeOK, hub

\* A user's save or removal: the folder moves and the fingerprints go stale.
LEMMA UserTyped ==
  ASSUME TypeOK, NEW d \in Devices, NEW p, NEW f, OverPaths(f, Content),
         budget.edits > 0, budget' = [budget EXCEPT !.edits = @ - 1],
         file' = [file EXCEPT ![d] = f],
         mem' = [mem EXCEPT ![d].cache = Stale(@, {p})],
         saved' = [saved EXCEPT ![d].cache = Stale(@, {p})],
         UNCHANGED <<text, blobs, jour, torn, hub>>
  PROVE  TypeOK'
<1>1. CycleType([mem[d] EXCEPT !.cache = Stale(@, {p})])
  <2>1. CycleType(mem[d]) /\ OverPaths(Stale(mem[d].cache, {p}), CacheEntry)
    BY StaleIsCache DEF TypeOK, CycleType
  <2>. QED  BY <2>1 DEF CycleType
<1>2. mem' = [mem EXCEPT ![d] = [mem[d] EXCEPT !.cache = Stale(@, {p})]]
  OBVIOUS
<1>3. DOMAIN mem' = Devices /\ \A x \in Devices : CycleType(mem'[x])
  BY <1>1, <1>2, CycleTyped
<1>4. SavedType([saved[d] EXCEPT !.cache = Stale(@, {p})])
  BY StaleIsCache DEF TypeOK, SavedType
<1>5. saved' = [saved EXCEPT ![d] = [saved[d] EXCEPT !.cache = Stale(@, {p})]]
  OBVIOUS
<1>6. DOMAIN saved' = Devices /\ \A x \in Devices : SavedType(saved'[x])
  BY <1>4, <1>5, SavedTyped
<1>7. DOMAIN file' = Devices /\ \A x \in Devices : OverPaths(file'[x], Content)
  BY DEF TypeOK
<1>8. budget' \in [edits : Nat, faults : Nat]
  BY BudgetTyped
<1>. QED  BY <1>3, <1>6, <1>7, <1>8 DEF TypeOK, hub

\* A text with one line put in or taken out is a text.
LEMMA RetouchedIsText ==
  ASSUME NEW c \in Content, NEW l \in Lines
  PROVE  Retouched(c, l) \subseteq Content
<1>1. Len(c) \in Nat /\ DOMAIN c = 1..Len(c)
  BY LenProperties DEF Content
<1>2. ASSUME NEW i \in 1..Len(c)
      PROVE  RemoveAt(c, i) \in Content
  BY <1>1 DEF RemoveAt, Content
<1>3. ASSUME NEW i \in 1..Len(c) + 1
      PROVE  InsertAt(c, i, l) \in Content
  BY <1>1 DEF InsertAt, Content
<1>. QED  BY <1>1, <1>2, <1>3 DEF Retouched

\* And so do the user's saves and removals.
LEMMA UserKeepsType ==
  ASSUME TypeOK, NEW d \in Devices,
         \/ \E n \in Names, l \in Lines : Edit(d, n, l)
         \/ \E p \in DOMAIN file[d] : Delete(d, p)
  PROVE  TypeOK'
<1>1. OverPaths(file[d], Content)
  BY DEF TypeOK
<1>2. ASSUME NEW n \in Names, NEW l \in Lines, Edit(d, n, l)
      PROVE  TypeOK'
  <2>. DEFINE p == Plain(n)
              old == IF p \in DOMAIN file[d] THEN file[d][p] ELSE <<>>
  <2>1. p \in PathSet
    BY EmptySeq DEF Plain, PathSet
  <2>2. PICK new \in Retouched(old, l) :
        /\ budget.edits > 0 /\ budget' = [budget EXCEPT !.edits = @ - 1]
        /\ file' = [file EXCEPT ![d] = [q \in DOMAIN @ \union {p} |-> IF q = p THEN new ELSE @[q]]]
        /\ mem' = [mem EXCEPT ![d].cache = Stale(@, {p})]
        /\ saved' = [saved EXCEPT ![d].cache = Stale(@, {p})]
        /\ UNCHANGED <<text, blobs, jour, torn, hub>>
    BY <1>2 DEF Edit
  <2>3. new \in Content
    <3>1. old \in Content
      BY <1>1, EmptySeq DEF OverPaths, Content
    <3>. QED  BY <3>1, RetouchedIsText
  <2>. DEFINE f == [q \in DOMAIN file[d] \union {p} |-> IF q = p THEN new ELSE file[d][q]]
  <2>. HIDE DEF p, old
  <2>4. OverPaths(f, Content)
    BY <1>1, <2>1, <2>3 DEF OverPaths
  <2>5. file' = [file EXCEPT ![d] = f]
    BY <2>2
  <2>. HIDE DEF f
  <2>. QED  BY <2>2, <2>4, <2>5, UserTyped
<1>3. ASSUME NEW p \in DOMAIN file[d], Delete(d, p)
      PROVE  TypeOK'
  <2>. DEFINE f == [q \in DOMAIN file[d] \ {p} |-> file[d][q]]
  <2>1. OverPaths(f, Content)
    BY <1>1 DEF OverPaths
  <2>2. /\ budget.edits > 0 /\ budget' = [budget EXCEPT !.edits = @ - 1]
        /\ file' = [file EXCEPT ![d] = f]
        /\ mem' = [mem EXCEPT ![d].cache = Stale(@, {p})]
        /\ saved' = [saved EXCEPT ![d].cache = Stale(@, {p})]
        /\ UNCHANGED <<text, blobs, jour, torn, hub>>
    BY <1>3 DEF Delete
  <2>. QED  BY <2>1, <2>2, UserTyped
<1>. QED  BY <1>2, <1>3

\* Every step keeps the type.
LEMMA NextTyped ==
  ASSUME TypeOK, [Next]_vars
  PROVE  TypeOK'
<1>1. ASSUME NEW d \in Devices, Step(d)
      PROVE  TypeOK'
  BY <1>1, ScanKeepsType, PullJournalKeepsType, EndOfPullKeepsType, ResolveKeepsType,
     WriteKeepsType, PushKeepsType, FinishKeepsType DEF Step
<1>2. ASSUME NEW d \in Devices, Environment(d)
      PROVE  TypeOK'
  BY <1>2, EndOfPullKeepsType, PushKeepsType, CrashKeepsType, TornAppendKeepsType,
     UserKeepsType DEF Environment
<1>3. CASE UNCHANGED vars
  BY <1>3 DEF vars, TypeOK, hub
<1>. QED  BY <1>1, <1>2, <1>3 DEF Next

\* The state of a project is always well typed: every journal and every batch
\* held back is a sequence of well-formed operations, clocks and cursors are
\* natural numbers, folders and caches are over real paths.
THEOREM TypeCorrect == Spec => []TypeOK
<1>1. Init => TypeOK
  BY InitTyped
<1>2. TypeOK /\ [Next]_vars => TypeOK'
  BY NextTyped
<1>. QED  BY <1>1, <1>2, PTL DEF Spec

-----------------------------------------------------------------------------
(* Part 2.  Journals only grow, and only their authors write them.         *)

\* A prefix agrees element by element.
LEMMA PrefixByElements ==
  ASSUME NEW S, NEW s \in Seq(S), NEW t \in Seq(S)
  PROVE  IsPrefix(s, t) <=> Len(s) <= Len(t) /\ \A i \in 1..Len(s) : s[i] = t[i]
<1>1. Len(s) \in Nat /\ Len(t) \in Nat
  BY LenProperties
<1>2. \A i \in 1..Len(s) : s[i] \in S
  BY ElementOfSeq
<1>3. ASSUME Len(s) <= Len(t)
      PROVE  SubSeq(s, 1, Len(s)) = SubSeq(t, 1, Len(s)) <=> \A i \in 1..Len(s) : s[i] = t[i]
  <2>1. \A i \in 1..Len(s) : t[i] \in S
    BY <1>1, <1>3, ElementOfSeq
  <2>2. SubSeq(s, 1, Len(s)) = s
    BY SubSeqFull
  <2>3. /\ SubSeq(t, 1, Len(s)) \in Seq(S)
        /\ Len(SubSeq(t, 1, Len(s))) = Len(s)
        /\ \A i \in 1..Len(s) : SubSeq(t, 1, Len(s))[i] = t[i]
    BY <1>1, <2>1, SubSeqProperties
  <2>4. ASSUME \A i \in 1..Len(s) : s[i] = t[i]
        PROVE  s = SubSeq(t, 1, Len(s))
    BY <2>3, <2>4, SeqEqual
  <2>. QED  BY <2>2, <2>3, <2>4
<1>. QED  BY <1>3 DEF IsPrefix

\* A sequence is a prefix of itself.
LEMMA PrefixReflexive ==
  ASSUME NEW S, NEW s \in Seq(S)
  PROVE  IsPrefix(s, s)
BY PrefixByElements, LenProperties

\* A prefix of a prefix is a prefix.
LEMMA PrefixTransitive ==
  ASSUME NEW S, NEW s \in Seq(S), NEW t \in Seq(S), NEW u \in Seq(S),
         IsPrefix(s, t), IsPrefix(t, u)
  PROVE  IsPrefix(s, u)
<1>1. Len(s) \in Nat /\ Len(t) \in Nat /\ Len(u) \in Nat
  BY LenProperties
<1>2. Len(s) <= Len(t) /\ \A i \in 1..Len(s) : s[i] = t[i]
  BY PrefixByElements
<1>3. Len(t) <= Len(u) /\ \A i \in 1..Len(t) : t[i] = u[i]
  BY PrefixByElements
<1>4. Len(s) <= Len(u) /\ \A i \in 1..Len(s) : s[i] = u[i]
  BY <1>1, <1>2, <1>3
<1>. QED  BY <1>4, PrefixByElements

\* What one step may do to the journals: a device writes at the end of its own,
\* a pull replaces the copy of another's, a push replaces the hub's.
JournalStep ==
  \/ /\ \E d \in Devices, own \in Seq(Ops) :
          IsPrefix(jour[d][d], own) /\ jour' = [jour EXCEPT ![d][d] = own]
     /\ UNCHANGED hubJ
  \/ /\ \E d, e \in Devices :
          jour' = [jour EXCEPT ![d][e] = IF Len(hubJ[e]) > Len(@) THEN hubJ[e] ELSE @]
     /\ UNCHANGED hubJ
  \/ /\ \E d \in Devices : hubJ' = [hubJ EXCEPT ![d] = jour[d][d]]
     /\ UNCHANGED jour
  \/ UNCHANGED <<jour, hubJ>>

\* A commit is a journal step: only the author's own file grows.
LEMMA CommitIsJournalStep ==
  ASSUME TypeOK, NEW d \in Devices, NEW ops \in Seq(Ops), Commit(d, ops), UNCHANGED hubJ
  PROVE  JournalStep
<1>1. /\ AppendOps(jour[d][d], ops, torn[d]) \in Seq(Ops)
      /\ IsPrefix(jour[d][d], AppendOps(jour[d][d], ops, torn[d]))
  BY AppendOpsExtends DEF TypeOK
<1>2. jour' = [jour EXCEPT ![d][d] = AppendOps(jour[d][d], ops, torn[d])]
  BY DEF Commit
<1>. QED  BY <1>1, <1>2 DEF JournalStep

\* Every step of the system is one of those.
LEMMA NextIsJournalStep ==
  ASSUME TypeOK, [Next]_vars
  PROVE  JournalStep
<1>1. ASSUME NEW d \in Devices, Scan(d)
      PROVE  JournalStep
  <2>1. PICK lam \in Rederived(d), order \in Orders(Dirty(file[d], saved[d].cache)) :
          \/ UNCHANGED jour
          \/ Commit(d, ScanOps(d, order, file[d], lam, Len(jour[d][d])))
    BY <1>1 DEF Scan
  <2>2. UNCHANGED hubJ
    BY <1>1 DEF Scan, hub
  <2>. QED  BY <2>1, <2>2, ScanTyped, CommitIsJournalStep DEF JournalStep
<1>2. ASSUME NEW d \in Devices, NEW e \in Devices, PullJournal(d, e)
      PROVE  JournalStep
  BY <1>2 DEF PullJournal, JournalStep, hub
<1>3. ASSUME NEW d \in Devices, EndPull(d) \/ PullOffline(d) \/ PullForbidden(d)
      PROVE  JournalStep
  <2>1. mem[d].held \in Seq(Ops) /\ \A ops \in Adopted(d) : ops \in Seq(Ops)
    BY AdoptedAreOps DEF TypeOK, CycleType
  <2>2. \E ops \in Seq(Ops) : Commit(d, ops)
    BY <1>3, <2>1 DEF EndPull, PullOffline, PullForbidden, PullOver
  <2>3. UNCHANGED hubJ
    BY <1>3 DEF EndPull, PullOffline, PullForbidden, hub
  <2>. QED  BY <2>2, <2>3, CommitIsJournalStep
<1>4. ASSUME NEW d \in Devices, Resolve(d)
      PROVE  JournalStep
  <2>1. \E ops \in Seq(Ops) : Commit(d, ops)
    BY <1>4, ResolveCommits
  <2>. QED  BY <1>4, <2>1, CommitIsJournalStep DEF Resolve, hub
<1>5. ASSUME NEW d \in Devices, Write(d) \/ PushBlobs(d) \/ Finish(d) \/ Crash(d)
      PROVE  JournalStep
  BY <1>5 DEF Write, PushBlobs, Finish, Crash, JournalStep, hub
<1>6. ASSUME NEW d \in Devices, PushJournal(d) \/ PushFails(d)
      PROVE  JournalStep
  BY <1>6 DEF PushJournal, PushFails, JournalStep
<1>7. ASSUME NEW d \in Devices, TornAppend(d)
      PROVE  JournalStep
  <2>1. PICK ops \in Seq(Ops) : jour' = [jour EXCEPT ![d][d] = AppendOps(@, ops, torn[d])]
    BY <1>7, TornAppendAppends
  <2>2. /\ AppendOps(jour[d][d], ops, torn[d]) \in Seq(Ops)
        /\ IsPrefix(jour[d][d], AppendOps(jour[d][d], ops, torn[d]))
    BY AppendOpsExtends DEF TypeOK
  <2>. QED  BY <1>7, <2>1, <2>2 DEF TornAppend, JournalStep, hub
<1>8. ASSUME NEW d \in Devices,
             \/ \E n \in Names, l \in Lines : Edit(d, n, l)
             \/ \E p \in DOMAIN file[d] : Delete(d, p)
      PROVE  JournalStep
  BY <1>8 DEF Edit, Delete, JournalStep, hub
<1>9. CASE UNCHANGED vars
  BY <1>9 DEF vars, JournalStep
<1>. QED  BY <1>1, <1>2, <1>3, <1>4, <1>5, <1>6, <1>7, <1>8, <1>9 DEF Next, Step, Environment

\* The chain of prefixes survives every journal step.
LEMMA JournalStepKeepsChain ==
  ASSUME TypeOK, JournalChain, JournalStep
  PROVE  JournalChain'
<1>1. \A d, e \in Devices : jour[d][e] \in Seq(Ops) /\ hubJ[e] \in Seq(Ops)
  BY DEF TypeOK
<1>2. \A d, e \in Devices : Len(jour[d][e]) \in Nat /\ Len(hubJ[e]) \in Nat
  BY <1>1, LenProperties
<1>3. CASE /\ \E d \in Devices, own \in Seq(Ops) :
                IsPrefix(jour[d][d], own) /\ jour' = [jour EXCEPT ![d][d] = own]
           /\ UNCHANGED hubJ
  <2>1. PICK c \in Devices, own \in Seq(Ops) :
          IsPrefix(jour[c][c], own) /\ jour' = [jour EXCEPT ![c][c] = own]
    BY <1>3
  <2>2. \A d, e \in Devices : d # e => jour'[d][e] = jour[d][e]
    BY <2>1 DEF TypeOK
  <2>3. \A d \in Devices : jour'[d][d] = IF d = c THEN own ELSE jour[d][d]
    BY <2>1 DEF TypeOK
  <2>4. IsPrefix(hubJ[c], own)
    BY <1>1, <2>1, PrefixTransitive DEF JournalChain
  <2>. QED  BY <1>3, <2>2, <2>3, <2>4 DEF JournalChain
<1>4. CASE /\ \E d, e \in Devices :
                jour' = [jour EXCEPT ![d][e] = IF Len(hubJ[e]) > Len(@) THEN hubJ[e] ELSE @]
           /\ UNCHANGED hubJ
  <2>1. PICK a, b \in Devices :
          jour' = [jour EXCEPT ![a][b] = IF Len(hubJ[b]) > Len(@) THEN hubJ[b] ELSE @]
    BY <1>4
  <2>2. \A d, e \in Devices : ~(d = a /\ e = b) => jour'[d][e] = jour[d][e]
    BY <2>1 DEF TypeOK
  <2>3. jour'[a][b] = IF Len(hubJ[b]) > Len(jour[a][b]) THEN hubJ[b] ELSE jour[a][b]
    BY <2>1 DEF TypeOK
  <2>4. ASSUME a = b PROVE jour'[a][b] = jour[a][b]
    BY <1>2, <2>3, <2>4 DEF JournalChain, IsPrefix
  <2>5. IsPrefix(hubJ[b], hubJ[b])
    BY <1>1, PrefixReflexive
  <2>. QED  BY <1>4, <2>2, <2>3, <2>4, <2>5 DEF JournalChain
<1>5. CASE /\ \E d \in Devices : hubJ' = [hubJ EXCEPT ![d] = jour[d][d]]
           /\ UNCHANGED jour
  <2>1. PICK c \in Devices : hubJ' = [hubJ EXCEPT ![c] = jour[c][c]]
    BY <1>5
  <2>2. \A e \in Devices : hubJ'[e] = IF e = c THEN jour[c][c] ELSE hubJ[e]
    BY <2>1 DEF TypeOK
  <2>3. \A d \in Devices : d # c => IsPrefix(jour[d][c], jour[c][c])
    BY <1>1, PrefixTransitive DEF JournalChain
  <2>4. IsPrefix(jour[c][c], jour[c][c])
    BY <1>1, PrefixReflexive
  <2>. QED  BY <1>5, <2>2, <2>3, <2>4 DEF JournalChain
<1>6. CASE UNCHANGED <<jour, hubJ>>
  BY <1>6 DEF JournalChain
<1>. QED  BY <1>3, <1>4, <1>5, <1>6 DEF JournalStep

\* Whatever crashes, fails or tears, a peer's copy of a journal is a prefix of
\* the hub's, and the hub's of the author's own file: no journal forks.
THEOREM JournalsChain == Spec => []JournalChain
<1>1. Init => JournalChain
  <2>. SUFFICES ASSUME Init PROVE JournalChain
    OBVIOUS
  <2>1. IsPrefix(<<>>, <<>>)
    BY PrefixReflexive, EmptySeq
  <2>. QED  BY <2>1 DEF Init, JournalChain
<1>2. TypeOK /\ JournalChain /\ [Next]_vars => JournalChain'
  BY NextIsJournalStep, JournalStepKeepsChain
<1>. QED  BY <1>1, <1>2, TypeCorrect, PTL DEF Spec

-----------------------------------------------------------------------------
(* Part 3.  The cycle's journals are the replicated log they promise.      *)

\* Every journal step is a step of the abstract log, or a stutter.
LEMMA JournalStepIsLogStep ==
  ASSUME TypeOK, JournalChain, JournalStep
  PROVE  [Log!Next]_(Log!vars)
<1>. DEFINE own == [d \in Devices |-> jour[d][d]]
            copy == [d \in Devices |-> [e \in Devices \ {d} |-> jour[d][e]]]
<1>1. jour \in [Devices -> [Devices -> Seq(Ops)]] /\ hubJ \in [Devices -> Seq(Ops)]
  BY DEF TypeOK
<1>2. CASE /\ \E d \in Devices, o \in Seq(Ops) :
                IsPrefix(jour[d][d], o) /\ jour' = [jour EXCEPT ![d][d] = o]
           /\ UNCHANGED hubJ
  <2>1. PICK c \in Devices, o \in Seq(Ops) :
          IsPrefix(jour[c][c], o) /\ jour' = [jour EXCEPT ![c][c] = o]
    BY <1>2
  <2>2. \A d, e \in Devices : jour'[d][e] = IF d = c /\ e = c THEN o ELSE jour[d][e]
    BY <1>1, <2>1
  <2>3. own[c] = jour[c][c] /\ own'[c] = o /\ own' = [own EXCEPT ![c] = own'[c]]
    BY <2>2
  <2>4. copy' = copy
    BY <2>2
  <2>5. Log!Write(c)
    <3>1. own'[c] \in Seq(Ops) /\ Log!IsPrefix(own[c], own'[c])
      BY <2>1, <2>3 DEF IsPrefix, Log!IsPrefix
    <3>. QED  BY <1>2, <2>3, <2>4, <3>1, Zenon DEF Log!Write
  <2>. QED  BY <2>5 DEF Log!Next
<1>3. CASE /\ \E d, e \in Devices :
                jour' = [jour EXCEPT ![d][e] = IF Len(hubJ[e]) > Len(@) THEN hubJ[e] ELSE @]
           /\ UNCHANGED hubJ
  <2>1. PICK a, b \in Devices :
          jour' = [jour EXCEPT ![a][b] = IF Len(hubJ[b]) > Len(@) THEN hubJ[b] ELSE @]
    BY <1>3
  <2>2. \A d, e \in Devices : jour'[d][e] =
          IF d = a /\ e = b /\ Len(hubJ[b]) > Len(jour[a][b]) THEN hubJ[b] ELSE jour[d][e]
    BY <1>1, <2>1
  <2>3. CASE a = b \/ ~(Len(hubJ[b]) > Len(jour[a][b]))
    <3>1. ~(Len(hubJ[b]) > Len(jour[a][b]))
      <4>1. Len(hubJ[b]) \in Nat /\ Len(jour[a][b]) \in Nat
        BY <1>1, LenProperties
      <4>. QED  BY <2>3, <4>1 DEF JournalChain, IsPrefix
    <3>2. own' = own /\ copy' = copy
      BY <2>2, <3>1
    <3>. QED  BY <1>3, <3>2 DEF Log!vars
  <2>4. CASE a # b /\ Len(hubJ[b]) > Len(jour[a][b])
    <3>1. own' = own
      BY <2>2, <2>4
    <3>2. copy' = [copy EXCEPT ![a][b] = hubJ[b]]
      <4>1. [e \in Devices \ {a} |-> jour'[a][e]] = [copy[a] EXCEPT ![b] = hubJ[b]]
        BY <2>2, <2>4
      <4>2. \A d \in Devices \ {a} :
              [e \in Devices \ {d} |-> jour'[d][e]] = [e \in Devices \ {d} |-> jour[d][e]]
        BY <2>2
      <4>3. copy' = [d \in Devices |-> [e \in Devices \ {d} |-> jour'[d][e]]]
        OBVIOUS
      <4>. QED  BY <4>1, <4>2, <4>3
    <3>3. Log!Fetch(a, b)
      BY <1>3, <3>1, <3>2 DEF Log!Fetch
    <3>. QED  BY <2>4, <3>3 DEF Log!Next
  <2>. QED  BY <2>3, <2>4
<1>4. CASE /\ \E d \in Devices : hubJ' = [hubJ EXCEPT ![d] = jour[d][d]]
           /\ UNCHANGED jour
  BY <1>4 DEF Log!Next, Log!Publish
<1>5. CASE UNCHANGED <<jour, hubJ>>
  BY <1>5 DEF Log!vars
<1>. QED  BY <1>2, <1>3, <1>4, <1>5 DEF JournalStep

\* The sync cycle implements the replicated log: whatever it does to a journal
\* is its owner writing at the end, its owner publishing it whole, or a peer
\* fetching what the hub publishes.
THEOREM ImplementsReplicatedJournals == Spec => ReplicatesJournals
<1>1. Init => Log!Init
  BY DEF Init, Log!Init
<1>2. TypeOK /\ JournalChain /\ [Next]_vars => [Log!Next]_(Log!vars)
  BY NextIsJournalStep, JournalStepIsLogStep
<1>. QED  BY <1>1, <1>2, TypeCorrect, JournalsChain, PTL DEF Spec, ReplicatesJournals, Log!Spec

-----------------------------------------------------------------------------
(* Part 4.  A journaled edit orders after everything its device had seen.  *)

\* What a sequence holds beyond its first n elements.
LEMMA RangeOfRest ==
  ASSUME NEW S, NEW s \in Seq(S), NEW n \in Nat
  PROVE  Range(SubSeq(s, n + 1, Len(s))) = {s[i] : i \in n + 1 .. Len(s)}
<1>. DEFINE t == SubSeq(s, n + 1, Len(s))
<1>1. Len(s) \in Nat /\ \A i \in n + 1 .. Len(s) : s[i] \in S
  BY LenProperties, ElementOfSeq
<1>2. /\ t \in Seq(S)
      /\ Len(t) = IF n + 1 <= Len(s) THEN Len(s) - (n + 1) + 1 ELSE 0
      /\ \A i \in 1 .. Len(s) - (n + 1) + 1 : t[i] = s[n + 1 + i - 1]
  BY <1>1, SubSeqProperties
<1>3. DOMAIN t = 1..Len(t)
  BY <1>2, LenProperties
<1>. HIDE DEF t
<1>4. ASSUME NEW i \in DOMAIN t PROVE n + i \in n + 1 .. Len(s) /\ t[i] = s[n + i]
  <2>1. i \in 1 .. Len(s) - n
    BY <1>1, <1>2, <1>3
  <2>2. n + 1 + i - 1 = n + i /\ i \in 1 .. Len(s) - (n + 1) + 1
    BY <1>1, <2>1
  <2>3. t[i] = s[n + i]
    BY <1>2, <2>2
  <2>4. n + i \in n + 1 .. Len(s)
    BY <1>1, <2>1
  <2>. QED  BY <2>3, <2>4
<1>5. ASSUME NEW i \in n + 1 .. Len(s) PROVE i - n \in DOMAIN t /\ n + (i - n) = i
  BY <1>1, <1>2, <1>3
<1>6. \A i \in n + 1 .. Len(s) : s[i] \in Range(t)
  BY <1>4, <1>5 DEF Range
<1>7. \A x \in Range(t) : x \in {s[i] : i \in n + 1 .. Len(s)}
  BY <1>4 DEF Range
<1>8. Range(t) = {s[i] : i \in n + 1 .. Len(s)}
  BY <1>6, <1>7
<1>. QED  BY <1>8 DEF t

\* Beyond what the file held, an append adds operations of the batch only.
LEMMA AppendOpsAddsBatch ==
  ASSUME NEW own \in Seq(Ops), NEW ops \in Seq(Ops), NEW t \in BOOLEAN,
         NEW i \in 1..Len(AppendOps(own, ops, t))
  PROVE  IF i <= Len(own) THEN AppendOps(own, ops, t)[i] = own[i]
         ELSE AppendOps(own, ops, t)[i] \in Range(ops)
<1>1. Len(own) \in Nat
  BY LenProperties
<1>2. ASSUME NEW s \in Seq(Ops), Range(s) \subseteq Range(ops), NEW j \in 1..Len(own \o s)
      PROVE  IF j <= Len(own) THEN (own \o s)[j] = own[j] ELSE (own \o s)[j] \in Range(ops)
  <2>1. Len(s) \in Nat /\ DOMAIN s = 1..Len(s)
    BY LenProperties
  <2>2. /\ Len(own \o s) = Len(own) + Len(s)
        /\ \A k \in 1 .. Len(own) + Len(s) : (own \o s)[k] =
             IF k <= Len(own) THEN own[k] ELSE s[k - Len(own)]
    BY ConcatProperties
  <2>3. (own \o s)[j] = IF j <= Len(own) THEN own[j] ELSE s[j - Len(own)]
    BY <1>2, <2>2
  <2>4. ASSUME ~(j <= Len(own)) PROVE j - Len(own) \in DOMAIN s
    BY <1>1, <1>2, <2>1, <2>2, <2>4
  <2>. QED  BY <1>2, <2>3, <2>4 DEF Range
<1>3. CASE t /\ ops # <<>>
  <2>1. Tail(ops) \in Seq(Ops) /\ Range(Tail(ops)) \subseteq Range(ops)
    <3>1. /\ Tail(ops) \in Seq(Ops) /\ Len(Tail(ops)) = Len(ops) - 1
          /\ \A k \in 1..Len(Tail(ops)) : Tail(ops)[k] = ops[k + 1]
      BY <1>3, HeadTailProperties
    <3>2. /\ Len(ops) \in Nat /\ DOMAIN ops = 1..Len(ops)
          /\ DOMAIN Tail(ops) = 1..Len(Tail(ops))
      BY <3>1, LenProperties
    <3>3. \A k \in DOMAIN Tail(ops) : k + 1 \in DOMAIN ops
      BY <3>1, <3>2
    <3>. QED  BY <3>1, <3>2, <3>3 DEF Range
  <2>2. AppendOps(own, ops, t) = own \o Tail(ops)
    BY <1>3 DEF AppendOps
  <2>. DEFINE s == Tail(ops)
  <2>3. s \in Seq(Ops) /\ Range(s) \subseteq Range(ops) /\ i \in 1..Len(own \o s)
    BY <2>1, <2>2
  <2>. HIDE DEF s
  <2>4. IF i <= Len(own) THEN (own \o s)[i] = own[i] ELSE (own \o s)[i] \in Range(ops)
    BY <1>2, <2>3
  <2>. QED  BY <2>2, <2>4 DEF s
<1>4. CASE ~(t /\ ops # <<>>)
  <2>1. AppendOps(own, ops, t) = own \o ops
    BY <1>4 DEF AppendOps
  <2>. QED  BY <1>2, <2>1
<1>. QED  BY <1>3, <1>4

\* What an append adds to the operations a device holds.
LEMMA AppendAddsToAllOps ==
  ASSUME TypeOK, NEW d \in Devices, NEW ops \in Seq(Ops),
         jour' = [jour EXCEPT ![d][d] = AppendOps(@, ops, torn[d])]
  PROVE  /\ AllOps(d)' \subseteq AllOps(d) \union Range(ops)
         /\ \A i \in Len(jour[d][d]) + 1 .. Len(jour'[d][d]) : jour'[d][d][i] \in Range(ops)
<1>1. jour[d][d] \in Seq(Ops) /\ torn[d] \in BOOLEAN
  BY DEF TypeOK
<1>2. /\ jour'[d][d] = AppendOps(jour[d][d], ops, torn[d])
      /\ \A e \in Devices \ {d} : jour'[d][e] = jour[d][e]
  BY DEF TypeOK
<1>3. jour'[d][d] \in Seq(Ops)
  BY <1>1, <1>2, AppendOpsExtends
<1>4. /\ DOMAIN jour'[d][d] = 1..Len(jour'[d][d]) /\ Len(jour'[d][d]) \in Nat
      /\ DOMAIN jour[d][d] = 1..Len(jour[d][d]) /\ Len(jour[d][d]) \in Nat
  BY <1>1, <1>3, LenProperties
<1>5. \A i \in DOMAIN jour'[d][d] :
        IF i <= Len(jour[d][d]) THEN jour'[d][d][i] = jour[d][d][i]
        ELSE jour'[d][d][i] \in Range(ops)
  BY <1>1, <1>2, <1>4, AppendOpsAddsBatch
<1>6. Range(jour'[d][d]) \subseteq Range(jour[d][d]) \union Range(ops)
  BY <1>4, <1>5 DEF Range
<1>7. AllOps(d)' = UNION {Range(jour'[d][e]) : e \in Devices}
  BY DEF AllOps
<1>8. ASSUME NEW e \in Devices PROVE Range(jour'[d][e]) \subseteq AllOps(d) \union Range(ops)
  BY <1>2, <1>6 DEF AllOps
<1>9. AllOps(d)' \subseteq AllOps(d) \union Range(ops)
  BY <1>7, <1>8
<1>. QED  BY <1>4, <1>5, <1>9

\* A scan's operations dominate everything the device holds, and none exceeds
\* the clock the scan ends with.
LEMMA ScanDominates ==
  ASSUME TypeOK, NEW d \in Devices, NEW lam \in Rederived(d),
         NEW order \in Orders(Dirty(file[d], saved[d].cache)),
         NEW o \in Range(ScanOps(d, order, file[d], lam, Len(jour[d][d])))
  PROVE  /\ o.lam <= lam + Len(ScanOps(d, order, file[d], lam, Len(jour[d][d])))
         /\ \A x \in AllOps(d) : x.lam < o.lam
<1>. DEFINE ops == ScanOps(d, order, file[d], lam, Len(jour[d][d]))
<1>1. lam \in Nat /\ ops \in Seq(Ops) /\ Len(ops) \in Nat
  BY ScanTyped
<1>2. DOMAIN ops = 1..Len(ops)
  BY <1>1, LenProperties
<1>3. PICK i \in DOMAIN ops : o = ops[i]
  BY DEF Range
<1>4. o.lam = lam + i
  BY <1>3 DEF ScanOps
<1>5. \A x \in AllOps(d) : x.lam \in Nat /\ x.lam <= lam
  BY KnownAreOps DEF Rederived, Absorb, Ops, Op
<1>. HIDE DEF ops
<1>6. i \in 1..Len(ops)
  BY <1>2
<1>7. lam + i <= lam + Len(ops) /\ \A x \in AllOps(d) : x.lam < lam + i
  BY <1>1, <1>5, <1>6
<1>. QED  BY <1>4, <1>7 DEF ops

\* A step at one device touches no other device's journals or cycle.
LEMMA StepIsLocal ==
  ASSUME TypeOK, NEW c \in Devices, Step(c) \/ Environment(c), NEW d \in Devices, d # c
  PROVE  /\ mem'[d] = mem[d] /\ jour'[d] = jour[d]
         /\ torn'[d] = torn[d] /\ saved'[d] = saved[d] /\ hubJ'[d] = hubJ[d]
<1>1. d \in DOMAIN mem /\ d \in DOMAIN saved /\ d \in DOMAIN jour
      /\ d \in DOMAIN torn /\ d \in DOMAIN hubJ
  BY DEF TypeOK
<1>2. CASE Scan(c)
  BY <1>1, <1>2 DEF Scan, Commit, hub
<1>3. CASE \E e \in Devices : PullJournal(c, e)
  BY <1>1, <1>3 DEF PullJournal, hub
<1>4. CASE EndPull(c) \/ PullOffline(c) \/ PullForbidden(c)
  BY <1>1, <1>4 DEF EndPull, PullOffline, PullForbidden, PullOver, Commit, hub
<1>5. CASE Resolve(c)
  BY <1>1, <1>5 DEF Resolve, Commit, hub
<1>6. CASE Write(c)
  BY <1>1, <1>6 DEF Write, hub
<1>7. CASE PushBlobs(c) \/ PushJournal(c) \/ PushFails(c)
  BY <1>1, <1>7 DEF PushBlobs, PushJournal, PushFails
<1>8. CASE Finish(c) \/ Crash(c) \/ TornAppend(c)
  BY <1>1, <1>8 DEF Finish, Crash, TornAppend, hub
<1>9. CASE \/ \E n \in Names, l \in Lines : Edit(c, n, l)
           \/ \E p \in DOMAIN file[c] : Delete(c, p)
  BY <1>1, <1>9 DEF Edit, Delete, hub
<1>. QED  BY <1>2, <1>3, <1>4, <1>5, <1>6, <1>7, <1>8, <1>9 DEF Step, Environment

\* Why step 3 may number its copies from the cycle's clock: while the pull runs
\* that clock covers all that is not newly pulled, after it everything.
Covers(d) ==
  /\ mem[d].pc = "pull" =>
       /\ \A x \in AllOps(d) : x.lam <= mem[d].lam \/ x \in mem[d].pulled
       /\ \A o \in Range(mem[d].held) : o.lam <= mem[d].lam
  /\ mem[d].pc = "resolve" => \A x \in AllOps(d) : x.lam <= mem[d].lam

ClockCovers == \A d \in Devices : Covers(d)

\* After the scan the cycle's clock covers every operation in the volume.
LEMMA ScanCovers ==
  ASSUME TypeOK, NEW d \in Devices, Scan(d)
  PROVE  Covers(d)'
<1>1. PICK lam \in Rederived(d), order \in Orders(Dirty(file[d], saved[d].cache)) :
       LET own == jour[d][d]
           ops == ScanOps(d, order, file[d], lam, Len(own))
       IN  /\ blobs' = [blobs EXCEPT ![d] = @ \union ({o.blob : o \in Range(ops)} \ {Absent})]
           /\ \/ /\ Joining(d)
                 /\ mem' = [mem EXCEPT ![d] = Started(d, lam + Len(ops), own, ops)]
                 /\ UNCHANGED <<jour, torn>>
              \/ /\ ~Joining(d)
                 /\ mem' = [mem EXCEPT ![d] = Started(d, lam + Len(ops), own \o ops, <<>>)]
                 /\ Commit(d, ops)
  BY DEF Scan
<1>. DEFINE ops == ScanOps(d, order, file[d], lam, Len(jour[d][d]))
<1>2. lam \in Nat /\ ops \in Seq(Ops) /\ Len(ops) \in Nat
  BY ScanTyped
<1>3. \A o \in Range(ops) : o.lam <= lam + Len(ops)
  BY ScanDominates
<1>4. \A x \in AllOps(d) : x.lam <= lam + Len(ops)
  <2>1. \A x \in AllOps(d) : x.lam \in Nat /\ x.lam <= lam
    BY KnownAreOps DEF Rederived, Absorb, Ops, Op
  <2>. QED  BY <1>2, <2>1
<1>5. d \in DOMAIN mem
  BY DEF TypeOK
<1>. HIDE DEF ops
<1>6. CASE /\ mem' = [mem EXCEPT ![d] = Started(d, lam + Len(ops), jour[d][d], ops)]
           /\ UNCHANGED jour
  <2>1. mem'[d].pc = "pull" /\ mem'[d].lam = lam + Len(ops) /\ mem'[d].held = ops
    BY <1>5, <1>6 DEF Started
  <2>2. AllOps(d)' = AllOps(d)
    BY <1>6 DEF AllOps
  <2>. QED  BY <1>3, <1>4, <2>1, <2>2 DEF Covers
<1>7. CASE /\ mem' = [mem EXCEPT ![d] = Started(d, lam + Len(ops), jour[d][d] \o ops, <<>>)]
           /\ Commit(d, ops)
  <2>1. mem'[d].pc = "pull" /\ mem'[d].lam = lam + Len(ops) /\ mem'[d].held = <<>>
    BY <1>5, <1>7 DEF Started
  <2>2. AllOps(d)' \subseteq AllOps(d) \union Range(ops)
    BY <1>2, <1>7, AppendAddsToAllOps DEF Commit
  <2>3. Range(<<>>) = {}
    BY DEF Range
  <2>. QED  BY <1>3, <1>4, <2>1, <2>2, <2>3 DEF Covers
<1>. QED  BY <1>1, <1>6, <1>7 DEF ops

\* A fetched journal adds to the volume only what the cycle lists as pulled.
LEMMA PullJournalCovers ==
  ASSUME TypeOK, JournalChain, NEW d \in Devices, NEW e \in Devices, PullJournal(d, e), Covers(d)
  PROVE  Covers(d)'
<1>. DEFINE news == Range(SubSeq(hubJ[e], Len(jour[d][e]) + 1, Len(hubJ[e])))
<1>1. /\ mem[d].pc = "pull" /\ mem'[d].pc = "pull" /\ mem'[d].lam = mem[d].lam
      /\ mem'[d].held = mem[d].held /\ mem'[d].pulled = mem[d].pulled \union news
  BY DEF PullJournal, TypeOK, CycleType
<1>2. /\ jour[d][e] \in Seq(Ops) /\ hubJ[e] \in Seq(Ops)
      /\ Len(jour[d][e]) \in Nat /\ Len(hubJ[e]) \in Nat
  BY LenProperties DEF TypeOK
<1>3. Range(jour'[d][e]) \subseteq Range(jour[d][e]) \union news
  <2>1. CASE jour'[d][e] = jour[d][e]
    BY <2>1
  <2>2. CASE jour'[d][e] = hubJ[e] /\ Len(hubJ[e]) > Len(jour[d][e])
    <3>1. IsPrefix(jour[d][e], hubJ[e])
      <4>1. CASE d = e
        BY <1>2, <2>2, <4>1 DEF JournalChain, IsPrefix
      <4>2. CASE d # e
        BY <4>2 DEF JournalChain
      <4>. QED  BY <4>1, <4>2
    <3>2. \A i \in 1..Len(jour[d][e]) : hubJ[e][i] = jour[d][e][i]
      BY <1>2, <3>1, PrefixByElements
    <3>3. DOMAIN hubJ[e] = 1..Len(hubJ[e]) /\ DOMAIN jour[d][e] = 1..Len(jour[d][e])
      BY <1>2, LenProperties
    <3>4. news = {hubJ[e][i] : i \in Len(jour[d][e]) + 1 .. Len(hubJ[e])}
      BY <1>2, RangeOfRest
    <3>5. \A i \in 1..Len(hubJ[e]) : i \in 1..Len(jour[d][e]) \/ i \in Len(jour[d][e]) + 1 .. Len(hubJ[e])
      BY <1>2
    <3>. HIDE DEF news
    <3>. QED  BY <2>2, <3>2, <3>3, <3>4, <3>5 DEF Range
  <2>. QED  BY <2>1, <2>2 DEF PullJournal, TypeOK
<1>4. \A x \in Devices \ {e} : jour'[d][x] = jour[d][x]
  BY DEF PullJournal, TypeOK
<1>. HIDE DEF news
<1>5. \A x \in Devices : Range(jour'[d][x]) \subseteq AllOps(d) \union news
  BY <1>3, <1>4 DEF AllOps
<1>6. AllOps(d)' \subseteq AllOps(d) \union news
  <2>1. AllOps(d)' = UNION {Range(jour'[d][x]) : x \in Devices}
    BY DEF AllOps
  <2>. QED  BY <1>5, <2>1
<1>. QED  BY <1>1, <1>6 DEF Covers

\* Adoption demotes an operation or leaves it alone.
LEMMA AdoptLowers ==
  ASSUME NEW o \in Ops, NEW project
  PROVE  Adopt(o, project) \in Ops /\ Adopt(o, project).lam \in {0, o.lam}
<1>1. CASE \E w \in Greatest(project, o.path) : IsPut(w)
  <2>1. Adopt(o, project) = [o EXCEPT !.lam = 0, !.note = "adopt"]
    BY <1>1 DEF Adopt
  <2>2. [o EXCEPT !.lam = 0, !.note = "adopt"] \in Ops
    BY DEF Ops, Op, Notes
  <2>3. [o EXCEPT !.lam = 0, !.note = "adopt"].lam = 0
    BY DEF Ops, Op
  <2>. QED  BY <2>1, <2>2, <2>3, Zenon
<1>2. CASE ~(\E w \in Greatest(project, o.path) : IsPut(w))
  BY <1>2 DEF Adopt
<1>. QED  BY <1>1, <1>2

\* What adoption journals is no newer than the cycle's clock.
LEMMA AdoptedBelowClock ==
  ASSUME TypeOK, NEW d \in Devices, mem[d].pc = "pull", Covers(d), NEW ops \in Adopted(d)
  PROVE  /\ \A o \in Range(ops) : o.lam <= mem[d].lam
         /\ mem[d].held = <<>> => ops = <<>>
<1>. DEFINE m == mem[d]
            project == m.pulled \union (IF m.mount THEN AllOps(d) ELSE {})
            same(o) == IsPut(o) /\ \E w \in Greatest(project, o.path) : w.blob = o.blob
            kept == {i \in DOMAIN m.held : ~(m.mount /\ same(m.held[i]))}
<1>1. PICK order \in Ascending(kept) : ops =
        [i \in DOMAIN order |->
          [Adopt(m.held[order[i]], project) EXCEPT !.seq = Len(m.mine) + i]]
  BY DEF Adopted
<1>2. order \in Seq(kept)
  BY OrdersAreSequences DEF Ascending
<1>3. /\ Len(order) \in Nat /\ DOMAIN order = 1..Len(order)
      /\ \A i \in DOMAIN order : order[i] \in DOMAIN m.held
  BY <1>2, LenProperties, ElementOfSeq
<1>4. mem[d].lam \in Nat /\ m.held \in Seq(Ops)
  BY DEF TypeOK, CycleType
<1>5. \A j \in DOMAIN m.held : m.held[j] \in Ops /\ m.held[j].lam <= mem[d].lam
  <2>1. DOMAIN m.held = 1..Len(m.held)
    BY <1>4, LenProperties
  <2>. QED  BY <1>4, <2>1, ElementOfSeq DEF Covers, Range
<1>6. ASSUME NEW o \in Ops, o.lam <= mem[d].lam, NEW n \in Nat
      PROVE  [Adopt(o, project) EXCEPT !.seq = n].lam <= mem[d].lam
  <2>. HIDE DEF project
  <2>1. Adopt(o, project) \in Ops /\ Adopt(o, project).lam <= mem[d].lam
    BY <1>4, <1>6, AdoptLowers
  <2>2. [Adopt(o, project) EXCEPT !.seq = n].lam = Adopt(o, project).lam
    BY <2>1 DEF Ops, Op
  <2>. QED  BY <2>1, <2>2
<1>7. Len(m.mine) \in Nat
  BY LenProperties DEF TypeOK, CycleType
<1>8. \A i \in DOMAIN ops : ops[i].lam <= mem[d].lam
  <2>. SUFFICES ASSUME NEW i \in DOMAIN order
                PROVE  [Adopt(m.held[order[i]], project) EXCEPT !.seq = Len(m.mine) + i].lam <= mem[d].lam
    BY <1>1
  <2>1. order[i] \in DOMAIN m.held /\ Len(m.mine) + i \in Nat
    BY <1>3, <1>7
  <2>2. m.held[order[i]] \in Ops /\ m.held[order[i]].lam <= mem[d].lam
    BY <1>5, <2>1
  <2>. QED  BY <1>6, <2>1, <2>2
<1>9. ASSUME mem[d].held = <<>> PROVE ops = <<>>
  <2>1. DOMAIN m.held = {}
    BY <1>9
  <2>2. Len(order) = 0
    <3>1. ~(1 \in DOMAIN order)
      BY <1>3, <2>1
    <3>. QED  BY <1>3, <3>1
  <2>3. ops \in Seq(Ops) /\ DOMAIN ops = 1..Len(ops)
    BY AdoptedAreOps, LenProperties
  <2>4. DOMAIN ops = {}
    BY <1>1, <1>3, <2>2
  <2>5. Len(ops) = 0
    BY <2>3, <2>4, LenProperties
  <2>. QED  BY <2>3, <2>5, EmptySeq
<1>. QED  BY <1>8, <1>9 DEF Range

\* The end of the pull absorbs what was pulled: the clock covers the volume again.
LEMMA PullOverCovers ==
  ASSUME TypeOK, NEW d \in Devices, mem[d].pc = "pull", Covers(d),
         NEW ops \in Seq(Ops), \A o \in Range(ops) : o.lam <= mem[d].lam,
         NEW next \in {"resolve", "finish"}, NEW blocked, PullOver(d, ops, next, blocked)
  PROVE  Covers(d)'
<1>1. PICK lam \in Absorb(mem[d].lam, mem[d].pulled) : mem'[d].pc = next /\ mem'[d].lam = lam
  BY DEF PullOver, TypeOK, CycleType
<1>2. mem[d].lam \in Nat /\ mem[d].pulled \in SUBSET Ops /\ lam \in Nat
  BY AbsorbIsClock DEF TypeOK, CycleType
<1>3. mem[d].lam <= lam /\ \A o \in mem[d].pulled : o.lam <= lam
  BY DEF Absorb
<1>4. AllOps(d)' \subseteq AllOps(d) \union Range(ops)
  BY AppendAddsToAllOps DEF PullOver, Commit
<1>5. \A x \in AllOps(d) \union Range(ops) : x.lam \in Nat
  <2>1. Range(ops) \in SUBSET Ops /\ AllOps(d) \subseteq Ops
    BY KnownAreOps, RangeOfSeq
  <2>. QED  BY <2>1 DEF Ops, Op
<1>6. \A x \in AllOps(d) : x.lam <= lam
  BY <1>2, <1>3, <1>5 DEF Covers
<1>7. \A x \in Range(ops) : x.lam <= lam
  BY <1>2, <1>3, <1>5
<1>. QED  BY <1>1, <1>4, <1>6, <1>7 DEF Covers

\* Steps that leave the device with nothing to cover, or with what it had.
LEMMA OtherStepsCover ==
  ASSUME TypeOK, NEW d \in Devices, Covers(d),
         \/ Resolve(d) \/ Write(d) \/ PushBlobs(d) \/ PushJournal(d) \/ PushFails(d)
         \/ Finish(d) \/ Crash(d) \/ TornAppend(d)
         \/ \E n \in Names, l \in Lines : Edit(d, n, l)
         \/ \E p \in DOMAIN file[d] : Delete(d, p)
  PROVE  Covers(d)'
<1>1. d \in DOMAIN mem /\ CycleType(mem[d])
  BY DEF TypeOK
<1>2. CASE Resolve(d) \/ Write(d) \/ PushBlobs(d) \/ PushJournal(d) \/ PushFails(d)
  <2>1. CASE Resolve(d)
    <3>1. PICK ops : mem' = [mem EXCEPT ![d].pc = "write", ![d].mine = @ \o ops, ![d].lam = @ + Len(ops)]
      BY <2>1, ResolveCommits
    <3>2. mem'[d].pc = "write"
      BY <1>1, <3>1 DEF CycleType
    <3>. QED  BY <3>2 DEF Covers
  <2>2. CASE Write(d)
    <3>1. PICK c : mem' = [mem EXCEPT ![d].pc = "blobs", ![d].cache = c]
      BY <2>2 DEF Write
    <3>2. mem'[d].pc = "blobs"
      BY <1>1, <3>1 DEF CycleType
    <3>. QED  BY <3>2 DEF Covers
  <2>3. CASE PushBlobs(d) \/ PushJournal(d) \/ PushFails(d)
    BY <1>1, <2>3 DEF PushBlobs, PushJournal, PushFails, Covers, CycleType
  <2>. QED  BY <1>2, <2>1, <2>2, <2>3
<1>3. CASE Finish(d) \/ Crash(d) \/ TornAppend(d)
  <2>1. mem'[d].pc = "idle"
    BY <1>1, <1>3 DEF Finish, Crash, TornAppend, Idle
  <2>. QED  BY <2>1 DEF Covers
<1>4. CASE \/ \E n \in Names, l \in Lines : Edit(d, n, l)
           \/ \E p \in DOMAIN file[d] : Delete(d, p)
  <2>1. PICK p : mem' = [mem EXCEPT ![d].cache = Stale(@, {p})]
    BY <1>4 DEF Edit, Delete
  <2>2. /\ mem'[d].pc = mem[d].pc /\ mem'[d].lam = mem[d].lam
        /\ mem'[d].pulled = mem[d].pulled /\ mem'[d].held = mem[d].held
    BY <1>1, <2>1 DEF CycleType
  <2>3. UNCHANGED jour
    BY <1>4 DEF Edit, Delete
  <2>4. AllOps(d)' = AllOps(d)
    BY <2>3 DEF AllOps
  <2>. QED  BY <2>2, <2>4 DEF Covers
<1>. QED  BY <1>2, <1>3, <1>4

\* Every step keeps the clock of every running cycle covering its volume.
LEMMA NextKeepsClockCovers ==
  ASSUME TypeOK, JournalChain, ClockCovers, [Next]_vars
  PROVE  ClockCovers'
<1>. SUFFICES ASSUME NEW d \in Devices PROVE Covers(d)'
  BY DEF ClockCovers
<1>1. Covers(d)
  BY DEF ClockCovers
<1>2. CASE UNCHANGED vars
  <2>1. AllOps(d)' = AllOps(d)
    BY <1>2 DEF vars, AllOps
  <2>. QED  BY <1>1, <1>2, <2>1 DEF vars, Covers
<1>3. ASSUME NEW c \in Devices, Step(c) \/ Environment(c), c # d
      PROVE  Covers(d)'
  <2>1. mem'[d] = mem[d] /\ jour'[d] = jour[d]
    BY <1>3, StepIsLocal
  <2>2. AllOps(d)' = AllOps(d)
    BY <2>1 DEF AllOps
  <2>. QED  BY <1>1, <2>1, <2>2 DEF Covers
<1>4. ASSUME Step(d) \/ Environment(d)
      PROVE  Covers(d)'
  <2>1. CASE Scan(d)
    BY <2>1, ScanCovers
  <2>2. CASE \E e \in Devices : PullJournal(d, e)
    BY <1>1, <2>2, PullJournalCovers
  <2>3. CASE EndPull(d) \/ PullOffline(d)
    <3>1. PICK ops \in Adopted(d), blocked \in BOOLEAN : PullOver(d, ops, "resolve", blocked)
      BY <2>3 DEF EndPull, PullOffline
    <3>2. mem[d].pc = "pull"
      BY <3>1 DEF PullOver
    <3>3. ops \in Seq(Ops) /\ \A o \in Range(ops) : o.lam <= mem[d].lam
      BY <1>1, <3>2, AdoptedAreOps, AdoptedBelowClock
    <3>. QED  BY <1>1, <3>1, <3>2, <3>3, PullOverCovers
  <2>4. CASE PullForbidden(d)
    <3>1. mem[d].pc = "pull" /\ PullOver(d, mem[d].held, "finish", TRUE)
      BY <2>4 DEF PullForbidden, PullOver
    <3>2. mem[d].held \in Seq(Ops) /\ \A o \in Range(mem[d].held) : o.lam <= mem[d].lam
      BY <1>1, <3>1 DEF TypeOK, CycleType, Covers
    <3>. QED  BY <1>1, <3>1, <3>2, PullOverCovers
  <2>5. CASE \/ Resolve(d) \/ Write(d) \/ PushBlobs(d) \/ PushJournal(d) \/ PushFails(d)
             \/ Finish(d) \/ Crash(d) \/ TornAppend(d)
             \/ \E n \in Names, l \in Lines : Edit(d, n, l)
             \/ \E p \in DOMAIN file[d] : Delete(d, p)
    BY <1>1, <2>5, OtherStepsCover
  <2>. QED  BY <1>4, <2>1, <2>2, <2>3, <2>4, <2>5 DEF Step, Environment
<1>. QED  BY <1>2, <1>3, <1>4 DEF Next

\* Hence whatever a step journals outside joining is above the whole volume.
LEMMA NextDominates ==
  ASSUME TypeOK, JournalChain, ClockCovers, Next, NEW d \in Devices, mem[d].held = <<>>,
         NEW i \in Len(jour[d][d]) + 1 .. Len(jour'[d][d]), NEW x \in AllOps(d)
  PROVE  x.lam < jour'[d][d][i].lam
<1>1. jour[d][d] \in Seq(Ops) /\ Len(jour[d][d]) \in Nat /\ mem[d].lam \in Nat
  BY LenProperties DEF TypeOK, CycleType
<1>2. jour'[d][d] # jour[d][d]
  BY <1>1
<1>3. x.lam \in Nat
  BY KnownAreOps DEF Ops, Op
<1>4. Step(d) \/ Environment(d)
  BY <1>2, StepIsLocal DEF Next
<1>5. CASE Scan(d)
  <2>1. PICK lam \in Rederived(d), order \in Orders(Dirty(file[d], saved[d].cache)) :
          \/ UNCHANGED jour
          \/ Commit(d, ScanOps(d, order, file[d], lam, Len(jour[d][d])))
    BY <1>5 DEF Scan
  <2>2. Commit(d, ScanOps(d, order, file[d], lam, Len(jour[d][d])))
    BY <1>2, <2>1
  <2>3. jour'[d][d][i] \in Range(ScanOps(d, order, file[d], lam, Len(jour[d][d])))
    BY <2>2, ScanTyped, AppendAddsToAllOps DEF Commit
  <2>. QED  BY <2>3, ScanDominates
<1>6. ASSUME NEW e \in Devices, PullJournal(d, e) PROVE FALSE
  <2>1. jour'[d][d] = IF e = d /\ Len(hubJ[d]) > Len(jour[d][d]) THEN hubJ[d] ELSE jour[d][d]
    BY <1>6 DEF PullJournal, TypeOK
  <2>2. Len(hubJ[d]) \in Nat /\ Len(hubJ[d]) <= Len(jour[d][d])
    BY LenProperties DEF TypeOK, JournalChain, IsPrefix
  <2>. QED  BY <1>1, <1>2, <2>1, <2>2
<1>7. CASE EndPull(d) \/ PullOffline(d) \/ PullForbidden(d)
  <2>1. mem[d].pc = "pull" /\ Covers(d)
    BY <1>7 DEF EndPull, PullOffline, PullForbidden, PullOver, ClockCovers
  <2>2. \A ops \in Adopted(d) : ops = <<>>
    BY <2>1, AdoptedBelowClock
  <2>3. Commit(d, <<>>)
    BY <1>7, <2>2 DEF EndPull, PullOffline, PullForbidden, PullOver
  <2>4. jour'[d][d][i] \in Range(<<>>)
    BY <2>3, EmptySeq, AppendAddsToAllOps DEF Commit
  <2>. QED  BY <2>4 DEF Range
<1>8. CASE Resolve(d)
  <2>1. PICK ops \in Seq(Ops) : Commit(d, ops) /\ \A o \in Range(ops) : mem[d].lam < o.lam
    BY <1>8, ResolveCommits
  <2>2. jour'[d][d][i] \in Range(ops)
    BY <2>1, AppendAddsToAllOps DEF Commit
  <2>3. mem[d].lam < jour'[d][d][i].lam /\ jour'[d][d][i].lam \in Nat
    <3>1. jour'[d][d][i] \in Ops
      BY <2>2, RangeOfSeq
    <3>. QED  BY <2>1, <2>2, <3>1 DEF Ops, Op
  <2>4. x.lam <= mem[d].lam
    BY <1>8 DEF Resolve, ClockCovers, Covers
  <2>. QED  BY <1>1, <1>3, <2>3, <2>4
<1>9. CASE TornAppend(d)
  <2>1. PICK ops \in Seq(Ops), lam \in Rederived(d),
             order \in Orders(Dirty(file[d], saved[d].cache)) :
          /\ Range(ops) \subseteq Range(ScanOps(d, order, file[d], lam, Len(jour[d][d])))
          /\ jour' = [jour EXCEPT ![d][d] = AppendOps(@, ops, torn[d])]
    BY <1>9, TornAppendAppends
  <2>2. jour'[d][d][i] \in Range(ScanOps(d, order, file[d], lam, Len(jour[d][d])))
    BY <2>1, AppendAddsToAllOps
  <2>. QED  BY <2>2, ScanDominates
<1>10. ~(\/ Write(d) \/ PushBlobs(d) \/ PushJournal(d) \/ PushFails(d) \/ Finish(d) \/ Crash(d)
         \/ \E n \in Names, l \in Lines : Edit(d, n, l)
         \/ \E p \in DOMAIN file[d] : Delete(d, p))
  BY <1>2 DEF Write, PushBlobs, PushJournal, PushFails, Finish, Crash, Edit, Delete
<1>. QED  BY <1>4, <1>5, <1>6, <1>7, <1>8, <1>9, <1>10 DEF Step, Environment

\* No cycle runs in the initial states.
LEMMA InitClockCovers == Init => ClockCovers
BY DEF Init, ClockCovers, Covers, Idle

\* What a device journals orders after every operation it had, its own and its
\* peers', whatever the clocks, the crashes and the pulls in between: a save is
\* never ranked below what it replaced, adoption on joining apart.
THEOREM EditsDominate == Spec => ClockDominates
<1>1. TypeOK /\ JournalChain /\ ClockCovers /\ [Next]_vars => ClockCovers'
  BY NextKeepsClockCovers
<1>2. TypeOK /\ JournalChain /\ ClockCovers /\ [Next]_vars =>
        [\A d \in Devices : mem[d].held = <<>> =>
           \A i \in Len(jour[d][d]) + 1 .. Len(jour'[d][d]) :
             \A x \in AllOps(d) : x.lam < jour'[d][d][i].lam]_vars
  BY NextDominates
<1>. QED  BY <1>1, <1>2, InitClockCovers, TypeCorrect, JournalsChain, PTL DEF Spec, ClockDominates

-----------------------------------------------------------------------------
(* Part 5.  The cursor and the push order, while no append is torn.        *)

\* Why a push may trust its cursor: outside a torn append the journal in memory
\* is the file, and before the journal goes up what it names is on the hub.
Whole(d) ==
  /\ ~torn[d]
  /\ mem[d].pc # "idle" => mem[d].mine = jour[d][d]
  /\ mem[d].pc = "journal" => Outgoing(d) \subseteq hubB

PushReady == \A d \in Devices : Whole(d)

\* Without torn lines a commit is plain concatenation.
LEMMA CommitIsConcat ==
  ASSUME TypeOK, NEW d \in Devices, NEW ops \in Seq(Ops), Commit(d, ops), ~torn[d]
  PROVE  ~torn'[d] /\ jour'[d][d] = jour[d][d] \o ops
BY DEF Commit, AppendOps, TypeOK

\* The hub never loses a blob.
LEMMA HubBlobsStay ==
  ASSUME [Next]_vars
  PROVE  hubB \subseteq hubB'
<1>1. ASSUME NEW d \in Devices, Step(d) PROVE hubB \subseteq hubB'
  BY <1>1 DEF Step, Scan, PullJournal, EndPull, Resolve, Write, PushBlobs, PushJournal, Finish, hub
<1>2. ASSUME NEW d \in Devices, Environment(d) PROVE hubB \subseteq hubB'
  BY <1>2 DEF Environment, PullOffline, PullForbidden, PushFails, Crash, TornAppend, Edit, Delete, hub
<1>. QED  BY <1>1, <1>2 DEF Next, vars

\* The hub's journals never get shorter.
LEMMA HubJournalsGrow ==
  ASSUME TypeOK, JournalChain, JournalStep, NEW d \in Devices
  PROVE  /\ Len(hubJ[d]) \in Nat /\ Len(hubJ'[d]) \in Nat
         /\ Len(hubJ[d]) <= Len(hubJ'[d])
<1>1. Len(hubJ[d]) \in Nat /\ Len(jour[d][d]) \in Nat
  BY LenProperties DEF TypeOK
<1>2. hubJ'[d] = hubJ[d] \/ hubJ'[d] = jour[d][d]
  BY DEF JournalStep, TypeOK
<1>3. Len(hubJ[d]) <= Len(jour[d][d])
  BY DEF JournalChain, IsPrefix
<1>. QED  BY <1>1, <1>2, <1>3

\* From idle to write, what a cycle holds is still the whole of its journal file.
LEMMA EarlyStepsStayWhole ==
  ASSUME TypeOK, JournalChain, NEW d \in Devices, Whole(d),
         \/ Scan(d) \/ EndPull(d) \/ PullOffline(d) \/ PullForbidden(d) \/ Resolve(d)
         \/ \E e \in Devices : PullJournal(d, e)
  PROVE  Whole(d)'
<1>1. d \in DOMAIN mem /\ CycleType(mem[d])
  BY DEF TypeOK
<1>2. CASE Scan(d)
  <2>1. PICK lam \in Rederived(d), order \in Orders(Dirty(file[d], saved[d].cache)) :
       LET own == jour[d][d]
           ops == ScanOps(d, order, file[d], lam, Len(own))
       IN  /\ blobs' = [blobs EXCEPT ![d] = @ \union ({o.blob : o \in Range(ops)} \ {Absent})]
           /\ \/ /\ Joining(d)
                 /\ mem' = [mem EXCEPT ![d] = Started(d, lam + Len(ops), own, ops)]
                 /\ UNCHANGED <<jour, torn>>
              \/ /\ ~Joining(d)
                 /\ mem' = [mem EXCEPT ![d] = Started(d, lam + Len(ops), own \o ops, <<>>)]
                 /\ Commit(d, ops)
    BY <1>2 DEF Scan
  <2>. DEFINE ops == ScanOps(d, order, file[d], lam, Len(jour[d][d]))
  <2>2. ops \in Seq(Ops)
    BY ScanTyped
  <2>. HIDE DEF ops
  <2>3. CASE mem' = [mem EXCEPT ![d] = Started(d, lam + Len(ops), jour[d][d], ops)]
             /\ UNCHANGED <<jour, torn>>
    BY <1>1, <2>3 DEF Whole, Started
  <2>4. CASE mem' = [mem EXCEPT ![d] = Started(d, lam + Len(ops), jour[d][d] \o ops, <<>>)]
             /\ Commit(d, ops)
    <3>1. ~torn'[d] /\ jour'[d][d] = jour[d][d] \o ops
      BY <2>2, <2>4, CommitIsConcat DEF Whole
    <3>2. mem'[d].pc = "pull" /\ mem'[d].mine = jour[d][d] \o ops
      BY <1>1, <2>4 DEF Started
    <3>. QED  BY <3>1, <3>2 DEF Whole
  <2>. QED  BY <2>1, <2>3, <2>4 DEF ops
<1>3. CASE EndPull(d) \/ PullOffline(d) \/ PullForbidden(d)
  <2>1. mem[d].held \in Seq(Ops) /\ \A ops \in Adopted(d) : ops \in Seq(Ops)
    BY AdoptedAreOps DEF TypeOK, CycleType
  <2>2. PICK ops \in Seq(Ops), next \in {"resolve", "finish"}, blocked \in BOOLEAN :
          PullOver(d, ops, next, blocked)
    BY <1>3, <2>1 DEF EndPull, PullOffline, PullForbidden
  <2>3. ~torn'[d] /\ jour'[d][d] = jour[d][d] \o ops
    BY <2>2, CommitIsConcat DEF PullOver, Whole
  <2>4. PICK lam : mem' = [mem EXCEPT ![d].pc = next, ![d].lam = lam, ![d].mine = @ \o ops,
                          ![d].held = <<>>, ![d].blocked = blocked,
                          ![d].tried = IF blocked THEN {} ELSE Wanted(d)]
    BY <2>2 DEF PullOver
  <2>5. mem'[d].pc = next /\ mem'[d].mine = mem[d].mine \o ops
    BY <1>1, <2>4 DEF CycleType
  <2>6. mem[d].mine = jour[d][d]
    BY <2>2 DEF PullOver, Whole
  <2>. QED  BY <2>2, <2>3, <2>5, <2>6 DEF Whole
<1>4. CASE Resolve(d)
  <2>1. PICK ops \in Seq(Ops) :
          /\ mem' = [mem EXCEPT ![d].pc = "write", ![d].mine = @ \o ops, ![d].lam = @ + Len(ops)]
          /\ Commit(d, ops)
    BY <1>4, ResolveCommits
  <2>2. ~torn'[d] /\ jour'[d][d] = jour[d][d] \o ops
    BY <2>1, CommitIsConcat DEF Whole
  <2>3. mem'[d].pc = "write" /\ mem'[d].mine = mem[d].mine \o ops
    BY <1>1, <2>1 DEF CycleType
  <2>4. mem[d].mine = jour[d][d]
    BY <1>4 DEF Resolve, Whole
  <2>. QED  BY <2>2, <2>3, <2>4 DEF Whole
<1>5. ASSUME NEW e \in Devices, PullJournal(d, e) PROVE Whole(d)'
  <2>1. jour'[d][d] = IF e = d /\ Len(hubJ[d]) > Len(jour[d][d]) THEN hubJ[d] ELSE jour[d][d]
    BY <1>5 DEF PullJournal, TypeOK
  <2>2. /\ Len(hubJ[d]) \in Nat /\ Len(jour[d][d]) \in Nat
        /\ Len(hubJ[d]) <= Len(jour[d][d])
    BY LenProperties DEF TypeOK, JournalChain, IsPrefix
  <2>3. jour'[d][d] = jour[d][d]
    BY <2>1, <2>2
  <2>4. mem[d].pc = "pull" /\ mem'[d].pc = "pull" /\ mem'[d].mine = mem[d].mine /\ torn' = torn
    BY <1>1, <1>5 DEF PullJournal, CycleType
  <2>. QED  BY <2>3, <2>4 DEF Whole
<1>. QED  BY <1>2, <1>3, <1>4, <1>5

\* And so it stays while it pushes and saves.
LEMMA LateStepsStayWhole ==
  ASSUME TypeOK, NEW d \in Devices, Whole(d),
         \/ Write(d) \/ PushBlobs(d) \/ PushJournal(d) \/ PushFails(d) \/ Finish(d) \/ Crash(d)
         \/ \E n \in Names, l \in Lines : Edit(d, n, l)
         \/ \E p \in DOMAIN file[d] : Delete(d, p)
  PROVE  Whole(d)'
<1>1. d \in DOMAIN mem /\ CycleType(mem[d])
  BY DEF TypeOK
<1>2. CASE Write(d)
  <2>1. PICK c : mem' = [mem EXCEPT ![d].pc = "blobs", ![d].cache = c]
    BY <1>2 DEF Write
  <2>2. mem'[d].pc = "blobs" /\ mem'[d].mine = mem[d].mine
    BY <1>1, <2>1 DEF CycleType
  <2>. QED  BY <1>2, <2>2 DEF Write, Whole
<1>3. CASE PushBlobs(d)
  <2>1. mem'[d].mine = mem[d].mine /\ mem'[d].pushed = mem[d].pushed
    BY <1>1, <1>3 DEF PushBlobs, CycleType
  <2>2. \/ mem'[d].pc = "finish"
        \/ mem'[d].pc = "journal" /\ hubB' = hubB \union Outgoing(d)
    <3>1. ASSUME NEW pc, mem' = [mem EXCEPT ![d].pc = pc] PROVE mem'[d].pc = pc
      BY <1>1, <3>1 DEF CycleType
    <3>. QED  BY <1>3, <3>1 DEF PushBlobs
  <2>3. Outgoing(d)' = Outgoing(d)
    BY <2>1 DEF Outgoing
  <2>. QED  BY <1>3, <2>1, <2>2, <2>3 DEF PushBlobs, Whole
<1>4. CASE PushJournal(d) \/ PushFails(d)
  <2>1. mem'[d].pc = "finish" /\ mem'[d].mine = mem[d].mine
    BY <1>1, <1>4 DEF PushJournal, PushFails, CycleType
  <2>2. mem[d].pc # "idle" /\ UNCHANGED <<jour, torn>>
    BY <1>4 DEF PushJournal, PushFails
  <2>. QED  BY <2>1, <2>2 DEF Whole
<1>5. CASE Finish(d) \/ Crash(d)
  <2>1. mem'[d].pc = "idle"
    BY <1>1, <1>5 DEF Finish, Crash, Idle
  <2>. QED  BY <1>5, <2>1 DEF Finish, Crash, Whole
<1>6. CASE \/ \E n \in Names, l \in Lines : Edit(d, n, l)
           \/ \E p \in DOMAIN file[d] : Delete(d, p)
  <2>1. PICK p : mem' = [mem EXCEPT ![d].cache = Stale(@, {p})]
    BY <1>6 DEF Edit, Delete
  <2>2. /\ mem'[d].pc = mem[d].pc /\ mem'[d].mine = mem[d].mine
        /\ mem'[d].pushed = mem[d].pushed
    BY <1>1, <2>1 DEF CycleType
  <2>3. UNCHANGED <<jour, torn, hubB>>
    BY <1>6 DEF Edit, Delete, hub
  <2>4. Outgoing(d)' = Outgoing(d)
    BY <2>2 DEF Outgoing
  <2>. QED  BY <2>2, <2>3, <2>4 DEF Whole
<1>. QED  BY <1>2, <1>3, <1>4, <1>5, <1>6

\* Every step keeps memory and file in agreement, and uploads before it publishes.
LEMMA NextKeepsPushReady ==
  ASSUME ~MayTear, TypeOK, JournalChain, PushReady, [Next]_vars
  PROVE  PushReady'
<1>. SUFFICES ASSUME NEW d \in Devices PROVE Whole(d)'
  BY DEF PushReady
<1>1. Whole(d)
  BY DEF PushReady
<1>2. CASE UNCHANGED vars
  <2>1. Outgoing(d)' = Outgoing(d)
    BY <1>2 DEF vars, Outgoing
  <2>. QED  BY <1>1, <1>2, <2>1 DEF vars, hub, Whole
<1>3. ASSUME NEW c \in Devices, Step(c) \/ Environment(c), c # d
      PROVE  Whole(d)'
  <2>1. mem'[d] = mem[d] /\ jour'[d] = jour[d] /\ torn'[d] = torn[d]
    BY <1>3, StepIsLocal
  <2>2. Outgoing(d)' = Outgoing(d) /\ hubB \subseteq hubB'
    BY <2>1, HubBlobsStay DEF Outgoing
  <2>. QED  BY <1>1, <2>1, <2>2 DEF Whole
<1>4. ASSUME Step(d) \/ Environment(d)
      PROVE  Whole(d)'
  BY <1>1, <1>4, EarlyStepsStayWhole, LateStepsStayWhole DEF Step, Environment, TornAppend
<1>. QED  BY <1>2, <1>3, <1>4 DEF Next

\* The cursor moves only to what the hub was just given.
LEMMA NextKeepsCursor ==
  ASSUME TypeOK, JournalChain, PushReady, CursorHonest, [Next]_vars
  PROVE  CursorHonest'
<1>1. JournalStep
  BY NextIsJournalStep
<1>. SUFFICES ASSUME NEW d \in Devices
              PROVE  saved'[d].pushed <= Len(hubJ'[d]) /\ mem'[d].pushed <= Len(hubJ'[d])
  BY DEF CursorHonest
<1>2. /\ Len(hubJ[d]) \in Nat /\ Len(hubJ'[d]) \in Nat
      /\ Len(hubJ[d]) <= Len(hubJ'[d])
  BY <1>1, HubJournalsGrow
<1>3. /\ saved[d].pushed \in Nat /\ mem[d].pushed \in Nat
      /\ saved[d].pushed <= Len(hubJ[d]) /\ mem[d].pushed <= Len(hubJ[d])
  BY DEF CursorHonest, TypeOK, SavedType, CycleType
<1>4. ASSUME /\ saved'[d].pushed \in {saved[d].pushed, mem[d].pushed}
             /\ mem'[d].pushed \in {0, saved[d].pushed, mem[d].pushed}
      PROVE  saved'[d].pushed <= Len(hubJ'[d]) /\ mem'[d].pushed <= Len(hubJ'[d])
  BY <1>2, <1>3, <1>4
<1>5. d \in DOMAIN mem /\ d \in DOMAIN saved /\ CycleType(mem[d]) /\ SavedType(saved[d])
  BY DEF TypeOK
<1>6. ASSUME NEW c \in Devices, Step(c) \/ Environment(c), c # d
      PROVE  saved'[d].pushed <= Len(hubJ'[d]) /\ mem'[d].pushed <= Len(hubJ'[d])
  <2>1. mem'[d] = mem[d] /\ saved'[d] = saved[d]
    BY <1>6, StepIsLocal
  <2>. QED  BY <1>4, <2>1
<1>7. CASE Scan(d)
  <2>1. PICK lam, mine, held : mem' = [mem EXCEPT ![d] = Started(d, lam, mine, held)]
    BY <1>7 DEF Scan
  <2>2. mem'[d].pushed = saved[d].pushed
    BY <1>5, <2>1 DEF Started
  <2>. QED  BY <1>4, <1>7, <2>2 DEF Scan
<1>8. CASE EndPull(d) \/ PullOffline(d) \/ PullForbidden(d)
  <2>1. PICK ops, next, blocked : PullOver(d, ops, next, blocked)
    BY <1>8 DEF EndPull, PullOffline, PullForbidden
  <2>2. mem'[d].pushed = mem[d].pushed
    <3>1. PICK lam : mem' = [mem EXCEPT ![d].pc = next, ![d].lam = lam, ![d].mine = @ \o ops,
                            ![d].held = <<>>, ![d].blocked = blocked,
                            ![d].tried = IF blocked THEN {} ELSE Wanted(d)]
      BY <2>1 DEF PullOver
    <3>. QED  BY <1>5, <3>1 DEF CycleType
  <2>. QED  BY <1>4, <1>8, <2>2 DEF EndPull, PullOffline, PullForbidden
<1>9. CASE Resolve(d)
  <2>1. PICK ops : mem' = [mem EXCEPT ![d].pc = "write", ![d].mine = @ \o ops, ![d].lam = @ + Len(ops)]
    BY <1>9, ResolveCommits
  <2>2. mem'[d].pushed = mem[d].pushed
    BY <1>5, <2>1 DEF CycleType
  <2>. QED  BY <1>4, <1>9, <2>2 DEF Resolve
<1>10. CASE Write(d)
  <2>1. PICK c, s : mem' = [mem EXCEPT ![d].pc = "blobs", ![d].cache = c]
                    /\ saved' = [saved EXCEPT ![d].cache = s]
    BY <1>10 DEF Write
  <2>2. mem'[d].pushed = mem[d].pushed /\ saved'[d].pushed = saved[d].pushed
    BY <1>5, <2>1 DEF CycleType, SavedType
  <2>. QED  BY <1>4, <2>2
<1>11. CASE PushJournal(d)
  <2>1. mem'[d].pushed = Len(mem[d].mine)
    BY <1>5, <1>11 DEF PushJournal, CycleType
  <2>2. hubJ'[d] = jour[d][d]
    BY <1>11 DEF PushJournal, TypeOK
  <2>3. mem[d].mine = jour[d][d]
    BY <1>11 DEF PushJournal, PushReady, Whole
  <2>. QED  BY <1>2, <1>3, <1>11, <2>1, <2>2, <2>3 DEF PushJournal
<1>12. CASE (\E e \in Devices : PullJournal(d, e)) \/ PushBlobs(d) \/ PushFails(d)
  <2>1. CASE \E e \in Devices : PullJournal(d, e)
    BY <1>4, <1>5, <2>1 DEF PullJournal, CycleType
  <2>2. ASSUME NEW pc, mem' = [mem EXCEPT ![d].pc = pc] PROVE mem'[d].pushed = mem[d].pushed
    BY <1>5, <2>2 DEF CycleType
  <2>3. CASE PushBlobs(d) \/ PushFails(d)
    BY <1>4, <2>2, <2>3 DEF PushBlobs, PushFails
  <2>. QED  BY <1>12, <2>1, <2>3
<1>13. CASE Finish(d) \/ Crash(d) \/ TornAppend(d)
  <2>1. mem'[d].pushed \in {0, mem[d].pushed}
    BY <1>5, <1>13 DEF Finish, Crash, TornAppend, Idle
  <2>2. saved'[d].pushed \in {saved[d].pushed, mem[d].pushed}
    BY <1>5, <1>13 DEF Finish, Crash, TornAppend, SavedType
  <2>. QED  BY <1>4, <2>1, <2>2
<1>14. CASE \/ \E n \in Names, l \in Lines : Edit(d, n, l)
            \/ \E p \in DOMAIN file[d] : Delete(d, p)
  <2>1. PICK p : mem' = [mem EXCEPT ![d].cache = Stale(@, {p})]
                 /\ saved' = [saved EXCEPT ![d].cache = Stale(@, {p})]
    BY <1>14 DEF Edit, Delete
  <2>2. mem'[d].pushed = mem[d].pushed /\ saved'[d].pushed = saved[d].pushed
    BY <1>5, <2>1 DEF CycleType, SavedType
  <2>. QED  BY <1>4, <2>2
<1>15. CASE UNCHANGED vars
  BY <1>4, <1>15 DEF vars
<1>. QED  BY <1>6, <1>7, <1>8, <1>9, <1>10, <1>11, <1>12, <1>13, <1>14, <1>15
          DEF Next, Step, Environment

\* The journal goes up only after the blobs of all it adds.
LEMMA NextKeepsBlobs ==
  ASSUME TypeOK, JournalChain, PushReady, CursorHonest, BlobBeforeJournal, [Next]_vars
  PROVE  BlobBeforeJournal'
<1>. SUFFICES ASSUME NEW e \in Devices, NEW i \in DOMAIN hubJ'[e]
              PROVE  hubJ'[e][i].blob \in hubB' \union {Absent}
  BY DEF BlobBeforeJournal
<1>1. hubB \subseteq hubB'
  BY HubBlobsStay
<1>2. CASE hubJ'[e] = hubJ[e]
  BY <1>1, <1>2 DEF BlobBeforeJournal
<1>3. CASE hubJ'[e] = jour[e][e] /\ mem[e].pc = "journal"
  <2>1. /\ mem[e].mine = jour[e][e] /\ Outgoing(e) \subseteq hubB
        /\ mem[e].pushed \in Nat /\ mem[e].pushed <= Len(hubJ[e])
    BY <1>3 DEF PushReady, Whole, CursorHonest, TypeOK, CycleType
  <2>2. /\ jour[e][e] \in Seq(Ops) /\ hubJ[e] \in Seq(Ops)
        /\ Len(jour[e][e]) \in Nat /\ Len(hubJ[e]) \in Nat
        /\ DOMAIN jour[e][e] = 1..Len(jour[e][e]) /\ DOMAIN hubJ[e] = 1..Len(hubJ[e])
    BY LenProperties DEF TypeOK
  <2>3. CASE i <= mem[e].pushed
    <3>1. i \in 1..Len(hubJ[e])
      BY <1>3, <2>1, <2>2, <2>3
    <3>2. hubJ[e][i] = jour[e][e][i]
      BY <2>2, <3>1, PrefixByElements DEF JournalChain
    <3>. QED  BY <1>1, <1>3, <2>2, <3>1, <3>2 DEF BlobBeforeJournal
  <2>4. CASE ~(i <= mem[e].pushed)
    <3>1. i \in mem[e].pushed + 1 .. Len(jour[e][e])
      BY <1>3, <2>1, <2>2, <2>4
    <3>2. jour[e][e][i] \in Range(SubSeq(mem[e].mine, mem[e].pushed + 1, Len(mem[e].mine)))
      <4>1. Range(SubSeq(jour[e][e], mem[e].pushed + 1, Len(jour[e][e]))) =
              {jour[e][e][j] : j \in mem[e].pushed + 1 .. Len(jour[e][e])}
        BY <2>1, <2>2, RangeOfRest
      <4>. QED  BY <2>1, <3>1, <4>1
    <3>3. jour[e][e][i].blob \in Outgoing(e) \union {Absent}
      BY <3>2 DEF Outgoing
    <3>. QED  BY <1>1, <1>3, <2>1, <3>3
  <2>. QED  BY <2>3, <2>4
<1>4. \/ hubJ'[e] = hubJ[e]
      \/ hubJ'[e] = jour[e][e] /\ mem[e].pc = "journal"
  <2>1. ASSUME NEW d \in Devices, PushJournal(d) \/ PushFails(d)
        PROVE  \/ hubJ' = hubJ
               \/ mem[d].pc = "journal" /\ hubJ' = [hubJ EXCEPT ![d] = jour[d][d]]
    BY <2>1 DEF PushJournal, PushFails
  <2>2. ASSUME NEW d \in Devices, Step(d) \/ Environment(d), ~PushJournal(d), ~PushFails(d)
        PROVE  hubJ' = hubJ
    BY <2>2 DEF Step, Environment, Scan, PullJournal, EndPull, Resolve, Write, PushBlobs, Finish,
       PullOffline, PullForbidden, Crash, TornAppend, Edit, Delete, hub
  <2>3. \/ hubJ' = hubJ
        \/ \E d \in Devices : mem[d].pc = "journal" /\ hubJ' = [hubJ EXCEPT ![d] = jour[d][d]]
    BY <2>1, <2>2 DEF Next, vars
  <2>. QED  BY <2>3 DEF TypeOK
<1>. QED  BY <1>2, <1>3, <1>4

\* The initial states have empty journals and a cursor at zero.
LEMMA InitPushReady == Init => PushReady /\ CursorHonest /\ BlobBeforeJournal
BY DEF Init, PushReady, Whole, CursorHonest, BlobBeforeJournal, Idle, NothingSaved

\* While no append is torn, and whatever else crashes or fails: push's cursor
\* never claims an operation the hub lacks, and the hub holds the content of
\* every operation in its journals, so a peer that pulled one can get its bytes.
THEOREM PushOrderHolds ==
  ASSUME ~MayTear
  PROVE  Spec => [](CursorHonest /\ BlobBeforeJournal)
<1>1. TypeOK /\ JournalChain /\ PushReady /\ CursorHonest /\ BlobBeforeJournal /\ [Next]_vars =>
        PushReady' /\ CursorHonest' /\ BlobBeforeJournal'
  BY NextKeepsPushReady, NextKeepsCursor, NextKeepsBlobs
<1>. QED  BY <1>1, InitPushReady, TypeCorrect, JournalsChain, PTL DEF Spec

\* Of push's cursor alone: neither the saved nor the remembered one claims an
\* operation the hub lacks, across crashes between the upload and the save.
THEOREM CursorIsHonest ==
  ASSUME ~MayTear
  PROVE  Spec => []CursorHonest
BY PushOrderHolds, PTL

-----------------------------------------------------------------------------
(* Part 6.  A cache never hides an edit, and no file is written over or    *)
(* removed whose content the volume could not give back.  Both hold while  *)
(* no append is torn; a torn line takes an operation out of a journal      *)
(* after its file was cached.                                              *)

\* A store and a set of operations can give the content c of path p back.
Backed(store, ops, p, c) == c \in store /\ \E o \in ops : o.path = p /\ o.blob = c

\* A cache whose every entry is backed, stale ones too, and whose fresh ones say
\* what the folder holds.
Knows(f, store, ops, cache) ==
  \A p \in DOMAIN cache :
    /\ Backed(store, ops, p, cache[p].blob)
    /\ cache[p].fresh /\ p \in DOMAIN f => cache[p].blob = f[p]

\* Why a cache can be trusted.  A scan makes an entry fresh again without an
\* operation when the file came back to what the cache has, so stale entries
\* must be backed as well; held operations back the entries of a joining device
\* until the pull has ended, and what it drops then the project has.
Accounted(d) ==
  /\ mem[d].pulled \subseteq AllOps(d)
  /\ mem[d].held # <<>> => mem[d].pc = "pull"
  /\ Knows(file[d], blobs[d], AllOps(d), saved[d].cache)
  /\ Knows(file[d], blobs[d], AllOps(d) \union Range(mem[d].held), mem[d].cache)

CachesBacked == \A d \in Devices : Accounted(d)

-----------------------------------------------------------------------------
(* Volumes only grow.                                                      *)

\* What a prefix holds, the whole holds.
LEMMA RangeOfPrefix ==
  ASSUME NEW s \in Seq(Ops), NEW t \in Seq(Ops), IsPrefix(s, t)
  PROVE  Range(s) \subseteq Range(t)
<1>1. Len(s) <= Len(t) /\ \A i \in 1..Len(s) : s[i] = t[i]
  BY PrefixByElements
<1>2. /\ Len(s) \in Nat /\ DOMAIN s = 1..Len(s)
      /\ Len(t) \in Nat /\ DOMAIN t = 1..Len(t)
  BY LenProperties
<1>. QED  BY <1>1, <1>2 DEF Range

\* No step takes an operation out of a volume.
LEMMA AllOpsGrow ==
  ASSUME TypeOK, JournalChain, JournalStep, NEW d \in Devices
  PROVE  AllOps(d) \subseteq AllOps(d)'
<1>1. AllOps(d)' = UNION {Range(jour'[d][e]) : e \in Devices}
  BY DEF AllOps
<1>2. SUFFICES ASSUME NEW e \in Devices PROVE Range(jour[d][e]) \subseteq Range(jour'[d][e])
  BY <1>1 DEF AllOps
<1>3. jour[d][e] \in Seq(Ops) /\ hubJ[e] \in Seq(Ops)
  BY DEF TypeOK
<1>4. CASE jour'[d][e] = jour[d][e]
  BY <1>4
<1>5. CASE e = d /\ \E own \in Seq(Ops) : IsPrefix(jour[d][d], own) /\ jour'[d][d] = own
  BY <1>3, <1>5, RangeOfPrefix
<1>6. CASE Len(hubJ[e]) > Len(jour[d][e]) /\ jour'[d][e] = hubJ[e]
  <2>1. e # d
    <3>1. Len(hubJ[d]) <= Len(jour[d][d]) /\ Len(hubJ[d]) \in Nat /\ Len(jour[d][d]) \in Nat
      BY LenProperties DEF JournalChain, IsPrefix, TypeOK
    <3>. QED  BY <1>6, <3>1
  <2>2. IsPrefix(jour[d][e], hubJ[e])
    BY <2>1 DEF JournalChain
  <2>. QED  BY <1>3, <1>6, <2>2, RangeOfPrefix
<1>7. jour \in [Devices -> [Devices -> Seq(Ops)]]
  BY DEF TypeOK
<1>8. ASSUME NEW c \in Devices, NEW own \in Seq(Ops), IsPrefix(jour[c][c], own),
             jour' = [jour EXCEPT ![c][c] = own]
      PROVE  Range(jour[d][e]) \subseteq Range(jour'[d][e])
  <2>1. jour'[d][e] = IF c = d /\ c = e THEN own ELSE jour[d][e]
    BY <1>7, <1>8
  <2>. QED  BY <1>4, <1>5, <1>8, <2>1
<1>9. ASSUME NEW c \in Devices, NEW x \in Devices,
             jour' = [jour EXCEPT ![c][x] = IF Len(hubJ[x]) > Len(@) THEN hubJ[x] ELSE @]
      PROVE  Range(jour[d][e]) \subseteq Range(jour'[d][e])
  <2>1. jour'[d][e] = IF c = d /\ x = e /\ Len(hubJ[e]) > Len(jour[d][e]) THEN hubJ[e] ELSE jour[d][e]
    BY <1>7, <1>9
  <2>. QED  BY <1>4, <1>6, <2>1
<1>. QED  BY <1>4, <1>8, <1>9 DEF JournalStep

\* What a commit journals is in the volume at once, if no line is torn.
LEMMA CommitAdds ==
  ASSUME TypeOK, NEW d \in Devices, NEW ops \in Seq(Ops), Commit(d, ops), ~torn[d]
  PROVE  Range(ops) \subseteq AllOps(d)'
<1>1. jour[d][d] \in Seq(Ops) /\ jour'[d][d] = jour[d][d] \o ops
  BY CommitIsConcat DEF TypeOK
<1>2. Range(jour[d][d] \o ops) = Range(jour[d][d]) \union Range(ops)
  BY <1>1, RangeConcatenation
<1>3. AllOps(d)' = UNION {Range(jour'[d][e]) : e \in Devices}
  BY DEF AllOps
<1>. QED  BY <1>1, <1>2, <1>3

\* No step takes a content out of a volume's store.
LEMMA BlobsGrow ==
  ASSUME TypeOK, [Next]_vars, NEW d \in Devices
  PROVE  blobs[d] \subseteq blobs'[d]
<1>1. DOMAIN blobs = Devices
  BY DEF TypeOK
<1>2. ASSUME NEW c \in Devices, Step(c)
      PROVE  blobs[d] \subseteq blobs'[d]
  BY <1>1, <1>2 DEF Step, Scan, PullJournal, EndPull, Resolve, Write, PushBlobs, PushJournal, Finish
<1>3. ASSUME NEW c \in Devices, Environment(c)
      PROVE  blobs[d] \subseteq blobs'[d]
  BY <1>1, <1>3 DEF Environment, PullOffline, PullForbidden, PushFails, Crash, TornAppend, Edit, Delete
<1>. QED  BY <1>2, <1>3 DEF Next, vars

\* A step at one device touches no other's folder and store.
LEMMA StepLeavesFolders ==
  ASSUME TypeOK, NEW c \in Devices, Step(c) \/ Environment(c), NEW d \in Devices, d # c
  PROVE  file'[d] = file[d] /\ blobs'[d] = blobs[d]
<1>1. DOMAIN file = Devices /\ DOMAIN blobs = Devices
  BY DEF TypeOK
<1>2. CASE Step(c)
  BY <1>1, <1>2 DEF Step, Scan, PullJournal, EndPull, Resolve, Write, PushBlobs, PushJournal, Finish
<1>3. CASE Environment(c)
  BY <1>1, <1>3 DEF Environment, PullOffline, PullForbidden, PushFails, Crash, TornAppend, Edit, Delete
<1>. QED  BY <1>2, <1>3

-----------------------------------------------------------------------------
(* Caches stay backed.                                                     *)

\* A cache goes on knowing what it knew as long as volumes grow, its entries
\* keep their contents, and a file is the one its fresh entry saw.
LEMMA KnowsStays ==
  ASSUME NEW f, NEW store, NEW ops, NEW cache, Knows(f, store, ops, cache),
         NEW f2, NEW store2, NEW ops2, NEW cache2,
         store \subseteq store2,
         \A o \in ops : \E x \in ops2 : x.path = o.path /\ x.blob = o.blob,
         DOMAIN cache2 \subseteq DOMAIN cache,
         \A p \in DOMAIN cache2 : cache2[p].blob = cache[p].blob,
         \A p \in DOMAIN cache2 : cache2[p].fresh /\ p \in DOMAIN f2 =>
           cache[p].fresh /\ p \in DOMAIN f /\ f2[p] = f[p]
  PROVE  Knows(f2, store2, ops2, cache2)
BY DEF Knows, Backed

\* A touched entry is stale, every other as it was.
LEMMA StaleKnows ==
  ASSUME NEW f, NEW store, NEW ops, NEW cache, OverPaths(cache, CacheEntry),
         Knows(f, store, ops, cache),
         NEW S, NEW f2, \A p \in DOMAIN f2 \ S : p \in DOMAIN f /\ f2[p] = f[p],
         NEW store2, store \subseteq store2, NEW ops2, ops \subseteq ops2
  PROVE  Knows(f2, store2, ops2, Stale(cache, S))
<1>1. /\ DOMAIN Stale(cache, S) = DOMAIN cache
      /\ \A p \in DOMAIN cache : Stale(cache, S)[p].blob = cache[p].blob
      /\ \A p \in DOMAIN cache : Stale(cache, S)[p].fresh => cache[p].fresh /\ p \notin S
  BY DEF Stale, OverPaths, CacheEntry
<1>. QED  BY <1>1, KnowsStays

\* Nothing is in the memory of a device that is not running.
LEMMA IdleKnows ==
  ASSUME NEW f, NEW store, NEW ops
  PROVE  Knows(f, store, ops, Idle.cache) /\ Idle.pulled = {} /\ Idle.held = <<>>
BY DEF Knows, Idle

\* What every step but a device's own leaves: its folder and its two caches as
\* they were, its volume no smaller.
LEMMA UntouchedStaysAccounted ==
  ASSUME NEW d \in Devices, Accounted(d),
         AllOps(d) \subseteq AllOps(d)', blobs[d] \subseteq blobs'[d],
         file'[d] = file[d], saved'[d].cache = saved[d].cache, mem'[d].cache = mem[d].cache,
         mem'[d].held = mem[d].held, mem'[d].pulled \subseteq AllOps(d)',
         mem'[d].held # <<>> => mem'[d].pc = "pull"
  PROVE  Accounted(d)'
<1>1. Knows(file'[d], blobs'[d], AllOps(d)', saved'[d].cache)
  BY KnowsStays DEF Accounted
<1>2. Knows(file'[d], blobs'[d], AllOps(d)' \union Range(mem'[d].held), mem'[d].cache)
  BY KnowsStays DEF Accounted
<1>. QED  BY <1>1, <1>2 DEF Accounted

\* The scan: an entry it makes is its operation's, or was backed before.
LEMMA ScanAccounts ==
  ASSUME TypeOK, JournalChain, PushReady, NEW d \in Devices, Accounted(d), Scan(d)
  PROVE  Accounted(d)'
<1>1. PICK lam \in Rederived(d), order \in Orders(Dirty(file[d], saved[d].cache)) :
       LET own == jour[d][d]
           ops == ScanOps(d, order, file[d], lam, Len(own))
       IN  /\ blobs' = [blobs EXCEPT ![d] = @ \union ({o.blob : o \in Range(ops)} \ {Absent})]
           /\ \/ /\ Joining(d)
                 /\ mem' = [mem EXCEPT ![d] = Started(d, lam + Len(ops), own, ops)]
                 /\ UNCHANGED <<jour, torn>>
              \/ /\ ~Joining(d)
                 /\ mem' = [mem EXCEPT ![d] = Started(d, lam + Len(ops), own \o ops, <<>>)]
                 /\ Commit(d, ops)
  BY DEF Scan
<1>. DEFINE ops == ScanOps(d, order, file[d], lam, Len(jour[d][d]))
            c == Scanned(file[d], saved[d].cache)
<1>2. ops \in Seq(Ops)
  BY ScanTyped
<1>3. AllOps(d) \subseteq AllOps(d)' /\ blobs[d] \subseteq blobs'[d]
  <2>1. [Next]_vars
    BY DEF Next, Step
  <2>. QED  BY <2>1, NextIsJournalStep, AllOpsGrow, BlobsGrow
<1>4. /\ mem'[d].cache = c /\ mem'[d].pulled = {} /\ mem'[d].pc = "pull"
      /\ AllOps(d) \union Range(ops) \subseteq AllOps(d)' \union Range(mem'[d].held)
  <2>1. d \in DOMAIN mem
    BY DEF TypeOK
  <2>2. CASE mem' = [mem EXCEPT ![d] = Started(d, lam + Len(ops), jour[d][d], ops)]
    BY <1>3, <2>1, <2>2 DEF Started
  <2>3. CASE mem' = [mem EXCEPT ![d] = Started(d, lam + Len(ops), jour[d][d] \o ops, <<>>)]
             /\ Commit(d, ops)
    <3>1. Range(ops) \subseteq AllOps(d)'
      <4>1. ~torn[d]
        BY DEF PushReady, Whole
      <4>. HIDE DEF ops
      <4>. QED  BY <1>2, <2>3, <4>1, CommitAdds
    <3>. QED  BY <1>3, <2>1, <2>3, <3>1 DEF Started
  <2>. QED  BY <1>1, <2>2, <2>3
<1>5. \A p \in DOMAIN file[d] : p \in Dirty(file[d], saved[d].cache) =>
        /\ file[d][p] \in blobs'[d]
        /\ \E o \in Range(ops) : o.path = p /\ o.blob = file[d][p]
  <2>. SUFFICES ASSUME NEW p \in DOMAIN file[d], p \in Dirty(file[d], saved[d].cache)
                PROVE  /\ file[d][p] \in blobs'[d]
                       /\ \E o \in Range(ops) : o.path = p /\ o.blob = file[d][p]
    OBVIOUS
  <2>1. PICK i \in DOMAIN order : order[i] = p
    BY OrdersAreSequences DEF Range
  <2>2. i \in DOMAIN ops /\ ops[i].path = p /\ ops[i].blob = file[d][p]
    BY <2>1 DEF ScanOps, Holds
  <2>3. file[d][p] # Absent
    BY AbsentAssumption DEF TypeOK, OverPaths, Content
  <2>4. ops[i] \in Range(ops)
    BY <2>2 DEF Range
  <2>5. blobs'[d] = blobs[d] \union ({o.blob : o \in Range(ops)} \ {Absent})
    BY <1>1 DEF TypeOK
  <2>. HIDE DEF ops
  <2>. QED  BY <2>2, <2>3, <2>4, <2>5
<1>. HIDE DEF ops
<1>6. UNCHANGED <<file, saved>>
  BY DEF Scan
<1>7. Knows(file[d], blobs'[d], AllOps(d)', saved[d].cache)
  BY <1>3, KnowsStays DEF Accounted
<1>8. Knows(file[d], blobs'[d], AllOps(d)' \union Range(mem'[d].held), c)
  <2>. SUFFICES ASSUME NEW p \in DOMAIN file[d]
                PROVE  /\ Backed(blobs'[d], AllOps(d)' \union Range(mem'[d].held), p, c[p].blob)
                       /\ c[p].blob = file[d][p]
    BY DEF Knows, Scanned
  <2>1. CASE p \in DOMAIN saved[d].cache /\ saved[d].cache[p].fresh
    BY <1>7, <2>1 DEF Knows, Backed, Scanned
  <2>2. CASE ~(p \in DOMAIN saved[d].cache /\ saved[d].cache[p].fresh)
    <3>1. c[p].blob = file[d][p]
      BY <2>2 DEF Scanned
    <3>2. CASE p \in Dirty(file[d], saved[d].cache)
      BY <1>4, <1>5, <3>1, <3>2 DEF Backed
    <3>3. CASE p \notin Dirty(file[d], saved[d].cache)
      <4>1. p \in DOMAIN saved[d].cache /\ saved[d].cache[p].blob = file[d][p]
        BY <2>2, <3>3 DEF Dirty
      <4>. QED  BY <1>7, <3>1, <4>1 DEF Knows, Backed
    <3>. QED  BY <3>2, <3>3
  <2>. QED  BY <2>1, <2>2
<1>. QED  BY <1>4, <1>6, <1>7, <1>8 DEF Accounted

\* A pull reads operations into the volume, and remembers which.
LEMMA PullJournalAccounts ==
  ASSUME TypeOK, JournalChain, NEW d \in Devices, Accounted(d),
         NEW e \in Devices, PullJournal(d, e)
  PROVE  Accounted(d)'
<1>1. AllOps(d) \subseteq AllOps(d)' /\ blobs[d] \subseteq blobs'[d]
  <2>1. [Next]_vars
    BY DEF Next, Step
  <2>. QED  BY <2>1, NextIsJournalStep, AllOpsGrow, BlobsGrow
<1>2. d \in DOMAIN mem /\ CycleType(mem[d])
  BY DEF TypeOK
<1>3. /\ mem'[d].pc = mem[d].pc /\ mem'[d].cache = mem[d].cache /\ mem'[d].held = mem[d].held
      /\ mem'[d].pulled =
           mem[d].pulled \union Range(SubSeq(hubJ[e], Len(jour[d][e]) + 1, Len(hubJ[e])))
  BY <1>2 DEF PullJournal, CycleType
<1>4. Range(SubSeq(hubJ[e], Len(jour[d][e]) + 1, Len(hubJ[e]))) \subseteq AllOps(d)'
  <2>1. /\ hubJ[e] \in Seq(Ops) /\ jour[d][e] \in Seq(Ops)
        /\ Len(hubJ[e]) \in Nat /\ Len(jour[d][e]) \in Nat /\ DOMAIN hubJ[e] = 1..Len(hubJ[e])
    BY LenProperties DEF TypeOK
  <2>2. Range(SubSeq(hubJ[e], Len(jour[d][e]) + 1, Len(hubJ[e]))) =
          {hubJ[e][i] : i \in Len(jour[d][e]) + 1 .. Len(hubJ[e])}
    BY <2>1, RangeOfRest
  <2>3. CASE Len(hubJ[e]) > Len(jour[d][e])
    <3>1. jour'[d][e] = hubJ[e]
      BY <2>3 DEF PullJournal, TypeOK
    <3>2. {hubJ[e][i] : i \in Len(jour[d][e]) + 1 .. Len(hubJ[e])} \subseteq Range(hubJ[e])
      BY <2>1 DEF Range
    <3>3. Range(jour'[d][e]) \subseteq AllOps(d)'
      BY DEF AllOps
    <3>. QED  BY <2>2, <3>1, <3>2, <3>3
  <2>4. CASE ~(Len(hubJ[e]) > Len(jour[d][e]))
    BY <2>1, <2>2, <2>4
  <2>. QED  BY <2>3, <2>4
<1>5. UNCHANGED <<file, saved>>
  BY DEF PullJournal
<1>. QED  BY <1>1, <1>3, <1>4, <1>5, UntouchedStaysAccounted DEF Accounted

\* What a joining device held back is journaled when the pull ends, under the
\* same path and content, or the project has it already.
LEMMA AdoptedKeepsContent ==
  ASSUME TypeOK, NEW d \in Devices, mem[d].pulled \subseteq AllOps(d),
         NEW ops \in Adopted(d), NEW o \in Range(mem[d].held)
  PROVE  \E x \in AllOps(d) \union Range(ops) : x.path = o.path /\ x.blob = o.blob
<1>. DEFINE m == mem[d]
            project == m.pulled \union (IF m.mount THEN AllOps(d) ELSE {})
            same(q) == IsPut(q) /\ \E w \in Greatest(project, q.path) : w.blob = q.blob
            kept == {i \in DOMAIN m.held : ~(m.mount /\ same(m.held[i]))}
<1>1. PICK order \in Ascending(kept) : ops =
        [i \in DOMAIN order |->
          [Adopt(m.held[order[i]], project) EXCEPT !.seq = Len(m.mine) + i]]
  BY DEF Adopted
<1>2. PICK k \in DOMAIN m.held : o = m.held[k]
  BY DEF Range
<1>3. project \subseteq AllOps(d)
  OBVIOUS
<1>4. CASE m.mount /\ same(m.held[k])
  <2>1. PICK w \in Greatest(project, o.path) : w.blob = o.blob
    BY <1>2, <1>4
  <2>2. w \in project /\ w.path = o.path
    BY <2>1, GreatestIsAmong
  <2>. QED  BY <1>3, <2>1, <2>2
<1>5. CASE ~(m.mount /\ same(m.held[k]))
  <2>1. PICK i \in DOMAIN order : order[i] = k
    <3>1. k \in kept
      BY <1>5
    <3>. HIDE DEF kept
    <3>. QED  BY <3>1, OrdersAreSequences DEF Ascending, Range
  <2>2. o \in Ops
    BY RangeOfSeq DEF TypeOK, CycleType
  <2>. HIDE DEF kept, project
  <2>3. i \in DOMAIN ops /\ ops[i] = [Adopt(o, project) EXCEPT !.seq = Len(m.mine) + i]
    BY <1>1, <1>2, <2>1
  <2>4. Adopt(o, project) \in Ops /\ Adopt(o, project).path = o.path /\ Adopt(o, project).blob = o.blob
    BY <2>2 DEF Adopt, Ops, Op, Notes
  <2>5. ops[i].path = o.path /\ ops[i].blob = o.blob
    BY <2>3, <2>4 DEF Ops, Op
  <2>6. ops[i] \in Range(ops)
    BY <2>3 DEF Range
  <2>. QED  BY <2>5, <2>6
<1>. QED  BY <1>4, <1>5

\* So a pull that ends, in any of its three ways, leaves no entry unbacked.
LEMMA EndOfPullAccounts ==
  ASSUME TypeOK, JournalChain, PushReady, NEW d \in Devices, Accounted(d),
         EndPull(d) \/ PullOffline(d) \/ PullForbidden(d)
  PROVE  Accounted(d)'
<1>1. AllOps(d) \subseteq AllOps(d)' /\ blobs[d] \subseteq blobs'[d]
  <2>1. [Next]_vars
    BY DEF Next, Step, Environment
  <2>. QED  BY <2>1, NextIsJournalStep, AllOpsGrow, BlobsGrow
<1>2. d \in DOMAIN mem /\ CycleType(mem[d])
  BY DEF TypeOK
<1>3. PICK ops, next, blocked :
        /\ ops \in Seq(Ops)
        /\ PullOver(d, ops, next, blocked)
        /\ \A o \in Range(mem[d].held) :
             \E x \in AllOps(d) \union Range(ops) : x.path = o.path /\ x.blob = o.blob
  <2>1. mem[d].pulled \subseteq AllOps(d)
    BY DEF Accounted
  <2>2. CASE PullForbidden(d)
    BY <1>2, <2>2 DEF PullForbidden, CycleType
  <2>3. CASE EndPull(d) \/ PullOffline(d)
    <3>1. PICK ops \in Adopted(d), blocked \in BOOLEAN : PullOver(d, ops, "resolve", blocked)
      BY <2>3 DEF EndPull, PullOffline
    <3>2. ops \in Seq(Ops)
      BY AdoptedAreOps
    <3>. QED  BY <2>1, <3>1, <3>2, AdoptedKeepsContent
  <2>. QED  BY <2>2, <2>3
<1>4. Range(ops) \subseteq AllOps(d)'
  <2>1. ~torn[d]
    BY DEF PushReady, Whole
  <2>. QED  BY <1>3, <2>1, CommitAdds DEF PullOver
<1>5. mem'[d].cache = mem[d].cache /\ mem'[d].held = <<>> /\ mem'[d].pulled = mem[d].pulled
  <2>1. PICK lam : mem' = [mem EXCEPT ![d].pc = next, ![d].lam = lam, ![d].mine = @ \o ops,
                          ![d].held = <<>>, ![d].blocked = blocked,
                          ![d].tried = IF blocked THEN {} ELSE Wanted(d)]
    BY <1>3 DEF PullOver
  <2>. QED  BY <1>2, <2>1 DEF CycleType
<1>6. UNCHANGED <<file, saved>>
  BY DEF EndPull, PullOffline, PullForbidden
<1>7. Knows(file'[d], blobs'[d], AllOps(d)', saved'[d].cache)
  BY <1>1, <1>6, KnowsStays DEF Accounted
<1>8. Knows(file'[d], blobs'[d], AllOps(d)', mem'[d].cache)
  <2>1. \A o \in AllOps(d) \union Range(mem[d].held) :
          \E x \in AllOps(d)' : x.path = o.path /\ x.blob = o.blob
    BY <1>1, <1>3, <1>4
  <2>. QED  BY <1>1, <1>5, <1>6, <2>1, KnowsStays DEF Accounted
<1>9. Range(mem'[d].held) = {}
  BY <1>5 DEF Range
<1>. QED  BY <1>1, <1>5, <1>7, <1>8, <1>9 DEF Accounted

\* What is replayed at a path is the content of an operation there.
LEMMA ReplayIsSaid ==
  ASSUME NEW ops, NEW p \in DOMAIN Replay(ops)
  PROVE  \E o \in ops : o.path = p /\ o.blob = Replay(ops)[p]
<1>. DEFINE live == UNION {{o \in Greatest(ops, q) : IsPut(o)} : q \in {o.path : o \in ops}}
<1>1. live \subseteq ops
  BY GreatestIsAmong
<1>2. /\ DOMAIN Replay(ops) = {o.path : o \in live}
      /\ \A q \in {o.path : o \in live} : Replay(ops)[q] = (CHOOSE o \in live : o.path = q).blob
  BY DEF Replay
<1>. HIDE DEF live
<1>3. /\ (CHOOSE o \in live : o.path = p) \in live
      /\ (CHOOSE o \in live : o.path = p).path = p
  BY <1>2
<1>. QED  BY <1>1, <1>2, <1>3

\* A cycle that has read its journals folds the operations of its volume.
LEMMA KnownIsVolume ==
  ASSUME TypeOK, PushReady, NEW d \in Devices, mem[d].pc # "idle"
  PROVE  Known(d) = AllOps(d)
<1>1. mem[d].mine = jour[d][d]
  BY DEF PushReady, Whole
<1>2. Range(mem[d].mine) \subseteq AllOps(d)
  BY <1>1 DEF AllOps
<1>. QED  BY <1>2 DEF Known

\* The conflict copies are journaled as any edit.
LEMMA ResolveAccounts ==
  ASSUME TypeOK, JournalChain, NEW d \in Devices, Accounted(d), Resolve(d)
  PROVE  Accounted(d)'
<1>1. AllOps(d) \subseteq AllOps(d)' /\ blobs[d] \subseteq blobs'[d]
  <2>1. [Next]_vars
    BY DEF Next, Step
  <2>. QED  BY <2>1, NextIsJournalStep, AllOpsGrow, BlobsGrow
<1>2. d \in DOMAIN mem /\ CycleType(mem[d])
  BY DEF TypeOK
<1>3. PICK ops : mem' = [mem EXCEPT ![d].pc = "write", ![d].mine = @ \o ops, ![d].lam = @ + Len(ops)]
  BY ResolveCommits
<1>4. mem'[d].cache = mem[d].cache /\ mem'[d].held = mem[d].held /\ mem'[d].pulled = mem[d].pulled
  BY <1>2, <1>3 DEF CycleType
<1>5. mem[d].held = <<>> /\ UNCHANGED <<file, saved>>
  BY DEF Resolve, Accounted
<1>. QED  BY <1>1, <1>4, <1>5, UntouchedStaysAccounted DEF Accounted

\* A write names its files: what it does to the folder and to both caches.
LEMMA WriteEffect ==
  ASSUME TypeOK, NEW d \in Devices, Write(d)
  PROVE  \E puts \in SUBSET DOMAIN Replay(Known(d)), got \in SUBSET hubB :
           LET target == Replay(Known(d))
               cache  == mem[d].cache
               dels   == Unlinks(file[d], cache, target)
           IN  /\ mem[d].pc = "write"
               /\ puts = Writes(file[d], cache, target, blobs[d] \union got)
               /\ blobs'[d] = blobs[d] \union got
               /\ file'[d] = [p \in (DOMAIN file[d] \union puts) \ dels |->
                                IF p \in puts THEN target[p] ELSE file[d][p]]
               /\ mem'[d].cache = [p \in (DOMAIN cache \union puts) \ Forgets(file[d], cache, target) |->
                                     IF p \in puts THEN [blob |-> target[p], fresh |-> TRUE] ELSE cache[p]]
               /\ mem'[d].held = mem[d].held /\ mem'[d].pulled = mem[d].pulled
               /\ saved'[d].cache = Stale(saved[d].cache, puts \union dels)
<1>1. mem[d].pc = "write"
  BY DEF Write
<1>. DEFINE target == Replay(Known(d))
            cache  == mem[d].cache
            dels   == Unlinks(file[d], cache, target)
            puts(got) == Writes(file[d], cache, target, blobs[d] \union got)
<1>3. PICK got \in SUBSET hubB :
        /\ blobs' = [blobs EXCEPT ![d] = @ \union got]
        /\ file' = [file EXCEPT ![d] = [p \in (DOMAIN @ \union puts(got)) \ dels |->
                                          IF p \in puts(got) THEN target[p] ELSE @[p]]]
        /\ mem' = [mem EXCEPT ![d].pc = "blobs",
                     ![d].cache = [p \in (DOMAIN cache \union puts(got)) \ Forgets(file[d], cache, target) |->
                        IF p \in puts(got) THEN [blob |-> target[p], fresh |-> TRUE] ELSE cache[p]]]
        /\ saved' = [saved EXCEPT ![d].cache = Stale(@, puts(got) \union dels)]
  BY DEF Write
<1>4. puts(got) \in SUBSET DOMAIN target
  BY DEF Writes
<1>5. /\ d \in DOMAIN mem /\ CycleType(mem[d]) /\ d \in DOMAIN saved /\ SavedType(saved[d])
      /\ DOMAIN file = Devices /\ DOMAIN blobs = Devices
  BY DEF TypeOK
<1>. DEFINE S == puts(got)
            c == [p \in (DOMAIN cache \union S) \ Forgets(file[d], cache, target) |->
                    IF p \in S THEN [blob |-> target[p], fresh |-> TRUE] ELSE cache[p]]
<1>6. mem' = [mem EXCEPT ![d].pc = "blobs", ![d].cache = c]
  BY <1>3
<1>7. saved' = [saved EXCEPT ![d].cache = Stale(@, S \union dels)]
  BY <1>3
<1>8. file' = [file EXCEPT ![d] = [p \in (DOMAIN file[d] \union S) \ dels |->
                                     IF p \in S THEN target[p] ELSE file[d][p]]]
  BY <1>3
<1>9. blobs'[d] = blobs[d] \union got
  BY <1>3, <1>5
<1>10. S \in SUBSET DOMAIN target /\ S = Writes(file[d], cache, target, blobs[d] \union got)
  BY <1>4
<1>. HIDE DEF S, target, dels, c
<1>11. mem'[d].cache = c /\ mem'[d].held = mem[d].held /\ mem'[d].pulled = mem[d].pulled
  BY <1>5, <1>6 DEF CycleType
<1>12. saved'[d].cache = Stale(saved[d].cache, S \union dels)
  BY <1>5, <1>7 DEF SavedType
<1>13. file'[d] = [p \in (DOMAIN file[d] \union S) \ dels |-> IF p \in S THEN target[p] ELSE file[d][p]]
  BY <1>5, <1>8
<1>. QED  BY <1>1, <1>9, <1>10, <1>11, <1>12, <1>13 DEF c, dels, target

\* Materializing: an entry it makes has the content of an operation and of the
\* store, one it keeps has a file it left alone.
LEMMA WriteAccounts ==
  ASSUME TypeOK, JournalChain, PushReady, NEW d \in Devices, Accounted(d), Write(d)
  PROVE  Accounted(d)'
<1>1. AllOps(d) \subseteq AllOps(d)' /\ blobs[d] \subseteq blobs'[d]
  <2>1. [Next]_vars
    BY DEF Next, Step
  <2>. QED  BY <2>1, NextIsJournalStep, AllOpsGrow, BlobsGrow
<1>. DEFINE target == Replay(Known(d))
            cache  == mem[d].cache
            dels   == Unlinks(file[d], cache, target)
<1>2. PICK puts \in SUBSET DOMAIN target, got \in SUBSET hubB :
        /\ mem[d].pc = "write"
        /\ puts = Writes(file[d], cache, target, blobs[d] \union got)
        /\ blobs'[d] = blobs[d] \union got
        /\ file'[d] = [p \in (DOMAIN file[d] \union puts) \ dels |->
                         IF p \in puts THEN target[p] ELSE file[d][p]]
        /\ mem'[d].cache = [p \in (DOMAIN cache \union puts) \ Forgets(file[d], cache, target) |->
                              IF p \in puts THEN [blob |-> target[p], fresh |-> TRUE] ELSE cache[p]]
        /\ mem'[d].held = mem[d].held /\ mem'[d].pulled = mem[d].pulled
        /\ saved'[d].cache = Stale(saved[d].cache, puts \union dels)
  BY WriteEffect
<1>3. mem[d].held = <<>> /\ Range(mem[d].held) = {}
  BY <1>2 DEF Accounted, Range
<1>4. \A p \in puts : Backed(blobs'[d], AllOps(d)', p, target[p])
  <2>. SUFFICES ASSUME NEW p \in puts PROVE Backed(blobs'[d], AllOps(d)', p, target[p])
    OBVIOUS
  <2>1. target[p] \in blobs'[d]
    BY <1>2 DEF Writes
  <2>2. \E o \in AllOps(d) : o.path = p /\ o.blob = target[p]
    <3>1. Known(d) = AllOps(d)
      BY <1>2, KnownIsVolume
    <3>. QED  BY <3>1, ReplayIsSaid
  <2>. QED  BY <1>1, <2>1, <2>2 DEF Backed
<1>. HIDE DEF target, dels
<1>5. \A p \in DOMAIN file'[d] \ (puts \union dels) : p \in DOMAIN file[d] /\ file'[d][p] = file[d][p]
  BY <1>2
<1>6. Knows(file'[d], blobs'[d], AllOps(d)', saved'[d].cache)
  <2>1. OverPaths(saved[d].cache, CacheEntry)
    BY DEF TypeOK, SavedType
  <2>2. Knows(file[d], blobs[d], AllOps(d), saved[d].cache)
    BY DEF Accounted
  <2>3. Knows(file'[d], blobs'[d], AllOps(d)', Stale(saved[d].cache, puts \union dels))
    BY <1>1, <1>5, <2>1, <2>2, StaleKnows
  <2>. QED  BY <1>2, <2>3
<1>7. Knows(file'[d], blobs'[d], AllOps(d)', mem'[d].cache)
  <2>1. Knows(file[d], blobs[d], AllOps(d), cache)
    BY <1>3 DEF Accounted
  <2>. SUFFICES ASSUME NEW p \in DOMAIN mem'[d].cache
                PROVE  /\ Backed(blobs'[d], AllOps(d)', p, mem'[d].cache[p].blob)
                       /\ mem'[d].cache[p].fresh /\ p \in DOMAIN file'[d] =>
                            mem'[d].cache[p].blob = file'[d][p]
    BY DEF Knows
  <2>2. CASE p \in puts
    <3>1. mem'[d].cache[p] = [blob |-> target[p], fresh |-> TRUE]
      BY <1>2, <2>2
    <3>2. p \in DOMAIN file'[d] => file'[d][p] = target[p]
      BY <1>2, <2>2
    <3>. QED  BY <1>4, <2>2, <3>1, <3>2
  <2>3. CASE p \notin puts
    <3>1. p \in DOMAIN cache /\ mem'[d].cache[p] = cache[p]
      BY <1>2, <2>3
    <3>2. p \in DOMAIN file'[d] => p \in DOMAIN file[d] /\ file'[d][p] = file[d][p]
      BY <1>2, <2>3
    <3>. QED  BY <1>1, <2>1, <3>1, <3>2 DEF Knows, Backed
  <2>. QED  BY <2>2, <2>3
<1>. QED  BY <1>1, <1>2, <1>3, <1>6, <1>7 DEF Accounted

\* Pushing touches neither folder nor cache.
LEMMA PushAccounts ==
  ASSUME TypeOK, JournalChain, NEW d \in Devices, Accounted(d),
         PushBlobs(d) \/ PushJournal(d) \/ PushFails(d)
  PROVE  Accounted(d)'
<1>1. AllOps(d) \subseteq AllOps(d)' /\ blobs[d] \subseteq blobs'[d]
  <2>1. [Next]_vars
    BY DEF Next, Step, Environment
  <2>. QED  BY <2>1, NextIsJournalStep, AllOpsGrow, BlobsGrow
<1>2. d \in DOMAIN mem /\ CycleType(mem[d])
  BY DEF TypeOK
<1>3. /\ mem'[d].cache = mem[d].cache /\ mem'[d].held = mem[d].held
      /\ mem'[d].pulled = mem[d].pulled /\ mem[d].pc # "pull"
  <2>1. ASSUME NEW pc, mem' = [mem EXCEPT ![d].pc = pc]
        PROVE  /\ mem'[d].cache = mem[d].cache /\ mem'[d].held = mem[d].held
               /\ mem'[d].pulled = mem[d].pulled
    BY <1>2, <2>1 DEF CycleType
  <2>2. CASE PushJournal(d)
    BY <1>2, <2>2 DEF PushJournal, CycleType
  <2>3. CASE PushBlobs(d) \/ PushFails(d)
    BY <2>1, <2>3 DEF PushBlobs, PushFails
  <2>. QED  BY <2>2, <2>3
<1>4. UNCHANGED <<file, saved>>
  BY DEF PushBlobs, PushJournal, PushFails
<1>. QED  BY <1>1, <1>3, <1>4, UntouchedStaysAccounted DEF Accounted

\* The cache that is saved is the one in memory, when nothing is held back any
\* more; a crash that does not save it forgets it.
LEMMA EndAccounts ==
  ASSUME TypeOK, JournalChain, NEW d \in Devices, Accounted(d), Finish(d) \/ Crash(d)
  PROVE  Accounted(d)'
<1>1. AllOps(d)' = AllOps(d) /\ UNCHANGED <<file, blobs>>
  BY DEF Finish, Crash, AllOps
<1>2. mem'[d] = Idle
  BY DEF TypeOK, Finish, Crash
<1>3. \/ saved'[d].cache = saved[d].cache
      \/ saved'[d].cache = mem[d].cache /\ mem[d].pc = "finish"
  <2>1. d \in DOMAIN saved /\ SavedType(saved[d])
    BY DEF TypeOK
  <2>. QED  BY <2>1 DEF Finish, Crash, SavedType
<1>4. Knows(file[d], blobs[d], AllOps(d), saved'[d].cache)
  <2>1. CASE saved'[d].cache = saved[d].cache
    BY <2>1 DEF Accounted
  <2>2. CASE saved'[d].cache = mem[d].cache /\ mem[d].pc = "finish"
    <3>1. Range(mem[d].held) = {}
      BY <2>2 DEF Accounted, Range
    <3>. QED  BY <2>2, <3>1 DEF Accounted
  <2>. QED  BY <1>3, <2>1, <2>2
<1>5. /\ mem'[d].pulled = {} /\ mem'[d].held = <<>>
      /\ Knows(file[d], blobs[d], AllOps(d) \union Range(mem'[d].held), mem'[d].cache)
  BY <1>2, IdleKnows
<1>. QED  BY <1>1, <1>4, <1>5 DEF Accounted

\* The user's writes and removals leave no fresh entry behind.
LEMMA UserAccounts ==
  ASSUME TypeOK, NEW d \in Devices, Accounted(d),
         \/ \E n \in Names, l \in Lines : Edit(d, n, l)
         \/ \E p \in DOMAIN file[d] : Delete(d, p)
  PROVE  Accounted(d)'
<1>1. DOMAIN file = Devices
  BY DEF TypeOK
<1>2. ASSUME NEW p, UNCHANGED <<blobs, jour>>,
             mem' = [mem EXCEPT ![d].cache = Stale(@, {p})],
             saved' = [saved EXCEPT ![d].cache = Stale(@, {p})],
             \A q \in DOMAIN file'[d] \ {p} : q \in DOMAIN file[d] /\ file'[d][q] = file[d][q]
      PROVE  Accounted(d)'
  <2>1. AllOps(d)' = AllOps(d)
    BY <1>2 DEF AllOps
  <2>2. /\ d \in DOMAIN mem /\ CycleType(mem[d]) /\ OverPaths(mem[d].cache, CacheEntry)
        /\ d \in DOMAIN saved /\ SavedType(saved[d]) /\ OverPaths(saved[d].cache, CacheEntry)
    BY DEF TypeOK, CycleType, SavedType
  <2>3. /\ mem'[d].cache = Stale(mem[d].cache, {p}) /\ mem'[d].held = mem[d].held
        /\ mem'[d].pulled = mem[d].pulled /\ mem'[d].pc = mem[d].pc
        /\ saved'[d].cache = Stale(saved[d].cache, {p})
    BY <1>2, <2>2 DEF CycleType, SavedType
  <2>4. /\ Knows(file[d], blobs[d], AllOps(d), saved[d].cache)
        /\ Knows(file[d], blobs[d], AllOps(d) \union Range(mem[d].held), mem[d].cache)
    BY DEF Accounted
  <2>5. Knows(file'[d], blobs[d], AllOps(d), Stale(saved[d].cache, {p}))
    BY <1>2, <2>2, <2>4, StaleKnows
  <2>6. Knows(file'[d], blobs[d], AllOps(d) \union Range(mem[d].held), Stale(mem[d].cache, {p}))
    BY <1>2, <2>2, <2>4, StaleKnows
  <2>. QED  BY <1>2, <2>1, <2>3, <2>5, <2>6 DEF Accounted
<1>3. ASSUME NEW n \in Names, NEW l \in Lines, Edit(d, n, l)
      PROVE  Accounted(d)'
  <2>1. \A q \in DOMAIN file'[d] \ {Plain(n)} : q \in DOMAIN file[d] /\ file'[d][q] = file[d][q]
    BY <1>1, <1>3 DEF Edit
  <2>. QED  BY <1>2, <1>3, <2>1 DEF Edit
<1>4. ASSUME NEW p \in DOMAIN file[d], Delete(d, p)
      PROVE  Accounted(d)'
  <2>1. \A q \in DOMAIN file'[d] \ {p} : q \in DOMAIN file[d] /\ file'[d][q] = file[d][q]
    BY <1>1, <1>4 DEF Delete
  <2>. QED  BY <1>2, <1>4, <2>1 DEF Delete
<1>. QED  BY <1>3, <1>4

\* While no append is torn, every step keeps every cache backed.
LEMMA NextKeepsCachesBacked ==
  ASSUME ~MayTear, TypeOK, JournalChain, PushReady, CachesBacked, [Next]_vars
  PROVE  CachesBacked'
<1>. SUFFICES ASSUME NEW d \in Devices PROVE Accounted(d)'
  BY DEF CachesBacked
<1>1. Accounted(d)
  BY DEF CachesBacked
<1>2. CASE UNCHANGED vars
  BY <1>1, <1>2 DEF vars, Accounted, AllOps
<1>3. ASSUME NEW c \in Devices, Step(c) \/ Environment(c), c # d
      PROVE  Accounted(d)'
  <2>1. AllOps(d) \subseteq AllOps(d)'
    BY NextIsJournalStep, AllOpsGrow
  <2>2. /\ mem'[d] = mem[d] /\ saved'[d] = saved[d]
        /\ file'[d] = file[d] /\ blobs'[d] = blobs[d]
    BY <1>3, StepIsLocal, StepLeavesFolders
  <2>. QED  BY <1>1, <2>1, <2>2, UntouchedStaysAccounted DEF Accounted
<1>4. ASSUME Step(d)
      PROVE  Accounted(d)'
  BY <1>1, <1>4, ScanAccounts, PullJournalAccounts, EndOfPullAccounts, ResolveAccounts,
     WriteAccounts, PushAccounts, EndAccounts DEF Step
<1>5. ASSUME Environment(d)
      PROVE  Accounted(d)'
  BY <1>1, <1>5, EndOfPullAccounts, PushAccounts, EndAccounts, UserAccounts
     DEF Environment, TornAppend
<1>. QED  BY <1>2, <1>3, <1>4, <1>5 DEF Next

\* No device starts with a cache.
LEMMA InitCachesBacked == Init => CachesBacked
<1>. SUFFICES ASSUME Init, NEW d \in Devices PROVE Accounted(d)
  BY DEF CachesBacked
<1>1. mem[d] = Idle /\ saved[d] = NothingSaved
  BY DEF Init
<1>2. Knows(file[d], blobs[d], AllOps(d), saved[d].cache)
  BY <1>1 DEF NothingSaved, Knows
<1>3. /\ mem[d].pulled = {} /\ mem[d].held = <<>>
      /\ Knows(file[d], blobs[d], AllOps(d) \union Range(mem[d].held), mem[d].cache)
  BY <1>1, IdleKnows
<1>. QED  BY <1>2, <1>3 DEF Accounted

-----------------------------------------------------------------------------
(* The theorems.                                                           *)

\* The whole of what the two theorems below need, as one invariant.
LEMMA CachesStayBacked ==
  ASSUME ~MayTear
  PROVE  Spec => []CachesBacked /\ []PushReady
<1>1. TypeOK /\ JournalChain /\ PushReady /\ CachesBacked /\ [Next]_vars =>
        PushReady' /\ CachesBacked'
  BY NextKeepsPushReady, NextKeepsCachesBacked
<1>. QED  BY <1>1, InitPushReady, InitCachesBacked, TypeCorrect, JournalsChain, PTL DEF Spec

\* A cache that calls a file unchanged knows its content, and the volume, or the
\* operations a joining device holds back until its pull has ended, can give
\* that content back: no scan passes over an edit nobody journaled.  For any
\* number of devices, clocks, users' writes, crashes and failed calls.
THEOREM CachesAreHonest ==
  ASSUME ~MayTear
  PROVE  Spec => []CacheHonest
<1>1. CachesBacked => CacheHonest
  BY DEF CachesBacked, Accounted, Knows, Backed, CacheHonest, Tells, Captured
<1>. QED  BY <1>1, CachesStayBacked, PTL

\* No step but the user's own writes over a file, or removes it, unless its
\* content is journaled and stored on that device: materialize checks a
\* fingerprint for what the cache tracks, and the content for what it does not.
THEOREM HistoryIsKept ==
  ASSUME ~MayTear
  PROVE  Spec => HistoryKeepsAll
<1>. DEFINE A == budget'.edits = budget.edits =>
                   \A d \in Devices : \A p \in DOMAIN file[d] :
                     Holds(file'[d], p) # file[d][p] => Captured(d, p, file[d][p])
<1>1. ASSUME TypeOK, PushReady, CachesBacked, [Next]_vars
      PROVE  [A]_vars
  <2>. SUFFICES ASSUME budget'.edits = budget.edits, NEW d \in Devices, NEW p \in DOMAIN file[d],
                       Holds(file'[d], p) # file[d][p]
                PROVE  Captured(d, p, file[d][p])
    OBVIOUS
  <2>1. Accounted(d)
    BY <1>1 DEF CachesBacked
  <2>2. CASE file'[d] = file[d]
    BY <2>2 DEF Holds
  <2>3. CASE Write(d)
    <3>1. PICK puts \in SUBSET DOMAIN Replay(Known(d)), got \in SUBSET hubB :
           LET target == Replay(Known(d))
               cache  == mem[d].cache
               dels   == Unlinks(file[d], cache, target)
           IN  /\ mem[d].pc = "write"
               /\ puts = Writes(file[d], cache, target, blobs[d] \union got)
               /\ file'[d] = [q \in (DOMAIN file[d] \union puts) \ dels |->
                                IF q \in puts THEN target[q] ELSE file[d][q]]
      BY <1>1, <2>3, WriteEffect
    <3>. DEFINE target == Replay(Known(d))
                cache  == mem[d].cache
                dels   == Unlinks(file[d], cache, target)
    <3>2. Range(mem[d].held) = {}
      BY <2>1, <3>1 DEF Accounted, Range
    <3>3. ASSUME p \in DOMAIN cache, cache[p].fresh
          PROVE  Captured(d, p, file[d][p])
      BY <2>1, <3>2, <3>3 DEF Accounted, Knows, Backed, Captured
    <3>4. CASE p \in dels
      BY <3>3, <3>4 DEF Unlinks, Gone
    <3>5. CASE p \in puts /\ p \notin dels
      <4>1. CASE p \in DOMAIN cache
        BY <3>1, <3>3, <3>5, <4>1 DEF Writes
      <4>2. CASE p \notin DOMAIN cache
        <5>1. Holds(file[d], p) \in {Absent, target[p]}
          BY <3>1, <3>5, <4>2 DEF Writes
        <5>2. file[d][p] # Absent
          BY <1>1, AbsentAssumption DEF TypeOK, OverPaths, Content
        <5>3. file[d][p] = target[p]
          BY <5>1, <5>2 DEF Holds
        <5>4. Holds(file'[d], p) = target[p]
          BY <3>1, <3>5 DEF Holds
        <5>. QED  BY <5>3, <5>4
      <4>. QED  BY <4>1, <4>2
    <3>6. CASE p \notin puts /\ p \notin dels
      <4>1. Holds(file'[d], p) = file[d][p]
        BY <3>1, <3>6 DEF Holds
      <4>. QED  BY <4>1
    <3>. QED  BY <3>4, <3>5, <3>6
  <2>4. file'[d] = file[d] \/ Write(d)
    <3>1. ASSUME NEW c \in Devices, Step(c), ~Write(c)
          PROVE  file' = file
      BY <3>1 DEF Step, Scan, PullJournal, EndPull, Resolve, PushBlobs, PushJournal, Finish
    <3>2. ASSUME NEW c \in Devices, Environment(c)
          PROVE  file' = file
      <4>1. budget.edits \in Nat
        BY <1>1 DEF TypeOK
      <4>2. ASSUME budget' = [budget EXCEPT !.edits = @ - 1] PROVE FALSE
        BY <1>1, <4>1, <4>2 DEF TypeOK
      <4>. QED  BY <3>2, <4>2 DEF Environment, PullOffline, PullForbidden, PushFails, Crash,
                   TornAppend, Edit, Delete
    <3>3. ASSUME NEW c \in Devices, Write(c), c # d
          PROVE  file'[d] = file[d]
      BY <1>1, <3>3, StepLeavesFolders DEF Step
    <3>. QED  BY <1>1, <3>1, <3>2, <3>3 DEF Next, vars
  <2>. QED  BY <2>2, <2>3, <2>4
<1>2. Spec => [][A]_vars
  <2>. HIDE DEF A
  <2>. QED  BY <1>1, CachesStayBacked, TypeCorrect, PTL DEF Spec
<1>. QED  BY <1>2 DEF HistoryKeepsAll

-----------------------------------------------------------------------------
(* Part 7.  Step 3 leaves no loser behind, while no append is torn.        *)

\* Of two operations one replays first.
LEMMA LessIsAsymmetric ==
  ASSUME NEW a \in Ops, NEW b \in Ops, Less(a, b)
  PROVE  ~Less(b, a)
<1>1. /\ a.lam \in Nat /\ a.time \in Nat /\ a.dev \in Nat /\ a.seq \in Nat
      /\ b.lam \in Nat /\ b.time \in Nat /\ b.dev \in Nat /\ b.seq \in Nat
  BY DevicesAssumption DEF Ops, Op
<1>. QED  BY <1>1 DEF Less

\* What replay makes of a path is the content of its greatest operation.
LEMMA ReplayHoldsGreatest ==
  ASSUME NEW ops \in SUBSET Ops, NEW p
  PROVE  /\ \A o \in Greatest(ops, p) : Holds(Replay(ops), p) = o.blob
         /\ Greatest(ops, p) = {} => Holds(Replay(ops), p) = Absent
<1>. DEFINE live == UNION {{o \in Greatest(ops, q) : IsPut(o)} : q \in {o.path : o \in ops}}
<1>1. \A q : \A a, b \in Greatest(ops, q) : a = b
  <2>. SUFFICES ASSUME NEW q, NEW a \in Greatest(ops, q), NEW b \in Greatest(ops, q), a # b
                PROVE  FALSE
    OBVIOUS
  <2>1. a \in Ops /\ b \in Ops /\ Less(a, b) /\ Less(b, a)
    BY DEF Greatest, At
  <2>. QED  BY <2>1, LessIsAsymmetric
<1>2. \A o \in live : o \in Greatest(ops, o.path) /\ IsPut(o)
  BY GreatestIsAmong
<1>3. \A o \in Greatest(ops, p) : IsPut(o) => o \in live /\ o.path = p
  BY GreatestIsAmong
<1>4. /\ DOMAIN Replay(ops) = {o.path : o \in live}
      /\ \A q \in {o.path : o \in live} : Replay(ops)[q] = (CHOOSE o \in live : o.path = q).blob
  BY DEF Replay
<1>. HIDE DEF live
<1>5. ASSUME NEW o \in Greatest(ops, p), IsPut(o)
      PROVE  Holds(Replay(ops), p) = o.blob
  <2>1. /\ (CHOOSE x \in live : x.path = p) \in live
        /\ (CHOOSE x \in live : x.path = p).path = p
    BY <1>3, <1>5
  <2>2. (CHOOSE x \in live : x.path = p) = o
    BY <1>1, <1>2, <2>1
  <2>. QED  BY <1>3, <1>4, <1>5, <2>2 DEF Holds
<1>6. ASSUME \A o \in Greatest(ops, p) : ~IsPut(o)
      PROVE  Holds(Replay(ops), p) = Absent
  <2>1. p \notin DOMAIN Replay(ops)
    BY <1>2, <1>4, <1>6
  <2>. QED  BY <2>1 DEF Holds
<1>7. ASSUME NEW o \in Greatest(ops, p)
      PROVE  Holds(Replay(ops), p) = o.blob
  <2>1. CASE IsPut(o)
    BY <1>5, <2>1
  <2>2. CASE ~IsPut(o)
    <3>1. \A x \in Greatest(ops, p) : ~IsPut(x)
      BY <1>1, <2>2
    <3>. QED  BY <1>6, <2>2, <3>1 DEF IsPut
  <2>. QED  BY <2>1, <2>2
<1>. QED  BY <1>6, <1>7

\* Operations at other paths leave it as it was.
LEMMA ReplayIsByPath ==
  ASSUME NEW ops \in SUBSET Ops, NEW more \in SUBSET Ops, NEW p,
         \A o \in more : o.path # p
  PROVE  Holds(Replay(ops \union more), p) = Holds(Replay(ops), p)
<1>1. Greatest(ops \union more, p) = Greatest(ops, p)
  BY DEF Greatest, At
<1>2. ops \union more \in SUBSET Ops
  OBVIOUS
<1>3. CASE Greatest(ops, p) = {}
  BY <1>1, <1>2, <1>3, ReplayHoldsGreatest
<1>4. ASSUME NEW o \in Greatest(ops, p)
      PROVE  Holds(Replay(ops \union more), p) = Holds(Replay(ops), p)
  <2>1. Holds(Replay(ops), p) = o.blob
    BY ReplayHoldsGreatest
  <2>2. Holds(Replay(ops \union more), p) = o.blob
    BY <1>1, <1>2, ReplayHoldsGreatest
  <2>. QED  BY <2>1, <2>2
<1>. QED  BY <1>3, <1>4

\* After a batch the last unpushed word on a path is of the batch, or it was the
\* last word before and the batch does not speak of the path.
LEMMA UnpushedAfterBatch ==
  ASSUME NEW mine \in Seq(Ops), NEW ops \in Seq(Ops), NEW pushed \in Nat,
         NEW m \in Unpushed(mine \o ops, pushed)
  PROVE  \/ m \in Unpushed(mine, pushed) /\ \A o \in Range(ops) : o.path # m.path
         \/ \E i \in DOMAIN ops : /\ m = ops[i]
                                  /\ \A j \in DOMAIN ops : i < j => ops[j].path # m.path
<1>. DEFINE all == mine \o ops
            n == Len(mine)
<1>1. /\ n \in Nat /\ Len(ops) \in Nat /\ DOMAIN ops = 1..Len(ops)
  BY LenProperties
<1>2. /\ Len(all) = n + Len(ops)
      /\ \A k \in 1 .. n + Len(ops) : all[k] = IF k <= n THEN mine[k] ELSE ops[k - n]
  BY ConcatProperties
<1>3. PICK i \in pushed + 1 .. Len(all) :
        /\ m = all[i]
        /\ m.note # "adopt"
        /\ \A j \in i + 1 .. Len(all) : all[j].path # m.path
  BY DEF Unpushed
<1>. HIDE DEF all, n
<1>4. i \in Nat /\ i \in 1 .. n + Len(ops)
  BY <1>1, <1>2, <1>3
<1>5. \A j \in DOMAIN ops : n + j \in 1 .. n + Len(ops) /\ all[n + j] = ops[j]
  BY <1>1, <1>2
<1>6. CASE i <= n
  <2>1. m = mine[i] /\ i \in pushed + 1 .. n
    BY <1>1, <1>2, <1>3, <1>4, <1>6
  <2>2. \A j \in i + 1 .. n : mine[j].path # m.path
    BY <1>1, <1>2, <1>3, <1>4, <1>6
  <2>3. m \in Unpushed(mine, pushed)
    BY <1>3, <2>1, <2>2 DEF Unpushed, n
  <2>4. ASSUME NEW j \in DOMAIN ops PROVE ops[j].path # m.path
    <3>1. n + j \in i + 1 .. Len(all)
      BY <1>1, <1>2, <1>4, <1>6
    <3>. QED  BY <1>3, <1>5, <3>1
  <2>. QED  BY <2>3, <2>4 DEF Range
<1>7. CASE ~(i <= n)
  <2>1. i - n \in DOMAIN ops /\ m = ops[i - n]
    BY <1>1, <1>2, <1>3, <1>4, <1>7
  <2>2. ASSUME NEW j \in DOMAIN ops, i - n < j PROVE ops[j].path # m.path
    <3>1. n + j \in i + 1 .. Len(all)
      BY <1>1, <1>2, <1>4, <2>2
    <3>. QED  BY <1>3, <1>5, <3>1
  <2>. QED  BY <2>1, <2>2
<1>. QED  BY <1>6, <1>7

\* What step 3 makes of one loser worth keeping: it is kept already, gets its
\* copy, or its path gets a merge.
LEMMA LoserIsSettled ==
  ASSUME NEW d \in Devices, NEW m \in Unpushed(mem[d].mine, mem[d].pushed),
         NEW l \in Losers(m, mem[d].pulled, Replay(Known(d))), l.path = m.path,
         IsPut(l), l.blob # Holds(Replay(Known(d)), m.path), l.blob \in blobs[d]
  PROVE  \/ CopyKept(d, l)
         \/ \E k \in conflictCopies(d) : k.path = conflictName(l.path, l) /\ k.blob = l.blob
         \/ \E k \in conflictCopies(d) : k.path = m.path
<1>. DEFINE state == Replay(Known(d))
            lost  == {x \in Losers(m, mem[d].pulled, state) : MustKeep(x, m.path, state, blobs[d])}
            merge == tryMerge(m, Greatest(mem[d].pulled, m.path), Known(d), blobs[d])
            kept  == Kept(m, mem[d].pulled, Known(d), blobs[d])
<1>1. kept \subseteq conflictCopies(d)
  BY DEF conflictCopies
<1>2. kept = IF lost = {} THEN {}
             ELSE IF merge # {} THEN {[path |-> m.path, blob |-> b, note |-> "merge"] : b \in merge}
             ELSE {[path |-> conflictName(m.path, x), blob |-> x.blob, note |-> "copy"] : x \in lost}
  BY DEF Kept
<1>3. l \in lost \/ Holds(state, conflictName(l.path, l)) = l.blob
  BY DEF MustKeep
<1>4. CASE Holds(state, conflictName(l.path, l)) = l.blob
  <2>1. /\ conflictName(l.path, l) \in DOMAIN Replay(Known(d))
        /\ Replay(Known(d))[conflictName(l.path, l)] = l.blob
    BY <1>4 DEF Holds, IsPut
  <2>. QED  BY <2>1, ReplayIsSaid DEF CopyKept
<1>. HIDE DEF state, lost, merge, kept
<1>5. CASE l \in lost /\ merge # {}
  <2>1. PICK b \in merge : [path |-> m.path, blob |-> b, note |-> "merge"] \in kept
    BY <1>2, <1>5
  <2>. QED  BY <1>1, <2>1
<1>6. CASE l \in lost /\ merge = {}
  <2>1. [path |-> conflictName(m.path, l), blob |-> l.blob, note |-> "copy"] \in kept
    BY <1>2, <1>6
  <2>. QED  BY <1>1, <2>1
<1>. QED  BY <1>3, <1>4, <1>5, <1>6

\* A copy is of content at hand; only a merge makes content.
LEMMA CopiesAreOfStored ==
  ASSUME NEW d \in Devices, NEW k \in conflictCopies(d)
  PROVE  k.note = "merge" \/ (k.note = "copy" /\ k.blob \in blobs[d])
<1>1. PICK m \in Unpushed(mem[d].mine, mem[d].pushed) :
        k \in Kept(m, mem[d].pulled, Known(d), blobs[d])
  BY DEF conflictCopies
<1>. DEFINE state == Replay(Known(d))
            lost  == {x \in Losers(m, mem[d].pulled, state) : MustKeep(x, m.path, state, blobs[d])}
            merge == tryMerge(m, Greatest(mem[d].pulled, m.path), Known(d), blobs[d])
<1>2. \A x \in lost : x.blob \in blobs[d]
  BY DEF MustKeep
<1>3. Kept(m, mem[d].pulled, Known(d), blobs[d]) =
        IF lost = {} THEN {}
        ELSE IF merge # {} THEN {[path |-> m.path, blob |-> b, note |-> "merge"] : b \in merge}
        ELSE {[path |-> conflictName(m.path, x), blob |-> x.blob, note |-> "copy"] : x \in lost}
  BY DEF Kept
<1>. HIDE DEF state, lost, merge
<1>. QED  BY <1>1, <1>2, <1>3

\* Why no loser can slip through: what a device journals it has stored, and the
\* content of a pulled operation that could not be had before step 3 is not
\* asked for again while the cycle runs.
Stored(d) ==
  /\ \A o \in Range(jour[d][d]) \union Range(mem[d].held) : IsPut(o) => o.blob \in blobs[d]
  /\ mem[d].pc \in {"resolve", "write"} /\ ~mem[d].blocked =>
       \A o \in mem[d].pulled : IsPut(o) => o.blob \in blobs[d] \union mem[d].tried

\* LoserKept at one device.
Settled(d) ==
  mem[d].pc \in {"write", "blobs", "journal"} =>
    \A m \in Unpushed(mem[d].mine, mem[d].pushed) : \A l \in AtRisk(d, m) :
      CopyKept(d, l) \/ (l # m /\ (l.blob \notin blobs[d] \/ MergedInto(d, l.blob)))

NothingLost == \A d \in Devices : Stored(d) /\ Settled(d)

\* Step 3 settles every collision its device has.
LEMMA ResolveSettles ==
  ASSUME TypeOK, JournalChain, PushReady, PushReady', NEW d \in Devices,
         Covers(d), Stored(d), Resolve(d)
  PROVE  Settled(d)'
<1>1. PICK ops \in Seq(Ops) :
        /\ \A o \in Range(ops) : mem[d].lam < o.lam
        /\ \A i \in DOMAIN ops : ops[i].lam = mem[d].lam + i
        /\ {[path |-> o.path, blob |-> o.blob, note |-> o.note] : o \in Range(ops)} = conflictCopies(d)
        /\ mem' = [mem EXCEPT ![d].pc = "write", ![d].mine = @ \o ops, ![d].lam = @ + Len(ops)]
        /\ Commit(d, ops)
        /\ blobs' = [blobs EXCEPT ![d] = @ \union {o.blob : o \in Range(ops)}]
  BY ResolveCommits
<1>2. /\ mem'[d].pc = "write" /\ mem'[d].mine = mem[d].mine \o ops
      /\ mem'[d].pushed = mem[d].pushed /\ mem'[d].pulled = mem[d].pulled
      /\ blobs'[d] = blobs[d] \union {o.blob : o \in Range(ops)}
      /\ mem[d].pc = "resolve"
  <2>1. d \in DOMAIN mem /\ CycleType(mem[d]) /\ d \in DOMAIN blobs
    BY DEF TypeOK
  <2>2. /\ mem'[d].pc = "write" /\ mem'[d].mine = mem[d].mine \o ops
        /\ mem'[d].pushed = mem[d].pushed /\ mem'[d].pulled = mem[d].pulled
    BY <1>1, <2>1 DEF CycleType
  <2>3. blobs'[d] = blobs[d] \union {o.blob : o \in Range(ops)}
    BY <1>1, <2>1
  <2>. QED  BY <2>2, <2>3 DEF Resolve
<1>3. /\ mem[d].mine \in Seq(Ops) /\ mem[d].pushed \in Nat /\ mem[d].lam \in Nat
      /\ mem[d].pulled \in SUBSET Ops /\ Known(d) \in SUBSET Ops /\ Range(ops) \in SUBSET Ops
      /\ DOMAIN ops \subseteq Nat
  <2>1. CycleType(mem[d])
    BY DEF TypeOK
  <2>2. DOMAIN ops = 1..Len(ops)
    BY LenProperties
  <2>3. Known(d) \in SUBSET Ops /\ Range(ops) \in SUBSET Ops
    BY KnownAreOps, RangeOfSeq
  <2>. QED  BY <2>1, <2>2, <2>3 DEF CycleType
<1>4. mem[d].mine = jour[d][d] /\ mem'[d].mine = jour'[d][d]
  BY <1>2 DEF PushReady, Whole
<1>5. Known(d)' = Known(d) \union Range(ops)
  <2>1. Known(d) = AllOps(d)
    BY <1>2, KnownIsVolume
  <2>2. AllOps(d)' \subseteq AllOps(d) \union Range(ops)
    BY <1>1, AppendAddsToAllOps DEF Commit
  <2>3. Range(ops) \subseteq AllOps(d)'
    BY <1>1, CommitAdds DEF PushReady, Whole
  <2>4. AllOps(d) \subseteq AllOps(d)'
    <3>1. [Next]_vars
      BY DEF Next, Step
    <3>. QED  BY <3>1, NextIsJournalStep, AllOpsGrow
  <2>5. Range(mem'[d].mine) \subseteq AllOps(d)'
    BY <1>4 DEF AllOps
  <2>6. AllOps(d)' \subseteq Known(d)' /\ Known(d)' \subseteq AllOps(d)' \union Range(mem'[d].mine)
    BY DEF Known
  <2>. QED  BY <2>1, <2>2, <2>3, <2>4, <2>5, <2>6
<1>6. SUFFICES ASSUME NEW m \in Unpushed(mem[d].mine \o ops, mem[d].pushed), NEW l \in AtRisk(d, m)'
               PROVE  CopyKept(d, l)' \/ (l # m /\ (l.blob \notin blobs'[d] \/ MergedInto(d, l.blob)'))
  BY <1>2 DEF Settled
<1>. DEFINE won == Holds(Replay(Known(d) \union Range(ops)), m.path)
<1>7. /\ IsPut(l) /\ l.blob # won
      /\ \/ l = m
         \/ m.note = "edit" /\ m.blob = won /\ l \in Greatest(mem[d].pulled, m.path)
  BY <1>2, <1>5 DEF AtRisk
<1>8. \A o \in Known(d) \union Range(ops) : o.path = conflictName(l.path, l) /\ o.blob = l.blob => CopyKept(d, l)'
  BY <1>5 DEF CopyKept
<1>9. CASE \E i \in DOMAIN ops : m = ops[i] /\ \A j \in DOMAIN ops : i < j => ops[j].path # m.path
  \* A copy or a merge of this very cycle is the last word on its path.
  <2>1. PICK i \in DOMAIN ops : m = ops[i] /\ \A j \in DOMAIN ops : i < j => ops[j].path # m.path
    BY <1>9
  <2>2. m \in Range(ops)
    BY <2>1 DEF Range
  <2>3. m \in Greatest(Known(d) \union Range(ops), m.path)
    <3>1. ASSUME NEW x \in Known(d) PROVE Less(x, m)
      <4>1. x.lam <= mem[d].lam /\ x.lam \in Nat /\ m.lam \in Nat
        BY <1>2, <1>3, <2>2, KnownIsVolume DEF Covers, Ops, Op
      <4>2. x.lam < m.lam
        BY <1>1, <1>3, <2>2, <4>1
      <4>. QED  BY <4>2 DEF Less
    <3>2. ASSUME NEW x \in Range(ops), x.path = m.path PROVE x = m \/ Less(x, m)
      <4>1. PICK j \in DOMAIN ops : x = ops[j]
        BY DEF Range
      <4>2. ~(i < j) /\ i \in Nat /\ j \in Nat
        BY <1>3, <2>1, <3>2, <4>1
      <4>3. x.lam = mem[d].lam + j /\ m.lam = mem[d].lam + i
        BY <1>1, <2>1, <4>1
      <4>4. i = j \/ x.lam < m.lam
        BY <1>3, <4>2, <4>3
      <4>. QED  BY <2>1, <4>1, <4>4 DEF Less
    <3>. QED  BY <2>2, <3>1, <3>2 DEF Greatest, At
  <2>4. won = m.blob
    BY <1>3, <2>3, ReplayHoldsGreatest
  <2>5. m.note # "edit"
    <3>1. [path |-> m.path, blob |-> m.blob, note |-> m.note] \in conflictCopies(d)
      BY <1>1, <2>2
    <3>. QED  BY <3>1, CopiesAreOfStored
  <2>. QED  BY <1>7, <2>4, <2>5
<1>10. CASE m \in Unpushed(mem[d].mine, mem[d].pushed) /\ \A o \in Range(ops) : o.path # m.path
  \* What was unpushed before: step 3 looked at it, and its path is as it was.
  <2>1. won = Holds(Replay(Known(d)), m.path)
    BY <1>3, <1>10, ReplayIsByPath
  <2>. HIDE DEF won
  <2>2. l \in Losers(m, mem[d].pulled, Replay(Known(d))) /\ l.path = m.path
    BY <1>7, <2>1, GreatestIsAmong DEF Losers
  <2>3. CASE l.blob \in blobs[d]
    <3>1. CASE CopyKept(d, l)
      BY <1>8, <3>1 DEF CopyKept
    <3>2. ASSUME NEW k \in conflictCopies(d), k.path = conflictName(l.path, l), k.blob = l.blob
          PROVE  CopyKept(d, l)'
      <4>1. PICK o \in Range(ops) : k = [path |-> o.path, blob |-> o.blob, note |-> o.note]
        BY <1>1
      <4>. QED  BY <1>8, <3>2, <4>1
    <3>3. ASSUME NEW k \in conflictCopies(d), k.path = m.path
          PROVE  FALSE
      <4>1. PICK o \in Range(ops) : k = [path |-> o.path, blob |-> o.blob, note |-> o.note]
        BY <1>1
      <4>. QED  BY <1>10, <3>3, <4>1
    <3>. QED  BY <1>7, <1>10, <2>1, <2>2, <2>3, <3>1, <3>2, <3>3, LoserIsSettled
  <2>4. CASE l.blob \notin blobs[d]
    <3>1. l # m
      <4>1. m \in Range(mem[d].mine)
        <5>1. DOMAIN mem[d].mine = 1..Len(mem[d].mine) /\ Len(mem[d].mine) \in Nat
          BY <1>3, LenProperties
        <5>2. PICK i \in mem[d].pushed + 1 .. Len(mem[d].mine) : m = mem[d].mine[i]
          BY <1>10 DEF Unpushed
        <5>3. i \in DOMAIN mem[d].mine
          BY <1>3, <5>1, <5>2
        <5>. QED  BY <5>2, <5>3 DEF Range
      <4>. QED  BY <1>4, <1>7, <2>4, <4>1 DEF Stored
    <3>2. ASSUME l.blob \in blobs'[d] PROVE MergedInto(d, l.blob)'
      <4>1. PICK o \in Range(ops) : o.blob = l.blob
        BY <1>2, <2>4, <3>2
      <4>2. [path |-> o.path, blob |-> o.blob, note |-> o.note] \in conflictCopies(d)
        BY <1>1
      <4>3. o.note = "merge"
        BY <2>4, <4>1, <4>2, CopiesAreOfStored
      <4>4. o \in Range(mem'[d].mine)
        BY <1>2, <1>3, RangeConcatenation
      <4>. QED  BY <4>1, <4>3, <4>4 DEF MergedInto
    <3>. QED  BY <3>1, <3>2
  <2>. QED  BY <2>3, <2>4
<1>. QED  BY <1>3, <1>9, <1>10, UnpushedAfterBatch

\* It stays settled while nothing is journaled and no content of a pulled
\* operation arrives.
LEMMA SettledStays ==
  ASSUME NEW d \in Devices, Settled(d),
         mem'[d].pc \in {"write", "blobs", "journal"} => mem[d].pc \in {"write", "blobs", "journal"},
         jour'[d] = jour[d], mem'[d].mine = mem[d].mine, mem'[d].pushed = mem[d].pushed,
         mem'[d].pulled = mem[d].pulled, mem'[d].blocked = mem[d].blocked,
         \A l \in mem[d].pulled : IsPut(l) /\ l.blob \in blobs'[d] => l.blob \in blobs[d]
  PROVE  Settled(d)'
<1>1. AllOps(d)' = AllOps(d)
  BY DEF AllOps
<1>2. Known(d)' = Known(d)
  BY <1>1 DEF Known
<1>3. SUFFICES ASSUME mem[d].pc \in {"write", "blobs", "journal"},
                      NEW m \in Unpushed(mem[d].mine, mem[d].pushed), NEW l \in AtRisk(d, m)'
               PROVE  CopyKept(d, l)' \/ (l # m /\ (l.blob \notin blobs'[d] \/ MergedInto(d, l.blob)'))
  BY DEF Settled
<1>4. l \in AtRisk(d, m)
  BY <1>2 DEF AtRisk
<1>5. CopyKept(d, l) \/ (l # m /\ (l.blob \notin blobs[d] \/ MergedInto(d, l.blob)))
  BY <1>3, <1>4 DEF Settled
<1>6. IsPut(l) /\ (l # m => l \in mem[d].pulled)
  BY <1>4, GreatestIsAmong DEF AtRisk
<1>. QED  BY <1>2, <1>5, <1>6 DEF CopyKept, MergedInto

\* Materializing asks for nothing the pull did not get.
LEMMA WriteSettles ==
  ASSUME TypeOK, NEW d \in Devices, Stored(d), Settled(d), Write(d)
  PROVE  Settled(d)'
<1>. DEFINE wants == IF mem[d].blocked THEN {} ELSE Backfill(d, Replay(Known(d)))
<1>0. PICK got \in SUBSET (wants \intersect hubB) :
        /\ blobs' = [blobs EXCEPT ![d] = @ \union got]
        /\ \E c : mem' = [mem EXCEPT ![d].pc = "blobs", ![d].cache = c]
  BY DEF Write
<1>1. PICK c : mem' = [mem EXCEPT ![d].pc = "blobs", ![d].cache = c]
  BY <1>0
<1>2. d \in DOMAIN mem /\ CycleType(mem[d]) /\ d \in DOMAIN blobs
  BY DEF TypeOK
<1>3. blobs'[d] = blobs[d] \union got
  BY <1>0, <1>2
<1>4. /\ mem'[d].mine = mem[d].mine /\ mem'[d].pushed = mem[d].pushed
      /\ mem'[d].pulled = mem[d].pulled /\ mem'[d].blocked = mem[d].blocked
  BY <1>1, <1>2 DEF CycleType
<1>5. mem[d].pc = "write" /\ jour' = jour
  BY DEF Write
<1>6. ASSUME NEW l \in mem[d].pulled, IsPut(l), l.blob \in blobs'[d]
      PROVE  l.blob \in blobs[d]
  <2>1. CASE mem[d].blocked
    BY <1>3, <1>6, <2>1
  <2>2. CASE ~mem[d].blocked
    <3>1. l.blob \in blobs[d] \union mem[d].tried
      BY <1>5, <1>6, <2>2 DEF Stored
    <3>2. got \intersect mem[d].tried = {}
      BY <2>2 DEF Backfill
    <3>. QED  BY <1>3, <1>6, <3>1, <3>2
  <2>. QED  BY <2>1, <2>2
<1>. QED  BY <1>4, <1>5, <1>6, SettledStays

\* Adoption journals what was held, under another clock and note.
LEMMA AdoptedIsHeld ==
  ASSUME TypeOK, NEW d \in Devices, NEW ops \in Adopted(d), NEW o \in Range(ops)
  PROVE  \E h \in Range(mem[d].held) : h.blob = o.blob
<1>. DEFINE m == mem[d]
            project == m.pulled \union (IF m.mount THEN AllOps(d) ELSE {})
            same(q) == IsPut(q) /\ \E w \in Greatest(project, q.path) : w.blob = q.blob
            kept == {i \in DOMAIN m.held : ~(m.mount /\ same(m.held[i]))}
<1>1. PICK order \in Ascending(kept) : ops =
        [i \in DOMAIN order |->
          [Adopt(m.held[order[i]], project) EXCEPT !.seq = Len(m.mine) + i]]
  BY DEF Adopted
<1>2. PICK i \in DOMAIN order :
        o = [Adopt(m.held[order[i]], project) EXCEPT !.seq = Len(m.mine) + i]
  BY <1>1 DEF Range
<1>3. order[i] \in DOMAIN m.held
  <2>1. Range(order) = kept
    BY OrdersAreSequences DEF Ascending
  <2>. QED  BY <2>1 DEF Range
<1>4. m.held[order[i]] \in Range(m.held)
  BY <1>3 DEF Range
<1>5. m.held[order[i]] \in Ops
  BY <1>4, RangeOfSeq DEF TypeOK, CycleType
<1>. DEFINE h == m.held[order[i]]
<1>6. o = [Adopt(h, project) EXCEPT !.seq = Len(m.mine) + i] /\ h \in Ops /\ h \in Range(m.held)
  BY <1>2, <1>4, <1>5
<1>. HIDE DEF h, project
<1>7. Adopt(h, project) \in Ops /\ Adopt(h, project).blob = h.blob
  BY <1>6 DEF Adopt, Ops, Op, Notes
<1>8. o.blob = h.blob
  BY <1>6, <1>7 DEF Ops, Op
<1>. QED  BY <1>6, <1>8

\* What a device journals or holds back it stores first.
LEMMA CommitStores ==
  ASSUME TypeOK, NEW d \in Devices, Whole(d), Stored(d), NEW ops \in Seq(Ops), Commit(d, ops),
         blobs[d] \subseteq blobs'[d], \A o \in Range(ops) : IsPut(o) => o.blob \in blobs'[d]
  PROVE  \A o \in Range(jour'[d][d]) : IsPut(o) => o.blob \in blobs'[d]
<1>1. jour[d][d] \in Seq(Ops) /\ jour'[d][d] = jour[d][d] \o ops
  BY CommitIsConcat DEF TypeOK, Whole
<1>2. Range(jour'[d][d]) = Range(jour[d][d]) \union Range(ops)
  BY <1>1, RangeConcatenation
<1>. QED  BY <1>2 DEF Stored

\* The scan stores what it journals or holds back; a fetched journal is a peer's.
LEMMA ScanStores ==
  ASSUME TypeOK, JournalChain, NEW d \in Devices, Whole(d), Stored(d), blobs[d] \subseteq blobs'[d],
         Scan(d) \/ \E e \in Devices : PullJournal(d, e)
  PROVE  Stored(d)' /\ mem'[d].pc = "pull"
<1>1. d \in DOMAIN mem /\ CycleType(mem[d]) /\ d \in DOMAIN blobs
  BY DEF TypeOK
<1>2. CASE Scan(d)
  <2>1. PICK lam \in Rederived(d) :
          \E order \in Orders(Dirty(file[d], saved[d].cache)) :
       LET own == jour[d][d]
           ops == ScanOps(d, order, file[d], lam, Len(own))
       IN  /\ blobs' = [blobs EXCEPT ![d] = @ \union ({o.blob : o \in Range(ops)} \ {Absent})]
           /\ \/ /\ Joining(d)
                 /\ mem' = [mem EXCEPT ![d] = Started(d, lam + Len(ops), own, ops)]
                 /\ UNCHANGED <<jour, torn>>
              \/ /\ ~Joining(d)
                 /\ mem' = [mem EXCEPT ![d] = Started(d, lam + Len(ops), own \o ops, <<>>)]
                 /\ Commit(d, ops)
    BY <1>2 DEF Scan
  <2>2. PICK order \in Orders(Dirty(file[d], saved[d].cache)) :
       LET own == jour[d][d]
           ops == ScanOps(d, order, file[d], lam, Len(own))
       IN  /\ blobs' = [blobs EXCEPT ![d] = @ \union ({o.blob : o \in Range(ops)} \ {Absent})]
           /\ \/ /\ Joining(d)
                 /\ mem' = [mem EXCEPT ![d] = Started(d, lam + Len(ops), own, ops)]
                 /\ UNCHANGED <<jour, torn>>
              \/ /\ ~Joining(d)
                 /\ mem' = [mem EXCEPT ![d] = Started(d, lam + Len(ops), own \o ops, <<>>)]
                 /\ Commit(d, ops)
    BY <2>1
  <2>. DEFINE ops == ScanOps(d, order, file[d], lam, Len(jour[d][d]))
  <2>3. ops \in Seq(Ops)
    BY ScanTyped
  <2>. HIDE DEF ops
  <2>4. blobs'[d] = blobs[d] \union ({o.blob : o \in Range(ops)} \ {Absent})
    BY <1>1, <2>2 DEF ops
  <2>5. \A o \in Range(ops) : IsPut(o) => o.blob \in blobs'[d]
    BY <2>4 DEF IsPut
  <2>6. CASE mem' = [mem EXCEPT ![d] = Started(d, lam + Len(ops), jour[d][d], ops)]
             /\ UNCHANGED <<jour, torn>>
    <3>1. mem'[d].pc = "pull" /\ mem'[d].held = ops
      BY <1>1, <2>6 DEF Started
    <3>. QED  BY <2>5, <2>6, <3>1 DEF Stored
  <2>7. CASE mem' = [mem EXCEPT ![d] = Started(d, lam + Len(ops), jour[d][d] \o ops, <<>>)]
             /\ Commit(d, ops)
    <3>1. mem'[d].pc = "pull" /\ Range(mem'[d].held) = {}
      BY <1>1, <2>7 DEF Started, Range
    <3>2. \A o \in Range(jour'[d][d]) : IsPut(o) => o.blob \in blobs'[d]
      BY <2>3, <2>5, <2>7, CommitStores
    <3>. QED  BY <3>1, <3>2 DEF Stored
  <2>. QED  BY <2>2, <2>6, <2>7 DEF ops
<1>3. ASSUME NEW e \in Devices, PullJournal(d, e) PROVE Stored(d)' /\ mem'[d].pc = "pull"
  <2>1. jour'[d][d] = IF e = d /\ Len(hubJ[d]) > Len(jour[d][d]) THEN hubJ[d] ELSE jour[d][d]
    BY <1>3 DEF PullJournal, TypeOK
  <2>2. /\ Len(hubJ[d]) \in Nat /\ Len(jour[d][d]) \in Nat
        /\ Len(hubJ[d]) <= Len(jour[d][d])
    BY LenProperties DEF TypeOK, JournalChain, IsPrefix
  <2>3. jour'[d][d] = jour[d][d]
    BY <2>1, <2>2
  <2>4. mem'[d].pc = "pull" /\ mem'[d].held = mem[d].held
    BY <1>1, <1>3 DEF PullJournal, CycleType
  <2>. QED  BY <2>3, <2>4 DEF Stored
<1>. QED  BY <1>2, <1>3

\* The pull has asked for every content it wanted, or the cycle is cut off.
LEMMA EndOfPullStores ==
  ASSUME TypeOK, NEW d \in Devices, Whole(d), Stored(d), blobs[d] \subseteq blobs'[d],
         EndPull(d) \/ PullOffline(d) \/ PullForbidden(d)
  PROVE  Stored(d)' /\ mem'[d].pc \in {"resolve", "finish"}
<1>1. d \in DOMAIN mem /\ CycleType(mem[d])
  BY DEF TypeOK
<1>2. PICK ops \in Seq(Ops), next \in {"resolve", "finish"}, blocked \in BOOLEAN :
        /\ PullOver(d, ops, next, blocked)
        /\ \A o \in Range(ops) : \E h \in Range(mem[d].held) : h.blob = o.blob
  <2>1. CASE PullForbidden(d)
    BY <1>1, <2>1 DEF PullForbidden, CycleType
  <2>2. CASE EndPull(d) \/ PullOffline(d)
    <3>1. PICK ops \in Adopted(d), blocked \in BOOLEAN : PullOver(d, ops, "resolve", blocked)
      BY <2>2 DEF EndPull, PullOffline
    <3>. QED  BY <3>1, AdoptedAreOps, AdoptedIsHeld
  <2>. QED  BY <2>1, <2>2
<1>3. \A o \in Range(ops) : IsPut(o) => o.blob \in blobs'[d]
  BY <1>2 DEF Stored, IsPut
<1>4. \A o \in Range(jour'[d][d]) : IsPut(o) => o.blob \in blobs'[d]
  BY <1>2, <1>3, CommitStores DEF PullOver
<1>5. PICK lam : mem' = [mem EXCEPT ![d].pc = next, ![d].lam = lam, ![d].mine = @ \o ops,
                          ![d].held = <<>>, ![d].blocked = blocked,
                          ![d].tried = IF blocked THEN {} ELSE Wanted(d)]
  BY <1>2 DEF PullOver
<1>6. /\ mem'[d].pc = next /\ Range(mem'[d].held) = {} /\ mem'[d].blocked = blocked
      /\ mem'[d].pulled = mem[d].pulled
      /\ mem'[d].tried = IF blocked THEN {} ELSE Wanted(d)
  BY <1>1, <1>5 DEF CycleType, Range
<1>7. ASSUME ~blocked, NEW o \in mem[d].pulled, IsPut(o)
      PROVE  o.blob \in blobs'[d] \union mem'[d].tried
  BY <1>6, <1>7 DEF Wanted, IsPut
<1>. QED  BY <1>4, <1>6, <1>7 DEF Stored

\* Every later step journals what is stored and asks for nothing.
LEMMA LaterStepsStore ==
  ASSUME TypeOK, NEW d \in Devices, Whole(d), Stored(d), blobs[d] \subseteq blobs'[d],
         \/ Resolve(d) \/ Write(d) \/ PushBlobs(d) \/ PushJournal(d) \/ PushFails(d)
         \/ Finish(d) \/ Crash(d)
         \/ \E n \in Names, l \in Lines : Edit(d, n, l)
         \/ \E p \in DOMAIN file[d] : Delete(d, p)
  PROVE  Stored(d)'
<1>1. d \in DOMAIN mem /\ CycleType(mem[d]) /\ d \in DOMAIN blobs
  BY DEF TypeOK
<1>2. CASE Resolve(d)
  <2>1. PICK ops \in Seq(Ops) :
          /\ mem' = [mem EXCEPT ![d].pc = "write", ![d].mine = @ \o ops, ![d].lam = @ + Len(ops)]
          /\ Commit(d, ops)
          /\ blobs' = [blobs EXCEPT ![d] = @ \union {o.blob : o \in Range(ops)}]
    BY <1>2, ResolveCommits
  <2>2. blobs'[d] = blobs[d] \union {o.blob : o \in Range(ops)}
    BY <1>1, <2>1
  <2>3. \A o \in Range(jour'[d][d]) : IsPut(o) => o.blob \in blobs'[d]
    BY <2>1, <2>2, CommitStores
  <2>4. /\ mem'[d].held = mem[d].held /\ mem'[d].pulled = mem[d].pulled
        /\ mem'[d].tried = mem[d].tried /\ mem'[d].blocked = mem[d].blocked
    BY <1>1, <2>1 DEF CycleType
  <2>. QED  BY <1>2, <2>3, <2>4 DEF Stored, Resolve
<1>3. CASE Write(d)
  <2>1. PICK c : mem' = [mem EXCEPT ![d].pc = "blobs", ![d].cache = c]
    BY <1>3 DEF Write
  <2>2. mem'[d].pc = "blobs" /\ mem'[d].held = mem[d].held
    BY <1>1, <2>1 DEF CycleType
  <2>. QED  BY <1>3, <2>2 DEF Stored, Write
<1>4. CASE PushBlobs(d) \/ PushJournal(d) \/ PushFails(d)
  <2>1. /\ mem'[d].pc \in {"journal", "finish"} /\ mem'[d].held = mem[d].held /\ jour' = jour
    BY <1>1, <1>4 DEF PushBlobs, PushJournal, PushFails, CycleType
  <2>. QED  BY <2>1 DEF Stored
<1>5. CASE Finish(d) \/ Crash(d)
  <2>1. mem'[d].pc = "idle" /\ Range(mem'[d].held) = {} /\ jour' = jour
    BY <1>1, <1>5 DEF Finish, Crash, Idle, Range
  <2>. QED  BY <2>1 DEF Stored
<1>6. CASE \/ \E n \in Names, l \in Lines : Edit(d, n, l)
           \/ \E p \in DOMAIN file[d] : Delete(d, p)
  <2>1. PICK p : mem' = [mem EXCEPT ![d].cache = Stale(@, {p})]
    BY <1>6 DEF Edit, Delete
  <2>2. /\ mem'[d].pc = mem[d].pc /\ mem'[d].held = mem[d].held
        /\ mem'[d].pulled = mem[d].pulled /\ mem'[d].tried = mem[d].tried
        /\ mem'[d].blocked = mem[d].blocked
    BY <1>1, <2>1 DEF CycleType
  <2>3. jour' = jour
    BY <1>6 DEF Edit, Delete
  <2>. QED  BY <2>2, <2>3 DEF Stored
<1>. QED  BY <1>2, <1>3, <1>4, <1>5, <1>6

\* The steps after step 3 journal nothing, and leave the pulled set alone.
LEMMA LaterStepsSettle ==
  ASSUME TypeOK, NEW d \in Devices, Settled(d),
         \/ PushBlobs(d) \/ PushJournal(d) \/ PushFails(d) \/ Finish(d) \/ Crash(d)
         \/ \E n \in Names, l \in Lines : Edit(d, n, l)
         \/ \E p \in DOMAIN file[d] : Delete(d, p)
  PROVE  Settled(d)'
<1>1. d \in DOMAIN mem /\ CycleType(mem[d])
  BY DEF TypeOK
<1>2. CASE mem'[d].pc \in {"idle", "finish"}
  BY <1>2 DEF Settled
<1>3. CASE PushBlobs(d) /\ mem'[d].pc = "journal"
  <2>1. /\ mem[d].pc = "blobs" /\ mem' = [mem EXCEPT ![d].pc = "journal"]
        /\ jour' = jour /\ blobs' = blobs
    BY <1>1, <1>3 DEF PushBlobs, CycleType
  <2>2. /\ mem'[d].mine = mem[d].mine /\ mem'[d].pushed = mem[d].pushed
        /\ mem'[d].pulled = mem[d].pulled /\ mem'[d].blocked = mem[d].blocked
    BY <1>1, <2>1 DEF CycleType
  <2>. QED  BY <2>1, <2>2, SettledStays
<1>4. CASE \/ \E n \in Names, l \in Lines : Edit(d, n, l)
           \/ \E p \in DOMAIN file[d] : Delete(d, p)
  <2>1. PICK p : mem' = [mem EXCEPT ![d].cache = Stale(@, {p})]
    BY <1>4 DEF Edit, Delete
  <2>2. /\ mem'[d].mine = mem[d].mine /\ mem'[d].pushed = mem[d].pushed
        /\ mem'[d].pulled = mem[d].pulled /\ mem'[d].blocked = mem[d].blocked
        /\ mem'[d].pc = mem[d].pc
    BY <1>1, <2>1 DEF CycleType
  <2>3. jour' = jour /\ blobs' = blobs
    BY <1>4 DEF Edit, Delete
  <2>. QED  BY <2>2, <2>3, SettledStays
<1>5. CASE PushBlobs(d) /\ mem'[d].pc # "journal"
  <2>1. mem'[d].pc = "finish"
    BY <1>1, <1>5 DEF PushBlobs, CycleType
  <2>. QED  BY <1>2, <2>1
<1>6. CASE PushJournal(d) \/ PushFails(d)
  <2>1. mem'[d].pc = "finish"
    BY <1>1, <1>6 DEF PushJournal, PushFails, CycleType
  <2>. QED  BY <1>2, <2>1
<1>7. CASE Finish(d) \/ Crash(d)
  <2>1. mem'[d].pc = "idle"
    BY <1>1, <1>7 DEF Finish, Crash, Idle
  <2>. QED  BY <1>2, <2>1
<1>. QED  BY <1>3, <1>4, <1>5, <1>6, <1>7

\* While no append is torn, every step leaves every device settled.
LEMMA NextLosesNothing ==
  ASSUME ~MayTear, TypeOK, JournalChain, PushReady, PushReady', ClockCovers, NothingLost,
         [Next]_vars
  PROVE  NothingLost'
<1>. SUFFICES ASSUME NEW d \in Devices PROVE Stored(d)' /\ Settled(d)'
  BY DEF NothingLost
<1>1. Whole(d) /\ Covers(d) /\ Stored(d) /\ Settled(d) /\ blobs[d] \subseteq blobs'[d]
  BY BlobsGrow DEF PushReady, ClockCovers, NothingLost
<1>2. ASSUME mem'[d] = mem[d], jour'[d] = jour[d], blobs'[d] = blobs[d]
      PROVE  Stored(d)' /\ Settled(d)'
  <2>1. Settled(d)'
    BY <1>1, <1>2, SettledStays
  <2>. QED  BY <1>1, <1>2, <2>1 DEF Stored
<1>3. CASE UNCHANGED vars
  BY <1>2, <1>3 DEF vars
<1>4. ASSUME NEW c \in Devices, Step(c) \/ Environment(c), c # d
      PROVE  Stored(d)' /\ Settled(d)'
  BY <1>2, <1>4, StepIsLocal, StepLeavesFolders
<1>5. CASE Scan(d) \/ \E e \in Devices : PullJournal(d, e)
  <2>1. Stored(d)' /\ mem'[d].pc = "pull"
    BY <1>1, <1>5, ScanStores
  <2>. QED  BY <2>1 DEF Settled
<1>6. CASE EndPull(d) \/ PullOffline(d) \/ PullForbidden(d)
  <2>1. Stored(d)' /\ mem'[d].pc \in {"resolve", "finish"}
    BY <1>1, <1>6, EndOfPullStores
  <2>. QED  BY <2>1 DEF Settled
<1>7. CASE Resolve(d)
  BY <1>1, <1>7, LaterStepsStore, ResolveSettles
<1>8. CASE Write(d)
  BY <1>1, <1>8, LaterStepsStore, WriteSettles
<1>9. CASE \/ PushBlobs(d) \/ PushJournal(d) \/ PushFails(d) \/ Finish(d) \/ Crash(d)
           \/ \E n \in Names, l \in Lines : Edit(d, n, l)
           \/ \E p \in DOMAIN file[d] : Delete(d, p)
  BY <1>1, <1>9, LaterStepsStore, LaterStepsSettle
<1>. QED  BY <1>3, <1>4, <1>5, <1>6, <1>7, <1>8, <1>9 DEF Next, Step, Environment, TornAppend

\* No device starts with a journal or a cycle.
LEMMA InitNothingLost == Init => NothingLost
<1>. SUFFICES ASSUME Init, NEW d \in Devices PROVE Stored(d) /\ Settled(d)
  BY DEF NothingLost
<1>1. mem[d] = Idle /\ jour[d][d] = <<>>
  BY DEF Init
<1>. QED  BY <1>1 DEF Stored, Settled, Idle, Range

\* Once step 3 is over, an unpushed version that replay passed over has a
\* conflict copy in this device's journals, and so has the pulled version an
\* unpushed edit beat, unless its content could not be had or a merge came to
\* it: for any number of devices, skewed clocks, crashes, failed pushes and
\* cycles that find the collision only later.
THEOREM NoLoserIsDropped ==
  ASSUME ~MayTear
  PROVE  Spec => []LoserKept
<1>1. TypeOK /\ JournalChain /\ PushReady /\ ClockCovers /\ NothingLost /\ [Next]_vars =>
        PushReady' /\ ClockCovers'
  BY NextKeepsPushReady, NextKeepsClockCovers
<1>2. TypeOK /\ JournalChain /\ PushReady /\ PushReady' /\ ClockCovers /\ NothingLost /\ [Next]_vars =>
        NothingLost'
  BY NextLosesNothing
<1>3. NothingLost => LoserKept
  BY DEF NothingLost, Settled, LoserKept
<1>. QED  BY <1>1, <1>2, <1>3, InitPushReady, InitClockCovers, InitNothingLost, TypeCorrect,
            JournalsChain, PTL DEF Spec

=============================================================================
