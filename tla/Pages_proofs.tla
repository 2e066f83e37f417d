----------------------------- MODULE Pages_proofs -----------------------------
(***************************************************************************)
(* What holds of seven pages of a tab, for any values of their constants:   *)
(* of the settings, of the text that merges into an editor, of the          *)
(* activity feed, of the sidebar, of a meeting note, of the dashboard and   *)
(* of the text a comment quotes. A page is followed on its own; s1 .. s16   *)
(* stand for its variables, as MCSurfaces composes them, and what is        *)
(* proved of a page is of its instance.                                     *)
(***************************************************************************)
EXTENDS Integers, Sequences, FiniteSets, TLAPS, FiniteSetTheorems, WellFoundedInduction

CONSTANTS
  Records, Values, MaxCalls, MaxOthers, \* of Settings, the last of MeetingNote too
  FeedLogs, FeedPaths, FeedContents, PageSize, FeedWrites, \* of HistoryFeed
  Characters, NL, TextLen, CELL_BUDGET, \* of TextDiff
  PageLetters, PageContext, PageLen, PageEdits, \* of TextAnchor
  TreePaths, TreeCopies, TreeSystem, TreeCap, TreeChanges, MaxActs, \* of Sidebar
  NoteNames, OwnNames, Nobody, NoteStarts, MaxLines, MaxEdits, \* of MeetingNote
  InsightPlaces, InsightStart, InsightScopes, HotReads, MaxReads, MaxChanges \* of Dashboard

VARIABLES s1, s2, s3, s4, s5, s6, s7, s8, s9, s10, s11, s12, s13, s14, s15, s16

A == INSTANCE TextAnchor WITH
  Letters <- PageLetters, Context <- PageContext, MaxLen <- PageLen, MaxEdits <- PageEdits,
  all <- s1, marked <- s2, anchor <- s3, edits <- s4
D == INSTANCE Dashboard WITH
  Places <- InsightPlaces, Start <- InsightStart, Scopes <- InsightScopes,
  stored <- s1, ledger <- s2, late <- s3, changes <- s4, tree <- s5, heat <- s6,
  answers <- s7, lens <- s8, hot <- s9, scope <- s10
H == INSTANCE HistoryFeed WITH
  Paths <- FeedPaths, Contents <- FeedContents, Logs <- FeedLogs, MaxWrites <- FeedWrites,
  log <- s1, ops <- s2, filter <- s3, pages <- s4, fetch <- s5, feedState <- s6,
  slow <- s7, stale <- s8, sel <- s9, dialog <- s10, post <- s11
L == INSTANCE TextDiff WITH
  Letters <- Characters, MaxLen <- TextLen, versions <- s1, arrived <- s2
M == INSTANCE MeetingNote WITH
  Names <- NoteNames, Mine <- OwnNames, Notes <- NoteStarts, MaxPeer <- MaxOthers,
  note <- s1, live <- s2, carry <- s3, blocked <- s4, held <- s5, loose <- s6,
  edits <- s7, others <- s8, done <- s9, undone <- s10
N == INSTANCE Sidebar WITH
  Paths <- TreePaths, Copies <- TreeCopies, System <- TreeSystem, Cap <- TreeCap,
  MaxChanges <- TreeChanges,
  follow <- s1, files <- s2, tree <- s3, expanded <- s4, showAll <- s5, order <- s6,
  query <- s7, treePath <- s8, now <- s9, acts <- s10, here <- s11, stored <- s12,
  baseline <- s13, pins <- s14, stale <- s15, kept <- s16
T == INSTANCE Settings WITH
  Rows <- Records,
  follow <- s1, hub <- s2, list <- s3, calls <- s4, made <- s5, others <- s6, behind <- s7,
  unsure <- s8, modal <- s9, form <- s10, lost <- s11

Bounds == Records # {}

ASSUME PagesSound ==
  Bounds /\ A!ConstantsSound /\ H!ConstantsSound /\ N!ConstantsSound /\ M!ConstantsSound

-----------------------------------------------------------------------------
(* Settings.  s1 is the list or the form, s2 its rows on the hub, s3 the     *)
(* listing this tab caches, s4 the writes under way, s7 and s8 whether       *)
(* others changed it, or a write failed, since; s9 is the dialog, s10 the    *)
(* form and s11 the keys that were taken off the screen unseen.              *)
-----------------------------------------------------------------------------
(* The state                                                               *)

Listing == [data : T!Tables, read : BOOLEAN, asked : BOOLEAN, got : SUBSET T!Tables]
Call == [n : Nat, does : {"add", "set", "del"}, put : T!Tables, row : SUBSET Records,
         all : T!Tables, answer : {"none", "ok", "error"}]
Dialog == [does : {"nothing", "add", "del", "key"}, row : SUBSET Records]
Filled == [seed : T!Tables, held : T!Tables, sending : BOOLEAN]

\* A listing that was never read is asked for, and what was sent is asked for.
Sound(q) ==
  /\ q \in Listing
  /\ ~q.read \/ q.got # {} => q.asked
  /\ \A t, u \in q.got : t = u

Typed ==
  /\ s1 \in T!Lists \cup T!Forms /\ s5 \in Nat
  /\ s2 \in T!Tables /\ Sound(s3)
  /\ s7 \in BOOLEAN /\ s8 \in BOOLEAN
  /\ s4 \subseteq Call
  /\ s9 \in Dialog /\ s11 \subseteq Records
  /\ s10 \in Filled /\ DOMAIN s10.held = DOMAIN s10.seed

-----------------------------------------------------------------------------
(* Tables *)

LEMMA IsTable ==
  ASSUME NEW t
  PROVE  t \in T!Tables <=> DOMAIN t \in SUBSET Records /\ t \in [DOMAIN t -> Values]
BY DEF T!Tables

\* What the writes send and what they make of the hub's rows.
LEMMA TablesMade ==
  /\ T!None \in T!Tables
  /\ \A r \in Records, v \in Values : T!Only(r, v) \in T!Tables
  /\ \A t, u \in T!Tables : T!Over(t, u) \in T!Tables
  /\ \A t \in T!Tables, r \in Records : T!Without(t, r) \in T!Tables
  /\ \A t \in T!Tables : \A S \in SUBSET DOMAIN t : [x \in S |-> t[x]] \in T!Tables
  /\ \A t \in T!Tables, v \in Values : \A r \in DOMAIN t : [t EXCEPT ![r] = v] \in T!Tables
<1>1. T!None \in T!Tables
  BY IsTable DEF T!None
<1>2. ASSUME NEW r \in Records, NEW v \in Values
      PROVE  T!Only(r, v) \in T!Tables
  BY IsTable DEF T!Only
<1>3. ASSUME NEW t \in T!Tables, NEW u \in T!Tables
      PROVE  T!Over(t, u) \in T!Tables
  <2>1. DOMAIN t \in SUBSET Records /\ t \in [DOMAIN t -> Values]
    BY IsTable
  <2>2. DOMAIN u \in SUBSET Records /\ u \in [DOMAIN u -> Values]
    BY IsTable
  <2>3. T!Over(t, u) = [x \in DOMAIN t \cup DOMAIN u |-> IF x \in DOMAIN t THEN t[x] ELSE u[x]]
    BY DEF T!Over
  <2>. QED  BY <2>1, <2>2, <2>3, IsTable
<1>4. ASSUME NEW t \in T!Tables, NEW S \in SUBSET DOMAIN t
      PROVE  [x \in S |-> t[x]] \in T!Tables
  <2>1. DOMAIN t \in SUBSET Records /\ t \in [DOMAIN t -> Values]
    BY IsTable
  <2>. QED  BY <2>1, IsTable
<1>5. ASSUME NEW t \in T!Tables, NEW r \in Records
      PROVE  T!Without(t, r) \in T!Tables
  BY <1>4 DEF T!Without
<1>6. ASSUME NEW t \in T!Tables, NEW v \in Values, NEW r \in DOMAIN t
      PROVE  [t EXCEPT ![r] = v] \in T!Tables
  <2>1. DOMAIN t \in SUBSET Records /\ t \in [DOMAIN t -> Values]
    BY IsTable
  <2>. QED  BY <2>1, IsTable
<1>. QED  BY <1>1, <1>2, <1>3, <1>4, <1>5, <1>6

-----------------------------------------------------------------------------
(* The types are kept                                                      *)

LEMMA ReloadTyped ==
  ASSUME Typed, T!reload
  PROVE  Sound(s3') /\ s7' \in BOOLEAN
BY DEF Typed, T!reload, T!Again, Sound, Listing

LEMMA EmitTyped ==
  ASSUME Typed, NEW next \in Dialog, T!emit(next)
  PROVE  s9' \in Dialog /\ s11' \subseteq Records
BY DEF Typed, T!emit, Dialog

LEMMA SendTyped ==
  ASSUME Typed, NEW does \in {"add", "set", "del"}, NEW put \in T!Tables, NEW row \in SUBSET Records,
         NEW all \in T!Tables, T!Send(does, put, row, all)
  PROVE  s5' \in Nat /\ s4' \subseteq Call
BY DEF Typed, T!Send, Call

LEMMA ShownRows ==
  ASSUME Typed
  PROVE  /\ T!Shown \subseteq Records /\ DOMAIN s2 \subseteq Records
         /\ T!Dirty \subseteq Records /\ T!body \in T!Tables /\ s10.held \in T!Tables
<1>1. T!Shown \subseteq Records /\ DOMAIN s2 \subseteq Records
  BY IsTable DEF Typed, T!Shown, Sound, Listing
<1>2. s10.held \in T!Tables /\ T!Dirty \subseteq DOMAIN s10.held
  BY DEF Typed, Filled, T!Dirty
<1>3. T!body \in T!Tables
  BY <1>2, TablesMade DEF T!body
<1>. QED  BY <1>1, <1>2, <1>3, IsTable

LEMMA InitTyped ==
  ASSUME Bounds, T!Init
  PROVE  Typed
<1>1. T!Fields \subseteq Records
  BY DEF Bounds, T!Fields
<1>2. s2 \in T!Tables
  BY <1>1 DEF T!Init, T!Tables
<1>3. s3 \in Listing
  BY <1>2, TablesMade DEF T!Init, Listing
<1>4. Sound(s3)
  BY <1>3 DEF T!Init, Sound
<1>5. s10 \in Filled /\ DOMAIN s10.held = DOMAIN s10.seed
  BY <1>2, TablesMade DEF T!Init, T!Seeded, Filled
<1>. QED  BY <1>2, <1>4, <1>5 DEF T!Init, Typed, T!NoModal, Dialog

\* The steps, by what they touch.
Reading == T!Ask \/ T!Answer
Asking == T!AppNew \/ T!addPerson \/ T!MemberRemove \/ T!InviteRevoke \/ T!AppDelete \/ T!KeyRevoke
Writing ==
  T!MemberRole \/ T!InviteNew \/ T!KeyNew \/ T!PersonLevel \/ T!PersonRemove \/ T!DataToggle \/ T!act \/ T!Disconnect
Saving == T!save \/ T!RenameOrg \/ T!SavePolicy

LEMMA NextGroups ==
  ASSUME T!Next
  PROVE  \/ Reading \/ Asking \/ T!cancel \/ T!ok \/ Writing \/ Saving \/ T!Type \/ T!Other
         \/ \E c \in s4 : T!CallServed(c) \/ T!CallDone(c) \/ T!SaveDone(c)
BY DEF T!Next, Reading, Asking, Writing, Saving

LEMMA ReadingTyped ==
  ASSUME Typed, Reading
  PROVE  Typed'
<1>1. CASE T!Ask
  <2>1. Sound(s3')
    BY <1>1 DEF T!Ask, Typed, Sound, Listing
  <2>. QED  BY <1>1, <2>1 DEF T!Ask, Typed
<1>2. CASE T!Answer
  <2>1. PICK t \in s3.got :
          /\ s3' = [data |-> t, read |-> TRUE, asked |-> FALSE, got |-> {}]
          /\ s10' = IF s1 \in T!Forms /\ t # s3.data THEN [T!Seeded(t) EXCEPT !.sending = s10.sending] ELSE s10
    BY <1>2 DEF T!Answer
  <2>2. t \in T!Tables
    BY DEF Typed, Sound, Listing
  <2>3. Sound(s3')
    BY <2>1, <2>2 DEF Sound, Listing
  <2>4. s10' \in Filled /\ DOMAIN s10'.held = DOMAIN s10'.seed
    BY <2>1, <2>2 DEF Typed, Filled, T!Seeded
  <2>. QED  BY <1>2, <2>3, <2>4 DEF T!Answer, Typed
<1>. QED  BY <1>1, <1>2 DEF Reading

LEMMA AskingTyped ==
  ASSUME Typed, Asking \/ T!cancel \/ T!ok
  PROVE  Typed'
<1>1. T!NoModal \in Dialog
  BY DEF T!NoModal, Dialog
<1>2. CASE Asking
  <2>1. \E does \in {"add", "del"}, rows \in SUBSET Records : T!ask(does, rows)
    BY <1>2, ShownRows DEF Asking, T!AppNew, T!addPerson, T!MemberRemove, T!InviteRevoke, T!AppDelete, T!KeyRevoke
  <2>2. PICK does \in {"add", "del"}, r \in Records : T!emit([does |-> does, row |-> {r}])
    BY <2>1 DEF T!ask
  <2>3. [does |-> does, row |-> {r}] \in Dialog
    BY DEF Dialog
  <2>4. s9' \in Dialog /\ s11' \subseteq Records
    BY <2>2, <2>3, EmitTyped
  <2>. QED  BY <2>1, <2>4 DEF T!ask, Typed
<1>3. CASE T!cancel
  <2>1. s9' \in Dialog /\ s11' \subseteq Records
    BY <1>1, <1>3, EmitTyped DEF T!cancel
  <2>2. Sound(s3') /\ s7' \in BOOLEAN
    BY <1>3, ReloadTyped DEF T!cancel, Typed
  <2>. QED  BY <1>3, <2>1, <2>2 DEF T!cancel, Typed
<1>4. CASE T!ok
  <2>1. s9' \in Dialog /\ s11' \subseteq Records
    BY <1>1, <1>4, EmitTyped DEF T!ok
  <2>2. PICK r \in s9.row, v \in Values :
          T!Send(s9.does, IF s9.does = "add" THEN T!Only(r, v) ELSE T!None, {r}, T!None)
    BY <1>4 DEF T!ok
  <2>3. r \in Records /\ s9.does \in {"add", "set", "del"}
    BY <1>4 DEF Typed, Dialog, T!ok
  <2>4. (IF s9.does = "add" THEN T!Only(r, v) ELSE T!None) \in T!Tables /\ T!None \in T!Tables
    BY <2>3, TablesMade
  <2>5. s5' \in Nat /\ s4' \subseteq Call
    BY <2>2, <2>3, <2>4, SendTyped
  <2>. QED  BY <1>4, <2>1, <2>5 DEF T!ok, Typed
<1>. QED  BY <1>2, <1>3, <1>4
LEMMA WritingTyped ==
  ASSUME Typed, Writing
  PROVE  Typed'
<1>1. UNCHANGED <<s1, s2, s3, s6, s7, s8, s9, s10, s11>>
  BY DEF Writing, T!MemberRole, T!InviteNew, T!KeyNew, T!PersonLevel, T!PersonRemove, T!DataToggle, T!act, T!Disconnect, T!Acts
<1>2. T!Set \/ T!Remove \/ T!Add(Records \ DOMAIN s2)
  BY DEF Writing, T!MemberRole, T!InviteNew, T!KeyNew, T!PersonLevel, T!PersonRemove, T!DataToggle, T!act, T!Disconnect
<1>3. \E does \in {"add", "set", "del"}, put \in T!Tables, row \in SUBSET Records : T!Send(does, put, row, T!None)
  <2>1. CASE T!Remove
    BY <2>1, ShownRows, TablesMade DEF T!Remove
  <2>2. CASE T!Set
    <3>1. PICK r \in T!Shown, v \in Values : T!Send("set", T!Only(r, v), {r}, T!None)
      BY <2>2 DEF T!Set
    <3>. QED  BY <3>1, ShownRows, TablesMade
  <2>3. CASE T!Add(Records \ DOMAIN s2)
    <3>1. PICK r \in Records, v \in Values : T!Send("add", T!Only(r, v), {r}, T!None)
      BY <2>3 DEF T!Add
    <3>. QED  BY <3>1, TablesMade
  <2>. QED  BY <1>2, <2>1, <2>2, <2>3
<1>4. s5' \in Nat /\ s4' \subseteq Call
  BY <1>3, SendTyped, TablesMade
<1>. QED  BY <1>1, <1>4 DEF Typed

LEMMA SavingTyped ==
  ASSUME Typed, Saving
  PROVE  Typed'
<1>1. /\ UNCHANGED <<s1, s2, s3, s6, s7, s8, s9, s11>>
      /\ \E put \in {T!body, s10.held} : T!Send("set", put, T!Dirty, s10.held)
  BY DEF Saving, T!save, T!RenameOrg, T!SavePolicy, T!Submit
<1>2. s5' \in Nat /\ s4' \subseteq Call
  BY <1>1, ShownRows, SendTyped
<1>3. s10' \in Filled /\ DOMAIN s10'.held = DOMAIN s10'.seed
  BY DEF Saving, T!save, T!RenameOrg, T!SavePolicy, T!Submit, Typed, Filled
<1>. QED  BY <1>1, <1>2, <1>3 DEF Typed

LEMMA OthersTyped ==
  ASSUME Typed, T!Type \/ T!Other
  PROVE  Typed'
<1>1. CASE T!Type
  <2>1. PICK f \in DOMAIN s10.held, v \in Values : s10' = [s10 EXCEPT !.held[f] = v]
    BY <1>1 DEF T!Type
  <2>2. s10'.held = [s10.held EXCEPT ![f] = v] /\ s10'.seed = s10.seed /\ s10'.sending = s10.sending
    BY <2>1 DEF Typed, Filled
  <2>3. s10'.held \in T!Tables
    BY <2>2, TablesMade, ShownRows
  <2>4. s10' \in Filled /\ DOMAIN s10'.held = DOMAIN s10'.seed
    BY <2>1, <2>2, <2>3 DEF Typed, Filled
  <2>. QED  BY <1>1, <2>4 DEF T!Type, Typed
<1>2. CASE T!Other
  <2>1. s2' \in T!Tables
    <3>1. \E r \in Records, v \in Values : s2' = T!Over(T!Only(r, v), s2) \/ s2' = T!Without(s2, r)
      BY <1>2 DEF T!Other
    <3>. QED  BY <3>1, TablesMade DEF Typed
  <2>. QED  BY <1>2, <2>1 DEF T!Other, Typed
<1>. QED  BY <1>1, <1>2

LEMMA AnsweringTyped ==
  ASSUME Typed, NEW c \in s4, T!CallServed(c) \/ T!CallDone(c) \/ T!SaveDone(c)
  PROVE  Typed'
<1>0. c \in Call
  BY DEF Typed
<1>1. CASE T!CallServed(c)
  <2>1. s2' \in T!Tables
    <3>1. CASE T!Served(c)
      <4>1. s2' = T!Over(c.put, s2) \/ \E r \in c.row \cap DOMAIN s2 : s2' = T!Without(s2, r)
        BY <1>0, <3>1 DEF T!Served, Call
      <4>2. c.put \in T!Tables /\ c.row \subseteq Records /\ s2 \in T!Tables
        BY <1>0 DEF Call, Typed
      <4>. QED  BY <4>1, <4>2, TablesMade
    <3>2. CASE UNCHANGED s2
      BY <3>2 DEF Typed
    <3>. QED  BY <1>1, <3>1, <3>2 DEF T!CallServed
  <2>2. s4' \subseteq Call
    <3>1. \A a \in {"ok", "error"} : [c EXCEPT !.answer = a] \in Call
      BY <1>0 DEF Call
    <3>. QED  BY <1>1, <3>1 DEF T!CallServed, Typed
  <2>. QED  BY <1>1, <2>1, <2>2 DEF T!CallServed, Typed
<1>2. CASE T!CallDone(c)
  <2>1. Sound(s3') /\ s7' \in BOOLEAN
    BY <1>2, ReloadTyped DEF T!CallDone, Typed
  <2>2. s9' \in Dialog /\ s11' \subseteq Records
    <3>1. [does |-> "key", row |-> c.row] \in Dialog
      BY <1>0 DEF Call, Dialog
    <3>. QED  BY <1>2, <3>1, EmitTyped DEF T!CallDone, Typed
  <2>. QED  BY <1>2, <2>1, <2>2 DEF T!CallDone, Typed
<1>3. CASE T!SaveDone(c)
  <2>1. Sound(s3') /\ s7' \in BOOLEAN
    BY <1>3, ReloadTyped DEF T!SaveDone, Typed
  <2>2. s10' \in Filled /\ DOMAIN s10'.held = DOMAIN s10'.seed
    BY <1>0, <1>3 DEF T!SaveDone, Typed, Call, Filled, T!Seeded
  <2>. QED  BY <1>3, <2>1, <2>2 DEF T!SaveDone, Typed
<1>. QED  BY <1>1, <1>2, <1>3

LEMMA NextTyped ==
  ASSUME Typed, [T!Next]_(T!vars)
  PROVE  Typed'
<1>1. CASE UNCHANGED T!vars
  BY <1>1 DEF T!vars, Typed
<1>2. CASE T!Next
  BY <1>2, NextGroups, ReadingTyped, AskingTyped, WritingTyped, SavingTyped, OthersTyped, AnsweringTyped
<1>. QED  BY <1>1, <1>2

LEMMA StaysTyped ==
  ASSUME Bounds
  PROVE  T!Spec => []Typed
<1>1. T!Init => Typed
  BY InitTyped
<1>2. Typed /\ [T!Next]_(T!vars) => Typed'
  BY NextTyped
<1>. QED  BY <1>1, <1>2, PTL DEF T!Spec

\* The cardinality that Settings speaks of is the one here.
LEMMA RowsCount == \A Es : T!Cardinality(Es) = Cardinality(Es)
BY DEF T!Cardinality, Cardinality, T!IsFiniteSet, IsFiniteSet

\* The rows of a settings page, the fields of its form and the keys it shows are rows
\* of the record it edits, and at most one answer is on its way to a listing.
THEOREM SettingsTyped ==
  ASSUME Bounds
  PROVE  T!Spec => []T!TypeOK
<1>1. ASSUME Typed
      PROVE  Cardinality(s3.got) <= 1
  <2>1. CASE s3.got = {}
    BY <2>1, FS_EmptySet
  <2>2. ASSUME NEW t \in s3.got
        PROVE  Cardinality(s3.got) <= 1
    <3>1. s3.got = {t}
      BY <1>1 DEF Typed, Sound
    <3>. QED  BY <3>1, FS_Singleton
  <2>. QED  BY <2>1, <2>2
<1>2. Typed => T!TypeOK
  BY <1>1, RowsCount DEF Typed, T!TypeOK, Sound, Listing, Filled, Call, Dialog
<1>. QED  BY <1>2, StaysTyped, PTL

-----------------------------------------------------------------------------
(* The list                                                                *)

\* The listing is the hub's, or will be once it is read.
Fresh == IF s3.asked THEN s3.got \subseteq {s2} ELSE s3.data = s2

\* Unless others changed it, a list that is not the hub's waits for a read or for a
\* write whose end asks for one; or a key is on screen, and dismissing it asks for
\* one, or it was taken off; or a write failed on a page that does not read then.
Owed ==
  s1 \in T!Lists /\ ~s7 =>
    \/ Fresh
    \/ \E c \in s4 : c.answer # "none"
    \/ s9.does = "key" \/ s11 # {}
    \/ s8 /\ s1 \notin {"apps", "keys", "people"}

LEMMA Reloaded ==
  ASSUME Typed, T!reload, UNCHANGED s2
  PROVE  s7' \/ Fresh'
BY DEF Typed, Sound, Listing, T!reload, T!Again, Fresh

LEMMA InitOwed ==
  ASSUME T!Init
  PROVE  Owed
BY DEF T!Init, Owed, Fresh

LEMMA StepsKeepOwed ==
  ASSUME Typed, Owed, Reading \/ Asking \/ T!cancel \/ T!ok \/ Writing \/ Saving \/ T!Type \/ T!Other
  PROVE  Owed'
<1>1. CASE T!Ask
  BY <1>1 DEF T!Ask, Typed, Sound, Listing, Owed, Fresh
<1>2. CASE T!Answer
  BY <1>2 DEF T!Answer, Typed, Sound, Listing, Owed, Fresh
<1>3. CASE Asking
  <2>1. PICK does, rows : T!ask(does, rows)
    BY <1>3 DEF Asking, T!AppNew, T!addPerson, T!MemberRemove, T!InviteRevoke, T!AppDelete, T!KeyRevoke
  <2>2. UNCHANGED <<s1, s2, s3, s4, s7, s8>> /\ s9.does = "nothing"
    BY <2>1 DEF T!ask, T!NoModal
  <2>3. s11' = s11
    BY <2>1, <2>2 DEF T!ask, T!emit
  <2>. QED  BY <2>2, <2>3 DEF Owed, Fresh
<1>4. CASE T!cancel
  <2>1. UNCHANGED <<s1, s2, s4, s8, s11>>
    BY <1>4 DEF T!cancel, T!emit
  <2>2. CASE s9.does = "key"
    <3>1. s7' \/ Fresh'
      BY <1>4, <2>1, <2>2, Reloaded DEF T!cancel
    <3>. QED  BY <3>1 DEF Owed
  <2>3. CASE s9.does # "key"
    BY <1>4, <2>1, <2>3 DEF T!cancel, Owed, Fresh
  <2>. QED  BY <2>2, <2>3
<1>5. CASE T!ok
  <2>1. UNCHANGED <<s1, s2, s3, s7, s8>> /\ s9.does # "key" /\ s11' = s11 /\ s4 \subseteq s4'
    BY <1>5 DEF T!ok, T!emit, T!Send
  <2>. QED  BY <2>1 DEF Owed, Fresh
<1>6. CASE Writing
  <2>1. UNCHANGED <<s1, s2, s3, s7, s8, s9, s11>>
    BY <1>6 DEF Writing, T!MemberRole, T!InviteNew, T!KeyNew, T!PersonLevel, T!PersonRemove, T!DataToggle, T!act, T!Disconnect, T!Acts
  <2>2. s4 \subseteq s4'
    BY <1>6 DEF Writing, T!MemberRole, T!InviteNew, T!KeyNew, T!PersonLevel, T!PersonRemove, T!DataToggle, T!act, T!Disconnect, T!Set, T!Remove, T!Add, T!Send
  <2>. QED  BY <2>1, <2>2 DEF Owed, Fresh
<1>7. CASE Saving \/ T!Type
  BY <1>7 DEF Saving, T!save, T!RenameOrg, T!SavePolicy, T!Submit, T!Type, Owed, T!Forms, T!Lists
<1>8. CASE T!Other
  BY <1>8 DEF T!Other, Owed
<1>. QED  BY <1>1, <1>2, <1>3, <1>4, <1>5, <1>6, <1>7, <1>8 DEF Reading

LEMMA AnswersKeepOwed ==
  ASSUME Typed, Owed, NEW c \in s4, T!CallServed(c) \/ T!CallDone(c) \/ T!SaveDone(c)
  PROVE  Owed'
<1>0. c \in Call
  BY DEF Typed
<1>1. CASE T!CallServed(c)
  <2>1. \E a \in {"ok", "error"} : s4' = (s4 \ {c}) \cup {[c EXCEPT !.answer = a]}
    BY <1>1 DEF T!CallServed
  <2>2. \E d \in s4' : d.answer # "none"
    BY <1>0, <2>1 DEF Call
  <2>. QED  BY <2>2 DEF Owed
<1>2. CASE T!CallDone(c)
  <2>1. /\ UNCHANGED <<s1, s2>> /\ s4' = s4 \ {c} /\ c.answer \in {"ok", "error"}
        /\ s8' = (s8 \/ c.answer = "error")
    BY <1>0, <1>2 DEF T!CallDone, Call
  <2>2. CASE T!Shows(c)
    <3>1. s9'.does = "key"
      BY <1>2, <2>2 DEF T!CallDone, T!emit
    <3>. QED  BY <3>1 DEF Owed
  <2>3. CASE T!Refetches(c) /\ ~T!Shows(c)
    <3>1. s7' \/ Fresh'
      BY <1>2, <2>1, <2>3, Reloaded DEF T!CallDone
    <3>. QED  BY <3>1 DEF Owed
  <2>4. CASE ~T!Refetches(c)
    BY <2>1, <2>4 DEF T!Refetches, Owed
  <2>. QED  BY <2>2, <2>3, <2>4
<1>3. CASE T!SaveDone(c)
  BY <1>3 DEF T!SaveDone, Owed, T!Forms, T!Lists
<1>. QED  BY <1>1, <1>2, <1>3

\* With every answer in and the listing read, a settings page shows the hub's rows:
\* whichever pages read again after a failure, and whatever dialogs were shown
\* (OrgAdmin.tsx, ProjectSettings.tsx: `run`, `reload`; modal.tsx).
THEOREM ListComesTrue ==
  ASSUME Bounds
  PROVE  T!Spec => []T!ListTrue
<1>1. T!Init => Owed
  BY InitOwed
<1>2. Typed /\ Owed /\ [T!Next]_(T!vars) => Owed'
  <2>1. ASSUME Owed, UNCHANGED T!vars
        PROVE  Owed'
    BY <2>1 DEF T!vars, Owed, Fresh
  <2>. QED  BY <2>1, NextGroups, StepsKeepOwed, AnswersKeepOwed
<1>3. Typed /\ Owed => T!ListTrue
  BY DEF Typed, Owed, Fresh, T!ListTrue, T!Settled
<1>. QED  BY <1>1, <1>2, <1>3, StaysTyped, PTL DEF T!Spec

-----------------------------------------------------------------------------
(* The form of a project                                                   *)

\* What a project's form sends sets fields its user changed, and no others; no
\* dialog is shown on a form.
Narrow ==
  /\ s1 \in T!Forms => s9 = T!NoModal
  /\ s1 = "project" => \A c \in s4 : c.does = "set" /\ DOMAIN c.put \subseteq c.row

LEMMA NextKeepsNarrow ==
  ASSUME Typed, Narrow, [T!Next]_(T!vars)
  PROVE  Narrow'
<1>1. ASSUME UNCHANGED <<s1, s9, s4>>
      PROVE  Narrow'
  BY <1>1 DEF Narrow
<1>2. CASE Asking \/ Writing
  <2>1. s1 \notin T!Forms /\ s1' = s1
    BY <1>2 DEF T!Forms, Asking, T!AppNew, T!addPerson, T!MemberRemove, T!InviteRevoke, T!AppDelete, T!KeyRevoke, T!ask,
       Writing, T!MemberRole, T!InviteNew, T!KeyNew, T!PersonLevel, T!PersonRemove, T!DataToggle, T!act, T!Disconnect, T!Acts
  <2>. QED  BY <2>1 DEF Narrow, T!Forms
<1>3. CASE T!cancel \/ T!ok
  <2>1. s1 \notin T!Forms /\ s1' = s1
    BY <1>3 DEF Narrow, T!cancel, T!ok, T!NoModal
  <2>. QED  BY <2>1 DEF Narrow, T!Forms
<1>4. CASE Saving
  <2>1. UNCHANGED <<s1, s9>>
    BY <1>4 DEF Saving, T!save, T!RenameOrg, T!SavePolicy, T!Submit
  <2>2. ASSUME s1 = "project"
        PROVE  T!Send("set", T!body, T!Dirty, s10.held)
    BY <1>4, <2>2 DEF Saving, T!save, T!RenameOrg, T!SavePolicy, T!Submit
  <2>3. DOMAIN T!body \subseteq T!Dirty
    BY DEF T!body
  <2>. QED  BY <2>1, <2>2, <2>3 DEF Narrow, T!Send
<1>5. ASSUME NEW c \in s4, T!CallServed(c) \/ T!CallDone(c) \/ T!SaveDone(c)
      PROVE  Narrow'
  <2>1. s1' = s1 /\ (s1 \in T!Forms => s9' = s9)
    BY <1>5 DEF T!CallServed, T!CallDone, T!SaveDone, T!Forms, T!Lists
  <2>2. \A d \in s4' : \E e \in s4 : d.does = e.does /\ d.put = e.put /\ d.row = e.row
    BY <1>5 DEF T!CallServed, T!CallDone, T!SaveDone, Typed, Call
  <2>. QED  BY <2>1, <2>2 DEF Narrow
<1>6. CASE Reading \/ T!Type \/ T!Other
  BY <1>1, <1>6 DEF Reading, T!Ask, T!Answer, T!Type, T!Other
<1>7. CASE UNCHANGED T!vars
  BY <1>1, <1>7 DEF T!vars
<1>. QED  BY <1>2, <1>3, <1>4, <1>5, <1>6, <1>7, NextGroups

\* A project's form saved over a record that others changed meanwhile leaves what they
\* wrote in the fields its user did not touch (ProjectSettings.tsx: save).
THEOREM UntouchedIsKept ==
  ASSUME Bounds
  PROVE  T!Spec => T!UntouchedKept
<1>1. T!Init => Narrow
  BY DEF T!Init, Narrow
<1>2. Typed /\ Narrow /\ [T!Next]_(T!vars) => Narrow'
  BY NextKeepsNarrow
<1>3. ASSUME Typed, Narrow, [T!Next]_(T!vars)
      PROVE  [T!Keeps]_(T!vars)
  <2>. SUFFICES ASSUME NEW c \in s4, NEW f \in DOMAIN s2, s1 = "project", c \notin s4', f \notin c.row
       PROVE  s2'[f] = s2[f]
    BY DEF T!Keeps
  <2>1. ASSUME s2' # s2
        PROVE  T!CallServed(c)
    <3>1. T!Other \/ \E d \in s4 : T!CallServed(d)
      BY <1>3, <2>1, NextGroups DEF Reading, T!Ask, T!Answer, Asking, T!AppNew, T!addPerson, T!MemberRemove, T!InviteRevoke, T!AppDelete,
         T!KeyRevoke, T!ask, T!cancel, T!ok, Writing, T!MemberRole, T!InviteNew, T!KeyNew, T!PersonLevel, T!PersonRemove, T!DataToggle, T!act,
         T!Disconnect, T!Acts, Saving, T!save, T!RenameOrg, T!SavePolicy, T!Submit, T!Type, T!CallDone, T!SaveDone, T!vars
    <3>2. ~T!Other
      BY DEF T!Other
    <3>3. PICK d \in s4 : T!CallServed(d)
      BY <3>1, <3>2
    <3>4. c = d
      BY <3>3 DEF T!CallServed
    <3>. QED  BY <3>3, <3>4
  <2>2. CASE s2' # s2
    <3>1. T!Served(c)
      BY <2>1, <2>2 DEF T!CallServed
    <3>2. s2' = T!Over(c.put, s2) /\ f \notin DOMAIN c.put
      BY <1>3, <3>1 DEF T!Served, Narrow
    <3>. QED  BY <3>2 DEF T!Over
  <2>. QED  BY <2>2
<1>. QED  BY <1>1, <1>2, <1>3, StaysTyped, PTL DEF T!Spec, T!UntouchedKept

-----------------------------------------------------------------------------
(* The replacement of lib/diff.ts, for texts of any length over any characters *)

\* A bounded set of lengths has a longest.
LEMMA LongestIn ==
  ASSUME NEW n \in Nat, NEW ns \in SUBSET (0..n), ns # {}
  PROVE  L!Longest(ns) \in ns /\ \A m \in ns : m <= L!Longest(ns)
<1> DEFINE Less == {ss \in Nat \X Nat : ss[1] < ss[2]}
          Short == {n - x : x \in ns}
<1>0. IsWellFoundedOn(Less, Nat)
  BY NatLessThanWellFounded DEF OpToRel
<1>1. Short \subseteq Nat
  OBVIOUS
<1>6. Short # {}
  OBVIOUS
<1>2. PICK k \in Short : \A y \in Short : ~(<<y, k>> \in Less)
  <2> HIDE DEF Short, Less
  <2> QED BY <1>0, <1>1, <1>6, WFMin
<1>3. \A y \in Short : ~(y < k)
  BY <1>1, <1>2
<1>4. PICK x \in ns : k = n - x
  OBVIOUS
<1>5. \A m \in ns : m <= x
  <2> TAKE m \in ns
  <2>1. ~(n - m < n - x)
    BY <1>3, <1>4
  <2> QED BY <2>1
<1> QED BY <1>5 DEF L!Longest

\* The lengths textEdit counts: the front is shared, the back is, and they do not overlap.
LEMMA FrontAndBack ==
  ASSUME NEW Chars, NEW prev \in Seq(Chars), NEW next \in Seq(Chars)
  PROVE  LET p == L!Front(prev, next)
             s == L!Back(prev, next)
         IN /\ p \in L!FrontLengths(prev, next) /\ \A x \in L!FrontLengths(prev, next) : x <= p
            /\ s \in L!BackLengths(prev, next, p) /\ \A x \in L!BackLengths(prev, next, p) : x <= s
            /\ p \in Nat /\ s \in Nat /\ p + s <= Len(prev) /\ p + s <= Len(next)
<1> DEFINE least == L!Least(Len(prev), Len(next))
           p == L!Front(prev, next)
           s == L!Back(prev, next)
<1>1. least \in Nat /\ least <= Len(prev) /\ least <= Len(next)
  BY DEF L!Least
<1>2. /\ L!FrontLengths(prev, next) \subseteq 0..least
      /\ 0 \in L!FrontLengths(prev, next)
  BY <1>1 DEF L!FrontLengths
<1>3. p \in L!FrontLengths(prev, next) /\ \A x \in L!FrontLengths(prev, next) : x <= p
  <2> HIDE DEF least
  <2> QED BY <1>1, <1>2, LongestIn DEF L!Front
<1>4. p \in 0..least
  BY <1>2, <1>3
<1>5. /\ L!BackLengths(prev, next, p) \subseteq 0..(least - p)
      /\ 0 \in L!BackLengths(prev, next, p)
  <2> HIDE DEF p
  <2> QED BY <1>1, <1>4 DEF L!BackLengths
<1>6. s \in L!BackLengths(prev, next, p) /\ \A x \in L!BackLengths(prev, next, p) : x <= s
  <2>1. least - p \in Nat
    BY <1>1, <1>4
  <2> HIDE DEF least, p
  <2> QED BY <1>5, <2>1, LongestIn DEF L!Back, p
<1>7. s \in 0..(least - p)
  BY <1>5, <1>6
<1>8. p \in Nat /\ s \in Nat /\ p + s <= least
  <2> HIDE DEF p, s, least
  <2> QED BY <1>1, <1>4, <1>7
<1> HIDE DEF p, s, least
<1>9. p + s <= Len(prev) /\ p + s <= Len(next)
  BY <1>1, <1>8
<1> QED BY <1>3, <1>6, <1>8, <1>9 DEF p, s

\* The replacement of lib/diff.ts's textEdit is within the text, runs forwards,
\* turns it into the other text, and no other touches less of it.
THEOREM TextEditExact ==
  ASSUME NEW Chars, NEW prev \in Seq(Chars), NEW next \in Seq(Chars)
  PROVE  /\ L!textEdit(prev, next).from \in 0..L!textEdit(prev, next).to
         /\ L!textEdit(prev, next).to \in 0..Len(prev)
         /\ L!TextEditTrue(prev, next)
<1> DEFINE p == L!Front(prev, next)
           s == L!Back(prev, next)
           new == SubSeq(next, p + 1, Len(next) - s)
           e == [from |-> p, to |-> Len(prev) - s, insert |-> new]
<1>1. L!textEdit(prev, next) = e
  BY DEF L!textEdit
<1>2. /\ p \in L!FrontLengths(prev, next) /\ \A x \in L!FrontLengths(prev, next) : x <= p
      /\ s \in L!BackLengths(prev, next, p) /\ \A x \in L!BackLengths(prev, next, p) : x <= s
      /\ p \in Nat /\ s \in Nat /\ p + s <= Len(prev) /\ p + s <= Len(next)
  BY FrontAndBack
<1> HIDE DEF p, s
<1>3. e.from \in 0..e.to /\ e.to \in 0..Len(prev)
  BY <1>2
<1>4. /\ \A i \in 1..p : prev[i] = next[i]
      /\ \A i \in 0..(s - 1) : prev[Len(prev) - i] = next[Len(next) - i]
  BY <1>2 DEF L!FrontLengths, L!BackLengths
<1>5. L!Applied(prev, e) = next
  <2> DEFINE front == SubSeq(prev, 1, p)
             back == SubSeq(prev, Len(prev) - s + 1, Len(prev))
             all == front \o new \o back
  <2>1. /\ front \in Seq(Chars) /\ Len(front) = p
        /\ \A i \in 1..p : front[i] = next[i]
    BY <1>2, <1>4
  <2>2. /\ new \in Seq(Chars) /\ Len(new) = Len(next) - s - p
        /\ \A i \in 1..(Len(next) - s - p) : new[i] = next[p + i]
    BY <1>2
  <2>3. back \in Seq(Chars) /\ Len(back) = s
    BY <1>2
  <2>4. \A i \in 1..s : back[i] = next[Len(next) - s + i]
    <3> SUFFICES ASSUME NEW i \in 1..s PROVE back[i] = next[Len(next) - s + i]
      OBVIOUS
    <3>1. back[i] = prev[Len(prev) - s + i]
      BY <1>2
    <3>2. s - i \in 0..(s - 1)
      BY <1>2
    <3>3. prev[Len(prev) - (s - i)] = next[Len(next) - (s - i)]
      BY <1>4, <3>2
    <3>4. Len(prev) - (s - i) = Len(prev) - s + i /\ Len(next) - (s - i) = Len(next) - s + i
      BY <1>2
    <3> QED BY <3>1, <3>3, <3>4
  <2> HIDE DEF front, back, new
  <2>5. /\ all \in Seq(Chars) /\ Len(all) = p + (Len(next) - s - p) + s
        /\ \A i \in 1..p : all[i] = front[i]
        /\ \A i \in 1..(Len(next) - s - p) : all[p + i] = new[i]
        /\ \A i \in 1..s : all[p + (Len(next) - s - p) + i] = back[i]
    <3> DEFINE mid == front \o new
    <3>1. front \in Seq(Chars) /\ new \in Seq(Chars) /\ back \in Seq(Chars)
      BY <2>1, <2>2, <2>3
    <3>2. /\ mid \in Seq(Chars) /\ Len(mid) = Len(front) + Len(new)
          /\ \A i \in 1..Len(front) : mid[i] = front[i]
          /\ \A i \in 1..Len(new) : mid[Len(front) + i] = new[i]
      BY <3>1
    <3>3. mid \in Seq(Chars)
      BY <3>2
    <3> HIDE DEF mid
    <3>4. /\ mid \o back \in Seq(Chars) /\ Len(mid \o back) = Len(mid) + Len(back)
          /\ \A i \in 1..Len(mid) : (mid \o back)[i] = mid[i]
          /\ \A i \in 1..Len(back) : (mid \o back)[Len(mid) + i] = back[i]
      BY <3>1, <3>3
    <3>5. all = mid \o back
      BY DEF mid
    <3> HIDE DEF all
    <3>6. Len(front) = p /\ Len(new) = Len(next) - s - p /\ Len(back) = s /\ Len(mid) = p + Len(new)
      BY <2>1, <2>2, <2>3, <3>2
    <3>7. p \in Nat /\ s \in Nat /\ Len(next) - s - p \in Nat
      BY <1>2
    <3>8. \A i \in 1..p : all[i] = front[i]
      BY <3>2, <3>4, <3>5, <3>6, <3>7
    <3>9. \A i \in 1..(Len(next) - s - p) : all[p + i] = new[i]
      <4> SUFFICES ASSUME NEW i \in 1..(Len(next) - s - p) PROVE all[p + i] = new[i]
        OBVIOUS
      <4>1. mid[p + i] = new[i]
        BY <3>2, <3>6
      <4>2. p + i \in 1..Len(mid)
        BY <3>6, <3>7
      <4> QED BY <3>4, <3>5, <4>1, <4>2
    <3>10. \A i \in 1..s : all[p + (Len(next) - s - p) + i] = back[i]
      BY <3>4, <3>5, <3>6
    <3> QED BY <3>4, <3>5, <3>6, <3>8, <3>9, <3>10
  <2> HIDE DEF all
  <2>6. Len(all) = Len(next)
    BY <1>2, <2>5
  <2>8. \A i \in 1..Len(next) : all[i] = next[i]
    <3> SUFFICES ASSUME NEW i \in 1..Len(next) PROVE all[i] = next[i]
      OBVIOUS
    <3>1. CASE i <= p
      BY <2>1, <2>5, <1>2, <3>1
    <3>2. CASE p < i /\ i <= Len(next) - s
      <4>1. i - p \in 1..(Len(next) - s - p) /\ p + (i - p) = i
        BY <1>2, <3>2
      <4> QED BY <2>2, <2>5, <4>1
    <3>3. CASE Len(next) - s < i
      <4> DEFINE j == i - (Len(next) - s)
      <4>1. j \in 1..s /\ p + (Len(next) - s - p) + j = i /\ Len(next) - s + j = i
        BY <1>2, <3>3
      <4> HIDE DEF j
      <4> QED BY <2>4, <2>5, <4>1
    <3> QED BY <1>2, <3>1, <3>2, <3>3
  <2>7. all = next
    BY <2>5, <2>6, <2>8
  <2> QED BY <2>7 DEF L!Applied, all, front, back
<1>6. ASSUME NEW q \in L!FrontLengths(prev, next), NEW t \in L!BackLengths(prev, next, q)
      PROVE  q + t <= p + s
  <2>1. q \in Nat /\ t \in Nat /\ q + t <= Len(prev) /\ q + t <= Len(next) /\ q <= p
    <3>1. /\ Len(prev) \in Nat /\ Len(next) \in Nat
          /\ L!Least(Len(prev), Len(next)) \in {Len(prev), Len(next)}
          /\ L!Least(Len(prev), Len(next)) <= Len(prev) /\ L!Least(Len(prev), Len(next)) <= Len(next)
      BY DEF L!Least
    <3>2. q \in 0..L!Least(Len(prev), Len(next)) /\ t \in 0..(L!Least(Len(prev), Len(next)) - q)
      BY DEF L!FrontLengths, L!BackLengths
    <3>. QED  BY <1>2, <3>1, <3>2
  <2> DEFINE room == L!Least(Len(prev), Len(next)) - p
             u == L!Least(t, room)
  <2>2. room \in Nat /\ u \in Nat /\ u <= t /\ u <= room
    BY <1>2, <2>1 DEF L!Least
  <2>3. u \in L!BackLengths(prev, next, p)
    BY <1>2, <2>1, <2>2 DEF L!BackLengths
  <2>4. u <= s
    BY <1>2, <2>3
  <2> QED BY <1>2, <2>1, <2>2, <2>4 DEF L!Least
<1>7. p + s = e.from + Len(prev) - e.to
  BY <1>2
<1> HIDE DEF e
<1> QED BY <1>1, <1>3, <1>5, <1>6, <1>7 DEF L!TextEditTrue

-----------------------------------------------------------------------------
(* Ranks in a finite set that a relation orders *)

Orders(Ord, Es) ==
  /\ \A x \in Es : <<x, x>> \notin Ord
  /\ \A x, y \in Es : x = y \/ <<x, y>> \in Ord \/ <<y, x>> \in Ord
  /\ \A x, y, z \in Es : <<x, y>> \in Ord /\ <<y, z>> \in Ord => <<x, z>> \in Ord
Rank(Ord, Es, x) == Cardinality({y \in Es : <<y, x>> \in Ord})

\* What is before another has the smaller rank.
LEMMA RankGrows ==
  ASSUME NEW Ord, NEW Es, IsFiniteSet(Es), Orders(Ord, Es), NEW x \in Es, NEW y \in Es, <<x, y>> \in Ord
  PROVE  Rank(Ord, Es, x) < Rank(Ord, Es, y)
<1>. DEFINE X == {z \in Es : <<z, x>> \in Ord}
            Y == {z \in Es : <<z, y>> \in Ord}
<1>1. X \subseteq Y /\ X # Y
  BY DEF Orders
<1>2. IsFiniteSet(Y)
  BY FS_Subset
<1>. HIDE DEF X, Y
<1>3. Cardinality(X) <= Cardinality(Y) /\ Cardinality(X) # Cardinality(Y)
  BY <1>1, <1>2, FS_Subset
<1>4. Cardinality(X) \in Nat /\ Cardinality(Y) \in Nat
  BY <1>1, <1>2, FS_Subset, FS_CardinalityType
<1>. QED  BY <1>3, <1>4 DEF Rank, X, Y

\* The ranks are 0, 1 and so on, each the rank of one.
LEMMA Ranked ==
  ASSUME NEW Ord, NEW Es, IsFiniteSet(Es), Orders(Ord, Es)
  PROVE  /\ Cardinality(Es) \in Nat
         /\ \A x \in Es : Rank(Ord, Es, x) \in 0 .. Cardinality(Es) - 1
         /\ \A x, y \in Es : Rank(Ord, Es, x) = Rank(Ord, Es, y) => x = y
         /\ \A i \in 0 .. Cardinality(Es) - 1 : \E x \in Es : Rank(Ord, Es, x) = i
<1>. DEFINE n == Cardinality(Es)
            f == [x \in Es |-> Rank(Ord, Es, x)]
<1>1. n \in Nat
  BY FS_CardinalityType
<1>2. ASSUME NEW x \in Es PROVE Rank(Ord, Es, x) \in 0 .. n - 1
  <2>. DEFINE X == {z \in Es : <<z, x>> \in Ord}
  <2>1. X \subseteq Es \ {x}
    BY DEF Orders
  <2>2. IsFiniteSet(Es \ {x}) /\ Cardinality(Es \ {x}) = n - 1
    BY FS_RemoveElement
  <2>. HIDE DEF X
  <2>3. IsFiniteSet(X) /\ Cardinality(X) <= n - 1
    BY <2>1, <2>2, FS_Subset
  <2>4. Cardinality(X) \in Nat
    BY <2>3, FS_CardinalityType
  <2>. QED  BY <1>1, <2>3, <2>4 DEF Rank, X
<1>3. ASSUME NEW x \in Es, NEW y \in Es, Rank(Ord, Es, x) = Rank(Ord, Es, y) PROVE x = y
  <2>1. Rank(Ord, Es, x) \in Int /\ Rank(Ord, Es, y) \in Int
    BY <1>1, <1>2
  <2>2. <<x, y>> \notin Ord
    BY <1>3, <2>1, RankGrows
  <2>3. <<y, x>> \notin Ord
    BY <1>3, <2>1, RankGrows
  <2>. QED  BY <2>2, <2>3 DEF Orders
<1>4. f \in Injection(Es, 0 .. n - 1)
  BY <1>2, <1>3 DEF Injection, IsInjective
<1>5. IsFiniteSet(0 .. n - 1) /\ Cardinality(0 .. n - 1) = n
  <2>1. n - 1 \in Int /\ 0 \in Int
    BY <1>1
  <2>. QED  BY <1>1, <2>1, FS_Interval
<1>6. f \in Surjection(Es, 0 .. n - 1)
  <2>. HIDE DEF f, n
  <2>. QED  BY <1>4, <1>5, FS_Injection DEF n
<1>7. \A i \in 0 .. n - 1 : \E x \in Es : Rank(Ord, Es, x) = i
  BY <1>6 DEF Surjection
<1>. QED  BY <1>1, <1>2, <1>3, <1>7

\* As many have a rank below k as k says.
LEMMA FirstOnes ==
  ASSUME NEW Ord, NEW Es, IsFiniteSet(Es), Orders(Ord, Es), NEW k \in Nat, k <= Cardinality(Es)
  PROVE  Cardinality({x \in Es : Rank(Ord, Es, x) < k}) = k
<1>. DEFINE Some == {x \in Es : Rank(Ord, Es, x) < k}
            g == [x \in Some |-> Rank(Ord, Es, x)]
<1>0. \A x \in Some : Rank(Ord, Es, x) \in 0 .. k - 1
  <2>. SUFFICES ASSUME NEW x \in Some PROVE Rank(Ord, Es, x) \in 0 .. k - 1
    OBVIOUS
  <2>1. Rank(Ord, Es, x) \in 0 .. Cardinality(Es) - 1 /\ Rank(Ord, Es, x) < k
    BY Ranked
  <2>. QED  BY <2>1
<1>1. g \in [Some -> 0 .. k - 1]
  BY <1>0
<1>2. \A x, y \in Some : g[x] = g[y] => x = y
  BY Ranked
<1>3. \A i \in 0 .. k - 1 : \E x \in Some : g[x] = i
  <2>. SUFFICES ASSUME NEW i \in 0 .. k - 1 PROVE \E x \in Some : g[x] = i
    OBVIOUS
  <2>1. Cardinality(Es) \in Nat
    BY FS_CardinalityType
  <2>2. i \in 0 .. Cardinality(Es) - 1 /\ i < k
    BY <2>1
  <2>3. PICK x \in Es : Rank(Ord, Es, x) = i
    BY <2>2, Ranked
  <2>. QED  BY <2>2, <2>3
<1>4. g \in Bijection(Some, 0 .. k - 1)
  BY <1>1, <1>2, <1>3 DEF Bijection, Injection, IsInjective, Surjection
<1>5. IsFiniteSet(Some)
  BY FS_Subset
<1>6. Cardinality(0 .. k - 1) = k
  <2>1. k - 1 \in Int /\ 0 \in Int
    OBVIOUS
  <2>. QED  BY <2>1, FS_Interval
<1>. HIDE DEF Some, g
<1>7. Cardinality(Some) = Cardinality(0 .. k - 1)
  BY <1>4, <1>5, FS_Bijection DEF ExistsBijection
<1>. QED  BY <1>6, <1>7 DEF Some

\* One is after all others.
LEMMA LastOne ==
  ASSUME NEW Ord, NEW Es, IsFiniteSet(Es), Orders(Ord, Es), Es # {}
  PROVE  \E x \in Es : \A y \in Es : y = x \/ <<y, x>> \in Ord
<1>1. Cardinality(Es) \in Nat /\ Cardinality(Es) # 0
  BY FS_EmptySet, FS_CardinalityType
<1>2. PICK x \in Es : Rank(Ord, Es, x) = Cardinality(Es) - 1
  <2>1. Cardinality(Es) - 1 \in 0 .. Cardinality(Es) - 1
    BY <1>1
  <2>. QED  BY <2>1, Ranked
<1>3. ASSUME NEW y \in Es, y # x PROVE <<y, x>> \in Ord
  <2>1. Rank(Ord, Es, y) \in 0 .. Cardinality(Es) - 1
    BY Ranked
  <2>2. CASE <<x, y>> \in Ord
    BY <1>1, <1>2, <2>1, <2>2, RankGrows
  <2>. QED  BY <1>3, <2>2 DEF Orders
<1>. QED  BY <1>3

\* A finite set of naturals has a greatest.
LEMMA GreatestIn ==
  ASSUME NEW Es, Es \subseteq Nat, IsFiniteSet(Es), Es # {}
  PROVE  \E x \in Es : \A y \in Es : y <= x
<1>1. PICK Ord : Ord = {p \in Nat \X Nat : p[1] < p[2]}
  OBVIOUS
<1>2. \A x, y \in Nat : <<x, y>> \in Ord <=> x < y
  BY <1>1
<1>5. Orders(Ord, Es)
  BY <1>2 DEF Orders
<1>6. IsFiniteSet(Es) /\ Es # {}
  OBVIOUS
<1>7. \E x \in Es : \A y \in Es : y = x \/ <<y, x>> \in Ord
  BY ONLY <1>5, <1>6, LastOne
<1>3. PICK x \in Es : \A y \in Es : y = x \/ <<y, x>> \in Ord
  BY <1>7
<1>4. ASSUME NEW y \in Es PROVE y <= x
  <2>1. y = x \/ y < x
    BY <1>2, <1>3
  <2>2. x \in Nat /\ y \in Nat
    OBVIOUS
  <2>. QED  BY <2>1, <2>2
<1>. QED  BY <1>4

\* A set of numbers has a least one.
LEMMA LeastIn ==
  ASSUME NEW ns \in SUBSET Nat, ns # {}
  PROVE  \E k \in ns : \A y \in ns : k <= y
<1> DEFINE Less == {ss \in Nat \X Nat : ss[1] < ss[2]}
<1>0. IsWellFoundedOn(Less, Nat)
  BY NatLessThanWellFounded DEF OpToRel
<1>1. PICK k \in ns : \A y \in ns : ~(<<y, k>> \in Less)
  <2> HIDE DEF Less
  <2> QED BY <1>0, WFMin
<1>2. ASSUME NEW y \in ns PROVE k <= y
  <2>1. k \in Nat /\ y \in Nat
    OBVIOUS
  <2>2. ~(y < k)
    BY <1>1, <2>1
  <2> QED BY <2>1, <2>2
<1> QED BY <1>2

\* The cardinality that HistoryFeed and Sidebar speak of is the one above.
LEMMA SameCounts ==
  \A Es : /\ H!Cardinality(Es) = Cardinality(Es) /\ N!Cardinality(Es) = Cardinality(Es)
         /\ H!IsFiniteSet(Es) = IsFiniteSet(Es) /\ N!IsFiniteSet(Es) = IsFiniteSet(Es)
BY DEF H!Cardinality, N!Cardinality, Cardinality, H!IsFiniteSet, N!IsFiniteSet, IsFiniteSet

-----------------------------------------------------------------------------
(* The undoing of a run *)

\* What the undoing of a run rests on: the changes are finitely many, and one
\* confirmed write of one run is under way at most.
Logged(Es) == IsFiniteSet(Es) /\ \A o \in Es : o.path \in Nat /\ o.lamport \in Nat
OneWrite(W) ==
  /\ \A v, w \in W : v = w
  /\ \A w \in W : /\ w = [kind |-> w.kind, path |-> w.path, content |-> w.content, run |-> w.run]
                  /\ w.kind = "undo" => \E r : w.run = {r}
Undoing ==
  /\ Logged(s1) /\ Logged(s2)
  /\ OneWrite(s10) /\ OneWrite(s11) /\ (s10 # {} => s11 = {})

\* The hub's clock is at or past every operation it has.
LEMMA ClockIsLatest ==
  ASSUME NEW Es, Logged(Es)
  PROVE  H!Clock(Es) \in Nat /\ \A o \in Es : o.lamport <= H!Clock(Es)
<1>. DEFINE Some == {o.lamport : o \in Es}
            f == [o \in Es |-> o.lamport]
<1>1. f \in Surjection(Es, Some)
  BY DEF Surjection
<1>2. IsFiniteSet(Some)
  <2>. HIDE DEF f, Some
  <2>. QED  BY <1>1, FS_Surjection DEF Logged
<1>3. IsFiniteSet(Some \cup {0})
  <2>. HIDE DEF Some
  <2>. QED  BY <1>2, FS_AddElement
<1>4. Some \cup {0} \subseteq Nat
  BY DEF Logged
<1>5. \E x \in Some \cup {0} : \A y \in Some \cup {0} : y <= x
  <2>. HIDE DEF Some
  <2>. QED  BY <1>3, <1>4, GreatestIn
<1>6. \E l \in Some \cup {0} : \A o \in Es : o.lamport <= l
  BY <1>5
<1>. QED  BY <1>4, <1>6 DEF H!Clock

\* The writes of one append, in the order of their paths: each has its place.
LEMMA WritesInOrder ==
  ASSUME NEW W, IsFiniteSet(W), \A x \in W : x.path \in Nat,
         \A x, y \in W : x.path = y.path => x = y
  PROVE  LET order == H!Sorted(W, LAMBDA a, b : a.path < b.path) IN
         /\ Cardinality(W) \in Nat /\ DOMAIN order = 1 .. Cardinality(W)
         /\ \A i \in 1 .. Cardinality(W) : order[i] \in W
         /\ \A x \in W : \E i \in 1 .. Cardinality(W) : order[i] = x
         /\ \A i, j \in 1 .. Cardinality(W) : order[i] = order[j] => i = j
<1>. DEFINE n == Cardinality(W)
            order == H!Sorted(W, LAMBDA a, b : a.path < b.path)
            at(x) == Cardinality({y \in W : y.path < x.path})
<1>1. PICK Ord : Ord = {p \in W \X W : p[1].path < p[2].path}
  OBVIOUS
<1>2. Orders(Ord, W)
  BY <1>1 DEF Orders
<1>3. \A x \in W : {y \in W : <<y, x>> \in Ord} = {y \in W : y.path < x.path}
  BY <1>1
<1>4. \A x \in W : at(x) = Rank(Ord, W, x)
  BY <1>3 DEF Rank
<1>5. /\ n \in Nat /\ \A x \in W : Rank(Ord, W, x) \in 0 .. n - 1
      /\ \A x, y \in W : Rank(Ord, W, x) = Rank(Ord, W, y) => x = y
      /\ \A i \in 0 .. n - 1 : \E x \in W : Rank(Ord, W, x) = i
  BY <1>2, Ranked
<1>6. order = [i \in 1 .. n |-> CHOOSE x \in W : at(x) = i - 1]
  BY DEF H!Sorted, H!Cardinality, Cardinality
<1>. HIDE DEF n, order, at
<1>7. ASSUME NEW i \in 1 .. n PROVE order[i] \in W /\ Rank(Ord, W, order[i]) = i - 1
  <2>1. i - 1 \in 0 .. n - 1
    BY <1>5
  <2>2. \E x \in W : at(x) = i - 1
    BY <1>4, <1>5, <2>1
  <2>3. order[i] \in W /\ at(order[i]) = i - 1
    BY <1>6, <2>2
  <2>. QED  BY <1>4, <2>3
<1>8. ASSUME NEW x \in W PROVE \E i \in 1 .. n : order[i] = x
  <2>1. Rank(Ord, W, x) + 1 \in 1 .. n /\ Rank(Ord, W, x) \in Int
    BY <1>5
  <2>2. Rank(Ord, W, order[Rank(Ord, W, x) + 1]) = Rank(Ord, W, x)
    BY <1>7, <2>1
  <2>. QED  BY <1>5, <1>7, <2>1, <2>2
<1>9. ASSUME NEW i \in 1 .. n, NEW j \in 1 .. n, order[i] = order[j] PROVE i = j
  <2>1. i - 1 = j - 1
    BY <1>7, <1>9
  <2>. QED  BY <2>1
<1>. QED  BY <1>5, <1>6, <1>7, <1>8, <1>9 DEF order, n

\* The operations of one append to the hub's own journal, by what they write.
LEMMA Appended ==
  ASSUME Logged(s2), NEW W, IsFiniteSet(W), \A x \in W : x.path \in Nat,
         \A x, y \in W : x.path = y.path => x = y, NEW run
  PROVE  LET Added == H!HubOps(W, {run}) IN
         /\ Logged(s2 \cup Added)
         /\ \A o \in Added : o.lamport > H!Clock(s2) /\ \E x \in W : o.path = x.path /\ o.content = x.content
         /\ \A x \in W : \E o \in Added : o.path = x.path /\ o.content = x.content
         /\ \A o, m \in Added : o.path = m.path => o = m
<1>. DEFINE order == H!Sorted(W, LAMBDA a, b : a.path < b.path)
            n == Cardinality(W)
            op(i) == [device |-> 0, seq |-> H!Cardinality(H!Own(0)) + i, lamport |-> H!Clock(s2) + i,
                      time |-> H!Now, path |-> order[i].path, content |-> order[i].content, run |-> run]
            Added == {op(i) : i \in 1 .. n}
<1>1. /\ n \in Nat /\ DOMAIN order = 1 .. n
      /\ \A i \in 1 .. n : order[i] \in W
      /\ \A x \in W : \E i \in 1 .. n : order[i] = x
      /\ \A i, j \in 1 .. n : order[i] = order[j] => i = j
  BY WritesInOrder
<1>2. Len(order) = n
  <2>. HIDE DEF order, n
  <2>1. \A s : \A k \in Nat : DOMAIN s = 1 .. k => Len(s) = k
    OBVIOUS
  <2>. QED  BY <1>1, <2>1
<1>3. H!HubOps(W, {run}) = Added
  <2>1. H!HubOps(W, {run}) = {op(i) : i \in 1 .. Len(order)}
    BY DEF H!HubOps
  <2>. QED  BY <1>2, <2>1
<1>4. H!Clock(s2) \in Nat
  BY ClockIsLatest
<1>5. \A i \in 1 .. n : op(i).lamport = H!Clock(s2) + i /\ op(i).path = order[i].path /\ op(i).content = order[i].content
  OBVIOUS
<1>. HIDE DEF order, n, op
<1>6. \A o \in Added : /\ o.lamport \in Nat /\ o.lamport > H!Clock(s2)
                   /\ \E x \in W : o.path = x.path /\ o.content = x.content
  <2>. SUFFICES ASSUME NEW i \in 1 .. n
                PROVE  /\ op(i).lamport \in Nat /\ op(i).lamport > H!Clock(s2)
                       /\ \E x \in W : op(i).path = x.path /\ op(i).content = x.content
    OBVIOUS
  <2>1. i \in Nat /\ i > 0 /\ order[i] \in W
    BY <1>1
  <2>. QED  BY <1>4, <1>5, <2>1
<1>7. \A x \in W : \E o \in Added : o.path = x.path /\ o.content = x.content
  BY <1>1, <1>5
<1>8. \A o, m \in Added : o.path = m.path => o = m
  <2>. SUFFICES ASSUME NEW i \in 1 .. n, NEW j \in 1 .. n, op(i).path = op(j).path
                PROVE  op(i) = op(j)
    OBVIOUS
  <2>1. order[i] \in W /\ order[j] \in W /\ order[i].path = order[j].path
    BY <1>1, <1>5
  <2>2. i = j
    BY <1>1, <2>1
  <2>. QED  BY <2>2
<1>9. IsFiniteSet(Added)
  <2>. DEFINE f == [i \in 1 .. n |-> op(i)]
  <2>1. f \in Surjection(1 .. n, Added)
    BY DEF Surjection
  <2>2. IsFiniteSet(1 .. n)
    BY <1>1, FS_Interval
  <2>. HIDE DEF f, Added
  <2>. QED  BY <2>1, <2>2, FS_Surjection
<1>10. \A o \in Added : o.path \in Nat
  BY <1>6
<1>. HIDE DEF Added
<1>11. Logged(s2 \cup Added)
  BY <1>6, <1>9, <1>10, FS_Union DEF Logged
<1>. QED  BY <1>3, <1>6, <1>7, <1>8, <1>11

\* It holds at first.
LEMMA HistoryStarts == ASSUME H!Init PROVE Undoing
<1>1. Logged(s1)
  BY PagesSound, SameCounts DEF PagesSound, H!ConstantsSound, H!Init, Logged
<1>. QED  BY <1>1, FS_EmptySet DEF H!Init, Undoing, Logged, OneWrite

\* What the newest operation of a path left there is its content.
LEMMA NewestHolds ==
  ASSUME NEW Es, NEW n, n.lamport \in Nat,
         n \in Es, \A o \in Es : o = n \/ (o.lamport \in Nat /\ o.lamport < n.lamport)
  PROVE  H!Held(Es) = n.content
<1>1. \A o \in Es : o = n \/ H!Less(o, n)
  BY DEF H!Less
<1>2. \A o \in Es : o # n => ~H!Less(n, o)
  BY DEF H!Less
<1>3. H!Newest(Es) = {n}
  BY <1>1, <1>2 DEF H!Newest
<1>. QED  BY <1>3 DEF H!Held

\* A run's undoing writes to each path at most once, and to paths of the history.
LEMMA WritesAre ==
  ASSUME Undoing, NEW w \in s11, w.kind # "answered"
  PROVE  LET W == H!Writes(w) IN
         /\ IsFiniteSet(W) /\ \A x \in W : x.path \in Nat
         /\ \A x, y \in W : x.path = y.path => x = y
<1>1. CASE w.kind = "undo"
  <2>1. PICK r : w.run = {r}
    BY <1>1 DEF Undoing, OneWrite
  <2>2. H!Writes(w) = H!planUndo(r)
    BY <1>1, <2>1 DEF H!Writes
  <2>. DEFINE g == [o \in s2 |-> [path |-> o.path, content |-> H!PreRun(r, o.path)]]
              Some == {g[o] : o \in s2}
  <2>3. g \in Surjection(s2, Some)
    BY DEF Surjection
  <2>4. IsFiniteSet(Some)
    <3>. HIDE DEF g, Some
    <3>. QED  BY <2>3, FS_Surjection DEF Undoing, Logged
  <2>5. \A x \in H!planUndo(r) : \E o \in s2 : x = [path |-> o.path, content |-> H!PreRun(r, o.path)]
    BY DEF H!planUndo, H!RunOps
  <2>6. H!planUndo(r) \subseteq Some
    BY <2>5
  <2>. HIDE DEF g, Some
  <2>7. IsFiniteSet(H!planUndo(r))
    BY <2>4, <2>6, FS_Subset
  <2>. QED  BY <2>2, <2>5, <2>7 DEF Undoing, Logged
<1>2. CASE w.kind # "undo" /\ H!Writes(w) # {}
  <2>1. H!Writes(w) = {[path |-> w.path, content |-> w.content]} /\ H!Current(w.path) # w.content /\ H!Version(w)
    BY <1>2 DEF H!Writes
  <2>2. H!On(w.path) # {}
    BY <2>1 DEF H!Version, H!Current, H!Held
  <2>3. w.path \in Nat
    BY <2>2 DEF H!On, Undoing, Logged
  <2>4. IsFiniteSet(H!Writes(w))
    BY <2>1, FS_Singleton
  <2>. QED  BY <2>1, <2>3, <2>4
<1>3. CASE H!Writes(w) = {}
  BY <1>3, FS_EmptySet
<1>. QED  BY <1>1, <1>2, <1>3

\* The hub's answer to an undo puts every file of the run back (undorun.go,
\* planUndo and handleUndoRun).
LEMMA UndoServed ==
  ASSUME Undoing, H!PostServed
  PROVE  Undoing' /\ H!Reverts
<1>1. PICK w \in s11 :
        /\ w.kind # "answered"
        /\ H!Append2Hub(H!HubOps(H!Writes(w), IF w.kind = "undo" THEN UNION {{H!undoNote(r.run)} : r \in w.run} ELSE {<<>>}))
        /\ s11' = IF H!Writes(w) = {} THEN {} ELSE {[w EXCEPT !.kind = "answered"]}
        /\ UNCHANGED <<s1, s3, s4, s5, s6, s7, s9, s10>>
  BY DEF H!PostServed
<1>2. s11 = {w} /\ w = [kind |-> w.kind, path |-> w.path, content |-> w.content, run |-> w.run]
  BY DEF Undoing, OneWrite
<1>3. \E run : (IF w.kind = "undo" THEN UNION {{H!undoNote(r.run)} : r \in w.run} ELSE {<<>>}) = {run}
  <2>1. CASE w.kind = "undo"
    <3>1. PICK r : w.run = {r}
      BY <2>1 DEF Undoing, OneWrite
    <3>. QED  BY <2>1, <3>1
  <2>. QED  BY <2>1
<1>4. PICK run : H!Append2Hub(H!HubOps(H!Writes(w), {run}))
  BY <1>1, <1>3
<1>. DEFINE W == H!Writes(w)
            New == H!HubOps(W, {run})
<1>5. /\ IsFiniteSet(W) /\ \A x \in W : x.path \in Nat
      /\ \A x, y \in W : x.path = y.path => x = y
  BY <1>1, WritesAre
<1>. HIDE DEF W
<1>6. /\ Logged(s2 \cup New)
      /\ \A o \in New : o.lamport > H!Clock(s2) /\ \E x \in W : o.path = x.path /\ o.content = x.content
      /\ \A x \in W : \E o \in New : o.path = x.path /\ o.content = x.content
      /\ \A o, m \in New : o.path = m.path => o = m
  BY <1>5, Appended DEF Undoing
<1>7. s2' = s2 \cup New
  BY <1>4 DEF H!Append2Hub, W
<1>. HIDE DEF New
<1>8. Undoing'
  <2>1. OneWrite(s11')
    <3>1. CASE W = {}
      BY <1>1, <3>1 DEF OneWrite, W
    <3>2. CASE W # {}
      <4>1. s11' = {[w EXCEPT !.kind = "answered"]}
        BY <1>1, <3>2 DEF W
      <4>2. [w EXCEPT !.kind = "answered"] = [kind |-> "answered", path |-> w.path, content |-> w.content, run |-> w.run]
        BY <1>2
      <4>. QED  BY <4>1, <4>2 DEF OneWrite
    <3>. QED  BY <3>1, <3>2
  <2>2. s10 = {} /\ s10' = {} /\ s1' = s1
    BY <1>1, <1>2 DEF Undoing
  <2>. QED  BY <1>6, <1>7, <2>1, <2>2 DEF Undoing, OneWrite, Logged
<1>9. H!Reverts
  <2>. SUFFICES ASSUME w.kind = "undo", NEW r \in w.run, NEW p \in {o.path : o \in H!RunOps(r)}
                PROVE  H!Current(p)' = H!PreRun(r, p)
    BY <1>2 DEF H!Reverts
  <2>1. w.run = {r}
    BY DEF Undoing, OneWrite
  <2>2. W = H!planUndo(r)
    BY <2>1 DEF W, H!Writes
  <2>3. H!On(p)' = H!On(p) \cup {o \in New : o.path = p}
    BY <1>7 DEF H!On
  <2>4. CASE H!Current(p) = H!PreRun(r, p)
    <3>1. \A x \in W : x.path # p
      BY <2>2, <2>4 DEF H!planUndo
    <3>2. H!On(p)' = H!On(p)
      BY <1>6, <2>3, <3>1
    <3>. QED  BY <2>4, <3>2 DEF H!Current
  <2>5. CASE H!Current(p) # H!PreRun(r, p)
    <3>1. [path |-> p, content |-> H!PreRun(r, p)] \in W
      BY <2>2, <2>5 DEF H!planUndo
    <3>2. PICK n \in New : n.path = p /\ n.content = H!PreRun(r, p)
      BY <1>6, <3>1
    <3>3. H!On(p)' = H!On(p) \cup {n}
      BY <1>6, <2>3, <3>2
    <3>4. /\ n.lamport \in Nat
          /\ \A o \in H!On(p) : o.lamport \in Nat /\ o.lamport < n.lamport
      <4>1. H!Clock(s2) \in Nat /\ \A o \in s2 : o.lamport <= H!Clock(s2)
        BY ClockIsLatest DEF Undoing
      <4>2. n.lamport \in Nat /\ n.lamport > H!Clock(s2)
        BY <1>6, <3>2 DEF Logged
      <4>3. \A o \in s2 : o.lamport \in Nat
        BY DEF Undoing, Logged
      <4>. QED  BY <4>1, <4>2, <4>3 DEF H!On
    <3>5. H!Held(H!On(p) \cup {n}) = n.content
      <4>1. PICK Es : Es = H!On(p) \cup {n}
        OBVIOUS
      <4>2. n \in Es /\ \A o \in Es : o = n \/ (o.lamport \in Nat /\ o.lamport < n.lamport)
        BY <3>4, <4>1
      <4>3. n.lamport \in Nat
        BY <3>4
      <4>4. H!Held(Es) = n.content
        BY ONLY <4>2, <4>3, NewestHolds
      <4>. QED  BY ONLY <4>1, <4>4
    <3>6. H!Current(p)' = H!Held(H!On(p)')
      BY DEF H!Current, H!Held, H!Newest, H!Less
    <3>. QED  BY <3>2, <3>3, <3>5, <3>6
  <2>. QED  BY <2>4, <2>5
<1>. QED  BY <1>8, <1>9

\* No other step writes to the hub but a device's push, or drops an undo unanswered.
LEMMA UndoStep ==
  ASSUME Undoing, [H!Next]_(H!vars)
  PROVE  Undoing' /\ [H!Reverts]_(H!vars)
<1>1. ASSUME NEW o \in s1, H!Push(o) PROVE Undoing' /\ H!Reverts
  <2>1. s1' = s1 \ {o} /\ s2' = s2 \cup {o} /\ s10' = s10 /\ s11' = s11
    BY <1>1 DEF H!Push, H!Append2Hub, H!tabVars
  <2>2. Logged(s1') /\ Logged(s2')
    BY <2>1, FS_RemoveElement, FS_AddElement DEF Undoing, Logged
  <2>. QED  BY <2>1, <2>2 DEF Undoing, OneWrite, H!Reverts
<1>2. CASE H!PostServed
  BY <1>2, UndoServed
<1>3. CASE H!AskRestore \/ H!AskRemove
  <2>1. \E p, c : (\E k \in {"restore", "remove"} :
          s10' = {[kind |-> k, path |-> p, content |-> c, run |-> {}]})
           /\ s11 = {} /\ UNCHANGED <<s1, s2, s11>>
    BY <1>3 DEF H!AskRestore, H!AskRemove, H!Ask
  <2>. QED  BY <2>1 DEF Undoing, OneWrite, H!Reverts
<1>4. CASE H!AskUndo
  <2>1. \E p, r : s10' = {[kind |-> "undo", path |-> p, content |-> 0, run |-> {r}]}
           /\ s11 = {} /\ UNCHANGED <<s1, s2, s11>>
    BY <1>4 DEF H!AskUndo, H!Ask
  <2>. QED  BY <2>1 DEF Undoing, OneWrite, H!Reverts
<1>5. CASE H!Dismiss \/ H!Confirm
  BY <1>5 DEF H!Dismiss, H!Confirm, Undoing, OneWrite, H!Reverts
<1>6. CASE H!PostDone
  <2>1. s11' = {} /\ UNCHANGED <<s1, s2, s10>> /\ \E w \in s11 : w.kind = "answered"
    BY <1>6 DEF H!PostDone
  <2>2. \A w \in s11 : w.kind = "answered"
    BY <2>1 DEF Undoing, OneWrite
  <2>. QED  BY <2>1, <2>2 DEF Undoing, OneWrite, H!Reverts
<1>7. CASE UNCHANGED <<s1, s2, s10, s11>>
  BY <1>7 DEF Undoing, Logged, OneWrite, H!Reverts
<1>8. CASE H!Refresh \/ H!fetchNextPage \/ H!Served \/ H!Failed \/ H!TimedOut \/ H!Retry
           \/ (\E f \in H!Filters : H!SetFilter(f)) \/ H!SelectRow \/ H!Key
  <2>1. UNCHANGED <<s1, s2, s10, s11>>
    BY <1>8 DEF H!Refresh, H!fetchNextPage, H!Served, H!Failed, H!TimedOut, H!Retry,
                H!SetFilter, H!SelectRow, H!Key, H!Selected
  <2>. QED  BY <1>7, <2>1
<1>9. CASE UNCHANGED H!vars
  BY <1>7, <1>9 DEF H!vars, H!tabVars
<1>. QED  BY <1>1, <1>2, <1>3, <1>4, <1>5, <1>6, <1>8, <1>9 DEF H!Next

-----------------------------------------------------------------------------
(* The feed that a tab shows *)

\* Devices number their operations, and the hub numbers its own from 1.
OwnOf(Es) == {o \in Es : o.device = 0}
Signed(Es) ==
  /\ \A o \in Es : o.time \in Nat /\ o.lamport \in Nat /\ o.device \in Nat /\ o.seq \in Nat
  /\ \A a, b \in Es : a.device = b.device /\ a.seq = b.seq => a = b
Numbered(Ls, Es) ==
  /\ Signed(Ls \cup Es)
  /\ \A o \in Ls : o.device # 0
  /\ \A o \in Es : o.device = 0 => o.seq <= Cardinality(OwnOf(Es))

\* The order of the feed, latest first; and what the feed shows of some operations.
Feeds(Es) == {p \in Es \X Es : H!histLess(p[1], p[2])}
FeedOf(Es) ==
  [i \in 1 .. Cardinality(Es) |-> CHOOSE x \in Es : Cardinality({y \in Es : H!histLess(y, x)}) = i - 1]

LEMMA FeedOrders ==
  ASSUME NEW Es, Signed(Es), NEW Fs \in SUBSET Es
  PROVE  Orders(Feeds(Es), Fs)
<1>1. \A x, y \in Es : <<x, y>> \in Feeds(Es) <=> H!histLess(x, y)
  BY DEF Feeds
<1>2. \A x \in Es : x.time \in Nat /\ x.lamport \in Nat /\ x.device \in Nat /\ x.seq \in Nat
  BY DEF Signed
<1>3. \A x \in Es : ~H!histLess(x, x)
  BY <1>2 DEF H!histLess, H!Less
<1>4. \A x, y \in Es : x = y \/ H!histLess(x, y) \/ H!histLess(y, x)
  <2>. SUFFICES ASSUME NEW x \in Es, NEW y \in Es, x.device # y.device \/ x.seq # y.seq
                PROVE  H!histLess(x, y) \/ H!histLess(y, x)
    BY DEF Signed
  <2>. QED  BY <1>2 DEF H!histLess, H!Less
<1>5. ASSUME NEW x \in Es, NEW y \in Es, NEW z \in Es, H!histLess(x, y), H!histLess(y, z)
      PROVE  H!histLess(x, z)
  <2>1. H!Less(z, y) /\ H!Less(y, x) => H!Less(z, x)
    BY <1>2 DEF H!Less
  <2>2. /\ x.time > y.time \/ (x.time = y.time /\ H!Less(y, x))
        /\ y.time > z.time \/ (y.time = z.time /\ H!Less(z, y))
    BY <1>5 DEF H!histLess
  <2>3. x.time > z.time \/ (x.time = z.time /\ H!Less(z, x))
    BY <1>2, <2>1, <2>2
  <2>. QED  BY <2>3 DEF H!histLess
<1>. HIDE DEF Feeds
<1>6. Fs \subseteq Es
  OBVIOUS
<1>7. \A x \in Fs : <<x, x>> \notin Feeds(Es)
  BY <1>1, <1>3, <1>6
<1>8. \A x, y \in Fs : x = y \/ <<x, y>> \in Feeds(Es) \/ <<y, x>> \in Feeds(Es)
  BY <1>1, <1>4, <1>6
<1>9. \A x, y, z \in Fs : <<x, y>> \in Feeds(Es) /\ <<y, z>> \in Feeds(Es) => <<x, z>> \in Feeds(Es)
  BY <1>1, <1>5, <1>6
<1>. QED  BY <1>7, <1>8, <1>9 DEF Orders

LEMMA FeedFollows ==
  ASSUME NEW Es, Signed(Es), NEW x \in Es, NEW y \in Es, NEW z \in Es,
         H!histLess(x, y), H!histLess(y, z)
  PROVE  H!histLess(x, z)
<1>1. <<x, y>> \in Feeds(Es) /\ <<y, z>> \in Feeds(Es)
  BY DEF Feeds
<1>2. Orders(Feeds(Es), Es)
  BY FeedOrders
<1>3. <<x, z>> \in Feeds(Es)
  <2>. HIDE DEF Feeds
  <2>. QED  BY <1>1, <1>2 DEF Orders
<1>. QED  BY <1>3 DEF Feeds

\* The entry at a place is the one with as many before it.
LEMMA FeedPlaces ==
  ASSUME NEW Es, Signed(Es), NEW Fs \in SUBSET Es, IsFiniteSet(Fs)
  PROVE  /\ Cardinality(Fs) \in Nat
         /\ \A i \in 1 .. Cardinality(Fs) : FeedOf(Fs)[i] \in Fs /\ Rank(Feeds(Es), Fs, FeedOf(Fs)[i]) = i - 1
         /\ \A x \in Fs : \E i \in 1 .. Cardinality(Fs) : FeedOf(Fs)[i] = x
<1>. DEFINE n == Cardinality(Fs)
            at(x) == Cardinality({y \in Fs : H!histLess(y, x)})
<1>0. Orders(Feeds(Es), Fs)
  BY FeedOrders
<1>1. \A x \in Fs : {y \in Fs : <<y, x>> \in Feeds(Es)} = {y \in Fs : H!histLess(y, x)}
  BY DEF Feeds
<1>2. \A x \in Fs : at(x) = Rank(Feeds(Es), Fs, x)
  BY <1>1 DEF Rank
<1>3. /\ n \in Nat /\ \A x \in Fs : Rank(Feeds(Es), Fs, x) \in 0 .. n - 1
      /\ \A x, y \in Fs : Rank(Feeds(Es), Fs, x) = Rank(Feeds(Es), Fs, y) => x = y
      /\ \A i \in 0 .. n - 1 : \E x \in Fs : Rank(Feeds(Es), Fs, x) = i
  BY <1>0, Ranked
<1>4. \A i \in 1 .. n : FeedOf(Fs)[i] = CHOOSE x \in Fs : at(x) = i - 1
  BY DEF FeedOf
<1>. HIDE DEF n, at
<1>5. ASSUME NEW i \in 1 .. n PROVE FeedOf(Fs)[i] \in Fs /\ Rank(Feeds(Es), Fs, FeedOf(Fs)[i]) = i - 1
  <2>1. i - 1 \in 0 .. n - 1
    BY <1>3
  <2>2. \E x \in Fs : at(x) = i - 1
    BY <1>2, <1>3, <2>1
  <2>3. FeedOf(Fs)[i] \in Fs /\ at(FeedOf(Fs)[i]) = i - 1
    BY <1>4, <2>2
  <2>. QED  BY <1>2, <2>3
<1>6. ASSUME NEW x \in Fs PROVE \E i \in 1 .. n : FeedOf(Fs)[i] = x
  <2>1. Rank(Feeds(Es), Fs, x) + 1 \in 1 .. n /\ Rank(Feeds(Es), Fs, x) \in Int
    BY <1>3
  <2>2. Rank(Feeds(Es), Fs, FeedOf(Fs)[Rank(Feeds(Es), Fs, x) + 1]) = Rank(Feeds(Es), Fs, x)
    BY <1>5, <2>1
  <2>. QED  BY <1>3, <1>5, <2>1, <2>2
<1>. QED  BY <1>3, <1>5, <1>6 DEF n

\* An entry is before another at a later place, and only there.
LEMMA FeedSorted ==
  ASSUME NEW Es, Signed(Es), NEW Fs \in SUBSET Es, IsFiniteSet(Fs),
         NEW i \in 1 .. Cardinality(Fs), NEW j \in 1 .. Cardinality(Fs)
  PROVE  i < j <=> H!histLess(FeedOf(Fs)[i], FeedOf(Fs)[j])
<1>. DEFINE x == FeedOf(Fs)[i]
            y == FeedOf(Fs)[j]
<1>0. Orders(Feeds(Es), Fs)
  BY FeedOrders
<1>1. /\ x \in Fs /\ Rank(Feeds(Es), Fs, x) = i - 1
      /\ y \in Fs /\ Rank(Feeds(Es), Fs, y) = j - 1
  BY FeedPlaces
<1>2. i \in Int /\ j \in Int
  OBVIOUS
<1>3. <<x, y>> \in Feeds(Es) <=> H!histLess(x, y)
  <2>1. x \in Es /\ y \in Es
    BY <1>1
  <2>. HIDE DEF x, y
  <2>. QED  BY <2>1 DEF Feeds
<1>. HIDE DEF x, y
<1>4. ASSUME <<x, y>> \in Feeds(Es) PROVE i < j
  <2>1. Rank(Feeds(Es), Fs, x) < Rank(Feeds(Es), Fs, y)
    BY <1>0, <1>1, <1>4, RankGrows
  <2>. QED  BY <1>1, <1>2, <2>1
<1>5. ASSUME i < j PROVE <<x, y>> \in Feeds(Es)
  <2>1. x # y
    BY <1>1, <1>2, <1>5
  <2>2. ASSUME <<y, x>> \in Feeds(Es) PROVE FALSE
    <3>1. Rank(Feeds(Es), Fs, y) < Rank(Feeds(Es), Fs, x)
      BY <1>0, <1>1, <2>2, RankGrows
    <3>. QED  BY <1>1, <1>2, <1>5, <3>1
  <2>. QED  BY <1>0, <1>1, <2>1, <2>2 DEF Orders
<1>. QED  BY <1>3, <1>4, <1>5 DEF x, y

\* What is past the k-th entry are the entries after it, in their places.
LEMMA RestOfFeed ==
  ASSUME NEW Es, Signed(Es), NEW Fs \in SUBSET Es, IsFiniteSet(Fs), NEW k \in 0 .. Cardinality(Fs)
  PROVE  LET Rest == {x \in Fs : \A d \in (IF k = 0 THEN {} ELSE {FeedOf(Fs)[k]}) : H!histLess(d, x)} IN
         /\ IsFiniteSet(Rest) /\ Cardinality(Rest) = Cardinality(Fs) - k
         /\ \A i \in 1 .. Cardinality(Rest) : FeedOf(Rest)[i] = FeedOf(Fs)[k + i]
<1>. DEFINE n == Cardinality(Fs)
            c == IF k = 0 THEN {} ELSE {FeedOf(Fs)[k]}
            Rest == {x \in Fs : \A d \in c : H!histLess(d, x)}
            First == {x \in Fs : Rank(Feeds(Es), Fs, x) < k}
<1>0. Orders(Feeds(Es), Fs)
  BY FeedOrders
<1>1. /\ n \in Nat
      /\ \A i \in 1 .. n : FeedOf(Fs)[i] \in Fs /\ Rank(Feeds(Es), Fs, FeedOf(Fs)[i]) = i - 1
      /\ \A x \in Fs : \E i \in 1 .. n : FeedOf(Fs)[i] = x
  BY FeedPlaces
<1>2. \A i, j \in 1 .. n : i < j <=> H!histLess(FeedOf(Fs)[i], FeedOf(Fs)[j])
  BY FeedSorted
<1>3. k \in Nat /\ k <= n
  BY <1>1
<1>. HIDE DEF n
<1>4. ASSUME NEW j \in 1 .. n PROVE FeedOf(Fs)[j] \in Rest <=> k < j
  <2>1. CASE k = 0
    <3>1. FeedOf(Fs)[j] \in Rest /\ k < j
      BY <1>1, <2>1
    <3>. QED  BY <3>1
  <2>2. CASE k # 0
    <3>1. c = {FeedOf(Fs)[k]} /\ k \in 1 .. n
      BY <1>1, <1>3, <2>2
    <3>. HIDE DEF c
    <3>2. FeedOf(Fs)[j] \in Rest <=> H!histLess(FeedOf(Fs)[k], FeedOf(Fs)[j])
      BY <1>1, <3>1
    <3>. HIDE DEF Rest
    <3>. QED  BY <1>2, <3>1, <3>2
  <2>. QED  BY <2>1, <2>2
<1>5. \A j \in 1 .. n : FeedOf(Fs)[j] \in First <=> ~(k < j)
  <2>. SUFFICES ASSUME NEW j \in 1 .. n PROVE FeedOf(Fs)[j] \in First <=> ~(k < j)
    OBVIOUS
  <2>1. FeedOf(Fs)[j] \in First <=> j - 1 < k
    BY <1>1
  <2>. QED  BY <1>3, <2>1
<1>6. Rest \subseteq Fs /\ First \subseteq Fs
  OBVIOUS
<1>7. Cardinality(First) = k
  BY <1>0, <1>3, FirstOnes DEF n
<1>. HIDE DEF Rest, First
<1>8. First \cup Rest = Fs /\ First \cap Rest = {}
  BY <1>1, <1>4, <1>5, <1>6
<1>9. IsFiniteSet(Rest) /\ IsFiniteSet(First)
  BY <1>6, FS_Subset
<1>10. Cardinality(Rest) = n - k
  <2>1. Cardinality(Fs) = Cardinality(First) + Cardinality(Rest) - Cardinality({})
    BY <1>8, <1>9, FS_Union
  <2>2. Cardinality({}) = 0 /\ Cardinality(Rest) \in Nat
    BY <1>9, FS_EmptySet, FS_CardinalityType
  <2>. QED  BY <1>3, <1>7, <2>1, <2>2 DEF n
<1>11. ASSUME NEW i \in 1 .. Cardinality(Rest) PROVE FeedOf(Rest)[i] = FeedOf(Fs)[k + i]
  <2>. DEFINE y == FeedOf(Rest)[i]
              Mine == {z \in Rest : <<z, y>> \in Feeds(Es)}
              All == {z \in Fs : <<z, y>> \in Feeds(Es)}
  <2>1. y \in Rest /\ Rank(Feeds(Es), Rest, y) = i - 1
    <3>1. Rest \in SUBSET Es
      BY <1>6
    <3>. QED  BY <1>9, <3>1, FeedPlaces
  <2>. HIDE DEF y
  <2>2. PICK j \in 1 .. n : FeedOf(Fs)[j] = y
    BY <1>1, <1>6, <2>1
  <2>3. k < j
    BY <1>4, <2>1, <2>2
  <2>4. \A z \in First : <<z, y>> \in Feeds(Es)
    <3>. SUFFICES ASSUME NEW z \in First PROVE <<z, y>> \in Feeds(Es)
      OBVIOUS
    <3>1. PICK h \in 1 .. n : FeedOf(Fs)[h] = z
      BY <1>1, <1>6
    <3>2. h < j
      <4>1. ~(k < h)
        BY <1>5, <3>1
      <4>. QED  BY <1>3, <2>3, <4>1
    <3>3. H!histLess(z, y)
      BY <1>2, <2>2, <3>1, <3>2
    <3>4. z \in Es /\ y \in Es
      BY <1>6, <2>1
    <3>. QED  BY <3>3, <3>4 DEF Feeds
  <2>5. First \cup Mine = All /\ First \cap Mine = {}
    BY <1>8, <2>4
  <2>6. IsFiniteSet(Mine) /\ Cardinality(Mine) = i - 1
    <3>1. Mine \subseteq Rest
      OBVIOUS
    <3>. HIDE DEF Mine
    <3>2. IsFiniteSet(Mine)
      BY <1>9, <3>1, FS_Subset
    <3>. QED  BY <2>1, <3>2 DEF Mine, Rank
  <2>7. Cardinality(All) = j - 1
    <3>1. Rank(Feeds(Es), Fs, y) = j - 1
      BY <1>1, <2>2
    <3>. QED  BY <3>1 DEF Rank
  <2>. HIDE DEF Mine, All
  <2>8. Cardinality(All) = Cardinality(First) + Cardinality(Mine) - Cardinality({})
    BY <1>9, <2>5, <2>6, FS_Union
  <2>9. Cardinality({}) = 0
    BY FS_EmptySet
  <2>10. i \in Int /\ j \in Int
    OBVIOUS
  <2>11. j = k + i
    BY <1>3, <1>7, <2>6, <2>7, <2>8, <2>9, <2>10
  <2>. QED  BY <2>2, <2>11 DEF y
<1>. QED  BY <1>9, <1>10, <1>11 DEF Rest, n

\* The page past a cursor.
Members(Os, f) == {o \in Os : H!Keep(o, f)}
Beyond(Os, f, cursor) == {o \in Members(Os, f) : \A c \in cursor : H!histLess(c, o)}
Taken(Es) == IF Cardinality(Es) < PageSize THEN Cardinality(Es) ELSE PageSize

\* An entry says what its operation changed, of what came before it.
EntryIn(Os, o) ==
  LET old == {x \in Os : x.path = o.path /\ H!Less(x, o)}
      kind == IF o.content = 0 THEN "delete" ELSE IF H!Held(old) = 0 THEN "add" ELSE "edit"
  IN [op |-> o, kind |-> kind,
      prev |-> IF kind = "delete" /\ H!Held(old) = 0 THEN 0 ELSE H!Held({x \in old : x.content # 0})]

LEMMA EntryIs == \A o : H!Entry(o) = EntryIn(s2, o)
<1>. SUFFICES ASSUME NEW o PROVE H!Entry(o) = EntryIn(s2, o)
  OBVIOUS
<1>1. H!Earlier(o) = {x \in s2 : x.path = o.path /\ H!Less(x, o)}
  BY DEF H!Earlier, H!On
<1>. QED  BY <1>1 DEF H!Entry, H!Kind, H!Prev, EntryIn

LEMMA SortedIs == ASSUME NEW Es PROVE H!Sorted(Es, H!histLess) = FeedOf(Es)
BY DEF H!Sorted, FeedOf, H!Cardinality, Cardinality, H!IsFiniteSet, IsFiniteSet

LEMMA PastIs == ASSUME NEW f, NEW cursor PROVE H!Past(f, cursor) = FeedOf(Beyond(s2, f, cursor))
<1>1. PICK Es : Es = {o \in s2 : H!Keep(o, f) /\ \A c \in cursor : H!histLess(c, o)}
  OBVIOUS
<1>2. Es = Beyond(s2, f, cursor)
  BY <1>1 DEF Members, Beyond
<1>3. H!Past(f, cursor) = H!Sorted(Es, H!histLess)
  BY <1>1 DEF H!Past
<1>. QED  BY <1>2, <1>3, SortedIs

LEMMA FeedIs == \A f : H!Feed(f) = FeedOf(Members(s2, f))
<1>. SUFFICES ASSUME NEW f PROVE H!Feed(f) = FeedOf(Members(s2, f))
  OBVIOUS
<1>1. Beyond(s2, f, {}) = Members(s2, f)
  BY DEF Beyond, Members
<1>2. H!Feed(f) = H!Past(f, {})
  BY DEF H!Feed
<1>. QED  BY <1>1, <1>2, PastIs

LEMMA PageIs ==
  ASSUME NEW f, NEW cursor, IsFiniteSet(Beyond(s2, f, cursor))
  PROVE  LET Es == Beyond(s2, f, cursor)
             m == Taken(Es)
         IN /\ m \in Nat /\ m <= Cardinality(Es) /\ (Cardinality(Es) > m => m > 0)
            /\ H!Page(f, cursor) = [entries |-> [i \in 1 .. m |-> EntryIn(s2, FeedOf(Es)[i])],
                                    next |-> IF Cardinality(Es) > m THEN {FeedOf(Es)[m]} ELSE {}]
<1>. DEFINE Es == Beyond(s2, f, cursor)
            rest == H!Past(f, cursor)
<1>1. PageSize \in Nat \ {0} /\ Cardinality(Es) \in Nat
  BY PagesSound, FS_CardinalityType DEF PagesSound, H!ConstantsSound
<1>2. rest = FeedOf(Es)
  BY PastIs
<1>3. Len(rest) = Cardinality(Es)
  <2>. HIDE DEF Es, rest
  <2>1. \A s : \A k \in Nat : DOMAIN s = 1 .. k => Len(s) = k
    OBVIOUS
  <2>2. DOMAIN FeedOf(Es) = 1 .. Cardinality(Es)
    BY DEF FeedOf
  <2>. QED  BY <1>1, <1>2, <2>1, <2>2
<1>4. H!Page(f, cursor) = [entries |-> [i \in 1 .. Taken(Es) |-> EntryIn(s2, rest[i])],
                           next |-> IF Cardinality(Es) > Taken(Es) THEN {rest[Taken(Es)]} ELSE {}]
  <2>. HIDE DEF Es
  <2>. QED  BY <1>3, EntryIs DEF H!Page, Taken
<1>. HIDE DEF Es, rest
<1>5. /\ Taken(Es) \in Nat /\ Taken(Es) <= Cardinality(Es)
      /\ Cardinality(Es) > Taken(Es) => Taken(Es) > 0
  BY <1>1 DEF Taken
<1>. QED  BY <1>2, <1>4, <1>5 DEF Es

\* Pages read one after another: operations of the hub in the feed's order, and the
\* cursor is the last of them.
Listed(Os, ps, f) ==
  /\ \E Es : ps.entries \in Seq(Es)
  /\ \A i \in 1 .. Len(ps.entries) : ps.entries[i].op \in Members(Os, f)
  /\ \A i, j \in 1 .. Len(ps.entries) : i < j => H!histLess(ps.entries[i].op, ps.entries[j].op)
  /\ ps.next # {} => Len(ps.entries) > 0 /\ ps.next = {ps.entries[Len(ps.entries)].op}
  /\ ps.count \in Nat /\ (ps.count = 0 => ps = H!NoPages)
More(ps) == ps = H!NoPages \/ ps.next # {}

\* They are the top of the feed as the hub has it now.
Top(Os, ps, f) ==
  /\ Len(ps.entries) <= Cardinality(Members(Os, f))
  /\ \A i \in 1 .. Len(ps.entries) : ps.entries[i] = EntryIn(Os, FeedOf(Members(Os, f))[i])
  /\ ps.next = {} /\ ps # H!NoPages => Len(ps.entries) = Cardinality(Members(Os, f))

LEMMA NoneRead ==
  ASSUME NEW f, IsFiniteSet(s2)
  PROVE  Listed(s2, H!NoPages, f) /\ More(H!NoPages) /\ Top(s2, H!NoPages, f)
<1>1. H!NoPages.entries = <<>> /\ H!NoPages.next = {} /\ H!NoPages.count = 0
  BY DEF H!NoPages
<1>2. Cardinality(Members(s2, f)) \in Nat
  <2>1. Members(s2, f) \subseteq s2
    BY DEF Members
  <2>. QED  BY <2>1, FS_Subset, FS_CardinalityType
<1>3. <<>> \in Seq({}) /\ Len(<<>>) = 0
  OBVIOUS
<1>. QED  BY <1>1, <1>2, <1>3 DEF Listed, More, Top

\* What a page adds to the pages before it.
Joined(ps, f, qs) ==
  LET Es == Beyond(s2, f, ps.next)
      m == Taken(Es)
      k == Len(ps.entries)
  IN /\ IsFiniteSet(Es) /\ k \in Nat /\ m \in Nat /\ m <= Cardinality(Es) /\ (Cardinality(Es) > m => m > 0)
     /\ (\E As : qs.entries \in Seq(As)) /\ Len(qs.entries) = k + m
     /\ \A i \in 1 .. k : qs.entries[i] = ps.entries[i]
     /\ \A i \in 1 .. m : qs.entries[k + i] = EntryIn(s2, FeedOf(Es)[i])
     /\ qs.next = (IF Cardinality(Es) > m THEN {FeedOf(Es)[m]} ELSE {})
     /\ qs.count = ps.count + 1 /\ qs.count \in Nat \ {0}

LEMMA PageJoins ==
  ASSUME IsFiniteSet(s2), NEW f, NEW ps, Listed(s2, ps, f)
  PROVE  Joined(ps, f, H!With(ps, H!Page(f, ps.next)))
<1>. DEFINE Es == Beyond(s2, f, ps.next)
            m == Taken(Es)
            k == Len(ps.entries)
            p == H!Page(f, ps.next)
            pe == p.entries
            Qs == {pe[i] : i \in 1 .. m}
            qs == H!With(ps, p)
<1>1. IsFiniteSet(Es)
  <2>1. Es \subseteq s2
    BY DEF Beyond, Members
  <2>. QED  BY <2>1, FS_Subset
<1>2. /\ m \in Nat /\ m <= Cardinality(Es) /\ (Cardinality(Es) > m => m > 0)
      /\ p = [entries |-> [i \in 1 .. m |-> EntryIn(s2, FeedOf(Es)[i])],
              next |-> IF Cardinality(Es) > m THEN {FeedOf(Es)[m]} ELSE {}]
  BY <1>1, PageIs
<1>. HIDE DEF Es, m, p
<1>3. pe = [i \in 1 .. m |-> EntryIn(s2, FeedOf(Es)[i])]
  BY <1>2
<1>. HIDE DEF pe
<1>4. pe \in Seq(Qs) /\ Len(pe) = m /\ \A i \in 1 .. m : pe[i] = EntryIn(s2, FeedOf(Es)[i])
  <2>1. \A i \in 1 .. m : pe[i] \in Qs
    OBVIOUS
  <2>2. DOMAIN pe = 1 .. m
    BY <1>3
  <2>. HIDE DEF Qs
  <2>3. pe \in [1 .. m -> Qs]
    BY <1>3, <2>1, <2>2
  <2>4. pe \in Seq(Qs) /\ Len(pe) = m
    BY <1>2, <2>3
  <2>. QED  BY <1>3, <2>4
<1>. HIDE DEF Qs
<1>5. PICK As : ps.entries \in Seq(As)
  BY DEF Listed
<1>6. ps.entries \in Seq(As \cup Qs) /\ pe \in Seq(As \cup Qs)
  BY <1>4, <1>5
<1>7. qs.entries = ps.entries \o pe /\ qs.next = p.next /\ qs.count = ps.count + 1
  BY DEF H!With, pe
<1>8. k \in Nat
  BY <1>5
<1>9. /\ qs.entries \in Seq(As \cup Qs) /\ Len(qs.entries) = k + m
      /\ \A i \in 1 .. k : qs.entries[i] = ps.entries[i]
      /\ \A i \in 1 .. m : qs.entries[k + i] = pe[i]
  <2>. DEFINE a == ps.entries
              b == qs.entries
  <2>1. a \in Seq(As \cup Qs) /\ b = a \o pe /\ k = Len(a)
    BY <1>6, <1>7
  <2>. HIDE DEF a, b, k
  <2>2. b \in Seq(As \cup Qs) /\ Len(b) = k + m
    <3>1. Len(b) = Len(a) + Len(pe)
      BY <1>6, <2>1
    <3>. QED  BY <1>4, <2>1, <3>1
  <2>3. \A i \in 1 .. k : b[i] = a[i]
    BY <1>4, <1>6, <2>1
  <2>4. \A i \in 1 .. m : b[k + i] = pe[i]
    <3>. SUFFICES ASSUME NEW i \in 1 .. m PROVE b[k + i] = pe[i]
      OBVIOUS
    <3>1. k + i \in 1 .. Len(a) + Len(pe) /\ ~(k + i <= Len(a)) /\ (k + i) - Len(a) = i
      BY <1>2, <1>4, <1>8, <2>1
    <3>. QED  BY <1>4, <1>6, <2>1, <3>1
  <2>. QED  BY <2>2, <2>3, <2>4 DEF a, b
<1>10. p.next = IF Cardinality(Es) > m THEN {FeedOf(Es)[m]} ELSE {}
  BY <1>2
<1>11. ps.count \in Nat
  BY DEF Listed
<1>. HIDE DEF k
<1>12. \A i \in 1 .. m : qs.entries[k + i] = EntryIn(s2, FeedOf(Es)[i])
  BY <1>4, <1>9
<1>13. qs.count \in Nat \ {0}
  BY <1>7, <1>11
<1>. QED  BY <1>1, <1>2, <1>7, <1>8, <1>9, <1>10, <1>12, <1>13 DEF Joined, Es, m, k, p, qs

\* A page read past the last entry goes on in the order.
LEMMA ReadListed ==
  ASSUME Signed(s2), IsFiniteSet(s2), NEW f, NEW ps, Listed(s2, ps, f), More(ps)
  PROVE  Listed(s2, H!With(ps, H!Page(f, ps.next)), f)
<1>. DEFINE Es == Beyond(s2, f, ps.next)
            m == Taken(Es)
            k == Len(ps.entries)
            qs == H!With(ps, H!Page(f, ps.next))
            q == qs.entries
<1>0. Joined(ps, f, qs)
  BY PageJoins
<1>1. /\ IsFiniteSet(Es) /\ k \in Nat /\ m \in Nat /\ m <= Cardinality(Es) /\ (Cardinality(Es) > m => m > 0)
      /\ (\E As : q \in Seq(As)) /\ Len(q) = k + m
      /\ \A i \in 1 .. k : q[i] = ps.entries[i]
      /\ \A i \in 1 .. m : q[k + i] = EntryIn(s2, FeedOf(Es)[i])
      /\ qs.next = (IF Cardinality(Es) > m THEN {FeedOf(Es)[m]} ELSE {})
      /\ qs.count \in Nat \ {0}
  BY <1>0 DEF Joined
<1>2. Es \subseteq Members(s2, f) /\ Members(s2, f) \subseteq s2
  BY DEF Beyond, Members
<1>3. Cardinality(Es) \in Nat
  BY <1>1, FS_CardinalityType
<1>4. \A i \in 1 .. m : FeedOf(Es)[i] \in Es
  <2>1. Es \in SUBSET s2
    BY <1>2
  <2>2. \A i \in 1 .. Cardinality(Es) : FeedOf(Es)[i] \in Es
    BY <1>1, <2>1, FeedPlaces
  <2>. HIDE DEF Es, m
  <2>. QED  BY <1>1, <1>3, <2>2
<1>5. \A x : EntryIn(s2, x).op = x
  BY DEF EntryIn
<1>6. \A x \in Es : \A i \in 1 .. k : H!histLess(ps.entries[i].op, x)
  <2>. SUFFICES ASSUME NEW x \in Es, NEW i \in 1 .. k PROVE H!histLess(ps.entries[i].op, x)
    OBVIOUS
  <2>1. ps # H!NoPages
    BY <1>1 DEF H!NoPages
  <2>2. ps.next = {ps.entries[k].op}
    BY <2>1 DEF Listed, More
  <2>3. H!histLess(ps.entries[k].op, x)
    BY <2>2 DEF Beyond
  <2>4. CASE i = k
    BY <2>3, <2>4
  <2>5. CASE i # k
    <3>1. k \in 1 .. k /\ i < k
      BY <1>1, <2>5
    <3>2. H!histLess(ps.entries[i].op, ps.entries[k].op)
      BY <3>1 DEF Listed
    <3>3. ps.entries[i].op \in s2 /\ ps.entries[k].op \in s2 /\ x \in s2
      BY <1>2, <3>1 DEF Listed
    <3>. QED  BY <2>3, <3>2, <3>3, FeedFollows
  <2>. QED  BY <2>4, <2>5
<1>7. \A i, j \in 1 .. m : i < j => H!histLess(FeedOf(Es)[i], FeedOf(Es)[j])
  <2>1. Es \in SUBSET s2
    BY <1>2
  <2>2. \A i, j \in 1 .. Cardinality(Es) : i < j => H!histLess(FeedOf(Es)[i], FeedOf(Es)[j])
    BY <1>1, <2>1, FeedSorted
  <2>3. 1 .. m \subseteq 1 .. Cardinality(Es)
    <3>. HIDE DEF Es, m
    <3>. QED  BY <1>1, <1>3
  <2>. QED  BY <2>2, <2>3
<1>8. \A i \in 1 .. k : ps.entries[i].op \in Members(s2, f)
  BY DEF Listed
<1>9. \A i, j \in 1 .. k : i < j => H!histLess(ps.entries[i].op, ps.entries[j].op)
  BY DEF Listed
<1>. HIDE DEF Es, m, k, qs
<1>10. ASSUME NEW i \in 1 .. k + m
       PROVE  \/ i \in 1 .. k /\ q[i] = ps.entries[i]
              \/ \E j \in 1 .. m : i = k + j /\ q[i].op = FeedOf(Es)[j]
  <2>1. CASE i <= k
    BY <1>1, <2>1
  <2>2. CASE ~(i <= k)
    <3>1. i - k \in 1 .. m /\ i = k + (i - k)
      BY <1>1, <2>2
    <3>. QED  BY <1>1, <1>5, <3>1
  <2>. QED  BY <2>1, <2>2
<1>. HIDE DEF q
<1>11. \A i \in 1 .. k + m : q[i].op \in Members(s2, f)
  BY <1>2, <1>4, <1>8, <1>10
<1>12. ASSUME NEW i \in 1 .. k + m, NEW j \in 1 .. k + m, i < j
       PROVE  H!histLess(q[i].op, q[j].op)
  <2>1. CASE i \in 1 .. k /\ j \in 1 .. k
    <3>1. q[i] = ps.entries[i] /\ q[j] = ps.entries[j]
      BY <1>1, <2>1 DEF q
    <3>. QED  BY <1>9, <1>12, <2>1, <3>1
  <2>2. CASE i \in 1 .. k /\ j \notin 1 .. k
    <3>1. q[i] = ps.entries[i] /\ q[j].op \in Es
      BY <1>1, <1>4, <1>10, <2>2 DEF q
    <3>. QED  BY <1>6, <2>2, <3>1
  <2>3. CASE i \notin 1 .. k
    <3>1. j \notin 1 .. k
      BY <1>1, <1>12, <2>3
    <3>2. PICK g \in 1 .. m : i = k + g /\ q[i].op = FeedOf(Es)[g]
      BY <1>10, <2>3
    <3>3. PICK h \in 1 .. m : j = k + h /\ q[j].op = FeedOf(Es)[h]
      BY <1>10, <3>1
    <3>4. g < h
      BY <1>1, <1>12, <3>2, <3>3
    <3>. QED  BY <1>7, <3>2, <3>3, <3>4
  <2>. QED  BY <2>1, <2>2, <2>3
<1>13. qs.next # {} => Len(q) > 0 /\ qs.next = {q[Len(q)].op}
  <2>. SUFFICES ASSUME Cardinality(Es) > m
                PROVE  Len(q) > 0 /\ {FeedOf(Es)[m]} = {q[Len(q)].op}
    BY <1>1 DEF q
  <2>1. m \in 1 .. m /\ k + m > 0 /\ Len(q) = k + m
    BY <1>1 DEF q
  <2>2. q[k + m].op = FeedOf(Es)[m]
    BY <1>1, <1>5, <2>1 DEF q
  <2>. QED  BY <2>1, <2>2
<1>14. (\E As : q \in Seq(As)) /\ Len(q) = k + m /\ qs.count \in Nat /\ qs.count # 0
  BY <1>1 DEF q
<1>. QED  BY <1>11, <1>12, <1>13, <1>14 DEF Listed, q, qs

\* A page read past the top is the top with it.
LEMMA ReadTop ==
  ASSUME Signed(s2), IsFiniteSet(s2), NEW f, NEW ps, Listed(s2, ps, f), More(ps), Top(s2, ps, f)
  PROVE  Top(s2, H!With(ps, H!Page(f, ps.next)), f)
<1>. DEFINE Fs == Members(s2, f)
            Es == Beyond(s2, f, ps.next)
            m == Taken(Es)
            k == Len(ps.entries)
            qs == H!With(ps, H!Page(f, ps.next))
            q == qs.entries
            c == IF k = 0 THEN {} ELSE {FeedOf(Fs)[k]}
<1>0. Joined(ps, f, qs)
  BY PageJoins
<1>1. /\ IsFiniteSet(Es) /\ k \in Nat /\ m \in Nat /\ m <= Cardinality(Es)
      /\ Len(q) = k + m
      /\ \A i \in 1 .. k : q[i] = ps.entries[i]
      /\ \A i \in 1 .. m : q[k + i] = EntryIn(s2, FeedOf(Es)[i])
      /\ qs.next = (IF Cardinality(Es) > m THEN {FeedOf(Es)[m]} ELSE {})
  BY <1>0 DEF Joined
<1>2. Fs \in SUBSET s2 /\ IsFiniteSet(Fs)
  <2>1. Fs \subseteq s2
    BY DEF Members
  <2>. QED  BY <2>1, FS_Subset
<1>3. Cardinality(Fs) \in Nat /\ k <= Cardinality(Fs)
  BY <1>2, FS_CardinalityType DEF Top
<1>4. ps.next = c
  <2>1. CASE ps = H!NoPages
    BY <2>1 DEF H!NoPages
  <2>2. CASE ps # H!NoPages
    <3>1. k > 0 /\ ps.next = {ps.entries[k].op}
      BY <2>2 DEF Listed, More
    <3>2. k \in 1 .. k
      BY <1>1, <3>1
    <3>3. ps.entries[k] = EntryIn(s2, FeedOf(Fs)[k])
      BY <3>2 DEF Top
    <3>4. ps.entries[k].op = FeedOf(Fs)[k]
      BY <3>3 DEF EntryIn
    <3>. QED  BY <3>1, <3>4
  <2>. QED  BY <2>1, <2>2
<1>5. Es = {x \in Fs : \A d \in c : H!histLess(d, x)}
  BY <1>4 DEF Beyond
<1>6. /\ Cardinality(Es) = Cardinality(Fs) - k
      /\ \A i \in 1 .. Cardinality(Es) : FeedOf(Es)[i] = FeedOf(Fs)[k + i]
  <2>1. k \in 0 .. Cardinality(Fs)
    BY <1>1, <1>3
  <2>. HIDE DEF Es, Fs, k
  <2>. QED  BY <1>2, <1>5, <2>1, RestOfFeed DEF c
<1>7. \A i \in 1 .. k : ps.entries[i] = EntryIn(s2, FeedOf(Fs)[i])
  BY DEF Top
<1>. HIDE DEF Es, Fs, m, k, qs, c
<1>8. ASSUME NEW i \in 1 .. k + m PROVE q[i] = EntryIn(s2, FeedOf(Fs)[i])
  <2>1. CASE i <= k
    BY <1>1, <1>7, <2>1
  <2>2. CASE ~(i <= k)
    <3>1. i - k \in 1 .. m /\ i = k + (i - k) /\ i - k \in 1 .. Cardinality(Es)
      BY <1>1, <1>3, <1>6, <2>2
    <3>. QED  BY <1>1, <1>6, <3>1
  <2>. QED  BY <2>1, <2>2
<1>9. Len(q) <= Cardinality(Fs)
  BY <1>1, <1>3, <1>6
<1>10. ASSUME qs.next = {} PROVE Len(q) = Cardinality(Fs)
  <2>1. ~(Cardinality(Es) > m)
    BY <1>1, <1>10
  <2>. QED  BY <1>1, <1>3, <1>6, <2>1
<1>. QED  BY <1>1, <1>8, <1>9, <1>10 DEF Top, Fs, qs

\* What has been read of the feed, of all that was, and of what is shown: one read
\* at most is under way, and unless it is known to be stale it is the top of the feed.
Reads(Os, f, ps, fs, st) ==
  /\ st \in BOOLEAN
  /\ \A h, g \in fs : h = g
  /\ \A g \in fs : /\ g = [want |-> g.want, more |-> g.more, got |-> g.got]
                   /\ Listed(Os, g.got, f) /\ More(g.got)
                   /\ ~st => Top(Os, g.got, f)
  /\ Listed(Os, ps, f)
  /\ ~st /\ fs = {} => Top(Os, ps, f)
FeedRead == Undoing /\ Numbered(s1, s2) /\ Reads(s2, s3, s4, s5, s8)

\* More operations leave the pages in order, if no longer the top.
LEMMA ListedGrows ==
  ASSUME NEW Es, NEW Os, Es \subseteq Os, NEW ps, NEW f, Listed(Es, ps, f)
  PROVE  Listed(Os, ps, f)
<1>1. Members(Es, f) \subseteq Members(Os, f)
  BY DEF Members
<1>. QED  BY <1>1 DEF Listed

LEMMA ReadsGrow ==
  ASSUME NEW Es, NEW Os, Es \subseteq Os, NEW ps, NEW f, NEW fs, NEW st, Reads(Es, f, ps, fs, st)
  PROVE  Reads(Os, f, ps, fs, TRUE)
BY ListedGrows DEF Reads

\* A read begun anew has nothing of the past in it.
LEMMA ReadsAnew ==
  ASSUME IsFiniteSet(s2), NEW f, NEW n
  PROVE  /\ Reads(s2, f, H!NoPages, H!Reading(n), FALSE)
         /\ \A ps : Listed(s2, ps, f) => Reads(s2, f, ps, H!Reading(n), FALSE)
<1>1. Listed(s2, H!NoPages, f) /\ More(H!NoPages) /\ Top(s2, H!NoPages, f)
  BY NoneRead
<1>. DEFINE r == [want |-> n, more |-> FALSE, got |-> H!NoPages]
<1>2. r = [want |-> r.want, more |-> r.more, got |-> r.got] /\ r.got = H!NoPages
  OBVIOUS
<1>3. H!Reading(n) = {r}
  BY DEF H!Reading
<1>. HIDE DEF r
<1>. QED  BY <1>1, <1>2, <1>3 DEF Reads

LEMMA ReadsAgain ==
  ASSUME FeedRead, H!Invalidated, s4' = s4
  PROVE  Reads(s2, s3, s4', s5', s8')
<1>1. IsFiniteSet(s2)
  BY DEF FeedRead, Undoing, Logged
<1>2. CASE s4 = H!NoPages /\ s5 # {}
  BY <1>2 DEF H!Invalidated, FeedRead
<1>3. CASE ~(s4 = H!NoPages /\ s5 # {})
  <2>1. \E n : s5' = H!Reading(n) /\ s8' = FALSE
    BY <1>3 DEF H!Invalidated
  <2>2. Listed(s2, s4, s3)
    BY DEF FeedRead, Reads
  <2>. QED  BY <1>1, <2>1, <2>2, ReadsAnew
<1>. QED  BY <1>2, <1>3

\* What the hub writes at once: its next numbers, at its clock, now.
LEMMA HubOpsAre ==
  ASSUME NEW W, IsFiniteSet(W), \A x \in W : x.path \in Nat,
         \A x, y \in W : x.path = y.path => x = y, NEW run
  PROVE  /\ Cardinality(W) \in Nat
         /\ \E at : H!HubOps(W, {run}) =
              {[device |-> 0, seq |-> Cardinality(OwnOf(s2)) + i, lamport |-> H!Clock(s2) + i,
                time |-> H!Now, path |-> at[i].path, content |-> at[i].content, run |-> run] :
                 i \in 1 .. Cardinality(W)}
<1>. DEFINE order == H!Sorted(W, LAMBDA a, b : a.path < b.path)
            n == Cardinality(W)
<1>1. n \in Nat /\ DOMAIN order = 1 .. n
  BY WritesInOrder
<1>2. Len(order) = n
  <2>. HIDE DEF order, n
  <2>1. \A s : \A k \in Nat : DOMAIN s = 1 .. k => Len(s) = k
    OBVIOUS
  <2>. QED  BY <1>1, <2>1
<1>3. H!HubOps(W, {run}) =
        {[device |-> 0, seq |-> H!Cardinality(H!Own(0)) + i, lamport |-> H!Clock(s2) + i,
          time |-> H!Now, path |-> order[i].path, content |-> order[i].content, run |-> run] :
           i \in 1 .. n}
  <2>1. H!HubOps(W, {run}) =
          {[device |-> 0, seq |-> H!Cardinality(H!Own(0)) + i, lamport |-> H!Clock(s2) + i,
            time |-> H!Now, path |-> order[i].path, content |-> order[i].content, run |-> run] :
             i \in 1 .. Len(order)}
    BY DEF H!HubOps
  <2>. QED  BY <1>2, <2>1
<1>. HIDE DEF order, n
<1>4. H!Own(0) = OwnOf(s2)
  BY DEF H!Own, OwnOf
<1>5. H!Cardinality(H!Own(0)) = Cardinality(OwnOf(s2))
  BY <1>4, SameCounts
<1>6. H!HubOps(W, {run}) =
        {[device |-> 0, seq |-> Cardinality(OwnOf(s2)) + i, lamport |-> H!Clock(s2) + i,
          time |-> H!Now, path |-> order[i].path, content |-> order[i].content, run |-> run] :
           i \in 1 .. n}
  BY <1>3, <1>5
<1>7. \E at : H!HubOps(W, {run}) =
        {[device |-> 0, seq |-> Cardinality(OwnOf(s2)) + i, lamport |-> H!Clock(s2) + i,
          time |-> H!Now, path |-> at[i].path, content |-> at[i].content, run |-> run] :
           i \in 1 .. n}
  <2>. WITNESS order
  <2>. QED  BY <1>6
<1>. QED  BY <1>1, <1>7 DEF n

LEMMA NowIsTime ==
  ASSUME Logged(s1), Logged(s2), Signed(s1 \cup s2), s2 # {}
  PROVE  H!Now \in Nat
<1>. DEFINE All == s1 \cup s2
            Some == {o.time : o \in All}
            f == [o \in All |-> o.time]
<1>1. IsFiniteSet(All)
  BY FS_Union DEF Logged
<1>2. Some \subseteq Nat /\ Some # {}
  BY DEF Signed
<1>3. f \in Surjection(All, Some)
  BY DEF Surjection
<1>4. IsFiniteSet(Some)
  <2>. HIDE DEF All, Some, f
  <2>. QED  BY <1>1, <1>3, FS_Surjection
<1>5. \E t \in Some : \A u \in Some : u <= t
  <2>. HIDE DEF Some
  <2>. QED  BY <1>2, <1>4, GreatestIn
<1>6. H!Now = CHOOSE t \in {o.time : o \in s2 \cup s1} : \A o \in s2 \cup s1 : o.time <= t
  BY DEF H!Now
<1>7. \E t \in {o.time : o \in s2 \cup s1} : \A o \in s2 \cup s1 : o.time <= t
  BY <1>5
<1>8. H!Now \in {o.time : o \in s2 \cup s1}
  BY <1>6, <1>7
<1>. QED  BY <1>8 DEF Signed

\* The hub numbers its operations on, so that no two have one number.
LEMMA NumbersGoOn ==
  ASSUME Logged(s1), Logged(s2), Numbered(s1, s2),
         NEW W, IsFiniteSet(W), \A x \in W : x.path \in Nat,
         \A x, y \in W : x.path = y.path => x = y, W # {} => s2 # {}, NEW run
  PROVE  Numbered(s1, s2 \cup H!HubOps(W, {run}))
<1>. DEFINE n == Cardinality(W)
            c == Cardinality(OwnOf(s2))
            Added == H!HubOps(W, {run})
            Own2 == OwnOf(s2 \cup Added)
<1>1. n \in Nat
  BY HubOpsAre
<1>2. PICK at : Added =
        {[device |-> 0, seq |-> c + i, lamport |-> H!Clock(s2) + i,
          time |-> H!Now, path |-> at[i].path, content |-> at[i].content, run |-> run] : i \in 1 .. n}
  BY HubOpsAre
<1>. DEFINE op(i) == [device |-> 0, seq |-> c + i, lamport |-> H!Clock(s2) + i,
                      time |-> H!Now, path |-> at[i].path, content |-> at[i].content, run |-> run]
<1>3. Added = {op(i) : i \in 1 .. n}
  BY <1>2
<1>4. IsFiniteSet(OwnOf(s2)) /\ c \in Nat
  <2>1. OwnOf(s2) \subseteq s2
    BY DEF OwnOf
  <2>. QED  BY <2>1, FS_Subset, FS_CardinalityType DEF Logged
<1>5. H!Clock(s2) \in Nat
  BY ClockIsLatest
<1>6. n > 0 => H!Now \in Nat
  <2>1. n > 0 => W # {}
    BY FS_EmptySet
  <2>. QED  BY <2>1, NowIsTime DEF Numbered
<1>7. \A i \in 1 .. n : /\ op(i).device = 0 /\ op(i).seq = c + i
                        /\ op(i).lamport = H!Clock(s2) + i /\ op(i).time = H!Now
  OBVIOUS
<1>. HIDE DEF n, c, Added, op
<1>8. \A i \in 1 .. n : /\ op(i).device \in Nat /\ op(i).seq \in Nat
                        /\ op(i).lamport \in Nat /\ op(i).time \in Nat
  BY <1>1, <1>4, <1>5, <1>6, <1>7
<1>9. \A o \in s2 : o.device = 0 => o.seq \in Nat /\ o.seq <= c
  BY DEF Numbered, Signed, c
<1>10. \A i, j \in 1 .. n : op(i).seq = op(j).seq => i = j
  <2>. SUFFICES ASSUME NEW i \in 1 .. n, NEW j \in 1 .. n, op(i).seq = op(j).seq PROVE i = j
    OBVIOUS
  <2>1. c + i = c + j
    BY <1>7
  <2>. QED  BY <1>1, <1>4, <2>1
<1>11. \A i \in 1 .. n : op(i).seq > c /\ op(i).seq <= c + n
  <2>. SUFFICES ASSUME NEW i \in 1 .. n PROVE op(i).seq > c /\ op(i).seq <= c + n
    OBVIOUS
  <2>. QED  BY <1>1, <1>4, <1>7
<1>12. Signed(s1 \cup (s2 \cup Added))
  <2>1. ASSUME NEW a \in s1 \cup (s2 \cup Added)
        PROVE  a.time \in Nat /\ a.lamport \in Nat /\ a.device \in Nat /\ a.seq \in Nat
    BY <1>3, <1>8 DEF Numbered, Signed
  <2>2. ASSUME NEW a \in s1 \cup (s2 \cup Added), NEW i \in 1 .. n,
               a.device = op(i).device, a.seq = op(i).seq
        PROVE  a = op(i)
    <3>1. a \notin s1
      BY <1>7, <2>2 DEF Numbered
    <3>2. a \notin s2
      <4>. SUFFICES ASSUME a \in s2 PROVE FALSE
        OBVIOUS
      <4>1. a.seq \in Nat /\ a.seq <= c
        BY <1>7, <1>9, <2>2
      <4>2. op(i).seq > c
        BY <1>11
      <4>. QED  BY <1>4, <2>2, <4>1, <4>2
    <3>3. PICK j \in 1 .. n : a = op(j)
      BY <1>3, <3>1, <3>2
    <3>. QED  BY <1>10, <2>2, <3>3
  <2>3. ASSUME NEW a \in s1 \cup s2, NEW b \in s1 \cup s2, a.device = b.device, a.seq = b.seq
        PROVE  a = b
    BY <2>3 DEF Numbered, Signed
  <2>. QED  BY <1>3, <2>1, <2>2, <2>3 DEF Signed
<1>13. Cardinality(Own2) = c + n
  <2>. DEFINE f == [i \in 1 .. n |-> op(i)]
  <2>1. IsFiniteSet(1 .. n) /\ Cardinality(1 .. n) = n
    <3>1. n \in Int /\ 1 \in Int /\ (n - 1) + 1 = n
      BY <1>1
    <3>. QED  BY <1>1, <3>1, FS_Interval
  <2>2. f \in Bijection(1 .. n, Added)
    <3>1. f \in [1 .. n -> Added]
      BY <1>3
    <3>2. \A i, j \in 1 .. n : f[i] = f[j] => i = j
      BY <1>10
    <3>3. \A o \in Added : \E i \in 1 .. n : f[i] = o
      BY <1>3
    <3>. QED  BY <3>1, <3>2, <3>3 DEF Bijection, Injection, IsInjective, Surjection
  <2>. HIDE DEF f
  <2>3. IsFiniteSet(Added) /\ Cardinality(Added) = n
    BY <2>1, <2>2, FS_Bijection DEF ExistsBijection
  <2>4. Own2 = OwnOf(s2) \cup Added
    BY <1>3, <1>7 DEF OwnOf
  <2>5. OwnOf(s2) \cap Added = {}
    <3>. SUFFICES ASSUME NEW o \in OwnOf(s2), NEW i \in 1 .. n, o = op(i) PROVE FALSE
      BY <1>3
    <3>1. o.seq \in Nat /\ o.seq <= c /\ o.seq > c
      BY <1>9, <1>11 DEF OwnOf
    <3>. QED  BY <1>4, <3>1
  <2>. HIDE DEF Own2
  <2>6. Cardinality(Own2) = c + n - Cardinality({})
    BY <1>4, <2>3, <2>4, <2>5, FS_Union DEF c
  <2>7. Cardinality({}) = 0
    BY FS_EmptySet
  <2>. QED  BY <1>1, <1>4, <2>6, <2>7
<1>14. \A o \in s2 \cup Added : o.device = 0 => o.seq <= c + n
  <2>1. \A o \in s2 : o.device = 0 => o.seq <= c + n
    BY <1>1, <1>4, <1>9
  <2>. QED  BY <1>3, <1>11, <2>1
<1>. QED  BY <1>12, <1>13, <1>14 DEF Numbered, Added, Own2

\* There is nothing to write where nothing was written.
LEMMA WritesNeedHistory ==
  ASSUME NEW w, \A v \in {w} : w.kind = "undo" => \E r : w.run = {r}, H!Writes(w) # {}
  PROVE  s2 # {}
<1>1. CASE w.kind = "undo"
  <2>1. PICK r : w.run = {r}
    BY <1>1
  <2>2. H!Writes(w) = H!planUndo(r)
    BY <1>1, <2>1 DEF H!Writes
  <2>. QED  BY <2>2 DEF H!planUndo, H!RunOps
<1>2. CASE w.kind # "undo"
  <2>1. H!Current(w.path) # w.content /\ H!Version(w)
    BY <1>2 DEF H!Writes
  <2>2. H!On(w.path) # {}
    BY <2>1 DEF H!Version, H!Current, H!Held
  <2>. QED  BY <2>2 DEF H!On
<1>. QED  BY <1>1, <1>2

LEMMA FeedStarts == ASSUME H!Init PROVE FeedRead
<1>1. Undoing
  BY HistoryStarts
<1>2. s2 = {} /\ s3 = "everyone" /\ s4 = H!NoPages /\ s5 = H!Reading(1) /\ s8 = FALSE
  BY DEF H!Init, H!Reading
<1>3. Numbered(s1, s2)
  <2>1. s1 \in FeedLogs
    BY DEF H!Init
  <2>2. \A o \in s1 : /\ o.time \in Nat /\ o.lamport \in Nat /\ o.device \in Nat /\ o.device # 0
                      /\ o.seq \in Nat
    BY <2>1, PagesSound DEF PagesSound, H!ConstantsSound
  <2>3. \A a, b \in s1 : a.device = b.device /\ a.seq = b.seq => a = b
    BY <2>1, PagesSound DEF PagesSound, H!ConstantsSound
  <2>. QED  BY <1>2, <2>2, <2>3 DEF Numbered, Signed
<1>4. Reads(s2, s3, s4, s5, s8)
  <2>1. IsFiniteSet(s2)
    BY <1>1 DEF Undoing, Logged
  <2>2. Reads(s2, s3, H!NoPages, H!Reading(1), FALSE)
    BY <2>1, ReadsAnew
  <2>. QED  BY <1>2, <2>2
<1>. QED  BY <1>1, <1>3, <1>4 DEF FeedRead

\* A page arrives: the read goes on from its cursor, or what it read is shown.
LEMMA ServedReads ==
  ASSUME FeedRead, H!Served
  PROVE  Reads(s2, s3, s4', s5', s8)
<1>1. PICK r \in s5 :
        LET got == H!With(r.got, H!Page(s3, r.got.next))
            done == got.count = r.want \/ got.next = {}
        IN s5' = (IF done THEN {} ELSE {[r EXCEPT !.got = got]}) /\ s4' = (IF done THEN got ELSE s4)
  BY DEF H!Served
<1>. DEFINE got == H!With(r.got, H!Page(s3, r.got.next))
            next == [r EXCEPT !.got = got]
<1>2. r = [want |-> r.want, more |-> r.more, got |-> r.got] /\ Listed(s2, r.got, s3) /\ More(r.got)
  BY DEF FeedRead, Reads
<1>3. IsFiniteSet(s2) /\ Signed(s2)
  BY DEF FeedRead, Undoing, Logged, Numbered, Signed
<1>4. Listed(s2, got, s3)
  BY <1>2, <1>3, ReadListed
<1>5. ~s8 => Top(s2, got, s3)
  <2>. SUFFICES ASSUME ~s8 PROVE Top(s2, got, s3)
    OBVIOUS
  <2>1. Top(s2, r.got, s3)
    BY DEF FeedRead, Reads
  <2>. QED  BY <1>2, <1>3, <2>1, ReadTop
<1>. HIDE DEF got
<1>6. next = [want |-> r.want, more |-> r.more, got |-> got]
  BY <1>2
<1>7. next = [want |-> next.want, more |-> next.more, got |-> next.got] /\ next.got = got
  BY <1>6
<1>8. \/ s5' = {} /\ s4' = got
      \/ s5' = {next} /\ s4' = s4 /\ got.next # {}
  BY <1>1 DEF got
<1>. HIDE DEF next
<1>9. Listed(s2, s4, s3) /\ s8 \in BOOLEAN
  BY DEF FeedRead, Reads
<1>. QED  BY <1>4, <1>5, <1>7, <1>8, <1>9 DEF Reads, More

\* What a write of the tab adds to the hub, if anything, makes the pages stale.
LEMMA WriteReads ==
  ASSUME FeedRead, H!PostServed
  PROVE  Numbered(s1, s2') /\ Reads(s2', s3, s4, s5, s8')
<1>1. PICK w \in s11 :
        /\ w.kind # "answered"
        /\ H!Append2Hub(H!HubOps(H!Writes(w), IF w.kind = "undo" THEN UNION {{H!undoNote(r.run)} : r \in w.run} ELSE {<<>>}))
  BY DEF H!PostServed
<1>2. w.kind = "undo" => \E r : w.run = {r}
  BY DEF FeedRead, Undoing, OneWrite
<1>3. \E run : (IF w.kind = "undo" THEN UNION {{H!undoNote(r.run)} : r \in w.run} ELSE {<<>>}) = {run}
  <2>1. CASE w.kind = "undo"
    <3>1. PICK r : w.run = {r}
      BY <1>2, <2>1
    <3>. QED  BY <2>1, <3>1
  <2>. QED  BY <2>1
<1>4. PICK run : H!Append2Hub(H!HubOps(H!Writes(w), {run}))
  BY <1>1, <1>3
<1>. DEFINE W == H!Writes(w)
            New == H!HubOps(W, {run})
<1>5. /\ IsFiniteSet(W) /\ \A x \in W : x.path \in Nat
      /\ \A x, y \in W : x.path = y.path => x = y
  BY <1>1, WritesAre DEF FeedRead
<1>6. W # {} => s2 # {}
  BY <1>2, WritesNeedHistory
<1>. HIDE DEF W
<1>7. Numbered(s1, s2 \cup New)
  BY <1>5, <1>6, NumbersGoOn DEF FeedRead, Undoing
<1>8. s2' = s2 \cup New /\ s8' = (s8 \/ New # {})
  BY <1>4 DEF H!Append2Hub, W
<1>. HIDE DEF New
<1>9. Reads(s2, s3, s4, s5, s8) /\ s8 \in BOOLEAN
  BY DEF FeedRead, Reads
<1>10. CASE New = {}
  <2>1. s2' = s2 /\ s8' = s8
    BY <1>8, <1>9, <1>10
  <2>. QED  BY <1>7, <1>8, <1>9, <2>1
<1>11. CASE New # {}
  <2>1. s8' = TRUE
    BY <1>8, <1>11
  <2>2. Reads(s2 \cup New, s3, s4, s5, TRUE)
    BY <1>9, ReadsGrow
  <2>. QED  BY <1>7, <1>8, <2>1, <2>2
<1>. QED  BY <1>10, <1>11

LEMMA FeedStep ==
  ASSUME FeedRead, [H!Next]_(H!vars)
  PROVE  FeedRead'
<1>0. Undoing'
  BY UndoStep DEF FeedRead
<1>. DEFINE OK == Numbered(s1', s2') /\ Reads(s2', s3', s4', s5', s8')
<1>b. (Numbered(s1, s2) /\ Reads(s2, s3, s4, s5, s8))' <=> OK
  BY DEF Numbered, Signed, OwnOf, Reads, Listed, More, Top, Members, EntryIn
<1>. SUFFICES OK
  BY <1>0, <1>b DEF FeedRead
<1>a. IsFiniteSet(s2) /\ s8 \in BOOLEAN /\ Numbered(s1, s2) /\ Reads(s2, s3, s4, s5, s8)
  BY DEF FeedRead, Undoing, Logged, Reads
<1>1. ASSUME NEW o \in s1, H!Push(o) PROVE OK
  <2>1. s1' = s1 \ {o} /\ s2' = s2 \cup {o} /\ s8' = TRUE /\ UNCHANGED <<s3, s4, s5>>
    BY <1>1 DEF H!Push, H!Append2Hub, H!tabVars
  <2>2. s1' \cup s2' = s1 \cup s2 /\ s1' \subseteq s1
    BY <2>1
  <2>3. OwnOf(s2') = OwnOf(s2)
    BY <1>a, <2>1 DEF OwnOf, Numbered
  <2>4. Numbered(s1', s2')
    <3>1. \A x \in s2' : x.device = 0 => x \in s2
      BY <1>a, <2>1 DEF Numbered
    <3>. QED  BY <1>a, <2>2, <2>3, <3>1 DEF Numbered
  <2>5. Reads(s2', s3, s4, s5, TRUE)
    <3>1. s2 \subseteq s2'
      BY <2>1
    <3>. QED  BY <1>a, <3>1, ReadsGrow
  <2>. QED  BY <2>1, <2>4, <2>5
<1>2. CASE H!Refresh \/ H!PostDone
  <2>1. H!Invalidated /\ s4' = s4 /\ UNCHANGED <<s1, s2, s3>>
    BY <1>2 DEF H!Refresh, H!PostDone
  <2>. QED  BY <1>a, <2>1, ReadsAgain
<1>3. CASE H!fetchNextPage
  <2>. DEFINE r == [want |-> s4.count + 1, more |-> TRUE, got |-> s4]
  <2>1. s4.next # {} /\ s5' = {r} /\ s8' = (s8 \/ s5 # {}) /\ UNCHANGED <<s1, s2, s3, s4>>
    BY <1>3 DEF H!fetchNextPage, H!hasNextPage
  <2>2. r = [want |-> r.want, more |-> r.more, got |-> r.got] /\ r.got = s4
    OBVIOUS
  <2>. HIDE DEF r
  <2>3. Listed(s2, s4, s3) /\ (~s8' => Top(s2, s4, s3)) /\ s8' \in BOOLEAN
    BY <1>a, <2>1 DEF Reads
  <2>. QED  BY <1>a, <2>1, <2>2, <2>3 DEF Reads, More
<1>4. CASE H!Served
  <2>1. Reads(s2, s3, s4', s5', s8) /\ UNCHANGED <<s1, s2, s3, s8>>
    BY <1>4, ServedReads DEF H!Served
  <2>. QED  BY <1>a, <2>1
<1>5. CASE H!Failed
  <2>1. s5' = {} /\ s8' = TRUE /\ UNCHANGED <<s1, s2, s3, s4>>
    BY <1>5 DEF H!Failed
  <2>. QED  BY <1>a, <2>1 DEF Reads
<1>6. CASE H!Retry \/ \E f \in H!Filters : H!SetFilter(f)
  <2>1. s4' = H!NoPages /\ s5' = H!Reading(1) /\ s8' = FALSE /\ UNCHANGED <<s1, s2>>
    BY <1>6 DEF H!Retry, H!SetFilter, H!HistoryGone
  <2>2. Reads(s2, s3', H!NoPages, H!Reading(1), FALSE)
    BY <1>a, ReadsAnew
  <2>. QED  BY <1>a, <2>1, <2>2
<1>7. CASE H!PostServed
  <2>1. Numbered(s1, s2') /\ Reads(s2', s3, s4, s5, s8') /\ UNCHANGED <<s1, s3, s4, s5>>
    BY <1>7, WriteReads DEF H!PostServed
  <2>. QED  BY <2>1
<1>8. CASE UNCHANGED <<s1, s2, s3, s4, s5, s8>>
  BY <1>8, <1>a
<1>9. CASE H!TimedOut \/ H!SelectRow \/ H!Key \/ H!AskRestore \/ H!AskRemove \/ H!AskUndo
           \/ H!Dismiss \/ H!Confirm \/ UNCHANGED H!vars
  <2>1. UNCHANGED <<s1, s2, s3, s4, s5, s8>>
    BY <1>9 DEF H!TimedOut, H!SelectRow, H!Key, H!Selected, H!AskRestore, H!AskRemove, H!AskUndo, H!Ask,
                H!Dismiss, H!Confirm, H!vars, H!tabVars
  <2>. QED  BY <1>8, <2>1
<1>. QED  BY <1>1, <1>2, <1>3, <1>4, <1>5, <1>6, <1>7, <1>9 DEF H!Next

\* The pages shown are in the feed's order, its top unless stale, and what a card
\* holds of the whole feed is what its run did (history.go, runs.ts, undorun.go).
LEMMA FeedHolds ==
  ASSUME FeedRead
  PROVE  H!FeedOrdered /\ H!FeedIsTop /\ H!CardIsRun
<1>. DEFINE es == s4.entries
            Fs == Members(s2, s3)
<1>1. Listed(s2, s4, s3) /\ IsFiniteSet(s2) /\ Signed(s2)
  BY DEF FeedRead, Reads, Undoing, Logged, Numbered, Signed
<1>2. PICK As : es \in Seq(As)
  BY <1>1 DEF Listed
<1>3. Len(es) \in Nat
  BY <1>2
<1>4. H!FeedOrdered
  <2>. SUFFICES ASSUME NEW i \in 2 .. Len(es) PROVE H!histLess(es[i - 1].op, es[i].op)
    BY DEF H!FeedOrdered, H!entries
  <2>1. i - 1 \in 1 .. Len(es) /\ i \in 1 .. Len(es) /\ i - 1 < i
    BY <1>3
  <2>. QED  BY <1>1, <2>1 DEF Listed
<1>5. Fs \in SUBSET s2 /\ IsFiniteSet(Fs)
  <2>1. Fs \subseteq s2
    BY DEF Members
  <2>. QED  BY <1>1, <2>1, FS_Subset
<1>6. Cardinality(Fs) \in Nat
  BY <1>5, FS_CardinalityType
<1>7. ASSUME s4 # H!NoPages, s5 = {}, ~s8
      PROVE  /\ Len(es) <= Cardinality(Fs)
             /\ \A i \in 1 .. Len(es) : es[i] = EntryIn(s2, FeedOf(Fs)[i])
             /\ s4.next = {} => Len(es) = Cardinality(Fs)
  BY <1>7 DEF FeedRead, Reads, Top
<1>8. H!FeedIsTop
  <2>. SUFFICES ASSUME s4 # H!NoPages, s5 = {}, ~s8
                PROVE  /\ es = [i \in 1 .. Len(es) |-> H!Entry(H!Feed(s3)[i])]
                       /\ s4.next = {} => Len(es) = Len(H!Feed(s3))
    BY DEF H!FeedIsTop, H!entries, H!hasNextPage
  <2>. DEFINE feed == H!Feed(s3)
  <2>1. feed = FeedOf(Fs)
    BY FeedIs
  <2>2. Len(feed) = Cardinality(Fs)
    <3>1. DOMAIN feed = 1 .. Cardinality(Fs)
      BY <2>1 DEF FeedOf
    <3>. HIDE DEF feed, Fs
    <3>2. \A s : \A k \in Nat : DOMAIN s = 1 .. k => Len(s) = k
      OBVIOUS
    <3>. QED  BY <1>6, <3>1, <3>2
  <2>3. \A i \in 1 .. Len(es) : es[i] = H!Entry(feed[i])
    BY <1>7, <2>1, EntryIs
  <2>. HIDE DEF feed, es
  <2>4. es = [i \in 1 .. Len(es) |-> es[i]]
    BY <1>2
  <2>5. es = [i \in 1 .. Len(es) |-> H!Entry(feed[i])]
    BY <2>3, <2>4
  <2>6. s4.next = {} => Len(es) = Len(feed)
    BY <1>7, <2>2
  <2>. QED  BY <2>5, <2>6 DEF feed
<1>9. H!CardIsRun
  <2>. SUFFICES ASSUME s3 = "everyone", s4 # H!NoPages, s5 = {}, ~s8, s4.next = {},
                       NEW rows \in H!groupRuns(es), NEW i \in rows
                PROVE  {es[j].op : j \in rows} = {o \in s2 : H!matchesRun(o, es[i].op)}
    BY DEF H!CardIsRun, H!AllLoaded, H!hasNextPage, H!entries
  <2>1. PICK k \in 1 .. Len(es) : rows = H!Rows(es, k)
    BY DEF H!groupRuns
  <2>2. rows = {j \in 1 .. Len(es) : H!sameRun(es[k].op, es[j].op)}
    BY <2>1 DEF H!Rows
  <2>3. Fs = s2
    BY DEF Members, H!Keep
  <2>. HIDE DEF Fs
  <2>4. \A j \in 1 .. Len(es) : es[j].op = FeedOf(s2)[j] /\ es[j].op \in s2
    <3>1. \A o : EntryIn(s2, o).op = o
      BY DEF EntryIn
    <3>2. \A j \in 1 .. Len(es) : es[j].op \in Fs
      BY <1>1 DEF Listed, Fs
    <3>3. \A j \in 1 .. Len(es) : es[j] = EntryIn(s2, FeedOf(s2)[j])
      BY <1>7, <2>3
    <3>. HIDE DEF es
    <3>. QED  BY <2>3, <3>1, <3>2, <3>3
  <2>5. \A o \in s2 : \E j \in 1 .. Len(es) : es[j].op = o
    <3>1. \A o \in s2 : \E j \in 1 .. Cardinality(s2) : FeedOf(s2)[j] = o
      BY <1>1, FeedPlaces
    <3>. QED  BY <1>7, <2>3, <2>4, <3>1
  <2>. HIDE DEF es
  <2>. QED  BY <2>2, <2>4, <2>5 DEF H!sameRun, H!matchesRun
<1>. QED  BY <1>4, <1>8, <1>9

\* Of operations in the journal's order, the newest holds the content.
LEMMA NewestIs ==
  ASSUME NEW Es, Signed(Es), NEW n \in Es, \A o \in Es : o = n \/ H!Less(o, n)
  PROVE  H!Held(Es) = n.content
<1>1. \A o \in Es : o.time \in Nat /\ o.lamport \in Nat /\ o.device \in Nat /\ o.seq \in Nat
  BY DEF Signed
<1>2. ASSUME NEW o \in Es, H!Less(n, o) PROVE o = n
  <2>1. ~H!Less(o, n)
    BY <1>1, <1>2 DEF H!Less
  <2>. QED  BY <2>1
<1>3. H!Newest(Es) = {n}
  BY <1>2 DEF H!Newest
<1>. QED  BY <1>3 DEF H!Held

\* The first row of a path has its content now, where the clocks agree.
LEMMA HeadIsNow ==
  ASSUME FeedRead, s3 = "everyone", ~s8, s5 = {}, H!ClocksAgree, NEW i \in 1 .. Len(s4.entries)
  PROVE  /\ H!headBlob(s4.entries, i) = H!Current(H!PathAt(s4.entries, i))
         /\ s4.entries[i].kind = "delete" => s4.entries[i].op.content = 0
<1>. DEFINE es == s4.entries
            p == H!PathAt(es, i)
            same == {j \in 1 .. Len(es) : H!PathAt(es, j) = p}
            m == CHOOSE j \in same : \A k \in same : j <= k
            n == es[m].op
<1>1. /\ Listed(s2, s4, s3) /\ IsFiniteSet(s2) /\ Signed(s2) /\ Top(s2, s4, s3)
  BY DEF FeedRead, Reads, Undoing, Logged, Numbered, Signed
<1>2. Len(es) \in Nat
  BY <1>1 DEF Listed
<1>3. Members(s2, s3) = s2
  BY DEF Members, H!Keep
<1>4. /\ Len(es) <= Cardinality(s2) /\ Cardinality(s2) \in Nat
      /\ \A j \in 1 .. Len(es) : es[j] = EntryIn(s2, FeedOf(s2)[j])
  BY <1>1, <1>3, FS_CardinalityType DEF Top
<1>5. \A j \in 1 .. Len(es) : es[j].op = FeedOf(s2)[j] /\ (es[j].kind = "delete" => es[j].op.content = 0)
  <2>1. \A o : EntryIn(s2, o).op = o /\ (EntryIn(s2, o).kind = "delete" => o.content = 0)
    BY DEF EntryIn
  <2>. QED  BY <1>4, <2>1
<1>6. \A j \in 1 .. Len(es) : H!PathAt(es, j) = es[j].op.path
  BY DEF H!PathAt
<1>7. H!headBlob(es, i) = n.content
  BY DEF H!headBlob
<1>. HIDE DEF es, p
<1>8. m \in same /\ \A k \in same : m <= k
  <2>1. same \subseteq Nat /\ same # {}
    BY <1>2 DEF es, p
  <2>2. \E j \in same : \A k \in same : j <= k
    <3>. HIDE DEF same
    <3>. QED  BY <2>1, LeastIn
  <2>. HIDE DEF same
  <2>. QED  BY <2>2
<1>. HIDE DEF m
<1>9. /\ \A j \in 1 .. Cardinality(s2) : FeedOf(s2)[j] \in s2
      /\ \A x \in s2 : \E j \in 1 .. Cardinality(s2) : FeedOf(s2)[j] = x
  BY <1>1, FeedPlaces
<1>10. m \in 1 .. Len(es) /\ m \in 1 .. Cardinality(s2) /\ n = FeedOf(s2)[m] /\ n \in s2 /\ n.path = p
  <2>1. m \in 1 .. Len(es) /\ H!PathAt(es, m) = p
    BY <1>8
  <2>2. m \in 1 .. Cardinality(s2)
    BY <1>2, <1>4, <2>1
  <2>. QED  BY <1>5, <1>6, <1>9, <2>1, <2>2
<1>. HIDE DEF n
<1>11. ASSUME NEW x \in s2, x.path = p, x # n PROVE H!Less(x, n)
  <2>1. PICK j \in 1 .. Cardinality(s2) : FeedOf(s2)[j] = x
    BY <1>9
  <2>2. m < j
    <3>1. CASE j \in 1 .. Len(es)
      <4>1. j \in same
        BY <1>5, <1>6, <1>11, <2>1, <3>1
      <4>2. m <= j /\ m # j
        BY <1>8, <1>10, <1>11, <2>1, <4>1
      <4>. QED  BY <1>4, <1>10, <4>2
    <3>2. CASE j \notin 1 .. Len(es)
      BY <1>2, <1>4, <1>10, <3>2
    <3>. QED  BY <3>1, <3>2
  <2>3. H!histLess(n, x)
    BY <1>1, <1>10, <2>1, <2>2, FeedSorted
  <2>4. /\ n.time \in Nat /\ n.lamport \in Nat /\ n.device \in Nat /\ n.seq \in Nat
        /\ x.time \in Nat /\ x.lamport \in Nat /\ x.device \in Nat /\ x.seq \in Nat
    BY <1>1, <1>10 DEF Signed
  <2>5. CASE n.time > x.time
    <3>1. ~H!Less(n, x)
      <4>1. H!Less(n, x) => n.time <= x.time
        BY <1>10 DEF H!ClocksAgree
      <4>. QED  BY <2>4, <2>5, <4>1
    <3>2. n.device # x.device \/ n.seq # x.seq
      BY <1>1, <1>10, <1>11 DEF Signed
    <3>. QED  BY <2>4, <3>1, <3>2 DEF H!Less
  <2>. QED  BY <2>3, <2>5 DEF H!histLess
<1>12. H!Current(p) = n.content
  <2>. DEFINE Es == {o \in s2 : o.path = p}
  <2>1. H!Current(p) = H!Held(Es)
    BY DEF H!Current, H!On
  <2>2. Signed(Es) /\ n \in Es /\ \A o \in Es : o = n \/ H!Less(o, n)
    BY <1>1, <1>10, <1>11 DEF Signed
  <2>. HIDE DEF Es
  <2>. QED  BY <2>1, <2>2, NewestIs
<1>. QED  BY <1>5, <1>7, <1>12 DEF es, p, n

\* A row offers what changes the file, and all that does (HistoryView.tsx, restoreSha).
LEMMA OffersHold == ASSUME FeedRead PROVE H!OfferIsChange
<1>. DEFINE es == s4.entries
<1>. SUFFICES ASSUME s3 = "everyone", ~s8, s5 = {}, H!ClocksAgree, NEW i \in 1 .. Len(es)
              PROVE  LET now == H!Current(H!PathAt(es, i))
                     IN /\ H!restoreSha(es, i) # 0 => now # H!restoreSha(es, i)
                        /\ H!restoreSha(es, i) = 0 => es[i].op.content \in {0, now}
                        /\ H!recreates(es, i) <=> now = 0
  BY DEF H!OfferIsChange, H!entries
<1>1. /\ H!headBlob(es, i) = H!Current(H!PathAt(es, i))
      /\ es[i].kind = "delete" => es[i].op.content = 0
  BY HeadIsNow
<1>. HIDE DEF es
<1>. QED  BY <1>1 DEF H!restoreSha, H!recreates

-----------------------------------------------------------------------------
(* The rows of the sidebar *)

\* A tree as the hub serves it: files there may be, each with its time.
Read(t) == DOMAIN t \subseteq TreePaths /\ \A p \in DOMAIN t : t[p] \in Nat
Nodes(t) == DOMAIN t \cup N!Folders(t)

\* A prefix, and a prefix of a prefix.
LEMMA Prefix ==
  ASSUME NEW p \in Seq(Nat), NEW i \in 0 .. Len(p)
  PROVE  /\ SubSeq(p, 1, i) \in Seq(Nat) /\ Len(SubSeq(p, 1, i)) = i
         /\ \A j \in 1 .. i : SubSeq(p, 1, i)[j] = p[j]
         /\ \A j \in 0 .. i : SubSeq(SubSeq(p, 1, i), 1, j) = SubSeq(p, 1, j)
<1>1. /\ SubSeq(p, 1, i) \in Seq(Nat) /\ Len(SubSeq(p, 1, i)) = i
      /\ \A j \in 1 .. i : SubSeq(p, 1, i)[j] = p[j]
  OBVIOUS
<1>2. ASSUME NEW j \in 0 .. i PROVE SubSeq(SubSeq(p, 1, i), 1, j) = SubSeq(p, 1, j)
  OBVIOUS
<1>. QED  BY <1>1, <1>2

\* A node is a path of names, and a file or above one.
LEMMA NodesArePaths ==
  ASSUME NEW t, Read(t), NEW n \in Nodes(t)
  PROVE  n \in Seq(Nat) /\ Len(n) > 0 /\ \E p \in DOMAIN t : p = n \/ N!Under(n, p)
<1>1. \A p \in DOMAIN t : p \in Seq(Nat) /\ Len(p) > 0
  BY PagesSound DEF PagesSound, N!ConstantsSound, Read
<1>2. CASE n \in DOMAIN t
  BY <1>1, <1>2
<1>3. CASE n \in N!Folders(t)
  <2>0. PICK p \in DOMAIN t : n \in N!ancestorsOf(p)
    BY <1>3 DEF N!Folders
  <2>1. PICK i \in 1 .. Len(p) - 1 : n = SubSeq(p, 1, i)
    BY <2>0 DEF N!ancestorsOf
  <2>2. i \in 0 .. Len(p) /\ i > 0 /\ i < Len(p)
    BY <1>1, <2>1
  <2>3. n \in Seq(Nat) /\ Len(n) = i
    BY <1>1, <2>1, <2>2, Prefix
  <2>. QED  BY <2>1, <2>2, <2>3 DEF N!Under
<1>. QED  BY <1>2, <1>3 DEF Nodes

\* There are finitely many.
LEMMA NodesAreFinite ==
  ASSUME NEW t, Read(t)
  PROVE  IsFiniteSet(DOMAIN t) /\ IsFiniteSet(Nodes(t))
<1>1. IsFiniteSet(DOMAIN t) /\ \A p \in DOMAIN t : p \in Seq(Nat)
  BY PagesSound, SameCounts, FS_Subset DEF PagesSound, N!ConstantsSound, Read
<1>. DEFINE Ways == {N!ancestorsOf(p) : p \in DOMAIN t}
<1>2. IsFiniteSet(Ways)
  <2>. DEFINE f == [p \in DOMAIN t |-> N!ancestorsOf(p)]
  <2>1. f \in Surjection(DOMAIN t, Ways)
    BY DEF Surjection
  <2>. HIDE DEF f, Ways
  <2>. QED  BY <1>1, <2>1, FS_Surjection
<1>3. \A Some \in Ways : IsFiniteSet(Some)
  <2>. SUFFICES ASSUME NEW p \in DOMAIN t PROVE IsFiniteSet(N!ancestorsOf(p))
    OBVIOUS
  <2>. DEFINE f == [i \in 1 .. Len(p) - 1 |-> SubSeq(p, 1, i)]
              B == {SubSeq(p, 1, i) : i \in 1 .. Len(p) - 1}
  <2>1. f \in Surjection(1 .. Len(p) - 1, B)
    BY DEF Surjection
  <2>2. IsFiniteSet(1 .. Len(p) - 1)
    BY <1>1, FS_Interval
  <2>3. IsFiniteSet(B)
    <3>. HIDE DEF f, B
    <3>. QED  BY <2>1, <2>2, FS_Surjection
  <2>. QED  BY <2>3 DEF N!ancestorsOf
<1>4. IsFiniteSet(UNION Ways)
  <2>. HIDE DEF Ways
  <2>. QED  BY <1>2, <1>3, FS_UNION
<1>5. Nodes(t) = DOMAIN t \cup UNION Ways
  BY DEF Nodes, N!Folders
<1>. HIDE DEF Ways
<1>. QED  BY <1>1, <1>4, <1>5, FS_Union

\* The newest change in a node is the time of one of its files.
LEMMA LatestIsTime ==
  ASSUME NEW t, Read(t), NEW n \in Nodes(t)
  PROVE  N!latest(t, n) \in Nat
<1>. DEFINE Q == {q \in DOMAIN t : q = n \/ N!Under(n, q)}
            times == {t[p] : p \in Q}
            f == [p \in Q |-> t[p]]
<1>1. IsFiniteSet(Q) /\ Q # {}
  BY NodesArePaths, NodesAreFinite, FS_Subset
<1>2. f \in Surjection(Q, times)
  BY DEF Surjection
<1>3. times \subseteq Nat /\ times # {}
  BY <1>1 DEF Read
<1>4. IsFiniteSet(times)
  <2>. HIDE DEF f, Q, times
  <2>. QED  BY <1>1, <1>2, FS_Surjection
<1>5. \E x \in times : \A y \in times : y <= x
  <2>. HIDE DEF times
  <2>. QED  BY <1>3, <1>4, GreatestIn
<1>6. N!latest(t, n) = CHOOSE x \in times : \A y \in times : y <= x
  BY DEF N!latest
<1>. HIDE DEF times
<1>. QED  BY <1>3, <1>5, <1>6

\* What lies in a folder, by its name.
LEMMA KidsAre ==
  ASSUME NEW t, Read(t), NEW f, f = <<>> \/ f \in Nodes(t), NEW n \in N!Kids(t, f)
  PROVE  /\ n \in Nodes(t) /\ n \in Seq(Nat) /\ Len(n) = Len(f) + 1 /\ f \in Seq(Nat)
         /\ N!Parent(n) = f /\ f = SubSeq(n, 1, Len(f)) /\ N!Name(n) \in Nat
         /\ N!ancestorsOf(n) \subseteq N!ancestorsOf(f) \cup ({f} \ {<<>>})
<1>1. n \in Nodes(t) /\ Len(n) = Len(f) + 1 /\ N!Parent(n) = f
  BY DEF N!Kids, Nodes
<1>2. n \in Seq(Nat) /\ f \in Seq(Nat)
  <2>1. n \in Seq(Nat)
    BY <1>1, NodesArePaths
  <2>2. CASE f = <<>>
    BY <2>1, <2>2
  <2>3. CASE f \in Nodes(t)
    BY <2>1, <2>3, NodesArePaths
  <2>. QED  BY <2>2, <2>3
<1>3. f = SubSeq(n, 1, Len(f))
  BY <1>1, <1>2 DEF N!Parent
<1>4. N!Name(n) \in Nat
  BY <1>1, <1>2 DEF N!Name
<1>5. ASSUME NEW i \in 1 .. Len(n) - 1
      PROVE  SubSeq(n, 1, i) \in N!ancestorsOf(f) \cup ({f} \ {<<>>})
  <2>0. Len(f) \in 0 .. Len(n) /\ i \in 0 .. Len(f) /\ Len(f) > 0
    BY <1>1, <1>2
  <2>1. CASE i = Len(f)
    BY <1>2, <1>3, <2>0, <2>1, SMTT(30)
  <2>2. CASE i # Len(f)
    <3>1. i \in 1 .. Len(f) - 1
      BY <2>0, <2>2
    <3>2. SubSeq(SubSeq(n, 1, Len(f)), 1, i) = SubSeq(n, 1, i)
      BY <1>2, <2>0, Prefix
    <3>. QED  BY <1>3, <3>1, <3>2 DEF N!ancestorsOf
  <2>. QED  BY <2>1, <2>2
<1>. QED  BY <1>1, <1>2, <1>3, <1>4, <1>5 DEF N!ancestorsOf

\* Two of them have two names.
LEMMA NamesTell ==
  ASSUME NEW t, Read(t), NEW f, f = <<>> \/ f \in Nodes(t),
         NEW a \in N!Kids(t, f), NEW b \in N!Kids(t, f), N!Name(a) = N!Name(b)
  PROVE  a = b
<1>1. /\ a \in Seq(Nat) /\ b \in Seq(Nat) /\ f \in Seq(Nat)
      /\ Len(a) = Len(f) + 1 /\ Len(b) = Len(f) + 1
      /\ f = SubSeq(a, 1, Len(f)) /\ f = SubSeq(b, 1, Len(f))
  BY KidsAre
<1>2. \A i \in 1 .. Len(f) : f[i] = a[i] /\ f[i] = b[i]
  BY <1>1, Prefix
<1>3. a[Len(a)] = b[Len(b)]
  BY DEF N!Name
<1>4. ASSUME NEW i \in 1 .. Len(a) PROVE a[i] = b[i]
  <2>1. i \in 1 .. Len(f) \/ i = Len(a)
    BY <1>1
  <2>. QED  BY <1>1, <1>2, <1>3, <2>1
<1>. QED  BY <1>1, <1>4

\* The children of a folder stand in one order, whatever ties there are.
LEMMA NewestFirst ==
  ASSUME NEW t, Read(t), NEW f, f = <<>> \/ f \in Nodes(t), NEW Es, Es \subseteq N!Kids(t, f),
         NEW Ord, \A a, b \in Es : <<a, b>> \in Ord <=> N!Newer(t, a, b)
  PROVE  Orders(Ord, Es)
<1>1. \A n \in Es : N!latest(t, n) \in Nat /\ N!Name(n) \in Nat
  <2>. SUFFICES ASSUME NEW n \in Es PROVE N!latest(t, n) \in Nat /\ N!Name(n) \in Nat
    OBVIOUS
  <2>1. n \in Nodes(t) /\ N!Name(n) \in Nat
    BY KidsAre
  <2>. QED  BY <2>1, LatestIsTime
<1>2. \A a, b \in Es : N!Name(a) = N!Name(b) => a = b
  BY NamesTell
<1>3. \A x \in Es : <<x, x>> \notin Ord
  BY <1>1 DEF N!Newer, N!Before
<1>4. ASSUME NEW x \in Es, NEW y \in Es, x # y PROVE <<x, y>> \in Ord \/ <<y, x>> \in Ord
  <2>1. N!Before(t, x, y) \/ N!Before(t, y, x)
    <3>1. N!Name(x) < N!Name(y) \/ N!Name(y) < N!Name(x)
      BY <1>1, <1>2, <1>4
    <3>2. ((x \in N!Folders(t)) # (y \in N!Folders(t))) \in BOOLEAN
      OBVIOUS
    <3>. QED  BY <3>1, <3>2 DEF N!Before
  <2>2. N!latest(t, x) < N!latest(t, y) \/ N!latest(t, x) = N!latest(t, y) \/ N!latest(t, y) < N!latest(t, x)
    BY <1>1
  <2>3. N!Newer(t, x, y) \/ N!Newer(t, y, x)
    BY <1>1, <2>1, <2>2 DEF N!Newer
  <2>. QED  BY <2>3
<1>5. \A x, y, z \in Es : <<x, y>> \in Ord /\ <<y, z>> \in Ord => <<x, z>> \in Ord
  BY <1>1 DEF N!Newer, N!Before
<1>. QED  BY <1>3, <1>4, <1>5 DEF Orders

\* What two disjoint parts of a set leave of it.
LEMMA LeftOver ==
  ASSUME NEW Es, IsFiniteSet(Es), NEW Some, Some \subseteq Es, NEW U, U \subseteq Es \ Some
  PROVE  Cardinality(Es \ (Some \cup U)) = Cardinality(Es) - Cardinality(Some) - Cardinality(U)
<1>1. IsFiniteSet(Some) /\ IsFiniteSet(U)
  BY FS_Subset
<1>2. Cardinality(Es \ Some) = Cardinality(Es) - Cardinality(Some) /\ IsFiniteSet(Es \ Some)
  <2>1. Es \cap Some = Some
    OBVIOUS
  <2>. QED  BY <2>1, FS_Difference
<1>3. Cardinality((Es \ Some) \ U) = Cardinality(Es \ Some) - Cardinality(U)
  <2>1. PICK Rest : Rest = Es \ Some
    OBVIOUS
  <2>2. Rest \cap U = U /\ IsFiniteSet(Rest)
    BY <1>2, <2>1
  <2>3. Cardinality(Rest \ U) = Cardinality(Rest) - Cardinality(U)
    BY ONLY <2>2, FS_Difference
  <2>. QED  BY ONLY <2>1, <2>3
<1>4. (Es \ Some) \ U = Es \ (Some \cup U)
  OBVIOUS
<1>. QED  BY <1>2, <1>3, <1>4

\* "Show N more" counts what the cap leaves out.
LEMMA CapCounts ==
  ASSUME NEW t, Read(t), NEW f, f = <<>> \/ f \in Nodes(t)
  PROVE  Cardinality(N!Plain(t, f) \ N!shown(t, f)) = N!more(t, f)
<1>. DEFINE Es == N!Plain(t, f)
            Ord == {p \in Es \X Es : N!Newer(t, p[1], p[2])}
            Some == N!Top(t, Es)
            H0 == N!held(t, f)
<1>1. Es \subseteq N!Kids(t, f) /\ IsFiniteSet(Es)
  BY NodesAreFinite, FS_Subset DEF N!Plain, N!Kids, Nodes
<1>2. \A a, b \in Es : <<a, b>> \in Ord <=> N!Newer(t, a, b)
  OBVIOUS
<1>. HIDE DEF Ord, Es, Some, H0
<1>3. Orders(Ord, Es)
  BY <1>1, <1>2, NewestFirst
<1>4. Some = {n \in Es : Rank(Ord, Es, n) < TreeCap}
  <2>1. \A n \in Es : ~N!Newer(t, n, n)
    BY <1>2, <1>3 DEF Orders
  <2>2. \A n \in Es : {x \in Es \ {n} : N!Newer(t, x, n)} = {x \in Es : <<x, n>> \in Ord}
    BY <1>2, <2>1
  <2>. QED  BY <2>2, SameCounts DEF Some, N!Top, Rank
<1>5. TreeCap \in Nat
  BY PagesSound DEF PagesSound, N!ConstantsSound
<1>6. CASE ~N!capped(t, f)
  BY <1>6, FS_EmptySet DEF N!shown, N!more
<1>7. CASE N!capped(t, f)
  <2>1. TreeCap <= Cardinality(Es)
    BY <1>1, <1>5, <1>7, SameCounts, FS_CardinalityType DEF N!capped, Es
  <2>2. Cardinality(Some) = TreeCap /\ Some \subseteq Es
    BY <1>1, <1>3, <1>4, <1>5, <2>1, FirstOnes
  <2>3. H0 \subseteq Es \ Some
    BY DEF N!held, H0, Es, Some
  <2>4. Cardinality(Es \ (Some \cup H0)) = Cardinality(Es) - Cardinality(Some) - Cardinality(H0)
    BY <1>1, <2>2, <2>3, LeftOver
  <2>5. N!shown(t, f) = Some \cup H0 /\ N!more(t, f) = Cardinality(Es) - TreeCap - Cardinality(H0)
    BY <1>7, SameCounts DEF N!shown, N!more, Es, Some, H0
  <2>. QED  BY <2>2, <2>4, <2>5 DEF Es
<1>. QED  BY <1>6, <1>7

\* In a folder that is unfolded, a node has a row when its level shows it.
LEMMA RowsOfLevel ==
  ASSUME NEW t, Read(t), NEW f \in N!Unfolded(t), NEW n \in N!Kids(t, f)
  PROVE  n \in N!buildRows(t) <=> N!AtLevel(t, n)
<1>1. f = <<>> \/ f \in Nodes(t)
  BY DEF N!Unfolded, Nodes
<1>2. n \in Nodes(t) /\ N!ancestorsOf(n) \subseteq N!ancestorsOf(f) \cup ({f} \ {<<>>})
  BY <1>1, KidsAre
<1>3. f # <<>> => /\ f \in s4 /\ N!AtLevel(t, f)
                  /\ \A a \in N!ancestorsOf(f) : a \in s4 /\ N!AtLevel(t, a)
  BY DEF N!Unfolded, N!buildRows
<1>4. f = <<>> => N!ancestorsOf(f) = {}
  BY DEF N!ancestorsOf
<1>5. \A a \in N!ancestorsOf(n) : a \in s4 /\ N!AtLevel(t, a)
  BY <1>2, <1>3, <1>4
<1>. QED  BY <1>2, <1>5 DEF N!buildRows, Nodes

\* A conflict copy lies in the folder of its original.
LEMMA CopyIsBeside ==
  ASSUME NEW t, Read(t), NEW f, f = <<>> \/ f \in Nodes(t), NEW n \in N!Kids(t, f),
         N!isFoldedCopy(t, n)
  PROVE  TreeCopies[n] \in N!Kids(t, f)
<1>. DEFINE c == TreeCopies[n]
<1>1. n \in DOMAIN TreeCopies /\ c \in DOMAIN t
  BY DEF N!isFoldedCopy
<1>2. Len(c) = Len(n) /\ \A i \in 1 .. Len(n) - 1 : c[i] = n[i]
  BY <1>1, PagesSound DEF PagesSound, N!ConstantsSound
<1>3. /\ n \in Seq(Nat) /\ Len(n) = Len(f) + 1 /\ f \in Seq(Nat) /\ N!Parent(n) = f
  BY KidsAre
<1>4. c \in Seq(Nat)
  BY <1>1, NodesArePaths DEF Nodes
<1>. HIDE DEF c
<1>5. N!Parent(c) = N!Parent(n)
  <2>1. SubSeq(c, 1, Len(f)) = SubSeq(n, 1, Len(f))
    <3>1. Len(f) \in 0 .. Len(c) /\ Len(f) \in 0 .. Len(n) /\ Len(f) = Len(n) - 1
      BY <1>2, <1>3, <1>4
    <3>2. /\ SubSeq(c, 1, Len(f)) \in Seq(Nat) /\ Len(SubSeq(c, 1, Len(f))) = Len(f)
          /\ \A i \in 1 .. Len(f) : SubSeq(c, 1, Len(f))[i] = c[i]
      BY <1>4, <3>1, Prefix
    <3>3. /\ SubSeq(n, 1, Len(f)) \in Seq(Nat) /\ Len(SubSeq(n, 1, Len(f))) = Len(f)
          /\ \A i \in 1 .. Len(f) : SubSeq(n, 1, Len(f))[i] = n[i]
      BY <1>3, <3>1, Prefix
    <3>4. \A i \in 1 .. Len(f) : SubSeq(c, 1, Len(f))[i] = SubSeq(n, 1, Len(f))[i]
      BY <1>2, <3>1, <3>2, <3>3
    <3>5. \A x, y \in Seq(Nat) : Len(x) = Len(y) /\ (\A i \in 1 .. Len(x) : x[i] = y[i]) => x = y
      OBVIOUS
    <3>. QED  BY <3>2, <3>3, <3>4, <3>5
  <2>2. Len(c) - 1 = Len(f) /\ Len(n) - 1 = Len(f)
    BY <1>2, <1>3
  <2>. QED  BY <2>1, <2>2 DEF N!Parent
<1>. QED  BY <1>1, <1>2, <1>3, <1>5 DEF N!Kids, c

\* Nothing vanishes from an unfolded folder of a tree the hub serves.
LEMMA TreeAccounted ==
  ASSUME Read(s3) PROVE N!FilesAccounted
<1>. SUFFICES ASSUME NEW f \in N!Unfolded(s3)
              PROVE  /\ N!Cardinality(N!Plain(s3, f) \ N!buildRows(s3)) = N!more(s3, f)
                     /\ \A n \in N!Kids(s3, f) \ (N!Plain(s3, f) \cup N!Housekeeping(s3, f)) :
                          TreeCopies[n] \in N!Plain(s3, f) \cup N!Housekeeping(s3, f) \cup DOMAIN TreeCopies
                     /\ \A n \in N!Plain(s3, f) \cup N!Housekeeping(s3, f) :
                          N!onKeepPath(n) => n \in N!buildRows(s3)
  BY DEF N!FilesAccounted
<1>1. f = <<>> \/ f \in Nodes(s3)
  BY DEF N!Unfolded, Nodes
<1>2. ASSUME NEW n \in N!Plain(s3, f) PROVE n \in N!buildRows(s3) <=> n \in N!shown(s3, f)
  <2>1. n \in N!Kids(s3, f) /\ N!Name(n) \notin TreeSystem
    BY DEF N!Plain
  <2>2. N!Parent(n) = f
    BY <1>1, <2>1, KidsAre
  <2>3. N!AtLevel(s3, n) <=> n \in N!shown(s3, f)
    BY <2>1, <2>2 DEF N!AtLevel, N!Housekeeping
  <2>. QED  BY <2>1, <2>3, RowsOfLevel
<1>3. N!Plain(s3, f) \ N!buildRows(s3) = N!Plain(s3, f) \ N!shown(s3, f)
  BY <1>2
<1>4. N!Cardinality(N!Plain(s3, f) \ N!buildRows(s3)) = N!more(s3, f)
  BY <1>1, <1>3, CapCounts, SameCounts
<1>5. ASSUME NEW n \in N!Kids(s3, f) \ (N!Plain(s3, f) \cup N!Housekeeping(s3, f))
      PROVE  TreeCopies[n] \in N!Plain(s3, f) \cup N!Housekeeping(s3, f) \cup DOMAIN TreeCopies
  <2>1. N!isFoldedCopy(s3, n)
    BY DEF N!Plain, N!Housekeeping
  <2>2. TreeCopies[n] \in N!Kids(s3, f)
    BY <1>1, <2>1, CopyIsBeside
  <2>. QED  BY <2>2 DEF N!Plain, N!Housekeeping, N!isFoldedCopy
<1>6. ASSUME NEW n \in N!Plain(s3, f), N!onKeepPath(n) PROVE n \in N!buildRows(s3)
  BY <1>2, <1>6 DEF N!shown, N!held
<1>7. ASSUME NEW n \in N!Housekeeping(s3, f), N!onKeepPath(n) PROVE n \in N!buildRows(s3)
  <2>1. n \in N!Kids(s3, f)
    BY DEF N!Housekeeping
  <2>2. N!Parent(n) = f
    BY <1>1, <2>1, KidsAre
  <2>3. N!AtLevel(s3, n)
    BY <1>7, <2>2 DEF N!AtLevel, N!systemOpen
  <2>. QED  BY <2>1, <2>3, RowsOfLevel
<1>. QED  BY <1>4, <1>5, <1>6, <1>7

\* The tab's tree is the hub's as it was at some time.
TreesRead == Read(s2) /\ Read(s3) /\ s9 \in Nat

\* It is so at first.
LEMMA TreesStart == ASSUME N!Init PROVE TreesRead
<1>1. s3 = s2 /\ s9 = 0
  BY DEF N!Init
<1>2. \E Es \in SUBSET TreePaths : s2 = [p \in Es |-> 0]
  BY DEF N!Init
<1>. QED  BY <1>1, <1>2 DEF TreesRead, Read

\* No step of the sidebar makes one up.
LEMMA TreesStep == ASSUME TreesRead, [N!Next]_(N!vars) PROVE TreesRead'
<1>1. CASE N!Change
  <2>1. s9' \in Nat /\ s3' = s3
    BY <1>1 DEF N!Change, TreesRead
  <2>2. PICK p \in TreePaths :
          \/ s2' = [x \in DOMAIN s2 \cup {p} |-> IF x = p THEN s9' ELSE s2[x]]
          \/ p \in DOMAIN s2 /\ s2' = [x \in DOMAIN s2 \ {p} |-> s2[x]]
    BY <1>1 DEF N!Change
  <2>. QED  BY <2>1, <2>2 DEF TreesRead, Read
<1>2. CASE s2' = s2 /\ s9' = s9 /\ (s3' = s2 \/ s3' = s3)
  BY <1>2 DEF TreesRead, Read
<1>3. ASSUME ~N!Change, [N!Next]_(N!vars) PROVE s2' = s2 /\ s9' = s9 /\ (s3' = s2 \/ s3' = s3)
  BY <1>3 DEF N!Next, N!vars, N!treeVars, N!useTree, N!RowClick, N!HitClick, N!Link, N!Open, N!onToggle,
              N!ShowMore, N!setTreeOrder, N!setFilterQuery, N!noteLeaving, N!visitBaseline,
              N!markAllSeen, N!togglePin, N!OtherTab, N!Reload
<1>. QED  BY <1>1, <1>2, <1>3

-----------------------------------------------------------------------------
(* A meeting note while the room is away *)

\* The cardinality that MeetingNote speaks of is the one above.
LEMMA NoteCounts == \A Es : M!Cardinality(Es) = Cardinality(Es)
BY DEF M!Cardinality, Cardinality, M!IsFiniteSet, IsFiniteSet

NoteLines == [id : 0 .. MaxLines, is : M!Kinds, who : NoteNames]
NoteTyped ==
  /\ s1 \in Seq(NoteLines) /\ Len(s1) <= MaxLines
  /\ s5 \subseteq [id : 1 .. MaxLines, is : M!Kinds, who : NoteNames]
  /\ s2 \in BOOLEAN /\ s3 \in BOOLEAN /\ s6 \in BOOLEAN
  /\ s7 \in 0 .. MaxEdits /\ s4 \in BOOLEAN /\ s8 \in 0 .. MaxOthers
  /\ s2 => s5 = {} /\ ~s6

\* What stands before line i leaves no code fence open; and line i is a heading of
\* the user's own.
Shut(t, i) == ~M!Odd(M!FencesBefore(t, i))
IsMine(t, i) == t[i].is = "head" /\ t[i].who \in OwnNames /\ Shut(t, i)

\* The own section's heading is line p and what is in it ends with line q; the other
\* lines are as they were when the room was lost.
Outside(t, p, q) == {i \in DOMAIN t : i <= p \/ q < i}
Framed(t, lines, p, q) ==
  /\ p \in 0 .. Len(t) /\ q \in p .. Len(t)
  /\ lines = {t[i] : i \in Outside(t, p, q)}
  /\ \A i \in Outside(t, p, q), k \in DOMAIN t : t[i].id = t[k].id => i = k
  /\ \A k \in 1 .. p - 1 : ~IsMine(t, k)
Bounding(t, p, q) ==
  /\ p > 0 /\ IsMine(t, p)
  /\ q < Len(t) => t[q + 1].is \in {"head", "title"} /\ Shut(t, q + 1)

\* The strengthening of OthersKept: the note is framed by the others' lines, or
\* there is nothing of the user's in it.
HasFrame(t, lines) ==
  \E p \in 0 .. Len(t) : \E q \in p .. Len(t) :
    /\ Framed(t, lines, p, q)
    /\ Bounding(t, p, q) \/ (p = Len(t) /\ \A k \in DOMAIN t : ~IsMine(t, k))
Around == ~s2 /\ ~s6 => HasFrame(s1, s5)

LEMMA AroundNext == Around' <=> (~s2' /\ ~s6' => HasFrame(s1', s5'))
BY DEF Around, HasFrame, Framed, Bounding, IsMine, Shut, M!FencesBefore, M!Odd, Outside

\* Two sets apart have an even number together when each has.
LEMMA EvenTogether ==
  ASSUME NEW Xs, NEW Ys, IsFiniteSet(Xs), IsFiniteSet(Ys), Xs \cap Ys = {},
         ~M!Odd(Xs), ~M!Odd(Ys)
  PROVE  ~M!Odd(Xs \cup Ys)
<1>2. Cardinality(Xs) \in Nat /\ Cardinality(Ys) \in Nat
  BY FS_CardinalityType
<1>4. Cardinality(Xs \cap Ys) = 0
  BY FS_EmptySet
<1>5. Cardinality(Xs \cup Ys) = Cardinality(Xs) + Cardinality(Ys) - Cardinality(Xs \cap Ys)
  BY FS_Union
<1>1. Cardinality(Xs \cup Ys) = Cardinality(Xs) + Cardinality(Ys)
  BY <1>2, <1>4, <1>5
<1>3. \A a, b \in Nat : a % 2 # 1 /\ b % 2 # 1 => (a + b) % 2 # 1
  OBVIOUS
<1> QED BY <1>1, <1>2, <1>3, NoteCounts DEF M!Odd

\* The lines before another are finitely many.
LEMMA FencesAreFinite ==
  ASSUME NEW t, NEW a \in Int, NEW b \in Int
  PROVE  IsFiniteSet({k \in a .. b : t[k].is = "fence"})
<1>1. IsFiniteSet(a .. b)
  BY FS_Interval
<1> QED BY <1>1, FS_Subset

\* A section stops where another heading stands.
LEMMA SectionStops ==
  ASSUME NEW t \in Seq(NoteLines), NEW p \in 1 .. Len(t), NEW q \in p .. Len(t), Bounding(t, p, q)
  PROVE  M!SectionEnd(t, p) \in p .. q
<1> DEFINE next == {k \in (p + 1) .. Len(t) : M!Heading(t, k)}
<1>1. CASE next = {}
  <2>1. q = Len(t)
    <3>1. SUFFICES ASSUME q < Len(t) PROVE FALSE
      OBVIOUS
    <3>2. q + 1 \in next
      BY <3>1 DEF Bounding, Shut, M!Heading
    <3> QED BY <1>1, <3>2
  <2> QED BY <1>1, <2>1 DEF M!SectionEnd
<1>2. CASE next # {}
  <2>1. PICK k \in next : \A y \in next : k <= y
    <3>1. next \subseteq Nat
      OBVIOUS
    <3> HIDE DEF next
    <3> QED BY <1>2, <3>1, LeastIn
  <2>2. (CHOOSE x \in next : \A y \in next : x <= y) = k
    <3>1. \A x \in next : (\A y \in next : x <= y) => x = k
      BY <2>1
    <3> HIDE DEF next
    <3> QED BY <2>1, <3>1
  <2>3. M!SectionEnd(t, p) = k - 1
    BY <1>2, <2>2 DEF M!SectionEnd
  <2>4. k <= q + 1
    <3>1. CASE q < Len(t)
      <4>1. q + 1 \in next
        BY <3>1 DEF Bounding, Shut, M!Heading
      <4> QED BY <2>1, <4>1
    <3>2. CASE q = Len(t)
      BY <3>2
    <3> QED BY <3>1, <3>2
  <2> QED BY <2>3, <2>4
<1> QED BY <1>1, <1>2

\* Where the user has a section it is at the first own heading; elsewhere none.
LEMMA OwnSection ==
  ASSUME NEW t \in Seq(NoteLines)
  PROVE  /\ (\A k \in DOMAIN t : ~IsMine(t, k)) => M!Own(t) = {}
         /\ \A p \in DOMAIN t : IsMine(t, p) /\ (\A k \in 1 .. p - 1 : ~IsMine(t, k)) =>
              M!Own(t) = {[at |-> p, end |-> M!SectionEnd(t, p), name |-> t[p].who]}
<1> DEFINE mine == {x \in M!sections(t) : M!sameName(x.name)}
<1>1. \A x \in mine : x.at \in DOMAIN t /\ IsMine(t, x.at)
                      /\ x = [at |-> x.at, end |-> M!SectionEnd(t, x.at), name |-> t[x.at].who]
  BY DEF M!sections, M!sameName, M!Heading, IsMine, Shut
<1>2. ASSUME NEW p \in DOMAIN t, IsMine(t, p)
      PROVE  [at |-> p, end |-> M!SectionEnd(t, p), name |-> t[p].who] \in mine
  BY <1>2 DEF M!sections, M!sameName, M!Heading, IsMine, Shut
<1>3. M!Own(t) = {x \in mine : \A y \in mine : x.at <= y.at}
  BY DEF M!Own
<1> HIDE DEF mine
<1>4. ASSUME \A k \in DOMAIN t : ~IsMine(t, k) PROVE M!Own(t) = {}
  BY <1>1, <1>3, <1>4
<1>5. ASSUME NEW p \in DOMAIN t, IsMine(t, p), \A k \in 1 .. p - 1 : ~IsMine(t, k)
      PROVE  M!Own(t) = {[at |-> p, end |-> M!SectionEnd(t, p), name |-> t[p].who]}
  <2> DEFINE own == [at |-> p, end |-> M!SectionEnd(t, p), name |-> t[p].who]
  <2>1. own \in mine
    BY <1>2, <1>5
  <2>2. \A x \in mine : own.at <= x.at
    BY <1>1, <1>5
  <2>3. \A x \in mine : x.at = own.at => x = own
    BY <1>1
  <2>4. \A x \in mine : x.at \in Nat
    BY <1>1
  <2>5. \A x \in M!Own(t) : x = own
    BY <1>3, <2>1, <2>2, <2>3, <2>4
  <2>6. own \in M!Own(t)
    BY <1>3, <2>1, <2>2
  <2> HIDE DEF own
  <2>7. M!Own(t) = {own}
    BY <2>5, <2>6
  <2> QED BY <2>7 DEF own
<1> QED BY <1>4, <1>5

\* An edit that leaves the frame and no fence of its own open leaves a frame: the
\* first p lines and those after q, now after z, are as they were.
Leaves(t, u, p, q, z) ==
  /\ Len(u) - z = Len(t) - q
  /\ \A i \in 1 .. p : u[i] = t[i]
  /\ \A i \in 1 .. Len(t) - q : u[z + i] = t[q + i]
  /\ \A i \in p + 1 .. z : \A h \in s5 : u[i].id # h.id

LEMMA Reframed ==
  ASSUME NEW t \in Seq(NoteLines), NEW u \in Seq(NoteLines),
         NEW p \in 1 .. Len(t), NEW q \in p .. Len(t), NEW z \in p .. Len(u),
         Framed(t, s5, p, q), Bounding(t, p, q), Leaves(t, u, p, q, z), ~M!Loose(u)
  PROVE  Framed(u, s5, p, z) /\ Bounding(u, p, z)
<1>. DEFINE was(i) == IF i <= p THEN i ELSE (i - z) + q
<1>1. ASSUME NEW i \in Outside(u, p, z)
      PROVE  was(i) \in Outside(t, p, q) /\ u[i] = t[was(i)]
  <2>1. CASE i <= p
    BY <2>1 DEF Outside, Leaves
  <2>2. CASE z < i
    <3>1. i - z \in 1 .. Len(t) - q /\ z + (i - z) = i
      BY <2>2 DEF Outside, Leaves
    <3>2. u[z + (i - z)] = t[q + (i - z)]
      BY <3>1 DEF Leaves
    <3> QED BY <2>2, <3>1, <3>2 DEF Outside
  <2> QED BY <2>1, <2>2 DEF Outside
<1>2. ASSUME NEW k \in Outside(t, p, q)
      PROVE  \E i \in Outside(u, p, z) : was(i) = k
  <2>1. CASE k <= p
    BY <2>1 DEF Outside
  <2>2. CASE q < k
    <3>1. (k - q) + z \in Outside(u, p, z) /\ was((k - q) + z) = k
      BY <2>2 DEF Outside, Leaves
    <3> QED BY <3>1
  <2> QED BY <2>1, <2>2 DEF Outside
<1>3. s5 = {u[i] : i \in Outside(u, p, z)}
  <2>1. s5 = {t[i] : i \in Outside(t, p, q)}
    BY DEF Framed
  <2>2. \A h \in s5 : \E i \in Outside(u, p, z) : u[i] = h
    <3>. HIDE DEF was
    <3> QED BY <1>1, <1>2, <2>1
  <2>3. \A i \in Outside(u, p, z) : u[i] \in s5
    <3>. HIDE DEF was
    <3> QED BY <1>1, <2>1
  <2> QED BY <2>2, <2>3
<1>4. ASSUME NEW i \in Outside(u, p, z), NEW k \in DOMAIN u, u[i].id = u[k].id
      PROVE  i = k
  <2>1. u[i] \in s5
    BY <1>3
  <2>2. k \in Outside(u, p, z)
    BY <1>4, <2>1 DEF Leaves, Outside
  <2>3. was(i) = was(k)
    <3>1. /\ was(i) \in Outside(t, p, q) /\ u[i] = t[was(i)]
          /\ was(k) \in Outside(t, p, q) /\ u[k] = t[was(k)]
      BY <1>1, <2>2
    <3>2. was(k) \in DOMAIN t /\ t[was(i)].id = t[was(k)].id
      BY <1>4, <3>1 DEF Outside
    <3>. HIDE DEF was
    <3> QED BY <3>1, <3>2 DEF Framed
  <2> QED BY <2>2, <2>3 DEF Outside
<1>5. M!OwnLines(u) = p + 1 .. z
  <2>1. ASSUME NEW i \in p + 1 .. z PROVE i \in M!OwnLines(u)
    <3>1. i \in DOMAIN u
      OBVIOUS
    <3> QED BY <2>1, <3>1 DEF M!OwnLines, Leaves
  <2>2. ASSUME NEW i \in M!OwnLines(u) PROVE i \in p + 1 .. z
    <3>1. i \in DOMAIN u /\ u[i] \notin s5
      BY DEF M!OwnLines
    <3>2. i \notin Outside(u, p, z)
      BY <1>3, <3>1
    <3> QED BY <3>1, <3>2 DEF Outside
  <2> QED BY <2>1, <2>2
<1>6. ASSUME NEW k \in 1 .. p + 1 PROVE M!FencesBefore(u, k) = M!FencesBefore(t, k)
  BY DEF M!FencesBefore, Leaves
<1>7. \A k \in 1 .. p : IsMine(u, k) <=> IsMine(t, k)
  BY <1>6 DEF IsMine, Shut, Leaves
<1>8. p \in 0 .. Len(u)
  OBVIOUS
<1>9. Framed(u, s5, p, z)
  <2>1. \A k \in 1 .. p - 1 : k \in 1 .. p /\ ~IsMine(t, k)
    BY DEF Framed
  <2>2. \A k \in 1 .. p - 1 : ~IsMine(u, k)
    BY <1>7, <2>1
  <2>3. z \in p .. Len(u)
    OBVIOUS
  <2> QED BY <1>3, <1>4, <1>8, <2>2, <2>3 DEF Framed
<1>10. ASSUME z < Len(u) PROVE u[z + 1].is \in {"head", "title"} /\ Shut(u, z + 1)
  <2>1. q < Len(t) /\ u[z + 1] = t[q + 1]
    BY <1>10 DEF Leaves
  <2>2. u[z + 1].is \in {"head", "title"}
    BY <2>1 DEF Bounding
  <2>. DEFINE front == {k \in 1 .. p - 1 : u[k].is = "fence"}
              own == {k \in p + 1 .. z : u[k].is = "fence"}
  <2>3. IsFiniteSet(front) /\ IsFiniteSet(own)
    BY FencesAreFinite
  <2>4. u[p].is = "head"
    BY DEF Leaves, Bounding, IsMine
  <2>5. M!FencesBefore(u, z + 1) = front \cup own
    BY <2>4 DEF M!FencesBefore
  <2>6. front \cap own = {}
    OBVIOUS
  <2>7. ~M!Odd(own)
    BY <1>5 DEF M!Loose
  <2>8. ~M!Odd(front)
    <3>1. p \in 1 .. p + 1
      OBVIOUS
    <3>2. M!FencesBefore(u, p) = M!FencesBefore(t, p)
      BY <1>6, <3>1
    <3>3. front = M!FencesBefore(u, p)
      BY DEF M!FencesBefore
    <3>4. ~M!Odd(M!FencesBefore(t, p))
      BY DEF Bounding, IsMine, Shut
    <3>. HIDE DEF front
    <3> QED BY <3>2, <3>3, <3>4
  <2>. HIDE DEF front, own
  <2>10. ~M!Odd(front \cup own)
    BY <2>3, <2>6, <2>7, <2>8, EvenTogether
  <2>9. Shut(u, z + 1)
    BY <2>5, <2>10 DEF Shut
  <2> QED BY <2>2, <2>9
<1>11. IsMine(u, p)
  BY <1>7 DEF Bounding
<1> QED BY <1>9, <1>10, <1>11 DEF Bounding

\* Where the guard lets an edit through while the room is away.
LEMMA EditsInside ==
  ASSUME NEW t \in Seq(NoteLines), NEW p \in 1 .. Len(t), NEW q \in p .. Len(t),
         Framed(t, s5, p, q), Bounding(t, p, q), NEW ranges, M!offlineEditable(t, ranges)
  PROVE  \A r \in ranges : r.from >= 2 * p /\ \E e \in p .. q : r.to <= 2 * e
<1>1. M!Own(t) = {[at |-> p, end |-> M!SectionEnd(t, p), name |-> t[p].who]}
  BY OwnSection DEF Framed, Bounding
<1>2. M!SectionEnd(t, p) \in p .. q
  BY SectionStops
<1> QED BY <1>1, <1>2 DEF M!offlineEditable, M!EndOf

\* What an edit in the own section does is enough to know.
LEMMA Dispatched ==
  ASSUME s1 \in Seq(NoteLines), Around, NEW u \in Seq(NoteLines), NEW ranges, M!Dispatch(ranges, u),
         ASSUME NEW p \in 1 .. Len(s1), NEW q \in p .. Len(s1),
                Framed(s1, s5, p, q), Bounding(s1, p, q), ~M!Loose(u),
                \A r \in ranges : r.from >= 2 * p /\ \E e \in p .. q : r.to <= 2 * e
         PROVE  \E z \in p .. Len(u) : Leaves(s1, u, p, q, z)
  PROVE  ~s2' /\ ~s6' => HasFrame(s1', s5')
<1>1. s2' = s2 /\ s5' = s5
  BY DEF M!Dispatch
<1>. SUFFICES ASSUME ~s2, ~s6', M!offlineEditable(s1, ranges)
              PROVE  HasFrame(u, s5)
  <2>1. CASE s2
    BY <1>1, <2>1
  <2>2. CASE ~s2 /\ ~M!offlineEditable(s1, ranges)
    <3>1. s1' = s1 /\ s6' = s6
      BY <2>2 DEF M!Dispatch
    <3> QED BY <1>1, <2>2, <3>1 DEF Around
  <2>3. CASE ~s2 /\ M!offlineEditable(s1, ranges)
    <3>1. s1' = u
      BY <2>3 DEF M!Dispatch
    <3> QED BY <1>1, <2>3, <3>1
  <2> QED BY <2>1, <2>2, <2>3
<1>2. ~s6 /\ ~M!Loose(u)
  BY DEF M!Dispatch
<1>3. PICK p \in 0 .. Len(s1) : \E q \in p .. Len(s1) :
        /\ Framed(s1, s5, p, q)
        /\ Bounding(s1, p, q) \/ (p = Len(s1) /\ \A k \in DOMAIN s1 : ~IsMine(s1, k))
  BY <1>2 DEF Around, HasFrame
<1>10. PICK q \in p .. Len(s1) :
        /\ Framed(s1, s5, p, q)
        /\ Bounding(s1, p, q) \/ (p = Len(s1) /\ \A k \in DOMAIN s1 : ~IsMine(s1, k))
  BY <1>3
<1>4. Bounding(s1, p, q)
  BY <1>10, OwnSection DEF M!offlineEditable
<1>5. p \in 1 .. Len(s1)
  BY <1>4 DEF Bounding
<1>6. \A r \in ranges : r.from >= 2 * p /\ \E e \in p .. q : r.to <= 2 * e
  BY <1>10, <1>4, <1>5, EditsInside
<1>7. PICK z \in p .. Len(u) : Leaves(s1, u, p, q, z)
  BY <1>2, <1>10, <1>4, <1>5, <1>6
<1>8. Framed(u, s5, p, z) /\ Bounding(u, p, z)
  BY <1>2, <1>10, <1>4, <1>5, <1>7, Reframed
<1>9. p \in 0 .. Len(u)
  OBVIOUS
<1> QED BY <1>8, <1>9 DEF HasFrame

\* A line put in, and one taken out.
LEMMA LineInserted ==
  ASSUME NEW t \in Seq(NoteLines), NEW i \in 1 .. Len(t) + 1, NEW l \in NoteLines
  PROVE  LET u == M!InsertAt(t, i, l)
         IN /\ u \in Seq(NoteLines) /\ Len(u) = Len(t) + 1
            /\ \A k \in 1 .. i - 1 : u[k] = t[k]
            /\ u[i] = l
            /\ \A k \in i .. Len(t) : u[k + 1] = t[k]
<1>. DEFINE a == SubSeq(t, 1, i - 1)
            c == SubSeq(t, i, Len(t))
<1>1. a \in Seq(NoteLines) /\ Len(a) = i - 1 /\ \A k \in 1 .. i - 1 : a[k] = t[k]
  OBVIOUS
<1>2. c \in Seq(NoteLines) /\ Len(c) = Len(t) - i + 1 /\ \A k \in 1 .. Len(t) - i + 1 : c[k] = t[i + k - 1]
  OBVIOUS
<1>3. <<l>> \in Seq(NoteLines) /\ Len(<<l>>) = 1 /\ <<l>>[1] = l
  OBVIOUS
<1>. HIDE DEF a, c
<1>4. DEFINE u == a \o <<l>> \o c
<1>5. u \in Seq(NoteLines) /\ Len(u) = Len(t) + 1
  <2>1. a \o <<l>> \in Seq(NoteLines) /\ Len(a \o <<l>>) = Len(a) + 1
    BY <1>1, <1>3
  <2>4. c \in Seq(NoteLines)
    BY <1>2
  <2>5. a \o <<l>> \in Seq(NoteLines)
    BY <2>1
  <2>2. u \in Seq(NoteLines) /\ Len(u) = Len(a \o <<l>>) + Len(c)
    BY <2>4, <2>5
  <2>3. Len(t) \in Nat /\ i \in Nat /\ Len(a) = i - 1 /\ Len(c) = Len(t) - i + 1
    BY <1>1, <1>2
  <2>. HIDE DEF u
  <2> QED BY <2>1, <2>2, <2>3
<1>6. \A k \in 1 .. i - 1 : u[k] = t[k]
  BY <1>1, <1>2, <1>3
<1>7. u[i] = l
  BY <1>1, <1>2, <1>3
<1>8. ASSUME NEW k \in i .. Len(t) PROVE u[k + 1] = t[k]
  <2>1. k - i + 1 \in 1 .. Len(c) /\ i + (k - i + 1) - 1 = k
    BY <1>2
  <2>2. u[k + 1] = c[k - i + 1]
    BY <1>1, <1>2, <1>3, <2>1
  <2> QED BY <1>2, <2>1, <2>2
<1>9. M!InsertAt(t, i, l) = u
  BY DEF M!InsertAt, a, c
<1>. HIDE DEF u
<1> QED BY <1>5, <1>6, <1>7, <1>8, <1>9

LEMMA LineRemoved ==
  ASSUME NEW t \in Seq(NoteLines), NEW i \in 1 .. Len(t)
  PROVE  LET u == M!RemoveAt(t, i)
         IN /\ u \in Seq(NoteLines) /\ Len(u) = Len(t) - 1
            /\ \A k \in 1 .. i - 1 : u[k] = t[k]
            /\ \A k \in i .. Len(t) - 1 : u[k] = t[k + 1]
<1>. DEFINE a == SubSeq(t, 1, i - 1)
            c == SubSeq(t, i + 1, Len(t))
<1>1. a \in Seq(NoteLines) /\ Len(a) = i - 1 /\ \A k \in 1 .. i - 1 : a[k] = t[k]
  OBVIOUS
<1>2. c \in Seq(NoteLines) /\ Len(c) = Len(t) - i /\ \A k \in 1 .. Len(t) - i : c[k] = t[i + k]
  OBVIOUS
<1>. HIDE DEF a, c
<1>4. DEFINE u == a \o c
<1>5. u \in Seq(NoteLines) /\ Len(u) = Len(t) - 1
  <2>1. a \in Seq(NoteLines) /\ c \in Seq(NoteLines)
    BY <1>1, <1>2
  <2>2. u \in Seq(NoteLines) /\ Len(u) = Len(a) + Len(c)
    BY <2>1
  <2>3. Len(t) \in Nat /\ i \in Nat /\ Len(a) = i - 1 /\ Len(c) = Len(t) - i
    BY <1>1, <1>2
  <2>. HIDE DEF u
  <2> QED BY <2>2, <2>3
<1>6. \A k \in 1 .. i - 1 : u[k] = t[k]
  BY <1>1, <1>2
<1>8. ASSUME NEW k \in i .. Len(t) - 1 PROVE u[k] = t[k + 1]
  <2>1. k - i + 1 \in 1 .. Len(c) /\ i + (k - i + 1) = k + 1
    BY <1>2
  <2>2. u[k] = c[k - i + 1]
    BY <1>1, <1>2, <2>1
  <2> QED BY <1>2, <2>1, <2>2
<1>9. M!RemoveAt(t, i) = u
  BY DEF M!RemoveAt, a, c
<1>. HIDE DEF u
<1> QED BY <1>5, <1>6, <1>8, <1>9

\* The user's own lines are none of the others'.
LEMMA OwnAreOwn ==
  ASSUME NoteTyped, NEW p \in 1 .. Len(s1), NEW q \in p .. Len(s1), Framed(s1, s5, p, q)
  PROVE  /\ \A k \in p + 1 .. q : \A h \in s5 : s1[k].id # h.id
         /\ \A h \in s5 : h.id # 0
<1>1. ASSUME NEW k \in p + 1 .. q, NEW h \in s5 PROVE s1[k].id # h.id
  <2>1. PICK i \in Outside(s1, p, q) : h = s1[i]
    BY DEF Framed
  <2>2. k \in DOMAIN s1 /\ k # i
    BY <2>1 DEF Outside
  <2> QED BY <2>1, <2>2 DEF Framed
<1>2. \A h \in s5 : h.id # 0
  BY DEF NoteTyped
<1> QED BY <1>1, <1>2

NoteBounds == MaxLines \in Nat /\ MaxEdits \in Nat /\ MaxOthers \in Nat /\ Nobody \in NoteNames
LEMMA NoteBounded == NoteBounds
BY PagesSound DEF PagesSound, M!ConstantsSound, NoteBounds

\* What a transaction leaves.
LEMMA DispatchTyped ==
  ASSUME NoteTyped, NEW u \in Seq(NoteLines), NEW ranges, M!Dispatch(ranges, u), s3' \in BOOLEAN
  PROVE  NoteTyped'
<1>1. /\ s1 \in Seq(NoteLines) /\ Len(s1) <= MaxLines
      /\ s2 \in BOOLEAN /\ s4 \in BOOLEAN /\ s6 \in BOOLEAN /\ s7 \in 0 .. MaxEdits
  BY DEF NoteTyped, NoteLines
<1>2. M!Loose(u) \in BOOLEAN
  BY DEF M!Loose
<1>3. s1' \in Seq(NoteLines) /\ Len(s1') <= MaxLines
  BY <1>1 DEF M!Dispatch
<1>4. s4' \in BOOLEAN /\ s6' \in BOOLEAN /\ (s2 => s6' = FALSE)
  <2>1. CASE s2
    BY <1>1, <2>1 DEF M!Dispatch
  <2>2. CASE ~s2 /\ M!offlineEditable(s1, ranges)
    BY <1>1, <1>2, <2>2 DEF M!Dispatch
  <2>3. CASE ~s2 /\ ~M!offlineEditable(s1, ranges)
    BY <1>1, <2>3 DEF M!Dispatch
  <2> QED BY <2>1, <2>2, <2>3
<1>5. s7' \in 0 .. MaxEdits
  BY <1>1, NoteBounded DEF M!Dispatch, NoteBounds
<1>6. s2' = s2 /\ s5' = s5 /\ s8' = s8
  BY DEF M!Dispatch
<1> QED BY <1>1, <1>3, <1>4, <1>5, <1>6 DEF NoteTyped, NoteLines

\* A line that was not there when the room was lost.
LEMMA NewLines == \A l \in M!Lines : l \in NoteLines /\ l.id = 0
BY NoteBounded DEF NoteBounds, M!Lines, M!Line, NoteLines, M!Kinds

\* Each way of editing leaves what is around the own section.
LEMMA InsertLeaves ==
  ASSUME NoteTyped, NEW i \in DOMAIN s1, NEW l \in NoteLines, l.id = 0,
         NEW p \in 1 .. Len(s1), NEW q \in p .. Len(s1), Framed(s1, s5, p, q),
         M!At(M!EndOf(i)).from >= 2 * p, NEW e \in p .. q, M!At(M!EndOf(i)).to <= 2 * e
  PROVE  \E z \in p .. Len(M!InsertAt(s1, i + 1, l)) : Leaves(s1, M!InsertAt(s1, i + 1, l), p, q, z)
<1>. DEFINE u == M!InsertAt(s1, i + 1, l)
<1>1. s1 \in Seq(NoteLines)
  BY DEF NoteTyped, NoteLines
<1>2. p <= i /\ i <= q
  BY DEF M!At, M!EndOf
<1>3. /\ u \in Seq(NoteLines) /\ Len(u) = Len(s1) + 1
      /\ \A k \in 1 .. i : u[k] = s1[k]
      /\ u[i + 1] = l
      /\ \A k \in i + 1 .. Len(s1) : u[k + 1] = s1[k]
  <2>. DEFINE j == i + 1
  <2>1. j \in 1 .. Len(s1) + 1 /\ j - 1 = i
    BY <1>1
  <2>3. u = M!InsertAt(s1, j, l)
    OBVIOUS
  <2>. HIDE DEF u, j
  <2>2. /\ u \in Seq(NoteLines) /\ Len(u) = Len(s1) + 1
        /\ \A k \in 1 .. j - 1 : u[k] = s1[k]
        /\ u[j] = l
        /\ \A k \in j .. Len(s1) : u[k + 1] = s1[k]
    BY ONLY <1>1, <2>1, <2>3, LineInserted, ZenonT(60)
  <2> QED BY <2>1, <2>2 DEF j
<1>. HIDE DEF u
<1>4. q + 1 \in p .. Len(u) /\ Len(u) - (q + 1) = Len(s1) - q
  BY <1>1, <1>3
<1>5. \A k \in 1 .. p : u[k] = s1[k]
  BY <1>2, <1>3
<1>6. ASSUME NEW k \in 1 .. Len(s1) - q PROVE u[(q + 1) + k] = s1[q + k]
  <2>1. q + k \in i + 1 .. Len(s1) /\ (q + k) + 1 = (q + 1) + k
    BY <1>1, <1>2
  <2> QED BY <1>3, <2>1
<1>7. ASSUME NEW k \in p + 1 .. q + 1, NEW h \in s5 PROVE u[k].id # h.id
  <2>1. CASE k <= i
    BY <1>2, <1>3, <2>1, OwnAreOwn
  <2>2. CASE k = i + 1
    BY <1>3, <2>2, OwnAreOwn
  <2>3. CASE k > i + 1
    <3>1. k - 1 \in i + 1 .. Len(s1) /\ k - 1 \in p + 1 .. q /\ (k - 1) + 1 = k
      BY <1>1, <1>2, <2>3
    <3>2. u[k] = s1[k - 1]
      BY <1>3, <3>1
    <3> QED BY <3>1, <3>2, OwnAreOwn
  <2> QED BY <1>1, <2>1, <2>2, <2>3
<1>8. Leaves(s1, u, p, q, q + 1)
  BY <1>4, <1>5, <1>6, <1>7 DEF Leaves
<1>9. \E z \in p .. Len(u) : Leaves(s1, u, p, q, z)
  BY <1>4, <1>8
<1> QED BY <1>9 DEF u

LEMMA ReplaceLeaves ==
  ASSUME NoteTyped, NEW i \in DOMAIN s1, NEW l \in NoteLines,
         NEW p \in 1 .. Len(s1), NEW q \in p .. Len(s1), Framed(s1, s5, p, q),
         p < i, i <= q, l.id \in {0, s1[i].id}
  PROVE  Leaves(s1, [s1 EXCEPT ![i] = l], p, q, q)
<1>1. s1 \in Seq(NoteLines)
  BY DEF NoteTyped, NoteLines
<1>. DEFINE u == [s1 EXCEPT ![i] = l]
<1>2. Len(u) = Len(s1) /\ DOMAIN u = DOMAIN s1 /\ u[i] = l /\ \A k \in DOMAIN s1 : k # i => u[k] = s1[k]
  BY <1>1
<1>. HIDE DEF u
<1>3. \A k \in 1 .. p : u[k] = s1[k]
  BY <1>1, <1>2
<1>4. \A k \in 1 .. Len(s1) - q : u[q + k] = s1[q + k]
  BY <1>1, <1>2
<1>5. ASSUME NEW k \in p + 1 .. q, NEW h \in s5 PROVE u[k].id # h.id
  <2>1. k \in DOMAIN s1
    BY <1>1
  <2>2. s1[k].id # h.id /\ h.id # 0
    BY OwnAreOwn
  <2> QED BY <1>2, <2>1, <2>2
<1>6. Leaves(s1, u, p, q, q)
  BY <1>2, <1>3, <1>4, <1>5 DEF Leaves
<1> QED BY <1>6 DEF u

\* What the invariant is, of the note.
NoteInv == NoteTyped /\ Around

\* A transaction that is shown to leave the frame keeps the invariant.
LEMMA DispatchKeeps ==
  ASSUME NoteInv, NEW u \in Seq(NoteLines), NEW ranges, M!Dispatch(ranges, u), s3' \in BOOLEAN,
         ASSUME NEW p \in 1 .. Len(s1), NEW q \in p .. Len(s1),
                Framed(s1, s5, p, q), Bounding(s1, p, q), ~M!Loose(u),
                \A r \in ranges : r.from >= 2 * p /\ \E e \in p .. q : r.to <= 2 * e
         PROVE  \E z \in p .. Len(u) : Leaves(s1, u, p, q, z)
  PROVE  NoteInv'
<1>1. s1 \in Seq(NoteLines)
  BY DEF NoteInv, NoteTyped, NoteLines
<1>2. NoteTyped'
  BY DispatchTyped DEF NoteInv
<1>3. ~s2' /\ ~s6' => HasFrame(s1', s5')
  BY <1>1, Dispatched DEF NoteInv
<1> QED BY <1>2, <1>3, AroundNext DEF NoteInv

\* A line put in anywhere the guard allows.
LEMMA InsertKeeps ==
  ASSUME NoteInv, NEW i \in DOMAIN s1, NEW l \in NoteLines, l.id = 0, s3' \in BOOLEAN,
         M!Dispatch({M!At(M!EndOf(i))}, M!InsertAt(s1, i + 1, l))
  PROVE  NoteInv'
<1>. DEFINE u == M!InsertAt(s1, i + 1, l)
            ranges == {M!At(M!EndOf(i))}
<1>1. s1 \in Seq(NoteLines)
  BY DEF NoteInv, NoteTyped, NoteLines
<1>2. u \in Seq(NoteLines)
  <2>1. i + 1 \in 1 .. Len(s1) + 1
    BY <1>1
  <2> QED BY <1>1, <2>1, LineInserted
<1>3. ASSUME NEW p \in 1 .. Len(s1), NEW q \in p .. Len(s1), Framed(s1, s5, p, q),
             \A r \in ranges : r.from >= 2 * p /\ \E e \in p .. q : r.to <= 2 * e
      PROVE  \E z \in p .. Len(u) : Leaves(s1, u, p, q, z)
  BY <1>3, InsertLeaves DEF NoteInv
<1>. HIDE DEF u, ranges
<1>4. M!Dispatch(ranges, u)
  BY DEF u, ranges
<1> QED BY <1>2, <1>3, <1>4, DispatchKeeps

\* A line that becomes another.
LEMMA ReplaceKeeps ==
  ASSUME NoteInv, NEW i \in DOMAIN s1, NEW l \in NoteLines, l.id = 0, s3' \in BOOLEAN,
         M!Dispatch({M!Span(M!StartOf(i), M!EndOf(i))}, M!ReplaceAt(s1, i, l))
  PROVE  NoteInv'
<1>. DEFINE u == [s1 EXCEPT ![i] = l]
            ranges == {M!Span(M!StartOf(i), M!EndOf(i))}
<1>1. s1 \in Seq(NoteLines)
  BY DEF NoteInv, NoteTyped, NoteLines
<1>2. u \in Seq(NoteLines) /\ Len(u) = Len(s1)
  BY <1>1
<1>3. ASSUME NEW p \in 1 .. Len(s1), NEW q \in p .. Len(s1), Framed(s1, s5, p, q),
             \A r \in ranges : r.from >= 2 * p /\ \E e \in p .. q : r.to <= 2 * e
      PROVE  \E z \in p .. Len(u) : Leaves(s1, u, p, q, z)
  <2>1. p < i /\ i <= q
    BY <1>1, <1>3 DEF M!Span, M!StartOf, M!EndOf
  <2>2. Leaves(s1, u, p, q, q)
    BY <1>3, <2>1, ReplaceLeaves DEF NoteInv
  <2>3. q \in p .. Len(u)
    BY <1>2
  <2>. HIDE DEF u
  <2> QED BY <2>2, <2>3
<1>4. M!Dispatch(ranges, u)
  BY DEF M!ReplaceAt
<1>. HIDE DEF u, ranges
<1> QED BY <1>2, <1>3, <1>4, DispatchKeeps

\* Typing at the end of a heading: at that of the own section, it is loose.
LEMMA HeadingKeeps == ASSUME NoteInv, M!TypeAtHeading PROVE NoteInv'
<1>1. s1 \in Seq(NoteLines)
  BY DEF NoteInv, NoteTyped, NoteLines
<1>2. PICK i \in DOMAIN s1 :
        /\ s1[i].is = "head" /\ s1[i].who # Nobody
        /\ M!Dispatch({M!At(M!EndOf(i))}, [s1 EXCEPT ![i].who = Nobody]) /\ s3' = s3
  BY DEF M!TypeAtHeading
<1>. DEFINE l == [s1[i] EXCEPT !.who = Nobody]
            u == [s1 EXCEPT ![i] = l]
            ranges == {M!At(M!EndOf(i))}
<1>3. l \in NoteLines /\ l.id = s1[i].id /\ l.who = Nobody
  <2>1. s1[i] \in NoteLines
    BY <1>1
  <2> QED BY <2>1, NoteBounded DEF NoteLines, NoteBounds
<1>4. u \in Seq(NoteLines) /\ Len(u) = Len(s1) /\ u[i] = l
  <2>. HIDE DEF l
  <2> QED BY <1>1, <1>3
<1>5. M!Dispatch(ranges, u)
  BY <1>2
<1>6. ASSUME NEW p \in 1 .. Len(s1), NEW q \in p .. Len(s1), Framed(s1, s5, p, q), ~M!Loose(u),
             \A r \in ranges : r.from >= 2 * p /\ \E e \in p .. q : r.to <= 2 * e
      PROVE  \E z \in p .. Len(u) : Leaves(s1, u, p, q, z)
  <2>1. p <= i /\ i <= q
    BY <1>1, <1>6 DEF M!At, M!EndOf
  <2>2. i # p
    <3>1. SUFFICES ASSUME i = p PROVE FALSE
      OBVIOUS
    <3>2. s1[i] \in s5
      BY <1>1, <1>6, <3>1 DEF Framed, Outside
    <3>3. i \in DOMAIN u
      BY <1>4
    <3>. HIDE DEF u, l
    <3> QED BY <1>2, <1>3, <1>4, <1>6, <3>2, <3>3 DEF M!Loose
  <2>3. Leaves(s1, u, p, q, q)
    <3>. HIDE DEF l
    <3> QED BY <1>1, <1>3, <1>6, <2>1, <2>2, ReplaceLeaves DEF NoteInv
  <2>4. q \in p .. Len(u)
    BY <1>4
  <2>. HIDE DEF u
  <2> QED BY <2>3, <2>4
<1>7. s3' \in BOOLEAN
  BY <1>2 DEF NoteInv, NoteTyped
<1>. HIDE DEF u, ranges, l
<1> QED BY <1>4, <1>5, <1>6, <1>7, DispatchKeeps

\* One line or two cut out of the own section.
LEMMA CutLeaves ==
  ASSUME NEW t \in Seq(NoteLines), NEW p \in 1 .. Len(t), NEW q \in p .. Len(t), NEW i \in p + 1 .. q,
         \A k \in p + 1 .. q : \A h \in s5 : t[k].id # h.id
  PROVE  LET u == M!RemoveAt(t, i)
         IN /\ u \in Seq(NoteLines) /\ q - 1 \in p .. Len(u) /\ p \in 1 .. Len(u)
            /\ Leaves(t, u, p, q, q - 1)
<1>. DEFINE u == M!RemoveAt(t, i)
<1>1. /\ u \in Seq(NoteLines) /\ Len(u) = Len(t) - 1
      /\ \A k \in 1 .. i - 1 : u[k] = t[k]
      /\ \A k \in i .. Len(t) - 1 : u[k] = t[k + 1]
  <2>1. i \in 1 .. Len(t)
    OBVIOUS
  <2> QED BY <2>1, LineRemoved
<1>. HIDE DEF u
<1>2. \A k \in 1 .. p : u[k] = t[k]
  BY <1>1
<1>3. ASSUME NEW k \in 1 .. Len(t) - q PROVE u[(q - 1) + k] = t[q + k]
  <2>1. (q - 1) + k \in i .. Len(t) - 1 /\ ((q - 1) + k) + 1 = q + k
    OBVIOUS
  <2> QED BY <1>1, <2>1
<1>4. ASSUME NEW k \in p + 1 .. q - 1, NEW h \in s5 PROVE u[k].id # h.id
  <2>1. CASE k < i
    BY <1>1, <2>1
  <2>2. CASE k >= i
    <3>1. k \in i .. Len(t) - 1 /\ k + 1 \in p + 1 .. q
      BY <2>2
    <3> QED BY <1>1, <3>1, SMTT(30)
  <2> QED BY <2>1, <2>2
<1>5. q - 1 \in p .. Len(u) /\ p \in 1 .. Len(u) /\ Len(u) - (q - 1) = Len(t) - q
  BY <1>1
<1>6. Leaves(t, u, p, q, q - 1)
  BY <1>2, <1>3, <1>4, <1>5 DEF Leaves
<1> QED BY <1>1, <1>5, <1>6 DEF u

LEMMA CutKeeps == ASSUME NoteInv, M!Cut PROVE NoteInv'
<1>1. s1 \in Seq(NoteLines)
  BY DEF NoteInv, NoteTyped, NoteLines
<1>2. PICK i \in DOMAIN s1, j \in DOMAIN s1 :
        /\ 1 < i /\ i <= j
        /\ M!Dispatch({M!Span(M!EndOf(k - 1), M!EndOf(k)) : k \in {i, j}},
                      M!RemoveAt(IF i = j THEN s1 ELSE M!RemoveAt(s1, j), i))
        /\ s3' = s3
  BY DEF M!Cut
<1>. DEFINE v == M!RemoveAt(s1, j)
            u == IF i = j THEN M!RemoveAt(s1, i) ELSE M!RemoveAt(v, i)
            ranges == {M!Span(M!EndOf(k - 1), M!EndOf(k)) : k \in {i, j}}
<1>3. v \in Seq(NoteLines) /\ Len(v) = Len(s1) - 1
  BY <1>1, LineRemoved
<1>. HIDE DEF v
<1>4. u \in Seq(NoteLines)
  <2>1. CASE i = j
    BY <1>1, <2>1, LineRemoved
  <2>2. CASE i # j
    <3>1. i \in 1 .. Len(v)
      BY <1>1, <1>2, <1>3, <2>2
    <3>2. M!RemoveAt(v, i) \in Seq(NoteLines)
      BY <1>3, <3>1, LineRemoved
    <3> QED BY <2>2, <3>2
  <2> QED BY <2>1, <2>2
<1>5. M!Dispatch(ranges, u)
  BY <1>2 DEF v
<1>6. ASSUME NEW p \in 1 .. Len(s1), NEW q \in p .. Len(s1), Framed(s1, s5, p, q),
             \A r \in ranges : r.from >= 2 * p /\ \E e \in p .. q : r.to <= 2 * e
      PROVE  \E z \in p .. Len(u) : Leaves(s1, u, p, q, z)
  <2>1. i \in p + 1 .. q /\ j \in p + 1 .. q
    <3>1. ASSUME NEW k \in {i, j} PROVE k \in p + 1 .. q
      <4>1. M!Span(M!EndOf(k - 1), M!EndOf(k)) \in ranges /\ k \in DOMAIN s1
        OBVIOUS
      <4>. HIDE DEF ranges
      <4>2. 2 * (k - 1) >= 2 * p /\ \E e \in p .. q : 2 * k <= 2 * e
        BY <1>6, <4>1 DEF M!Span, M!EndOf
      <4> QED BY <1>1, <4>1, <4>2
    <3> QED BY <3>1
  <2>2. \A k \in p + 1 .. q : \A h \in s5 : s1[k].id # h.id
    BY <1>6, OwnAreOwn DEF NoteInv
  <2>3. CASE i = j
    <3>1. q - 1 \in p .. Len(u) /\ Leaves(s1, u, p, q, q - 1)
      BY <1>1, <2>1, <2>2, <2>3, CutLeaves
    <3>. HIDE DEF u
    <3> QED BY <3>1
  <2>4. CASE i # j
    <3>1. q - 1 \in p .. Len(v) /\ p \in 1 .. Len(v) /\ Leaves(s1, v, p, q, q - 1)
      BY <1>1, <2>1, <2>2, CutLeaves DEF v
    <3>2. i \in p + 1 .. q - 1
      BY <1>2, <2>1, <2>4
    <3>3. \A k \in p + 1 .. q - 1 : \A h \in s5 : v[k].id # h.id
      BY <3>1 DEF Leaves
    <3>. DEFINE w == M!RemoveAt(v, i)
                m == q - 1
    <3>4. m - 1 \in p .. Len(w) /\ Leaves(v, w, p, m, m - 1)
      <4>. HIDE DEF m
      <4>1. m \in p .. Len(v) /\ i \in p + 1 .. m /\ \A k \in p + 1 .. m : \A h \in s5 : v[k].id # h.id
        BY <3>1, <3>2, <3>3 DEF m
      <4> QED BY <1>3, <3>1, <4>1, CutLeaves
    <3>5. u = w
      BY <2>4
    <3>. HIDE DEF u, w
    <3>6. Leaves(s1, w, p, q, m - 1)
      <4>1. Len(w) - (m - 1) = Len(s1) - q /\ Len(v) - m = Len(s1) - q
        BY <3>1, <3>4 DEF Leaves
      <4>2. \A k \in 1 .. p : w[k] = s1[k]
        BY <3>1, <3>4 DEF Leaves
      <4>3. \A k \in 1 .. Len(s1) - q : w[(m - 1) + k] = s1[q + k]
        BY <3>1, <3>4, <4>1 DEF Leaves
      <4>4. \A k \in p + 1 .. m - 1 : \A h \in s5 : w[k].id # h.id
        BY <3>4 DEF Leaves
      <4> QED BY <4>1, <4>2, <4>3, <4>4 DEF Leaves
    <3> QED BY <3>4, <3>5, <3>6
  <2> QED BY <2>3, <2>4
<1>7. s3' \in BOOLEAN
  BY <1>2 DEF NoteInv, NoteTyped
<1>. HIDE DEF u, ranges
<1> QED BY <1>4, <1>5, <1>6, <1>7, DispatchKeeps

\* Typing and carrying over keep the invariant.
LEMMA TypingKeeps ==
  ASSUME NoteInv, M!NewLine \/ M!Retype \/ M!Carry \/ M!Carried
  PROVE  NoteInv'
<1>1. s1 \in Seq(NoteLines) /\ s3 \in BOOLEAN
  BY DEF NoteInv, NoteTyped, NoteLines
<1>2. CASE M!NewLine
  <2>1. PICK i \in DOMAIN s1, l \in M!Lines :
          M!Dispatch({M!At(M!EndOf(i))}, M!InsertAt(s1, i + 1, l)) /\ s3' = s3
    BY <1>2 DEF M!NewLine
  <2>2. l \in NoteLines /\ l.id = 0
    BY NewLines
  <2> QED BY <1>1, <2>1, <2>2, InsertKeeps
<1>3. CASE M!Retype
  <2>1. PICK i \in DOMAIN s1, l \in M!Lines :
          M!Dispatch({M!Span(M!StartOf(i), M!EndOf(i))}, M!ReplaceAt(s1, i, l)) /\ s3' = s3
    BY <1>3 DEF M!Retype
  <2>2. l \in NoteLines /\ l.id = 0
    BY NewLines
  <2> QED BY <1>1, <2>1, <2>2, ReplaceKeeps
<1>4. CASE M!Carry
  <2>1. PICK i \in DOMAIN s1 : M!Dispatch({M!At(M!EndOf(i))}, s1)
    BY <1>4 DEF M!Carry
  <2>2. s3' \in BOOLEAN
    BY <1>4 DEF M!Carry
  <2>3. ASSUME NEW p \in 1 .. Len(s1), NEW q \in p .. Len(s1), Framed(s1, s5, p, q)
        PROVE  \E z \in p .. Len(s1) : Leaves(s1, s1, p, q, z)
    <3>1. Leaves(s1, s1, p, q, q)
      BY <1>1, <2>3, OwnAreOwn DEF Leaves, NoteInv
    <3> QED BY <3>1
  <2> QED BY <1>1, <2>1, <2>2, <2>3, DispatchKeeps
<1>5. CASE M!Carried
  <2>. DEFINE l == M!Line("text", Nobody)
  <2>1. l \in NoteLines /\ l.id = 0
    BY NoteBounded DEF NoteBounds, M!Line, NoteLines, M!Kinds
  <2>. HIDE DEF l
  <2>2. s3' \in BOOLEAN
    BY <1>5 DEF M!Carried
  <2>3. CASE \E i \in DOMAIN s1 :
               IF s1[i].is = "blank"
                 THEN M!Dispatch({M!Span(M!StartOf(i), M!EndOf(i))}, M!ReplaceAt(s1, i, l))
                 ELSE M!Dispatch({M!At(M!EndOf(i))}, M!InsertAt(s1, i + 1, l))
    BY <2>1, <2>2, <2>3, InsertKeeps, ReplaceKeeps
  <2>4. CASE UNCHANGED <<s1, s2, s4, s5, s6, M!histVars, s7, s8>>
    <3>1. NoteTyped'
      BY <2>2, <2>4 DEF NoteInv, NoteTyped
    <3>2. ~s2' /\ ~s6' => HasFrame(s1', s5')
      BY <2>4 DEF NoteInv, Around
    <3> QED BY <3>1, <3>2, AroundNext DEF NoteInv
  <2> QED BY <1>5, <2>3, <2>4 DEF M!Carried, l
<1> QED BY <1>2, <1>3, <1>4, <1>5

\* A section ends before a heading or with the note.
LEMMA SectionEnds ==
  ASSUME NEW t \in Seq(NoteLines), NEW p \in 1 .. Len(t)
  PROVE  /\ M!SectionEnd(t, p) \in p .. Len(t)
         /\ M!SectionEnd(t, p) < Len(t) => M!Heading(t, M!SectionEnd(t, p) + 1)
<1> DEFINE next == {k \in (p + 1) .. Len(t) : M!Heading(t, k)}
<1>1. CASE next = {}
  BY <1>1 DEF M!SectionEnd
<1>2. CASE next # {}
  <2>1. PICK k \in next : \A y \in next : k <= y
    <3>1. next \subseteq Nat
      OBVIOUS
    <3> HIDE DEF next
    <3> QED BY <1>2, <3>1, LeastIn
  <2>2. (CHOOSE x \in next : \A y \in next : x <= y) = k
    <3>1. \A x \in next : (\A y \in next : x <= y) => x = k
      BY <2>1
    <3> HIDE DEF next
    <3> QED BY <2>1, <3>1
  <2>3. M!SectionEnd(t, p) = k - 1
    BY <1>2, <2>2 DEF M!SectionEnd
  <2>4. k \in p + 1 .. Len(t) /\ M!Heading(t, k) /\ (k - 1) + 1 = k
    OBVIOUS
  <2> QED BY <2>3, <2>4
<1> QED BY <1>1, <1>2

\* Losing the room frames what is outside the own section.
LEMMA DropKeeps == ASSUME NoteInv, M!Drop PROVE NoteInv'
<1>. DEFINE u == [i \in DOMAIN s1 |-> [s1[i] EXCEPT !.id = i]]
            body == UNION {(x.at + 1) .. x.end : x \in M!Own(s1)}
<1>1. s1 \in Seq(NoteLines) /\ Len(s1) <= MaxLines /\ MaxLines \in Nat
  BY NoteBounded DEF NoteInv, NoteTyped, NoteLines, NoteBounds
<1>2. /\ s1' = u /\ s2' = FALSE /\ s6' = FALSE
      /\ s5' = {u[i] : i \in DOMAIN s1 \ body}
      /\ UNCHANGED <<s3, s4, s7, s8>>
  BY DEF M!Drop
<1>3. \A i \in DOMAIN s1 : s1[i] \in NoteLines
  BY <1>1
<1>4. \A i \in DOMAIN s1 : /\ u[i] \in [id : 1 .. MaxLines, is : M!Kinds, who : NoteNames]
                           /\ u[i].id = i /\ u[i].is = s1[i].is /\ u[i].who = s1[i].who
  BY <1>1, <1>3 DEF NoteLines
<1>5. u \in Seq(NoteLines) /\ Len(u) = Len(s1) /\ DOMAIN u = DOMAIN s1
  <2>1. \A i \in DOMAIN s1 : u[i] \in NoteLines
    <3>. HIDE DEF u
    <3> QED BY <1>1, <1>4 DEF NoteLines
  <2>2. DOMAIN s1 = 1 .. Len(s1) /\ Len(s1) \in Nat
    BY <1>1
  <2>3. u \in [1 .. Len(s1) -> NoteLines]
    BY <2>1, <2>2
  <2> QED BY <2>2, <2>3
<1>. HIDE DEF u
<1>6. \A k \in 1 .. Len(s1) + 1 : Shut(u, k) <=> Shut(s1, k)
  <2>1. \A k \in 1 .. Len(s1) + 1 : M!FencesBefore(u, k) = M!FencesBefore(s1, k)
    BY <1>1, <1>4 DEF M!FencesBefore
  <2> QED BY <2>1 DEF Shut
<1>7. \A k \in DOMAIN s1 : IsMine(u, k) <=> IsMine(s1, k)
  BY <1>1, <1>4, <1>6 DEF IsMine
<1>8. NoteTyped'
  <2>1. s5' \subseteq [id : 1 .. MaxLines, is : M!Kinds, who : NoteNames]
    BY <1>2, <1>4
  <2> QED BY <1>1, <1>2, <1>5, <2>1 DEF NoteInv, NoteTyped, NoteLines
<1>9. HasFrame(u, s5')
  <2>1. CASE \A k \in DOMAIN s1 : ~IsMine(s1, k)
    <3>1. body = {}
      BY <1>1, <2>1, OwnSection
    <3>2. Outside(u, Len(u), Len(u)) = DOMAIN s1
      BY <1>1, <1>5 DEF Outside
    <3>3. Framed(u, s5', Len(u), Len(u))
      <4>1. \A k \in 1 .. Len(u) - 1 : ~IsMine(u, k)
        BY <1>1, <1>5, <1>7, <2>1
      <4>2. Len(u) \in 0 .. Len(u) /\ Len(u) \in Len(u) .. Len(u)
        BY <1>5
      <4>3. s5' = {u[i] : i \in Outside(u, Len(u), Len(u))}
        BY <1>2, <3>1, <3>2
      <4>4. \A i \in Outside(u, Len(u), Len(u)), k \in DOMAIN u : u[i].id = u[k].id => i = k
        BY <1>4, <1>5, <3>2
      <4> QED BY <4>1, <4>2, <4>3, <4>4 DEF Framed
    <3>4. \A k \in DOMAIN u : ~IsMine(u, k)
      BY <1>5, <1>7, <2>1
    <3>5. Len(u) \in 0 .. Len(u) /\ Len(u) \in Len(u) .. Len(u)
      BY <1>5
    <3> QED BY <3>3, <3>4, <3>5 DEF HasFrame
  <2>2. CASE \E k \in DOMAIN s1 : IsMine(s1, k)
    <3>. DEFINE ns == {k \in DOMAIN s1 : IsMine(s1, k)}
    <3>1. PICK p \in ns : \A y \in ns : p <= y
      <4>1. ns \in SUBSET Nat /\ ns # {}
        BY <1>1, <2>2
      <4>. HIDE DEF ns
      <4> QED BY <4>1, LeastIn
    <3>2. p \in 1 .. Len(s1) /\ IsMine(s1, p)
      BY <1>1
    <3>3. \A k \in 1 .. p - 1 : ~IsMine(s1, k)
      <4>1. SUFFICES ASSUME NEW k \in 1 .. p - 1, IsMine(s1, k) PROVE FALSE
        OBVIOUS
      <4>2. k \in ns /\ k < p
        BY <1>1, <3>2, <4>1
      <4> QED BY <3>1, <3>2, <4>2
    <3>. DEFINE q == M!SectionEnd(s1, p)
    <3>4. q \in p .. Len(s1) /\ (q < Len(s1) => M!Heading(s1, q + 1))
      BY <1>1, <3>2, SectionEnds
    <3>5. M!Own(s1) = {[at |-> p, end |-> q, name |-> s1[p].who]}
      BY <1>1, <3>2, <3>3, OwnSection
    <3>. HIDE DEF q, ns
    <3>6. body = (p + 1) .. q
      BY <3>5
    <3>7. DOMAIN s1 \ body = Outside(u, p, q)
      BY <1>1, <1>5, <3>2, <3>4, <3>6 DEF Outside
    <3>8. Framed(u, s5', p, q)
      <4>1. \A k \in 1 .. p - 1 : ~IsMine(u, k)
        BY <1>1, <1>7, <3>2, <3>3
      <4>2. p \in 0 .. Len(u) /\ q \in p .. Len(u)
        BY <1>5, <3>2, <3>4
      <4>3. s5' = {u[i] : i \in Outside(u, p, q)}
        BY <1>2, <3>7
      <4>4. \A i \in Outside(u, p, q), k \in DOMAIN u : u[i].id = u[k].id => i = k
        BY <1>4, <1>5 DEF Outside
      <4> QED BY <4>1, <4>2, <4>3, <4>4 DEF Framed
    <3>9. Bounding(u, p, q)
      <4>1. p > 0 /\ IsMine(u, p)
        BY <1>1, <1>7, <3>2
      <4>2. ASSUME q < Len(u) PROVE u[q + 1].is \in {"head", "title"} /\ Shut(u, q + 1)
        <5>1. M!Heading(s1, q + 1) /\ q + 1 \in DOMAIN s1
          BY <1>1, <1>5, <3>2, <3>4, <4>2
        <5>2. s1[q + 1].is \in {"head", "title"} /\ Shut(s1, q + 1)
          BY <5>1 DEF M!Heading, Shut
        <5> QED BY <1>1, <1>4, <1>6, <5>1, <5>2
      <4> QED BY <4>1, <4>2 DEF Bounding
    <3>10. p \in 0 .. Len(u) /\ q \in p .. Len(u)
      BY <1>5, <3>2, <3>4
    <3> QED BY <3>8, <3>9, <3>10 DEF HasFrame
  <2> QED BY <2>1, <2>2
<1>10. ~s2' /\ ~s6' => HasFrame(s1', s5')
  BY <1>2, <1>9
<1> QED BY <1>8, <1>10, AroundNext DEF NoteInv

\* While the room is live nothing is claimed of the note.
LEMMA RoomKeeps == ASSUME NoteInv, M!Reconnect \/ M!Remote PROVE NoteInv'
<1>1. s1 \in Seq(NoteLines) /\ Len(s1) <= MaxLines
  BY DEF NoteInv, NoteTyped, NoteLines
<1>2. CASE M!Reconnect
  <2>. DEFINE u == [i \in DOMAIN s1 |-> [s1[i] EXCEPT !.id = 0]]
  <2>1. u \in Seq(NoteLines) /\ Len(u) = Len(s1)
    <3>1. \A i \in DOMAIN s1 : s1[i] \in NoteLines
      BY <1>1
    <3>2. \A i \in DOMAIN s1 : u[i] \in NoteLines
      BY <3>1, NoteBounded DEF NoteLines, NoteBounds
    <3>3. DOMAIN s1 = 1 .. Len(s1) /\ Len(s1) \in Nat
      BY <1>1
    <3>4. u \in [1 .. Len(s1) -> NoteLines]
      BY <3>2, <3>3
    <3> QED BY <3>3, <3>4
  <2>2. s1' = u /\ s2' = TRUE /\ s5' = {} /\ s6' = FALSE /\ UNCHANGED <<s3, s4, s7, s8>>
    BY <1>2 DEF M!Reconnect, M!Unnumbered
  <2>. HIDE DEF u
  <2>3. NoteTyped'
    BY <1>1, <2>1, <2>2 DEF NoteInv, NoteTyped, NoteLines
  <2> QED BY <2>2, <2>3, AroundNext DEF NoteInv
<1>3. CASE M!Remote
  <2>1. s1' \in Seq(NoteLines) /\ Len(s1') <= MaxLines
    <3>1. PICK i \in DOMAIN s1 :
            \/ \E l \in M!Lines : Len(s1) < MaxLines /\ s1' = M!InsertAt(s1, i + 1, l)
            \/ i > 1 /\ s1' = M!RemoveAt(s1, i)
      BY <1>3 DEF M!Remote
    <3>2. i \in 1 .. Len(s1) /\ i + 1 \in 1 .. Len(s1) + 1
      BY <1>1
    <3>3. CASE \E l \in M!Lines : Len(s1) < MaxLines /\ s1' = M!InsertAt(s1, i + 1, l)
      <4>1. PICK l \in M!Lines : Len(s1) < MaxLines /\ s1' = M!InsertAt(s1, i + 1, l)
        BY <3>3
      <4>2. s1' \in Seq(NoteLines) /\ Len(s1') = Len(s1) + 1
        BY <1>1, <3>2, <4>1, NewLines, LineInserted
      <4> QED BY <1>1, <4>1, <4>2, NoteBounded DEF NoteBounds
    <3>4. CASE s1' = M!RemoveAt(s1, i)
      <4>1. s1' \in Seq(NoteLines) /\ Len(s1') = Len(s1) - 1
        BY <1>1, <3>2, <3>4, LineRemoved
      <4> QED BY <1>1, <4>1, NoteBounded DEF NoteBounds
    <3> QED BY <3>1, <3>3, <3>4
  <2>2. s2 /\ s8' \in 0 .. MaxOthers /\ UNCHANGED <<s2, s3, s4, s5, s6, s7>>
    BY <1>3, NoteBounded DEF NoteInv, NoteTyped, M!Remote, NoteBounds
  <2>3. NoteTyped'
    BY <2>1, <2>2 DEF NoteInv, NoteTyped, NoteLines
  <2> QED BY <2>2, <2>3, AroundNext DEF NoteInv
<1> QED BY <1>2, <1>3

LEMMA NoteStarted == ASSUME M!Init PROVE NoteInv
<1>1. s1 \in NoteStarts /\ s2 = TRUE /\ s3 = FALSE /\ s4 = FALSE /\ s5 = {} /\ s6 = FALSE /\ s7 = 0 /\ s8 = 0
  BY DEF M!Init
<1>2. s1 \in Seq([id : {0}, is : M!Kinds, who : NoteNames]) /\ Len(s1) <= MaxLines
  BY <1>1, PagesSound DEF PagesSound, M!ConstantsSound
<1>3. s1 \in Seq(NoteLines)
  <2>1. \A i \in DOMAIN s1 : s1[i] \in NoteLines
    <3>. DEFINE L0 == [id : {0}, is : M!Kinds, who : NoteNames]
    <3>2. s1 \in Seq(L0)
      BY <1>2
    <3>3. \A i \in DOMAIN s1 : s1[i] \in L0
      <4>. HIDE DEF L0
      <4> QED BY <3>2
    <3>1. \A i \in DOMAIN s1 : s1[i] \in [id : {0}, is : M!Kinds, who : NoteNames]
      BY <3>3
    <3> QED BY <3>1, NoteBounded DEF NoteLines, NoteBounds
  <2>2. s1 \in [1 .. Len(s1) -> NoteLines] /\ Len(s1) \in Nat
    BY <1>2, <2>1
  <2> QED BY <2>2
<1>4. NoteTyped
  <2>1. s1 \in Seq(NoteLines) /\ Len(s1) <= MaxLines
    BY <1>2, <1>3
  <2>2. /\ s5 \subseteq [id : 1 .. MaxLines, is : M!Kinds, who : NoteNames]
        /\ s2 \in BOOLEAN /\ s3 \in BOOLEAN /\ s6 \in BOOLEAN /\ s4 \in BOOLEAN
        /\ (s2 => s5 = {} /\ ~s6)
    BY <1>1
  <2>3. s7 \in 0 .. MaxEdits /\ s8 \in 0 .. MaxOthers
    BY <1>1, NoteBounded DEF NoteBounds
  <2> QED BY <2>1, <2>2, <2>3 DEF NoteTyped
<1> QED BY <1>1, <1>4 DEF NoteInv, Around

\* What the editor's history holds: texts, and while nothing is loose those of since
\* the loss are framed as the note is.
NoteTexts == {t \in Seq(NoteLines) : Len(t) <= MaxLines}
NoteChanges == [text : NoteTexts, since : BOOLEAN]
Remembers(h, on, lines) ==
  /\ h \in Seq(NoteChanges)
  /\ \A i \in 1 .. Len(h) : on /\ h[i].since => HasFrame(h[i].text, lines)
HistInv == Remembers(s9, ~s2 /\ ~s6, s5) /\ Remembers(s10, ~s2 /\ ~s6, s5)

LEMMA HistNext ==
  HistInv' <=> Remembers(s9', ~s2' /\ ~s6', s5') /\ Remembers(s10', ~s2' /\ ~s6', s5')
BY DEF HistInv, Remembers, NoteChanges, NoteTexts, NoteLines, M!Kinds, HasFrame, Framed, Bounding, IsMine,
       Shut, M!FencesBefore, M!Odd, Outside

\* A change more, and one less.
LEMMA MoreRemembered ==
  ASSUME NEW h, NEW on \in BOOLEAN, NEW lines, Remembers(h, on, lines), NEW e \in NoteChanges,
         on /\ e.since => HasFrame(e.text, lines)
  PROVE  Remembers(Append(h, e), on, lines)
<1>1. h \in Seq(NoteChanges) /\ Append(h, e) \in Seq(NoteChanges)
  BY DEF Remembers
<1>2. ASSUME NEW i \in 1 .. Len(Append(h, e)), on, Append(h, e)[i].since
      PROVE  HasFrame(Append(h, e)[i].text, lines)
  <2>1. CASE i = Len(h) + 1
    BY <1>1, <1>2, <2>1
  <2>2. CASE i \in 1 .. Len(h)
    <3>1. Append(h, e)[i] = h[i]
      BY <1>1, <2>2
    <3> QED BY <1>2, <2>2, <3>1 DEF Remembers
  <2> QED BY <1>1, <2>1, <2>2
<1> QED BY <1>1, <1>2 DEF Remembers

LEMMA LessRemembered ==
  ASSUME NEW h, NEW on \in BOOLEAN, NEW lines, Remembers(h, on, lines), h # <<>>
  PROVE  /\ Remembers(M!Front(h), on, lines)
         /\ M!Last(h) \in NoteChanges
         /\ on /\ M!Last(h).since => HasFrame(M!Last(h).text, lines)
<1>1. h \in Seq(NoteChanges) /\ Len(h) \in 1 .. Len(h) /\ Len(h) - 1 \in Nat
  BY DEF Remembers
<1>2. M!Last(h) = h[Len(h)]
  BY DEF M!Last
<1>3. /\ M!Front(h) \in Seq(NoteChanges) /\ Len(M!Front(h)) = Len(h) - 1
      /\ \A i \in 1 .. Len(h) - 1 : M!Front(h)[i] = h[i]
  <2>1. Len(h) - 1 \in 0 .. Len(h)
    BY <1>1
  <2>2. M!Front(h) = SubSeq(h, 1, Len(h) - 1)
    BY DEF M!Front
  <2>3. SubSeq(h, 1, Len(h) - 1) \in Seq(NoteChanges)
    BY <1>1, <2>1
  <2>4. Len(SubSeq(h, 1, Len(h) - 1)) = Len(h) - 1
    BY <1>1, <2>1
  <2>5. \A i \in 1 .. Len(h) - 1 : SubSeq(h, 1, Len(h) - 1)[i] = h[i]
    BY <1>1, <2>1
  <2> QED BY <2>2, <2>3, <2>4, <2>5
<1>4. \A i \in 1 .. Len(M!Front(h)) : on /\ M!Front(h)[i].since => HasFrame(M!Front(h)[i].text, lines)
  BY <1>1, <1>3 DEF Remembers
<1> QED BY <1>1, <1>2, <1>3, <1>4 DEF Remembers

\* Where less is claimed of the changes, no less is remembered.
LEMMA StillRemembered ==
  ASSUME NEW h, NEW on \in BOOLEAN, NEW then \in BOOLEAN, NEW lines, Remembers(h, on, lines), then => on
  PROVE  Remembers(h, then, lines)
BY DEF Remembers

\* The changes from before a loss, or a return, are claimed nothing of.
LEMMA NothingOfBefore ==
  ASSUME NEW h \in Seq(NoteChanges), NEW on \in BOOLEAN, NEW lines
  PROVE  Remembers(M!Before(h), on, lines)
<1>1. ASSUME NEW t \in NoteTexts PROVE M!Unnumbered(t) \in NoteTexts
  <2>1. t \in Seq(NoteLines) /\ Len(t) <= MaxLines
    BY DEF NoteTexts
  <2>. DEFINE u == [i \in DOMAIN t |-> [t[i] EXCEPT !.id = 0]]
  <2>2. \A i \in DOMAIN t : t[i] \in NoteLines
    BY <2>1
  <2>3. \A i \in DOMAIN t : u[i] \in NoteLines
    BY <2>2, NoteBounded DEF NoteLines, NoteBounds
  <2>4. DOMAIN t = 1 .. Len(t) /\ Len(t) \in Nat
    BY <2>1
  <2>5. u \in [1 .. Len(t) -> NoteLines]
    BY <2>3, <2>4
  <2>6. u \in Seq(NoteLines) /\ Len(u) = Len(t)
    BY <2>4, <2>5
  <2> QED BY <2>1, <2>6 DEF NoteTexts, M!Unnumbered
<1>. DEFINE was == [i \in DOMAIN h |-> M!Change(M!Unnumbered(h[i].text), FALSE)]
<1>2. DOMAIN h = 1 .. Len(h) /\ Len(h) \in Nat /\ \A i \in DOMAIN h : h[i] \in NoteChanges
  OBVIOUS
<1>3. \A i \in DOMAIN h : was[i] \in NoteChanges /\ was[i].since = FALSE
  BY <1>1, <1>2 DEF M!Change, NoteChanges
<1>4. was \in [1 .. Len(h) -> NoteChanges]
  BY <1>2, <1>3
<1>5. was \in Seq(NoteChanges) /\ Len(was) = Len(h)
  <2>. HIDE DEF was
  <2> QED BY <1>2, <1>4
<1>6. M!Before(h) = was
  BY DEF M!Before
<1>. HIDE DEF was
<1> QED BY <1>2, <1>3, <1>5, <1>6 DEF Remembers

\* What a step does to the history: a change more, or none, or it is of before.
LEMMA TypingRemembers ==
  ASSUME NoteInv, HistInv, NoteInv',
         M!NewLine \/ M!Retype \/ M!TypeAtHeading \/ M!Cut \/ M!Carry \/ M!Carried \/ M!Remote
  PROVE  HistInv'
<1>1. /\ s2' = s2 /\ s5' = s5
      /\ \/ UNCHANGED <<s9, s10>> /\ s6' = s6
         \/ s9' = Append(s9, M!Change(s1, ~s2)) /\ s10' = <<>> /\ (~s2 /\ ~s6' => ~s6)
  BY DEF M!NewLine, M!Retype, M!TypeAtHeading, M!Cut, M!Carry, M!Carried, M!Remote, M!Dispatch, M!Changed, M!histVars
<1>2. CASE UNCHANGED <<s9, s10>> /\ s6' = s6
  BY <1>1, <1>2, HistNext DEF HistInv
<1>3. CASE s9' = Append(s9, M!Change(s1, ~s2)) /\ s10' = <<>> /\ (~s2 /\ ~s6' => ~s6)
  <2>. DEFINE on == ~s2' /\ ~s6'
              e == M!Change(s1, ~s2)
  <2>1. on \in BOOLEAN /\ (on => ~s2 /\ ~s6)
    BY <1>1, <1>3
  <2>2. e \in NoteChanges /\ e.text = s1
    BY DEF NoteInv, NoteTyped, NoteChanges, NoteTexts, M!Change
  <2>3. on => HasFrame(s1, s5)
    BY <2>1 DEF NoteInv, Around
  <2>. HIDE DEF on, e
  <2>4. Remembers(s9, on, s5)
    BY <2>1 DEF HistInv, Remembers
  <2>5. Remembers(Append(s9, e), on, s5)
    BY <2>1, <2>2, <2>3, <2>4, MoreRemembered
  <2>6. Remembers(<<>>, on, s5)
    BY DEF Remembers
  <2> QED BY <1>1, <1>3, <2>5, <2>6, HistNext DEF on, e
<1> QED BY <1>1, <1>2, <1>3

LEMMA RoomRemembers ==
  ASSUME HistInv, M!Drop \/ M!Reconnect
  PROVE  HistInv'
<1>1. s9' = M!Before(s9) /\ s10' = M!Before(s10)
  BY DEF M!Drop, M!Reconnect
<1>2. s9 \in Seq(NoteChanges) /\ s10 \in Seq(NoteChanges)
  BY DEF HistInv, Remembers
<1>3. (~s2' /\ ~s6') \in BOOLEAN
  OBVIOUS
<1> QED BY <1>1, <1>2, <1>3, NothingOfBefore, HistNext

\* Taking back and making again: the text was framed when it was left, unless it is
\* from before the loss.
LEMMA AgainKeeps ==
  ASSUME NoteInv, HistInv, M!undo \/ M!redo
  PROVE  NoteInv' /\ HistInv'
<1>1. PICK from \in {s9, s10} :
        /\ from # <<>>
        /\ s1' = M!Last(from).text /\ s4' = FALSE
        /\ s6' = (~s2 /\ (s6 \/ ~M!Last(from).since))
        /\ UNCHANGED <<s2, s3, s5, s7, s8>>
        /\ \/ /\ from = s9 /\ s9' = M!Front(s9)
              /\ s10' = Append(s10, M!Change(s1, M!Last(from).since))
           \/ /\ from = s10 /\ s10' = M!Front(s10)
              /\ s9' = Append(s9, M!Change(s1, M!Last(from).since))
  BY DEF M!undo, M!redo, M!Again
<1>. DEFINE was == ~s2 /\ ~s6
            on == ~s2' /\ ~s6'
            last == M!Last(from)
            e == M!Change(s1, last.since)
<1>2. was \in BOOLEAN /\ on \in BOOLEAN
  OBVIOUS
<1>3. Remembers(from, was, s5) /\ Remembers(s9, was, s5) /\ Remembers(s10, was, s5)
  BY DEF HistInv
<1>4. last \in NoteChanges /\ (was /\ last.since => HasFrame(last.text, s5))
  <2>. HIDE DEF was
  <2> QED BY <1>1, <1>2, <1>3, LessRemembered
<1>5. on => was /\ last.since
  BY <1>1
<1>6. e \in NoteChanges /\ e.text = s1 /\ (on /\ e.since => HasFrame(e.text, s5))
  BY <1>4, <1>5 DEF NoteInv, NoteTyped, Around, NoteChanges, NoteTexts, M!Change
<1>7. s9' \in {M!Front(s9), Append(s9, e)} /\ s10' \in {M!Front(s10), Append(s10, e)}
      /\ (s9' = M!Front(s9) => s9 # <<>> \/ s9' = Append(s9, e))
      /\ (s10' = M!Front(s10) => s10 # <<>> \/ s10' = Append(s10, e))
  BY <1>1
<1>8. Remembers(s9, on, s5) /\ Remembers(s10, on, s5)
  <2>. HIDE DEF was, on, last
  <2> QED BY <1>2, <1>3, <1>5, StillRemembered
<1>9. Remembers(s9', on, s5) /\ Remembers(s10', on, s5)
  <2>. HIDE DEF on, e
  <2> QED BY <1>2, <1>6, <1>7, <1>8, MoreRemembered, LessRemembered
<1>10. HistInv'
  BY <1>1, <1>9, HistNext
<1>11. last.text \in NoteTexts /\ last.since \in BOOLEAN
  <2>. HIDE DEF last
  <2> QED BY <1>4 DEF NoteChanges
<1>12. NoteTyped'
  <2>1. s1' \in Seq(NoteLines) /\ Len(s1') <= MaxLines
    BY <1>1, <1>11 DEF NoteTexts
  <2>2. s6' \in BOOLEAN /\ (s2 => ~s6')
    BY <1>1, <1>11 DEF NoteInv, NoteTyped
  <2> QED BY <1>1, <2>1, <2>2 DEF NoteInv, NoteTyped, NoteLines
<1>13. ~s2' /\ ~s6' => HasFrame(s1', s5')
  BY <1>1, <1>4, <1>5
<1> QED BY <1>10, <1>12, <1>13, AroundNext DEF NoteInv

NoteHolds == NoteInv /\ HistInv
LEMMA HistStarted == ASSUME M!Init PROVE NoteHolds
<1>1. s9 = <<>> /\ s10 = <<>>
  BY DEF M!Init
<1>2. HistInv
  BY <1>1 DEF HistInv, Remembers
<1> QED BY <1>2, NoteStarted DEF NoteHolds

LEMMA NoteStep == ASSUME NoteHolds, [M!Next]_(M!vars) PROVE NoteHolds'
<1>1. CASE UNCHANGED M!vars
  <2>1. NoteTyped'
    BY <1>1 DEF M!vars, NoteHolds, NoteInv, NoteTyped, NoteLines
  <2>2. ~s2' /\ ~s6' => HasFrame(s1', s5')
    BY <1>1 DEF M!vars, NoteHolds, NoteInv, Around
  <2>3. HistInv'
    BY <1>1, HistNext DEF M!vars, M!histVars, NoteHolds, HistInv
  <2> QED BY <2>1, <2>2, <2>3, AroundNext DEF NoteHolds, NoteInv
<1>2. CASE M!NewLine \/ M!Retype \/ M!TypeAtHeading \/ M!Cut \/ M!Carry \/ M!Carried \/ M!Remote
  <2>1. NoteInv'
    BY <1>2, TypingKeeps, HeadingKeeps, CutKeeps, RoomKeeps DEF NoteHolds
  <2> QED BY <1>2, <2>1, TypingRemembers DEF NoteHolds
<1>3. CASE M!Drop \/ M!Reconnect
  BY <1>3, DropKeeps, RoomKeeps, RoomRemembers DEF NoteHolds
<1>4. CASE M!undo \/ M!redo
  BY <1>4, AgainKeeps DEF NoteHolds
<1> QED BY <1>1, <1>2, <1>3, <1>4 DEF M!Next

\* A framed note holds what the others wrote, and nothing of the user's elsewhere.
LEMMA FramedIsKept == ASSUME NoteInv PROVE M!OthersKept
<1>. SUFFICES ASSUME ~s2, ~s6
              PROVE  /\ \A h \in s5 : \E i \in DOMAIN s1 : s1[i] = h
                     /\ \A i, k \in M!OwnLines(s1) : i .. k \subseteq M!OwnLines(s1)
                     /\ \A i \in M!OwnLines(s1) : \E x \in M!Own(s1) : i > x.at
  BY DEF M!OthersKept
<1>1. s1 \in Seq(NoteLines)
  BY DEF NoteInv, NoteTyped, NoteLines
<1>2. PICK p \in 0 .. Len(s1) : \E q \in p .. Len(s1) :
        /\ Framed(s1, s5, p, q)
        /\ Bounding(s1, p, q) \/ (p = Len(s1) /\ \A k \in DOMAIN s1 : ~IsMine(s1, k))
  BY DEF NoteInv, Around, HasFrame
<1>3. PICK q \in p .. Len(s1) :
        /\ Framed(s1, s5, p, q)
        /\ Bounding(s1, p, q) \/ (p = Len(s1) /\ \A k \in DOMAIN s1 : ~IsMine(s1, k))
  BY <1>2
<1>4. s5 = {s1[i] : i \in Outside(s1, p, q)}
  BY <1>3 DEF Framed
<1>5. \A h \in s5 : \E i \in DOMAIN s1 : s1[i] = h
  BY <1>4 DEF Outside
<1>6. M!OwnLines(s1) = p + 1 .. q
  <2>1. ASSUME NEW i \in M!OwnLines(s1) PROVE i \in p + 1 .. q
    <3>1. i \in DOMAIN s1 /\ s1[i] \notin s5
      BY DEF M!OwnLines
    <3>2. i \notin Outside(s1, p, q)
      BY <1>4, <3>1
    <3> QED BY <1>1, <3>1, <3>2 DEF Outside
  <2>2. ASSUME NEW i \in p + 1 .. q PROVE i \in M!OwnLines(s1)
    <3>1. i \in DOMAIN s1
      BY <1>1
    <3>2. ASSUME NEW h \in s5 PROVE s1[i].id # h.id
      <4>1. PICK k \in Outside(s1, p, q) : h = s1[k]
        BY <1>4
      <4>2. k # i
        BY DEF Outside
      <4> QED BY <1>3, <3>1, <4>1, <4>2 DEF Framed
    <3> QED BY <3>1, <3>2 DEF M!OwnLines
  <2> QED BY <2>1, <2>2
<1>7. \A i, k \in M!OwnLines(s1) : i .. k \subseteq M!OwnLines(s1)
  BY <1>6
<1>8. ASSUME NEW i \in M!OwnLines(s1) PROVE \E x \in M!Own(s1) : i > x.at
  <2>1. i \in p + 1 .. q
    BY <1>6
  <2>2. Bounding(s1, p, q)
    BY <1>1, <1>3, <2>1
  <2>3. p \in DOMAIN s1 /\ IsMine(s1, p) /\ \A k \in 1 .. p - 1 : ~IsMine(s1, k)
    BY <1>1, <1>3, <2>2 DEF Bounding, Framed
  <2>4. M!Own(s1) = {[at |-> p, end |-> M!SectionEnd(s1, p), name |-> s1[p].who]}
    BY <1>1, <2>3, OwnSection
  <2> QED BY <2>1, <2>4
<1> QED BY <1>5, <1>7, <1>8

-----------------------------------------------------------------------------
(* The dashboard's question *)

\* An answer to a question that names a file as the hub has it says whether the file
\* is emptied; no question names a version that is still to come.
FilesUntil(n) == [size : {0, 1}, at : 0 .. n, had : BOOLEAN]
AnswersHold ==
  /\ s4 \in Nat
  /\ \A p \in DOMAIN s1 : s1[p] \in FilesUntil(s4)
  /\ \A p \in DOMAIN s5 : s5[p].at \in 0 .. s4
  /\ \A k \in DOMAIN s7 : \A x \in k : x[2] \in 0 .. s4
  /\ \A k \in DOMAIN s7 : \A p \in D!emptied \ s3 : <<p, s1[p].at>> \in k => p \in s7[k]

LEMMA AnswersStart == ASSUME D!Init PROVE AnswersHold
<1>1. s4 = 0 /\ s5 = s1 /\ DOMAIN s7 = {} /\ \A p \in DOMAIN s1 : s1[p] \in FilesUntil(0)
  BY DEF D!Init, FilesUntil
<1>2. \A p \in DOMAIN s1 : s1[p].at \in 0 .. 0
  BY <1>1 DEF FilesUntil
<1> QED BY <1>1, <1>2 DEF AnswersHold

\* A change of the hub leaves other files alone, and has a time no question has.
LEMMA ChangesHold ==
  ASSUME AnswersHold, UNCHANGED <<s5, s7>>, s4' = s4 + 1, NEW p,
         \A y \in DOMAIN s1' : y # p => /\ y \in DOMAIN s1 /\ s1'[y] = s1[y]
                                        /\ y \in s3 => y \in s3',
         p \in DOMAIN s1' => s1'[p] \in FilesUntil(s4 + 1),
         p \in DOMAIN s1' => s1'[p].at = s4 + 1 \/ (p \in s3' /\ p \in DOMAIN s1 /\ s1'[p].at = s1[p].at)
  PROVE  AnswersHold'
<1>1. /\ s4 \in Nat
      /\ \A y \in DOMAIN s1 : s1[y] \in FilesUntil(s4)
      /\ \A y \in DOMAIN s5 : s5[y].at \in 0 .. s4
      /\ \A k \in DOMAIN s7 : \A x \in k : x[2] \in 0 .. s4
      /\ \A k \in DOMAIN s7 : \A y \in D!emptied \ s3 : <<y, s1[y].at>> \in k => y \in s7[k]
  BY DEF AnswersHold
<1>2. s4' \in Nat /\ \A n \in 0 .. s4 : n \in 0 .. s4'
  BY <1>1
<1>3. \A y \in DOMAIN s1' : s1'[y] \in FilesUntil(s4')
  <2>1. FilesUntil(s4) \subseteq FilesUntil(s4')
    BY <1>1, <1>2 DEF FilesUntil
  <2> QED BY <1>1, <2>1
<1>4. \A y \in DOMAIN s5' : s5'[y].at \in 0 .. s4'
  BY <1>1, <1>2
<1>5. \A k \in DOMAIN s7' : \A x \in k : x[2] \in 0 .. s4'
  BY <1>1, <1>2
<1>6. ASSUME NEW k \in DOMAIN s7', NEW y \in (D!emptied)' \ s3', <<y, s1'[y].at>> \in k
      PROVE  y \in s7'[k]
  <2>1. y \in DOMAIN s1' /\ s1'[y].size = 0 /\ s1'[y].had
    BY DEF D!emptied
  <2>2. y # p
    <3>1. SUFFICES ASSUME y = p PROVE FALSE
      OBVIOUS
    <3>2. s1'[y].at = s4 + 1
      BY <2>1, <3>1
    <3>3. s1'[y].at \in 0 .. s4
      <4>1. <<y, s1'[y].at>>[2] = s1'[y].at
        OBVIOUS
      <4> QED BY <1>1, <1>6, <4>1
    <3> QED BY <1>1, <3>2, <3>3
  <2>3. y \in D!emptied \ s3 /\ s1'[y].at = s1[y].at
    BY <2>1, <2>2 DEF D!emptied
  <2> QED BY <1>1, <1>6, <2>3
<1> QED BY <1>2, <1>3, <1>4, <1>5, <1>6 DEF AnswersHold

LEMMA AnswersStep == ASSUME AnswersHold, [D!Next]_(D!vars) PROVE AnswersHold'
<1>1. ASSUME NEW p, NEW n \in {0, 1}, D!Write(p, n) PROVE AnswersHold'
  <2>1. /\ UNCHANGED <<s5, s7>> /\ s4' = s4 + 1 /\ s3' = s3 \ {p}
        /\ s1' = D!With(s1, p, [size |-> n, at |-> s4 + 1,
                                had |-> p \in DOMAIN s1 /\ (s1[p].had \/ s1[p].size > 0)])
    BY <1>1 DEF D!Write, D!Change, D!Tab
  <2>2. /\ \A y \in DOMAIN s1' : y # p => y \in DOMAIN s1 /\ s1'[y] = s1[y]
        /\ s1'[p] = [size |-> n, at |-> s4 + 1, had |-> p \in DOMAIN s1 /\ (s1[p].had \/ s1[p].size > 0)]
    BY <2>1 DEF D!With
  <2>4. (p \in DOMAIN s1 /\ (s1[p].had \/ s1[p].size > 0)) \in BOOLEAN
    BY DEF AnswersHold, FilesUntil
  <2>5. s1'[p] \in FilesUntil(s4 + 1) /\ s1'[p].at = s4 + 1
    BY <2>2, <2>4 DEF FilesUntil, AnswersHold
  <2>3. \A y \in s3 : y # p => y \in s3'
    BY <2>1
  <2> QED BY <2>1, <2>2, <2>3, <2>5, ChangesHold
<1>2. ASSUME NEW p, D!Delete(p) PROVE AnswersHold'
  <2>1. UNCHANGED <<s5, s7>> /\ s4' = s4 + 1 /\ s3' = s3 \ {p} /\ s1' = D!Less(s1, p)
    BY <1>2 DEF D!Delete, D!Change, D!Tab
  <2>2. p \notin DOMAIN s1' /\ \A y \in DOMAIN s1' : y \in DOMAIN s1 /\ s1'[y] = s1[y]
    BY <2>1 DEF D!Less
  <2>3. \A y \in s3 : y # p => y \in s3'
    BY <2>1
  <2> QED BY <2>1, <2>2, <2>3, ChangesHold
<1>3. ASSUME NEW p, D!LateVersion(p) PROVE AnswersHold'
  <2>1. /\ UNCHANGED <<s5, s7>> /\ s4' = s4 + 1 /\ s3' = s3 \cup {p}
        /\ p \in DOMAIN s1 /\ s1' = [s1 EXCEPT ![p].had = TRUE]
    BY <1>3 DEF D!LateVersion, D!Change, D!Tab
  <2>2. /\ \A y \in DOMAIN s1' : y # p => y \in DOMAIN s1 /\ s1'[y] = s1[y]
        /\ s1'[p] \in FilesUntil(s4 + 1) /\ s1'[p].at = s1[p].at
    <3>1. s1[p] \in FilesUntil(s4) /\ s4 \in Nat
      BY <2>1 DEF AnswersHold
    <3>2. s1'[p] = [s1[p] EXCEPT !.had = TRUE] /\ \A y \in DOMAIN s1' : y # p => y \in DOMAIN s1 /\ s1'[y] = s1[y]
      BY <2>1
    <3>. DEFINE f == s1[p]
                g == [f EXCEPT !.had = TRUE]
    <3>3. g \in FilesUntil(s4 + 1) /\ g.at = f.at
      <4>1. f \in FilesUntil(s4) /\ s4 \in Nat
        BY <3>1
      <4>2. \A n \in 0 .. s4 : n \in 0 .. s4 + 1
        BY <4>1
      <4>3. FilesUntil(s4) \subseteq FilesUntil(s4 + 1)
        BY <4>2 DEF FilesUntil
      <4>. HIDE DEF f
      <4>4. g \in FilesUntil(s4)
        BY <4>1 DEF FilesUntil
      <4>5. g.at = f.at
        BY <4>1 DEF FilesUntil
      <4> QED BY <4>3, <4>4, <4>5
    <3>4. s1'[p] = g
      BY <3>2
    <3>. HIDE DEF g
    <3> QED BY <3>2, <3>3, <3>4
  <2> QED BY <2>1, <2>2, ChangesHold
<1>4. CASE UNCHANGED <<s1, s3, s4, s5, s7>>
  BY <1>4 DEF AnswersHold, D!emptied
<1>5. CASE D!TreeArrives
  <2>1. s5' = s1 /\ UNCHANGED <<s1, s3, s4, s7>>
    BY <1>5 DEF D!TreeArrives, D!hubSide
  <2>2. \A p \in DOMAIN s5' : s5'[p].at \in 0 .. s4'
    BY <2>1 DEF AnswersHold, FilesUntil
  <2>3. (D!emptied)' = D!emptied
    BY <2>1 DEF D!emptied
  <2> QED BY <2>1, <2>2, <2>3 DEF AnswersHold
<1>6. CASE D!EmptiedArrives
  <2>1. /\ UNCHANGED <<s1, s3, s4, s5>> /\ s7' = D!With(s7, D!zero, D!emptied)
    BY <1>6 DEF D!EmptiedArrives, D!hubSide
  <2>2. /\ DOMAIN s7' = DOMAIN s7 \cup {D!zero} /\ s7'[D!zero] = D!emptied
        /\ \A k \in DOMAIN s7 : k # D!zero => s7'[k] = s7[k]
    BY <2>1 DEF D!With
  <2>3. \A x \in D!zero : x[2] \in 0 .. s4
    BY DEF D!zero, AnswersHold
  <2>4. (D!emptied)' = D!emptied
    BY <2>1 DEF D!emptied
  <2>. DEFINE z == D!zero
              gone == D!emptied
  <2>5. /\ DOMAIN s7' = DOMAIN s7 \cup {z} /\ s7'[z] = gone
        /\ \A k \in DOMAIN s7 : k # z => s7'[k] = s7[k]
        /\ \A x \in z : x[2] \in 0 .. s4
    BY <2>2, <2>3
  <2>6. \A k \in DOMAIN s7' : \A x \in k : x[2] \in 0 .. s4'
    <3>. HIDE DEF z, gone
    <3> QED BY <2>1, <2>5 DEF AnswersHold
  <2>7. \A k \in DOMAIN s7' : \A p \in gone \ s3' : <<p, s1'[p].at>> \in k => p \in s7'[k]
    <3>1. \A k \in DOMAIN s7 : \A p \in gone \ s3 : <<p, s1[p].at>> \in k => p \in s7[k]
      BY DEF AnswersHold
    <3>. HIDE DEF z, gone
    <3> QED BY <2>1, <2>5, <3>1
  <2> QED BY <2>1, <2>4, <2>6, <2>7 DEF AnswersHold
<1>7. CASE D!Hub
  <2>1. ASSUME NEW k, NEW p, D!Read(k, p) PROVE AnswersHold'
    BY <1>4, <2>1 DEF D!Read, D!Tab
  <2> QED BY <1>1, <1>2, <1>3, <1>7, <2>1 DEF D!Hub
<1>8. CASE D!User \/ D!HeatArrives
  BY <1>4, <1>8 DEF D!User, D!HeatArrives, D!SetLens, D!SetHot, D!Scope, D!hubSide
<1>9. CASE UNCHANGED D!vars
  BY <1>4, <1>9 DEF D!vars, D!hubSide
<1> QED BY <1>5, <1>6, <1>7, <1>8, <1>9 DEF D!Next

\* With the tab's tree the hub's, the question names every empty file as it is.
LEMMA EmptiedAreFlagged == ASSUME AnswersHold PROVE D!EmptiedFound
<1>. SUFFICES ASSUME s5 = s1, D!zero \in DOMAIN s7,
                     NEW p \in (D!emptied \cap D!pts) \ s3, D!lensReads(D!heatOf(p)) > 0
              PROVE  p \in D!fixFirst /\ D!empty(p)
  BY DEF D!EmptiedFound
<1>1. <<p, s1[p].at>> \in D!zero
  BY DEF D!zero, D!emptied
<1>2. p \in D!told
  BY <1>1 DEF D!told, AnswersHold
<1>3. D!empty(p)
  BY <1>2 DEF D!empty
<1> QED BY <1>3 DEF D!fixFirst

-----------------------------------------------------------------------------
(* Where a comment's quote is found *)

\* What a text's squash is, a character at a time.
SquashSteps(s, text) ==
  \A i \in 1 .. Len(s) : text[i] = IF s[i] = 0 THEN text[i - 1] ELSE Append(text[i - 1], s[i])
SquashRun(s, S, text) ==
  text \in [0 .. Len(s) -> Seq(S)] /\ text[0] = <<>> /\ SquashSteps(s, text)

LEMMA SquashRuns ==
  ASSUME NEW S, NEW s \in Seq(S)
  PROVE  \E text : SquashRun(s, S, text)
<1>. DEFINE Reached(n) == \E f : /\ f \in [0 .. n -> Seq(S)] /\ f[0] = <<>>
                           /\ \A i \in 1 .. n : f[i] = IF s[i] = 0 THEN f[i - 1] ELSE Append(f[i - 1], s[i])
            Not == {n \in 0 .. Len(s) : ~Reached(n)}
<1>1. ASSUME Not # {} PROVE FALSE
  <2>1. Not \in SUBSET Nat
    OBVIOUS
  <2>2. PICK n \in Not : \A m \in Not : n <= m
    BY <1>1, <2>1, LeastIn
  <2>3. n \in 0 .. Len(s) /\ ~Reached(n)
    OBVIOUS
  <2>4. n # 0
    <3>1. <<>> \in Seq(S)
      OBVIOUS
    <3>2. PICK f : f = [i \in 0 .. 0 |-> <<>>]
      OBVIOUS
    <3>4. f \in [0 .. 0 -> Seq(S)] /\ f[0] = <<>>
      BY <3>1, <3>2
    <3>5. \A i \in 1 .. 0 : FALSE
      OBVIOUS
    <3>3. Reached(0)
      BY <3>4, <3>5
    <3>. QED  BY <2>3, <3>3
  <2>5. n - 1 \in 0 .. Len(s) /\ n - 1 \notin Not
    <3>1. n - 1 \in 0 .. Len(s) /\ ~(n <= n - 1)
      BY <2>3, <2>4
    <3>. HIDE DEF Not
    <3>. QED  BY <3>1, <2>2
  <2>6. PICK f : /\ f \in [0 .. n - 1 -> Seq(S)] /\ f[0] = <<>>
                 /\ \A i \in 1 .. n - 1 : f[i] = IF s[i] = 0 THEN f[i - 1] ELSE Append(f[i - 1], s[i])
    BY <2>5
  <2>. DEFINE Last == IF s[n] = 0 THEN f[n - 1] ELSE Append(f[n - 1], s[n])
              g == [i \in 0 .. n |-> IF i = n THEN Last ELSE f[i]]
  <2>7. Last \in Seq(S)
    <3>1. s[n] \in S /\ f[n - 1] \in Seq(S)
      BY <2>3, <2>4, <2>6
    <3>. QED  BY <3>1
  <2>. HIDE DEF Last
  <2>8. g \in [0 .. n -> Seq(S)] /\ g[0] = <<>>
    BY <2>3, <2>4, <2>6, <2>7
  <2>9. \A i \in 1 .. n : g[i] = IF s[i] = 0 THEN g[i - 1] ELSE Append(g[i - 1], s[i])
    <3>. SUFFICES ASSUME NEW i \in 1 .. n
                  PROVE  g[i] = IF s[i] = 0 THEN g[i - 1] ELSE Append(g[i - 1], s[i])
      OBVIOUS
    <3>1. i \in Int /\ n \in Int /\ i - 1 \in 0 .. n /\ i - 1 # n /\ i \in 0 .. n
      BY <2>3
    <3>2. g[i - 1] = f[i - 1]
      BY <3>1
    <3>3. CASE i = n
      BY <3>1, <3>2, <3>3 DEF Last
    <3>4. CASE i # n
      <4>1. i \in 1 .. n - 1 /\ g[i] = f[i]
        BY <3>1, <3>4
      <4>. HIDE DEF g
      <4>. QED  BY <4>1, <3>2, <2>6
    <3>. QED  BY <3>3, <3>4
  <2>. HIDE DEF g
  <2>10. Reached(n)
    BY <2>8, <2>9
  <2>. QED  BY <2>10, <2>3
<1>2. Reached(Len(s))
  <2>1. Len(s) \in 0 .. Len(s)
    OBVIOUS
  <2>. QED  BY <1>1, <2>1
<1>. QED  BY <1>2 DEF SquashRun, SquashSteps

LEMMA SquashRunsOnce ==
  ASSUME NEW S, NEW s \in Seq(S), NEW f, NEW g, SquashRun(s, S, f), SquashRun(s, S, g)
  PROVE  f = g
<1>. DEFINE Not == {n \in 0 .. Len(s) : f[n] # g[n]}
<1>1. ASSUME Not # {} PROVE FALSE
  <2>1. Not \in SUBSET Nat
    OBVIOUS
  <2>2. PICK n \in Not : \A m \in Not : n <= m
    BY <1>1, <2>1, LeastIn
  <2>3. n # 0
    BY DEF SquashRun
  <2>4. n \in 1 .. Len(s) /\ n - 1 \in 0 .. Len(s) /\ n - 1 \notin Not
    BY <2>2, <2>3
  <2>5. f[n - 1] = g[n - 1]
    BY <2>4
  <2>. QED  BY <2>4, <2>5 DEF SquashRun, SquashSteps
<1>. QED  BY <1>1 DEF SquashRun

LEMMA SquashIs ==
  ASSUME NEW S, NEW s \in Seq(S), NEW text, SquashRun(s, S, text)
  PROVE  A!squash(s) = text[Len(s)]
<1>. DEFINE Rec(f) == f = [i \in 0 .. Len(s) |->
              IF i = 0 THEN <<>> ELSE IF s[i] = 0 THEN f[i - 1] ELSE Append(f[i - 1], s[i])]
<1>1. Rec(text)
  <2>1. ASSUME NEW i \in 0 .. Len(s)
        PROVE  text[i] = IF i = 0 THEN <<>> ELSE IF s[i] = 0 THEN text[i - 1] ELSE Append(text[i - 1], s[i])
    <3>1. CASE i = 0
      BY <3>1 DEF SquashRun
    <3>2. CASE i # 0
      <4>1. i \in 1 .. Len(s)
        BY <3>2
      <4>. QED  BY <3>2, <4>1 DEF SquashRun, SquashSteps
    <3>. QED  BY <3>1, <3>2
  <2>2. text = [i \in 0 .. Len(s) |-> text[i]]
    BY DEF SquashRun
  <2>. QED  BY <2>1, <2>2
<1>2. ASSUME NEW f, Rec(f) PROVE SquashRun(s, S, f)
  <2>1. DOMAIN f = 0 .. Len(s) /\ f = [i \in 0 .. Len(s) |-> f[i]]
    BY <1>2
  <2>0. 0 \in 0 .. Len(s)
    OBVIOUS
  <2>2. f[0] = <<>>
    BY <1>2, <2>0
  <2>5. SquashSteps(s, f)
    <3>1. ASSUME NEW i \in 1 .. Len(s)
          PROVE  f[i] = IF s[i] = 0 THEN f[i - 1] ELSE Append(f[i - 1], s[i])
      <4>1. i \in 0 .. Len(s) /\ i # 0
        OBVIOUS
      <4>. QED  BY <1>2, <4>1
    <3>. QED  BY <3>1 DEF SquashSteps
  <2>. HIDE DEF Rec
  <2>. DEFINE Not == {n \in 0 .. Len(s) : f[n] \notin Seq(S)}
  <2>3. ASSUME Not # {} PROVE FALSE
    <3>1. Not \in SUBSET Nat
      OBVIOUS
    <3>2. PICK n \in Not : \A m \in Not : n <= m
      BY <2>3, <3>1, LeastIn
    <3>3. n # 0
      <4>1. <<>> \in Seq(S)
        OBVIOUS
      <4>. QED  BY <2>2, <4>1
    <3>4. n \in 1 .. Len(s) /\ n - 1 \in 0 .. Len(s) /\ n - 1 \notin Not
      BY <3>2, <3>3
    <3>5. f[n - 1] \in Seq(S) /\ s[n] \in S
      BY <3>4
    <3>6. f[n] \in Seq(S)
      <4>1. f[n] = f[n - 1] \/ f[n] = Append(f[n - 1], s[n])
        BY <3>4, <2>5 DEF SquashSteps
      <4>2. Append(f[n - 1], s[n]) \in Seq(S)
        BY <3>5
      <4>. QED  BY <3>5, <4>1, <4>2
    <3>. QED  BY <3>6, <3>4
  <2>4. f \in [0 .. Len(s) -> Seq(S)]
    BY <2>3, <2>1
  <2>. QED  BY <2>2, <2>4, <2>5 DEF SquashRun
<1>3. \A f : Rec(f) => f = text
  <2>. HIDE DEF Rec
  <2>. QED  BY <1>2, SquashRunsOnce
<1>4. A!squash(s) = (CHOOSE f : Rec(f))[Len(s)]
  BY DEF A!squash, A!IsSpace
<1>. HIDE DEF Rec
<1>5. Rec(CHOOSE f : Rec(f))
  BY <1>1
<1>. QED  BY <1>3, <1>4, <1>5

\* The squash of a text is a text, of nothing is nothing, and grows by the
\* characters that are not spaces.
LEMMA SquashTyped ==
  ASSUME NEW S, NEW s \in Seq(S)
  PROVE  A!squash(s) \in Seq(S)
<1>1. PICK text : SquashRun(s, S, text)
  BY SquashRuns
<1>2. Len(s) \in 0 .. Len(s)
  OBVIOUS
<1>. QED  BY <1>1, <1>2, SquashIs DEF SquashRun

LEMMA SquashEmpty == A!squash(<<>>) = <<>>
<1>1. <<>> \in Seq({0}) /\ Len(<<>>) = 0
  OBVIOUS
<1>2. PICK text : SquashRun(<<>>, {0}, text)
  BY <1>1, SquashRuns
<1>. QED  BY <1>1, <1>2, SquashIs DEF SquashRun

LEMMA SquashAppend ==
  ASSUME NEW S, NEW s \in Seq(S), NEW c \in S
  PROVE  A!squash(Append(s, c)) = IF c = 0 THEN A!squash(s) ELSE Append(A!squash(s), c)
<1>. DEFINE w == Append(s, c)
<1>1. /\ w \in Seq(S) /\ Len(w) = Len(s) + 1 /\ w[Len(s) + 1] = c
      /\ \A i \in 1 .. Len(s) : w[i] = s[i]
  OBVIOUS
<1>. HIDE DEF w
<1>2. PICK text : SquashRun(w, S, text)
  BY <1>1, SquashRuns
<1>. DEFINE part == [i \in 0 .. Len(s) |-> text[i]]
<1>3. SquashRun(s, S, part)
  <2>1. part \in [0 .. Len(s) -> Seq(S)] /\ part[0] = <<>>
    BY <1>1, <1>2 DEF SquashRun
  <2>2. ASSUME NEW i \in 1 .. Len(s)
        PROVE  part[i] = IF s[i] = 0 THEN part[i - 1] ELSE Append(part[i - 1], s[i])
    <3>1. part[i] = text[i] /\ part[i - 1] = text[i - 1]
      OBVIOUS
    <3>2. i \in 1 .. Len(w) /\ w[i] = s[i]
      BY <1>1
    <3>. HIDE DEF part
    <3>. QED  BY <3>1, <3>2, <1>2 DEF SquashRun, SquashSteps
  <2>. HIDE DEF part
  <2>. QED  BY <2>1, <2>2 DEF SquashRun, SquashSteps
<1>4. A!squash(s) = text[Len(s)]
  <2>1. part[Len(s)] = text[Len(s)]
    OBVIOUS
  <2>. HIDE DEF part
  <2>. QED  BY <1>3, <2>1, SquashIs
<1>5. A!squash(w) = text[Len(s) + 1]
  BY <1>1, <1>2, SquashIs
<1>6. text[Len(s) + 1] = IF c = 0 THEN text[Len(s)] ELSE Append(text[Len(s)], c)
  <2>1. Len(s) + 1 \in 1 .. Len(w) /\ Len(s) + 1 - 1 = Len(s)
    BY <1>1
  <2>2. SquashSteps(w, text)
    BY <1>2 DEF SquashRun
  <2>3. w[Len(s) + 1] = c
    BY <1>1
  <2>. QED  BY <2>1, <2>2, <2>3 DEF SquashSteps
<1>. QED  BY <1>4, <1>5, <1>6 DEF w

-----------------------------------------------------------------------------
\* Slices of a text.
LEMMA SliceTyped ==
  ASSUME NEW S, NEW s \in Seq(S), NEW a \in Nat, NEW b \in Nat, b <= Len(s)
  PROVE  /\ A!Slice(s, a, b) \in Seq(S)
         /\ Len(A!Slice(s, a, b)) = IF a <= b THEN b - a ELSE 0
         /\ \A i \in 1 .. b - a : A!Slice(s, a, b)[i] = s[a + i]
BY DEF A!Slice

LEMMA SliceGrows ==
  ASSUME NEW S, NEW s \in Seq(S), NEW a \in Nat, NEW b \in Nat, a <= b, b < Len(s)
  PROVE  A!Slice(s, a, b + 1) = Append(A!Slice(s, a, b), s[b + 1])
<1>. DEFINE x == A!Slice(s, a, b + 1)
            y == A!Slice(s, a, b)
            z == Append(y, s[b + 1])
<1>1. x \in Seq(S) /\ Len(x) = b + 1 - a /\ \A i \in 1 .. b + 1 - a : x[i] = s[a + i]
  BY SliceTyped
<1>2. y \in Seq(S) /\ Len(y) = b - a /\ \A i \in 1 .. b - a : y[i] = s[a + i]
  <2>1. b <= Len(s)
    OBVIOUS
  <2>. QED  BY <2>1, SliceTyped
<1>. HIDE DEF x, y
<1>3. z \in Seq(S) /\ Len(z) = b + 1 - a /\ \A i \in 1 .. b - a : z[i] = y[i]
  BY <1>2
<1>4. z[b + 1 - a] = s[b + 1]
  BY <1>2
<1>. HIDE DEF z
<1>5. \A i \in 1 .. b + 1 - a : z[i] = x[i]
  BY <1>1, <1>2, <1>3, <1>4
<1>6. x = z
  BY <1>1, <1>3, <1>5
<1>. QED  BY <1>6 DEF x, y, z

LEMMA SliceEmpty ==
  ASSUME NEW S, NEW s \in Seq(S), NEW a \in Nat, a <= Len(s)
  PROVE  A!Slice(s, a, a) = <<>>
BY DEF A!Slice

LEMMA SliceAll ==
  ASSUME NEW S, NEW s \in Seq(S)
  PROVE  A!Slice(s, 0, Len(s)) = s
BY DEF A!Slice

LEMMA SliceOfAppend ==
  ASSUME NEW S, NEW s \in Seq(S), NEW c \in S, NEW a \in Nat, NEW b \in Nat, b <= Len(s)
  PROVE  A!Slice(Append(s, c), a, b) = A!Slice(s, a, b)
<1>. DEFINE w == Append(s, c)
            x == A!Slice(w, a, b)
            y == A!Slice(s, a, b)
<1>1. w \in Seq(S) /\ Len(w) = Len(s) + 1 /\ \A i \in 1 .. Len(s) : w[i] = s[i]
  OBVIOUS
<1>. HIDE DEF w
<1>2. b <= Len(w)
  BY <1>1
<1>3. /\ x \in Seq(S) /\ Len(x) = IF a <= b THEN b - a ELSE 0
      /\ \A i \in 1 .. b - a : x[i] = w[a + i]
  <2>1. w \in Seq(S)
    BY <1>1
  <2>. QED  BY <1>2, <2>1, SliceTyped, ZenonT(60)
<1>4. /\ y \in Seq(S) /\ Len(y) = IF a <= b THEN b - a ELSE 0
      /\ \A i \in 1 .. b - a : y[i] = s[a + i]
  BY SliceTyped
<1>. HIDE DEF x, y
<1>5. \A i \in 1 .. Len(x) : x[i] = y[i]
  <2>. SUFFICES ASSUME NEW i \in 1 .. Len(x) PROVE x[i] = y[i]
    OBVIOUS
  <2>1. i \in 1 .. b - a /\ a + i \in 1 .. Len(s)
    BY <1>3
  <2>. QED  BY <1>1, <1>3, <1>4, <2>1
<1>6. x = y
  BY <1>3, <1>4, <1>5
<1>. QED  BY <1>6 DEF x, y, w

\* What holds of a and of the number after any it holds of, up to m.
LEMMA Upward ==
  ASSUME NEW ns, NEW a \in Nat, NEW m \in Nat, a \in ns,
         \A n \in a .. m : n \in ns /\ n < m => n + 1 \in ns
  PROVE  \A n \in a .. m : n \in ns
<1>. DEFINE Not == {n \in a .. m : n \notin ns}
<1>1. ASSUME Not # {} PROVE FALSE
  <2>1. Not \in SUBSET Nat
    OBVIOUS
  <2>2. PICK n \in Not : \A k \in Not : n <= k
    BY <1>1, <2>1, LeastIn
  <2>3. n \in a .. m /\ n \notin ns /\ n # a
    OBVIOUS
  <2>4. n - 1 \in a .. m /\ n - 1 < m /\ n - 1 + 1 = n /\ ~(n <= n - 1)
    BY <2>3
  <2>5. n - 1 \in ns
    BY <2>2, <2>4
  <2>. QED  BY <2>3, <2>4, <2>5
<1>. QED  BY <1>1

-----------------------------------------------------------------------------
\* How many of the first i characters are kept.
KeptUpTo(s, i) == Len(A!squash(A!Slice(s, 0, i)))

LEMMA KeptStarts ==
  ASSUME NEW S, NEW s \in Seq(S)
  PROVE  /\ KeptUpTo(s, 0) = 0 /\ KeptUpTo(s, Len(s)) = Len(A!squash(s))
         /\ \A i \in 0 .. Len(s) : A!squash(A!Slice(s, 0, i)) \in Seq(S) /\ KeptUpTo(s, i) \in Nat
<1>1. KeptUpTo(s, 0) = 0
  <2>1. A!Slice(s, 0, 0) = <<>>
    BY SliceEmpty
  <2>. QED  BY <2>1, SquashEmpty DEF KeptUpTo
<1>2. KeptUpTo(s, Len(s)) = Len(A!squash(s))
  BY SliceAll DEF KeptUpTo
<1>3. ASSUME NEW i \in 0 .. Len(s)
      PROVE  A!squash(A!Slice(s, 0, i)) \in Seq(S) /\ KeptUpTo(s, i) \in Nat
  <2>1. i \in Nat /\ i <= Len(s) /\ 0 \in Nat
    OBVIOUS
  <2>2. A!Slice(s, 0, i) \in Seq(S)
    BY <2>1, SliceTyped
  <2>3. A!squash(A!Slice(s, 0, i)) \in Seq(S)
    BY <2>2, SquashTyped
  <2>. QED  BY <2>3 DEF KeptUpTo
<1>. QED  BY <1>1, <1>2, <1>3

LEMMA KeptGrows ==
  ASSUME NEW S, NEW s \in Seq(S), NEW i \in 0 .. Len(s) - 1
  PROVE  /\ A!squash(A!Slice(s, 0, i + 1))
              = IF s[i + 1] = 0 THEN A!squash(A!Slice(s, 0, i))
                ELSE Append(A!squash(A!Slice(s, 0, i)), s[i + 1])
         /\ KeptUpTo(s, i + 1) = IF s[i + 1] = 0 THEN KeptUpTo(s, i) ELSE KeptUpTo(s, i) + 1
<1>1. i \in Nat /\ 0 \in Nat /\ 0 <= i /\ i < Len(s) /\ i <= Len(s) /\ i + 1 \in 1 .. Len(s)
  OBVIOUS
<1>2. A!Slice(s, 0, i + 1) = Append(A!Slice(s, 0, i), s[i + 1])
  BY <1>1, SliceGrows
<1>3. A!Slice(s, 0, i) \in Seq(S) /\ s[i + 1] \in S
  <2>1. A!Slice(s, 0, i) \in Seq(S)
    BY <1>1, SliceTyped
  <2>2. s[i + 1] \in S
    BY <1>1
  <2>. QED  BY <2>1, <2>2
<1>. DEFINE x == A!squash(A!Slice(s, 0, i))
<1>4. A!squash(A!Slice(s, 0, i + 1)) = IF s[i + 1] = 0 THEN x ELSE Append(x, s[i + 1])
  BY <1>2, <1>3, SquashAppend
<1>5. x \in Seq(S)
  BY <1>3, SquashTyped
<1>6. KeptUpTo(s, i) = Len(x)
  BY DEF KeptUpTo
<1>7. Len(Append(x, s[i + 1])) = Len(x) + 1
  <2>. HIDE DEF x
  <2>. QED  BY <1>3, <1>5
<1>8. KeptUpTo(s, i + 1) = IF s[i + 1] = 0 THEN KeptUpTo(s, i) ELSE KeptUpTo(s, i) + 1
  BY <1>4, <1>6, <1>7 DEF KeptUpTo
<1>. QED  BY <1>4, <1>8

LEMMA KeptRises ==
  ASSUME NEW S, NEW s \in Seq(S), NEW a \in 0 .. Len(s), NEW b \in a .. Len(s)
  PROVE  KeptUpTo(s, a) <= KeptUpTo(s, b)
<1>. DEFINE ns == {n \in a .. Len(s) : KeptUpTo(s, a) <= KeptUpTo(s, n)}
<1>1. a \in Nat /\ Len(s) \in Nat /\ a \in a .. Len(s) /\ KeptUpTo(s, a) \in Nat
  BY KeptStarts
<1>2. a \in ns
  BY <1>1
<1>3. ASSUME NEW n \in a .. Len(s), n \in ns, n < Len(s) PROVE n + 1 \in ns
  <2>1. n \in 0 .. Len(s) - 1 /\ n \in 0 .. Len(s) /\ n + 1 \in a .. Len(s)
    BY <1>1, <1>3
  <2>2. KeptUpTo(s, n + 1) = KeptUpTo(s, n) \/ KeptUpTo(s, n + 1) = KeptUpTo(s, n) + 1
    BY <2>1, KeptGrows
  <2>3. KeptUpTo(s, n) \in Nat /\ KeptUpTo(s, a) <= KeptUpTo(s, n)
    BY <2>1, <1>3, KeptStarts
  <2>4. KeptUpTo(s, a) <= KeptUpTo(s, n + 1)
    BY <1>1, <2>2, <2>3
  <2>. QED  BY <2>1, <2>4
<1>. HIDE DEF ns
<1>4. \A n \in a .. Len(s) : n \in ns
  BY <1>1, <1>2, <1>3, Upward
<1>. QED  BY <1>4 DEF ns

\* What is kept of a slice is a slice of what is kept.
LEMMA SquashOfSlice ==
  ASSUME NEW S, NEW s \in Seq(S), NEW a \in 0 .. Len(s), NEW b \in a .. Len(s)
  PROVE  A!squash(A!Slice(s, a, b)) = A!Slice(A!squash(s), KeptUpTo(s, a), KeptUpTo(s, b))
<1>. DEFINE x(n) == A!squash(A!Slice(s, 0, n))
            y(n) == A!squash(A!Slice(s, a, n))
            Here == {n \in a .. Len(s) : y(n) = A!Slice(x(n), KeptUpTo(s, a), KeptUpTo(s, n))}
            Later == {n \in b .. Len(s) : y(b) = A!Slice(x(n), KeptUpTo(s, a), KeptUpTo(s, b))}
<1>1. /\ a \in Nat /\ b \in Nat /\ Len(s) \in Nat /\ a <= Len(s) /\ a <= b /\ b <= Len(s)
      /\ a \in a .. Len(s) /\ b \in b .. Len(s)
  OBVIOUS
<1>2. \A n \in 0 .. Len(s) : x(n) \in Seq(S) /\ Len(x(n)) = KeptUpTo(s, n) /\ KeptUpTo(s, n) \in Nat
  BY KeptStarts DEF KeptUpTo
<1>3. \A n \in 0 .. Len(s) - 1 :
        /\ x(n + 1) = IF s[n + 1] = 0 THEN x(n) ELSE Append(x(n), s[n + 1])
        /\ KeptUpTo(s, n + 1) = IF s[n + 1] = 0 THEN KeptUpTo(s, n) ELSE KeptUpTo(s, n) + 1
  BY KeptGrows
<1>4. \A n \in a .. Len(s) : n < Len(s) =>
        y(n + 1) = IF s[n + 1] = 0 THEN y(n) ELSE Append(y(n), s[n + 1])
  <2>. SUFFICES ASSUME NEW n \in a .. Len(s), n < Len(s)
                PROVE  y(n + 1) = IF s[n + 1] = 0 THEN y(n) ELSE Append(y(n), s[n + 1])
    OBVIOUS
  <2>1. n \in Nat /\ a <= n /\ n <= Len(s) /\ n + 1 \in 1 .. Len(s)
    BY <1>1
  <2>2. A!Slice(s, a, n + 1) = Append(A!Slice(s, a, n), s[n + 1])
    BY <1>1, <2>1, SliceGrows
  <2>3. A!Slice(s, a, n) \in Seq(S) /\ s[n + 1] \in S
    <3>1. A!Slice(s, a, n) \in Seq(S)
      BY <1>1, <2>1, SliceTyped
    <3>2. s[n + 1] \in S
      BY <2>1
    <3>. QED  BY <3>1, <3>2
  <2>. QED  BY <2>2, <2>3, SquashAppend
<1>. HIDE DEF x, y
<1>5. a \in Here
  <2>1. y(a) = <<>>
    BY <1>1, SliceEmpty, SquashEmpty DEF y
  <2>2. A!Slice(x(a), KeptUpTo(s, a), KeptUpTo(s, a)) = <<>>
    BY <1>2, SliceEmpty
  <2>. QED  BY <1>1, <2>1, <2>2
<1>6. ASSUME NEW n \in a .. Len(s), n \in Here, n < Len(s) PROVE n + 1 \in Here
  <2>1. n \in 0 .. Len(s) - 1 /\ n \in 0 .. Len(s) /\ n + 1 \in a .. Len(s) /\ n + 1 \in 1 .. Len(s)
    BY <1>1, <1>6
  <2>2. y(n) = A!Slice(x(n), KeptUpTo(s, a), KeptUpTo(s, n))
    BY <1>6
  <2>3. CASE s[n + 1] = 0
    <3>1. y(n + 1) = A!Slice(x(n + 1), KeptUpTo(s, a), KeptUpTo(s, n + 1))
      BY <1>3, <1>4, <1>6, <2>1, <2>2, <2>3
    <3>. QED  BY <2>1, <3>1
  <2>4. CASE s[n + 1] # 0
    <3>. DEFINE c == s[n + 1]
                k == KeptUpTo(s, n)
                p == KeptUpTo(s, a)
                z == x(n)
                w == Append(z, c)
    <3>1. c \in S /\ z \in Seq(S) /\ Len(z) = k /\ k \in Nat /\ p \in Nat /\ p <= k
      BY <1>2, <2>1, KeptRises
    <3>2. x(n + 1) = w /\ KeptUpTo(s, n + 1) = k + 1 /\ y(n + 1) = Append(y(n), c)
      BY <1>3, <1>4, <1>6, <2>1, <2>4
    <3>3. y(n) = A!Slice(z, p, k)
      BY <2>2
    <3>. HIDE DEF c, k, p, z
    <3>4. w \in Seq(S) /\ Len(w) = k + 1 /\ w[k + 1] = c
      BY <3>1
    <3>5. A!Slice(w, p, k) = A!Slice(z, p, k)
      BY <3>1, SliceOfAppend
    <3>. HIDE DEF w
    <3>6. k < Len(w)
      BY <3>1, <3>4
    <3>7. A!Slice(w, p, k + 1) = Append(A!Slice(w, p, k), w[k + 1])
      BY <3>1, <3>4, <3>6, SliceGrows
    <3>8. y(n + 1) = A!Slice(x(n + 1), p, KeptUpTo(s, n + 1))
      BY <3>2, <3>3, <3>4, <3>5, <3>7
    <3>. QED  BY <2>1, <3>8 DEF p
  <2>. QED  BY <2>3, <2>4
<1>. HIDE DEF Here
<1>7. b \in Here
  <2>1. \A n \in a .. Len(s) : n \in Here
    BY <1>1, <1>5, <1>6, Upward
  <2>. QED  BY <2>1
<1>8. b \in Later
  BY <1>1, <1>7 DEF Here
<1>9. ASSUME NEW n \in b .. Len(s), n \in Later, n < Len(s) PROVE n + 1 \in Later
  <2>1. /\ n \in 0 .. Len(s) - 1 /\ n \in 0 .. Len(s) /\ n \in b .. Len(s)
        /\ n + 1 \in b .. Len(s) /\ n + 1 \in 1 .. Len(s) /\ b \in 0 .. Len(s)
    BY <1>1, <1>9
  <2>2. y(b) = A!Slice(x(n), KeptUpTo(s, a), KeptUpTo(s, b))
    BY <1>9
  <2>3. s[n + 1] \in S /\ x(n) \in Seq(S) /\ KeptUpTo(s, a) \in Nat /\ KeptUpTo(s, b) \in Nat
    BY <1>2, <2>1
  <2>4. KeptUpTo(s, b) <= Len(x(n))
    BY <1>2, <2>1, KeptRises
  <2>5. A!Slice(Append(x(n), s[n + 1]), KeptUpTo(s, a), KeptUpTo(s, b)) = y(b)
    BY <2>2, <2>3, <2>4, SliceOfAppend
  <2>6. y(b) = A!Slice(x(n + 1), KeptUpTo(s, a), KeptUpTo(s, b))
    BY <1>3, <2>1, <2>2, <2>5
  <2>. QED  BY <2>1, <2>6
<1>. HIDE DEF Later
<1>10. Len(s) \in Later
  <2>1. \A n \in b .. Len(s) : n \in Later
    BY <1>1, <1>8, <1>9, Upward
  <2>. QED  BY <1>1, <2>1
<1>11. x(Len(s)) = A!squash(s)
  BY SliceAll DEF x
<1>. QED  BY <1>10, <1>11 DEF Later, y

\* The place of the k-th character that is kept.
LEMMA AtIs ==
  ASSUME NEW S, NEW s \in Seq(S), NEW k \in 1 .. Len(A!squash(s))
  PROVE  /\ A!At(s, k) \in 1 .. Len(s)
         /\ KeptUpTo(s, A!At(s, k)) = k /\ KeptUpTo(s, A!At(s, k) - 1) = k - 1
<1>. DEFINE There(i) == i \in 1 .. Len(s) /\ s[i] # 0 /\ KeptUpTo(s, i) = k
            ns == {i \in 0 .. Len(s) : k <= KeptUpTo(s, i)}
<1>1. k \in Nat /\ k # 0 /\ k <= Len(A!squash(s)) /\ Len(s) \in Nat
  <2>1. A!squash(s) \in Seq(S)
    BY SquashTyped
  <2>. QED  BY <2>1
<1>2. KeptUpTo(s, 0) = 0 /\ KeptUpTo(s, Len(s)) = Len(A!squash(s)) /\ \A i \in 0 .. Len(s) : KeptUpTo(s, i) \in Nat
  BY KeptStarts
<1>3. ASSUME NEW i \in 1 .. Len(s)
      PROVE  /\ i - 1 \in 0 .. Len(s) /\ KeptUpTo(s, i - 1) \in Nat
             /\ KeptUpTo(s, i) = IF s[i] = 0 THEN KeptUpTo(s, i - 1) ELSE KeptUpTo(s, i - 1) + 1
  <2>1. i - 1 \in 0 .. Len(s) - 1 /\ i - 1 \in 0 .. Len(s) /\ i - 1 + 1 = i
    OBVIOUS
  <2>2. KeptUpTo(s, i - 1) \in Nat
    BY <1>2, <2>1
  <2>3. KeptUpTo(s, i - 1 + 1) = IF s[i - 1 + 1] = 0 THEN KeptUpTo(s, i - 1) ELSE KeptUpTo(s, i - 1) + 1
    BY <2>1, KeptGrows
  <2>. QED  BY <2>1, <2>2, <2>3
<1>4. \E i : There(i)
  <2>1. ns \in SUBSET Nat /\ Len(s) \in ns
    BY <1>1, <1>2
  <2>2. PICK i \in ns : \A j \in ns : i <= j
    BY <2>1, LeastIn
  <2>3. i \in 0 .. Len(s) /\ k <= KeptUpTo(s, i) /\ KeptUpTo(s, i) \in Nat
    BY <1>2
  <2>4. i # 0
    BY <1>1, <1>2, <2>3
  <2>5. i \in 1 .. Len(s) /\ ~(i <= i - 1)
    BY <2>3, <2>4
  <2>6. ~(k <= KeptUpTo(s, i - 1))
    BY <1>3, <2>2, <2>5
  <2>7. s[i] # 0 /\ KeptUpTo(s, i) = k
    BY <1>1, <1>3, <2>3, <2>5, <2>6
  <2>. QED  BY <2>5, <2>7
<1>5. \A i \in 1 .. Len(s) : KeptUpTo(s, i) = Len(A!squash(SubSeq(s, 1, i)))
  BY DEF KeptUpTo, A!Slice
<1>6. A!At(s, k) = CHOOSE i \in 1 .. Len(s) : ~(s[i] = 0) /\ Len(A!squash(SubSeq(s, 1, i))) = k
  BY DEF A!At, A!IsSpace
<1>7. There(A!At(s, k))
  <2>1. \E i \in 1 .. Len(s) : ~(s[i] = 0) /\ Len(A!squash(SubSeq(s, 1, i))) = k
    BY <1>4, <1>5
  <2>2. /\ A!At(s, k) \in 1 .. Len(s) /\ s[A!At(s, k)] # 0
        /\ Len(A!squash(SubSeq(s, 1, A!At(s, k)))) = k
    BY ONLY <1>6, <2>1
  <2>. QED  BY <1>5, <2>2
<1>. DEFINE i == A!At(s, k)
<1>. HIDE DEF i
<1>8. i \in 1 .. Len(s) /\ s[i] # 0 /\ KeptUpTo(s, i) = k
  BY <1>7 DEF i
<1>9. KeptUpTo(s, i - 1) = k - 1
  BY <1>1, <1>3, <1>8
<1>. QED  BY <1>8, <1>9 DEF i

-----------------------------------------------------------------------------
\* Two texts agree for no longer than either is.
LEMMA AgreeFrontIs ==
  ASSUME NEW S, NEW a \in Seq(S), NEW b \in Seq(S)
  PROVE  A!AgreeFront(a, b) \in Nat /\ A!AgreeFront(a, b) <= Len(b)
<1>. DEFINE ns == {n \in 0 .. Len(a) : n <= Len(b) /\ \A k \in 1 .. n : a[k] = b[k]}
<1>0. Len(a) \in Nat /\ Len(b) \in Nat
  OBVIOUS
<1>1. ns \subseteq Nat /\ IsFiniteSet(ns) /\ 0 \in ns
  <2>1. IsFiniteSet(0 .. Len(a))
    BY <1>0, FS_Interval
  <2>2. ns \subseteq 0 .. Len(a)
    OBVIOUS
  <2>3. 0 \in ns
    BY <1>0
  <2>. QED  BY <2>1, <2>2, <2>3, FS_Subset
<1>2. PICK n \in ns : \A m \in ns : m <= n
  BY <1>1, GreatestIn
<1>3. n \in 0 .. Len(a) /\ n \in Nat /\ n <= Len(a) /\ n <= Len(b) /\ \A k \in 1 .. n : a[k] = b[k]
  OBVIOUS
<1>4. n = Len(a) \/ n = Len(b) \/ a[n + 1] # b[n + 1]
  <2>. SUFFICES ASSUME n # Len(a), n # Len(b), a[n + 1] = b[n + 1] PROVE FALSE
    OBVIOUS
  <2>1. n + 1 \in 0 .. Len(a) /\ n + 1 <= Len(b) /\ ~(n + 1 <= n)
    BY <1>0, <1>3
  <2>2. \A k \in 1 .. n + 1 : k \in 1 .. n \/ k = n + 1
    BY <1>3
  <2>3. \A k \in 1 .. n + 1 : a[k] = b[k]
    BY <1>3, <2>2
  <2>. QED  BY <1>2, <2>1, <2>3
<1>5. A!Slice(a, 0, n) = A!Slice(b, 0, n)
  <2>. DEFINE x == A!Slice(a, 0, n)
              y == A!Slice(b, 0, n)
  <2>1. x \in Seq(S) /\ Len(x) = n /\ \A i \in 1 .. n : x[i] = a[i]
    BY <1>3 DEF A!Slice
  <2>2. y \in Seq(S) /\ Len(y) = n /\ \A i \in 1 .. n : y[i] = b[i]
    BY <1>3 DEF A!Slice
  <2>. HIDE DEF x, y
  <2>3. x = y
    BY <1>3, <2>1, <2>2
  <2>. QED  BY <2>3 DEF x, y
<1>. DEFINE Good(m) == /\ m <= Len(b) /\ A!Slice(a, 0, m) = A!Slice(b, 0, m)
                       /\ m = Len(a) \/ m = Len(b) \/ a[m + 1] # b[m + 1]
<1>6. A!AgreeFront(a, b) = CHOOSE m \in 0 .. Len(a) : Good(m)
  BY DEF A!AgreeFront
<1>7. Good(n) /\ n \in 0 .. Len(a)
  BY <1>3, <1>4, <1>5
<1>. HIDE DEF Good
<1>8. A!AgreeFront(a, b) \in 0 .. Len(a) /\ Good(A!AgreeFront(a, b))
  BY ONLY <1>6, <1>7
<1>. QED  BY <1>0, <1>8 DEF Good

LEMMA AgreeBackIs ==
  ASSUME NEW S, NEW a \in Seq(S), NEW b \in Seq(S)
  PROVE  A!AgreeBack(a, b) \in Nat /\ A!AgreeBack(a, b) <= Len(b)
<1>1. ASSUME NEW c \in Seq(S)
      PROVE  A!Reverse(c) \in Seq(S) /\ Len(A!Reverse(c)) = Len(c)
  <2>1. \A i \in 1 .. Len(c) : Len(c) - i + 1 \in 1 .. Len(c)
    OBVIOUS
  <2>2. \A i \in 1 .. Len(c) : c[Len(c) - i + 1] \in S
    BY <2>1
  <2>3. A!Reverse(c) = [i \in 1 .. Len(c) |-> c[Len(c) - i + 1]]
    BY DEF A!Reverse
  <2>4. A!Reverse(c) \in [1 .. Len(c) -> S]
    BY <2>2, <2>3
  <2>. DEFINE r == A!Reverse(c)
  <2>. HIDE DEF r
  <2>5. r \in [1 .. Len(c) -> S] /\ Len(c) \in Nat
    BY <2>4 DEF r
  <2>6. r \in Seq(S) /\ Len(r) = Len(c)
    BY ONLY <2>5
  <2>. QED  BY <2>6 DEF r
<1>2. A!AgreeFront(A!Reverse(a), A!Reverse(b)) \in Nat
      /\ A!AgreeFront(A!Reverse(a), A!Reverse(b)) <= Len(A!Reverse(b))
  BY <1>1, AgreeFrontIs
<1>. QED  BY <1>1, <1>2 DEF A!AgreeBack

\* Of the places a text occurs at the best is one, if there is any, and its
\* neighbours agree for no less than those of the others.
LEMMA ScoreIs ==
  ASSUME NEW S, NEW h \in Seq(S), NEW q \in Seq(S), NEW p \in Seq(S), NEW f \in Seq(S),
         NEW i \in A!Occurrences(h, q)
  PROVE  /\ i \in Nat /\ i + Len(q) \in Nat /\ i + Len(q) <= Len(h)
         /\ A!Slice(h, i, i + Len(q)) = q
         /\ A!AgreeBack(A!Slice(h, 0, i), p) \in 0 .. Len(p)
         /\ A!AgreeFront(A!Slice(h, i + Len(q), Len(h)), f) \in 0 .. Len(f)
         /\ A!Score(h, i, Len(q), p, f) \in 0 .. Len(p) + Len(f)
<1>1. /\ i \in 0 .. Len(h) /\ Len(q) \in Nat /\ Len(h) \in Nat
      /\ i + Len(q) <= Len(h) /\ A!Slice(h, i, i + Len(q)) = q
  BY DEF A!Occurrences
<1>2. i \in Nat /\ i <= Len(h) /\ i + Len(q) \in Nat /\ 0 \in Nat /\ Len(p) \in Nat /\ Len(f) \in Nat
      /\ Len(h) <= Len(h)
  BY <1>1
<1>3. A!Slice(h, 0, i) \in Seq(S)
  BY <1>2, SliceTyped
<1>4. A!Slice(h, i + Len(q), Len(h)) \in Seq(S)
  BY <1>1, <1>2, SliceTyped
<1>. DEFINE x == A!AgreeBack(A!Slice(h, 0, i), p)
            y == A!AgreeFront(A!Slice(h, i + Len(q), Len(h)), f)
<1>5. x \in Nat /\ x <= Len(p)
  BY <1>3, AgreeBackIs
<1>6. y \in Nat /\ y <= Len(f)
  BY <1>4, AgreeFrontIs
<1>7. A!Score(h, i, Len(q), p, f) = x + y
  BY DEF A!Score
<1>. HIDE DEF x, y
<1>8. x \in 0 .. Len(p) /\ y \in 0 .. Len(f) /\ x + y \in 0 .. Len(p) + Len(f)
  BY <1>2, <1>5, <1>6
<1>. QED  BY <1>1, <1>2, <1>7, <1>8 DEF x, y

LEMMA BestIs ==
  ASSUME NEW S, NEW h \in Seq(S), NEW q \in Seq(S), NEW p \in Seq(S), NEW f \in Seq(S)
  PROVE  /\ A!bestMatch(h, q, p, f) \subseteq A!Occurrences(h, q)
         /\ \A i, j \in A!bestMatch(h, q, p, f) : i = j
         /\ A!Occurrences(h, q) # {} => A!bestMatch(h, q, p, f) # {}
         /\ \A i \in A!bestMatch(h, q, p, f), j \in A!Occurrences(h, q) :
              A!Score(h, j, Len(q), p, f) <= A!Score(h, i, Len(q), p, f)
<1>. DEFINE found == A!Occurrences(h, q)
            best == A!bestMatch(h, q, p, f)
            score(i) == A!Score(h, i, Len(q), p, f)
            top == Len(p) + Len(f)
            Beats(i, j) == score(j) < score(i) \/ (score(j) = score(i) /\ i <= j)
<1>1. \A i \in found : i \in Nat /\ score(i) \in 0 .. top
  BY ScoreIs
<1>2. best = {i \in found : \A j \in found : Beats(i, j)}
  BY DEF A!bestMatch
<1>3. top \in Nat
  OBVIOUS
<1>. HIDE DEF found, best, score, top
<1>4. best \subseteq found /\ \A i, j \in best : i = j
  <2>1. \A i, j \in found : Beats(i, j) /\ Beats(j, i) => i = j
    BY <1>1, <1>3
  <2>. QED  BY <1>2, <2>1
<1>5. \A i \in best, j \in found : score(j) <= score(i)
  <2>1. \A i, j \in found : Beats(i, j) => score(j) <= score(i)
    BY <1>1, <1>3
  <2>. QED  BY <1>2, <2>1
<1>6. ASSUME found # {} PROVE best # {}
  <2>. DEFINE gaps == {top - score(i) : i \in found}
  <2>1. gaps \in SUBSET Nat /\ gaps # {}
    BY <1>1, <1>3, <1>6
  <2>2. PICK g \in gaps : \A y \in gaps : g <= y
    BY <2>1, LeastIn
  <2>3. PICK k \in found : g = top - score(k)
    BY <2>2
  <2>4. \A j \in found : score(j) <= score(k)
    <3>. SUFFICES ASSUME NEW j \in found PROVE score(j) <= score(k)
      OBVIOUS
    <3>1. top - score(k) <= top - score(j)
      BY <2>2, <2>3
    <3>. QED  BY <1>1, <1>3, <3>1
  <2>. DEFINE ties == {j \in found : score(j) = score(k)}
  <2>5. ties \in SUBSET Nat /\ ties # {}
    BY <1>1
  <2>6. PICK i \in ties : \A j \in ties : i <= j
    BY <2>5, LeastIn
  <2>7. ASSUME NEW j \in found PROVE Beats(i, j)
    <3>1. score(j) <= score(i) /\ score(i) = score(k) /\ score(j) \in Int /\ score(i) \in Int
      BY <1>1, <2>4, <2>6
    <3>2. CASE score(j) = score(i)
      BY <2>6, <3>1, <3>2
    <3>3. CASE score(j) # score(i)
      BY <3>1, <3>3
    <3>. QED  BY <3>2, <3>3
  <2>8. i \in found
    OBVIOUS
  <2>. QED  BY <1>2, <2>7, <2>8
<1>. QED  BY <1>4, <1>5, <1>6 DEF found, best, score

-----------------------------------------------------------------------------
\* What is known of a page and of the comment on it.
PageChars == PageLetters \cup {0}
AnchorRead ==
  /\ s1 \in Seq(PageChars)
  /\ s2.start \in Nat /\ s2.end \in Nat /\ s2.start <= s2.end /\ s2.end <= Len(s1)
  /\ s3.quote \in Seq(PageChars) /\ s3.prefix \in Seq(PageChars) /\ s3.suffix \in Seq(PageChars)
  /\ A!squash(s3.quote) # <<>>

\* A span of the text that is found reads as the quote, between its neighbours.
Stands(span, i) ==
  /\ A!squash(A!Slice(s1, span.start, span.end)) = A!squash(s3.quote)
  /\ A!squash(A!Slice(s1, 0, span.start)) = A!Slice(A!squash(s1), 0, i)
  /\ A!squash(A!Slice(s1, span.end, Len(s1)))
       = A!Slice(A!squash(s1), i + Len(A!squash(s3.quote)), Len(A!squash(s1)))

\* A span of the text occurs, in what is kept of it, where it starts.
LEMMA SpanStands ==
  ASSUME AnchorRead, NEW span, span.start \in 0 .. Len(s1), span.end \in span.start .. Len(s1)
  PROVE  /\ A!squash(A!Slice(s1, span.start, span.end))
              = A!Slice(A!squash(s1), KeptUpTo(s1, span.start), KeptUpTo(s1, span.end))
         /\ A!squash(A!Slice(s1, 0, span.start)) = A!Slice(A!squash(s1), 0, KeptUpTo(s1, span.start))
         /\ A!squash(A!Slice(s1, span.end, Len(s1)))
              = A!Slice(A!squash(s1), KeptUpTo(s1, span.end), Len(A!squash(s1)))
         /\ KeptUpTo(s1, span.start) \in Nat /\ KeptUpTo(s1, span.end) \in Nat
         /\ KeptUpTo(s1, span.start) <= KeptUpTo(s1, span.end)
         /\ KeptUpTo(s1, span.end) <= Len(A!squash(s1))
<1>. DEFINE a == span.start
            b == span.end
<1>1. s1 \in Seq(PageChars) /\ a \in 0 .. Len(s1) /\ b \in a .. Len(s1)
  BY DEF AnchorRead
<1>. HIDE DEF a, b
<1>2. /\ b \in 0 .. Len(s1) /\ 0 \in 0 .. Len(s1) /\ Len(s1) \in 0 .. Len(s1)
      /\ Len(s1) \in b .. Len(s1) /\ a \in 0 .. Len(s1)
  BY <1>1
<1>3. /\ KeptUpTo(s1, 0) = 0 /\ KeptUpTo(s1, Len(s1)) = Len(A!squash(s1))
      /\ KeptUpTo(s1, a) \in Nat /\ KeptUpTo(s1, b) \in Nat
  BY <1>1, <1>2, KeptStarts
<1>4. A!squash(A!Slice(s1, a, b)) = A!Slice(A!squash(s1), KeptUpTo(s1, a), KeptUpTo(s1, b))
  BY <1>1, SquashOfSlice
<1>5. A!squash(A!Slice(s1, 0, a)) = A!Slice(A!squash(s1), 0, KeptUpTo(s1, a))
  BY <1>1, <1>2, <1>3, SquashOfSlice
<1>6. A!squash(A!Slice(s1, b, Len(s1))) = A!Slice(A!squash(s1), KeptUpTo(s1, b), Len(A!squash(s1)))
  BY <1>1, <1>2, <1>3, SquashOfSlice
<1>7. KeptUpTo(s1, a) <= KeptUpTo(s1, b)
  BY <1>1, KeptRises
<1>8. KeptUpTo(s1, b) <= Len(A!squash(s1))
  BY <1>1, <1>2, <1>3, KeptRises
<1>. QED  BY <1>3, <1>4, <1>5, <1>6, <1>7, <1>8 DEF a, b

\* The span locate makes of an occurrence.
SpanOf(i) == [start |-> A!At(s1, i + 1) - 1, end |-> A!At(s1, i + Len(A!squash(s3.quote)))]

LEMMA PlacesStand ==
  ASSUME AnchorRead, NEW i \in A!Occurrences(A!squash(s1), A!squash(s3.quote))
  PROVE  Stands(SpanOf(i), i)
<1>. DEFINE h == A!squash(s1)
            q == A!squash(s3.quote)
            a == A!At(s1, i + 1) - 1
            b == A!At(s1, i + Len(q))
<1>1. s1 \in Seq(PageChars) /\ h \in Seq(PageChars) /\ q \in Seq(PageChars) /\ q # <<>>
  BY SquashTyped DEF AnchorRead
<1>2. i \in 0 .. Len(h) /\ i + Len(q) <= Len(h) /\ A!Slice(h, i, i + Len(q)) = q
  BY DEF A!Occurrences
<1>3. Len(q) \in Nat /\ Len(q) # 0 /\ Len(h) \in Nat /\ Len(s1) \in Nat
  BY <1>1
<1>4. i + 1 \in 1 .. Len(h) /\ i + Len(q) \in 1 .. Len(h)
  BY <1>2, <1>3
<1>5. a + 1 \in 1 .. Len(s1) /\ KeptUpTo(s1, a) = i
  <2>. DEFINE k == i + 1
  <2>2. k \in 1 .. Len(h)
    BY <1>4
  <2>. HIDE DEF k
  <2>3. A!At(s1, k) \in 1 .. Len(s1) /\ KeptUpTo(s1, A!At(s1, k) - 1) = k - 1
    BY <1>1, <2>2, AtIs
  <2>1. k - 1 = i
    BY <1>2 DEF k
  <2>. QED  BY <2>1, <2>3 DEF k
<1>6. b \in 1 .. Len(s1) /\ KeptUpTo(s1, b) = i + Len(q)
  BY <1>1, <1>4, AtIs
<1>7. a \in Int
  BY <1>1, <1>4, AtIs
<1>8. SpanOf(i) = [start |-> a, end |-> b]
  BY DEF SpanOf
<1>. HIDE DEF a, b
<1>9. a \in 0 .. Len(s1) /\ b \in a .. Len(s1)
  <2>1. a \in 0 .. Len(s1) /\ b \in 0 .. Len(s1)
    BY <1>3, <1>5, <1>6, <1>7
  <2>2. ASSUME b < a PROVE FALSE
    <3>1. a \in b .. Len(s1)
      BY <2>1, <2>2
    <3>2. KeptUpTo(s1, b) <= KeptUpTo(s1, a)
      BY <1>1, <2>1, <3>1, KeptRises
    <3>. QED  BY <1>2, <1>3, <1>5, <1>6, <3>2
  <2>. QED  BY <2>1, <2>2
<1>. DEFINE span == [start |-> a, end |-> b]
<1>10. span.start = a /\ span.end = b
  OBVIOUS
<1>. HIDE DEF span
<1>11. /\ A!squash(A!Slice(s1, a, b)) = A!Slice(h, i, i + Len(q))
       /\ A!squash(A!Slice(s1, 0, a)) = A!Slice(h, 0, i)
       /\ A!squash(A!Slice(s1, b, Len(s1))) = A!Slice(h, i + Len(q), Len(h))
  BY <1>5, <1>6, <1>9, <1>10, SpanStands
<1>12. Stands(span, i)
  BY <1>2, <1>10, <1>11 DEF Stands
<1>. QED  BY <1>8, <1>12 DEF span

LEMMA AnchorCounts == \A Es : A!Cardinality(Es) = Cardinality(Es)
BY DEF A!Cardinality, Cardinality, A!IsFiniteSet, IsFiniteSet

LEMMA QuoteHolds == ASSUME AnchorRead PROVE A!QuoteFound
<1>. DEFINE h == A!squash(s1)
            q == A!squash(s3.quote)
            p == A!squash(s3.prefix)
            f == A!squash(s3.suffix)
            best == A!bestMatch(h, q, p, f)
            occ == A!Occurrences(h, q)
            score(i) == A!Score(h, i, Len(q), p, f)
            found == A!locate(s1, s3)
<1>1. h \in Seq(PageChars) /\ q \in Seq(PageChars) /\ p \in Seq(PageChars) /\ f \in Seq(PageChars) /\ q # <<>>
  BY SquashTyped DEF AnchorRead
<1>2. /\ best \subseteq occ /\ \A i, j \in best : i = j
      /\ occ # {} => best # {}
      /\ \A i \in best, j \in occ : score(j) <= score(i)
  <2>. HIDE DEF h, q, p, f
  <2>. QED  BY <1>1, BestIs
<1>3. found = {SpanOf(i) : i \in best}
  BY <1>1 DEF A!locate, SpanOf
<1>. HIDE DEF best, found
<1>4. \A s \in found : \E i \in best : s = SpanOf(i) /\ Stands(s, i)
  <2>. SUFFICES ASSUME NEW s \in found PROVE \E i \in best : s = SpanOf(i) /\ Stands(s, i)
    OBVIOUS
  <2>1. PICK i \in best : s = SpanOf(i)
    BY <1>3
  <2>2. Stands(SpanOf(i), i)
    BY <1>2, PlacesStand
  <2>. QED  BY <2>1, <2>2
<1>5. A!Cardinality(found) <= 1
  <2>1. CASE found = {}
    <3>1. Cardinality(found) = 0
      BY <2>1, FS_EmptySet
    <3>. QED  BY <3>1, AnchorCounts
  <2>2. CASE found # {}
    <3>1. PICK s : s \in found
      BY <2>2
    <3>2. \A u \in found : u = s
      BY <1>2, <1>4, <3>1
    <3>3. found = {s}
      BY <3>1, <3>2
    <3>4. Cardinality(found) = 1
      BY <3>3, FS_Singleton
    <3>. QED  BY <3>4, AnchorCounts
  <2>. QED  BY <2>1, <2>2
<1>6. \A s \in found : A!Same(s, s3.quote)
  BY <1>4 DEF Stands, A!Same
<1>. DEFINE place == KeptUpTo(s1, s2.start)
<1>7. ASSUME A!Same(s2, s3.quote)
      PROVE  /\ place \in occ
             /\ A!squash(A!Slice(s1, 0, s2.start)) = A!Slice(h, 0, place)
             /\ A!squash(A!Slice(s1, s2.end, Len(s1))) = A!Slice(h, place + Len(q), Len(h))
  <2>1. s2.start \in 0 .. Len(s1) /\ s2.end \in s2.start .. Len(s1)
    BY DEF AnchorRead
  <2>. DEFINE last == KeptUpTo(s1, s2.end)
  <2>2. /\ A!squash(A!Slice(s1, s2.start, s2.end)) = A!Slice(h, place, last)
        /\ A!squash(A!Slice(s1, 0, s2.start)) = A!Slice(h, 0, place)
        /\ A!squash(A!Slice(s1, s2.end, Len(s1))) = A!Slice(h, last, Len(h))
        /\ place \in Nat /\ last \in Nat /\ place <= last /\ last <= Len(h)
    BY <2>1, SpanStands
  <2>3. A!Slice(h, place, last) = q
    BY <1>7, <2>2 DEF A!Same
  <2>. HIDE DEF place, last, h, q
  <2>4. Len(A!Slice(h, place, last)) = last - place
    BY <1>1, <2>2, SliceTyped
  <2>5. last = place + Len(q)
    <3>1. Len(q) = last - place
      BY <2>3, <2>4
    <3>. QED  BY <2>2, <3>1
  <2>6. place \in occ
    <3>1. place \in 0 .. Len(h) /\ place + Len(q) <= Len(h) /\ A!Slice(h, place, place + Len(q)) = q
      BY <1>1, <2>2, <2>3, <2>5
    <3>. QED  BY <3>1 DEF A!Occurrences
  <2>. QED  BY <2>2, <2>5, <2>6
<1>8. A!Same(s2, s3.quote) => found # {}
  BY <1>2, <1>3, <1>7
<1>9. ASSUME A!Same(s2, s3.quote), A!AllOf(s2), NEW s \in found
      PROVE  A!AllOf(s)
  <2>1. PICK i \in best : Stands(s, i)
    BY <1>4
  <2>. DEFINE back(n) == A!AgreeBack(A!Slice(h, 0, n), p)
              front(n) == A!AgreeFront(A!Slice(h, n + Len(q), Len(h)), f)
  <2>2. back(place) = Len(p) /\ front(place) = Len(f)
    BY <1>7, <1>9 DEF A!AllOf
  <2>3. score(place) <= score(i)
    BY <1>2, <1>7, <1>9
  <2>4. score(place) = back(place) + front(place) /\ score(i) = back(i) + front(i)
    BY DEF A!Score
  <2>5. i \in occ
    BY <1>2
  <2>6. back(i) \in 0 .. Len(p) /\ front(i) \in 0 .. Len(f)
    <3>. HIDE DEF h, q, p, f
    <3>. QED  BY <1>1, <2>5, ScoreIs
  <2>7. Len(p) \in Nat /\ Len(f) \in Nat
    BY <1>1
  <2>. HIDE DEF score
  <2>8. back(i) = Len(p) /\ front(i) = Len(f)
    <3>. HIDE DEF back, front, p, f, place
    <3>. QED  BY <2>2, <2>3, <2>4, <2>6, <2>7
  <2>9. /\ A!squash(A!Slice(s1, 0, s.start)) = A!Slice(h, 0, i)
        /\ A!squash(A!Slice(s1, s.end, Len(s1))) = A!Slice(h, i + Len(q), Len(h))
    BY <2>1 DEF Stands
  <2>. QED  BY <2>8, <2>9 DEF A!AllOf
<1>. QED  BY <1>5, <1>6, <1>8, <1>9 DEF A!QuoteFound, found

-----------------------------------------------------------------------------
\* What is known is known from the first, and edits keep it.
LEMMA AnchorStarts == ASSUME A!Init PROVE AnchorRead
<1>1. PICK n \in 1 .. PageLen : s1 \in [1 .. n -> PageChars]
  BY DEF A!Init, A!Texts, PageChars
<1>2. s1 \in Seq(PageChars) /\ Len(s1) = n
  BY <1>1
<1>3. PICK a \in 0 .. PageLen, b \in 0 .. PageLen :
        b <= Len(s1) /\ s2 = [start |-> a, end |-> b] /\ s3 \in A!describe(s1, a, b)
  BY DEF A!Init
<1>4. a \in Nat /\ b \in Nat /\ a < b /\ b <= Len(s1) /\ A!squash(A!Slice(s1, a, b)) # <<>>
  <2>1. ~(b <= a) /\ A!squash(A!Slice(s1, a, b)) # <<>>
    BY <1>3 DEF A!describe
  <2>. QED  BY <1>3, <2>1
<1>. DEFINE from == IF a > PageContext THEN a - PageContext ELSE 0
            to == IF b + PageContext < Len(s1) THEN b + PageContext ELSE Len(s1)
<1>5. s3 = [quote |-> A!Slice(s1, a, b), prefix |-> A!Slice(s1, from, a), suffix |-> A!Slice(s1, b, to)]
  BY <1>3 DEF A!describe, A!contextAround
<1>6. from \in Nat /\ to \in Nat /\ to <= Len(s1) /\ a <= Len(s1) /\ Len(s1) \in Nat
  BY <1>2, <1>4, PagesSound DEF A!ConstantsSound
<1>. HIDE DEF from, to
<1>7. A!Slice(s1, a, b) \in Seq(PageChars) /\ A!Slice(s1, from, a) \in Seq(PageChars) /\ A!Slice(s1, b, to) \in Seq(PageChars)
  BY <1>2, <1>4, <1>6, SliceTyped
<1>8. s2.start = a /\ s2.end = b
  BY <1>3
<1>. QED  BY <1>2, <1>4, <1>5, <1>7, <1>8 DEF AnchorRead

LEMMA JoinTyped ==
  ASSUME NEW S, NEW s \in Seq(S), NEW t \in Seq(S)
  PROVE  s \o t \in Seq(S) /\ Len(s \o t) = Len(s) + Len(t)
<1>1. s \o t \in Seq(S)
  OBVIOUS
<1>2. Len(s \o t) = Len(s) + Len(t)
  OBVIOUS
<1>. QED  BY <1>1, <1>2

LEMMA CharComes ==
  ASSUME NEW S, NEW s \in Seq(S), NEW i \in 1 .. Len(s) + 1, NEW c \in S
  PROVE  A!InsertAt(s, i, c) \in Seq(S) /\ Len(A!InsertAt(s, i, c)) = Len(s) + 1
<1>. DEFINE x == SubSeq(s, 1, i - 1)
            y == SubSeq(s, i, Len(s))
            z == <<c>>
<1>1. x \in Seq(S) /\ Len(x) = i - 1
  OBVIOUS
<1>2. y \in Seq(S) /\ Len(y) = Len(s) + 1 - i
  OBVIOUS
<1>3. z \in Seq(S) /\ Len(z) = 1
  OBVIOUS
<1>4. A!InsertAt(s, i, c) = x \o z \o y
  BY DEF A!InsertAt
<1>. HIDE DEF x, y, z
<1>5. x \o z \in Seq(S) /\ Len(x \o z) = Len(x) + Len(z)
  BY <1>1, <1>3, JoinTyped
<1>. DEFINE xz == x \o z
<1>6. xz \in Seq(S) /\ Len(xz) = i
  BY <1>1, <1>3, <1>5
<1>. HIDE DEF xz
<1>7. xz \o y \in Seq(S) /\ Len(xz \o y) = Len(xz) + Len(y)
  BY <1>2, <1>6, JoinTyped
<1>8. Len(xz) + Len(y) = Len(s) + 1
  BY <1>2, <1>6
<1>. QED  BY <1>4, <1>7, <1>8 DEF xz

LEMMA CharGoes ==
  ASSUME NEW S, NEW s \in Seq(S), NEW i \in 1 .. Len(s)
  PROVE  A!RemoveAt(s, i) \in Seq(S) /\ Len(A!RemoveAt(s, i)) = Len(s) - 1
<1>. DEFINE x == SubSeq(s, 1, i - 1)
            y == SubSeq(s, i + 1, Len(s))
<1>1. x \in Seq(S) /\ Len(x) = i - 1
  OBVIOUS
<1>2. y \in Seq(S) /\ Len(y) = Len(s) - i
  OBVIOUS
<1>3. A!RemoveAt(s, i) = x \o y
  BY DEF A!RemoveAt
<1>. HIDE DEF x, y
<1>4. x \o y \in Seq(S) /\ Len(x \o y) = Len(s) - 1
  BY <1>1, <1>2, JoinTyped
<1>. QED  BY <1>3, <1>4

LEMMA AnchorStep == ASSUME AnchorRead, [A!Next]_(A!vars) PROVE AnchorRead'
<1>0. s1 \in Seq(PageChars) /\ Len(s1) \in Nat /\ s2.start \in Nat /\ s2.end \in Nat
      /\ s2.start <= s2.end /\ s2.end <= Len(s1)
  BY DEF AnchorRead
<1>1. CASE A!EditBefore
  <2>1. s3' = s3
    BY <1>1 DEF A!EditBefore
  <2>2. CASE \E i \in 1 .. s2.start + 1, c \in PageChars :
               s1' = A!InsertAt(s1, i, c) /\ s2' = [start |-> s2.start + 1, end |-> s2.end + 1]
    <3>1. PICK i \in 1 .. s2.start + 1, c \in PageChars :
            s1' = A!InsertAt(s1, i, c) /\ s2' = [start |-> s2.start + 1, end |-> s2.end + 1]
      BY <2>2
    <3>2. i \in 1 .. Len(s1) + 1
      BY <1>0
    <3>3. s1' \in Seq(PageChars) /\ Len(s1') = Len(s1) + 1
      BY <1>0, <3>1, <3>2, CharComes
    <3>4. s2'.start = s2.start + 1 /\ s2'.end = s2.end + 1
      BY <3>1
    <3>5. /\ s2'.start \in Nat /\ s2'.end \in Nat
          /\ s2'.start <= s2'.end /\ s2'.end <= Len(s1')
      BY <1>0, <3>3, <3>4
    <3>. QED  BY <2>1, <3>3, <3>5 DEF AnchorRead
  <2>3. CASE \E i \in 1 .. s2.start :
               s1' = A!RemoveAt(s1, i) /\ s2' = [start |-> s2.start - 1, end |-> s2.end - 1]
    <3>1. PICK i \in 1 .. s2.start :
            s1' = A!RemoveAt(s1, i) /\ s2' = [start |-> s2.start - 1, end |-> s2.end - 1]
      BY <2>3
    <3>2. i \in 1 .. Len(s1) /\ s2.start # 0
      BY <1>0
    <3>3. s1' \in Seq(PageChars) /\ Len(s1') = Len(s1) - 1
      BY <1>0, <3>1, <3>2, CharGoes
    <3>4. s2'.start = s2.start - 1 /\ s2'.end = s2.end - 1
      BY <3>1
    <3>5. /\ s2'.start \in Nat /\ s2'.end \in Nat
          /\ s2'.start <= s2'.end /\ s2'.end <= Len(s1')
      BY <1>0, <3>2, <3>3, <3>4
    <3>. QED  BY <2>1, <3>3, <3>5 DEF AnchorRead
  <2>. QED  BY <1>1, <2>2, <2>3 DEF A!EditBefore, PageChars
<1>2. CASE A!EditAfter
  <2>1. s3' = s3 /\ s2' = s2
    BY <1>2 DEF A!EditAfter
  <2>2. CASE \E i \in s2.end + 1 .. Len(s1) + 1, c \in PageChars : s1' = A!InsertAt(s1, i, c)
    <3>1. PICK i \in s2.end + 1 .. Len(s1) + 1, c \in PageChars : s1' = A!InsertAt(s1, i, c)
      BY <2>2
    <3>2. i \in 1 .. Len(s1) + 1
      BY <1>0
    <3>3. s1' \in Seq(PageChars) /\ Len(s1') = Len(s1) + 1
      BY <1>0, <3>1, <3>2, CharComes
    <3>4. s2.end <= Len(s1')
      BY <1>0, <3>3
    <3>. QED  BY <2>1, <3>3, <3>4 DEF AnchorRead
  <2>3. CASE \E i \in s2.end + 1 .. Len(s1) : s1' = A!RemoveAt(s1, i)
    <3>1. PICK i \in s2.end + 1 .. Len(s1) : s1' = A!RemoveAt(s1, i)
      BY <2>3
    <3>2. i \in 1 .. Len(s1) /\ s2.end + 1 <= Len(s1)
      BY <1>0
    <3>3. s1' \in Seq(PageChars) /\ Len(s1') = Len(s1) - 1
      BY <1>0, <3>1, <3>2, CharGoes
    <3>4. s2.end <= Len(s1')
      BY <1>0, <3>2, <3>3
    <3>. QED  BY <2>1, <3>3, <3>4 DEF AnchorRead
  <2>. QED  BY <1>2, <2>2, <2>3 DEF A!EditAfter, PageChars
<1>3. CASE A!EditWithin
  <2>1. s3' = s3 /\ s2' = s2
    BY <1>3 DEF A!EditWithin
  <2>2. PICK i \in s2.start + 1 .. s2.end, c \in PageLetters : s1' = [s1 EXCEPT ![i] = c]
    BY <1>3 DEF A!EditWithin
  <2>3. i \in 1 .. Len(s1) /\ c \in PageChars
    BY <1>0 DEF PageChars
  <2>4. s1' \in Seq(PageChars) /\ Len(s1') = Len(s1)
    BY <1>0, <2>2, <2>3
  <2>. QED  BY <2>1, <2>4 DEF AnchorRead
<1>4. CASE UNCHANGED A!vars
  BY <1>4 DEF A!vars, AnchorRead
<1>. QED  BY <1>1, <1>2, <1>3, <1>4 DEF A!Next
===============================================================================
