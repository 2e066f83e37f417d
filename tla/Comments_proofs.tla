--------------------------- MODULE Comments_proofs ---------------------------
(***************************************************************************)
(* What holds of Comments for any number of threads and of acts: the list    *)
(* comes to be the hub's, and a frame comes to mark what the panel shows.    *)
(***************************************************************************)
EXTENDS Comments, TLAPS, SequenceTheorems

Bounds == MaxThreads \in Nat \ {0} /\ MaxActs \in Nat

-----------------------------------------------------------------------------
(* The state                                                               *)

Thread == [id : Ids, resolved : BOOLEAN, notes : Nat]
ListRead == [done : BOOLEAN, threads : SUBSET Thread]
Call == [from : Ids \cup {Composer, Foot}, kind : {"create", "reply", "resolve", "reopen", "remove"},
         id : 0 .. MaxThreads, note : BOOLEAN, no : Nat, answer : {"none", "ok", "error"},
         thread : SUBSET Thread]

\* Places the page marks, each with the number of some list.
Mark == [id : Ids, n : {Cardinality(l) : l \in SUBSET Thread}]
Message == [type : {"anchors", "pick", "focus", "clear"}, pins : SUBSET Mark,
            id : 0 .. MaxThreads, on : BOOLEAN]
Said == [type : {"ready", "select", "unselect", "picked", "pickoff", "open"}, id : 0 .. MaxThreads]

Listed ==
  /\ threads \in SUBSET Thread /\ list \in SUBSET Thread
  /\ read \in SUBSET ListRead /\ (read = {} \/ \E r \in ListRead : read = {r})
  /\ calls \in SUBSET Call
  /\ missed \in BOOLEAN /\ made \in 1 .. MaxThreads /\ acts \in 0 .. MaxActs
Framing ==
  /\ pins \in SUBSET Mark /\ active \in 0 .. MaxThreads /\ focus \in 0 .. MaxThreads
  /\ picking \in BOOLEAN /\ crosshair \in BOOLEAN
  /\ down \in Seq(Message) /\ up \in Seq(Said)
Typed == Listed /\ Framing

-----------------------------------------------------------------------------
(* The list                                                                *)

\* A write whose end is followed by a read: a removal, or one the hub took.
Owing == \E c \in calls : c.kind = "remove" \/ c.answer = "ok"

\* What differs from the hub's list is known to have changed, is about to be read,
\* or will be once a write of this tab has ended.
Accounted ==
  \/ missed \/ Owing
  \/ \E r \in read : ~r.done \/ r.threads = threads
  \/ read = {} /\ list = threads

-----------------------------------------------------------------------------
(* The frame                                                               *)

\* The last message of d of some types is at i, or there is none and i is 0.
LastOf(d, types, i) ==
  /\ i \in 0 .. Len(d) /\ (i # 0 => d[i].type \in types)
  /\ \A j \in i + 1 .. Len(d) : d[j].type \notin types

\* What the frame, where it holds x now, will hold when it has heard d: off is
\* whether it may have left the pick mode by itself.
Marking == {"anchors"}
Focusing == {"anchors", "focus"}
Picking == {"pick"}
WillMark(x, d, v) == \A i : LastOf(d, Marking, i) => (IF i = 0 THEN x ELSE d[i].pins) = v
WillFocus(x, d, f) == \A i : LastOf(d, Focusing, i) => (IF i = 0 THEN x ELSE d[i].id) = f
WillPick(x, d, on, off) ==
  \A i : LastOf(d, Picking, i) =>
    LET now == IF i = 0 THEN x ELSE d[i].on IN now = on \/ (off /\ ~now)

\* The reader left the pick mode and the app has not heard of it.
Leaving(u) == \E i \in 1 .. Len(u) : u[i].type \in {"picked", "pickoff"}

\* The frame's first message is the only one that says it is ready; until the app
\* heard it, what it sends the frame says only what changed.
Greets == \A i \in 2 .. Len(up) : up[i].type # "ready"
Greeting == up # <<>> /\ up[1].type = "ready"

Aware == WillMark(pins, down, Shown(list)) /\ WillFocus(active, down, focus) /\ WillPick(crosshair, down, picking, Leaving(up))
Following == Greets /\ (framed /\ page = "ready" /\ ~Greeting => Aware)

-----------------------------------------------------------------------------
(* Messages                                                                *)

LEMMA ShownMarks ==
  ASSUME NEW l \in SUBSET Thread
  PROVE  Shown(l) \in SUBSET Mark
<1>1. ASSUME NEW t \in l
      PROVE  [id |-> t.id, n |-> Number(l, t.id)] \in Mark
  <2>1. {x \in l : x.id <= t.id} \in SUBSET Thread /\ t.id \in Ids
    BY DEF Thread
  <2>. QED  BY <2>1 DEF Mark, Number
<1>. QED  BY <1>1 DEF Shown

LEMMA MessageTypes ==
  ASSUME Bounds, NEW l \in SUBSET Thread, NEW f \in 0 .. MaxThreads, NEW on \in BOOLEAN
  PROVE  /\ AnchorsDown(l, f)[1] \in Message /\ PickDown(on)[1] \in Message
         /\ FocusDown(f)[1] \in Message /\ ClearDown[1] \in Message
BY ShownMarks DEF Bounds, AnchorsDown, PickDown, FocusDown, ClearDown, Message

Plus(d, m) == d \o <<m>>

LEMMA AppendedAt ==
  ASSUME NEW d \in Seq(Message), NEW m \in Message
  PROVE  /\ Len(d) \in Nat /\ Len(Plus(d, m)) = Len(d) + 1 /\ Plus(d, m)[Len(d) + 1] = m
         /\ \A j \in 1 .. Len(d) : Plus(d, m)[j] = d[j]
BY AppendProperties, AppendIsConcat, LenProperties DEF Plus

LEMMA LastIsNew ==
  ASSUME NEW d \in Seq(Message), NEW m \in Message, NEW types, NEW i,
         LastOf(Plus(d, m), types, i), m.type \in types
  PROVE  i # 0 /\ Plus(d, m)[i] = m
<1>1. /\ Len(d) \in Nat /\ Len(Plus(d, m)) = Len(d) + 1 /\ Plus(d, m)[Len(d) + 1] = m
  BY AppendedAt
<1>2. i \in 0 .. Len(d) + 1 /\ (i # Len(d) + 1 => Len(d) + 1 \in i + 1 .. Len(d) + 1)
  BY <1>1 DEF LastOf
<1>3. i = Len(d) + 1
  BY <1>1, <1>2 DEF LastOf
<1>. QED  BY <1>1, <1>3

LEMMA LastIsOld ==
  ASSUME NEW d \in Seq(Message), NEW m \in Message, NEW types, NEW i,
         LastOf(Plus(d, m), types, i), m.type \notin types
  PROVE  LastOf(d, types, i)
<1>1. /\ Len(d) \in Nat /\ Len(Plus(d, m)) = Len(d) + 1 /\ Plus(d, m)[Len(d) + 1] = m
      /\ \A j \in 1 .. Len(d) : Plus(d, m)[j] = d[j]
  BY AppendedAt
<1>2. i \in 0 .. Len(d) + 1 /\ i # Len(d) + 1
  BY <1>1 DEF LastOf
<1>. QED  BY <1>1, <1>2 DEF LastOf

LEMMA OldIsKept ==
  ASSUME NEW d \in Seq(Message), NEW m \in Message, NEW types, NEW i,
         LastOf(d, types, i), i # 0
  PROVE  Plus(d, m)[i] = d[i]
<1>1. Len(d) \in Nat /\ \A j \in 1 .. Len(d) : Plus(d, m)[j] = d[j]
  BY AppendedAt
<1>. QED  BY <1>1 DEF LastOf

\* What one more message changes.
LEMMA OneMark ==
  ASSUME NEW x, NEW d \in Seq(Message), NEW m \in Message, NEW v,
         m.type = "anchors" => m.pins = v, m.type # "anchors" => WillMark(x, d, v)
  PROVE  WillMark(x, Plus(d, m), v)
<1>. SUFFICES ASSUME NEW i, LastOf(Plus(d, m), Marking, i)
              PROVE  (IF i = 0 THEN x ELSE Plus(d, m)[i].pins) = v
  BY DEF WillMark
<1>1. CASE m.type \in Marking
  <2>1. i # 0 /\ Plus(d, m)[i] = m
    BY <1>1, LastIsNew
  <2>. QED  BY <1>1, <2>1 DEF Marking
<1>2. CASE m.type \notin Marking
  <2>1. LastOf(d, Marking, i)
    BY <1>2, LastIsOld
  <2>2. CASE i # 0
    <3>1. Plus(d, m)[i] = d[i]
      BY <2>1, <2>2, OldIsKept
    <3>. QED  BY <1>2, <2>1, <2>2, <3>1 DEF WillMark, Marking
  <2>3. CASE i = 0
    BY <1>2, <2>1, <2>3 DEF WillMark, Marking
  <2>. QED  BY <2>2, <2>3
<1>. QED  BY <1>1, <1>2

LEMMA OneFocus ==
  ASSUME NEW x, NEW d \in Seq(Message), NEW m \in Message, NEW f,
         m.type \in {"anchors", "focus"} => m.id = f,
         m.type \notin {"anchors", "focus"} => WillFocus(x, d, f)
  PROVE  WillFocus(x, Plus(d, m), f)
<1>. SUFFICES ASSUME NEW i, LastOf(Plus(d, m), Focusing, i)
              PROVE  (IF i = 0 THEN x ELSE Plus(d, m)[i].id) = f
  BY DEF WillFocus
<1>1. CASE m.type \in Focusing
  <2>1. i # 0 /\ Plus(d, m)[i] = m
    BY <1>1, LastIsNew
  <2>. QED  BY <1>1, <2>1 DEF Focusing
<1>2. CASE m.type \notin Focusing
  <2>1. LastOf(d, Focusing, i)
    BY <1>2, LastIsOld
  <2>2. CASE i # 0
    <3>1. Plus(d, m)[i] = d[i]
      BY <2>1, <2>2, OldIsKept
    <3>. QED  BY <1>2, <2>1, <2>2, <3>1 DEF WillFocus, Focusing
  <2>3. CASE i = 0
    BY <1>2, <2>1, <2>3 DEF WillFocus, Focusing
  <2>. QED  BY <2>2, <2>3
<1>. QED  BY <1>1, <1>2

LEMMA OnePick ==
  ASSUME NEW x, NEW d \in Seq(Message), NEW m \in Message, NEW on, NEW off,
         m.type = "pick" => m.on = on, m.type # "pick" => WillPick(x, d, on, off)
  PROVE  WillPick(x, Plus(d, m), on, off)
<1>. SUFFICES ASSUME NEW i, LastOf(Plus(d, m), Picking, i)
              PROVE  LET now == IF i = 0 THEN x ELSE Plus(d, m)[i].on IN now = on \/ (off /\ ~now)
  BY DEF WillPick
<1>1. CASE m.type \in Picking
  <2>1. i # 0 /\ Plus(d, m)[i] = m
    BY <1>1, LastIsNew
  <2>. QED  BY <1>1, <2>1 DEF Picking
<1>2. CASE m.type \notin Picking
  <2>1. LastOf(d, Picking, i)
    BY <1>2, LastIsOld
  <2>2. LET now == IF i = 0 THEN x ELSE d[i].on IN now = on \/ (off /\ ~now)
    BY <1>2, <2>1 DEF WillPick, Picking
  <2>3. CASE i # 0
    <3>1. Plus(d, m)[i] = d[i]
      BY <2>1, <2>3, OldIsKept
    <3>. QED  BY <2>2, <2>3, <3>1
  <2>4. CASE i = 0
    BY <2>2, <2>4
  <2>. QED  BY <2>3, <2>4
<1>. QED  BY <1>1, <1>2

LEMMA OneMore ==
  ASSUME NEW d \in Seq(Message), NEW m \in Message
  PROVE  Plus(d, m) \in Seq(Message)
BY AppendProperties, AppendIsConcat DEF Plus

\* Who no longer has left, or is known not to pick.
LEMMA StillPicks ==
  ASSUME NEW x \in BOOLEAN, NEW d \in Seq(Message), NEW on \in BOOLEAN, NEW off \in BOOLEAN,
         NEW left \in BOOLEAN, off => left \/ ~on, WillPick(x, d, on, off)
  PROVE  WillPick(x, d, on, left)
<1>. DEFINE now(i) == IF i = 0 THEN x ELSE d[i].on
<1>. SUFFICES ASSUME NEW i, LastOf(d, Picking, i)
              PROVE  now(i) = on \/ (left /\ ~now(i))
  BY DEF WillPick
<1>1. now(i) = on \/ (off /\ ~now(i))
  BY DEF WillPick
<1>2. now(i) \in BOOLEAN
  <2>1. CASE i = 0
    BY <2>1
  <2>2. CASE i # 0
    <3>1. i \in 1 .. Len(d)
      BY <2>2, LenProperties DEF LastOf
    <3>2. d[i] \in Message
      BY <3>1, ElementOfSeq
    <3>. QED  BY <2>2, <3>2 DEF Message
  <2>. QED  BY <2>1, <2>2
<1>. HIDE DEF now
<1>. QED  BY <1>1, <1>2

LEMMA TailAt ==
  ASSUME NEW d \in Seq(Message), d # <<>>, NEW e, e = Tail(d), NEW types, NEW i, LastOf(e, types, i)
  PROVE  /\ Len(d) \in Nat \ {0} /\ Len(e) = Len(d) - 1 /\ \A j \in 1 .. Len(d) - 1 : e[j] = d[j + 1]
         /\ i \in 0 .. Len(d) - 1 /\ \A j \in i + 2 .. Len(d) : d[j].type \notin types
<1>1. Len(d) \in Nat \ {0} /\ Len(e) = Len(d) - 1 /\ \A j \in 1 .. Len(d) - 1 : e[j] = d[j + 1]
  BY EmptySeq, HeadTailProperties
<1>2. i \in 0 .. Len(d) - 1
  BY <1>1 DEF LastOf
<1>3. ASSUME NEW j \in i + 2 .. Len(d)
      PROVE  d[j].type \notin types
  <2>1. j - 1 \in i + 1 .. Len(d) - 1 /\ d[j] = e[j - 1]
    BY <1>1, <1>2
  <2>. QED  BY <1>1, <2>1 DEF LastOf
<1>. QED  BY <1>1, <1>2, <1>3

At(d, i) == d[i]
Rest(e, d) == d # <<>> /\ e = Tail(d)

LEMMA LaterOfTail ==
  ASSUME NEW d \in Seq(Message), NEW e, Rest(e, d), NEW types, NEW i, LastOf(e, types, i), i # 0
  PROVE  \E k : LastOf(d, types, k) /\ k # 0 /\ At(e, i) = At(d, k)
<1>1. /\ Len(d) \in Nat \ {0} /\ Len(e) = Len(d) - 1 /\ \A j \in 1 .. Len(d) - 1 : e[j] = d[j + 1]
      /\ i \in 0 .. Len(d) - 1 /\ \A j \in i + 2 .. Len(d) : d[j].type \notin types
  BY TailAt DEF Rest
<1>. DEFINE k == i + 1
<1>2. e[i] = d[k] /\ e[i].type \in types /\ k \in 0 .. Len(d) /\ k # 0
  BY <1>1 DEF LastOf
<1>3. LastOf(d, types, k)
  BY <1>1, <1>2 DEF LastOf
<1>. HIDE DEF k
<1>4. At(e, i) = At(d, k)
  BY <1>2 DEF At
<1>. QED  BY <1>2, <1>3, <1>4

LEMMA FirstOfTail ==
  ASSUME NEW d \in Seq(Message), NEW e, Rest(e, d), NEW types, NEW i, LastOf(e, types, i), i = 0
  PROVE  LastOf(d, types, IF d[1].type \in types THEN 1 ELSE 0)
<1>1. Len(d) \in Nat \ {0} /\ \A j \in i + 2 .. Len(d) : d[j].type \notin types
  BY TailAt DEF Rest
<1>. QED  BY <1>1 DEF LastOf

-----------------------------------------------------------------------------
(* A commit                                                                *)

LEMMA EffectsTyped ==
  ASSUME Bounds, Typed, NEW l \in SUBSET Thread, NEW f \in 0 .. MaxThreads, NEW p \in BOOLEAN
  PROVE  /\ Effects(l, f, p) \in Seq(Message)
         /\ AnchorsDown(l, f) \in Seq(Message) /\ PickDown(p) \in Seq(Message)
         /\ FocusDown(f) \in Seq(Message) /\ ClearDown \in Seq(Message)
<1>1. /\ AnchorsDown(l, f) \in Seq(Message) /\ PickDown(p) \in Seq(Message)
      /\ FocusDown(f) \in Seq(Message) /\ ClearDown \in Seq(Message) /\ <<>> \in Seq(Message)
  BY MessageTypes DEF AnchorsDown, PickDown, FocusDown, ClearDown
<1>2. ASSUME NEW a \in Seq(Message), NEW b \in Seq(Message)
      PROVE  a \o b \in Seq(Message)
  BY <1>2, ConcatProperties
<1>. QED  BY <1>1, <1>2 DEF Effects

LEMMA CommitTyped ==
  ASSUME Bounds, Typed, NEW l \in SUBSET Thread, NEW f \in 0 .. MaxThreads, NEW p \in BOOLEAN,
         NEW first \in Seq(Message), Commit(l, f, p, first)
  PROVE  /\ list' \in SUBSET Thread /\ focus' \in 0 .. MaxThreads /\ picking' \in BOOLEAN
         /\ down' \in Seq(Message) /\ pins' \in SUBSET Mark /\ active' \in 0 .. MaxThreads
<1>1. Effects(l, f, p) \in Seq(Message)
  BY EffectsTyped
<1>2. first \o Effects(l, f, p) \in Seq(Message) /\ <<>> \in Seq(Message)
  BY <1>1, ConcatProperties
<1>3. Posted(first \o Effects(l, f, p)) \in Seq(Message)
  BY <1>2 DEF Posted
<1>4. down' \in Seq(Message)
  BY <1>3, ConcatProperties DEF Commit, Typed, Framing
<1>. QED  BY <1>4, ShownMarks DEF Commit, Typed, Framing

Join(s, t) == s \o t

LEMMA JoinAssociates ==
  ASSUME NEW M, NEW x \in Seq(M), NEW y \in Seq(M), NEW z \in Seq(M)
  PROVE  Join(Join(x, y), z) = Join(x, Join(y, z))
BY ConcatAssociative DEF Join

LEMMA JoinCloses ==
  ASSUME NEW M, NEW x \in Seq(M), NEW y \in Seq(M)
  PROVE  Join(x, y) \in Seq(M)
BY ConcatProperties DEF Join

LEMMA FiveJoined ==
  ASSUME NEW M, NEW a \in Seq(M), NEW b \in Seq(M), NEW c \in Seq(M), NEW d \in Seq(M), NEW e \in Seq(M)
  PROVE  Join(Join(Join(Join(a, b), c), d), e) = Join(a, Join(b, Join(Join(c, d), e)))
<1>1. Join(a, b) \in Seq(M) /\ Join(c, d) \in Seq(M) /\ Join(Join(c, d), e) \in Seq(M)
  BY JoinCloses
<1>2. Join(Join(Join(a, b), c), d) = Join(Join(a, b), Join(c, d))
  BY <1>1, JoinAssociates
<1>3. Join(Join(Join(a, b), Join(c, d)), e) = Join(Join(a, b), Join(Join(c, d), e))
  BY <1>1, JoinAssociates
<1>4. Join(Join(a, b), Join(Join(c, d), e)) = Join(a, Join(b, Join(Join(c, d), e)))
  BY <1>1, JoinAssociates
<1>. QED  BY <1>2, <1>3, <1>4

\* A commit tells the frame what it changed.  off is whether the reader is known to
\* have left the pick mode, before and after.
LEMMA CommitTells ==
  ASSUME Bounds, Typed, framed, page = "ready", crosshair' = crosshair,
         NEW l \in SUBSET Thread, NEW f \in 0 .. MaxThreads, NEW p \in BOOLEAN,
         NEW first \in {<<>>, ClearDown}, Commit(l, f, p, first),
         NEW off \in BOOLEAN, NEW left \in BOOLEAN, off => left \/ ~p,
         WillMark(pins, down, Shown(list)), WillFocus(active, down, focus), WillPick(crosshair, down, picking, off)
  PROVE  /\ WillMark(pins', down', Shown(l)) /\ WillFocus(active', down', f) /\ WillPick(crosshair', down', p, left)
<1>. DEFINE anchors == IF Shown(l) # Shown(list) \/ f # focus THEN AnchorsDown(l, f) ELSE <<>>
            pick == IF p # picking THEN PickDown(p) ELSE <<>>
            see == IF f # focus /\ f # 0 THEN FocusDown(f) ELSE <<>>
            d1 == Join(down, first)
            d2 == Join(d1, anchors)
            d3 == Join(d2, pick)
            d4 == Join(d3, see)
<1>0. /\ anchors \in Seq(Message) /\ pick \in Seq(Message) /\ see \in Seq(Message)
      /\ first \in Seq(Message) /\ down \in Seq(Message)
  BY EffectsTyped, EmptySeq DEF Typed, Framing
<1>1. down' = d4 /\ UNCHANGED <<pins, active>>
  <2>1. /\ down' = Join(down, Join(first, Join(Join(anchors, pick), see)))
        /\ UNCHANGED <<pins, active>>
    BY DEF Commit, Posted, Effects, Join
  <2>. HIDE DEF anchors, pick, see
  <2>. QED  BY <1>0, <2>1, FiveJoined
<1>2. d1 \in Seq(Message) /\ WillMark(pins, d1, Shown(list)) /\ WillFocus(active, d1, focus) /\ WillPick(crosshair, d1, picking, off)
  <2>1. CASE first = <<>>
    BY <1>0, <2>1, ConcatEmptySeq DEF Join
  <2>2. CASE first = ClearDown
    <3>. DEFINE m == ClearDown[1]
    <3>1. m \in Message /\ m.type = "clear" /\ d1 = Plus(down, m)
      BY <2>2, MessageTypes DEF ClearDown, Join, Plus
    <3>. HIDE DEF m, d1
    <3>. QED  BY <1>0, <3>1, OneMark, OneFocus, OnePick, OneMore
  <2>. QED  BY <2>1, <2>2
<1>. HIDE DEF d1
<1>3. d2 \in Seq(Message) /\ WillMark(pins, d2, Shown(l)) /\ WillFocus(active, d2, f) /\ WillPick(crosshair, d2, picking, off)
  <2>1. CASE Shown(l) # Shown(list) \/ f # focus
    <3>. DEFINE m == AnchorsDown(l, f)[1]
    <3>1. m \in Message /\ m.type = "anchors" /\ m.pins = Shown(l) /\ m.id = f /\ d2 = Plus(d1, m)
      BY <2>1, MessageTypes DEF AnchorsDown, Join, Plus
    <3>. HIDE DEF m, d2
    <3>. QED  BY <1>2, <3>1, OneMark, OneFocus, OnePick, OneMore
  <2>2. CASE Shown(l) = Shown(list) /\ f = focus
    BY <1>2, <2>2, ConcatEmptySeq DEF Join
  <2>. QED  BY <2>1, <2>2
<1>. HIDE DEF d2
<1>4. d3 \in Seq(Message) /\ WillMark(pins, d3, Shown(l)) /\ WillFocus(active, d3, f) /\ WillPick(crosshair, d3, p, left)
  <2>1. CASE p # picking
    <3>. DEFINE m == PickDown(p)[1]
    <3>1. m \in Message /\ m.type = "pick" /\ m.on = p /\ d3 = Plus(d2, m)
      BY <2>1, MessageTypes DEF PickDown, Join, Plus
    <3>. HIDE DEF m, d3
    <3>. QED  BY <1>3, <3>1, OneMark, OneFocus, OnePick, OneMore
  <2>2. CASE p = picking
    <3>1. d3 = d2
      BY <1>3, <2>2, ConcatEmptySeq DEF Join
    <3>2. WillPick(crosshair, d2, p, left)
      <4>1. crosshair \in BOOLEAN
        BY DEF Typed, Framing
      <4>2. d2 \in Seq(Message) /\ WillPick(crosshair, d2, p, off)
        BY <1>3, <2>2
      <4>. QED  BY <4>1, <4>2, StillPicks
    <3>. QED  BY <1>3, <3>1, <3>2
  <2>. QED  BY <2>1, <2>2
<1>. HIDE DEF d3
<1>5. d4 \in Seq(Message) /\ WillMark(pins, d4, Shown(l)) /\ WillFocus(active, d4, f) /\ WillPick(crosshair, d4, p, left)
  <2>1. CASE f # focus /\ f # 0
    <3>. DEFINE m == FocusDown(f)[1]
    <3>1. m \in Message /\ m.type = "focus" /\ m.id = f /\ d4 = Plus(d3, m)
      BY <2>1, MessageTypes DEF FocusDown, Join, Plus
    <3>. HIDE DEF m, d4
    <3>. QED  BY <1>4, <3>1, OneMark, OneFocus, OnePick, OneMore
  <2>2. CASE f = focus \/ f = 0
    BY <1>4, <2>2, ConcatEmptySeq DEF Join
  <2>. QED  BY <2>1, <2>2
<1>. QED  BY <1>1, <1>5

-----------------------------------------------------------------------------
(* Types are kept                                                          *)

LEMMA InitTyped ==
  ASSUME Bounds, Init
  PROVE  Typed
<1>1. 1 \in Ids /\ 0 \in 0 .. MaxThreads /\ 1 \in 1 .. MaxThreads /\ 0 \in 0 .. MaxActs
  BY DEF Bounds, Ids
<1>2. threads \in SUBSET Thread /\ list \in SUBSET Thread
  BY <1>1 DEF Init, Thread
<1>3. Listed
  BY <1>1, <1>2 DEF Init, Listed
<1>4. Framing
  <2>1. pins \in SUBSET Mark
    BY <1>2, ShownMarks DEF Init
  <2>2. down = <<>> /\ up = <<>> /\ active = 0 /\ focus = 0 /\ picking = FALSE /\ crosshair = FALSE
    BY DEF Init
  <2>. QED  BY <1>1, <2>1, <2>2, EmptySeq DEF Framing
<1>. QED  BY <1>3, <1>4 DEF Typed

LEMMA ThreadOps ==
  ASSUME Bounds, NEW l \in SUBSET Thread, NEW t \in Thread,
         NEW kind, NEW note \in BOOLEAN
  PROVE  After(t, kind, note) \in Thread /\ Replaced(l, t) \in SUBSET Thread
<1>1. t.resolved \in BOOLEAN /\ t.notes \in Nat /\ t.id \in Ids
  BY DEF Thread
<1>2. ((kind = "resolve") \/ (kind = "reply" /\ t.resolved)) \in BOOLEAN
  BY <1>1
<1>3. (IF note THEN t.notes + 1 ELSE t.notes) \in Nat
  BY <1>1
<1>4. After(t, kind, note) \in Thread
  BY <1>2, <1>3 DEF After, Thread
<1>5. Replaced(l, t) \in SUBSET Thread
  BY DEF Replaced, Of
<1>. QED  BY <1>4, <1>5

LEMMA PlaceTyped ==
  ASSUME Bounds, NEW l \in SUBSET Thread, NEW c \in Call
  PROVE  Place(l, c) \in SUBSET Thread
<1>1. ASSUME NEW t \in c.thread
      PROVE  Replaced(l, t) \in SUBSET Thread
  BY DEF Replaced, Of, Call
<1>. QED  BY <1>1 DEF Place

LEMMA SendTyped ==
  ASSUME Bounds, Listed, NEW from \in Ids \cup {Composer, Foot},
         NEW kind \in {"create", "reply", "resolve", "reopen", "remove"},
         NEW id \in 0 .. MaxThreads, NEW note \in BOOLEAN, Send(from, kind, id, note)
  PROVE  calls' \in SUBSET Call /\ acts' \in 0 .. MaxActs
<1>1. acts' \in 0 .. MaxActs
  BY DEF Send, Acting, Listed, Bounds
<1>2. [from |-> from, kind |-> kind, id |-> id, note |-> note,
       no |-> acts, answer |-> "none", thread |-> {}] \in Call
  BY DEF Listed, Bounds, Call
<1>. QED  BY <1>1, <1>2 DEF Send, Listed

\* What every act but the frame's does to the frame: it may tell it something.
Telling ==
  /\ UNCHANGED <<up, framed, page, crosshair>>
  /\ \E l \in SUBSET Thread, f \in 0 .. MaxThreads, p \in BOOLEAN, first \in {<<>>, ClearDown} :
       Commit(l, f, p, first)

LEMMA TellingFrames ==
  ASSUME Bounds, Typed, Telling
  PROVE  Framing' /\ list' \in SUBSET Thread
<1>1. PICK l \in SUBSET Thread, f \in 0 .. MaxThreads, p \in BOOLEAN, first \in {<<>>, ClearDown} :
        Commit(l, f, p, first)
  BY DEF Telling
<1>2. ClearDown \in Seq(Message) /\ <<>> \in Seq(Message)
  BY EffectsTyped, EmptySeq
<1>3. first \in Seq(Message)
  BY <1>2
<1>. QED  BY <1>1, <1>3, CommitTyped DEF Telling, Framing, Typed

LEMMA SameTells ==
  ASSUME Bounds, Typed, Same, UNCHANGED <<up, framed, page, crosshair>>
  PROVE  Telling /\ list' = list
<1>1. list' = list
  BY DEF Same, Commit
<1>2. list \in SUBSET Thread /\ focus \in 0 .. MaxThreads /\ picking \in BOOLEAN
  BY DEF Typed, Listed, Framing
<1>. QED  BY <1>1, <1>2 DEF Same, Telling

LEMMA RefetchTyped ==
  ASSUME Refetch
  PROVE  /\ read' \in SUBSET ListRead /\ (\E r \in ListRead : read' = {r}) /\ missed' \in BOOLEAN
         /\ \E r \in read' : ~r.done
<1>1. [done |-> FALSE, threads |-> {}] \in ListRead
  BY DEF ListRead
<1>. QED  BY <1>1 DEF Refetch

\* The acts that do no more to the frame than tell it something, and what each does
\* to the list and its reads and writes.
Reading == Refresh \/ ReadServed \/ ReadArrives
Sending ==
  \/ Submit \/ PostGeneral
  \/ \E id \in Ids : Remove(id) \/ \E k \in {"reply", "resolve", "reopen"}, n \in BOOLEAN : Act(id, k, n)
Ending == CreateDone \/ ActDone \/ RemoveDone \/ Failed
Paging ==
  \/ Select \/ Compose \/ Write \/ Cancel \/ TogglePick \/ SwitchTab \/ \E id \in Ids : FocusOn(id)
Framed == FrameLoads \/ FrameUnloads \/ FrameSelects \/ FramePicks \/ FrameOpens \/ FrameHears
Hearing == FrameReady \/ FrameSaid

LEMMA ReadingKeepsListed ==
  ASSUME Bounds, Typed, Accounted, Reading
  PROVE  Telling /\ Listed' /\ Accounted'
<1>. USE DEF Listed, Typed
<1>1. CASE Refresh
  <2>1. UNCHANGED <<threads, calls, acts, made>> /\ Refetch /\ Same /\ UNCHANGED <<up, framed, page, crosshair>>
    BY <1>1 DEF Refresh, hubVars, pageVars
  <2>. QED  BY <2>1, SameTells, RefetchTyped DEF Accounted
<1>2. CASE ReadServed
  <2>1. /\ UNCHANGED <<threads, calls, acts, made, missed>> /\ Same /\ UNCHANGED <<up, framed, page, crosshair>>
        /\ read' = {[done |-> TRUE, threads |-> threads]}
    BY <1>2 DEF ReadServed, hubVars, pageVars
  <2>2. [done |-> TRUE, threads |-> threads] \in ListRead
    BY DEF ListRead
  <2>. QED  BY <2>1, <2>2, SameTells DEF Accounted
<1>3. CASE ReadArrives
  <2>1. PICK r \in read : /\ r.done /\ read' = {} /\ Commit(r.threads, focus, picking, <<>>)
                          /\ UNCHANGED <<threads, calls, acts, made, missed, up, framed, page, crosshair>>
    BY <1>3 DEF ReadArrives, hubVars, pageVars
  <2>2. r.threads \in SUBSET Thread /\ list' = r.threads
    BY <2>1 DEF ListRead, Commit
  <2>3. Telling
    BY <2>1, <2>2 DEF Telling, Framing
  <2>4. read = {r}
    BY <2>1
  <2>5. Accounted'
    <3>1. CASE missed \/ Owing
      BY <2>1, <3>1 DEF Accounted, Owing
    <3>2. CASE ~(missed \/ Owing)
      <4>1. r.threads = threads
        BY <2>1, <2>4, <3>2 DEF Accounted
      <4>. QED  BY <2>1, <2>2, <4>1 DEF Accounted
    <3>. QED  BY <3>1, <3>2
  <2>. QED  BY <2>1, <2>2, <2>3, <2>5
<1>. QED  BY <1>1, <1>2, <1>3 DEF Reading

LEMMA SendingKeepsListed ==
  ASSUME Bounds, Typed, Accounted, Sending
  PROVE  Telling /\ Listed' /\ Accounted'
<1>. USE DEF Listed, Typed
<1>1. /\ \A id \in Ids : id \in 0 .. MaxThreads
      /\ 0 \in 0 .. MaxThreads /\ Composer \in Ids \cup {Composer, Foot} /\ Foot \in Ids \cup {Composer, Foot}
  BY DEF Ids, Bounds
<1>2. ASSUME Same, UNCHANGED <<threads, read, missed, made, up, framed, page, crosshair>>,
             calls' \in SUBSET Call, acts' \in 0 .. MaxActs, calls \subseteq calls'
      PROVE  Telling /\ Listed' /\ Accounted'
  BY <1>2, SameTells DEF Accounted, Owing
<1>3. CASE Submit
  <2>1. Send(Composer, "create", 0, TRUE) /\ Same /\ UNCHANGED <<threads, read, missed, made, up, framed, page, crosshair>>
    BY <1>3 DEF Submit, hubVars, pageVars
  <2>2. calls' \in SUBSET Call /\ acts' \in 0 .. MaxActs
    BY <1>1, <2>1, SendTyped
  <2>. QED  BY <1>2, <2>1, <2>2 DEF Send
<1>4. CASE PostGeneral
  <2>1. Send(Foot, "create", 0, TRUE) /\ Same /\ UNCHANGED <<threads, read, missed, made, up, framed, page, crosshair>>
    BY <1>4 DEF PostGeneral, hubVars, pageVars
  <2>2. calls' \in SUBSET Call /\ acts' \in 0 .. MaxActs
    BY <1>1, <2>1, SendTyped
  <2>. QED  BY <1>2, <2>1, <2>2 DEF Send
<1>5. ASSUME NEW id \in Ids, NEW k \in {"reply", "resolve", "reopen"}, NEW n \in BOOLEAN, Act(id, k, n)
      PROVE  Telling /\ Listed' /\ Accounted'
  <2>1. Send(id, k, id, n) /\ Same /\ UNCHANGED <<threads, read, missed, made, up, framed, page, crosshair>>
    BY <1>5 DEF Act, hubVars, pageVars
  <2>2. calls' \in SUBSET Call /\ acts' \in 0 .. MaxActs
    BY <1>1, <2>1, SendTyped
  <2>. QED  BY <1>2, <2>1, <2>2 DEF Send
<1>6. ASSUME NEW id \in Ids, Remove(id)
      PROVE  Telling /\ Listed' /\ Accounted'
  <2>1. /\ Send(id, "remove", id, FALSE) /\ Commit(list \ Of(list, id), focus, picking, <<>>)
        /\ UNCHANGED <<threads, read, missed, made, up, framed, page, crosshair>>
    BY <1>6 DEF Remove, hubVars, pageVars
  <2>2. calls' \in SUBSET Call /\ acts' \in 0 .. MaxActs
    BY <1>1, <2>1, SendTyped
  <2>3. list \ Of(list, id) \in SUBSET Thread /\ list' = list \ Of(list, id)
    BY <2>1 DEF Commit
  <2>4. Telling
    BY <2>1, <2>3 DEF Telling, Framing
  <2>5. Owing'
    <3>. DEFINE c == [from |-> id, kind |-> "remove", id |-> id, note |-> FALSE,
                      no |-> acts, answer |-> "none", thread |-> {}]
    <3>1. c \in calls' /\ c.kind = "remove"
      BY <2>1 DEF Send
    <3>. HIDE DEF c
    <3>. QED  BY <3>1 DEF Owing
  <2>. QED  BY <2>1, <2>2, <2>3, <2>4, <2>5 DEF Accounted
<1>. QED  BY <1>3, <1>4, <1>5, <1>6 DEF Sending

LEMMA EndingKeepsListed ==
  ASSUME Bounds, Typed, Accounted, Ending
  PROVE  Telling /\ Listed' /\ Accounted'
<1>. USE DEF Listed, Typed
<1>1. ASSUME Telling, list' \in SUBSET Thread, Refetch, calls' \in SUBSET Call, UNCHANGED <<threads, made, acts>>
      PROVE  Telling /\ Listed' /\ Accounted'
  BY <1>1, RefetchTyped DEF Accounted
<1>2. CASE CreateDone
  <2>1. PICK c \in calls : /\ \E t \in c.thread : Commit(Place(list, c), t.id, picking,
                                                        IF c.from = Composer THEN ClearDown ELSE <<>>)
                           /\ Refetch /\ calls' = calls \ {c}
                           /\ UNCHANGED <<threads, made, acts, up, framed, page, crosshair>>
    BY <1>2 DEF CreateDone, hubVars, pageVars
  <2>2. PICK t \in c.thread : Commit(Place(list, c), t.id, picking, IF c.from = Composer THEN ClearDown ELSE <<>>)
    BY <2>1
  <2>3. Place(list, c) \in SUBSET Thread /\ list' = Place(list, c)
    BY <2>2, PlaceTyped DEF Commit
  <2>4. t.id \in 0 .. MaxThreads
    BY DEF Call, Thread, Ids, Bounds
  <2>5. Telling
    BY <2>1, <2>2, <2>3, <2>4 DEF Telling, Framing
  <2>. QED  BY <1>1, <2>1, <2>3, <2>5
<1>3. CASE ActDone
  <2>1. PICK c \in calls : /\ Commit(Place(list, c), focus, picking, <<>>)
                           /\ Refetch /\ calls' = calls \ {c}
                           /\ UNCHANGED <<threads, made, acts, up, framed, page, crosshair>>
    BY <1>3 DEF ActDone, hubVars, pageVars
  <2>2. Place(list, c) \in SUBSET Thread /\ list' = Place(list, c)
    BY <2>1, PlaceTyped DEF Commit
  <2>3. Telling
    BY <2>1, <2>2 DEF Telling, Framing
  <2>. QED  BY <1>1, <2>1, <2>2, <2>3
<1>4. CASE RemoveDone
  <2>1. /\ Same /\ Refetch /\ calls' \subseteq calls
        /\ UNCHANGED <<threads, made, acts, up, framed, page, crosshair>>
    BY <1>4 DEF RemoveDone, hubVars, pageVars
  <2>. QED  BY <1>1, <2>1, SameTells
<1>5. CASE Failed
  <2>1. PICK c \in calls : /\ c.kind # "remove" /\ c.answer = "error" /\ Same /\ calls' = calls \ {c}
                           /\ UNCHANGED <<threads, read, missed, made, acts, up, framed, page, crosshair>>
    BY <1>5 DEF Failed, hubVars, pageVars
  <2>2. Owing => Owing'
    BY <2>1 DEF Owing
  <2>. QED  BY <2>1, <2>2, SameTells DEF Accounted
<1>. QED  BY <1>2, <1>3, <1>4, <1>5 DEF Ending

\* The hub serves a write: what it changed is owed to this tab or known to be missed.
LEMMA ServedKeepsListed ==
  ASSUME Bounds, Typed, Accounted, CallServed
  PROVE  Telling /\ Listed' /\ Accounted'
<1>. USE DEF Listed, Typed
<1>1. PICK c \in calls :
        /\ c.answer = "none" /\ Same
        /\ UNCHANGED <<read, acts, up, framed, page, crosshair>>
        /\ \/ /\ c.kind = "create" /\ made < MaxThreads /\ made' = made + 1
              /\ LET t == [id |-> made + 1, resolved |-> FALSE, notes |-> 1]
                 IN \/ Served(c, "ok", {t}, threads \cup {t}) /\ UNCHANGED missed
                    \/ Served(c, "error", {}, threads \cup {t}) /\ missed' = TRUE
           \/ /\ c.kind \notin {"create", "remove"} /\ UNCHANGED made
              /\ \E old \in Of(threads, c.id) :
                   LET t == After(old, c.kind, c.note)
                   IN \/ Served(c, "ok", {t}, Replaced(threads, t)) /\ UNCHANGED missed
                      \/ Served(c, "error", {}, Replaced(threads, t)) /\ missed' = TRUE
           \/ /\ c.kind = "remove" /\ Served(c, "ok", {}, threads \ Of(threads, c.id))
              /\ UNCHANGED <<made, missed>>
           \/ Served(c, "error", {}, threads) /\ UNCHANGED <<made, missed>>
  BY DEF CallServed, pageVars
<1>2. Telling /\ list' = list
  BY <1>1, SameTells
<1>3. ASSUME NEW a \in {"ok", "error"}, NEW S \in SUBSET Thread, NEW T \in SUBSET Thread, Served(c, a, S, T)
      PROVE  /\ calls' \in SUBSET Call /\ threads' = T
             /\ (a = "ok" \/ c.kind = "remove" => Owing')
             /\ (Owing => Owing')
  <2>. DEFINE x == [c EXCEPT !.answer = a, !.thread = S]
  <2>1. x \in Call /\ x.answer = a /\ x.kind = c.kind
    BY DEF Call
  <2>2. calls' = (calls \ {c}) \cup {x} /\ threads' = T
    BY <1>3 DEF Served
  <2>. HIDE DEF x
  <2>3. a = "ok" \/ c.kind = "remove" => Owing'
    BY <2>1, <2>2 DEF Owing
  <2>4. Owing => Owing'
    BY <1>1, <2>1, <2>2, <2>3 DEF Owing
  <2>. QED  BY <2>1, <2>2, <2>3, <2>4
<1>4. ASSUME calls' \in SUBSET Call, threads' \in SUBSET Thread, made' \in 1 .. MaxThreads, missed' \in BOOLEAN,
             missed' \/ Owing' \/ (threads' = threads /\ missed' = missed /\ (Owing => Owing'))
      PROVE  Listed' /\ Accounted'
  BY <1>1, <1>2, <1>4 DEF Accounted
<1>5. CASE c.kind = "create" /\ made < MaxThreads /\ made' = made + 1
           /\ LET t == [id |-> made + 1, resolved |-> FALSE, notes |-> 1]
              IN \/ Served(c, "ok", {t}, threads \cup {t}) /\ UNCHANGED missed
                 \/ Served(c, "error", {}, threads \cup {t}) /\ missed' = TRUE
  <2>. DEFINE t == [id |-> made + 1, resolved |-> FALSE, notes |-> 1]
  <2>1. t \in Thread /\ made' \in 1 .. MaxThreads
    BY <1>5 DEF Thread, Ids, Bounds
  <2>2. {t} \in SUBSET Thread /\ {} \in SUBSET Thread /\ threads \cup {t} \in SUBSET Thread
    BY <2>1
  <2>3. \/ Served(c, "ok", {t}, threads \cup {t}) /\ UNCHANGED missed
        \/ Served(c, "error", {}, threads \cup {t}) /\ missed' = TRUE
    BY <1>5
  <2>. HIDE DEF t
  <2>. QED  BY <1>2, <1>3, <1>4, <2>1, <2>2, <2>3
<1>6. CASE /\ c.kind \notin {"create", "remove"} /\ UNCHANGED made
           /\ \E old \in Of(threads, c.id) :
                LET t == After(old, c.kind, c.note)
                IN \/ Served(c, "ok", {t}, Replaced(threads, t)) /\ UNCHANGED missed
                   \/ Served(c, "error", {}, Replaced(threads, t)) /\ missed' = TRUE
  <2>1. PICK old \in Of(threads, c.id) :
          LET t == After(old, c.kind, c.note)
          IN \/ Served(c, "ok", {t}, Replaced(threads, t)) /\ UNCHANGED missed
             \/ Served(c, "error", {}, Replaced(threads, t)) /\ missed' = TRUE
    BY <1>6
  <2>. DEFINE t == After(old, c.kind, c.note)
  <2>2. old \in Thread /\ c.note \in BOOLEAN
    BY DEF Of, Call
  <2>3. t \in Thread
    BY <2>2, ThreadOps
  <2>4. Replaced(threads, t) \in SUBSET Thread
    BY <2>3 DEF Replaced, Of
  <2>5. \/ Served(c, "ok", {t}, Replaced(threads, t)) /\ UNCHANGED missed
        \/ Served(c, "error", {}, Replaced(threads, t)) /\ missed' = TRUE
    BY <2>1
  <2>6. {t} \in SUBSET Thread /\ {} \in SUBSET Thread
    BY <2>3
  <2>. HIDE DEF t
  <2>. QED  BY <1>2, <1>3, <1>4, <1>6, <2>4, <2>5, <2>6
<1>7. CASE c.kind = "remove" /\ Served(c, "ok", {}, threads \ Of(threads, c.id)) /\ UNCHANGED <<made, missed>>
  <2>1. threads \ Of(threads, c.id) \in SUBSET Thread /\ {} \in SUBSET Thread
    OBVIOUS
  <2>. QED  BY <1>2, <1>3, <1>4, <1>7, <2>1
<1>8. CASE Served(c, "error", {}, threads) /\ UNCHANGED <<made, missed>>
  <2>1. {} \in SUBSET Thread
    OBVIOUS
  <2>. QED  BY <1>2, <1>3, <1>4, <1>8, <2>1
<1>. QED  BY <1>1, <1>5, <1>6, <1>7, <1>8

LEMMA OthersKeepListed ==
  ASSUME Bounds, Typed, Accounted, Others
  PROVE  Telling /\ Listed' /\ Accounted'
<1>. USE DEF Listed, Typed
<1>1. /\ Acting /\ missed' = TRUE /\ Same /\ UNCHANGED <<read, calls, up, framed, page, crosshair>>
      /\ \/ /\ made < MaxThreads /\ made' = made + 1
            /\ threads' = threads \cup {[id |-> made + 1, resolved |-> FALSE, notes |-> 1]}
         \/ /\ \E t \in threads : \/ threads' = Replaced(threads, After(t, "resolve", TRUE))
                                  \/ threads' = threads \ {t}
            /\ UNCHANGED made
  BY DEF Others, pageVars
<1>2. acts' \in 0 .. MaxActs
  BY <1>1 DEF Acting, Bounds
<1>3. threads' \in SUBSET Thread /\ made' \in 1 .. MaxThreads
  <2>1. CASE made < MaxThreads /\ made' = made + 1
             /\ threads' = threads \cup {[id |-> made + 1, resolved |-> FALSE, notes |-> 1]}
    <3>1. made + 1 \in 1 .. MaxThreads
      BY <2>1 DEF Bounds
    <3>2. [id |-> made + 1, resolved |-> FALSE, notes |-> 1] \in Thread
      BY <3>1 DEF Thread, Ids
    <3>. QED  BY <2>1, <3>1, <3>2
  <2>2. ASSUME NEW t \in threads, threads' = Replaced(threads, After(t, "resolve", TRUE))
        PROVE  threads' \in SUBSET Thread
    <3>1. After(t, "resolve", TRUE) \in Thread
      BY ThreadOps
    <3>. QED  BY <2>2, <3>1 DEF Replaced, Of
  <2>. QED  BY <1>1, <2>1, <2>2
<1>. QED  BY <1>1, <1>2, <1>3, SameTells DEF Accounted

LEMMA PagingKeepsListed ==
  ASSUME Bounds, Typed, Accounted, Paging
  PROVE  /\ Listed' /\ Accounted'
         /\ Telling \/ UNCHANGED <<list, focus, picking, down, up, framed, page, crosshair, pins, active>>
<1>. USE DEF Listed, Typed
<1>1. UNCHANGED <<read, calls, missed, threads, made, up>> /\ framed' = framed /\ page' = page /\ crosshair' = crosshair
  BY DEF Paging, Select, Compose, Write, Cancel, TogglePick, SwitchTab, FocusOn, hubVars, pageVars
<1>2. acts' \in 0 .. MaxActs
  BY DEF Paging, Select, Compose, Write, Cancel, TogglePick, SwitchTab, FocusOn, Acting, Bounds
<1>3. CASE Same
  BY <1>1, <1>2, <1>3, SameTells DEF Accounted, Owing
<1>4. ASSUME NEW f \in 0 .. MaxThreads, NEW p \in BOOLEAN, Commit(list, f, p, <<>>)
      PROVE  Telling /\ list' = list
  BY <1>1, <1>4 DEF Telling, Commit
<1>5. CASE TogglePick
  <2>1. PICK p \in BOOLEAN : p = ~picking
    OBVIOUS
  <2>2. Commit(list, focus, p, <<>>)
    BY <1>5, <2>1 DEF TogglePick
  <2>3. Telling /\ list' = list
    BY <1>4, <2>2 DEF Framing
  <2>. QED  BY <1>1, <1>2, <2>3 DEF Accounted, Owing
<1>6. ASSUME NEW id \in Ids, FocusOn(id)
      PROVE  Telling /\ list' = list
  <2>1. id \in 0 .. MaxThreads /\ 0 \in 0 .. MaxThreads /\ picking \in BOOLEAN
    BY DEF Ids, Bounds, Framing
  <2>2. \E f \in {0, id} : Commit(list, f, picking, <<>>)
    BY <1>6 DEF FocusOn
  <2>. QED  BY <1>4, <2>1, <2>2
<1>7. CASE SwitchTab
  <2>1. UNCHANGED <<list, focus, picking, down, pins, active>>
    BY <1>7 DEF SwitchTab, markVars
  <2>. QED  BY <1>1, <1>2, <2>1 DEF Accounted, Owing
<1>8. ASSUME Telling, list' = list
      PROVE  Listed' /\ Accounted'
  BY <1>1, <1>2, <1>8 DEF Accounted, Owing
<1>9. Same \/ TogglePick \/ SwitchTab \/ \E id \in Ids : FocusOn(id)
  BY DEF Paging, Select, Compose, Write, Cancel
<1>. QED  BY <1>3, <1>5, <1>6, <1>7, <1>8, <1>9

\* The frame's own steps, and what it says, leave the list as it is.
LEMMA FramedKeepsListed ==
  ASSUME Bounds, Typed, Accounted, Framed \/ Hearing
  PROVE  Listed' /\ Accounted'
<1>. USE DEF Listed, Typed
<1>1. UNCHANGED <<read, calls, missed, threads, made>>
  BY DEF Framed, FrameLoads, FrameUnloads, FrameSelects, FramePicks, FrameOpens, FrameHears,
         Hearing, FrameReady, FrameSaid, appVars, hubVars
<1>2. list' = list
  BY DEF Framed, FrameLoads, FrameUnloads, FrameSelects, FramePicks, FrameOpens, FrameHears,
         Hearing, FrameReady, FrameSaid, appVars, Same, Commit
<1>3. acts' = acts \/ Acting
  BY DEF Framed, FrameLoads, FrameUnloads, FrameSelects, FramePicks, FrameOpens, FrameHears,
         Hearing, FrameReady, FrameSaid
<1>4. acts' \in 0 .. MaxActs
  BY <1>3 DEF Acting, Bounds
<1>. QED  BY <1>1, <1>2, <1>4 DEF Accounted, Owing

-----------------------------------------------------------------------------
(* The frame follows                                                       *)

LEMMA SaidTail ==
  ASSUME Typed, up # <<>>
  PROVE  /\ Head(up) = up[1] /\ up[1] \in Said /\ Tail(up) \in Seq(Said)
         /\ Len(up) \in Nat \ {0} /\ Len(Tail(up)) = Len(up) - 1
         /\ \A i \in 1 .. Len(up) - 1 : Tail(up)[i] = up[i + 1]
<1>1. up \in Seq(Said)
  BY DEF Typed, Framing
<1>2. Len(up) \in Nat \ {0}
  BY <1>1, EmptySeq
<1>3. up[1] \in Said
  BY <1>1, <1>2, ElementOfSeq
<1>4. Tail(up) \in Seq(Said) /\ Len(Tail(up)) = Len(up) - 1 /\ \A i \in 1 .. Len(Tail(up)) : Tail(up)[i] = up[i + 1]
  BY <1>1, HeadTailProperties
<1>. QED  BY <1>1, <1>2, <1>3, <1>4

\* The frame has said one more thing, or the app has heard the first.
LEMMA ReportSays ==
  ASSUME Typed, Greets, NEW t \in {"select", "unselect", "picked", "pickoff", "open"},
         NEW id \in 0 .. MaxThreads, Report(t, id)
  PROVE  /\ up' \in Seq(Said) /\ Greets' /\ (~Greeting' => ~Greeting)
         /\ Leaving(up) => Leaving(up')
         /\ t \in {"picked", "pickoff"} => Leaving(up')
<1>. DEFINE m == [type |-> t, id |-> id]
<1>1. m \in Said /\ up \in Seq(Said) /\ up' = Append(up, m)
  BY DEF Report, Said, Typed, Framing
<1>2. m.type = t
  OBVIOUS
<1>. HIDE DEF m
<1>3. /\ up' \in Seq(Said) /\ Len(up) \in Nat /\ Len(up') = Len(up) + 1 /\ up'[Len(up) + 1] = m
      /\ \A i \in 1 .. Len(up) : up'[i] = up[i]
  BY <1>1, AppendProperties, LenProperties
<1>4. up # <<>> => Len(up) \in Nat \ {0}
  BY <1>1, EmptySeq
<1>5. Greets'
  BY <1>2, <1>3 DEF Greets
<1>6. Greeting => Greeting'
  <2>. SUFFICES ASSUME Greeting
                PROVE  Greeting'
    OBVIOUS
  <2>1. Len(up) \in Nat \ {0} /\ up[1].type = "ready"
    BY <1>4 DEF Greeting
  <2>2. up'[1].type = "ready"
    BY <1>3, <2>1
  <2>3. up' # <<>>
    BY <1>1, AppendProperties
  <2>. QED  BY <2>2, <2>3 DEF Greeting
<1>7. Leaving(up) => Leaving(up')
  BY <1>3 DEF Leaving
<1>8. t \in {"picked", "pickoff"} => Leaving(up')
  BY <1>2, <1>3 DEF Leaving
<1>. QED  BY <1>3, <1>5, <1>6, <1>7, <1>8

LEMMA HeardSays ==
  ASSUME Typed, Greets, up # <<>>, up' = Tail(up)
  PROVE  /\ up' \in Seq(Said) /\ Greets' /\ ~Greeting'
         /\ Leaving(up) /\ up[1].type \notin {"picked", "pickoff"} => Leaving(up')
<1>1. /\ Tail(up) \in Seq(Said) /\ Len(up) \in Nat \ {0} /\ Len(Tail(up)) = Len(up) - 1
      /\ \A i \in 1 .. Len(up) - 1 : Tail(up)[i] = up[i + 1]
  BY SaidTail
<1>2. \A i \in 1 .. Len(up') : up'[i].type # "ready"
  <2>. TAKE i \in 1 .. Len(up')
  <2>1. i + 1 \in 2 .. Len(up) /\ up'[i] = up[i + 1]
    BY <1>1
  <2>. QED  BY <2>1 DEF Greets
<1>3. up' # <<>> => 1 \in 1 .. Len(up')
  BY <1>1, EmptySeq
<1>4. ASSUME Leaving(up), up[1].type \notin {"picked", "pickoff"}
      PROVE  Leaving(up')
  <2>1. PICK i \in 1 .. Len(up) : up[i].type \in {"picked", "pickoff"}
    BY <1>4 DEF Leaving
  <2>2. i # 1
    BY <1>4, <2>1
  <2>3. i - 1 \in 1 .. Len(up') /\ up'[i - 1] = up[i]
    BY <1>1, <2>1, <2>2
  <2>. QED  BY <2>1, <2>3 DEF Leaving
<1>. QED  BY <1>1, <1>2, <1>3, <1>4 DEF Greets, Greeting

\* A commit that left no message of the frame unheard but the first.
LEMMA TellingFollows ==
  ASSUME Bounds, Typed, framed, page = "ready", Aware, crosshair' = crosshair,
         NEW l \in SUBSET Thread, NEW f \in 0 .. MaxThreads, NEW p \in BOOLEAN,
         NEW first \in {<<>>, ClearDown}, Commit(l, f, p, first),
         Leaving(up) => Leaving(up') \/ ~p
  PROVE  Aware'
<1>. PICK off \in BOOLEAN, left \in BOOLEAN : off = Leaving(up) /\ left = Leaving(up')
  BY DEF Leaving
<1>1. /\ WillMark(pins', down', Shown(l)) /\ WillFocus(active', down', f)
      /\ WillPick(crosshair', down', p, left)
  BY CommitTells DEF Aware
<1>2. list' = l /\ focus' = f /\ picking' = p
  BY DEF Commit
<1>3. Shown(list)' = Shown(l)
  BY <1>2 DEF Shown, Number
<1>. QED  BY <1>1, <1>2, <1>3 DEF Aware

LEMMA TellingKeepsFollowing ==
  ASSUME Bounds, Typed, Following, Telling
  PROVE  Following'
<1>1. UNCHANGED <<up, framed, page, crosshair>>
  BY DEF Telling
<1>2. Greets' /\ (Greeting' <=> Greeting) /\ (Leaving(up) => Leaving(up'))
  BY <1>1 DEF Following, Greets, Greeting
<1>3. ASSUME framed, page = "ready", ~Greeting
      PROVE  Aware'
  <2>1. Aware
    BY <1>3 DEF Following
  <2>. QED  BY <1>1, <1>2, <1>3, <2>1, TellingFollows DEF Telling
<1>. QED  BY <1>1, <1>2, <1>3 DEF Following

LEMMA UnchangedFollows ==
  ASSUME Following, UNCHANGED <<list, focus, picking, down, up, framed, page, crosshair, pins, active>>
  PROVE  Following'
<1>1. Shown(list)' = Shown(list) /\ Greets' /\ (Greeting' <=> Greeting) /\ (Leaving(up)' <=> Leaving(up))
  BY DEF Shown, Number, Following, Greets, Greeting, Leaving
<1>2. ASSUME Aware
      PROVE  Aware'
  BY <1>1, <1>2 DEF Aware, WillMark, WillFocus, WillPick, LastOf
<1>. QED  BY <1>1, <1>2 DEF Following

\* The frame hears the first message under way.
LEMMA HearsMark ==
  ASSUME NEW x, NEW d \in Seq(Message), NEW e, Rest(e, d), NEW v, WillMark(x, d, v),
         NEW y, y = IF d[1].type = "anchors" THEN d[1].pins ELSE x
  PROVE  WillMark(y, e, v)
<1>. SUFFICES ASSUME NEW i, LastOf(e, Marking, i)
              PROVE  (IF i = 0 THEN y ELSE e[i].pins) = v
  BY DEF WillMark
<1>1. CASE i # 0
  <2>1. PICK k : LastOf(d, Marking, k) /\ k # 0 /\ At(e, i) = At(d, k)
    BY <1>1, LaterOfTail
  <2>. QED  BY <1>1, <2>1 DEF WillMark, At
<1>2. CASE i = 0
  <2>1. LastOf(d, Marking, IF d[1].type \in Marking THEN 1 ELSE 0)
    BY <1>2, FirstOfTail
  <2>2. CASE d[1].type \in Marking
    <3>1. LastOf(d, Marking, 1)
      BY <2>1, <2>2
    <3>. QED  BY <1>2, <2>2, <3>1 DEF WillMark, Marking
  <2>3. CASE d[1].type \notin Marking
    <3>1. LastOf(d, Marking, 0)
      BY <2>1, <2>3
    <3>. QED  BY <1>2, <2>3, <3>1 DEF WillMark, Marking
  <2>. QED  BY <2>2, <2>3
<1>. QED  BY <1>1, <1>2

LEMMA HearsFocus ==
  ASSUME NEW x, NEW d \in Seq(Message), NEW e, Rest(e, d), NEW f, WillFocus(x, d, f),
         NEW y, y = IF d[1].type \in {"anchors", "focus"} THEN d[1].id ELSE x
  PROVE  WillFocus(y, e, f)
<1>. SUFFICES ASSUME NEW i, LastOf(e, Focusing, i)
              PROVE  (IF i = 0 THEN y ELSE e[i].id) = f
  BY DEF WillFocus
<1>1. CASE i # 0
  <2>1. PICK k : LastOf(d, Focusing, k) /\ k # 0 /\ At(e, i) = At(d, k)
    BY <1>1, LaterOfTail
  <2>. QED  BY <1>1, <2>1 DEF WillFocus, At
<1>2. CASE i = 0
  <2>1. LastOf(d, Focusing, IF d[1].type \in Focusing THEN 1 ELSE 0)
    BY <1>2, FirstOfTail
  <2>2. CASE d[1].type \in Focusing
    <3>1. LastOf(d, Focusing, 1)
      BY <2>1, <2>2
    <3>. QED  BY <1>2, <2>2, <3>1 DEF WillFocus, Focusing
  <2>3. CASE d[1].type \notin Focusing
    <3>1. LastOf(d, Focusing, 0)
      BY <2>1, <2>3
    <3>. QED  BY <1>2, <2>3, <3>1 DEF WillFocus, Focusing
  <2>. QED  BY <2>2, <2>3
<1>. QED  BY <1>1, <1>2

LEMMA HearsPick ==
  ASSUME NEW x, NEW d \in Seq(Message), NEW e, Rest(e, d), NEW on, NEW off, WillPick(x, d, on, off),
         NEW y, y = IF d[1].type = "pick" THEN d[1].on ELSE x
  PROVE  WillPick(y, e, on, off)
<1>. DEFINE Agrees(now) == now = on \/ (off /\ ~now)
<1>. SUFFICES ASSUME NEW i, LastOf(e, Picking, i)
              PROVE  Agrees(IF i = 0 THEN y ELSE e[i].on)
  BY DEF WillPick
<1>0. ASSUME NEW j, LastOf(d, Picking, j)
      PROVE  Agrees(IF j = 0 THEN x ELSE d[j].on)
  BY <1>0 DEF WillPick
<1>. HIDE DEF Agrees
<1>1. CASE i # 0
  <2>1. PICK k : LastOf(d, Picking, k) /\ k # 0 /\ At(e, i) = At(d, k)
    BY <1>1, LaterOfTail
  <2>. QED  BY <1>0, <1>1, <2>1 DEF At
<1>2. CASE i = 0
  <2>1. LastOf(d, Picking, IF d[1].type \in Picking THEN 1 ELSE 0)
    BY <1>2, FirstOfTail
  <2>2. CASE d[1].type \in Picking
    <3>1. LastOf(d, Picking, 1)
      BY <2>1, <2>2
    <3>2. y = d[1].on
      BY <2>2 DEF Picking
    <3>. QED  BY <1>0, <1>2, <3>1, <3>2
  <2>3. CASE d[1].type \notin Picking
    <3>1. LastOf(d, Picking, 0)
      BY <2>1, <2>3
    <3>2. y = x
      BY <2>3 DEF Picking
    <3>. QED  BY <1>0, <1>2, <3>1, <3>2
  <2>. QED  BY <2>2, <2>3
<1>. QED  BY <1>1, <1>2

\* The reader leaves the pick mode.
LEMMA LeftPicks ==
  ASSUME NEW x, NEW d, NEW on, NEW off, WillPick(x, d, on, off), NEW y, y = FALSE, NEW left, left = TRUE
  PROVE  WillPick(y, d, on, left)
<1>. DEFINE Agrees(now, o) == now = on \/ (o /\ ~now)
<1>. SUFFICES ASSUME NEW i, LastOf(d, Picking, i)
              PROVE  Agrees(IF i = 0 THEN y ELSE d[i].on, left)
  BY DEF WillPick
<1>1. Agrees(IF i = 0 THEN x ELSE d[i].on, off)
  BY DEF WillPick
<1>2. CASE i = 0
  BY <1>2
<1>3. CASE i # 0
  BY <1>1, <1>3
<1>. QED  BY <1>2, <1>3

LEMMA FramedKeepsFollowing ==
  ASSUME Bounds, Typed, Following, Framed
  PROVE  Framing' /\ Following'
<1>1. CASE FrameLoads
  <2>. DEFINE m == [type |-> "ready", id |-> 0]
  <2>1. /\ up' = <<m>> /\ down' = <<>> /\ pins' = {} /\ active' = 0 /\ crosshair' = FALSE
        /\ UNCHANGED <<focus, picking>>
    BY <1>1 DEF FrameLoads, appVars
  <2>2. m \in Said /\ m.type = "ready"
    BY DEF Said, Bounds
  <2>. HIDE DEF m
  <2>3. up' \in Seq(Said) /\ Len(up') = 1 /\ up'[1] = m /\ up' # <<>>
    BY <2>1, <2>2
  <2>4. down' \in Seq(Message)
    BY <2>1, EmptySeq
  <2>5. Framing'
    <3>1. pins' \in SUBSET Mark /\ active' \in 0 .. MaxThreads
      BY <2>1 DEF Bounds
    <3>2. focus' \in 0 .. MaxThreads
      BY <2>1 DEF Typed, Framing
    <3>3. picking' \in BOOLEAN
      BY <2>1 DEF Typed, Framing
    <3>4. crosshair' \in BOOLEAN
      BY <2>1
    <3>. QED  BY <2>3, <2>4, <3>1, <3>2, <3>3, <3>4 DEF Framing
  <2>6. Greets' /\ Greeting'
    BY <2>2, <2>3 DEF Greets, Greeting
  <2>. QED  BY <2>5, <2>6 DEF Following
<1>2. CASE FrameUnloads
  <2>1. /\ page' = "loading" /\ up' = <<>> /\ down' = <<>> /\ pins' = {} /\ active' = 0 /\ crosshair' = FALSE
        /\ UNCHANGED <<focus, picking>>
    BY <1>2 DEF FrameUnloads, appVars
  <2>2. up' \in Seq(Said) /\ down' \in Seq(Message) /\ Len(up') = 0
    BY <2>1, EmptySeq
  <2>3. Framing'
    <3>1. pins' \in SUBSET Mark /\ active' \in 0 .. MaxThreads
      BY <2>1 DEF Bounds
    <3>2. focus' \in 0 .. MaxThreads
      BY <2>1 DEF Typed, Framing
    <3>3. picking' \in BOOLEAN
      BY <2>1 DEF Typed, Framing
    <3>4. crosshair' \in BOOLEAN
      BY <2>1
    <3>. QED  BY <2>2, <3>1, <3>2, <3>3, <3>4 DEF Framing
  <2>. QED  BY <2>1, <2>2, <2>3 DEF Following, Greets
<1>3. CASE FrameSelects \/ FrameOpens
  <2>1. /\ \E t \in {"select", "unselect", "open"}, id \in 0 .. MaxThreads : Report(t, id)
        /\ UNCHANGED <<list, focus, picking, framed, page, crosshair, pins, active, down>>
    <3>1. 0 \in 0 .. MaxThreads /\ \A q \in pins : q.id \in 0 .. MaxThreads
      BY DEF Typed, Framing, Mark, Ids, Bounds
    <3>. QED  BY <1>3, <3>1 DEF FrameSelects, FrameOpens, appVars, pageVars, markVars
  <2>2. /\ up' \in Seq(Said) /\ Greets' /\ (~Greeting' => ~Greeting) /\ (Leaving(up) => Leaving(up'))
    BY <2>1, ReportSays DEF Following
  <2>3. Framing'
    BY <2>1, <2>2 DEF Typed, Framing
  <2>4. ASSUME Aware
        PROVE  Aware'
    <3>. PICK off \in BOOLEAN, left \in BOOLEAN : off = Leaving(up) /\ left = Leaving(up')
      BY DEF Leaving
    <3>1. crosshair \in BOOLEAN /\ down \in Seq(Message)
      BY DEF Typed, Framing
    <3>2. picking \in BOOLEAN
      BY DEF Typed, Framing
    <3>3. WillPick(crosshair, down, picking, off)
      BY <2>4 DEF Aware
    <3>4. WillPick(crosshair, down, picking, left)
      BY <2>2, <3>1, <3>2, <3>3, StillPicks
    <3>5. Shown(list)' = Shown(list)
      BY <2>1 DEF Shown, Number
    <3>. QED  BY <2>1, <2>4, <3>4, <3>5 DEF Aware
  <2>. QED  BY <2>1, <2>2, <2>3, <2>4 DEF Following
<1>4. CASE FramePicks
  <2>1. /\ \E t \in {"picked", "pickoff"} : Report(t, 0)
        /\ UNCHANGED <<list, focus, picking, framed, page, pins, active, down>> /\ crosshair' = FALSE
    BY <1>4 DEF FramePicks, appVars, markVars
  <2>2. /\ up' \in Seq(Said) /\ Greets' /\ (~Greeting' => ~Greeting) /\ Leaving(up')
    <3>1. 0 \in 0 .. MaxThreads
      BY DEF Bounds
    <3>. QED  BY <2>1, <3>1, ReportSays DEF Following
  <2>3. Framing'
    BY <2>1, <2>2 DEF Typed, Framing
  <2>4. ASSUME Aware
        PROVE  Aware'
    <3>1. WillPick(crosshair', down, picking, TRUE)
      BY <2>1, <2>4, LeftPicks DEF Aware
    <3>2. WillPick(crosshair', down, picking, Leaving(up'))
      <4>. PICK left \in BOOLEAN : left = Leaving(up')
        BY DEF Leaving
      <4>1. left = TRUE
        BY <2>2
      <4>. QED  BY <3>1, <4>1
    <3>3. Shown(list)' = Shown(list)
      BY <2>1 DEF Shown, Number
    <3>. QED  BY <2>1, <2>4, <3>2, <3>3 DEF Aware
  <2>. QED  BY <2>1, <2>2, <2>3, <2>4 DEF Following
<1>5. CASE FrameHears
  <2>1. /\ down # <<>> /\ down' = Tail(down) /\ Head(down) = down[1]
        /\ UNCHANGED <<list, focus, picking, framed, page, up>>
    BY <1>5 DEF FrameHears, appVars, Typed, Framing
  <2>2. down \in Seq(Message) /\ down' \in Seq(Message) /\ down[1] \in Message /\ Rest(down', down)
    <3>1. down \in Seq(Message)
      BY DEF Typed, Framing
    <3>2. Len(down) \in Nat \ {0}
      BY <2>1, <3>1, EmptySeq
    <3>3. down[1] \in Message
      BY <3>1, <3>2, ElementOfSeq
    <3>4. Tail(down) \in Seq(Message)
      BY <2>1, <3>1, HeadTailProperties
    <3>. QED  BY <2>1, <3>1, <3>3, <3>4 DEF Rest
  <2>. DEFINE m == down[1]
  <2>3. /\ pins' = (IF m.type = "anchors" THEN m.pins ELSE pins)
        /\ active' = (IF m.type \in {"anchors", "focus"} THEN m.id ELSE active)
        /\ crosshair' = (IF m.type = "pick" THEN m.on ELSE crosshair)
    BY <1>5, <2>1 DEF FrameHears
  <2>4. Framing'
    <3>1. pins' \in SUBSET Mark
      BY <2>2, <2>3 DEF Typed, Framing, Message
    <3>2. active' \in 0 .. MaxThreads
      BY <2>2, <2>3 DEF Typed, Framing, Message
    <3>3. crosshair' \in BOOLEAN
      BY <2>2, <2>3 DEF Typed, Framing, Message
    <3>. QED  BY <2>1, <2>2, <3>1, <3>2, <3>3 DEF Typed, Framing
  <2>5. ASSUME Aware
        PROVE  Aware'
    <3>1. WillMark(pins', down', Shown(list))
      BY <2>2, <2>3, <2>5, HearsMark DEF Aware
    <3>2. WillFocus(active', down', focus)
      BY <2>2, <2>3, <2>5, HearsFocus DEF Aware
    <3>3. WillPick(crosshair', down', picking, Leaving(up))
      BY <2>2, <2>3, <2>5, HearsPick DEF Aware
    <3>4. Shown(list)' = Shown(list) /\ Leaving(up)' = Leaving(up)
      BY <2>1 DEF Shown, Number, Leaving
    <3>. QED  BY <2>1, <3>1, <3>2, <3>3, <3>4 DEF Aware
  <2>6. Greets' /\ (Greeting' <=> Greeting)
    BY <2>1 DEF Following, Greets, Greeting
  <2>. QED  BY <2>1, <2>4, <2>5, <2>6 DEF Following
<1>. QED  BY <1>1, <1>2, <1>3, <1>4, <1>5 DEF Framed

\* What the app answers a frame that is ready: everything it should hold.
LEMMA ReadyTells ==
  ASSUME Bounds, Typed, framed, page = "ready",
         Commit(list, focus, picking, AnchorsDown(list, focus) \o PickDown(picking))
  PROVE  /\ UNCHANGED <<pins, active>> /\ list' = list /\ focus' = focus /\ picking' = picking
         /\ WillMark(pins, down', Shown(list)) /\ WillFocus(active, down', focus)
         /\ \A x, off : WillPick(x, down', picking, off)
<1>. DEFINE a == AnchorsDown(list, focus)[1]
            b == PickDown(picking)[1]
            d1 == Plus(down, a)
            d2 == Plus(d1, b)
<1>0. down \in Seq(Message) /\ list \in SUBSET Thread /\ focus \in 0 .. MaxThreads
  BY DEF Typed, Listed, Framing
<1>1. picking \in BOOLEAN
  BY DEF Typed, Framing
<1>2. a \in Message /\ b \in Message
  BY <1>0, <1>1, MessageTypes
<1>3. /\ a.type = "anchors" /\ a.pins = Shown(list) /\ a.id = focus /\ b.type = "pick" /\ b.on = picking
      /\ AnchorsDown(list, focus) = <<a>> /\ PickDown(picking) = <<b>>
  BY DEF AnchorsDown, PickDown
<1>4. Effects(list, focus, picking) = <<>>
  BY DEF Effects
<1>5. down' = Join(down, Join(Join(<<a>>, <<b>>), <<>>))
  BY <1>3, <1>4 DEF Commit, Posted, Join
<1>. HIDE DEF a, b
<1>6. <<a>> \in Seq(Message) /\ <<b>> \in Seq(Message)
  BY <1>2
<1>7. Join(<<a>>, <<b>>) \in Seq(Message)
  BY <1>6, JoinCloses
<1>8. Join(Join(<<a>>, <<b>>), <<>>) = Join(<<a>>, <<b>>)
  BY <1>7, ConcatEmptySeq DEF Join
<1>9. Join(down, Join(<<a>>, <<b>>)) = Join(Join(down, <<a>>), <<b>>)
  <2>1. PICK x \in Seq(Message), y \in Seq(Message) : x = <<a>> /\ y = <<b>>
    BY <1>6
  <2>2. down \in Seq(Message)
    BY <1>0
  <2>3. Join(Join(down, x), y) = Join(down, Join(x, y))
    BY <2>2, JoinAssociates
  <2>. QED  BY <2>1, <2>3
<1>10. down' = d2
  BY <1>5, <1>8, <1>9 DEF Join, Plus
<1>11. d1 \in Seq(Message)
  BY <1>0, <1>2, OneMore
<1>12. WillMark(pins, d1, Shown(list)) /\ WillFocus(active, d1, focus)
  BY <1>0, <1>2, <1>3, OneMark, OneFocus
<1>. HIDE DEF d1
<1>13. WillMark(pins, d2, Shown(list)) /\ WillFocus(active, d2, focus)
  BY <1>2, <1>3, <1>11, <1>12, OneMark, OneFocus
<1>14. \A x, off : WillPick(x, d2, picking, off)
  BY <1>2, <1>3, <1>11, OnePick
<1>15. UNCHANGED <<pins, active>> /\ list' = list /\ focus' = focus /\ picking' = picking
  BY DEF Commit
<1>. QED  BY <1>10, <1>13, <1>14, <1>15

LEMMA HearingKeepsFollowing ==
  ASSUME Bounds, Typed, Following, Hearing
  PROVE  Framing' /\ Following'
<1>1. up # <<>> /\ up' = Tail(up) /\ UNCHANGED <<framed, page, crosshair>>
  BY DEF Hearing, FrameReady, FrameSaid, pageVars
<1>2. /\ up' \in Seq(Said) /\ Greets' /\ ~Greeting'
      /\ Leaving(up) /\ up[1].type \notin {"picked", "pickoff"} => Leaving(up')
  BY <1>1, HeardSays DEF Following
<1>3. Head(up) = up[1] /\ up[1] \in Said
  BY <1>1, SaidTail
<1>4. list \in SUBSET Thread /\ focus \in 0 .. MaxThreads /\ <<>> \in Seq(Message)
  BY EmptySeq DEF Typed, Listed, Framing
<1>5. picking \in BOOLEAN /\ crosshair' \in BOOLEAN
  BY <1>1 DEF Typed, Framing
<1>6. CASE FrameReady
  <2>. DEFINE first == AnchorsDown(list, focus) \o PickDown(picking)
  <2>1. Commit(list, focus, picking, first)
    BY <1>6 DEF FrameReady
  <2>2. AnchorsDown(list, focus) \in Seq(Message) /\ PickDown(picking) \in Seq(Message)
    BY <1>4, <1>5, EffectsTyped
  <2>3. first \in Seq(Message)
    BY <2>2, ConcatProperties
  <2>4. /\ focus' \in 0 .. MaxThreads /\ picking' \in BOOLEAN
        /\ down' \in Seq(Message) /\ pins' \in SUBSET Mark /\ active' \in 0 .. MaxThreads
    <3>. HIDE DEF first
    <3>. QED  BY <1>4, <1>5, <2>1, <2>3, CommitTyped
  <2>5. Framing'
    BY <1>2, <1>5, <2>4 DEF Framing
  <2>6. ASSUME framed, page = "ready"
        PROVE  Aware'
    <3>1. /\ UNCHANGED <<pins, active>> /\ list' = list /\ focus' = focus /\ picking' = picking
          /\ WillMark(pins, down', Shown(list)) /\ WillFocus(active, down', focus)
          /\ \A x, off : WillPick(x, down', picking, off)
      BY <2>1, <2>6, ReadyTells
    <3>2. Shown(list)' = Shown(list)
      BY <3>1 DEF Shown, Number
    <3>. QED  BY <3>1, <3>2 DEF Aware
  <2>. QED  BY <1>1, <1>2, <2>5, <2>6 DEF Following
<1>7. CASE FrameSaid
  <2>. DEFINE m == up[1]
  <2>1. /\ m.type # "ready"
        /\ \E f \in 0 .. MaxThreads, p \in BOOLEAN :
             Commit(list, f, p, <<>>) /\ (m.type \in {"picked", "pickoff"} => ~p)
    <3>1. CASE m.type \in {"select", "unselect"} /\ Same
      BY <1>4, <1>5, <3>1 DEF Same
    <3>2. CASE m.type \in {"picked", "pickoff"} /\ Commit(list, focus, FALSE, <<>>)
      <4>1. m.type # "ready"
        BY <3>2
      <4>2. FALSE \in BOOLEAN /\ ~FALSE
        OBVIOUS
      <4>. QED  BY <1>4, <3>2, <4>1, <4>2
    <3>3. CASE m.type = "open" /\ Commit(list, m.id, picking, <<>>)
      <4>1. m.id \in 0 .. MaxThreads
        BY <1>3 DEF Said
      <4>. QED  BY <1>5, <3>3, <4>1
    <3>. QED  BY <1>3, <1>7, <3>1, <3>2, <3>3 DEF FrameSaid
  <2>2. PICK f \in 0 .. MaxThreads, p \in BOOLEAN :
          Commit(list, f, p, <<>>) /\ (m.type \in {"picked", "pickoff"} => ~p)
    BY <2>1
  <2>3. /\ focus' \in 0 .. MaxThreads /\ picking' \in BOOLEAN
        /\ down' \in Seq(Message) /\ pins' \in SUBSET Mark /\ active' \in 0 .. MaxThreads
    BY <1>4, <2>2, CommitTyped
  <2>4. Framing'
    BY <1>2, <1>5, <2>3 DEF Framing
  <2>5. ASSUME framed, page = "ready"
        PROVE  Aware'
    <3>1. Aware
      BY <2>1, <2>5 DEF Following, Greeting
    <3>2. Leaving(up) => Leaving(up') \/ ~p
      BY <1>2, <2>2
    <3>. QED  BY <1>1, <1>4, <2>2, <2>5, <3>1, <3>2, TellingFollows
  <2>. QED  BY <1>1, <1>2, <2>4, <2>5 DEF Following
<1>. QED  BY <1>6, <1>7 DEF Hearing

-----------------------------------------------------------------------------
(* What holds always                                                       *)

Inv == Typed /\ Accounted /\ Following

LEMMA NextGroups ==
  ASSUME Next
  PROVE  Reading \/ Sending \/ CallServed \/ Ending \/ Others \/ Paging \/ Framed \/ Hearing
BY DEF Next, Reading, Sending, Ending, Paging, Framed, Hearing

LEMMA InvHolds ==
  ASSUME Bounds
  PROVE  Spec => []Inv
<1>1. Init => Inv
  <2>. SUFFICES ASSUME Init PROVE Inv
    OBVIOUS
  <2>1. Typed
    BY InitTyped
  <2>2. Accounted
    BY DEF Init, Accounted
  <2>3. up = <<>> /\ (framed => page = "loading")
    BY DEF Init
  <2>4. Following
    BY <2>3, EmptySeq DEF Following, Greets
  <2>. QED  BY <2>1, <2>2, <2>4 DEF Inv
<1>2. Inv /\ [Next]_vars => Inv'
  <2>. SUFFICES ASSUME Inv, [Next]_vars PROVE Inv'
    OBVIOUS
  <2>0. Typed /\ Accounted /\ Following
    BY DEF Inv
  <2>1. ASSUME Telling, Listed', Accounted'
        PROVE  Inv'
    BY <2>0, <2>1, TellingFrames, TellingKeepsFollowing DEF Inv, Typed
  <2>2. ASSUME Framed \/ Hearing
        PROVE  Inv'
    BY <2>0, <2>2, FramedKeepsListed, FramedKeepsFollowing, HearingKeepsFollowing DEF Inv, Typed
  <2>3. CASE Paging
    <3>1. Listed' /\ Accounted'
      BY <2>0, <2>3, PagingKeepsListed
    <3>2. CASE Telling
      BY <2>1, <3>1, <3>2
    <3>3. CASE UNCHANGED <<list, focus, picking, down, up, framed, page, crosshair, pins, active>>
      <4>1. Framing'
        BY <2>0, <3>3 DEF Typed, Framing
      <4>2. Following'
        BY <2>0, <3>3, UnchangedFollows
      <4>. QED  BY <3>1, <4>1, <4>2 DEF Inv, Typed
    <3>. QED  BY <2>0, <2>3, <3>2, <3>3, PagingKeepsListed
  <2>4. CASE Reading
    BY <2>0, <2>1, <2>4, ReadingKeepsListed
  <2>5. CASE Sending
    BY <2>0, <2>1, <2>5, SendingKeepsListed
  <2>6. CASE CallServed
    BY <2>0, <2>1, <2>6, ServedKeepsListed
  <2>7. CASE Ending
    BY <2>0, <2>1, <2>7, EndingKeepsListed
  <2>8. CASE Others
    BY <2>0, <2>1, <2>8, OthersKeepListed
  <2>9. CASE UNCHANGED vars
    <3>1. UNCHANGED <<threads, list, read, calls, missed, made, acts>>
      BY <2>9 DEF vars, hubVars
    <3>2. UNCHANGED <<list, focus, picking, down, up, framed, page, crosshair, pins, active>>
      BY <2>9 DEF vars, pageVars, markVars
    <3>3. Listed' /\ Accounted'
      BY <2>0, <3>1 DEF Typed, Listed, Accounted, Owing
    <3>4. Framing'
      BY <2>0, <3>2 DEF Typed, Framing
    <3>5. Following'
      BY <2>0, <3>2, UnchangedFollows
    <3>. QED  BY <3>3, <3>4, <3>5 DEF Inv, Typed
  <2>. QED  BY <2>2, <2>3, <2>4, <2>5, <2>6, <2>7, <2>8, <2>9, NextGroups
<1>. QED  BY <1>1, <1>2, PTL DEF Spec

\* Once the writes and the reads of this tab are through, its list is the hub's, unless
\* the hub's changed behind a failed write or by another hand and no read was asked for
\* since (useComments.ts: onMutate, onError, onSettled).
THEOREM ListComesTrue ==
  ASSUME Bounds
  PROVE  Spec => []ListIsHub
<1>1. Inv => ListIsHub
  BY DEF Inv, Accounted, Owing, ListIsHub
<1>. QED  BY <1>1, InvHolds, PTL

\* Once the messages both ways are through, a loaded frame marks the open threads under
\* the panel's numbers, with the focus active, and picks if the app says so
\* (Comments.tsx: the effects that post to the frame; inline-comment.ts: its handler).
THEOREM FrameFollowsHolds ==
  ASSUME Bounds
  PROVE  Spec => []FrameFollows
<1>1. ASSUME Inv, framed, page = "ready", up = <<>>, down = <<>>
      PROVE  pins = Shown(list) /\ active = focus /\ crosshair = picking
  <2>1. Aware
    BY <1>1 DEF Inv, Following, Greeting
  <2>2. ~Leaving(up)
    BY <1>1, EmptySeq DEF Leaving
  <2>3. \A types : LastOf(down, types, 0)
    BY <1>1, EmptySeq DEF LastOf
  <2>4. pins = Shown(list)
    BY <2>1, <2>3 DEF Aware, WillMark
  <2>5. active = focus
    BY <2>1, <2>3 DEF Aware, WillFocus
  <2>6. crosshair = picking \/ (Leaving(up) /\ ~crosshair)
    BY <2>1, <2>3 DEF Aware, WillPick
  <2>. QED  BY <2>2, <2>4, <2>5, <2>6
<1>2. Inv => FrameFollows
  BY <1>1 DEF FrameFollows
<1>. QED  BY <1>2, InvHolds, PTL
=============================================================================
