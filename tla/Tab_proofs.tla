--------------------------- MODULE Tab_proofs ---------------------------
(***************************************************************************)
(* What holds of LiveTabs for any tabs, any length of the hub's queue, any   *)
(* number of changes and faults: an open tab that nothing is on its way to,  *)
(* and that was told of every change, shows what the hub has.                *)
(***************************************************************************)
EXTENDS MCTab, TLAPS, SequenceTheorems

Bounds == 0 \notin Tabs /\ Buffer \in Nat /\ MaxWrites \in Nat /\ MaxFaults \in Nat

-----------------------------------------------------------------------------
(* The state                                                               *)

\* Every frame on the way names the thing that is followed, and only the listing
\* waits for a timer.
About == {f \in Frames : thing \in Touches(f)}
Answers == {<<>>} \cup {<<n>> : n \in Asked .. hub}
Copies == [data : None .. hub, fetch : Answers]

Followed == thing \in Things /\ hub \in 0 .. MaxWrites /\ faults \in 0 .. MaxFaults
Streaming ==
  /\ lead \in Tabs \cup {0}
  /\ stream \in {"off", "connecting", "up", "dead"} /\ (stream = "off" <=> lead = 0)
  /\ wire \in Seq(About \ {"resync"}) /\ Len(wire) <= Buffer
  /\ stream # "up" => wire = <<>> /\ ~lost
Held ==
  /\ tab \in [Tabs -> {"closed", "loading", "open"}]
  /\ inbox \in [Tabs -> Seq(About)]
  /\ cache \in [Tabs -> Copies]
Noted ==
  /\ timer \in [Tabs -> BOOLEAN] /\ (\A t \in Tabs : timer[t] => thing = "tree")
  /\ behind \in [Tabs -> BOOLEAN] /\ lost \in BOOLEAN
Typed == Followed /\ Streaming /\ Held /\ Noted

LEMMA TypedIsTypeOK ==
  ASSUME Bounds, Typed
  PROVE  TypeOK
<1>1. \A i \in 1 .. Len(wire) : wire[i] \in Kinds
  BY DEF Typed, Streaming, About, Frames
<1>2. \A t \in Tabs : \A i \in 1 .. Len(inbox[t]) : inbox[t][i] \in Frames
  <2>. TAKE t \in Tabs
  <2>1. inbox[t] \in Seq(About) /\ About \subseteq Frames
    BY DEF Typed, Held, About
  <2>. QED  BY <2>1, ElementOfSeq
<1>3. \A t \in Tabs :
        /\ cache[t].data \in None .. MaxWrites
        /\ cache[t].fetch = <<>> \/ cache[t].fetch[1] \in Asked .. MaxWrites
  <2>. TAKE t \in Tabs
  <2>1. cache[t] \in Copies
    BY DEF Typed, Held
  <2>2. cache[t].data \in None .. hub /\ cache[t].fetch \in Answers
    BY <2>1 DEF Copies
  <2>3. hub \in 0 .. MaxWrites /\ MaxWrites \in Nat
    BY DEF Typed, Followed, Bounds
  <2>4. CASE cache[t].fetch = <<>>
    BY <2>2, <2>3, <2>4 DEF None
  <2>5. CASE cache[t].fetch # <<>>
    <3>1. PICK n \in Asked .. hub : cache[t].fetch = <<n>>
      BY <2>2, <2>5 DEF Answers
    <3>. QED  BY <2>2, <2>3, <3>1 DEF None, Asked
  <2>. QED  BY <2>4, <2>5
<1>. QED  BY <1>1, <1>2, <1>3 DEF Typed, Followed, Streaming, Held, Noted, TypeOK

LEMMA InitTyped ==
  ASSUME Bounds, Init
  PROVE  Typed
<1>1. Followed
  BY DEF Bounds, Init, Followed
<1>2. Streaming
  BY DEF Bounds, Init, Streaming
<1>3. Held
  BY DEF Bounds, Init, Held, Copies, Answers, prefetchForURL, None, Asked
<1>4. Noted
  BY DEF Init, Noted
<1>. QED  BY <1>1, <1>2, <1>3, <1>4 DEF Typed

\* Asking again.
LEMMA AsksAgain ==
  ASSUME Bounds, Followed, NEW c \in Copies
  PROVE  /\ Invalidated(c) \in Copies /\ Invalidated(c).data = c.data
         /\ ~Joined(c) => Invalidated(c).fetch = <<Asked>>
<1>1. <<Asked>> \in Answers
  BY DEF Bounds, Followed, Answers, Asked
<1>2. [c EXCEPT !.fetch = <<Asked>>] \in Copies
  BY <1>1 DEF Copies
<1>. QED  BY <1>2 DEF Invalidated, Joined, Copies

\* A frame in a tab touches that tab only, and leaves it asking, about to ask, or
\* not told.
LEMMA Handled ==
  ASSUME Bounds, Typed, NEW t \in Tabs, NEW f \in About, handle(t, f), hub' = hub, thing' = thing
  PROVE  /\ cache' \in [Tabs -> Copies]
         /\ timer' \in [Tabs -> BOOLEAN] /\ \A u \in Tabs : timer'[u] => thing = "tree"
         /\ behind' \in [Tabs -> BOOLEAN]
         /\ \A u \in Tabs \ {t} : cache'[u] = cache[u] /\ timer'[u] = timer[u] /\ behind'[u] = behind[u]
         /\ behind'[t] \/ timer'[t] \/ cache'[t].fetch = <<Asked>>
<1>. DEFINE unheard == Touches(f) \ (AtOnce(f) \cup IF Delays(f) THEN {"tree"} ELSE {})
            told == unheard \cup IF Joined(cache[t]) THEN AtOnce(f) ELSE {}
<1>1. /\ cache' = IF thing \in AtOnce(f) THEN [cache EXCEPT ![t] = Invalidated(@)] ELSE cache
      /\ timer' = [timer EXCEPT ![t] = @ \/ (thing = "tree" /\ Delays(f))]
      /\ behind' = [u \in Tabs |-> behind[u] \/ (u \in {t} /\ thing \in told)]
  BY DEF handle, Miss
<1>2. cache \in [Tabs -> Copies] /\ timer \in [Tabs -> BOOLEAN] /\ behind \in [Tabs -> BOOLEAN]
  BY DEF Typed, Held, Noted
<1>3. Invalidated(cache[t]) \in Copies /\ (~Joined(cache[t]) => Invalidated(cache[t]).fetch = <<Asked>>)
  BY <1>2, AsksAgain DEF Typed
<1>4. thing \in told \/ (thing = "tree" /\ Delays(f)) \/ (thing \in AtOnce(f) /\ ~Joined(cache[t]))
  BY DEF About
<1>. HIDE DEF told
<1>5. cache' \in [Tabs -> Copies] /\ \A u \in Tabs \ {t} : cache'[u] = cache[u]
  BY <1>1, <1>2, <1>3
<1>6. /\ timer' \in [Tabs -> BOOLEAN] /\ \A u \in Tabs : timer'[u] => thing = "tree"
      /\ \A u \in Tabs \ {t} : timer'[u] = timer[u]
      /\ thing = "tree" /\ Delays(f) => timer'[t]
  BY <1>1, <1>2 DEF Typed, Noted
<1>7. /\ behind' \in [Tabs -> BOOLEAN]
      /\ \A u \in Tabs \ {t} : behind'[u] = behind[u]
      /\ thing \in told => behind'[t]
  BY <1>1, <1>2
<1>8. thing \in AtOnce(f) /\ ~Joined(cache[t]) => cache'[t].fetch = <<Asked>>
  BY <1>1, <1>2, <1>3
<1>. QED  BY <1>4, <1>5, <1>6, <1>7, <1>8

-----------------------------------------------------------------------------
(* Types are kept                                                          *)

\* What a tab has asked for or been answered stays so, as the hub only goes on.
LEMMA CopiesGrow ==
  ASSUME Bounds, Typed, hub' \in {hub, hub + 1}, cache' = cache
  PROVE  cache' \in [Tabs -> Copies']
<1>1. Answers \subseteq Answers' /\ None .. hub \subseteq None .. hub'
  BY DEF Bounds, Typed, Followed, Answers, None, Asked
<1>2. Copies \subseteq Copies'
  BY <1>1 DEF Copies
<1>. QED  BY <1>2 DEF Typed, Held

LEMMA NextKeepsFollowed ==
  ASSUME Bounds, Followed, Next
  PROVE  /\ Followed' /\ thing' = thing
         /\ hub' = hub \/ \E kind \in Kinds : Publish(kind)
<1>1. CASE \E kind \in Kinds : Publish(kind)
  BY <1>1 DEF Publish, Followed, Bounds
<1>2. CASE onmessage \/ Connected
  BY <1>2 DEF onmessage, Connected, handle, Followed, hubVars
<1>3. CASE Dropped \/ Refused
  BY <1>3 DEF Dropped, Refused, Fault, Cut, Followed, Bounds, hubVars
<1>4. CASE \E t \in Tabs : TabSteps(t) \/ Poll(t)
  BY <1>4 DEF TabSteps, Relayed, invalidateProject, useProjectEvents, Elected, Serve, Arrive, Poll,
              Followed, hubVars
<1>5. CASE \E t \in Tabs : FetchFails(t) \/ Close(t)
  BY <1>5 DEF FetchFails, Close, Fault, Cut, Followed, Bounds, hubVars
<1>. QED  BY <1>1, <1>2, <1>3, <1>4, <1>5 DEF Next

LEMMA NextKeepsStreaming ==
  ASSUME Bounds, Typed, Next
  PROVE  Streaming'
<1>. USE DEF Typed
<1>0. thing' = thing
  BY NextKeepsFollowed
<1>1. ASSUME NEW kind \in Kinds, Publish(kind)
      PROVE  Streaming'
  <2>1. kind \in About \ {"resync"}
    BY <1>1 DEF Publish, About, Frames, Kinds
  <2>2. Append(wire, kind) \in Seq(About \ {"resync"}) /\ Len(Append(wire, kind)) = Len(wire) + 1
    BY <2>1, AppendProperties DEF Streaming
  <2>3. /\ UNCHANGED <<lead, stream>> /\ (stream # "up" => UNCHANGED <<wire, lost>>)
        /\ wire' = wire \/ (Len(wire) < Buffer /\ wire' = Append(wire, kind))
    BY <1>1 DEF Publish, netVars
  <2>4. Len(wire) \in Nat
    BY LenProperties DEF Streaming
  <2>. QED  BY <1>0, <2>2, <2>3, <2>4 DEF Streaming, Bounds, About
<1>2. CASE onmessage
  <2>1. UNCHANGED <<lead, stream>> /\ stream = "up"
    BY <1>2 DEF onmessage
  <2>2. wire' = wire \/ (wire # <<>> /\ wire' = Tail(wire))
    BY <1>2 DEF onmessage
  <2>3. ASSUME wire # <<>>
        PROVE  Tail(wire) \in Seq(About \ {"resync"}) /\ Len(Tail(wire)) = Len(wire) - 1
    BY <2>3, HeadTailProperties DEF Streaming
  <2>4. Len(wire) \in Nat
    BY LenProperties DEF Streaming
  <2>. QED  BY <1>0, <2>1, <2>2, <2>3, <2>4 DEF Streaming, Bounds, About
<1>3. ASSUME wire' = <<>>, ~lost', lead' \in Tabs \cup {0},
             stream' \in {"off", "connecting", "up", "dead"}, stream' = "off" <=> lead' = 0
      PROVE  Streaming'
  <2>1. wire' \in Seq(About' \ {"resync"}) /\ Len(wire') = 0
    BY <1>3
  <2>. QED  BY <1>3, <2>1 DEF Streaming, Bounds
<1>4. CASE Connected
  BY <1>0, <1>3, <1>4 DEF Connected, Streaming, hubVars
<1>5. CASE Dropped \/ Refused
  BY <1>0, <1>3, <1>5 DEF Dropped, Refused, Cut, Streaming, hubVars
<1>6. ASSUME UNCHANGED <<lead, stream, wire, lost>>
      PROVE  Streaming'
  BY <1>0, <1>6 DEF Streaming, About
<1>7. ASSUME NEW t \in Tabs, TabSteps(t) \/ Poll(t)
      PROVE  Streaming'
  <2>1. CASE Elected(t)
    BY <1>0, <1>3, <2>1 DEF Elected, Streaming, Bounds, hubVars
  <2>. QED  BY <1>6, <1>7, <2>1 DEF TabSteps, Relayed, invalidateProject, useProjectEvents, Serve, Arrive, Poll,
                                    hubVars, netVars
<1>8. ASSUME NEW t \in Tabs, FetchFails(t) \/ Close(t)
      PROVE  Streaming'
  BY <1>3, <1>6, <1>8 DEF FetchFails, Close, Cut, hubVars, netVars
<1>. QED  BY <1>1, <1>2, <1>4, <1>5, <1>7, <1>8 DEF Next

LEMMA NextKeepsHeld ==
  ASSUME Bounds, Typed, Next
  PROVE  Held'
<1>. USE DEF Typed
<1>0. /\ thing' = thing /\ About' = About
      /\ hub' = hub \/ \E kind \in Kinds : Publish(kind)
  BY NextKeepsFollowed DEF About
<1>1. ASSUME NEW kind \in Kinds, Publish(kind)
      PROVE  Held'
  <2>1. hub' = hub + 1 /\ UNCHANGED <<tab, inbox, cache>>
    BY <1>1 DEF Publish, netVars
  <2>. QED  BY <1>0, <2>1, CopiesGrow DEF Held
<1>2. ASSUME hub' = hub
      PROVE  Copies' = Copies
  BY <1>2 DEF Copies, Answers
<1>3. ASSUME UNCHANGED <<hub, tab>>, inbox' \in [Tabs -> Seq(About)], cache' \in [Tabs -> Copies]
      PROVE  Held'
  BY <1>0, <1>2, <1>3 DEF Held
<1>4. CASE onmessage
  <2>1. /\ Written \in About /\ lead \in Tabs
        /\ handle(lead, Written) /\ UNCHANGED <<hub, tab>>
    <3>1. "resync" \in About
      BY DEF About, Frames, Touches, Followed
    <3>2. wire # <<>> => Head(wire) \in About
      BY HeadTailProperties DEF Streaming
    <3>3. (lost \/ wire # <<>>) /\ stream = "up"
      BY <1>4 DEF onmessage
    <3>4. Written \in About
      BY <3>1, <3>2, <3>3 DEF Written
    <3>5. handle(lead, Written) /\ UNCHANGED <<hub, tab>>
      BY <1>4 DEF onmessage
    <3>. QED  BY <3>3, <3>4, <3>5 DEF Streaming
  <2>2. cache' \in [Tabs -> Copies]
    BY <1>0, <2>1, Handled
  <2>3. ASSUME NEW t \in Tabs
        PROVE  Append(inbox[t], Written) \in Seq(About)
    BY <2>1, AppendProperties DEF Held
  <2>4. inbox' = [t \in Tabs |->
          IF t \in Listening \ {lead} THEN Append(inbox[t], Written) ELSE inbox[t]]
    BY <1>4 DEF onmessage
  <2>5. inbox' \in [Tabs -> Seq(About)]
    BY <2>3, <2>4 DEF Held
  <2>. QED  BY <1>3, <2>1, <2>2, <2>5
<1>5. CASE Connected \/ Dropped \/ Refused
  BY <1>3, <1>5 DEF Connected, Dropped, Refused, Cut, hubVars, Held
<1>6. ASSUME NEW t \in Tabs, TabSteps(t) \/ Poll(t)
      PROVE  Held'
  <2>1. CASE Relayed(t)
    <3>1. inbox[t] \in Seq(About) /\ inbox[t] # <<>>
      BY <2>1 DEF Relayed, Held
    <3>2. Head(inbox[t]) \in About /\ Tail(inbox[t]) \in Seq(About)
      BY <3>1, HeadTailProperties
    <3>3. handle(t, Head(inbox[t])) /\ UNCHANGED <<hub, tab>> /\ inbox' = [inbox EXCEPT ![t] = Tail(@)]
      BY <2>1 DEF Relayed, hubVars
    <3>4. cache' \in [Tabs -> Copies]
      BY <1>0, <3>2, <3>3, Handled
    <3>. QED  BY <1>3, <3>2, <3>3, <3>4 DEF Held
  <2>2. CASE invalidateProject(t)
    BY <1>3, <2>2, AsksAgain DEF invalidateProject, hubVars, netVars, Held
  <2>3. CASE useProjectEvents(t)
    <3>1. UNCHANGED <<hub, inbox, cache>> /\ tab' = [tab EXCEPT ![t] = "open"]
      BY <2>3 DEF useProjectEvents, hubVars, netVars
    <3>. QED  BY <1>0, <1>2, <3>1 DEF Held
  <2>4. CASE Elected(t)
    BY <1>3, <2>4 DEF Elected, hubVars, Held
  <2>5. CASE Serve(t) \/ Arrive(t) \/ Poll(t)
    <3>1. UNCHANGED <<hub, tab, inbox>>
      BY <2>5 DEF Serve, Arrive, Poll, hubVars, netVars
    <3>2. <<hub>> \in Answers /\ <<Asked>> \in Answers /\ None \in None .. hub
      BY DEF Bounds, Followed, Answers, Asked, None
    <3>3. cache[t] \in Copies
      BY DEF Held
    <3>4. cache[t].fetch \notin {<<>>, <<Asked>>} => cache[t].fetch[1] \in None .. hub
      BY <3>3 DEF Copies, Answers, Bounds, Followed, Asked, None
    <3>5. CASE Serve(t)
      BY <1>3, <3>1, <3>2, <3>3, <3>5 DEF Serve, Held, Copies
    <3>6. CASE Arrive(t)
      <4>1. [data |-> cache[t].fetch[1], fetch |-> <<>>] \in Copies
        BY <3>4, <3>6 DEF Arrive, Copies, Answers
      <4>. QED  BY <1>3, <3>1, <3>6, <4>1 DEF Arrive, Held
    <3>7. CASE Poll(t)
      BY <1>3, <3>1, <3>2, <3>3, <3>7 DEF Poll, Held, Copies
    <3>. QED  BY <2>5, <3>5, <3>6, <3>7
  <2>. QED  BY <1>6, <2>1, <2>2, <2>3, <2>4, <2>5 DEF TabSteps
<1>7. ASSUME NEW t \in Tabs, FetchFails(t)
      PROVE  Held'
  <2>1. cache[t] \in Copies /\ <<>> \in Answers
    BY DEF Held, Answers
  <2>2. [cache[t] EXCEPT !.fetch = <<>>] \in Copies
    BY <2>1 DEF Copies
  <2>. QED  BY <1>3, <1>7, <2>2 DEF FetchFails, hubVars, netVars, Held
<1>8. ASSUME NEW t \in Tabs, Close(t)
      PROVE  Held'
  <2>1. Nothing \in Copies /\ hub' = hub
    BY <1>8 DEF Close, Cut, hubVars, Bounds, Followed, Nothing, Copies, Answers, None
  <2>2. cache' \in [Tabs -> Copies] /\ tab' \in [Tabs -> {"closed", "loading", "open"}]
    BY <1>8, <2>1 DEF Close, Held
  <2>3. inbox' \in [Tabs -> Seq(About)]
    BY <1>8 DEF Close, Held
  <2>. QED  BY <1>0, <1>2, <2>1, <2>2, <2>3 DEF Held
<1>. QED  BY <1>1, <1>4, <1>5, <1>6, <1>7, <1>8 DEF Next

LEMMA NextKeepsNoted ==
  ASSUME Bounds, Typed, Next
  PROVE  Noted'
<1>. USE DEF Typed
<1>0. thing' = thing
  BY NextKeepsFollowed
<1>1. ASSUME NEW who, NEW what
      PROVE  Miss(who, what) \in [Tabs -> BOOLEAN]
  BY DEF Miss, Noted
<1>2. ASSUME lost' \in BOOLEAN, behind' \in [Tabs -> BOOLEAN], timer' \in [Tabs -> BOOLEAN],
             \A t \in Tabs : timer'[t] => thing = "tree"
      PROVE  Noted'
  BY <1>0, <1>2 DEF Noted
<1>3. ASSUME NEW kind \in Kinds, Publish(kind)
      PROVE  Noted'
  <2>1. lost' \in BOOLEAN /\ timer' = timer
    BY <1>3 DEF Publish, Noted
  <2>2. behind' \in [Tabs -> BOOLEAN]
    BY <1>1, <1>3 DEF Publish
  <2>. QED  BY <1>2, <2>1, <2>2 DEF Noted
<1>4. CASE onmessage
  <2>1. "resync" \in About
    BY DEF About, Frames, Touches, Followed
  <2>2. wire # <<>> => Head(wire) \in About
    BY HeadTailProperties DEF Streaming
  <2>3. (lost \/ wire # <<>>) /\ stream = "up" /\ lost' = FALSE /\ hub' = hub /\ handle(lead, Written)
    BY <1>4 DEF onmessage
  <2>4. Written \in About /\ lead \in Tabs
    BY <2>1, <2>2, <2>3 DEF Written, Streaming
  <2>. QED  BY <1>0, <1>2, <2>3, <2>4, Handled
<1>5. CASE Connected \/ Dropped \/ Refused
  <2>1. lost' \in BOOLEAN /\ timer' = timer
    BY <1>5 DEF Connected, Dropped, Refused, Cut, hubVars, Noted
  <2>2. behind' \in [Tabs -> BOOLEAN]
    BY <1>1, <1>5 DEF Connected, Dropped, Refused, Noted
  <2>. QED  BY <1>2, <2>1, <2>2 DEF Noted
<1>6. ASSUME NEW t \in Tabs, TabSteps(t) \/ Poll(t)
      PROVE  Noted'
  <2>1. CASE Relayed(t)
    <3>1. inbox[t] \in Seq(About) /\ inbox[t] # <<>>
      BY <2>1 DEF Relayed, Held
    <3>2. Head(inbox[t]) \in About
      BY <3>1, HeadTailProperties
    <3>3. handle(t, Head(inbox[t])) /\ UNCHANGED <<hub, lost>>
      BY <2>1 DEF Relayed, hubVars
    <3>. QED  BY <1>0, <1>2, <3>2, <3>3, Handled DEF Noted
  <2>2. CASE invalidateProject(t)
    <3>1. lost' = lost /\ timer' = [timer EXCEPT ![t] = FALSE]
      BY <2>2 DEF invalidateProject, hubVars
    <3>2. behind' \in [Tabs -> BOOLEAN]
      BY <1>1, <2>2 DEF invalidateProject
    <3>. QED  BY <1>2, <3>1, <3>2 DEF Noted
  <2>3. CASE useProjectEvents(t) \/ Elected(t) \/ Arrive(t) \/ Poll(t)
    BY <1>2, <2>3 DEF useProjectEvents, Elected, Arrive, Poll, hubVars, Noted
  <2>4. CASE Serve(t)
    BY <1>2, <2>4 DEF Serve, hubVars, Noted
  <2>. QED  BY <1>6, <2>1, <2>2, <2>3, <2>4 DEF TabSteps
<1>7. ASSUME NEW t \in Tabs, FetchFails(t)
      PROVE  Noted'
  BY <1>2, <1>7 DEF FetchFails, hubVars, Noted
<1>8. ASSUME NEW t \in Tabs, Close(t)
      PROVE  Noted'
  <2>1. lost' \in BOOLEAN /\ timer' = [timer EXCEPT ![t] = FALSE]
    BY <1>8 DEF Close, Cut, hubVars, Noted
  <2>2. behind' \in [Tabs -> BOOLEAN]
    <3>1. PICK m \in [Tabs -> BOOLEAN] : behind' = [m EXCEPT ![t] = FALSE]
      <4>1. CASE lead = t
        BY <1>1, <1>8, <4>1 DEF Close
      <4>2. CASE lead # t
        BY <1>8, <4>2 DEF Close, Noted
      <4>. QED  BY <4>1, <4>2
    <3>. QED  BY <3>1
  <2>. QED  BY <1>2, <2>1, <2>2 DEF Noted
<1>. QED  BY <1>3, <1>4, <1>5, <1>6, <1>7, <1>8 DEF Next

LEMMA StutterKeepsTyped ==
  ASSUME Typed, UNCHANGED vars
  PROVE  Typed'
BY DEF Typed, Followed, Streaming, Held, Noted, About, Answers, Copies, vars, hubVars, netVars

\* TypeOK, in every state: among the rest, the hub never queues more than Buffer
\* frames for a stream, and there is a stream exactly when a tab has the lock.
THEOREM TypeCorrect ==
  ASSUME Bounds
  PROVE  Spec => []TypeOK
<1>1. Init => Typed
  BY InitTyped
<1>2. Typed /\ [Next]_vars => Typed'
  BY NextKeepsFollowed, NextKeepsStreaming, NextKeepsHeld, NextKeepsNoted, StutterKeepsTyped
  DEF Typed
<1>3. Typed => TypeOK
  BY TypedIsTypeOK
<1>. QED  BY <1>1, <1>2, <1>3, PTL DEF Spec

-----------------------------------------------------------------------------
(* Nothing is missed                                                       *)

\* What a tab shows, or has been answered, is what the hub has; or it asks.
Fresh(c) == c.fetch \in {<<Asked>>, <<hub>>} \/ (c.fetch = <<>> /\ c.data = hub)

\* Something on its way will make the tab ask.
Coming(t) ==
  \/ timer[t] \/ inbox[t] # <<>>
  \/ tab[t] = "open" /\ (wire # <<>> \/ lost)

\* A tab that was told of every change is fresh, or is about to ask: what
\* StaysCurrent says of a tab nothing is on its way to, with what is on its way.
Told(t) == t \in Up => behind[t] \/ Fresh(cache[t]) \/ Coming(t)
Informed == \A t \in Tabs : Told(t)

\* What a stream that ends leaves behind is about the thing followed.
LEMMA PendingTouches ==
  ASSUME Typed, wire # <<>> \/ lost
  PROVE  thing \in Pending
<1>1. CASE lost
  BY <1>1 DEF Pending, Typed, Followed
<1>2. CASE wire # <<>>
  <2>1. wire \in Seq(About \ {"resync"}) /\ 1 \in 1 .. Len(wire)
    BY <1>2, EmptySeq, LenProperties DEF Typed, Streaming
  <2>2. wire[1] \in About
    BY <2>1, ElementOfSeq
  <2>. QED  BY <2>1, <2>2 DEF Pending, About
<1>. QED  BY <1>1, <1>2

\* A tab that no step touches stays told, unless what comes to it is cut.
LEMMA Untouched ==
  ASSUME NEW t \in Tabs, Told(t), hub' = hub, tab'[t] = tab[t], cache'[t] = cache[t],
         behind[t] => behind'[t], timer[t] => timer'[t], inbox[t] # <<>> => inbox'[t] # <<>>,
         tab[t] = "open" /\ (wire # <<>> \/ lost) => behind'[t] \/ wire' # <<>> \/ lost'
  PROVE  Told(t)'
BY DEF Told, Up, Fresh, Coming

LEMMA PublishKeepsTold ==
  ASSUME Bounds, Typed, Informed, NEW kind \in Kinds, Publish(kind), NEW t \in Tabs
  PROVE  Told(t)'
<1>1. thing \in Touches(kind) /\ UNCHANGED <<tab, cache, inbox, timer>>
  BY DEF Publish, netVars
<1>2. CASE stream = "up" /\ tab[t] = "open"
  <2>1. wire' = Append(wire, kind) \/ lost'
    BY <1>2 DEF Publish
  <2>2. Append(wire, kind) # <<>>
    BY AppendProperties, LenProperties DEF Typed, Streaming, About, Publish
  <2>. QED  BY <1>1, <1>2, <2>1, <2>2 DEF Told, Coming
<1>3. CASE stream # "up" \/ tab[t] # "open"
  <2>1. behind' = Miss(IF stream = "up" THEN Up \ Listening ELSE Up, Touches(kind))
    BY DEF Publish
  <2>2. t \in Up => behind'[t]
    BY <1>1, <1>3, <2>1 DEF Miss, Up, Listening
  <2>. QED  BY <1>1, <2>2 DEF Told, Up
<1>. QED  BY <1>2, <1>3

LEMMA OnmessageKeepsTold ==
  ASSUME Bounds, Typed, Informed, onmessage, NEW t \in Tabs
  PROVE  Told(t)'
<1>0. UNCHANGED <<thing, hub, lead, stream, tab>> /\ stream = "up" /\ (lost \/ wire # <<>>)
  BY DEF onmessage
<1>1. Written \in About /\ lead \in Tabs /\ handle(lead, Written)
  <2>1. "resync" \in About
    BY DEF About, Frames, Touches, Typed, Followed
  <2>2. wire # <<>> => Head(wire) \in About
    BY HeadTailProperties DEF Typed, Streaming
  <2>. QED  BY <1>0, <2>1, <2>2 DEF onmessage, Written, Typed, Streaming
<1>2. CASE t = lead
  <2>1. behind'[t] \/ timer'[t] \/ cache'[t].fetch = <<Asked>>
    BY <1>0, <1>1, <1>2, Handled
  <2>. QED  BY <2>1 DEF Told, Fresh, Coming
<1>3. CASE t # lead
  <2>1. UNCHANGED <<cache[t], timer[t], behind[t]>>
    BY <1>0, <1>1, <1>3, Handled
  <2>2. inbox'[t] = IF tab[t] = "open" THEN Append(inbox[t], Written) ELSE inbox[t]
    BY <1>3 DEF onmessage, Listening
  <2>3. Append(inbox[t], Written) # <<>>
    BY <1>1, AppendProperties, LenProperties DEF Typed, Held
  <2>4. CASE tab[t] = "open"
    BY <2>2, <2>3, <2>4 DEF Told, Coming
  <2>5. CASE tab[t] # "open"
    BY <1>0, <2>1, <2>2, <2>5, Untouched DEF Informed
  <2>. QED  BY <2>4, <2>5
<1>. QED  BY <1>2, <1>3

\* A step of one tab leaves what comes to the others.
LEMMA TabStepsKeepTold ==
  ASSUME Bounds, Typed, Informed, NEW s \in Tabs, NEW t \in Tabs,
         TabSteps(s) \/ Poll(s) \/ FetchFails(s)
  PROVE  Told(t)'
<1>0. /\ Told(t) /\ cache \in [Tabs -> Copies] /\ timer \in [Tabs -> BOOLEAN]
      /\ behind \in [Tabs -> BOOLEAN] /\ inbox \in [Tabs -> Seq(About)]
      /\ tab \in [Tabs -> {"closed", "loading", "open"}]
  BY DEF Informed, Typed, Held, Noted
<1>1. CASE Relayed(s)
  <2>1. inbox[s] \in Seq(About) /\ inbox[s] # <<>>
    BY <1>1 DEF Relayed, Typed, Held
  <2>2. Head(inbox[s]) \in About
    BY <2>1, HeadTailProperties
  <2>3. /\ handle(s, Head(inbox[s])) /\ UNCHANGED <<thing, hub, wire, lost, tab>>
        /\ inbox' = [inbox EXCEPT ![s] = Tail(@)]
    BY <1>1 DEF Relayed, hubVars
  <2>4. CASE t = s
    <3>1. behind'[t] \/ timer'[t] \/ cache'[t].fetch = <<Asked>>
      BY <2>2, <2>3, <2>4, Handled
    <3>. QED  BY <3>1 DEF Told, Fresh, Coming
  <2>5. CASE t # s
    <3>1. UNCHANGED <<cache[t], timer[t], behind[t]>>
      BY <2>2, <2>3, <2>5, Handled
    <3>2. inbox'[t] = inbox[t]
      BY <1>0, <2>3, <2>5
    <3>. QED  BY <1>0, <2>3, <3>1, <3>2, Untouched
  <2>. QED  BY <2>4, <2>5
<1>2. CASE invalidateProject(s)
  <2>1. /\ UNCHANGED <<hub, wire, lost, tab, inbox>>
        /\ timer' = [timer EXCEPT ![s] = FALSE] /\ cache' = [cache EXCEPT ![s] = Invalidated(@)]
        /\ behind' = Miss({s}, IF Joined(cache[s]) THEN {"tree"} ELSE {})
    BY <1>2 DEF invalidateProject, hubVars, netVars
  <2>2. thing = "tree"
    BY <1>2 DEF invalidateProject, Typed, Noted
  <2>3. CASE t = s /\ Joined(cache[s])
    BY <2>1, <2>2, <2>3 DEF Told, Miss
  <2>4. CASE t = s /\ ~Joined(cache[s])
    <3>1. cache'[t].fetch = <<Asked>>
      BY <1>0, <2>1, <2>4, AsksAgain DEF Typed
    <3>. QED  BY <3>1 DEF Told, Fresh
  <2>5. CASE t # s
    <3>1. UNCHANGED <<cache[t], timer[t]>> /\ (behind[t] => behind'[t])
      BY <1>0, <2>1, <2>5 DEF Miss
    <3>. QED  BY <1>0, <2>1, <3>1, Untouched
  <2>. QED  BY <2>3, <2>4, <2>5
<1>3. CASE useProjectEvents(s)
  <2>1. /\ UNCHANGED <<hub, wire, lost, inbox, timer, cache, behind>>
        /\ tab[s] = "loading" /\ tab' = [tab EXCEPT ![s] = "open"]
    BY <1>3 DEF useProjectEvents, hubVars, netVars
  <2>. QED  BY <1>0, <2>1 DEF Told, Up, Fresh, Coming
<1>4. CASE Elected(s)
  BY <1>0, <1>4, Untouched DEF Elected, hubVars
<1>5. CASE Serve(s)
  <2>1. /\ UNCHANGED <<hub, wire, lost, inbox, timer, tab>>
        /\ cache' = [cache EXCEPT ![s].fetch = <<hub>>] /\ behind' = [behind EXCEPT ![s] = FALSE]
    BY <1>5 DEF Serve, hubVars, netVars
  <2>2. CASE t = s
    <3>1. cache'[t].fetch = <<hub>>
      BY <1>0, <2>1, <2>2 DEF Copies
    <3>. QED  BY <2>1, <3>1 DEF Told, Fresh
  <2>3. CASE t # s
    BY <1>0, <2>1, <2>3, Untouched
  <2>. QED  BY <2>2, <2>3
<1>6. CASE Arrive(s)
  <2>1. /\ UNCHANGED <<hub, wire, lost, inbox, timer, tab, behind>>
        /\ cache[s].fetch \notin {<<>>, <<Asked>>}
        /\ cache' = [cache EXCEPT ![s] = [data |-> @.fetch[1], fetch |-> <<>>]]
    BY <1>6 DEF Arrive, hubVars, netVars
  <2>2. CASE t = s
    <3>1. cache'[t] = [data |-> cache[t].fetch[1], fetch |-> <<>>]
      BY <1>0, <2>1, <2>2
    <3>2. cache[t].fetch = <<hub>> => Fresh(cache[t])'
      BY <2>1, <3>1 DEF Fresh
    <3>3. Fresh(cache[t]) => cache[t].fetch = <<hub>>
      BY <2>1, <2>2 DEF Fresh
    <3>. QED  BY <1>0, <2>1, <3>2, <3>3 DEF Told, Up, Coming
  <2>3. CASE t # s
    BY <1>0, <2>1, <2>3, Untouched
  <2>. QED  BY <2>2, <2>3
<1>7. CASE Poll(s)
  <2>1. /\ UNCHANGED <<hub, wire, lost, inbox, timer, tab, behind>>
        /\ cache' = [cache EXCEPT ![s].fetch = <<Asked>>]
    BY <1>7 DEF Poll, hubVars, netVars
  <2>2. CASE t = s
    <3>1. cache'[t].fetch = <<Asked>>
      BY <1>0, <2>1, <2>2 DEF Copies
    <3>. QED  BY <3>1 DEF Told, Fresh
  <2>3. CASE t # s
    BY <1>0, <2>1, <2>3, Untouched
  <2>. QED  BY <2>2, <2>3
<1>8. CASE FetchFails(s)
  <2>1. /\ UNCHANGED <<hub, wire, lost, inbox, timer, tab>>
        /\ cache' = [cache EXCEPT ![s].fetch = <<>>] /\ behind' = [behind EXCEPT ![s] = TRUE]
    BY <1>8 DEF FetchFails, hubVars, netVars
  <2>2. CASE t = s
    BY <1>0, <2>1, <2>2 DEF Told
  <2>3. CASE t # s
    BY <1>0, <2>1, <2>3, Untouched
  <2>. QED  BY <2>2, <2>3
<1>. QED  BY <1>1, <1>2, <1>3, <1>4, <1>5, <1>6, <1>7, <1>8 DEF TabSteps

\* A stream that ends, with its tab or without it, leaves no tab unaware of what
\* was queued for it.
LEMMA CutKeepsTold ==
  ASSUME Bounds, Typed, Informed, NEW t \in Tabs, Dropped \/ \E s \in Tabs : Close(s)
  PROVE  Told(t)'
<1>0. Told(t) /\ behind \in [Tabs -> BOOLEAN]
  BY DEF Informed, Typed, Noted
<1>1. CASE Dropped
  <2>1. UNCHANGED <<hub, tab, cache, timer, inbox>> /\ behind' = Miss(Up, Pending)
    BY <1>1 DEF Dropped, Cut
  <2>2. /\ behind[t] => behind'[t]
        /\ tab[t] = "open" /\ (wire # <<>> \/ lost) => behind'[t]
    BY <1>0, <2>1, PendingTouches DEF Miss, Up
  <2>. QED  BY <1>0, <2>1, <2>2, Untouched
<1>2. ASSUME NEW s \in Tabs, Close(s)
      PROVE  Told(t)'
  <2>1. /\ tab' = [tab EXCEPT ![s] = "closed"] /\ inbox' = [inbox EXCEPT ![s] = <<>>]
        /\ timer' = [timer EXCEPT ![s] = FALSE] /\ cache' = [cache EXCEPT ![s] = Nothing]
    BY <1>2 DEF Close
  <2>2. hub' = hub
    BY <1>2 DEF Close, Cut, hubVars
  <2>3. CASE t = s
    BY <2>1, <2>3 DEF Told, Up, Typed, Held
  <2>4. CASE t # s
    <3>1. tab'[t] = tab[t] /\ inbox'[t] = inbox[t] /\ timer'[t] = timer[t] /\ cache'[t] = cache[t]
      BY <2>1, <2>4 DEF Typed, Held, Noted
    <3>2. CASE lead = s
      <4>1. behind' = [Miss(Up, Pending) EXCEPT ![s] = FALSE]
        BY <1>2, <3>2 DEF Close
      <4>2. behind'[t] = (behind[t] \/ (t \in Up /\ thing \in Pending))
        BY <2>4, <4>1 DEF Miss
      <4>3. /\ behind[t] => behind'[t]
            /\ tab[t] = "open" /\ (wire # <<>> \/ lost) => behind'[t]
        BY <4>2, PendingTouches DEF Up
      <4>. QED  BY <1>0, <2>2, <3>1, <4>3, Untouched
    <3>3. CASE lead # s
      <4>1. behind' = [behind EXCEPT ![s] = FALSE] /\ UNCHANGED <<wire, lost>>
        BY <1>2, <3>3 DEF Close, hubVars
      <4>2. behind'[t] = behind[t]
        BY <1>0, <2>4, <4>1
      <4>. QED  BY <1>0, <2>2, <3>1, <4>1, <4>2, Untouched
    <3>. QED  BY <3>2, <3>3
  <2>. QED  BY <2>3, <2>4
<1>. QED  BY <1>1, <1>2

LEMMA NextKeepsInformed ==
  ASSUME Bounds, Typed, Informed, [Next]_vars
  PROVE  Informed'
<1>. SUFFICES ASSUME NEW t \in Tabs
              PROVE  Told(t)'
  BY DEF Informed
<1>1. CASE \E kind \in Kinds : Publish(kind)
  BY <1>1, PublishKeepsTold
<1>2. CASE onmessage
  BY <1>2, OnmessageKeepsTold
<1>3. CASE Connected \/ Refused
  BY <1>3, Untouched DEF Connected, Refused, hubVars, Informed
<1>4. CASE Dropped \/ \E s \in Tabs : Close(s)
  BY <1>4, CutKeepsTold
<1>5. CASE \E s \in Tabs : TabSteps(s) \/ Poll(s) \/ FetchFails(s)
  BY <1>5, TabStepsKeepTold
<1>6. CASE UNCHANGED vars
  BY <1>6, Untouched DEF vars, hubVars, netVars, Informed
<1>. QED  BY <1>1, <1>2, <1>3, <1>4, <1>5, <1>6 DEF Next

\* An open tab shows what the hub has once everything on its way has come, but
\* for a change it was not told: whoever leads, however often the lead or the
\* stream changes, and whatever the hub's queue holds.
THEOREM StaysCurrentHolds ==
  ASSUME Bounds
  PROVE  Spec => []StaysCurrent
<1>1. Init => Typed /\ Informed
  <2>1. Init => Typed
    BY InitTyped
  <2>2. Init => Informed
    BY DEF Init, Informed, Told, Fresh, prefetchForURL
  <2>. QED  BY <2>1, <2>2
<1>2. Typed /\ Informed /\ [Next]_vars => Typed' /\ Informed'
  BY NextKeepsFollowed, NextKeepsStreaming, NextKeepsHeld, NextKeepsNoted, StutterKeepsTyped,
     NextKeepsInformed
  DEF Typed
<1>3. Typed /\ Informed => StaysCurrent
  BY DEF Informed, Told, Fresh, Coming, Up, StaysCurrent, Quiet, Listening, Asked
<1>. QED  BY <1>1, <1>2, <1>3, PTL DEF Spec

-----------------------------------------------------------------------------
(* The address bar (PageRouter): what an address reads as                  *)

Modes == {"hub", "volume"}
ViewNames == {"dashboard", "history", "install", "settings"}
ViewWords == {"dashboard", "history", "insights", "activity", "install", "settings"}

Routes ==
  [org : Seq(Segments), billing : BOOLEAN, connections : BOOLEAN, project : Seq(Segments),
   path : Seq(Segments), view : ViewNames \cup {"none"}, viewTarget : Seq(Segments),
   legacyView : BOOLEAN, trailingSlash : BOOLEAN, queryTarget : BOOLEAN,
   version : BOOLEAN, full : BOOLEAN, editing : BOOLEAN, connect : BOOLEAN,
   filters : BOOLEAN]

\* A path that its own address reads as: no view's, and the editor's if it is
\* edited.
Legible(p, editing, m) ==
  /\ p # <<>>
  /\ editing \/ (Head(p) # "edit" /\ (m = "volume" \/ Head(p) \notin ViewWords))

\* A first segment is a project's unless it names a page of the hub.
Projects == Segments \ {"orgs", "billing", "connections"}

\* How the parts of a route hang together.
Coherent(r, m) ==
  /\ r \in Routes
  /\ r.project = <<>> \/ (m = "hub" /\ \E i \in Projects : r.project = <<i>>)
  /\ m = "hub" /\ r.project = <<>> => r.path = <<>> /\ r.view = "none"
  /\ r.view # "none" => r.path = <<>> /\ m = "hub"
  /\ r.project # <<>> => r.org = <<>> /\ ~r.billing /\ ~r.connections
  /\ m = "volume" => r.org = <<>> /\ ~r.billing /\ ~r.connections
  /\ r.view = "none" => r.viewTarget = <<>> /\ ~r.legacyView /\ ~r.queryTarget
  /\ r.path # <<>> => Legible(r.path, r.editing, m)

LEMMA NoRouteIsOne ==
  R!NoRoute \in Routes
BY DEF R!NoRoute, Routes

\* An address of a path, in the editor or not.
LEMMA EditTaken ==
  ASSUME NEW m \in Modes, NEW r \in Routes, ~r.editing, r.view = "none",
         m = "volume" \/ (r.path # <<>> /\ Head(r.path) = "edit")
  PROVE  LET e == R!takeEdit(r)
         IN /\ e \in Routes
            /\ e.path # <<>> => Legible(e.path, e.editing, m)
            /\ e = [r EXCEPT !.editing = e.editing, !.path = e.path]
<1>1. CASE r.path # <<>> /\ Head(r.path) = "edit"
  <2>1. R!takeEdit(r) = [r EXCEPT !.editing = TRUE, !.path = Tail(r.path)]
    BY <1>1 DEF R!takeEdit
  <2>2. Tail(r.path) \in Seq(Segments)
    BY <1>1 DEF Routes
  <2>. QED  BY <2>1, <2>2 DEF Routes, Legible
<1>2. CASE ~(r.path # <<>> /\ Head(r.path) = "edit")
  <2>1. R!takeEdit(r) = r
    BY <1>2 DEF R!takeEdit
  <2>. QED  BY <1>2, <2>1 DEF Routes, Legible
<1>. QED  BY <1>1, <1>2

\* An address in a project that is not its editor's.
LEMMA ViewTaken ==
  ASSUME NEW r \in Routes, ~r.editing, r.view = "none", r.viewTarget = <<>>,
         ~r.legacyView, r.path # <<>> => Head(r.path) # "edit"
  PROVE  LET v == R!takeView(r)
         IN /\ v \in Routes
            /\ v.view # "none" => v.path = <<>>
            /\ v.view = "none" => v.viewTarget = <<>> /\ ~v.legacyView
            /\ v.path # <<>> => Legible(v.path, v.editing, "hub")
            /\ v = [r EXCEPT !.view = v.view, !.legacyView = v.legacyView,
                            !.viewTarget = v.viewTarget, !.path = v.path]
<1>1. CASE r.path # <<>> /\ Head(r.path) \in ViewWords
  <2>0. DEFINE head == Head(r.path)
               legacy == head \in {"dashboard", "history"}
               canonical == head \in {"insights", "activity", "install", "settings"}
               name == IF canonical THEN R!SegmentViews[head] ELSE R!LegacyViews[head]
  <2>1. R!takeView(r) = [r EXCEPT !.view = name, !.legacyView = legacy,
                                  !.viewTarget = Tail(r.path), !.path = <<>>]
    BY <1>1 DEF R!takeView, R!LegacyViews, R!SegmentViews, ViewWords
  <2>2. name \in ViewNames /\ legacy \in BOOLEAN
    BY <1>1 DEF R!LegacyViews, R!SegmentViews, ViewWords, ViewNames
  <2>3. Tail(r.path) \in Seq(Segments) /\ <<>> \in Seq(Segments)
    BY <1>1 DEF Routes
  <2>. HIDE DEF name, legacy
  <2>. QED  BY <2>1, <2>2, <2>3 DEF Routes, ViewNames
<1>2. CASE ~(r.path # <<>> /\ Head(r.path) \in ViewWords)
  <2>1. R!takeView(r) = r
    BY <1>2 DEF R!takeView, R!LegacyViews, R!SegmentViews, ViewWords
  <2>. QED  BY <1>2, <2>1 DEF Routes, Legible
<1>. QED  BY <1>1, <1>2

\* The first segment of a path, and what is left of it.
LEMMA Taken ==
  ASSUME NEW k \in Seq(Segments), k # <<>>
  PROVE  /\ Head(k) \in Segments /\ Tail(k) \in Seq(Segments)
         /\ \A x : (Len(k) > 1 /\ k[2] = x) <=> (Tail(k) # <<>> /\ Head(Tail(k)) = x)
<1>1. Head(k) \in Segments /\ Tail(k) \in Seq(Segments) /\ Len(Tail(k)) = Len(k) - 1
      /\ \A j \in 1 .. Len(Tail(k)) : Tail(k)[j] = k[j + 1]
  BY HeadTailProperties
<1>2. Len(k) \in Nat /\ Len(k) > 0
  BY EmptySeq, LenProperties
<1>3. Tail(k) # <<>> <=> Len(k) > 1
  <2>1. Tail(k) # <<>> => Len(Tail(k)) \in Nat \ {0}
    BY <1>1, EmptySeq
  <2>2. Tail(k) = <<>> => Len(Tail(k)) = 0
    BY EmptySeq
  <2>. QED  BY <1>1, <1>2, <2>1, <2>2
<1>4. Len(k) > 1 => Head(Tail(k)) = k[2]
  BY <1>1, <1>2
<1>. QED  BY <1>1, <1>3, <1>4

LEMMA PathParsed ==
  ASSUME NEW u \in R!Addresses, NEW m \in Modes
  PROVE  LET r == R!parsePath(u, m)
         IN /\ Coherent(r, m)
            /\ ~r.version /\ ~r.full /\ ~r.connect /\ ~r.filters
            /\ r.project # <<>> => u.segs # <<>> /\ r.project = <<Head(u.segs)>>
<1>. DEFINE none == R!NoRoute
            opened(p, k) == R!withPath([none EXCEPT !.project = p], k, u.slash)
<1>1. u.segs \in Seq(Segments) /\ u.slash \in BOOLEAN
  BY DEF R!Addresses
<1>2. none \in Routes /\ none.project = <<>> /\ none.path = <<>> /\ none.view = "none"
      /\ none.viewTarget = <<>> /\ ~none.legacyView /\ ~none.editing /\ ~none.queryTarget
      /\ ~none.version /\ ~none.full /\ ~none.connect /\ ~none.filters
      /\ none.org = <<>> /\ ~none.billing /\ ~none.connections
  BY NoRouteIsOne DEF R!NoRoute
<1>3. ASSUME NEW p \in Seq(Segments), NEW k \in Seq(Segments)
      PROVE  /\ opened(p, k) \in Routes
             /\ opened(p, k) = [none EXCEPT !.project = p, !.path = k,
                                            !.trailingSlash = u.slash /\ k # <<>>]
  BY <1>1, <1>2, <1>3 DEF R!withPath, Routes
<1>4. R!withPath(none, u.segs, u.slash) =
        [none EXCEPT !.path = u.segs, !.trailingSlash = u.slash /\ u.segs # <<>>]
  BY DEF R!withPath
<1>. HIDE DEF none, opened
<1>5. CASE m = "volume"
  <2>. DEFINE w == R!withPath(none, u.segs, u.slash)
  <2>1. R!parsePath(u, m) = R!takeEdit(w)
    BY <1>5 DEF R!parsePath, none
  <2>2. w \in Routes /\ ~w.editing /\ w.view = "none" /\ w.project = <<>>
        /\ w.viewTarget = <<>> /\ ~w.legacyView /\ ~w.queryTarget /\ w.org = <<>>
        /\ ~w.billing /\ ~w.connections
        /\ ~w.version /\ ~w.full /\ ~w.connect /\ ~w.filters
    BY <1>1, <1>2, <1>4 DEF Routes
  <2>. HIDE DEF w
  <2>. DEFINE e == R!takeEdit(w)
  <2>3. /\ e \in Routes /\ (e.path # <<>> => Legible(e.path, e.editing, m))
        /\ e = [w EXCEPT !.editing = e.editing, !.path = e.path]
    BY <1>5, <2>2, EditTaken
  <2>. HIDE DEF e
  <2>4. e.project = w.project /\ e.view = w.view /\ e.org = w.org
        /\ e.billing = w.billing /\ e.connections = w.connections
        /\ e.viewTarget = w.viewTarget /\ e.legacyView = w.legacyView
        /\ e.queryTarget = w.queryTarget /\ e.version = w.version
        /\ e.full = w.full /\ e.connect = w.connect /\ e.filters = w.filters
    BY <2>2, <2>3 DEF Routes
  <2>. QED  BY <1>5, <2>1, <2>2, <2>3, <2>4 DEF Coherent, e
<1>6. CASE m = "hub" /\ (u.segs = <<>> \/ Head(u.segs) \in {"orgs", "billing", "connections"})
  <2>1. \/ R!parsePath(u, m) = none
        \/ u.segs # <<>> /\ R!parsePath(u, m) = [none EXCEPT !.org = Tail(u.segs)]
        \/ R!parsePath(u, m) = [none EXCEPT !.billing = TRUE]
        \/ R!parsePath(u, m) = [none EXCEPT !.connections = TRUE]
    BY <1>6 DEF R!parsePath, none
  <2>2. u.segs # <<>> => Tail(u.segs) \in Seq(Segments)
    BY <1>1, Taken
  <2>. DEFINE r == R!parsePath(u, m)
  <2>3. r \in Routes
    BY <1>2, <2>1, <2>2 DEF Routes
  <2>4. r.project = <<>> /\ r.path = <<>> /\ r.view = "none" /\ r.viewTarget = <<>>
        /\ ~r.legacyView /\ ~r.queryTarget
        /\ ~r.version /\ ~r.full /\ ~r.connect /\ ~r.filters
    BY <1>2, <2>1 DEF Routes
  <2>. HIDE DEF r
  <2>. QED  BY <1>6, <2>3, <2>4 DEF Coherent, r
<1>7. CASE m = "hub" /\ u.segs # <<>> /\ Head(u.segs) \notin {"orgs", "billing", "connections"}
  <2>. DEFINE i == Head(u.segs)
              w == opened(<<i>>, Tail(u.segs))
  <2>1. i \in Projects /\ <<i>> \in Seq(Segments) /\ Tail(u.segs) \in Seq(Segments)
    <3>1. i \in Segments /\ Tail(u.segs) \in Seq(Segments)
      BY <1>1, <1>7, Taken
    <3>. QED  BY <1>7, <3>1 DEF Projects
  <2>2. R!parsePath(u, m) = IF Len(u.segs) > 1 /\ u.segs[2] = "edit"
                            THEN R!takeEdit(w) ELSE R!takeView(w)
    BY <1>7 DEF R!parsePath, opened, none
  <2>3. Len(u.segs) > 1 /\ u.segs[2] = "edit" <=>
          Tail(u.segs) # <<>> /\ Head(Tail(u.segs)) = "edit"
    BY <1>1, <1>7, Taken
  <2>4. w = [none EXCEPT !.project = <<i>>, !.path = Tail(u.segs),
                         !.trailingSlash = u.slash /\ Tail(u.segs) # <<>>]
        /\ w \in Routes
    BY <1>3, <2>1
  <2>. HIDE DEF w
  <2>5. ~w.editing /\ w.view = "none" /\ w.project = <<i>> /\ w.path = Tail(u.segs)
        /\ w.viewTarget = <<>> /\ ~w.legacyView /\ ~w.queryTarget /\ w.org = <<>>
        /\ ~w.billing /\ ~w.connections
        /\ ~w.version /\ ~w.full /\ ~w.connect /\ ~w.filters
    BY <1>2, <2>4 DEF Routes
  <2>6. CASE Tail(u.segs) # <<>> /\ Head(Tail(u.segs)) = "edit"
    <3>. DEFINE e == R!takeEdit(w)
    <3>1. /\ e \in Routes /\ (e.path # <<>> => Legible(e.path, e.editing, m))
          /\ e = [w EXCEPT !.editing = e.editing, !.path = e.path]
      BY <2>4, <2>5, <2>6, EditTaken
    <3>. HIDE DEF e
    <3>2. e.project = w.project /\ e.view = w.view /\ e.org = w.org
          /\ e.billing = w.billing /\ e.connections = w.connections
          /\ e.viewTarget = w.viewTarget /\ e.legacyView = w.legacyView
          /\ e.queryTarget = w.queryTarget /\ e.version = w.version
          /\ e.full = w.full /\ e.connect = w.connect /\ e.filters = w.filters
      BY <2>4, <3>1 DEF Routes
    <3>3. R!parsePath(u, m) = e
      BY <2>2, <2>3, <2>6 DEF e
    <3>4. Coherent(e, m)
      BY <1>7, <2>1, <2>5, <3>1, <3>2 DEF Coherent
    <3>5. ~e.version /\ ~e.full /\ ~e.connect /\ ~e.filters
          /\ e.project = <<Head(u.segs)>>
      BY <2>5, <3>2
    <3>. QED  BY <1>7, <3>3, <3>4, <3>5
  <2>7. CASE ~(Tail(u.segs) # <<>> /\ Head(Tail(u.segs)) = "edit")
    <3>. DEFINE v == R!takeView(w)
    <3>1. /\ v \in Routes
          /\ v.view # "none" => v.path = <<>>
          /\ v.view = "none" => v.viewTarget = <<>> /\ ~v.legacyView
          /\ v.path # <<>> => Legible(v.path, v.editing, "hub")
          /\ v = [w EXCEPT !.view = v.view, !.legacyView = v.legacyView,
                           !.viewTarget = v.viewTarget, !.path = v.path]
      <4>1. w.path # <<>> => Head(w.path) # "edit"
        BY <2>5, <2>7
      <4>. QED  BY <2>4, <2>5, <4>1, ViewTaken
    <3>. HIDE DEF v
    <3>2. v.project = w.project /\ v.org = w.org
          /\ v.billing = w.billing /\ v.connections = w.connections
          /\ v.queryTarget = w.queryTarget /\ v.version = w.version
          /\ v.full = w.full /\ v.connect = w.connect /\ v.filters = w.filters
      BY <2>4, <3>1 DEF Routes
    <3>3. R!parsePath(u, m) = v
      BY <2>2, <2>3, <2>7 DEF v
    <3>4. Coherent(v, m)
      BY <1>7, <2>1, <2>5, <3>1, <3>2 DEF Coherent
    <3>5. ~v.version /\ ~v.full /\ ~v.connect /\ ~v.filters
          /\ v.project = <<Head(u.segs)>>
      BY <2>5, <3>2
    <3>. QED  BY <1>7, <3>3, <3>4, <3>5
  <2>. QED  BY <2>6, <2>7
<1>. QED  BY <1>5, <1>6, <1>7 DEF Modes

LEMMA RouteParsed ==
  ASSUME NEW u \in R!Addresses, NEW m \in Modes
  PROVE  LET r == R!parseRoute(u, m)
         IN /\ Coherent(r, m)
            /\ r.full = u.full
            /\ r.project # <<>> => u.segs # <<>> /\ r.project = <<Head(u.segs)>>
<1>. DEFINE p == R!parsePath(u, m)
            byQuery == p.view = "history" /\ p.viewTarget = <<>> /\ u.target # <<>>
            target == IF byQuery THEN u.target ELSE p.viewTarget
<1>1. R!parseRoute(u, m) =
        [p EXCEPT !.version = u.v, !.full = u.full, !.connect = u.connect,
                  !.filters = u.filters, !.viewTarget = target, !.queryTarget = byQuery]
  BY DEF R!parseRoute
<1>2. Coherent(p, m) /\ (p.project # <<>> => u.segs # <<>> /\ p.project = <<Head(u.segs)>>)
  BY PathParsed
<1>3. u.v \in BOOLEAN /\ u.full \in BOOLEAN /\ u.connect \in BOOLEAN
      /\ u.filters \in BOOLEAN /\ u.target \in Seq(Segments)
  BY DEF R!Addresses
<1>4. target \in Seq(Segments) /\ byQuery \in BOOLEAN
      /\ (p.view = "none" => target = p.viewTarget /\ byQuery = FALSE)
  BY <1>2, <1>3 DEF Coherent, Routes
<1>. HIDE DEF p, target, byQuery
<1>. DEFINE r == R!parseRoute(u, m)
<1>5. r \in Routes
  BY <1>1, <1>2, <1>3, <1>4 DEF Coherent, Routes
<1>6. /\ r.project = p.project /\ r.path = p.path /\ r.view = p.view /\ r.org = p.org
      /\ r.billing = p.billing /\ r.connections = p.connections
      /\ r.legacyView = p.legacyView /\ r.editing = p.editing
      /\ r.viewTarget = target /\ r.queryTarget = byQuery /\ r.full = u.full
  BY <1>1, <1>2 DEF Coherent, Routes
<1>. HIDE DEF r
<1>. QED  BY <1>2, <1>4, <1>5, <1>6 DEF Coherent, r

-----------------------------------------------------------------------------
(* An address that the application makes reads as what it was made of      *)

LEMMA Put ==
  ASSUME NEW S, NEW x \in S, NEW q \in Seq(S)
  PROVE  /\ <<x>> \o q \in Seq(S) /\ <<x>> \o q # <<>> /\ <<x>> \in Seq(S)
         /\ Head(<<x>> \o q) = x /\ Tail(<<x>> \o q) = q
<1>. DEFINE k == <<x>> \o q
<1>1. <<x>> \in Seq(S) /\ Len(<<x>>) = 1 /\ <<x>>[1] = x
  OBVIOUS
<1>2. k \in Seq(S) /\ Len(k) = Len(q) + 1 /\ Len(q) \in Nat
  BY <1>1, ConcatProperties, LenProperties
<1>3. k[1] = x /\ \A j \in 1 .. Len(q) : k[j + 1] = q[j]
  BY <1>1, <1>2, ConcatProperties
<1>. HIDE DEF k
<1>4. k # <<>>
  BY <1>2, EmptySeq
<1>5. Tail(k) \in Seq(S) /\ Len(Tail(k)) = Len(q)
      /\ \A j \in 1 .. Len(q) : Tail(k)[j] = q[j]
  BY <1>2, <1>3, <1>4, HeadTailProperties
<1>6. Tail(k) = q
  BY <1>5, SeqEqual
<1>7. Head(k) = x
  BY <1>3, <1>4
<1>. QED  BY <1>2, <1>4, <1>6, <1>7 DEF k

LEMMA PutNothing ==
  ASSUME NEW q \in Seq(Segments)
  PROVE  <<>> \o q = q /\ q \o <<>> = q
BY ConcatEmptySeq

\* The project part of an address, empty where there is one volume.
Place(P, m) == \/ m = "volume" /\ P = <<>>
               \/ m = "hub" /\ \E i \in Projects : P = <<i>>

\* A route that shows a path and nothing else, and one that shows a view.
ShowsPath(w, P, p, v, f, e) ==
  /\ w \in Routes /\ w.project = P /\ w.path = p
  /\ w.version = v /\ w.full = f /\ (p # <<>> => w.editing = e)
  /\ w.view = "none" /\ w.viewTarget = <<>> /\ w.org = <<>>
  /\ ~w.billing /\ ~w.connections /\ ~w.legacyView /\ ~w.trailingSlash
  /\ ~w.queryTarget /\ ~w.connect /\ ~w.filters

ShowsView(w, P, v, q, f) ==
  /\ w.project = P /\ w.path = <<>> /\ w.view = v /\ w.viewTarget = q
  /\ v = "history" => w.filters = f

LEMMA PathReadsBack ==
  ASSUME R!ConstantsSound, NEW m \in Modes, NEW P, Place(P, m), NEW p \in Seq(Segments),
         NEW v \in BOOLEAN, NEW f \in BOOLEAN, NEW e \in BOOLEAN,
         p = <<>> \/ Legible(p, e, m)
  PROVE  LET u == R!urlForPath(p, P, v, f, e)
         IN /\ u \in R!Addresses
            /\ ShowsPath(R!parseRoute(u, m), P, p, v, f, e)
<1>. DEFINE none == R!NoRoute
            page == IF p # <<>> /\ e THEN <<"edit">> \o p ELSE p
            u == R!urlForPath(p, P, v, f, e)
            w == [none EXCEPT !.project = P, !.path = page]
            r == [none EXCEPT !.project = P, !.path = p, !.editing = e /\ p # <<>>]
<1>1. page \in Seq(Segments) /\ P \in Seq(Segments)
  <2>1. "edit" \in Segments
    BY DEF R!ConstantsSound, R!Words
  <2>2. <<"edit">> \o p \in Seq(Segments)
    BY <2>1, Put
  <2>3. \A i \in Segments : <<i>> \in Seq(Segments)
    BY EmptySeq, Put
  <2>. QED  BY <2>2, <2>3, EmptySeq DEF Place, Projects
<1>2. none \in Routes /\ none.project = <<>> /\ none.view = "none" /\ none.path = <<>>
      /\ ~none.editing /\ ~none.trailingSlash /\ none.viewTarget = <<>>
      /\ none.queryTarget = FALSE /\ none.connect = FALSE /\ none.filters = FALSE
      /\ none.trailingSlash = FALSE
  BY NoRouteIsOne DEF R!NoRoute
<1>. DEFINE k == P \o page
<1>3. u = [segs |-> k, slash |-> FALSE, v |-> v, full |-> f,
           target |-> <<>>, filters |-> FALSE, connect |-> FALSE]
  <2>1. u = [R!URLAt(k) EXCEPT !.v = v, !.full = f]
    BY DEF R!urlForPath
  <2>. HIDE DEF k
  <2>. QED  BY <2>1 DEF R!URLAt
<1>. HIDE DEF page, none
<1>4. /\ m = "volume" => k = page
      /\ m = "hub" => \E i \in Projects : /\ P = <<i>> /\ Head(k) = i
                                          /\ Tail(k) = page /\ k # <<>>
      /\ k \in Seq(Segments)
  <2>1. CASE m = "volume" /\ P = <<>>
    BY <1>1, <2>1, PutNothing
  <2>2. CASE m = "hub" /\ \E i \in Projects : P = <<i>>
    <3>1. PICK i \in Projects : P = <<i>>
      BY <2>2
    <3>2. i \in Segments
      BY DEF Projects
    <3>3. k \in Seq(Segments) /\ k # <<>> /\ Head(k) = i /\ Tail(k) = page
      BY <1>1, <3>1, <3>2, Put
    <3>. HIDE DEF k
    <3>. QED  BY <2>2, <3>1, <3>3
  <2>. QED  BY <2>1, <2>2 DEF Place
<1>. HIDE DEF k
<1>5. w \in Routes /\ w.path = page /\ ~w.editing /\ w.view = "none"
  BY <1>1, <1>2 DEF Routes
<1>6. R!withPath([none EXCEPT !.project = P], page, FALSE) = w
  BY <1>1, <1>2 DEF R!withPath, Routes
<1>7. R!parsePath(u, m) =
        IF m = "volume" \/ (page # <<>> /\ Head(page) = "edit")
        THEN R!takeEdit(w) ELSE R!takeView(w)
  <2>1. CASE m = "volume"
    <3>1. R!parsePath(u, m) = R!takeEdit(R!withPath(none, page, FALSE))
      BY <1>3, <1>4, <2>1 DEF R!parsePath, none
    <3>2. P = <<>>
      BY <2>1 DEF Place
    <3>3. [none EXCEPT !.project = P] = none
      BY <1>2, <3>2 DEF Routes
    <3>. QED  BY <1>6, <2>1, <3>1, <3>3
  <2>2. CASE m = "hub"
    <3>1. PICK i \in Projects : /\ P = <<i>> /\ Head(k) = i
                                /\ Tail(k) = page /\ k # <<>>
      BY <1>4, <2>2
    <3>2. u.segs = k /\ u.slash = FALSE
      BY <1>3
    <3>3. Len(k) > 1 /\ k[2] = "edit" <=> page # <<>> /\ Head(page) = "edit"
      BY <1>4, <3>1, Taken
    <3>. HIDE DEF u
    <3>4. R!parsePath(u, m) = IF Len(k) > 1 /\ k[2] = "edit"
            THEN R!takeEdit(R!withPath([none EXCEPT !.project = P], page, FALSE))
            ELSE R!takeView(R!withPath([none EXCEPT !.project = P], page, FALSE))
      BY <2>2, <3>1, <3>2 DEF R!parsePath, Projects, none
    <3>. QED  BY <1>6, <2>2, <3>3, <3>4
  <2>. QED  BY <2>1, <2>2 DEF Modes
<1>8. R!parsePath(u, m) = r
  <2>1. CASE p # <<>> /\ e
    <3>1. page # <<>> /\ Head(page) = "edit" /\ Tail(page) = p
      BY <2>1, Put DEF page
    <3>2. R!parsePath(u, m) = [w EXCEPT !.editing = TRUE, !.path = p]
      BY <1>5, <1>7, <3>1 DEF R!takeEdit
    <3>. QED  BY <1>2, <1>5, <2>1, <3>2 DEF Routes
  <2>2. CASE ~(p # <<>> /\ e)
    <3>1. page = p /\ (p # <<>> => Head(p) # "edit" /\ (m = "volume" \/ Head(p) \notin ViewWords))
      BY <2>2 DEF page, Legible
    <3>2. R!parsePath(u, m) = w
      BY <1>5, <1>7, <3>1
      DEF R!takeEdit, R!takeView, R!LegacyViews, R!SegmentViews, ViewWords, Modes
    <3>. QED  BY <1>2, <1>5, <2>2, <3>1, <3>2 DEF Routes
  <2>. QED  BY <2>1, <2>2
<1>9. u.v = v /\ u.full = f /\ u.connect = FALSE /\ u.filters = FALSE /\ u.target = <<>>
      /\ u \in R!Addresses
  BY <1>3, <1>4, EmptySeq DEF R!Addresses
<1>. HIDE DEF u, r
<1>10. r \in Routes /\ r.view = "none" /\ r.viewTarget = <<>> /\ r.queryTarget = FALSE
       /\ r.connect = FALSE /\ r.filters = FALSE
  BY <1>1, <1>2 DEF r, Routes
<1>11. R!parseRoute(u, m) = [r EXCEPT !.version = v, !.full = f]
  BY <1>8, <1>9, <1>10 DEF R!parseRoute, Routes
<1>. DEFINE x == R!parseRoute(u, m)
<1>12. x = [none EXCEPT !.project = P, !.path = p, !.editing = e /\ p # <<>>,
                        !.version = v, !.full = f]
  BY <1>11 DEF r
<1>. HIDE DEF x
<1>13. none.org = <<>> /\ none.billing = FALSE /\ none.connections = FALSE
       /\ none.legacyView = FALSE
  BY DEF none, R!NoRoute
<1>14. ShowsPath(x, P, p, v, f, e)
  BY <1>1, <1>2, <1>12, <1>13 DEF ShowsPath, Routes
<1>. QED  BY <1>9, <1>14 DEF u, x

LEMMA ViewReadsBack ==
  ASSUME R!ConstantsSound, NEW i \in Projects, NEW v \in ViewNames,
         NEW q \in Seq(Segments), NEW f \in BOOLEAN
  PROVE  LET u == R!urlForView(v, <<i>>, q, f)
         IN /\ u \in R!Addresses
            /\ u.segs # <<>> /\ Head(u.segs) = i
            /\ ShowsView(R!parseRoute(u, "hub"), <<i>>, v, q, f)
<1>. DEFINE none == R!NoRoute
            word == R!ViewSegments[v]
            page == <<word>> \o q
            k == <<i>> \o page
            u == R!urlForView(v, <<i>>, q, f)
            w == [none EXCEPT !.project = <<i>>, !.path = page]
            r == [none EXCEPT !.project = <<i>>, !.view = v, !.viewTarget = q]
<1>1. /\ word \in {"insights", "activity", "install", "settings"}
      /\ R!SegmentViews[word] = v
  BY DEF R!ViewSegments, R!SegmentViews, ViewNames
<1>2. none \in Routes /\ none.project = <<>> /\ none.view = "none" /\ none.path = <<>>
      /\ none.viewTarget = <<>> /\ none.legacyView = FALSE /\ none.trailingSlash = FALSE
      /\ none.queryTarget = FALSE /\ none.version = FALSE /\ none.full = FALSE
      /\ none.connect = FALSE /\ none.filters = FALSE
  BY NoRouteIsOne DEF R!NoRoute
<1>3. word \in Segments /\ i \in Segments /\ i \notin {"orgs", "billing", "connections"}
  BY <1>1 DEF R!ConstantsSound, R!Words, Projects
<1>4. /\ page \in Seq(Segments) /\ page # <<>> /\ Head(page) = word /\ Tail(page) = q
      /\ <<word>> \in Seq(Segments)
  BY <1>3, Put
<1>5. /\ k \in Seq(Segments) /\ k # <<>> /\ Head(k) = i /\ Tail(k) = page
      /\ <<i>> \in Seq(Segments)
  BY <1>3, <1>4, Put
<1>6. <<i>> \o <<word>> \o q = k
  BY <1>4, <1>5, ConcatAssociative
<1>7. u = [R!URLAt(k) EXCEPT !.filters = (v = "history" /\ f)]
  BY <1>6 DEF R!urlForView
<1>. HIDE DEF none, word, page, k, u
<1>8. /\ u.segs = k /\ u.slash = FALSE /\ u.v = FALSE /\ u.full = FALSE
      /\ u.target = <<>> /\ u.connect = FALSE /\ u.filters = (v = "history" /\ f)
      /\ u \in R!Addresses
  BY <1>5, <1>7, EmptySeq DEF R!URLAt, R!Addresses
<1>9. w \in Routes /\ w.path = page /\ w.view = "none"
  BY <1>2, <1>4, <1>5 DEF Routes
<1>10. R!withPath([none EXCEPT !.project = <<i>>], page, FALSE) = w
  BY <1>2, <1>4 DEF R!withPath, Routes
<1>11. ~(Len(k) > 1 /\ k[2] = "edit")
  <2>1. Len(k) > 1 /\ k[2] = "edit" <=> Tail(k) # <<>> /\ Head(Tail(k)) = "edit"
    BY <1>5, Taken
  <2>2. word # "edit"
    BY <1>1
  <2>. QED  BY <1>4, <1>5, <2>1, <2>2
<1>12. R!parsePath(u, "hub") = R!takeView(w)
  BY <1>3, <1>5, <1>8, <1>10, <1>11 DEF R!parsePath, none
<1>13. R!takeView(w) = [w EXCEPT !.view = v, !.legacyView = FALSE, !.viewTarget = q,
                                 !.path = <<>>]
  <2>1. word \notin DOMAIN R!LegacyViews /\ word \in DOMAIN R!SegmentViews
    BY <1>1 DEF R!LegacyViews, R!SegmentViews
  <2>2. w.path # <<>> /\ Head(w.path) = word /\ Tail(w.path) = q
    BY <1>4, <1>9
  <2>3. R!takeView(w) = [w EXCEPT !.view = R!SegmentViews[word],
                                  !.legacyView = word \in DOMAIN R!LegacyViews,
                                  !.viewTarget = q, !.path = <<>>]
    BY <2>1, <2>2 DEF R!takeView
  <2>4. (word \in DOMAIN R!LegacyViews) = FALSE
    BY <2>1
  <2>. QED  BY <1>1, <2>3, <2>4
<1>14. R!parsePath(u, "hub") = r
  <2>1. w.legacyView = FALSE
    BY <1>2, <1>4, <1>5 DEF Routes
  <2>2. [w EXCEPT !.view = v, !.legacyView = FALSE, !.viewTarget = q, !.path = <<>>] = r
    BY <1>2, <1>4, <1>5 DEF Routes
  <2>. QED  BY <1>12, <1>13, <2>2
<1>. HIDE DEF r
<1>15. r \in Routes /\ r.view = v /\ r.viewTarget = q /\ r.queryTarget = FALSE
       /\ r.version = FALSE /\ r.full = FALSE /\ r.connect = FALSE
  BY <1>2, <1>5 DEF r, Routes
<1>16. R!parseRoute(u, "hub") = [r EXCEPT !.filters = (v = "history" /\ f)]
  BY <1>8, <1>14, <1>15 DEF R!parseRoute, Routes
<1>. DEFINE x == R!parseRoute(u, "hub")
<1>17. x = [none EXCEPT !.project = <<i>>, !.view = v, !.viewTarget = q,
                        !.filters = (v = "history" /\ f)]
  BY <1>16 DEF r
<1>. HIDE DEF x
<1>18. ShowsView(x, <<i>>, v, q, f)
  BY <1>2, <1>17 DEF ShowsView, Routes
<1>. QED  BY <1>5, <1>8, <1>18 DEF u, x

LEMMA HeadOfPath ==
  ASSUME R!ConstantsSound, NEW i \in Segments, NEW p \in Seq(Segments),
         NEW v \in BOOLEAN, NEW f \in BOOLEAN, NEW e \in BOOLEAN
  PROVE  LET u == R!urlForPath(p, <<i>>, v, f, e)
         IN u \in R!Addresses /\ u.segs # <<>> /\ Head(u.segs) = i
<1>. DEFINE page == IF p # <<>> /\ e THEN <<"edit">> \o p ELSE p
            k == <<i>> \o page
            u == R!urlForPath(p, <<i>>, v, f, e)
<1>1. page \in Seq(Segments)
  BY Put DEF R!ConstantsSound, R!Words
<1>2. u = [R!URLAt(k) EXCEPT !.v = v, !.full = f]
  BY DEF R!urlForPath
<1>. HIDE DEF page
<1>3. k \in Seq(Segments) /\ k # <<>> /\ Head(k) = i
  BY <1>1, Put
<1>. HIDE DEF k, u
<1>4. u.segs = k /\ u \in R!Addresses
  BY <1>2, <1>3, EmptySeq DEF R!URLAt, R!Addresses
<1>. QED  BY <1>3, <1>4 DEF u

-----------------------------------------------------------------------------
(* What the router keeps of itself                                         *)

Visited == {s2[k] : k \in 1 .. Len(s2)}

\* Ids that no address names: the hub has not minted them, or its answer is
\* still awaited.
Unseen == (R!Ids \ (s4 \cup s5)) \cup (IF s15.op = "create" THEN s15.id ELSE {})

Doings == [op : {"none", "create", "delete", "join"}, id : SUBSET R!Ids]

RouterTyped ==
  /\ s2 \in Seq(R!Addresses) /\ s3 \in 1 .. Len(s2)
  /\ s4 \subseteq R!Ids /\ s5 \subseteq R!Ids
  /\ s6 \in SUBSET SUBSET (s4 \cup s5)
  /\ s11 \subseteq Files /\ s12 \subseteq Files \X Files
  /\ s13 \in SUBSET SUBSET Files /\ s14 \subseteq Files \X Files
  /\ s15 \in Doings

\* Every project that was made or joined is listed, or about to be.
MadeListed ==
  /\ s16 \subseteq s4
  /\ s15.op = "create" => s6 # {} /\ s15.id # {} /\ s15.id \subseteq s4 \cup s5
  /\ s6 # {} /\ ~s17 => s16 \subseteq (UNION s6) \cup (IF s15.op = "create" THEN s15.id ELSE {})

\* What the tab knows names nothing that it has not been told of.
NamesKnown ==
  /\ (UNION s6) \cap Unseen = {}
  /\ s1 # "volume" => \A u \in Visited : u.segs = <<>> \/ Head(u.segs) \notin Unseen

RouterInv == RouterTyped /\ MadeListed /\ NamesKnown

Sound == R!ConstantsSound

LEMMA IdsAreProjects ==
  ASSUME Sound
  PROVE  R!Ids \subseteq Projects /\ R!Ids \subseteq Segments /\ R!Ids \cap R!Screens = {}
<1>1. Order \in Seq(Segments \ R!Screens)
  BY DEF Sound, R!ConstantsSound
<1>2. R!Ids = {Order[k] : k \in 1 .. Len(Order)}
  BY <1>1, LenProperties DEF R!Ids, R!ToSet
<1>3. \A k \in 1 .. Len(Order) : Order[k] \in Segments \ R!Screens
  BY <1>1, ElementOfSeq
<1>. QED  BY <1>2, <1>3 DEF Projects, R!Screens

LEMMA ModeIsOne ==
  R!mode \in Modes /\ (R!mode = "volume" <=> s1 = "volume")
BY DEF R!mode, Modes

\* The address shown, and what it reads as.
LEMMA HereIsAddress ==
  ASSUME RouterTyped
  PROVE  /\ R!here \in R!Addresses /\ R!here \in Visited
         /\ Coherent(R!route, R!mode) /\ R!route.full = R!here.full
         /\ R!route.project # <<>> =>
              R!here.segs # <<>> /\ R!route.project = <<Head(R!here.segs)>>
<1>1. R!here \in R!Addresses /\ R!here \in Visited
  BY ElementOfSeq DEF RouterTyped, R!here, Visited
<1>. QED  BY <1>1, ModeIsOne, RouteParsed DEF R!route

\* The project shown is one of the listed, and the one that the address names if
\* it is.
LEMMA CurrentIsListed ==
  ASSUME NEW r
  PROVE  /\ R!current(r) \subseteq R!known
         /\ \A i \in R!known : r.project = <<i>> =>
              R!current(r) = {i} /\ (CHOOSE j \in R!current(r) : TRUE) = i
<1>1. \A ids : R!first(ids) \subseteq ids
  BY DEF R!first
<1>2. R!current(r) \subseteq R!known
  BY <1>1 DEF R!current, R!choose
<1>3. ASSUME NEW i \in R!known, r.project = <<i>>
      PROVE  R!current(r) = {i}
  BY <1>3 DEF R!current, R!choose
<1>. QED  BY <1>2, <1>3

-----------------------------------------------------------------------------
(* Where a redirect leads                                                  *)

\* The same page under the id of its project; an address without a project
\* has no page yet.
RewrittenIn(r, i, u) ==
  \/ r.project = <<>> /\ u = R!URLAt(<<i>>)
  \/ /\ r.project # <<>> /\ r.view # "none"
     /\ u = R!urlForView(r.view, <<i>>, r.viewTarget, r.filters)
  \/ /\ r.project # <<>> /\ r.view = "none"
     /\ u = R!urlForPath(r.path, <<i>>, r.version, r.full, r.editing)

Rewritten(r, u) == \E i \in R!known : R!means(r) = <<i>> /\ RewrittenIn(r, i, u)

ToSetup(u) == s1 = "desktop" /\ u = R!URLAt(<<"setup">>)

InVolume(r, u) == u = R!urlForPath(r.path, <<>>, r.version, r.full, r.editing)

FollowsFile(r, u) ==
  \E p \in Files : /\ <<r.path, p>> \in s14 /\ r.path # <<>> /\ ~r.version
                   /\ u = R!urlForPath(p, r.project, FALSE, r.full, r.editing)

LEMMA MissingIsRewritten ==
  ASSUME NEW r, r.project # <<>>, r.project \notin {<<i>> : i \in R!known},
         NEW u \in R!missingProject(r).to
  PROVE  Rewritten(r, u)
<1>. DEFINE named == R!projectByName(R!known, r.project)
            n == CHOOSE j \in named : TRUE
<1>1. named # {} /\ u = IF r.view # "none" THEN R!urlForView(r.view, <<n>>, r.viewTarget, r.filters)
                        ELSE R!urlForPath(r.path, <<n>>, r.version, r.full, r.editing)
  BY DEF R!missingProject, R!Show, R!Go
<1>2. named \subseteq R!known
  BY DEF R!projectByName
<1>3. n \in R!known
  BY <1>1, <1>2
<1>4. R!means(r) = <<n>>
  BY <1>1 DEF R!means
<1>. HIDE DEF n, named
<1>. QED  BY <1>1, <1>3, <1>4 DEF Rewritten, RewrittenIn

LEMMA CanonicalIsRewritten ==
  ASSUME Sound, NEW r, Coherent(r, "hub"), R!current(r) # {},
         r.project = <<>> \/ r.project \in {<<i>> : i \in R!known},
         NEW u \in R!canonical(r, <<CHOOSE i \in R!current(r) : TRUE>>).to
  PROVE  Rewritten(r, u)
<1>. DEFINE n == CHOOSE i \in R!current(r) : TRUE
<1>1. n \in R!known
  BY CurrentIsListed
<1>2. CASE r.project = <<>>
  <2>1. r.path = <<>> /\ r.view = "none"
    BY <1>2 DEF Coherent
  <2>2. u = R!URLAt(<<n>>)
    BY <2>1 DEF R!canonical, R!Show, R!Go
  <2>3. R!means(r) = <<n>>
    BY <1>2 DEF R!means
  <2>. QED  BY <1>1, <1>2, <2>2, <2>3 DEF Rewritten, RewrittenIn
<1>3. CASE r.project # <<>>
  <2>1. PICK i \in R!known : r.project = <<i>>
    BY <1>3
  <2>2. n = i
    BY <2>1, CurrentIsListed
  <2>3. R!means(r) = <<i>>
    BY <2>1 DEF R!means
  <2>. HIDE DEF n
  <2>4. r.path # <<>> => r.view = "none"
    BY DEF Coherent
  <2>5. \/ r.view # "none" /\ u = R!urlForView(r.view, <<i>>, r.viewTarget, r.filters)
        \/ r.path # <<>> /\ u = R!urlForPath(r.path, <<i>>, r.version, r.full, r.editing)
    BY <2>1, <2>2 DEF R!canonical, R!Show, R!Go, n
  <2>. QED  BY <1>3, <2>1, <2>3, <2>4, <2>5 DEF Rewritten, RewrittenIn
<1>. QED  BY <1>2, <1>3

LEMMA RedirectCases ==
  ASSUME Sound, RouterTyped, NEW u \in R!PageOf(R!route).to
  PROVE  \/ s1 # "volume" /\ (ToSetup(u) \/ Rewritten(R!route, u))
         \/ s1 = "volume" /\ InVolume(R!route, u)
         \/ FollowsFile(R!route, u)
<1>. DEFINE r == R!route
<1>1. Coherent(r, R!mode)
  BY HereIsAddress
<1>. HIDE DEF r
<1>2. ASSUME R!PageOf(r).to # R!MovedPage(r).to
      PROVE  u \in (IF s1 = "volume" THEN R!VolumePage(r) ELSE R!HubPage(r)).to
  BY <1>2 DEF R!PageOf, r
<1>3. CASE u \in R!MovedPage(r).to
  <2>1. /\ R!moved(r) # {} /\ R!isMissing(r)
        /\ u = R!urlForPath(CHOOSE p \in R!moved(r) : TRUE, r.project, FALSE, r.full, r.editing)
    BY <1>3 DEF R!MovedPage, R!Show, R!Go
  <2>2. \A p \in R!moved(r) : p \in Files /\ <<r.path, p>> \in s14
    BY DEF R!moved, RouterTyped
  <2>. QED  BY <2>1, <2>2 DEF FollowsFile, R!isMissing, r
<1>4. CASE s1 = "volume" /\ u \in R!VolumePage(r).to
  BY <1>4 DEF R!VolumePage, R!Show, R!Go, InVolume, r
<1>5. CASE s1 # "volume" /\ u \in R!HubPage(r).to
  <2>1. R!mode = "hub"
    BY <1>5 DEF R!mode
  <2>2. \/ ToSetup(u)
        \/ /\ R!current(r) # {} /\ r.project # <<>> /\ r.project \notin {<<i>> : i \in R!known}
           /\ u \in R!missingProject(r).to
        \/ /\ R!current(r) # {} /\ (r.project = <<>> \/ r.project \in {<<i>> : i \in R!known})
           /\ u \in R!canonical(r, <<CHOOSE i \in R!current(r) : TRUE>>).to
    BY <1>5 DEF R!HubPage, R!Show, R!Go, ToSetup
  <2>. QED  BY <1>1, <1>5, <2>1, <2>2, MissingIsRewritten, CanonicalIsRewritten DEF r
<1>. QED  BY <1>2, <1>3, <1>4, <1>5 DEF r

\* What is shown of a project is at its canonical address.
LEMMA ShownIsCanonical ==
  ASSUME RouterTyped, R!PageOf(R!route).page = "project"
  PROVE  R!route.path # <<>> => ~R!route.trailingSlash
<1>. DEFINE r == R!route
<1>1. Coherent(r, R!mode)
  BY HereIsAddress
<1>. HIDE DEF r
<1>2. (IF s1 = "volume" THEN R!VolumePage(r) ELSE R!HubPage(r)).page = "project"
  BY DEF R!PageOf, r
<1>3. CASE s1 = "volume"
  BY <1>2, <1>3 DEF R!VolumePage, R!Go, r
<1>4. CASE s1 # "volume"
  <2>1. R!canonical(r, <<CHOOSE i \in R!current(r) : TRUE>>).page = "project"
    BY <1>2, <1>4 DEF R!HubPage, R!missingProject, R!Show, R!Go
  <2>2. r.path # <<>> => r.view = "none"
    BY <1>1 DEF Coherent
  <2>. QED  BY <2>1, <2>2 DEF R!canonical, R!Go, r
<1>. QED  BY <1>3, <1>4

LEMMA NotFoundIsUnlisted ==
  ASSUME R!PageOf(R!route).page = "notfound"
  PROVE  s1 # "volume" /\ s6 # {} /\ R!route.project \notin {<<i>> : i \in R!known}
<1>. DEFINE r == R!route
<1>. HIDE DEF r
<1>1. R!MovedPage(r).page # "notfound"
  BY DEF R!MovedPage, R!Show, R!Go
<1>2. (IF s1 = "volume" THEN R!VolumePage(r) ELSE R!HubPage(r)).page = "notfound"
  BY <1>1 DEF R!PageOf, r
<1>3. s1 # "volume"
  BY <1>2 DEF R!VolumePage, R!Show, R!Go
<1>4. \A i : R!canonical(r, i).page # "notfound"
  BY DEF R!canonical, R!Show, R!Go
<1>. QED  BY <1>2, <1>3, <1>4 DEF R!HubPage, R!Show, R!Go, r

-----------------------------------------------------------------------------
(* The addresses that the application goes to                              *)

LEMMA AddressOfSegments ==
  ASSUME NEW k \in Seq(Segments)
  PROVE  R!URLAt(k) \in R!Addresses /\ R!URLAt(k).segs = k
BY EmptySeq DEF R!URLAt, R!Addresses

LEMMA AddressOfPath ==
  ASSUME Sound, NEW P \in Seq(Segments), NEW p \in Seq(Segments),
         NEW v \in BOOLEAN, NEW f \in BOOLEAN, NEW e \in BOOLEAN
  PROVE  R!urlForPath(p, P, v, f, e) \in R!Addresses
<1>. DEFINE page == IF p # <<>> /\ e THEN <<"edit">> \o p ELSE p
            k == P \o page
<1>1. page \in Seq(Segments)
  BY Put DEF Sound, R!ConstantsSound, R!Words
<1>2. R!urlForPath(p, P, v, f, e) = [R!URLAt(k) EXCEPT !.v = v, !.full = f]
  BY DEF R!urlForPath
<1>. HIDE DEF page
<1>3. k \in Seq(Segments)
  BY <1>1, ConcatProperties
<1>. HIDE DEF k
<1>. QED  BY <1>2, <1>3, EmptySeq DEF R!URLAt, R!Addresses

\* An address that the hub's tab may go to: it names nothing it was not told of.
Admits(u) == u \in R!Addresses /\ (s1 # "volume" => u.segs = <<>> \/ Head(u.segs) \notin Unseen)

LEMMA KnownAdmits ==
  ASSUME Sound, RouterInv, NEW i \in R!known
  PROVE  i \notin Unseen /\ i \in Segments /\ i \in Projects
<1>1. i \in UNION s6 /\ i \in R!Ids
  BY DEF R!known, RouterInv, RouterTyped
<1>. QED  BY <1>1, IdsAreProjects DEF RouterInv, NamesKnown

LEMMA ProjectAdmits ==
  ASSUME Sound, RouterInv, NEW i \in Segments, s1 # "volume" => i \notin Unseen
  PROVE  /\ Admits(R!URLAt(<<i>>))
         /\ \A p \in Seq(Segments), v, f, e \in BOOLEAN :
              Admits(R!urlForPath(p, <<i>>, v, f, e))
<1>1. <<i>> \in Seq(Segments) /\ <<i>> # <<>> /\ Head(<<i>>) = i
  BY EmptySeq, Put
<1>2. Admits(R!URLAt(<<i>>))
  BY <1>1, AddressOfSegments DEF Admits
<1>3. ASSUME NEW p \in Seq(Segments), NEW v \in BOOLEAN, NEW f \in BOOLEAN, NEW e \in BOOLEAN
      PROVE  Admits(R!urlForPath(p, <<i>>, v, f, e))
  BY HeadOfPath DEF Admits, Sound
<1>. QED  BY <1>2, <1>3

LEMMA ViewAdmits ==
  ASSUME Sound, RouterInv, NEW i \in Projects, i \notin Unseen,
         NEW v \in ViewNames, NEW q \in Seq(Segments), NEW f \in BOOLEAN
  PROVE  Admits(R!urlForView(v, <<i>>, q, f))
<1>. DEFINE u == R!urlForView(v, <<i>>, q, f)
<1>1. u \in R!Addresses /\ u.segs # <<>> /\ Head(u.segs) = i
  BY ViewReadsBack DEF Sound
<1>. HIDE DEF u
<1>. QED  BY <1>1 DEF Admits, u

\* A path beside the one shown, in the same project.
LEMMA BesideAdmits ==
  ASSUME Sound, RouterInv, NEW p \in Seq(Segments), NEW v \in BOOLEAN,
         NEW f \in BOOLEAN, NEW e \in BOOLEAN,
         s1 = "volume" \/ R!route.project # <<>>
  PROVE  Admits(R!urlForPath(p, R!route.project, v, f, e))
<1>. DEFINE r == R!route
<1>1. /\ R!here \in R!Addresses /\ R!here \in Visited /\ Coherent(r, R!mode)
      /\ r.project # <<>> => R!here.segs # <<>> /\ r.project = <<Head(R!here.segs)>>
  BY HereIsAddress DEF RouterInv
<1>. HIDE DEF r
<1>2. CASE s1 = "volume"
  <2>1. r.project \in Seq(Segments)
    BY <1>1 DEF Coherent, Routes
  <2>. QED  BY <1>2, <2>1, AddressOfPath DEF Admits, r
<1>3. CASE s1 # "volume"
  <2>. DEFINE i == Head(R!here.segs)
  <2>1. R!here.segs # <<>> /\ r.project = <<i>> /\ R!here.segs \in Seq(Segments)
    BY <1>1, <1>3 DEF r, R!Addresses
  <2>2. i \in Segments /\ i \notin Unseen
    BY <1>1, <1>3, <2>1, Taken DEF RouterInv, NamesKnown
  <2>. HIDE DEF i
  <2>. QED  BY <2>1, <2>2, ProjectAdmits DEF r
<1>. QED  BY <1>2, <1>3

LEMMA RedirectAdmits ==
  ASSUME Sound, RouterInv, NEW u \in R!PageOf(R!route).to
  PROVE  Admits(u)
<1>. DEFINE r == R!route
<1>1. Coherent(r, R!mode)
  BY HereIsAddress DEF RouterInv
<1>. HIDE DEF r
<1>2. r \in Routes
  BY <1>1 DEF Coherent
<1>3. r.path \in Seq(Segments) /\ r.viewTarget \in Seq(Segments) /\ r.version \in BOOLEAN
      /\ r.full \in BOOLEAN /\ r.editing \in BOOLEAN /\ r.filters \in BOOLEAN
      /\ r.view \in ViewNames \cup {"none"} /\ r.project \in Seq(Segments)
  BY <1>2 DEF Routes
<1>4. CASE ToSetup(u)
  <2>1. "setup" \in Segments /\ "setup" \notin R!Ids
    BY IdsAreProjects DEF Sound, R!ConstantsSound, R!Words, R!Screens
  <2>2. "setup" \notin Unseen
    BY <2>1 DEF Unseen, RouterInv, RouterTyped, Doings
  <2>. QED  BY <1>4, <2>1, <2>2, ProjectAdmits DEF ToSetup
<1>5. CASE Rewritten(r, u)
  <2>1. PICK i \in R!known : RewrittenIn(r, i, u)
    BY <1>5 DEF Rewritten
  <2>2. i \notin Unseen /\ i \in Segments /\ i \in Projects
    BY KnownAdmits
  <2>3. CASE u = R!urlForView(r.view, <<i>>, r.viewTarget, r.filters) /\ r.view # "none"
    <3>1. r.view \in ViewNames
      BY <1>3, <2>3
    <3>. QED  BY <1>3, <2>2, <2>3, <3>1, ViewAdmits
  <2>. QED  BY <1>3, <2>1, <2>2, <2>3, ProjectAdmits DEF RewrittenIn
<1>6. CASE s1 = "volume" /\ InVolume(r, u)
  BY <1>3, <1>6, EmptySeq, AddressOfPath DEF InVolume, Admits
<1>7. CASE FollowsFile(r, u)
  <2>1. PICK p \in Files : /\ r.path # <<>>
                           /\ u = R!urlForPath(p, r.project, FALSE, r.full, r.editing)
    BY <1>7 DEF FollowsFile
  <2>2. p \in Seq(Segments)
    BY DEF Sound, R!ConstantsSound
  <2>3. s1 = "volume" \/ r.project # <<>>
    BY <1>1, <2>1, ModeIsOne DEF Coherent, Modes
  <2>. QED  BY <1>3, <2>1, <2>2, <2>3, BesideAdmits DEF r
<1>. QED  BY <1>4, <1>5, <1>6, <1>7, RedirectCases DEF RouterInv, r

-----------------------------------------------------------------------------
(* What the router keeps of itself is kept                                 *)

\* The histories that a navigation leaves.
LEMMA StackKept ==
  ASSUME RouterTyped, NEW u \in R!Addresses, R!push(u) \/ R!replace(u)
  PROVE  s2' \in Seq(R!Addresses) /\ s3' \in 1 .. Len(s2') /\ Visited' \subseteq Visited \cup {u}
<1>1. s2 \in Seq(R!Addresses) /\ s3 \in 1 .. Len(s2) /\ Len(s2) \in Nat
  BY LenProperties DEF RouterTyped
<1>2. CASE R!replace(u)
  <2>1. s2' = [s2 EXCEPT ![s3] = u] /\ s3' = s3
    BY <1>2 DEF R!replace
  <2>2. s2' \in Seq(R!Addresses) /\ Len(s2') = Len(s2)
        /\ \A k \in 1 .. Len(s2) : s2'[k] = IF k = s3 THEN u ELSE s2[k]
    BY <1>1, <2>1, ExceptSeq
  <2>. QED  BY <1>1, <2>1, <2>2 DEF Visited
<1>3. CASE R!push(u) /\ u # R!here
  <2>. DEFINE front == SubSeq(s2, 1, s3)
  <2>1. s2' = Append(front, u) /\ s3' = s3 + 1
    BY <1>3 DEF R!push
  <2>2. front \in Seq(R!Addresses) /\ Len(front) = s3 /\ \A k \in 1 .. s3 : front[k] = s2[k]
    BY <1>1, SubSeqProperties
  <2>. HIDE DEF front
  <2>3. s2' \in Seq(R!Addresses) /\ Len(s2') = s3 + 1
        /\ \A k \in 1 .. s3 + 1 : s2'[k] = IF k = s3 + 1 THEN u ELSE front[k]
    BY <1>1, <2>1, <2>2, AppendProperties
  <2>4. s3' \in 1 .. Len(s2')
    BY <1>1, <2>1, <2>3
  <2>5. \A k \in 1 .. Len(s2') : s2'[k] \in Visited \cup {u}
    BY <1>1, <2>2, <2>3 DEF Visited
  <2>. QED  BY <2>3, <2>4, <2>5 DEF Visited
<1>4. CASE R!push(u) /\ u = R!here
  BY <1>1, <1>4 DEF R!push, Visited
<1>. QED  BY <1>2, <1>3, <1>4

\* The other variables of the invariant.
holdings == <<s1, s4, s5, s6, s11, s12, s13, s14, s15, s16, s17>>

LEMMA GoingKeepsInv ==
  ASSUME RouterInv, NEW u, Admits(u), R!push(u) \/ R!replace(u), UNCHANGED holdings
  PROVE  RouterInv'
<1>1. s2' \in Seq(R!Addresses) /\ s3' \in 1 .. Len(s2') /\ Visited' \subseteq Visited \cup {u}
  BY StackKept DEF RouterInv, Admits
<1>2. Unseen' = Unseen
  BY DEF holdings, Unseen
<1>3. RouterTyped'
  BY <1>1 DEF RouterInv, RouterTyped, holdings
<1>4. MadeListed'
  BY DEF RouterInv, MadeListed, holdings
<1>5. NamesKnown'
  BY <1>1, <1>2 DEF RouterInv, NamesKnown, holdings, Admits
<1>. QED  BY <1>3, <1>4, <1>5 DEF RouterInv

\* The history is walked, not changed.
LEMMA WalkKeepsInv ==
  ASSUME RouterInv, UNCHANGED s2, s3' \in 1 .. Len(s2), UNCHANGED holdings
  PROVE  RouterInv'
<1>1. Unseen' = Unseen /\ Visited' = Visited
  BY DEF holdings, Unseen, Visited
<1>2. RouterTyped'
  BY DEF RouterInv, RouterTyped, holdings
<1>3. MadeListed' /\ NamesKnown'
  BY <1>1 DEF RouterInv, MadeListed, NamesKnown, holdings
<1>. QED  BY <1>2, <1>3 DEF RouterInv

LEMMA RedirectKeepsInv ==
  ASSUME Sound, RouterInv, R!Redirect
  PROVE  RouterInv'
<1>1. PICK u \in R!PageOf(R!route).to : R!replace(u)
  BY DEF R!Redirect
<1>2. UNCHANGED holdings
  BY DEF R!Redirect, R!hubVars, R!tabVars, holdings
<1>. QED  BY <1>1, <1>2, RedirectAdmits, GoingKeepsInv

\* An answer of the hub, or its expiry.
LEMMA AnswersKeepInv ==
  ASSUME Sound, RouterInv, R!Answers
  PROVE  RouterInv'
<1>1. CASE R!ListLands
  <2>1. /\ s6 = {} /\ s6' = {s4}
        /\ UNCHANGED <<s1, s2, s3, s4, s5, s11, s12, s13, s14, s15, s16, s17>>
    BY <1>1 DEF R!ListLands, R!hubVars
  <2>2. s15.op # "create"
    BY <2>1 DEF RouterInv, MadeListed
  <2>3. Unseen' = Unseen /\ Unseen = R!Ids \ (s4 \cup s5) /\ Visited' = Visited
    BY <2>1, <2>2 DEF Unseen, Visited
  <2>4. RouterTyped'
    BY <2>1 DEF RouterInv, RouterTyped
  <2>5. MadeListed'
    BY <2>1, <2>2 DEF RouterInv, MadeListed
  <2>6. NamesKnown'
    BY <2>1, <2>3 DEF RouterInv, NamesKnown
  <2>. QED  BY <2>4, <2>5, <2>6 DEF RouterInv
<1>2. CASE ~R!ListLands
  <2>1. /\ UNCHANGED <<s1, s2, s3, s4, s5, s6, s11, s12, s15, s16, s17>>
        /\ s13' \in {s13, {s11}}
        /\ s14' \subseteq s14 \cup s12
    BY <1>2 DEF R!Answers, R!TreeLands, R!ResolveLands, R!ResolveExpires, R!hubVars
  <2>2. Unseen' = Unseen /\ Visited' = Visited
    BY <2>1 DEF Unseen, Visited
  <2>3. RouterTyped'
    BY <2>1 DEF RouterInv, RouterTyped
  <2>4. MadeListed' /\ NamesKnown'
    BY <2>1, <2>2 DEF RouterInv, MadeListed, NamesKnown
  <2>. QED  BY <2>3, <2>4 DEF RouterInv
<1>. QED  BY <1>1, <1>2

LEMMA ClickKeepsInv ==
  ASSUME RouterInv, NEW u, Admits(u), R!Click(u)
  PROVE  RouterInv'
<1>1. R!push(u) /\ UNCHANGED holdings
  BY DEF R!Click, R!hubVars, R!tabVars, holdings
<1>. QED  BY <1>1, GoingKeepsInv

\* In a project's page there is a project, and a file's page names its own.
LEMMA PageHasProject ==
  ASSUME Sound, RouterInv, R!PageOf(R!route).page = "project"
  PROVE  /\ s1 # "volume" => R!current(R!route) # {}
         /\ R!route.path # <<>> => s1 = "volume" \/ R!route.project # <<>>
<1>. DEFINE r == R!route
<1>1. Coherent(r, R!mode)
  BY HereIsAddress DEF RouterInv
<1>. HIDE DEF r
<1>2. (IF s1 = "volume" THEN R!VolumePage(r) ELSE R!HubPage(r)).page = "project"
  BY DEF R!PageOf, r
<1>3. s1 # "volume" => R!current(r) # {}
  BY <1>2 DEF R!HubPage, R!Show, R!Go
<1>4. r.path # <<>> => s1 = "volume" \/ r.project # <<>>
  BY <1>1, ModeIsOne DEF Coherent, Modes
<1>. QED  BY <1>3, <1>4 DEF r

LEMMA OpenPathKeepsInv ==
  ASSUME Sound, RouterInv, R!OpenPath
  PROVE  RouterInv'
<1>. DEFINE r == R!route
<1>1. PICK p \in R!treeFiles(r) \cup R!dirIndex(r) :
        R!Click(R!urlForPath(p, r.project, FALSE, FALSE, FALSE))
  BY DEF R!OpenPath
<1>2. s1 = "volume" \/ r.project # <<>>
  BY DEF R!OpenPath, R!inTree, R!owner
<1>. HIDE DEF r
<1>3. \A f \in R!treeFiles(r) : f \in Seq(Segments)
  BY DEF R!treeFiles, RouterInv, RouterTyped, Sound, R!ConstantsSound
<1>4. \A f \in R!dirIndex(r) : f \in Seq(Segments)
  <2>. SUFFICES ASSUME NEW f \in R!treeFiles(r), NEW n \in 1 .. Len(f) - 1
                PROVE  SubSeq(f, 1, n) \in Seq(Segments)
    BY DEF R!dirIndex
  <2>1. f \in Seq(Segments) /\ Len(f) \in Nat
    BY <1>3, LenProperties
  <2>2. \A k \in 1 .. n : f[k] \in Segments
    BY <2>1, ElementOfSeq
  <2>3. 1 \in Int /\ n \in Int
    BY <2>1
  <2>. QED  BY <2>2, <2>3, SubSeqProperties
<1>5. Admits(R!urlForPath(p, r.project, FALSE, FALSE, FALSE))
  BY <1>1, <1>2, <1>3, <1>4, BesideAdmits DEF r
<1>. QED  BY <1>1, <1>5, ClickKeepsInv

LEMMA OpenViewKeepsInv ==
  ASSUME Sound, RouterInv, R!OpenView
  PROVE  RouterInv'
<1>. DEFINE r == R!route
            i == CHOOSE j \in R!current(r) : TRUE
            target(v) == IF v \in {"history", "dashboard"} THEN r.path ELSE <<>>
<1>1. /\ s1 # "volume" /\ R!PageOf(r).page = "project"
      /\ \E v \in DOMAIN R!ViewSegments, f \in BOOLEAN :
           R!Click(R!urlForView(v, <<i>>, target(v), f))
  BY DEF R!OpenView
<1>2. PICK v \in DOMAIN R!ViewSegments : \E f \in BOOLEAN :
        R!Click(R!urlForView(v, <<i>>, target(v), f))
  BY <1>1
<1>3. PICK f \in BOOLEAN : R!Click(R!urlForView(v, <<i>>, target(v), f))
  BY <1>2
<1>4. i \in R!known
  <2>1. R!current(r) # {}
    BY <1>1, PageHasProject
  <2>. QED  BY <2>1, CurrentIsListed
<1>5. v \in ViewNames
  BY DEF R!ViewSegments, ViewNames
<1>6. target(v) \in Seq(Segments)
  <2>1. Coherent(r, R!mode)
    BY HereIsAddress DEF RouterInv
  <2>2. r.path \in Seq(Segments)
    BY <2>1 DEF Coherent, Routes
  <2>. QED  BY <2>2, EmptySeq
<1>. HIDE DEF i, target, r
<1>7. Admits(R!urlForView(v, <<i>>, target(v), f))
  BY <1>4, <1>5, <1>6, KnownAdmits, ViewAdmits
<1>. QED  BY <1>3, <1>7, ClickKeepsInv

LEMMA OpenProjectKeepsInv ==
  ASSUME Sound, RouterInv, R!OpenProject
  PROVE  RouterInv'
<1>1. \/ R!Click(R!URLAt(<<>>))
      \/ \E i \in R!known : R!Click(R!URLAt(<<i>>))
  BY DEF R!OpenProject
<1>2. CASE R!Click(R!URLAt(<<>>))
  <2>1. Admits(R!URLAt(<<>>))
    BY EmptySeq, AddressOfSegments DEF Admits
  <2>. QED  BY <1>2, <2>1, ClickKeepsInv
<1>3. ASSUME NEW i \in R!known, R!Click(R!URLAt(<<i>>))
      PROVE  RouterInv'
  <2>1. Admits(R!URLAt(<<i>>))
    BY KnownAdmits, ProjectAdmits
  <2>. QED  BY <1>3, <2>1, ClickKeepsInv
<1>. QED  BY <1>1, <1>2, <1>3

\* What the content pane shows of a file is a page of its project.
LEMMA FileHasPath ==
  ASSUME RouterTyped, R!ContentOf(R!route) \in {"file", "editor"}
  PROVE  R!PageOf(R!route).page = "project" /\ R!route.path # <<>>
<1>. DEFINE r == R!route
<1>0. r.view \in ViewNames \cup {"none"}
  BY HereIsAddress DEF Coherent, Routes
<1>. HIDE DEF r
<1>1. \A w \in {"file", "editor"} : R!PageOf(r).page # w
  <2>1. \A i : R!canonical(r, i).page \in {"redirect", "project"}
    BY DEF R!canonical, R!Show, R!Go
  <2>2. R!missingProject(r).page \in {"redirect", "notfound"}
    BY DEF R!missingProject, R!Show, R!Go
  <2>3. R!MovedPage(r).page \in {"redirect", "project"}
    BY DEF R!MovedPage, R!Show, R!Go
  <2>4. R!VolumePage(r).page \in {"redirect", "project"}
    BY DEF R!VolumePage, R!Show, R!Go
  <2>5. R!HubPage(r).page \in {"redirect", "project", "notfound", "join", "setup",
                               "loading", "empty"}
    BY <2>1, <2>2 DEF R!HubPage, R!Show, R!Go
  <2>. QED  BY <2>3, <2>4, <2>5 DEF R!PageOf
<1>2. R!PageOf(r).page = "project"
  BY <1>1 DEF R!ContentOf, r
<1>3. r.path # <<>>
  BY <1>0, <1>2 DEF R!ContentOf, r, ViewNames
<1>. QED  BY <1>2, <1>3 DEF r

LEMMA FullscreenKeepsInv ==
  ASSUME Sound, RouterInv, R!ToggleEdit \/ R!EnterFull \/ R!ExitFull
  PROVE  RouterInv'
<1>. DEFINE r == R!route
<1>1. Coherent(r, R!mode)
  BY HereIsAddress DEF RouterInv
<1>. HIDE DEF r
<1>2. r.path \in Seq(Segments) /\ r.version \in BOOLEAN /\ r.full \in BOOLEAN
      /\ r.editing \in BOOLEAN
  BY <1>1 DEF Coherent, Routes
<1>3. R!PageOf(r).page = "project" /\ r.path # <<>>
  BY FileHasPath DEF RouterInv, R!ToggleEdit, R!EnterFull, R!ExitFull, R!full, r
<1>4. s1 = "volume" \/ r.project # <<>>
  BY <1>3, PageHasProject DEF r
<1>5. \A v, f, e \in BOOLEAN : Admits(R!urlForPath(r.path, r.project, v, f, e))
  BY <1>2, <1>4, BesideAdmits DEF r
<1>6. CASE R!ToggleEdit
  <2>1. R!Click(R!urlForPath(r.path, r.project, FALSE, r.full, R!ContentOf(r) # "editor"))
    BY <1>6 DEF R!ToggleEdit, r
  <2>. QED  BY <1>2, <1>5, <2>1, ClickKeepsInv
<1>7. CASE R!EnterFull
  <2>1. R!push(R!urlForPath(r.path, r.project, r.version, TRUE, r.editing))
        /\ UNCHANGED holdings
    BY <1>7 DEF R!EnterFull, R!hubVars, R!tabVars, holdings, r
  <2>. QED  BY <1>2, <1>5, <2>1, GoingKeepsInv
<1>8. CASE R!ExitFull
  <2>1. UNCHANGED holdings
    BY <1>8 DEF R!ExitFull, R!hubVars, R!tabVars, holdings
  <2>2. CASE ~s10
    <3>1. R!replace(R!urlForPath(r.path, r.project, r.version, FALSE, r.editing))
      BY <1>8, <2>2 DEF R!ExitFull, r
    <3>. QED  BY <1>2, <1>5, <2>1, <3>1, GoingKeepsInv
  <2>3. CASE s10
    <3>1. UNCHANGED s2 /\ s3' = IF s3 > 1 THEN s3 - 1 ELSE 1
      BY <1>8, <2>3 DEF R!ExitFull
    <3>2. s3 \in 1 .. Len(s2) /\ Len(s2) \in Nat
      BY LenProperties DEF RouterInv, RouterTyped
    <3>3. s3' \in 1 .. Len(s2)
      BY <3>1, <3>2
    <3>. QED  BY <2>1, <3>1, <3>3, WalkKeepsInv
  <2>. QED  BY <2>2, <2>3
<1>. QED  BY <1>6, <1>7, <1>8

\* A person's steps.
LEMMA ActsKeepInv ==
  ASSUME Sound, RouterInv, R!Acts
  PROVE  RouterInv'
<1>1. CASE R!OpenPanel
  <2>1. UNCHANGED holdings /\ UNCHANGED <<s2, s3>>
    BY <1>1 DEF R!OpenPanel, R!hubVars, R!tabVars, holdings
  <2>2. s3' \in 1 .. Len(s2)
    BY <2>1 DEF RouterInv, RouterTyped
  <2>. QED  BY <2>1, <2>2, WalkKeepsInv
<1>2. CASE R!Travel
  <2>1. UNCHANGED holdings /\ UNCHANGED s2 /\ s3' \in 1 .. Len(s2)
    BY <1>2 DEF R!Travel, R!hubVars, R!tabVars, holdings
  <2>. QED  BY <2>1, WalkKeepsInv
<1>3. CASE R!Reload
  <2>1. /\ UNCHANGED <<s1, s2, s3, s4, s5, s11, s12>>
        /\ s6' = {} /\ s13' = {} /\ s14' = {} /\ s16' = {}
        /\ s15' = [op |-> "none", id |-> {}]
    BY <1>3 DEF R!Reload, R!hubVars
  <2>2. Unseen' \subseteq Unseen /\ Visited' = Visited
    BY <2>1 DEF Unseen, Visited
  <2>3. RouterTyped'
    BY <2>1 DEF RouterInv, RouterTyped, Doings
  <2>4. MadeListed' /\ NamesKnown'
    BY <2>1, <2>2 DEF RouterInv, MadeListed, NamesKnown
  <2>. QED  BY <2>3, <2>4 DEF RouterInv
<1>. QED  BY <1>1, <1>2, <1>3, OpenPathKeepsInv, OpenViewKeepsInv, OpenProjectKeepsInv,
             FullscreenKeepsInv DEF R!Acts

\* Others move a file, or delete a project.
LEMMA OthersKeepInv ==
  ASSUME Sound, RouterInv, R!PeerMovesFile \/ R!PeerDeletesProject
  PROVE  RouterInv'
<1>1. CASE R!PeerMovesFile
  <2>1. /\ UNCHANGED <<s1, s2, s3, s4, s5, s6, s13, s14, s15, s16, s17>>
        /\ s11' \subseteq Files /\ s12' \subseteq Files \X Files
    BY <1>1 DEF R!PeerMovesFile, R!tabVars, RouterInv, RouterTyped
  <2>2. Unseen' = Unseen /\ Visited' = Visited
    BY <2>1 DEF Unseen, Visited
  <2>3. RouterTyped' /\ MadeListed' /\ NamesKnown'
    BY <2>1, <2>2 DEF RouterInv, RouterTyped, MadeListed, NamesKnown
  <2>. QED  BY <2>3 DEF RouterInv
<1>2. CASE R!PeerDeletesProject
  <2>1. PICK i \in s4 : s4' = s4 \ {i} /\ s5' = s5 \cup {i} /\ s16' = s16 \ {i}
    BY <1>2 DEF R!PeerDeletesProject
  <2>2. UNCHANGED <<s1, s2, s3, s6, s11, s12, s13, s14, s15, s17>>
    BY <1>2 DEF R!PeerDeletesProject, R!tabVars
  <2>3. s4' \cup s5' = s4 \cup s5
    BY <2>1
  <2>4. Unseen' = Unseen /\ Visited' = Visited
    BY <2>2, <2>3 DEF Unseen, Visited
  <2>5. RouterTyped'
    BY <2>1, <2>2, <2>3 DEF RouterInv, RouterTyped
  <2>6. MadeListed' /\ NamesKnown'
    BY <2>1, <2>2, <2>3, <2>4 DEF RouterInv, MadeListed, NamesKnown
  <2>. QED  BY <2>5, <2>6 DEF RouterInv
<1>. QED  BY <1>1, <1>2

\* An operation that the hub has taken up.
LEMMA BegunKeepsInv ==
  ASSUME Sound, RouterInv, R!CreateProject \/ R!DeleteProject \/ R!AcceptInvite
  PROVE  RouterInv'
<1>1. s15.op = "none"
  BY DEF R!CreateProject, R!DeleteProject, R!AcceptInvite, R!Begin, R!Idle
<1>2. UNCHANGED <<s1, s2, s3, s6, s11, s12, s13, s14, s17>>
  BY DEF R!CreateProject, R!DeleteProject, R!AcceptInvite, R!Begin, R!tabVars
<1>3. Visited' = Visited /\ Unseen = R!Ids \ (s4 \cup s5)
  BY <1>1, <1>2 DEF Visited, Unseen
<1>4. CASE R!CreateProject
  <2>1. PICK i \in R!Ids \ (s4 \cup s5) :
          /\ s4' = s4 \cup {i} /\ s5' = s5 /\ s16' = s16 \cup {i}
          /\ s15' = [op |-> "create", id |-> {i}]
    BY <1>4 DEF R!CreateProject, R!Begin
  <2>2. s6 # {}
    BY <1>4 DEF R!CreateProject
  <2>3. Unseen' = Unseen
    BY <1>3, <2>1 DEF Unseen
  <2>4. s15' \in Doings
    BY <2>1 DEF Doings
  <2>5. s6' \in SUBSET SUBSET (s4' \cup s5')
    BY <1>2, <2>1 DEF RouterInv, RouterTyped
  <2>6. RouterTyped'
    BY <1>2, <2>1, <2>4, <2>5 DEF RouterInv, RouterTyped
  <2>7. MadeListed'
    <3>1. s15'.op = "create" /\ s15'.id = {i}
      BY <2>1
    <3>2. s16' \subseteq s4' /\ s15'.id # {} /\ s15'.id \subseteq s4' \cup s5'
      BY <2>1, <3>1 DEF RouterInv, MadeListed
    <3>3. ~s17 => s16' \subseteq (UNION s6) \cup {i}
      BY <1>1, <2>1, <2>2 DEF RouterInv, MadeListed
    <3>4. s6' = s6 /\ (~s17' => ~s17)
      BY <1>2
    <3>5. ASSUME ~s17'
          PROVE  s16' \subseteq (UNION s6') \cup s15'.id
      <4>1. s16' \subseteq (UNION s6) \cup {i}
        BY <3>3, <3>4, <3>5
      <4>. QED  BY <3>1, <3>4, <4>1
    <3>. QED  BY <2>2, <3>1, <3>2, <3>4, <3>5 DEF MadeListed
  <2>8. NamesKnown'
    BY <1>2, <1>3, <2>3 DEF RouterInv, NamesKnown
  <2>. QED  BY <2>6, <2>7, <2>8 DEF RouterInv
<1>5. CASE R!DeleteProject
  <2>1. PICK i \in s4 : /\ s4' = s4 \ {i} /\ s5' = s5 \cup {i} /\ s16' = s16 \ {i}
                        /\ s15' = [op |-> "delete", id |-> {i}]
    BY <1>5 DEF R!DeleteProject, R!Begin
  <2>2. s4' \cup s5' = s4 \cup s5 /\ i \in R!Ids
    BY <2>1 DEF RouterInv, RouterTyped
  <2>3. Unseen' = Unseen
    BY <1>3, <2>1, <2>2 DEF Unseen
  <2>4. s15' \in Doings
    BY <2>1, <2>2 DEF Doings
  <2>5. RouterTyped'
    BY <1>2, <2>1, <2>2, <2>4 DEF RouterInv, RouterTyped
  <2>6. MadeListed'
    BY <1>1, <1>2, <2>1 DEF RouterInv, MadeListed
  <2>7. NamesKnown'
    BY <1>2, <1>3, <2>3 DEF RouterInv, NamesKnown
  <2>. QED  BY <2>5, <2>6, <2>7 DEF RouterInv
<1>6. CASE R!AcceptInvite
  <2>1. s6 = {} /\ s5' = s5
    BY <1>6 DEF R!AcceptInvite
  <2>2. PICK won \in SUBSET R!Ids :
          /\ s4' = s4 \cup won /\ s16' = s16 \cup won
          /\ s15' = [op |-> "join", id |-> won]
    <3>1. CASE R!Begin("join", {}) /\ UNCHANGED <<s4, s5, s16>>
      <4>1. {} \in SUBSET R!Ids /\ s4' = s4 \cup {} /\ s16' = s16 \cup {}
            /\ s15' = [op |-> "join", id |-> {}]
        BY <3>1 DEF R!Begin
      <4>. QED  BY <4>1
    <3>2. ASSUME NEW o,
                 LET won == {i \in R!Ids \ s5 : OrgOf[i] = o}
                 IN /\ s4' = s4 \cup won /\ s5' = s5
                    /\ R!Begin("join", won) /\ s16' = s16 \cup won
          PROVE  \E won \in SUBSET R!Ids :
                   /\ s4' = s4 \cup won /\ s16' = s16 \cup won
                   /\ s15' = [op |-> "join", id |-> won]
      <4>. DEFINE won == {i \in R!Ids \ s5 : OrgOf[i] = o}
      <4>1. s4' = s4 \cup won /\ s16' = s16 \cup won /\ s15' = [op |-> "join", id |-> won]
        BY <3>2 DEF R!Begin
      <4>2. won \in SUBSET R!Ids
        OBVIOUS
      <4>. HIDE DEF won
      <4>. QED  BY <4>1, <4>2
    <3>. QED  BY <1>6, <3>1, <3>2 DEF R!AcceptInvite
  <2>3. Unseen' \subseteq Unseen
    BY <1>3, <2>1, <2>2 DEF Unseen
  <2>4. s15' \in Doings
    BY <2>2 DEF Doings
  <2>5. RouterTyped'
    BY <1>2, <2>1, <2>2, <2>4 DEF RouterInv, RouterTyped
  <2>6. MadeListed'
    BY <1>2, <2>1, <2>2 DEF RouterInv, MadeListed
  <2>7. NamesKnown'
    BY <1>2, <1>3, <2>1, <2>3 DEF RouterInv, NamesKnown
  <2>. QED  BY <2>5, <2>6, <2>7 DEF RouterInv
<1>. QED  BY <1>4, <1>5, <1>6

\* The list has been read again, or could not be; the page moves.
LEMMA DoneKeepsInv ==
  ASSUME Sound, RouterInv, NEW u \in R!Addresses,
         u.segs = <<>> \/ Head(u.segs) \notin R!Ids \ (s4 \cup s5),
         R!push(u) \/ R!replace(u), s15' = [op |-> "none", id |-> {}],
         UNCHANGED <<s1, s4, s5, s11, s12, s13, s14, s16>>,
         \/ s6' = {s4} /\ s17' = s17
         \/ s6' = s6 /\ (s17' = TRUE \/ (s17' = s17 /\ s15.op # "create"))
  PROVE  RouterInv'
<1>1. s2' \in Seq(R!Addresses) /\ s3' \in 1 .. Len(s2') /\ Visited' \subseteq Visited \cup {u}
  BY StackKept DEF RouterInv
<1>2. Unseen' = R!Ids \ (s4 \cup s5) /\ Unseen' \subseteq Unseen
  BY DEF Unseen
<1>3. RouterTyped'
  BY <1>1 DEF RouterInv, RouterTyped, Doings
<1>4. MadeListed'
  BY DEF RouterInv, MadeListed
<1>5. (UNION s6)' \cap Unseen' = {}
  BY <1>2 DEF RouterInv, NamesKnown
<1>6. NamesKnown'
  BY <1>1, <1>2, <1>5 DEF RouterInv, NamesKnown
<1>. QED  BY <1>3, <1>4, <1>6 DEF RouterInv

LEMMA OperationsKeepInv ==
  ASSUME Sound, RouterInv, R!Operations
  PROVE  RouterInv'
<1>1. R!URLAt(<<>>) \in R!Addresses /\ R!URLAt(<<>>).segs = <<>>
  BY EmptySeq, AddressOfSegments
<1>2. ASSUME R!Refreshed
      PROVE  \/ s6' = {s4} /\ s17' = s17
             \/ s6' = s6 /\ s17' = TRUE
  BY <1>2 DEF R!Refreshed
<1>3. CASE R!CreateDone
  <2>. DEFINE i == CHOOSE j \in s15.id : TRUE
  <2>1. /\ R!Refreshed /\ R!push(R!URLAt(<<i>>)) /\ s15' = [op |-> "none", id |-> {}]
        /\ UNCHANGED <<s1, s4, s5, s11, s12, s13, s14, s16>>
    BY <1>3 DEF R!CreateDone, R!hubVars
  <2>2. i \in s4 \cup s5
    BY <1>3 DEF R!CreateDone, RouterInv, MadeListed
  <2>. HIDE DEF i
  <2>3. i \in Segments
    BY <2>2, IdsAreProjects DEF RouterInv, RouterTyped
  <2>4. <<i>> \in Seq(Segments) /\ <<i>> # <<>> /\ Head(<<i>>) = i
    BY <2>3, EmptySeq, Put
  <2>5. R!URLAt(<<i>>) \in R!Addresses /\ R!URLAt(<<i>>).segs = <<i>>
    BY <2>4, AddressOfSegments
  <2>6. Head(R!URLAt(<<i>>).segs) \notin R!Ids \ (s4 \cup s5)
    BY <2>2, <2>4, <2>5
  <2>. QED  BY <1>2, <2>1, <2>5, <2>6, DoneKeepsInv
<1>4. CASE R!DeleteDone
  <2>1. /\ R!Refreshed /\ R!push(R!URLAt(<<>>)) /\ s15' = [op |-> "none", id |-> {}]
        /\ UNCHANGED <<s1, s4, s5, s11, s12, s13, s14, s16>>
    BY <1>4 DEF R!DeleteDone, R!hubVars
  <2>. QED  BY <1>1, <1>2, <2>1, DoneKeepsInv
<1>5. CASE R!JoinDone
  <2>1. /\ s15.op = "join" /\ s15' = [op |-> "none", id |-> {}]
        /\ UNCHANGED <<s1, s4, s5, s11, s12, s13, s14, s16, s17>>
        /\ \/ /\ s6' = {s4}
              /\ R!replace(IF Len(R!here.segs) > 1 /\ R!here.segs[2] \in s4
                           THEN R!URLAt(<<R!here.segs[2], "install">>) ELSE R!URLAt(<<>>))
           \/ s6' = s6 /\ R!replace(R!URLAt(<<>>))
    BY <1>5 DEF R!JoinDone, R!hubVars
  <2>2. CASE R!replace(R!URLAt(<<>>)) /\ s6' \in {s6, {s4}}
    BY <1>1, <2>1, <2>2, DoneKeepsInv
  <2>3. ASSUME NEW i \in s4, s6' = {s4}, R!replace(R!URLAt(<<i, "install">>))
        PROVE  RouterInv'
    <3>1. i \in Segments /\ "install" \in Segments
      BY <2>3, IdsAreProjects DEF RouterInv, RouterTyped, Sound, R!ConstantsSound, R!Words
    <3>. DEFINE k == <<i, "install">>
    <3>2. k \in Seq(Segments) /\ k # <<>> /\ Head(k) = i
      BY <3>1
    <3>. HIDE DEF k
    <3>3. R!URLAt(k) \in R!Addresses /\ R!URLAt(k).segs = k
      BY <3>2, AddressOfSegments
    <3>4. R!replace(R!URLAt(k))
      BY <2>3 DEF k
    <3>5. Head(R!URLAt(k).segs) \notin R!Ids \ (s4 \cup s5)
      BY <2>3, <3>2, <3>3
    <3>. QED  BY <2>1, <2>3, <3>3, <3>4, <3>5, DoneKeepsInv
  <2>. QED  BY <2>1, <2>2, <2>3
<1>6. CASE R!JoinDropped
  <2>1. /\ s15.op = "join" /\ s15' = [op |-> "none", id |-> {}]
        /\ UNCHANGED <<s1, s2, s3, s4, s5, s6, s11, s12, s13, s14, s16, s17>>
    BY <1>6 DEF R!JoinDropped, R!hubVars, R!tabVars
  <2>2. Unseen' = Unseen /\ Visited' = Visited
    BY <2>1 DEF Unseen, Visited
  <2>3. RouterTyped'
    BY <2>1 DEF RouterInv, RouterTyped, Doings
  <2>4. MadeListed' /\ NamesKnown'
    BY <2>1, <2>2 DEF RouterInv, MadeListed, NamesKnown
  <2>. QED  BY <2>3, <2>4 DEF RouterInv
<1>. QED  BY <1>3, <1>4, <1>5, <1>6, BegunKeepsInv DEF R!Operations

\* The tab is opened at an address that a person may know.
LEMMA InitInv ==
  ASSUME Sound, R!IdsUnguessed, R!Init
  PROVE  RouterInv
<1>1. PICK u \in URLs : s2 = <<u>>
  BY DEF R!Init
<1>2. u \in R!Addresses
  BY DEF Sound, R!ConstantsSound
<1>3. s2 \in Seq(R!Addresses) /\ Len(s2) = 1 /\ Visited = {u}
  BY <1>1, <1>2 DEF Visited
<1>4. Listed \subseteq R!Ids
  BY DEF Sound, R!ConstantsSound
<1>5. RouterTyped
  <2>1. s3 = 1 /\ s4 = Listed /\ s5 = {} /\ s6 = {} /\ s12 = {} /\ s13 = {} /\ s14 = {}
        /\ s15 = [op |-> "none", id |-> {}]
    BY DEF R!Init
  <2>2. s11 \subseteq Files
    BY DEF R!Init
  <2>. QED  BY <1>3, <1>4, <2>1, <2>2 DEF RouterTyped, Doings
<1>6. MadeListed
  BY DEF R!Init, MadeListed
<1>7. Unseen = R!Ids \ Listed
  BY DEF R!Init, Unseen
<1>8. NamesKnown
  <2>1. s6 = {}
    BY DEF R!Init
  <2>2. u.segs = <<>> \/ Head(u.segs) \notin Unseen
    BY <1>1, <1>7 DEF R!IdsUnguessed
  <2>. QED  BY <1>3, <2>1, <2>2 DEF NamesKnown
<1>. QED  BY <1>5, <1>6, <1>8 DEF RouterInv

LEMMA RouterKeepsInv ==
  ASSUME Sound, RouterInv, R!Next
  PROVE  RouterInv'
BY RedirectKeepsInv, AnswersKeepInv, ActsKeepInv, OperationsKeepInv, OthersKeepInv DEF R!Next

\* A stutter, and every step of the other parts.
LEMMA RestKeepsInv ==
  ASSUME RouterInv, UNCHANGED others
  PROVE  RouterInv'
<1>1. s3' \in 1 .. Len(s2)
  BY DEF RouterInv, RouterTyped, others
<1>. QED  BY <1>1, WalkKeepsInv DEF others, holdings

LEMMA RouterPartKeepsInv ==
  ASSUME Sound, part = "router" => RouterInv, [TabNext]_allVars
  PROVE  (part = "router" => RouterInv)'
<1>. SUFFICES ASSUME part' = "router"
              PROVE  RouterInv'
  OBVIOUS
<1>1. CASE R!Next /\ part = "router"
  BY <1>1, RouterKeepsInv
<1>2. CASE UNCHANGED <<part, others>>
  BY <1>2, RestKeepsInv
<1>3. CASE part = "visual" /\ UNCHANGED part
  BY <1>3
<1>. QED  BY <1>1, <1>2, <1>3 DEF TabNext, allVars

\* "Project not found" is shown of a project that is not listed; the tab's own
\* are, or the page does not name them yet.
LEMMA InvFinds ==
  ASSUME RouterInv
  PROVE  R!OwnProjectFound
<1>. SUFFICES ASSUME R!PageOf(R!route).page = "notfound", ~s17,
                     ~\A i \in s16 : R!route.project # <<i>>
              PROVE  FALSE
  BY Zenon DEF R!OwnProjectFound, R!Page
<1>1. PICK i \in s16 : R!route.project = <<i>>
  OBVIOUS
<1>2. s1 # "volume" /\ s6 # {} /\ <<i>> \notin {<<j>> : j \in R!known}
  BY <1>1, NotFoundIsUnlisted
<1>3. i \notin UNION s6
  BY <1>2 DEF R!known
<1>4. s15.op = "create" /\ i \in s15.id
  BY <1>1, <1>2, <1>3 DEF RouterInv, MadeListed
<1>5. R!here \in Visited /\ R!here.segs # <<>> /\ <<i>> = <<Head(R!here.segs)>>
  <2>1. <<i>> # <<>>
    OBVIOUS
  <2>. QED  BY <1>1, <2>1, HereIsAddress DEF RouterInv
<1>6. Head(R!here.segs) = i
  BY <1>5
<1>. QED  BY <1>2, <1>4, <1>5, <1>6 DEF RouterInv, NamesKnown, Unseen

\* Nobody who has just created a project, or joined an organization, is told that
\* it does not exist (Setup.tsx and the join page await the list before they
\* navigate), unless the list could not be read: however many projects,
\* addresses and steps there are, as long as nobody guesses an id that the hub
\* has yet to mint.
THEOREM OwnIsFound ==
  ASSUME R!ConstantsSound, R!IdsUnguessed
  PROVE  TabSpec => []OwnFound
<1>. DEFINE Inv == part = "router" => RouterInv
<1>. USE DEF Sound
<1>1. TabInit => Inv
  BY InitInv DEF TabInit
<1>2. Inv /\ [TabNext]_allVars => Inv'
  BY RouterPartKeepsInv
<1>3. Inv => OwnFound
  BY InvFinds DEF OwnFound
<1>. HIDE DEF Inv
<1>. QED  BY <1>1, <1>2, <1>3, PTL DEF TabSpec

-----------------------------------------------------------------------------
(* A redirect keeps what the address is about                              *)

\* What an address means depends on its project alone.
LEMMA MeansOfProject ==
  ASSUME NEW r, NEW w, w.project = r.project
  PROVE  R!means(w) = R!means(r)
<1>1. R!projectByName(R!known, w.project) = R!projectByName(R!known, r.project)
  BY DEF R!projectByName
<1>2. R!current(w) = R!current(r)
  BY DEF R!current, R!choose
<1>. QED  BY <1>1, <1>2 DEF R!means

LEMMA MeansItself ==
  ASSUME NEW w, NEW i \in R!known, w.project = <<i>>
  PROVE  R!means(w) = <<i>>
BY DEF R!means

Kept(r, w) ==
  LET was == R!Subject(r)
      now == R!Subject(w)
  IN /\ [now EXCEPT !.path = was.path] = was
     /\ now.path = was.path \/ <<was.path, now.path>> \in s14

\* A page that shows a file, and one that shows none.
LEMMA FileKept ==
  ASSUME NEW r, NEW w, R!means(w) = R!means(r), r.path # <<>>, w.path # <<>>,
         w.path = r.path \/ <<r.path, w.path>> \in s14,
         w.view = r.view, w.viewTarget = r.viewTarget,
         w.version = r.version, w.full = r.full, w.editing = r.editing
  PROVE  Kept(r, w)
<1>1. R!Subject(r) = [project |-> R!means(r), path |-> r.path, view |-> r.view,
                      target |-> r.viewTarget,
                      shownAs |-> <<r.version, r.full, r.editing>>]
  BY DEF R!Subject
<1>2. R!Subject(w) = [project |-> R!means(r), path |-> w.path, view |-> r.view,
                      target |-> r.viewTarget,
                      shownAs |-> <<r.version, r.full, r.editing>>]
  BY DEF R!Subject
<1>. QED  BY <1>1, <1>2 DEF Kept

LEMMA PageKept ==
  ASSUME NEW r, NEW w, R!means(w) = R!means(r), r.path = <<>>, w.path = <<>>,
         w.view = r.view, w.viewTarget = r.viewTarget,
         r.view = "history" => w.filters = r.filters
  PROVE  Kept(r, w)
<1>. DEFINE shown == <<r.view = "history" /\ r.filters>>
<1>1. R!Subject(r) = [project |-> R!means(r), path |-> <<>>, view |-> r.view,
                      target |-> r.viewTarget, shownAs |-> shown]
  BY DEF R!Subject
<1>2. <<w.view = "history" /\ w.filters>> = shown
  OBVIOUS
<1>3. R!Subject(w) = [project |-> R!means(r), path |-> <<>>, view |-> r.view,
                      target |-> r.viewTarget, shownAs |-> shown]
  BY <1>2 DEF R!Subject
<1>. HIDE DEF shown
<1>. QED  BY <1>1, <1>3 DEF Kept

\* What is rewritten in its project reads as the same page of that project.
LEMMA RewrittenIsKept ==
  ASSUME Sound, NEW r, Coherent(r, "hub"), NEW i \in R!known, i \in Projects,
         R!means(r) = <<i>>, NEW u, RewrittenIn(r, i, u)
  PROVE  Kept(r, R!parseRoute(u, "hub"))
<1>. DEFINE w == R!parseRoute(u, "hub")
<1>1. r.path \in Seq(Segments) /\ r.viewTarget \in Seq(Segments) /\ r.version \in BOOLEAN
      /\ r.full \in BOOLEAN /\ r.editing \in BOOLEAN /\ r.filters \in BOOLEAN
      /\ r.view \in ViewNames \cup {"none"}
  BY DEF Coherent, Routes
<1>2. "hub" \in Modes /\ Place(<<i>>, "hub")
  BY DEF Modes, Place
<1>3. CASE r.project = <<>> /\ u = R!URLAt(<<i>>)
  <2>1. r.path = <<>> /\ r.view = "none" /\ r.viewTarget = <<>>
    BY <1>3 DEF Coherent
  <2>2. <<i>> \o <<>> = <<i>>
    BY <1>1, Put, PutNothing DEF Projects
  <2>3. u = R!urlForPath(<<>>, <<i>>, FALSE, FALSE, FALSE)
    <3>1. R!urlForPath(<<>>, <<i>>, FALSE, FALSE, FALSE) =
            [R!URLAt(<<i>> \o <<>>) EXCEPT !.v = FALSE, !.full = FALSE]
      BY DEF R!urlForPath
    <3>. QED  BY <1>3, <2>2, <3>1 DEF R!URLAt
  <2>. DEFINE no == FALSE
  <2>4. <<>> \in Seq(Segments) /\ no \in BOOLEAN /\ u = R!urlForPath(<<>>, <<i>>, no, no, no)
    BY <2>3, EmptySeq
  <2>. HIDE DEF no, w
  <2>5. ShowsPath(w, <<i>>, <<>>, no, no, no)
    BY <1>2, <2>4, PathReadsBack DEF Sound, w
  <2>6. w.project = <<i>> /\ w.path = <<>> /\ w.view = "none" /\ w.viewTarget = <<>>
    BY <2>5 DEF ShowsPath
  <2>7. R!means(w) = <<i>>
    BY <2>6, MeansItself
  <2>8. Kept(r, w)
    BY <2>1, <2>6, <2>7, PageKept
  <2>. QED  BY <2>8 DEF w
<1>4. CASE r.project # <<>> /\ r.view # "none"
           /\ u = R!urlForView(r.view, <<i>>, r.viewTarget, r.filters)
  <2>1. r.path = <<>> /\ r.view \in ViewNames
    BY <1>1, <1>4 DEF Coherent
  <2>3. w.project = <<i>> /\ w.path = <<>> /\ w.view = r.view /\ w.viewTarget = r.viewTarget
        /\ (r.view = "history" => w.filters = r.filters)
    BY <1>1, <1>4, <2>1, ViewReadsBack DEF Sound, ShowsView
  <2>. HIDE DEF w
  <2>4. R!means(w) = <<i>>
    BY <2>3, MeansItself
  <2>5. Kept(r, w)
    BY <2>1, <2>3, <2>4, PageKept
  <2>. QED  BY <2>5 DEF w
<1>5. CASE r.project # <<>> /\ r.view = "none"
           /\ u = R!urlForPath(r.path, <<i>>, r.version, r.full, r.editing)
  <2>1. r.viewTarget = <<>> /\ (r.path # <<>> => Legible(r.path, r.editing, "hub"))
    BY <1>5 DEF Coherent
  <2>3. w.project = <<i>> /\ w.path = r.path /\ w.view = "none" /\ w.viewTarget = <<>>
        /\ w.version = r.version /\ w.full = r.full
        /\ (r.path # <<>> => w.editing = r.editing)
    BY <1>1, <1>2, <1>5, <2>1, PathReadsBack DEF Sound, ShowsPath
  <2>. HIDE DEF w
  <2>4. R!means(w) = <<i>>
    BY <2>3, MeansItself
  <2>5. Kept(r, w)
    BY <1>5, <2>1, <2>3, <2>4, PageKept, FileKept
  <2>. QED  BY <2>5 DEF w
<1>. QED  BY <1>3, <1>4, <1>5 DEF RewrittenIn

\* A redirect's address reads as the page it was for.
LEMMA RedirectIsKept ==
  ASSUME Sound, R!FilesAddressed, RouterTyped, NEW u \in R!PageOf(R!route).to, ~ToSetup(u)
  PROVE  Kept(R!route, R!parseRoute(u, R!mode))
<1>. DEFINE r == R!route
            w == R!parseRoute(u, R!mode)
<1>1. Coherent(r, R!mode) /\ R!mode \in Modes
  BY HereIsAddress, ModeIsOne
<1>. HIDE DEF r
<1>2. r.path \in Seq(Segments) /\ r.version \in BOOLEAN /\ r.full \in BOOLEAN
      /\ r.editing \in BOOLEAN
  BY <1>1 DEF Coherent, Routes
<1>3. CASE s1 # "volume" /\ Rewritten(r, u)
  <2>1. R!mode = "hub"
    BY <1>3 DEF R!mode
  <2>2. PICK i \in R!known : R!means(r) = <<i>> /\ RewrittenIn(r, i, u)
    BY <1>3 DEF Rewritten
  <2>3. i \in Projects
    BY IdsAreProjects DEF R!known, RouterTyped
  <2>. QED  BY <1>1, <2>1, <2>2, <2>3, RewrittenIsKept DEF r
<1>4. CASE s1 = "volume" /\ InVolume(r, u)
  <2>1. R!mode = "volume"
    BY <1>4 DEF R!mode
  <2>2. r.project = <<>> /\ r.view = "none" /\ r.viewTarget = <<>>
        /\ (r.path # <<>> => Legible(r.path, r.editing, R!mode))
    BY <1>1, <2>1 DEF Coherent
  <2>3. Place(<<>>, R!mode)
    BY <2>1 DEF Place
  <2>4. w.project = <<>> /\ w.path = r.path /\ w.view = "none" /\ w.viewTarget = <<>>
        /\ w.version = r.version /\ w.full = r.full
        /\ (r.path # <<>> => w.editing = r.editing)
    BY <1>1, <1>2, <1>4, <2>2, <2>3, PathReadsBack DEF Sound, InVolume, ShowsPath
  <2>. HIDE DEF w
  <2>5. R!means(w) = R!means(r)
    BY <2>2, <2>4, MeansOfProject
  <2>6. Kept(r, w)
    BY <2>2, <2>4, <2>5, PageKept, FileKept
  <2>. QED  BY <2>6 DEF r, w
<1>5. CASE FollowsFile(r, u)
  <2>1. PICK p \in Files : /\ <<r.path, p>> \in s14 /\ r.path # <<>> /\ ~r.version
                           /\ u = R!urlForPath(p, r.project, FALSE, r.full, r.editing)
    BY <1>5 DEF FollowsFile
  <2>2. p \in Seq(Segments) /\ p # <<>>
    BY DEF Sound, R!ConstantsSound
  <2>3. Legible(p, r.editing, R!mode)
    <3>1. Head(p) \notin {"edit"} \cup DOMAIN R!LegacyViews \cup DOMAIN R!SegmentViews
      BY DEF R!FilesAddressed
    <3>2. Head(p) # "edit" /\ Head(p) \notin ViewWords
      BY <3>1 DEF R!LegacyViews, R!SegmentViews, ViewWords
    <3>. QED  BY <2>2, <3>2 DEF Legible
  <2>4. r.view = "none" /\ r.viewTarget = <<>> /\ Place(r.project, R!mode)
    BY <1>1, <2>1 DEF Coherent, Place, Modes
  <2>5. r.version = FALSE
    BY <1>2, <2>1
  <2>. HIDE DEF w
  <2>6. ShowsPath(w, r.project, p, r.version, r.full, r.editing)
    <3>1. u = R!urlForPath(p, r.project, r.version, r.full, r.editing)
      BY <2>1, <2>5
    <3>. QED  BY <1>1, <1>2, <2>2, <2>3, <2>4, <3>1, PathReadsBack DEF Sound, w
  <2>7. R!means(w) = R!means(r)
    BY <2>6, MeansOfProject DEF ShowsPath
  <2>8. Kept(r, w)
    BY <2>1, <2>2, <2>4, <2>6, <2>7, FileKept DEF ShowsPath
  <2>. QED  BY <2>8 DEF r, w
<1>. QED  BY <1>3, <1>4, <1>5, RedirectCases DEF r

\* The address after a replacement.
LEMMA Replaced ==
  ASSUME RouterTyped, NEW u, R!replace(u), s1' = s1
  PROVE  R!here' = u /\ R!route' = R!parseRoute(u, R!mode)
<1>1. s2' = [s2 EXCEPT ![s3] = u] /\ s3' = s3
  BY DEF R!replace
<1>2. s3 \in DOMAIN s2
  BY LenProperties DEF RouterTyped
<1>3. s2'[s3'] = u
  BY <1>1, <1>2
<1>4. R!mode' = R!mode
  BY DEF R!mode
<1>. QED  BY <1>3, <1>4 DEF R!here, R!route

LEMMA SubjectIsKept ==
  ASSUME Sound, R!FilesAddressed, RouterTyped
  PROVE  R!KeepsSubject
<1>. SUFFICES ASSUME R!Redirect, ~R!setupStep'
              PROVE  Kept(R!route, R!route')
  BY DEF R!KeepsSubject, Kept
<1>1. PICK u \in R!PageOf(R!route).to : R!replace(u)
  BY DEF R!Redirect
<1>2. s1' = s1
  BY DEF R!Redirect
<1>3. R!here' = u /\ R!route' = R!parseRoute(u, R!mode)
  BY <1>1, <1>2, Replaced
<1>4. ~ToSetup(u)
  <2>1. SUFFICES ASSUME ToSetup(u) PROVE R!setupStep'
    OBVIOUS
  <2>2. R!here'.segs = <<"setup">>
    BY <1>3, <2>1 DEF ToSetup, R!URLAt
  <2>3. <<"setup">> # <<>> /\ Head(<<"setup">>) = "setup"
    OBVIOUS
  <2>. QED  BY <1>2, <2>1, <2>2, <2>3 DEF ToSetup, R!setupStep
<1>. QED  BY <1>1, <1>3, <1>4, RedirectIsKept

LEMMA FileIsStayedOn ==
  ASSUME Sound, RouterTyped
  PROVE  R!StaysOnFile
<1>. DEFINE r == R!route
            w == R!route'
<1>. SUFFICES ASSUME R!ExitFull, ~s10
              PROVE  w = [r EXCEPT !.full = FALSE, !.filters = FALSE, !.connect = FALSE]
  BY DEF R!StaysOnFile
<1>1. Coherent(r, R!mode) /\ R!mode \in Modes
  BY HereIsAddress, ModeIsOne
<1>2. r.path # <<>> => ~r.trailingSlash
  BY ShownIsCanonical DEF R!ExitFull
<1>3. r.path # <<>> /\ s1' = s1
      /\ R!replace(R!urlForPath(r.path, r.project, r.version, FALSE, r.editing))
  BY DEF R!ExitFull, R!full
<1>4. w = R!parseRoute(R!urlForPath(r.path, r.project, r.version, FALSE, r.editing), R!mode)
  BY <1>3, Replaced
<1>. HIDE DEF r, w
<1>5. /\ r \in Routes /\ r.view = "none" /\ r.viewTarget = <<>> /\ ~r.legacyView
      /\ ~r.queryTarget /\ r.org = <<>> /\ ~r.billing /\ ~r.connections
      /\ Place(r.project, R!mode) /\ Legible(r.path, r.editing, R!mode)
  BY <1>1, <1>3 DEF Coherent, Place, Modes
<1>6. r.path \in Seq(Segments) /\ r.version \in BOOLEAN /\ r.editing \in BOOLEAN
  BY <1>5 DEF Routes
<1>. DEFINE no == FALSE
<1>7. no \in BOOLEAN
      /\ w = R!parseRoute(R!urlForPath(r.path, r.project, r.version, no, r.editing), R!mode)
  BY <1>4
<1>. HIDE DEF no
<1>8. ShowsPath(w, r.project, r.path, r.version, no, r.editing)
  BY <1>1, <1>5, <1>6, <1>7, PathReadsBack DEF Sound
<1>. DEFINE x == [r EXCEPT !.full = FALSE, !.filters = FALSE, !.connect = FALSE]
<1>9. x \in Routes /\ x.full = FALSE /\ x.filters = FALSE /\ x.connect = FALSE
      /\ x.org = r.org /\ x.billing = r.billing /\ x.connections = r.connections
      /\ x.project = r.project /\ x.path = r.path /\ x.view = r.view
      /\ x.viewTarget = r.viewTarget /\ x.legacyView = r.legacyView
      /\ x.trailingSlash = r.trailingSlash /\ x.queryTarget = r.queryTarget
      /\ x.version = r.version /\ x.editing = r.editing
  BY <1>5 DEF Routes
<1>. HIDE DEF x
<1>10. w \in Routes /\ w.full = FALSE /\ w.filters = FALSE /\ w.connect = FALSE
       /\ w.org = r.org /\ w.billing = r.billing /\ w.connections = r.connections
       /\ w.project = r.project /\ w.path = r.path /\ w.view = r.view
       /\ w.viewTarget = r.viewTarget /\ w.legacyView = r.legacyView
       /\ w.trailingSlash = r.trailingSlash /\ w.queryTarget = r.queryTarget
       /\ w.version = r.version /\ w.editing = r.editing
  <2>1. w \in Routes
    BY <1>8 DEF ShowsPath
  <2>. QED  BY <1>2, <1>3, <1>5, <1>8, <2>1 DEF ShowsPath, Routes, no
<1>11. x = [org |-> x.org, billing |-> x.billing, connections |-> x.connections, project
         |-> x.project, path |-> x.path, view |-> x.view, viewTarget |-> x.viewTarget,
         legacyView |-> x.legacyView, trailingSlash |-> x.trailingSlash, queryTarget |->
         x.queryTarget, version |-> x.version, full |-> x.full, editing |-> x.editing,
         connect |-> x.connect, filters |-> x.filters]
  BY <1>9 DEF Routes
<1>12. w = [org |-> w.org, billing |-> w.billing, connections |-> w.connections, project
         |-> w.project, path |-> w.path, view |-> w.view, viewTarget |-> w.viewTarget,
         legacyView |-> w.legacyView, trailingSlash |-> w.trailingSlash, queryTarget |->
         w.queryTarget, version |-> w.version, full |-> w.full, editing |-> w.editing,
         connect |-> w.connect, filters |-> w.filters]
  BY <1>10 DEF Routes
<1>13. w = x
  BY <1>9, <1>10, <1>11, <1>12
<1>. QED  BY <1>13 DEF x

\* A redirect never changes what an address is about: the project it means, the
\* path (but to where the hub says the file went), the view and its target, the
\* filters, the version, fullscreen and the editor; and leaving fullscreen in
\* place stays on the same file (Browser.tsx, HubApp.tsx, router.ts).  For all
\* projects, names, files, typed addresses and steps, of files whose address is
\* no view's.
THEOREM AddressIsKept ==
  ASSUME R!ConstantsSound, R!FilesAddressed, R!IdsUnguessed
  PROVE  TabSpec => AddressKept
<1>. DEFINE Inv == part = "router" => RouterInv
<1>. USE DEF Sound
<1>1. TabInit => Inv
  BY InitInv DEF TabInit
<1>2. Inv /\ [TabNext]_allVars => Inv'
  BY RouterPartKeepsInv
<1>3. Inv => (part = "router" => R!KeepsSubject /\ R!StaysOnFile)
  BY SubjectIsKept, FileIsStayedOn DEF RouterInv
<1>. HIDE DEF Inv
<1>. QED  BY <1>1, <1>2, <1>3, PTL DEF TabSpec, AddressKept
=============================================================================
