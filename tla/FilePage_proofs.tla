--------------------------- MODULE FilePage_proofs ---------------------------
(***************************************************************************)
(* What holds of FilePage for any number of writes and edits: an editor is   *)
(* never built from text older than the moment its edit began, and the       *)
(* banner has a write behind it that the edit's editor did not save.         *)
(***************************************************************************)
EXTENDS FilePage, TLAPS, FiniteSetTheorems, SequenceTheorems

Bounds == MaxWrites \in Nat \ {0} /\ MaxEdits \in Nat

\* The steps without the redraw that follows each.
Act ==
  \/ Serve \/ Arrive \/ Fails \/ Ages
  \/ prefetchEditText \/ EditView \/ loadDone \/ loadFails \/ retry \/ Done
  \/ Outsider \/ onWriting \/ onCollab \/ Rerender \/ onPeers \/ onDocChange
  \/ Snapshot \/ Frame
\* Those of the room that the hub makes for the file, as the page sees it.
RoomAct == onCollab \/ Rerender \/ onPeers \/ onDocChange

-----------------------------------------------------------------------------
(* The state                                                               *)

\* What the state is made of.  A frame is queued for a write, of which there is one
\* less than there are versions, or tells of a version that is there.
Answers == [on : BOOLEAN, blob : BOOLEAN, at : 0 .. head]
Whose == (-edit) .. edit
Rooms == [is : {"none", "solo", "live"}, words : 0 .. edit, peers : BOOLEAN]
Stored == head \in 1 .. MaxWrites /\ frames \in Seq(Whose) /\ Len(frames) <= head
Cached == cached.at \in 0 .. head /\ req \in Answers /\ (req.at # 0 => req.on)
Editing ==
  /\ code \in {"absent", "loading", "loaded"}
  /\ page \in {"read", "edit"} /\ edit \in 0 .. MaxEdits /\ (page = "edit" => edit > 0)
  /\ (asked => page = "edit" /\ req.on) /\ (revalidated => page = "edit")
  /\ mine \in 0 .. MaxWrites /\ (mine > 0 => page = "edit") /\ room \in Rooms
  /\ opened \in 1 .. head
Shape == Stored /\ Cached /\ Editing

Built ==
  /\ seed \in 0 .. head /\ (seed # 0 => page = "edit")
  /\ room.is # "none" => seed # 0 /\ visual
Typed == Shape /\ Built

LEMMA TypedIsTypeOK ==
  ASSUME Bounds, Typed
  PROVE  TypeOK
BY DEF Bounds, Typed, Shape, Stored, Cached, Editing, Rooms, Answers, Built, TypeOK

LEMMA InitTyped ==
  ASSUME Bounds, Init
  PROVE  Typed
BY DEF Bounds, Init, Typed, Shape, Stored, Cached, Editing, Rooms, Whose, Answers, Built, NewRead, NoRead

\* The two ways to ask for a read.
LEMMA ReadsAreTyped ==
  ASSUME Bounds, Shape, NEW b \in BOOLEAN
  PROVE  /\ fetch(b) \in Answers /\ fetch(b).on
         /\ Refetched(b) \in Answers /\ Refetched(b).on
BY DEF Bounds, Shape, Stored, Cached, Answers, fetch, Refetched, NewRead

\* A write of this edit, of an earlier one or of somebody else, or none.
LEMMA WritesKeepStored ==
  ASSUME Bounds, Stored, NEW by \in Whose, Written(by) \/ UNCHANGED <<head, frames>>, edit' = edit
  PROVE  Stored' /\ head <= head'
<1>1. CASE Written(by)
  BY <1>1 DEF Written, Bounds, Stored, Whose
<1>2. CASE UNCHANGED <<head, frames>>
  BY <1>2 DEF Bounds, Stored, Whose
<1>. QED  BY <1>1, <1>2

\* A room that changes hands is one.
Moved ==
  \/ \E b \in BOOLEAN : room' = [room EXCEPT !.is = "none", !.peers = b]
  \/ \E is \in {"solo", "live"} : room' = [room EXCEPT !.is = is]
  \/ room' = [room EXCEPT !.peers = ~@]
  \/ edit' = edit /\ room' = [room EXCEPT !.words = edit]

LEMMA RoomsStayTyped ==
  ASSUME Bounds, Typed, edit' \in Nat, edit <= edit', Moved
  PROVE  room' \in Rooms'
<1>1. room \in Rooms /\ edit \in Nat
  BY DEF Typed, Shape, Editing, Bounds
<1>2. 0 .. edit \subseteq 0 .. edit' /\ edit \in 0 .. edit
  BY <1>1
<1>3. room.words \in 0 .. edit' /\ room.is \in {"none", "solo", "live"} /\ room.peers \in BOOLEAN
  BY <1>1, <1>2 DEF Rooms
<1>4. room = [is |-> room.is, words |-> room.words, peers |-> room.peers]
  BY <1>1 DEF Rooms
<1>5. CASE \E b \in BOOLEAN : room' = [room EXCEPT !.is = "none", !.peers = b]
  <2>1. PICK b \in BOOLEAN : room' = [room EXCEPT !.is = "none", !.peers = b]
    BY <1>5
  <2>2. room' = [is |-> "none", words |-> room.words, peers |-> b]
    BY <1>1, <2>1 DEF Rooms
  <2>. QED  BY <1>3, <2>2 DEF Rooms
<1>6. CASE \E is \in {"solo", "live"} : room' = [room EXCEPT !.is = is]
  <2>1. PICK is \in {"solo", "live"} : room' = [room EXCEPT !.is = is]
    BY <1>6
  <2>2. room' = [is |-> is, words |-> room.words, peers |-> room.peers]
    BY <1>1, <2>1 DEF Rooms
  <2>. QED  BY <1>3, <2>2 DEF Rooms
<1>7. CASE room' = [room EXCEPT !.peers = ~@]
  <2>1. room' = [is |-> room.is, words |-> room.words, peers |-> ~room.peers]
    BY <1>1, <1>7 DEF Rooms
  <2>. QED  BY <1>3, <2>1 DEF Rooms
<1>8. CASE edit' = edit /\ room' = [room EXCEPT !.words = edit]
  BY <1>1, <1>2, <1>8 DEF Rooms
<1>. QED  BY <1>5, <1>6, <1>7, <1>8 DEF Moved

LEMMA ActKeepsShape ==
  ASSUME Bounds, Typed, Act
  PROVE  Shape'
<1>1. CASE Serve \/ Fails \/ Ages
  <2>1. Stored'
    BY <1>1 DEF Serve, Fails, Ages, NoRead, Bounds, Typed, Shape, Stored, Whose, Editing, hubVars
  <2>2. Cached'
    <3>1. CASE Serve
      BY <1>1, <3>1 DEF Serve, Bounds, Typed, Shape, Stored, Cached, Answers, hubVars
    <3>2. CASE Fails
      BY <3>2 DEF Fails, NoRead, Bounds, Typed, Shape, Stored, Cached, Answers, hubVars
    <3>3. CASE Ages
      BY <3>3 DEF Ages, Typed, Shape, Cached, Answers, hubVars
    <3>. QED  BY <1>1, <3>1, <3>2, <3>3
  <2>3. Editing'
    BY <1>1 DEF Serve, Fails, Ages, NoRead, Bounds, Typed, Shape, Stored, Cached, Editing, Rooms, Answers, hubVars, codeVars, editVars
  <2>. QED  BY <2>1, <2>2, <2>3 DEF Shape
<1>2. CASE Arrive
  <2>1. Stored'
    BY <1>2 DEF Arrive, NoRead, Bounds, Typed, Shape, Stored, Whose, Editing, hubVars
  <2>2. Cached'
    BY <1>2 DEF Arrive, NoRead, Bounds, Typed, Shape, Stored, Cached, Answers, hubVars
  <2>3. Editing'
    BY <1>2 DEF Arrive, NoRead, Bounds, Typed, Shape, Stored, Cached, Editing, Rooms, Answers, hubVars, codeVars, editVars
  <2>. QED  BY <2>1, <2>2, <2>3 DEF Shape
<1>3. CASE prefetchEditText
  <2>1. Stored'
    BY <1>3 DEF prefetchEditText, Preloaded, Bounds, Typed, Shape, Stored, Whose, Editing, hubVars
  <2>2. Cached'
    BY <1>3, ReadsAreTyped DEF prefetchEditText, Preloaded, Bounds, Typed, Shape, Stored, Cached, Answers, hubVars
  <2>3. Editing'
    BY <1>3, ReadsAreTyped DEF prefetchEditText, Preloaded, Bounds, Typed, Shape, Stored, Cached, Editing, Rooms, Answers, hubVars, codeVars, editVars
  <2>. QED  BY <2>1, <2>2, <2>3 DEF Shape
<1>4. CASE EditView
  <2>1. Stored'
    <3>1. head' \in 1 .. MaxWrites /\ frames' \in Seq(Whose) /\ Len(frames') <= head'
      BY <1>4 DEF EditView, Typed, Shape, Stored, hubVars
    <3>2. Whose \subseteq Whose'
      BY <1>4 DEF EditView, Whose, Bounds, Typed, Shape, Editing
    <3>3. frames' \in Seq(Whose')
      BY <3>1, <3>2
    <3>. QED  BY <3>1, <3>3 DEF Stored
  <2>2. Cached'
    BY <1>4, ReadsAreTyped DEF EditView, Preloaded, Bounds, Typed, Shape, Stored, Cached, Answers, hubVars
  <2>3. Editing'
    <3>1. req'.on
      BY <1>4, ReadsAreTyped DEF EditView, Typed
    <3>2. code' \in {"absent", "loading", "loaded"} /\ opened' \in 1 .. head'
      BY <1>4 DEF EditView, Preloaded, Bounds, Typed, Shape, Stored, Whose, Editing, hubVars
    <3>3. page' = "edit" /\ edit' \in 0 .. MaxEdits /\ edit' > 0 /\ ~revalidated' /\ mine' = 0
      BY <1>4 DEF EditView, Bounds, Typed, Shape, Editing
    <3>4. room' \in Rooms'
      <4>1. edit' = edit + 1 /\ edit \in Nat /\ room' = [room EXCEPT !.is = "none", !.peers = FALSE]
        BY <1>4 DEF EditView, Unsettled, Bounds, Typed, Shape, Editing
      <4>2. Moved
        BY <4>1 DEF Moved
      <4>. QED  BY <4>1, <4>2, RoomsStayTyped
    <3>. QED  BY <3>1, <3>2, <3>3, <3>4 DEF Editing, Bounds
  <2>. QED  BY <2>1, <2>2, <2>3 DEF Shape
<1>5. CASE loadDone \/ loadFails \/ retry
  <2>1. Stored'
    BY <1>5 DEF loadDone, loadFails, retry, Preloaded, Bounds, Typed, Shape, Stored, Whose, Editing, hubVars
  <2>2. Cached'
    BY <1>5 DEF loadDone, loadFails, retry, Preloaded, Bounds, Typed, Shape, Stored, Cached, Answers, hubVars
  <2>3. Editing'
    BY <1>5 DEF loadDone, loadFails, retry, Preloaded, Bounds, Typed, Shape, Stored, Cached, Editing, Rooms, Answers, hubVars, codeVars, editVars
  <2>. QED  BY <2>1, <2>2, <2>3 DEF Shape
<1>6. CASE Done
  <2>1. Stored' /\ head <= head'
    <3>1. (Written(edit) \/ UNCHANGED <<head, frames>>) /\ edit' = edit
      BY <1>6 DEF Done, Leave
    <3>2. edit \in Whose
      BY DEF Typed, Shape, Editing, Whose, Bounds
    <3>. QED  BY <3>1, <3>2, WritesKeepStored DEF Typed, Shape
  <2>2. Cached'
    <3>1. req' \in Answers /\ (req'.at # 0 => req'.on)
      BY <1>6, ReadsAreTyped DEF Done, Leave, fetch, NewRead, Typed, Shape, Cached
    <3>2. req' \in Answers'
      BY <2>1, <3>1 DEF Answers, Stored, Typed, Shape
    <3>3. cached'.at \in 0 .. head'
      BY <1>6, <2>1 DEF Done, Leave, Typed, Shape, Stored, Cached
    <3>. QED  BY <3>1, <3>2, <3>3 DEF Cached
  <2>3. Editing'
    <3>1. edit' = edit /\ edit \in Nat /\ room' = [room EXCEPT !.is = "none", !.peers = FALSE]
      BY <1>6 DEF Done, Leave, Unsettled, Bounds, Typed, Shape, Editing
    <3>2. room' \in Rooms'
      <4>1. Moved
        BY <3>1 DEF Moved
      <4>. QED  BY <3>1, <4>1, RoomsStayTyped
    <3>. QED  BY <1>6, <3>2, ReadsAreTyped DEF Done, Leave, Written, Bounds, Typed, Shape, Stored, Cached, Editing, Answers, hubVars, codeVars, editVars
  <2>. QED  BY <2>1, <2>2, <2>3 DEF Shape
<1>7. CASE Outsider \/ onWriting
  <2>1. Stored'
    <3>1. PICK by \in Whose : (Written(by) \/ UNCHANGED <<head, frames>>) /\ edit' = edit
      BY <1>7 DEF Outsider, onWriting, Typed, Shape, Editing, Whose, Bounds
    <3>. QED  BY <3>1, WritesKeepStored DEF Typed, Shape
  <2>2. Cached'
    BY <1>7 DEF Outsider, onWriting, Written, Bounds, Typed, Shape, Stored, Cached, Answers
  <2>3. Editing'
    BY <1>7 DEF Outsider, onWriting, Written, Bounds, Typed, Shape, Stored, Cached, Editing, Rooms, Answers, codeVars, editVars
  <2>. QED  BY <2>1, <2>2, <2>3 DEF Shape
<1>9. CASE RoomAct
  <2>1. UNCHANGED <<hubVars, cached, fresh, req, codeVars, page, edit, asked, revalidated, mine, opened>>
    BY <1>9 DEF RoomAct, onCollab, Rerender, onPeers, onDocChange, InRoom
  <2>2. room' \in Rooms'
    <3>1. edit' = edit /\ edit \in Nat /\ room.peers \in BOOLEAN
      BY <2>1 DEF Bounds, Typed, Shape, Editing, Rooms
    <3>2. Moved
      BY <1>9, <3>1 DEF RoomAct, onCollab, Rerender, onPeers, onDocChange, Unsettled, Moved
    <3>. QED  BY <3>1, <3>2, RoomsStayTyped
  <2>3. Stored' /\ Cached'
    BY <2>1 DEF hubVars, Typed, Shape, Stored, Whose, Cached, Answers
  <2>4. Editing'
    BY <2>1, <2>2 DEF hubVars, codeVars, Typed, Shape, Editing
  <2>. QED  BY <2>3, <2>4 DEF Shape
<1>10. CASE Snapshot
  <2>1. /\ UNCHANGED <<cached, req, codeVars, page, edit, asked, revalidated, mine, opened>>
        /\ room' = [room EXCEPT !.words = 0]
    BY <1>10 DEF Snapshot
  <2>2. -room.words \in Whose
    BY DEF Typed, Shape, Editing, Rooms, Whose, Bounds
  <2>3. Stored' /\ head <= head'
    <3>1. CASE Written(-room.words)
      BY <2>1, <2>2, <3>1, WritesKeepStored DEF Typed, Shape
    <3>2. CASE Len(frames) < head /\ head' = head /\ frames' = Append(frames, -room.words)
      <4>1. frames' \in Seq(Whose) /\ Len(frames') = Len(frames) + 1
        BY <2>2, <3>2 DEF Typed, Shape, Stored
      <4>2. Whose' = Whose
        BY <2>1 DEF Whose
      <4>3. frames' \in Seq(Whose')
        BY <4>1, <4>2
      <4>. QED  BY <3>2, <4>1, <4>3 DEF Bounds, Typed, Shape, Stored
    <3>. QED  BY <1>10, <3>1, <3>2 DEF Snapshot
  <2>4. Cached'
    BY <2>1, <2>3 DEF Bounds, Typed, Shape, Stored, Cached, Answers
  <2>5. Editing'
    <3>1. room' \in Rooms'
      BY <2>1 DEF Bounds, Typed, Shape, Editing, Rooms
    <3>. QED  BY <2>1, <2>3, <3>1 DEF Bounds, Typed, Shape, Stored, Editing, codeVars
  <2>. QED  BY <2>3, <2>4, <2>5 DEF Shape
<1>8. CASE Frame
  <2>1. Stored'
    BY <1>8 DEF Frame, onPeer, Claimed, visual, Bounds, Typed, Shape, Stored, Whose, Editing, hubVars
  <2>2. Cached'
    BY <1>8, ReadsAreTyped DEF Frame, onPeer, Claimed, visual, Bounds, Typed, Shape, Stored, Cached, Answers, hubVars
  <2>3. Editing'
    BY <1>8, ReadsAreTyped DEF Frame, onPeer, Claimed, visual, Bounds, Typed, Shape, Stored, Cached, Editing, Rooms, Answers, hubVars, codeVars, editVars
  <2>. QED  BY <2>1, <2>2, <2>3 DEF Shape
<1>. QED  BY <1>1, <1>2, <1>3, <1>4, <1>5, <1>6, <1>7, <1>8, <1>9, <1>10 DEF Act, RoomAct

\* The redraw builds an editor from the cached text, or keeps the one there is.
LEMMA RenderKeepsBuilt ==
  ASSUME Built, Shape', Render, head \in Nat, head' \in Nat, head <= head', edit' # edit \/ page' = page \/ page' = "read",
         file' = file, room'.is = "none" \/ (edit' = edit /\ page' = page /\ seed # 0 /\ visual)
  PROVE  Built'
<1>1. seed' \in 0 .. head' /\ (seed' # 0 => page' = "edit")
  BY DEF Render, Built, Shape, Cached, Shown
<1>2. room'.is # "none" => seed' # 0 /\ visual'
  BY DEF Render, Built, visual
<1>. QED  BY <1>1, <1>2 DEF Built

\* Versions are only added, an edit's number is its own, and a room is joined for
\* an editor that is there.
LEMMA ActGoesOn ==
  ASSUME Bounds, Typed, Act
  PROVE  /\ head \in Nat /\ head' \in Nat /\ head <= head'
         /\ edit' # edit \/ page' = page \/ page' = "read"
         /\ file' = file
         /\ room'.is = "none" \/ (edit' = edit /\ page' = page /\ seed # 0 /\ visual)
<1>1. head' = head \/ head' = head + 1
  BY DEF Act, Serve, Arrive, Fails, Ages, prefetchEditText, EditView, loadDone, loadFails, retry, Done,
     Leave, Outsider, onWriting, onCollab, Rerender, onPeers, onDocChange, InRoom, Snapshot, Frame, Written, hubVars
<1>2. edit' = edit + 1 \/ page' = page \/ page' = "read"
  BY DEF Act, Serve, Arrive, Fails, Ages, prefetchEditText, EditView, loadDone, loadFails, retry, Done,
     Leave, Outsider, onWriting, onCollab, Rerender, onPeers, onDocChange, InRoom, Snapshot, Frame
<1>3. file' = file
  BY DEF Act, Serve, Arrive, Fails, Ages, prefetchEditText, EditView, loadDone, loadFails, retry, Done,
     Leave, Outsider, onWriting, onCollab, Rerender, onPeers, onDocChange, InRoom, Snapshot, Frame, Written, hubVars
<1>4. room'.is = "none" \/ (edit' = edit /\ page' = page /\ seed # 0 /\ visual)
  <2>1. CASE EditView \/ Done \/ Rerender
    BY <2>1 DEF EditView, Done, Leave, Rerender, InRoom, Unsettled, Typed, Shape, Editing, Rooms
  <2>2. CASE onCollab \/ onPeers \/ onDocChange
    BY <2>2 DEF onCollab, onPeers, onDocChange, InRoom
  <2>3. CASE Act /\ ~(EditView \/ Done \/ Rerender \/ onCollab \/ onPeers \/ onDocChange)
    <3>1. edit' = edit /\ page' = page /\ room'.is = room.is
      BY <2>3 DEF Act, Serve, Arrive, Fails, Ages, prefetchEditText, loadDone, loadFails, retry, Outsider,
         onWriting, Snapshot, Frame, editVars, Typed, Shape, Editing, Rooms
    <3>. QED  BY <3>1 DEF Typed, Built
  <2>. QED  BY <2>1, <2>2, <2>3
<1>. QED  BY <1>1, <1>2, <1>3, <1>4 DEF Bounds, Typed, Shape, Stored, Editing

\* Nothing else changes the page.
LEMMA NextIsAct ==
  ASSUME [Next]_vars
  PROVE  (Act /\ Render) \/ UNCHANGED vars
BY DEF Next, Act

LEMMA NextKeepsTyped ==
  ASSUME Bounds, Typed, [Next]_vars
  PROVE  Typed'
<1>1. CASE Act /\ Render
  BY <1>1, ActKeepsShape, ActGoesOn, RenderKeepsBuilt DEF Typed
<1>2. CASE UNCHANGED vars
  BY <1>2 DEF vars, hubVars, codeVars, editVars, Typed, Shape, Stored, Whose, Cached, Editing, Rooms, Answers, Built, visual
<1>. QED  BY <1>1, <1>2, NextIsAct

LEMMA StaysTyped ==
  ASSUME Bounds
  PROVE  Spec => []Typed
<1>1. Init => Typed
  BY InitTyped
<1>2. Typed /\ [Next]_vars => Typed'
  BY NextKeepsTyped
<1>. QED  BY <1>1, <1>2, PTL DEF Spec

\* No count of a file's page leaves its range: versions, frames, answers, the
\* edit's own writes.
THEOREM TypeCorrect ==
  ASSUME Bounds
  PROVE  Spec => []TypeOK
<1>1. Typed => TypeOK
  BY TypedIsTypeOK
<1>. QED  BY <1>1, StaysTyped, PTL

-----------------------------------------------------------------------------
(* What an editor is built from                                            *)

\* What seeds an editor: an answer that comes during an edit, and the text that
\* such an answer has replaced, are no older than the edit.
Current ==
  page = "edit" /\ ~joined =>
    /\ req.at # 0 => req.at >= opened
    /\ revalidated => cached.at >= opened
    /\ seed # 0 => seed >= opened

\* An edit asks for a read of its own, or joins the first one.
LEMMA AskedAnew ==
  ASSUME Bounds, Typed, EditView, ~joined'
  PROVE  req'.at = 0
BY DEF EditView, Refetched, NewRead, Bounds, Typed, Shape, Cached, Answers

LEMMA ActKeepsCurrent ==
  ASSUME Bounds, Typed, Current, Act, page' = "edit", ~joined'
  PROVE  /\ req'.at # 0 => req'.at >= opened'
         /\ revalidated' => cached'.at >= opened'
<1>. USE DEF Bounds, Typed, Shape, Stored, Cached, Editing, Answers
<1>1. CASE EditView
  BY <1>1, AskedAnew DEF EditView
<1>2. CASE Serve
  BY <1>2 DEF Serve, Current, codeVars, editVars
<1>3. CASE Arrive
  BY <1>3 DEF Arrive, NoRead, Current, codeVars, editVars
<1>4. CASE Fails
  BY <1>4 DEF Fails, NoRead, Current, codeVars, editVars
<1>5. CASE Ages \/ loadDone \/ loadFails \/ retry \/ Outsider \/ onWriting \/ Snapshot
  BY <1>5 DEF Ages, loadDone, loadFails, retry, Outsider, onWriting, Snapshot, Current, codeVars, editVars
<1>8. CASE RoomAct
  BY <1>8 DEF RoomAct, onCollab, Rerender, onPeers, onDocChange, InRoom, Current, codeVars
<1>6. CASE Frame
  BY <1>6 DEF Frame, Refetched, NewRead, Current, codeVars
<1>7. CASE prefetchEditText \/ Done
  BY <1>7 DEF prefetchEditText, Done, Leave
<1>. QED  BY <1>1, <1>2, <1>3, <1>4, <1>5, <1>6, <1>7, <1>8 DEF Act, RoomAct

\* During an edit the moment it began, and whether it joined a read, stay.
LEMMA EditKeepsOpened ==
  ASSUME Bounds, Typed, Act, edit' = edit
  PROVE  UNCHANGED <<opened, joined>>
<1>1. ~EditView
  <2>1. edit \in Nat
    BY DEF Bounds, Typed, Shape, Editing
  <2>2. EditView => edit' = edit + 1
    BY DEF EditView
  <2>. QED  BY <2>1, <2>2
<1>. QED  BY <1>1 DEF Act, Serve, Arrive, Fails, Ages, prefetchEditText, loadDone, loadFails, retry, Done,
     Leave, Outsider, onWriting, onCollab, Rerender, onPeers, onDocChange, InRoom, Snapshot, Frame

LEMMA NextKeepsCurrent ==
  ASSUME Bounds, Typed, Current, [Next]_vars
  PROVE  Current'
<1>1. CASE Act /\ Render
  <2>. SUFFICES ASSUME page' = "edit", ~joined'
                PROVE  /\ req'.at # 0 => req'.at >= opened'
                       /\ revalidated' => cached'.at >= opened'
                       /\ seed' # 0 => seed' >= opened'
    BY DEF Current
  <2>1. /\ req'.at # 0 => req'.at >= opened'
        /\ revalidated' => cached'.at >= opened'
    BY <1>1, ActKeepsCurrent
  <2>2. CASE edit' # edit \/ (seed = 0 /\ Shown')
    BY <1>1, <2>1, <2>2 DEF Render, Shown
  <2>3. CASE edit' = edit /\ ~(seed = 0 /\ Shown')
    <3>1. seed' = seed
      BY <1>1, <2>3 DEF Render
    <3>2. opened' = opened /\ ~joined
      BY <1>1, <2>3, EditKeepsOpened
    <3>3. page = "edit"
      BY <1>1, <2>3, ActGoesOn
    <3>. QED  BY <2>1, <3>1, <3>2, <3>3 DEF Current
  <2>. QED  BY <2>2, <2>3
<1>2. CASE UNCHANGED vars
  BY <1>2 DEF vars, hubVars, codeVars, editVars, Current
<1>. QED  BY <1>1, <1>2, NextIsAct

\* FileView's edit waits for a read of its own: whatever was cached, failed or
\* was announced, the editor is not built from text older than the moment editing
\* began, unless the file's first read was out already.
THEOREM SeedsAreFresh ==
  ASSUME Bounds
  PROVE  Spec => []SeedFresh
<1>1. Init => Current
  BY DEF Init, Current
<1>2. Typed /\ Current /\ [Next]_vars => Current'
  BY NextKeepsCurrent
<1>3. Typed /\ Current => SeedFresh
  BY DEF Current, SeedFresh, Typed, Built
<1>. QED  BY <1>1, <1>2, <1>3, StaysTyped, PTL DEF Spec

-----------------------------------------------------------------------------
(* Whose writes the banner is about                                        *)

\* The places in a queue of the frames an edit made.
Own(q, e) == {i \in 1 .. Len(q) : q[i] = e}

LEMMA OwnFinite ==
  ASSUME NEW W, NEW q \in Seq(W), NEW e
  PROVE  IsFiniteSet(Own(q, e)) /\ Cardinality(Own(q, e)) \in Nat
<1>1. IsFiniteSet(1 .. Len(q))
  BY FS_Interval
<1>2. Own(q, e) \in SUBSET (1 .. Len(q))
  BY DEF Own
<1>. QED  BY <1>1, <1>2, FS_Subset, FS_CardinalityType

\* A frame that is queued adds one at most.
LEMMA OwnAppend ==
  ASSUME NEW W, NEW q \in Seq(W), NEW by \in W, NEW e
  PROVE  Cardinality(Own(Append(q, by), e)) <= Cardinality(Own(q, e)) + 1
<1>. DEFINE more == Own(q, e) \union {Len(q) + 1}
<1>1. Own(Append(q, by), e) \in SUBSET more
  BY DEF Own
<1>2. IsFiniteSet(more) /\ Cardinality(more) <= Cardinality(Own(q, e)) + 1
  <2>1. IsFiniteSet(Own(q, e)) /\ Cardinality(Own(q, e)) \in Nat
    BY OwnFinite
  <2>2. /\ IsFiniteSet(more)
        /\ \/ Cardinality(more) = Cardinality(Own(q, e))
           \/ Cardinality(more) = Cardinality(Own(q, e)) + 1
    BY <2>1, FS_AddElement
  <2>. HIDE DEF more
  <2>. QED  BY <2>1, <2>2
<1>3. Cardinality(Own(Append(q, by), e)) <= Cardinality(more)
  BY <1>1, <1>2, FS_Subset
<1>4. Cardinality(more) \in Nat /\ Cardinality(Own(Append(q, by), e)) \in Nat
  BY <1>1, <1>2, FS_CardinalityType, FS_Subset
<1>. HIDE DEF more
<1>. QED  BY <1>2, <1>3, <1>4, OwnFinite

\* Delivering takes from the front: none is added, and one is gone if the first
\* was one.
LEMMA OwnDelivered ==
  ASSUME NEW W, NEW q \in Seq(W), NEW e, NEW n \in 1 .. Len(q)
  PROVE  LET rest == SubSeq(q, n + 1, Len(q)) IN
         /\ rest \in Seq(W)
         /\ Cardinality(Own(rest, e)) <= Cardinality(Own(q, e))
         /\ q[1] = e => Cardinality(Own(rest, e)) <= Cardinality(Own(q, e)) - 1
<1>. DEFINE rest == SubSeq(q, n + 1, Len(q))
            back == [i \in Own(rest, e) |-> i + n]
            left == Own(q, e) \ {1}
<1>1. rest \in Seq(W) /\ Len(rest) = Len(q) - n /\ \A i \in 1 .. Len(rest) : rest[i] = q[i + n]
  <2>1. /\ rest \in Seq(W) /\ Len(rest) = Len(q) - n
        /\ \A i \in 1 .. Len(q) - n : rest[i] = q[(n + 1) + i - 1]
    BY SubSeqProperties
  <2>2. \A i \in 1 .. Len(q) - n : (n + 1) + i - 1 = i + n
    OBVIOUS
  <2>. HIDE DEF rest
  <2>. QED  BY <2>1, <2>2
<1>2. back \in Injection(Own(rest, e), left)
  <2>1. \A i \in Own(rest, e) : i + n \in left
    <3>. HIDE DEF rest
    <3>. QED  BY <1>1 DEF Own
  <2>2. \A i, j \in Own(rest, e) : i + n = j + n => i = j
    BY DEF Own
  <2>. HIDE DEF rest, left
  <2>. QED  BY <2>1, <2>2 DEF Injection, IsInjective
<1>3. /\ IsFiniteSet(left)
      /\ Cardinality(left) = IF 1 \in Own(q, e) THEN Cardinality(Own(q, e)) - 1 ELSE Cardinality(Own(q, e))
  BY OwnFinite, FS_RemoveElement
<1>4. Cardinality(Own(rest, e)) <= Cardinality(left)
  <2>. HIDE DEF back, left, rest
  <2>. QED  BY <1>2, <1>3, FS_Injection
<1>5. q[1] = e => 1 \in Own(q, e)
  BY DEF Own
<1>6. Cardinality(Own(rest, e)) \in Nat /\ Cardinality(Own(q, e)) \in Nat
  BY <1>1, OwnFinite
<1>. HIDE DEF rest, left
<1>. QED  BY <1>1, <1>3, <1>4, <1>5, <1>6 DEF rest

\* Until a frame came that this edit did not make, each of its frames on the way
\* has a count that will claim it; a frame of several writes claims one.
Counted == page = "edit" /\ file = "html" /\ ~strays => Cardinality(Own(frames, edit)) <= mine
Told == Counted /\ BannerHasCause

\* The two ways a frame arrives: it is missed, or the page sorts out whose it is.
LEMMA FrameKeepsTold ==
  ASSUME Bounds, Typed, Told, Frame
  PROVE  Told'
<1>1. PICK n \in 1 .. Len(frames) :
        /\ frames' = SubSeq(frames, n + 1, Len(frames))
        /\ UNCHANGED <<file, page, edit, room>>
        /\ \/ onPeer /\ strays' = (strays \/ (page = "edit" /\ \E i \in 1 .. n : frames[i] # edit))
           \/ UNCHANGED <<mine, banner, strays>>
  BY DEF Frame
<1>2. /\ Cardinality(Own(frames', edit)) <= Cardinality(Own(frames, edit))
      /\ frames[1] = edit => Cardinality(Own(frames', edit)) <= Cardinality(Own(frames, edit)) - 1
      /\ frames' \in Seq(Whose)
  <2>1. edit \in Nat /\ frames \in Seq(Whose)
    BY DEF Bounds, Typed, Shape, Stored, Editing
  <2>. QED  BY <1>1, <2>1, OwnDelivered
<1>3. Cardinality(Own(frames', edit)) \in Nat /\ Cardinality(Own(frames, edit)) \in Nat
  BY <1>2, OwnFinite DEF Typed, Shape, Stored
<1>4. mine \in Nat
  BY DEF Bounds, Typed, Shape, Editing
<1>5. CASE UNCHANGED <<mine, banner, strays>>
  BY <1>1, <1>2, <1>3, <1>4, <1>5 DEF Told, Counted, BannerHasCause
<1>6. CASE onPeer /\ strays' = (strays \/ (page = "edit" /\ \E i \in 1 .. n : frames[i] # edit))
  <2>1. CASE ~(page = "edit" /\ file = "html")
    <3>1. strays => strays'
      BY <1>6
    <3>2. UNCHANGED <<mine, banner>>
      BY <1>6, <2>1 DEF onPeer, visual
    <3>. QED  BY <1>1, <2>1, <3>1, <3>2 DEF Told, Counted, BannerHasCause
  <2>2. CASE page = "edit" /\ file = "html" /\ strays'
    BY <1>1, <2>2 DEF Told, Counted, BannerHasCause
  <2>3. CASE page = "edit" /\ file = "html" /\ ~strays'
    <3>1. ~strays /\ frames[1] = edit
      <4>1. ~strays /\ ~(\E i \in 1 .. n : frames[i] # edit)
        BY <1>6, <2>3
      <4>2. 1 \in 1 .. n
        BY <1>1
      <4>. QED  BY <4>1, <4>2
    <3>2. Cardinality(Own(frames, edit)) <= mine /\ Cardinality(Own(frames', edit)) <= Cardinality(Own(frames, edit)) - 1
      BY <1>2, <2>3, <3>1 DEF Told, Counted
    <3>3. mine > 0 /\ ~banner
      BY <1>3, <1>4, <3>1, <3>2 DEF Told, BannerHasCause
    <3>4. mine' = mine - 1 /\ ~banner'
      BY <1>6, <2>3, <3>3 DEF onPeer, Claimed, visual
    <3>. QED  BY <1>1, <1>3, <1>4, <3>2, <3>4 DEF Told, Counted, BannerHasCause
  <2>. QED  BY <2>1, <2>2, <2>3
<1>. QED  BY <1>1, <1>5, <1>6

LEMMA NextKeepsTold ==
  ASSUME Bounds, Typed, Told, [Next]_vars
  PROVE  Told'
<1>. USE DEF Told, Counted, BannerHasCause
<1>1. CASE EditView
  <2>1. /\ edit' = edit + 1 /\ frames' = frames /\ mine' = 0 /\ ~banner'
    BY <1>1 DEF EditView, hubVars
  <2>2. edit \in Nat /\ frames \in Seq(Whose)
    BY DEF Bounds, Typed, Shape, Stored, Editing
  <2>3. Own(frames', edit') = {}
    BY <2>1, <2>2 DEF Own, Whose
  <2>. QED  BY <2>1, <2>3, FS_EmptySet
<1>2. CASE Done
  BY <1>2 DEF Done, Leave
<1>3. CASE Outsider \/ onWriting \/ Snapshot
  <2>1. edit \in Nat /\ mine \in Nat /\ frames \in Seq(Whose)
    BY DEF Bounds, Typed, Shape, Stored, Editing
  <2>2. Cardinality(Own(frames, edit)) \in Nat
    BY <2>1, OwnFinite
  <2>3. ASSUME page = "edit", NEW by \in Whose, by # edit
        PROVE  Own(Append(frames, by), edit) = Own(frames, edit)
    BY <2>1, <2>3 DEF Own
  <2>4. /\ Cardinality(Own(Append(frames, edit), edit)) <= Cardinality(Own(frames, edit)) + 1
        /\ Cardinality(Own(Append(frames, edit), edit)) \in Nat
    <3>1. edit \in Whose /\ Append(frames, edit) \in Seq(Whose)
      BY <2>1 DEF Whose
    <3>. QED  BY <2>1, <3>1, OwnAppend, OwnFinite
  <2>5. CASE Outsider \/ Snapshot
    <3>1. UNCHANGED <<file, page, edit, mine, banner, strays>>
      BY <2>5 DEF Outsider, Snapshot, editVars
    <3>2. ASSUME page = "edit"
          PROVE  Own(frames', edit) = Own(frames, edit)
      <4>1. edit > 0
        BY <3>2 DEF Typed, Shape, Editing
      <4>2. PICK by \in {0, -room.words} : frames' = Append(frames, by) /\ (by # 0 => room.words # 0)
        BY <2>5 DEF Outsider, Snapshot, Written
      <4>3. by \in Whose /\ by # edit
        BY <2>1, <4>1, <4>2 DEF Whose, Typed, Shape, Editing, Rooms
      <4>. QED  BY <2>3, <3>2, <4>2, <4>3
    <3>. QED  BY <3>1, <3>2
  <2>6. CASE onWriting
    <3>1. /\ UNCHANGED <<file, page, edit, banner, strays>> /\ mine' = mine + 1
          /\ frames' = Append(frames, edit) \/ frames' = frames
      BY <2>6 DEF onWriting, Written
    <3>2. CASE frames' = Append(frames, edit)
      BY <2>1, <2>2, <2>4, <3>1, <3>2
    <3>3. CASE frames' = frames
      BY <2>1, <2>2, <3>1, <3>3
    <3>. QED  BY <3>1, <3>2, <3>3
  <2>. QED  BY <1>3, <2>5, <2>6
<1>4. CASE Frame
  BY <1>4, FrameKeepsTold
<1>5. CASE Act /\ ~EditView /\ ~Done /\ ~Outsider /\ ~onWriting /\ ~Snapshot /\ ~Frame
  <2>1. UNCHANGED <<file, frames, page, edit, mine, banner, strays>>
    BY <1>5 DEF Act, Serve, Arrive, Fails, Ages, prefetchEditText, loadDone, loadFails, retry, onCollab,
       Rerender, onPeers, onDocChange, InRoom, hubVars, editVars
  <2>. QED  BY <2>1
<1>6. CASE UNCHANGED vars
  BY <1>6 DEF vars, hubVars, editVars
<1>. QED  BY <1>1, <1>2, <1>3, <1>4, <1>5, <1>6, NextIsAct

\* The banner "changed by someone else" is raised by a write that this edit's editor
\* did not save itself: somebody else's, an earlier edit's, or the hub's of a live
\* room.  However the editor's own saves, their answers and their frames fall, none
\* of them raises it: onWriting counts each before it leaves.
THEOREM BannersHaveCause ==
  ASSUME Bounds
  PROVE  Spec => []BannerHasCause
<1>1. Init => Told
  BY DEF Init, Told, Counted, BannerHasCause
<1>2. Typed /\ Told /\ [Next]_vars => Told'
  BY NextKeepsTold
<1>3. Told => BannerHasCause
  BY DEF Told
<1>. QED  BY <1>1, <1>2, <1>3, StaysTyped, PTL DEF Spec

=============================================================================
