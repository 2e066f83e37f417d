--------------------------- MODULE SharedFile_proofs ---------------------------
(***************************************************************************)
(* What holds of SharedFile whatever its constants: any number of tabs,    *)
(* paragraphs, keystrokes, writes of others, lost answers and dropped      *)
(* sockets.                                                                *)
(*                                                                         *)
(* Part 1 types the effects the actions share, and then the state.  Part 2 *)
(* is about the saves of an editor: none leaves a room, and the text an    *)
(* editor takes for the file's is one the hub stored.  Part 3 shows that   *)
(* nobody's words are lost, and Part 4 what a save may erase.              *)
(***************************************************************************)
EXTENDS SharedFile, TLAPS

-----------------------------------------------------------------------------
(* Part 1a.  What the shared effects leave well typed.                     *)

Rooms == [open : BOOLEAN, doc : Texts, base : Texts, armed : BOOLEAN, wrote : SUBSET Texts]

\* The file, its history and its announcement; the surfaces; the save state.
FileTyped ==
    /\ head \in Texts /\ versions \in SUBSET Texts /\ copies \in SUBSET Texts
    /\ frame \in [Editors -> BOOLEAN] /\ mine \in [Editors -> Texts]
SurfaceTyped ==
    /\ room \in Rooms /\ text \in [Editors -> Texts] /\ had \in [Editors -> Texts]
    /\ away \in [Editors -> [ins : Texts, del : Texts]]
SaveTyped ==
    /\ saved \in [Editors -> Texts] /\ base \in [Editors -> Texts]
    /\ status \in [Editors -> {"clean", "dirty", "saving", "error"}]
RestTyped ==
    /\ surf \in [Editors -> {"opening", "room", "solo", "closed"}]
    /\ live \in [Editors -> BOOLEAN] /\ idle \in [Editors -> BOOLEAN]
    /\ calls \in [Editors -> SUBSET Call]
    /\ ask \in [Editors -> {"no", "open", "busy"}]
    /\ opened \in [Editors -> Texts] /\ prop \in [Editors -> Texts]
    /\ wire \in [Editors -> SUBSET Texts]
    /\ yielded \in [Editors -> Texts] /\ blind \in [Editors -> Texts]
    /\ left \in Budget

\* The type invariant, by groups.
LEMMA TypedByGroups == TypeOK <=> FileTyped /\ SurfaceTyped /\ SaveTyped /\ RestTyped
BY DEF TypeOK, FileTyped, SurfaceTyped, SaveTyped, RestTyped, Rooms

\* A bound that is spent stays a number.
LEMMA SpendTyped ==
  ASSUME left \in Budget, NEW what \in {"edits", "outside", "fails", "drops"}, Spend(what)
  PROVE  left' \in Budget
BY DEF Budget, Spend

\* A request is one the editor sends.
LEMMA RequestTyped ==
  ASSUME NEW op \in Ops, NEW t \in Texts, NEW b \in Texts
  PROVE  Request(op, t, b) \in Call
BY DEF Request, Call, Answers, Texts

\* Swapping a call for others of the right type.
LEMMA BecomesTyped ==
  ASSUME calls \in [Editors -> SUBSET Call], NEW e \in Editors, NEW c,
         NEW new \in SUBSET Call, Becomes(e, c, new)
  PROVE  calls' \in [Editors -> SUBSET Call]
BY DEF Becomes

\* The file moves to another text.
LEMMA FileBecomesTyped ==
  ASSUME FileTyped, NEW t \in Texts, FileBecomes(t)
  PROVE  FileTyped'
BY DEF FileTyped, FileBecomes, Texts

\* A conflict copy keeps the file and its history typed (Parked).
LEMMA ParkedTyped ==
  ASSUME FileTyped, NEW t \in Texts, Parked(t)
  PROVE  FileTyped'
BY DEF FileTyped, Parked, Texts

\* A step that leaves the file alone keeps its types (FileKept).
LEMMA FileKeptTyped ==
  ASSUME FileTyped, FileKept
  PROVE  FileTyped'
BY DEF FileTyped, FileKept

\* The room's document, and with it the text of the editors in it.
LEMMA DocBecomesTyped ==
  ASSUME SurfaceTyped, NEW r \in Rooms, NEW t \in Texts, NEW on, DocBecomes(r, t, on)
  PROVE  /\ room' \in Rooms /\ text' \in [Editors -> Texts] /\ had' \in [Editors -> Texts]
<1>1. [r EXCEPT !.doc = t, !.armed = @ \/ t # r.doc] \in Rooms
  BY DEF Rooms
<1>2. text' \in [Editors -> Texts] /\ had' \in [Editors -> Texts]
  BY DEF SurfaceTyped, DocBecomes, Texts
<1>. QED  BY <1>1, <1>2 DEF DocBecomes

\* The room a joining editor is served is a room.
LEMMA RoomAsServedTyped ==
  ASSUME FileTyped, SurfaceTyped
  PROVE  RoomAsServed \in Rooms
BY DEF FileTyped, SurfaceTyped, RoomAsServed, Rooms, Texts

\* A transaction leaves the surfaces typed, whether its socket is up or not.
LEMMA LocalEditTyped ==
  ASSUME SurfaceTyped, NEW e \in Editors, NEW t \in Texts, LocalEdit(e, t)
  PROVE  SurfaceTyped'
<1>1. CASE live[e]
  BY <1>1, DocBecomesTyped DEF LocalEdit, SurfaceTyped
<1>2. CASE ~live[e]
  <2>1. text' = [text EXCEPT ![e] = t] /\ had' = [had EXCEPT ![e] = @ \cup t] /\ room' = room
    BY <1>2 DEF LocalEdit
  <2>2. away' \in [Editors -> [ins : Texts, del : Texts]]
    <3>1. away[e].ins \in Texts /\ away[e].del \in Texts /\ text[e] \in Texts
      BY DEF SurfaceTyped
    <3>2. [ins |-> (away[e].ins \cup (t \ text[e])) \ (text[e] \ t),
           del |-> (away[e].del \cup (text[e] \ t)) \ (t \ text[e])] \in [ins : Texts, del : Texts]
      BY <3>1 DEF Texts
    <3>. QED  BY <1>2, <3>2 DEF LocalEdit, SurfaceTyped
  <2>. QED  BY <2>1, <2>2 DEF SurfaceTyped, Texts
<1>. QED  BY <1>1, <1>2

\* A save adds at most a request, and says so.
LEMMA SaveTypes ==
  ASSUME SaveTyped, RestTyped, NEW e \in Editors, NEW t \in Texts, Save(e, t)
  PROVE  /\ status' \in [Editors -> {"clean", "dirty", "saving", "error"}]
         /\ calls' \in [Editors -> SUBSET Call]
<1>1. Request("put", t, base[e]) \in Call
  BY RequestTyped DEF SaveTyped, Ops
<1>. QED  BY <1>1 DEF Save, SaveTyped, RestTyped

\* Raising the shrink question keeps the question and the status typed.
LEMMA AskShrinkTyped ==
  ASSUME SaveTyped, RestTyped, NEW e \in Editors, AskShrink(e)
  PROVE  /\ status' \in [Editors -> {"clean", "dirty", "saving", "error"}]
         /\ ask' \in [Editors -> {"no", "open", "busy"}]
BY DEF AskShrink, SaveTyped, RestTyped

\* A room on another version is a room, with the same document.
LEMMA BasedTyped ==
  ASSUME NEW r \in Rooms, NEW t \in Texts
  PROVE  /\ Based(r, t) \in Rooms
         /\ Based(r, t).doc = r.doc /\ Based(r, t).open = r.open
<1>1. r.wrote \cup {t} \in SUBSET Texts
  BY DEF Rooms
<1>. QED  BY <1>1 DEF Based, Rooms

\* The hub's write of the room's document.
LEMMA SnapshotTyped ==
  ASSUME FileTyped, SurfaceTyped, NEW final \in BOOLEAN, Snapshot(final)
  PROVE  FileTyped' /\ room' \in Rooms
<1>. DEFINE kept == [room EXCEPT !.armed = FALSE, !.open = ~final]
<1>1. /\ room.doc \in Texts /\ head \in Texts
      /\ kept \in Rooms /\ [kept EXCEPT !.base = head] \in Rooms
  BY DEF FileTyped, SurfaceTyped, Rooms
<1>2. room' \in {kept, [kept EXCEPT !.base = head], Based(kept, head), Based(kept, room.doc)}
  BY DEF Snapshot
<1>3. FileKept \/ Parked(room.doc) \/ FileBecomes(room.doc)
  BY DEF Snapshot
<1>. HIDE DEF kept
<1>4. room' \in Rooms
  BY <1>1, <1>2, BasedTyped
<1>. QED  BY <1>1, <1>3, <1>4, FileKeptTyped, ParkedTyped, FileBecomesTyped

\* The hub's side of a request, and its answer.
LEMMA ServeTyped ==
  ASSUME FileTyped, SurfaceTyped, NEW c \in Call, Serve(c)
  PROVE  FileTyped' /\ room' \in Rooms
<1>1. c.text \in Texts
  BY DEF Call
<1>2. room \in Rooms /\ Based(room, c.text) \in Rooms
  BY <1>1, BasedTyped DEF SurfaceTyped
<1>3. FileKept \/ Parked(c.text) \/ FileBecomes(c.text)
  BY DEF Serve
<1>4. room' \in {room, Based(room, c.text)}
  BY DEF Serve
<1>. QED  BY <1>1, <1>2, <1>3, <1>4, FileKeptTyped, ParkedTyped, FileBecomesTyped

\* What the hub sends back is a request with an answer.
LEMMA ReplyTyped ==
  ASSUME FileTyped, NEW c \in Call
  PROVE  Reply(c) \in Call
<1>1. PutAnswer(c) \in Answers /\ "ok" \in Answers
  BY DEF PutAnswer, Answers
<1>. QED  BY <1>1 DEF Reply, Call, FileTyped

\* What an answer does to the save state.
LEMMA LandedTyped ==
  ASSUME SaveTyped, NEW e \in Editors, NEW t \in Texts, NEW b \in Texts, Landed(e, t, b)
  PROVE  SaveTyped'
BY DEF SaveTyped, Landed

\* A failed save keeps the save state typed.
LEMMA FailedTyped ==
  ASSUME SaveTyped, NEW e \in Editors, Failed(e)
  PROVE  SaveTyped'
BY DEF SaveTyped, Failed

\* Another writer's text is offered to the document.
LEMMA MergeTyped ==
  ASSUME SurfaceTyped, SaveTyped, idle \in [Editors -> BOOLEAN],
         NEW e \in Editors, NEW next \in Texts, Merge(e, next)
  PROVE  SurfaceTyped' /\ SaveTyped' /\ idle' \in [Editors -> BOOLEAN]
<1>1. SurfaceTyped'
  <2>1. SurfaceKept \/ LocalEdit(e, next)
    BY DEF Merge, Blocked
  <2>2. CASE SurfaceKept
    BY <2>2 DEF SurfaceKept, SurfaceTyped
  <2>. QED  BY <2>1, <2>2, LocalEditTyped
<1>2. SaveTyped' /\ idle' \in [Editors -> BOOLEAN]
  BY DEF Merge, Blocked, Adopt, SaveTyped
<1>. QED  BY <1>1, <1>2

-----------------------------------------------------------------------------
(* Part 1b.  Every action keeps the type.                                  *)

Typed == FileTyped /\ SurfaceTyped /\ SaveTyped /\ RestTyped

\* Opening, joining, dropping and rejoining.
LEMMA SocketTyped ==
  ASSUME Typed, NEW e \in Editors, Join(e) \/ GoSolo(e) \/ Drop(e) \/ Rejoin(e)
  PROVE  Typed'
<1>1. CASE Join(e)
  <2>1. RoomAsServed \in Rooms /\ RoomAsServed.doc \in Texts
    BY RoomAsServedTyped DEF Typed, Rooms
  <2>2. SurfaceTyped'
    <3>1. room' \in Rooms /\ text' \in [Editors -> Texts] /\ had' \in [Editors -> Texts]
      BY <1>1, <2>1, DocBecomesTyped DEF Typed, Join
    <3>. QED  BY <1>1, <3>1 DEF Typed, Join, SurfaceTyped
  <2>3. FileTyped' /\ SaveTyped'
    BY <1>1 DEF Typed, Join, FileTyped, SaveTyped, saveVars, pageVars
  <2>4. RestTyped'
    BY <1>1 DEF Typed, Join, Mount, RestTyped, pageVars
  <2>. QED  BY <2>2, <2>3, <2>4 DEF Typed
<1>2. CASE GoSolo(e)
  <2>1. FileTyped' /\ SaveTyped'
    BY <1>2 DEF Typed, GoSolo, FileTyped, SaveTyped, hubVars, saveVars, pageVars, histVars
  <2>2. SurfaceTyped'
    BY <1>2 DEF Typed, GoSolo, SurfaceTyped, hubVars, histVars
  <2>3. RestTyped'
    BY <1>2 DEF Typed, GoSolo, Mount, RestTyped, pageVars, histVars
  <2>. QED  BY <2>1, <2>2, <2>3 DEF Typed
<1>3. CASE Drop(e)
  <2>1. FileTyped' /\ SaveTyped' /\ SurfaceTyped'
    BY <1>3 DEF Typed, Drop, FileTyped, SaveTyped, SurfaceTyped, hubVars, saveVars, pageVars, histVars
  <2>2. left' \in Budget
    BY <1>3, SpendTyped DEF Typed, RestTyped, Drop
  <2>. QED  BY <1>3, <2>1, <2>2 DEF Typed, Drop, RestTyped, pageVars, histVars
<1>4. CASE Rejoin(e)
  <2>. DEFINE t == (RoomAsServed.doc \cup away[e].ins) \ away[e].del
  <2>1. RoomAsServed \in Rooms /\ RoomAsServed.doc \in Texts
    BY RoomAsServedTyped DEF Typed, Rooms
  <2>2. t \in Texts
    BY <2>1 DEF Typed, SurfaceTyped, Texts
  <2>3. SurfaceTyped'
    <3>1. room' \in Rooms /\ text' \in [Editors -> Texts] /\ had' \in [Editors -> Texts]
      BY <1>4, <2>1, <2>2, DocBecomesTyped DEF Typed, Rejoin
    <3>2. NoEdits \in [ins : Texts, del : Texts]
      BY DEF NoEdits, Texts
    <3>. QED  BY <1>4, <3>1, <3>2 DEF Typed, Rejoin, SurfaceTyped
  <2>4. FileTyped' /\ SaveTyped'
    BY <1>4 DEF Typed, Rejoin, FileTyped, SaveTyped, saveVars, pageVars, Texts
  <2>5. RestTyped'
    BY <1>4 DEF Typed, Rejoin, RestTyped, pageVars
  <2>. QED  BY <2>3, <2>4, <2>5 DEF Typed
<1>. QED  BY <1>1, <1>2, <1>3, <1>4

\* The room's own writes.
LEMMA RoomTyped ==
  ASSUME Typed, RoomPauses \/ RoomEmpties
  PROVE  Typed'
<1>1. FileTyped' /\ room' \in Rooms
  BY SnapshotTyped DEF Typed, RoomPauses, RoomEmpties
<1>2. SurfaceTyped' /\ SaveTyped'
  BY <1>1 DEF Typed, RoomPauses, RoomEmpties, SurfaceTyped, SaveTyped, saveVars
<1>3. RestTyped'
  BY DEF Typed, RoomPauses, RoomEmpties, RestTyped
<1>. QED  BY <1>1, <1>2, <1>3 DEF Typed

\* Typing, and the idle timer.
LEMMA TypeTyped ==
  ASSUME Typed, NEW e \in Editors, NEW p \in Paras, Type(e, p)
  PROVE  Typed'
<1>. DEFINE t == IF p \in text[e] THEN text[e] \ {p} ELSE text[e] \cup {p}
<1>1. t \in Texts
  BY DEF Typed, SurfaceTyped, Texts
<1>2. SurfaceTyped'
  BY <1>1, LocalEditTyped DEF Typed, Type
<1>3. FileTyped'
  BY <1>1 DEF Typed, Type, FileTyped, pageVars, Texts
<1>4. SaveTyped'
  BY DEF Typed, Type, SaveTyped
<1>5. left' \in Budget
  BY SpendTyped DEF Typed, RestTyped, Type
<1>6. RestTyped'
  BY <1>5 DEF Typed, Type, RestTyped, pageVars
<1>. QED  BY <1>2, <1>3, <1>4, <1>6 DEF Typed

\* The idle timer, saving or watching for a shrink, keeps the types.
LEMMA IdleTyped ==
  ASSUME Typed, NEW e \in Editors, IdleSave(e) \/ WatchShrink(e)
  PROVE  Typed'
<1>1. FileTyped' /\ SurfaceTyped'
  BY DEF Typed, IdleSave, WatchShrink, FileTyped, SurfaceTyped, hubVars, pageVars, histVars
<1>2. CASE IdleSave(e)
  <2>1. text[e] \in Texts
    BY DEF Typed, SurfaceTyped
  <2>2. /\ status' \in [Editors -> {"clean", "dirty", "saving", "error"}]
        /\ calls' \in [Editors -> SUBSET Call]
    BY <1>2, <2>1, SaveTypes DEF Typed, IdleSave
  <2>. QED  BY <1>1, <1>2, <2>2 DEF Typed, IdleSave, SaveTyped, RestTyped, pageVars, histVars
<1>3. CASE WatchShrink(e)
  <2>1. /\ status' \in [Editors -> {"clean", "dirty", "saving", "error"}]
        /\ ask' \in [Editors -> {"no", "open", "busy"}]
    BY <1>3, AskShrinkTyped DEF Typed, WatchShrink, SaveTyped, RestTyped
  <2>. QED  BY <1>1, <1>3, <2>1 DEF Typed, WatchShrink, SaveTyped, RestTyped, pageVars, histVars
<1>. QED  BY <1>2, <1>3

\* The answers to the shrink question, and closing.
LEMMA AnsweredTyped ==
  ASSUME Typed, NEW e \in Editors, Confirm(e) \/ Keep(e)
  PROVE  Typed'
<1>1. FileTyped' /\ SurfaceTyped'
  BY DEF Typed, Confirm, Keep, FileTyped, SurfaceTyped, hubVars, pageVars, histVars
<1>2. SaveTyped'
  BY DEF Typed, Confirm, Keep, SaveTyped, saveVars
<1>3. Request("confirm", text[e], base[e]) \in Call /\ Request("keep", {}, base[e]) \in Call
  BY RequestTyped DEF Typed, SurfaceTyped, SaveTyped, Ops, Texts
<1>4. RestTyped'
  BY <1>3 DEF Typed, Confirm, Keep, Answering, RestTyped, pageVars, histVars
<1>. QED  BY <1>1, <1>2, <1>4 DEF Typed

\* Closing an editor keeps the types.
LEMMA CloseTyped ==
  ASSUME Typed, NEW e \in Editors, Close(e)
  PROVE  Typed'
<1>1. FileTyped' /\ SurfaceTyped'
  BY DEF Typed, Close, FileTyped, SurfaceTyped, hubVars, Texts
<1>2. /\ status' \in [Editors -> {"clean", "dirty", "saving", "error"}]
      /\ calls' \in [Editors -> SUBSET Call]
  <2>1. text[e] \in Texts
    BY DEF Typed, SurfaceTyped
  <2>2. Save(e, text[e]) \/ UNCHANGED <<status, calls>>
    BY DEF Close
  <2>. QED  BY <2>1, <2>2, SaveTypes DEF Typed, SaveTyped, RestTyped
<1>3. SaveTyped' /\ RestTyped'
  BY <1>2 DEF Typed, Close, SaveTyped, RestTyped
<1>. QED  BY <1>1, <1>3 DEF Typed

\* The hub answers a request, or the network loses it or its answer.
LEMMA AnswerTyped ==
  ASSUME Typed, NEW e \in Editors, NEW c, Answer(e, c) \/ Lose(e, c)
  PROVE  Typed'
<1>1. c \in Call
  BY DEF Typed, RestTyped, Answer, Lose
<1>2. FileTyped' /\ room' \in Rooms
  <2>1. Serve(c) \/ (FileKept /\ UNCHANGED room)
    BY DEF Answer, Lose
  <2>. QED  BY <1>1, <2>1, ServeTyped, FileKeptTyped DEF Typed, SurfaceTyped
<1>3. calls' \in [Editors -> SUBSET Call]
  <2>1. Reply(c) \in Call /\ [c EXCEPT !.ans = "fail"] \in Call
    BY <1>1, ReplyTyped DEF Typed, Call, Answers
  <2>2. Becomes(e, c, {Reply(c)}) \/ Becomes(e, c, {[c EXCEPT !.ans = "fail"]})
    BY DEF Answer, Lose
  <2>. QED  BY <2>1, <2>2, BecomesTyped DEF Typed, RestTyped
<1>4. left' \in Budget
  BY SpendTyped DEF Typed, RestTyped, Answer, Lose
<1>5. SurfaceTyped' /\ SaveTyped'
  BY <1>2 DEF Typed, Answer, Lose, SurfaceTyped, SaveTyped, saveVars
<1>6. RestTyped'
  BY <1>3, <1>4 DEF Typed, Answer, Lose, RestTyped
<1>. QED  BY <1>2, <1>5, <1>6 DEF Typed

\* The file's other writers.
LEMMA OutsideTyped ==
  ASSUME Typed, NEW t \in Texts, Outside(t)
  PROVE  Typed'
<1>1. FileTyped'
  BY FileBecomesTyped DEF Typed, Outside
<1>2. left' \in Budget
  BY SpendTyped DEF Typed, RestTyped, Outside
<1>3. Based(room, t) \in Rooms /\ room \in Rooms
  BY BasedTyped DEF Typed, SurfaceTyped
<1>4. room' \in {room, Based(room, t)}
  BY DEF Outside
<1>5. SurfaceTyped' /\ SaveTyped'
  BY <1>3, <1>4 DEF Typed, Outside, SurfaceTyped, SaveTyped, saveVars
<1>6. RestTyped'
  BY <1>2 DEF Typed, Outside, RestTyped
<1>. QED  BY <1>1, <1>5, <1>6 DEF Typed

\* Restoring a version keeps the types.
LEMMA RestoreTyped ==
  ASSUME Typed, NEW e \in Editors, NEW t \in versions, Restore(e, t)
  PROVE  Typed'
<1>1. t \in Texts
  BY DEF Typed, FileTyped
<1>2. SurfaceTyped'
  <2>1. CASE room.open
    <3>1. [Based(room, t) EXCEPT !.armed = FALSE] \in Rooms
      BY <1>1, BasedTyped DEF Typed, SurfaceTyped, Rooms
    <3>2. room' \in Rooms /\ text' \in [Editors -> Texts] /\ had' \in [Editors -> Texts]
      BY <1>1, <2>1, <3>1, DocBecomesTyped DEF Typed, Restore
    <3>. QED  BY <3>2 DEF Typed, Restore, SurfaceTyped
  <2>2. CASE ~room.open
    BY <2>2 DEF Typed, Restore, SurfaceTyped
  <2>. QED  BY <2>1, <2>2
<1>3. FileTyped'
  BY <1>1 DEF Typed, Restore, FileTyped, Texts
<1>4. SaveTyped'
  BY DEF Typed, Restore, SaveTyped, saveVars
<1>5. left' \in Budget
  BY SpendTyped DEF Typed, RestTyped, Restore
<1>6. calls' \in [Editors -> SUBSET Call]
  <2>1. Request(IF room.open THEN "folded" ELSE "restored", {}, base[e]) \in Call
    BY RequestTyped DEF Typed, SaveTyped, Ops, Texts
  <2>. QED  BY <2>1 DEF Typed, Restore, RestTyped
<1>7. RestTyped'
  BY <1>5, <1>6 DEF Typed, Restore, RestTyped
<1>. QED  BY <1>2, <1>3, <1>4, <1>7 DEF Typed

\* A save goes on with a request for the same text.
LEMMA GoesOnTyped ==
  ASSUME RestTyped, NEW e \in Editors, NEW c \in Call, NEW op \in Ops,
         NEW b \in Texts, NEW theirs \in Texts, GoesOn(e, c, op, b, theirs)
  PROVE  calls' \in [Editors -> SUBSET Call]
<1>1. [Request(op, c.text, b) EXCEPT !.theirs = theirs] \in Call
  BY DEF Request, Call, Answers, Texts
<1>. QED  BY <1>1, BecomesTyped DEF RestTyped, GoesOn

\* A step that only an editor's save makes keeps the rest.
LEMMA SaveOnlyTyped ==
  ASSUME Typed, SaveOnly
  PROVE  /\ SurfaceTyped'
         /\ mine' \in [Editors -> Texts] => FileTyped'
         /\ /\ calls' \in [Editors -> SUBSET Call] /\ ask' \in [Editors -> {"no", "open", "busy"}]
            /\ yielded' \in [Editors -> Texts] /\ blind' \in [Editors -> Texts]
            => RestTyped'
BY DEF Typed, SaveOnly, FileTyped, SurfaceTyped, RestTyped, hubVars, pageVars

\* Giving up on a refused save keeps the words typed.
LEMMA GivesUpTyped ==
  ASSUME FileTyped, NEW e \in Editors, NEW failed, GivesUp(e, failed)
  PROVE  mine' \in [Editors -> Texts]
BY DEF FileTyped, GivesUp, Texts

\* What an editor does with the answer to a put.
LEMMA PutDoneTyped ==
  ASSUME Typed, NEW e \in Editors, NEW c, PutDone(e, c)
  PROVE  Typed'
<1>1. c \in Call /\ c.text \in Texts /\ c.got \in Texts /\ {} \in Texts /\ "head" \in Ops
  BY DEF Typed, RestTyped, PutDone, Call, Texts, Ops
<1>2. mine' \in [Editors -> Texts]
  BY GivesUpTyped DEF Typed, PutDone
<1>3. SaveTyped' /\ ask' \in [Editors -> {"no", "open", "busy"}]
  <2>1. CASE Landed(e, c.text, c.got) /\ UNCHANGED ask
    BY <1>1, <2>1, LandedTyped DEF Typed, RestTyped
  <2>2. CASE Failed(e) /\ UNCHANGED ask
    BY <2>2, FailedTyped DEF Typed, RestTyped
  <2>3. CASE AskShrink(e) /\ UNCHANGED <<saved, base>>
    BY <2>3, AskShrinkTyped DEF Typed, SaveTyped
  <2>4. CASE GoesOn(e, c, "head", {}, c.got) /\ UNCHANGED <<base, ask>>
    BY <2>4 DEF Typed, SaveTyped, RestTyped, GoesOn
  <2>. QED  BY <2>1, <2>2, <2>3, <2>4 DEF PutDone
<1>4. calls' \in [Editors -> SUBSET Call]
  <2>1. Becomes(e, c, {}) \/ GoesOn(e, c, "head", {}, c.got)
    BY DEF PutDone
  <2>. QED  BY <1>1, <2>1, BecomesTyped, GoesOnTyped DEF Typed, RestTyped
<1>5. yielded' = yielded /\ blind' = blind /\ SaveOnly
  BY DEF PutDone
<1>. QED  BY <1>2, <1>3, <1>4, <1>5, SaveOnlyTyped DEF Typed, RestTyped

\* ... to the read after a lost race.
LEMMA HeadDoneTyped ==
  ASSUME Typed, NEW e \in Editors, NEW c, HeadDone(e, c)
  PROVE  Typed'
<1>1. /\ c \in Call /\ c.text \in Texts /\ c.got \in Texts /\ c.theirs \in Texts
      /\ {} \in Texts /\ {"reput", "copy"} \subseteq Ops
  BY DEF Typed, RestTyped, HeadDone, Call, Texts, Ops
<1>2. SaveTyped' /\ calls' \in [Editors -> SUBSET Call]
  <2>1. CASE Landed(e, c.got, c.got) /\ Becomes(e, c, {})
    BY <1>1, <2>1, LandedTyped, BecomesTyped DEF Typed, RestTyped
  <2>2. CASE base' = [base EXCEPT ![e] = c.got] /\ GoesOn(e, c, "reput", c.got, c.theirs)
    <3>1. SaveTyped'
      BY <1>1, <2>2 DEF Typed, SaveTyped, GoesOn
    <3>. QED  BY <1>1, <2>2, <3>1, GoesOnTyped DEF Typed
  <2>3. CASE GoesOn(e, c, "copy", {}, c.theirs) /\ UNCHANGED base
    <3>1. SaveTyped'
      BY <2>3 DEF Typed, SaveTyped, GoesOn
    <3>. QED  BY <1>1, <2>3, <3>1, GoesOnTyped DEF Typed
  <2>. QED  BY <2>1, <2>2, <2>3 DEF HeadDone
<1>3. blind' \in [Editors -> Texts]
  BY <1>1 DEF Typed, RestTyped, HeadDone, Texts
<1>4. ask' = ask /\ yielded' = yielded /\ mine' = mine /\ SaveOnly
  BY DEF HeadDone
<1>. QED  BY <1>2, <1>3, <1>4, SaveOnlyTyped DEF Typed, RestTyped, FileTyped

\* ... to the second put, and to a conflict copy.
LEMMA ReputDoneTyped ==
  ASSUME Typed, NEW e \in Editors, NEW c, ReputDone(e, c)
  PROVE  Typed'
<1>1. /\ c \in Call /\ c.text \in Texts /\ c.got \in Texts /\ c.theirs \in Texts
      /\ {} \in Texts /\ "copy" \in Ops
  BY DEF Typed, RestTyped, ReputDone, Call, Texts, Ops
<1>2. SaveTyped' /\ calls' \in [Editors -> SUBSET Call]
  <2>1. CASE Landed(e, c.text, c.got) /\ Becomes(e, c, {})
    BY <1>1, <2>1, LandedTyped, BecomesTyped DEF Typed, RestTyped
  <2>2. CASE GoesOn(e, c, "copy", {}, c.theirs) /\ UNCHANGED base
    <3>1. SaveTyped'
      BY <2>2 DEF Typed, SaveTyped, GoesOn
    <3>. QED  BY <1>1, <2>2, <3>1, GoesOnTyped DEF Typed
  <2>. QED  BY <2>1, <2>2 DEF ReputDone
<1>3. ask' = ask /\ yielded' = yielded /\ mine' = mine /\ blind' = blind /\ SaveOnly
  BY DEF ReputDone
<1>. QED  BY <1>2, <1>3, SaveOnlyTyped DEF Typed, RestTyped, FileTyped

\* The answer about a conflict copy keeps the types.
LEMMA CopyDoneTyped ==
  ASSUME Typed, NEW e \in Editors, NEW c, CopyDone(e, c)
  PROVE  Typed'
<1>1. c.text \in Texts /\ c.theirs \in Texts
  BY DEF Typed, RestTyped, CopyDone, Call
<1>2. SaveTyped' /\ yielded' \in [Editors -> Texts]
  <2>1. CASE Landed(e, c.text, c.theirs) /\ yielded' = [yielded EXCEPT ![e] = @ \cup c.theirs]
    BY <1>1, <2>1, LandedTyped DEF Typed, RestTyped, Texts
  <2>2. CASE Failed(e) /\ UNCHANGED yielded
    BY <2>2, FailedTyped DEF Typed, RestTyped
  <2>. QED  BY <2>1, <2>2 DEF CopyDone
<1>3. calls' \in [Editors -> SUBSET Call]
  BY BecomesTyped DEF Typed, RestTyped, CopyDone
<1>4. mine' \in [Editors -> Texts]
  BY GivesUpTyped DEF Typed, CopyDone
<1>5. ask' = ask /\ blind' = blind /\ SaveOnly
  BY DEF CopyDone
<1>. QED  BY <1>2, <1>3, <1>4, <1>5, SaveOnlyTyped DEF Typed, RestTyped

\* ... to the answers of the shrink question's two buttons.
LEMMA ConfirmDoneTyped ==
  ASSUME Typed, NEW e \in Editors, NEW c, ConfirmDone(e, c)
  PROVE  Typed'
<1>1. c.text \in Texts /\ c.got \in Texts
  BY DEF Typed, RestTyped, ConfirmDone, Call
<1>2. SaveTyped'
  BY <1>1, LandedTyped, FailedTyped DEF Typed, ConfirmDone
<1>3. calls' \in [Editors -> SUBSET Call]
  BY BecomesTyped DEF Typed, RestTyped, ConfirmDone
<1>4. ask' \in [Editors -> {"no", "open", "busy"}]
  BY DEF Typed, RestTyped, ConfirmDone
<1>5. yielded' = yielded /\ mine' = mine /\ blind' = blind /\ SaveOnly
  BY DEF ConfirmDone
<1>. QED  BY <1>2, <1>3, <1>4, <1>5, SaveOnlyTyped DEF Typed, RestTyped, FileTyped

\* "Keep saved version", answered, keeps the types.
LEMMA KeepDoneTyped ==
  ASSUME Typed, NEW e \in Editors, NEW c, KeepDone(e, c)
  PROVE  Typed'
<1>1. c.got \in Texts
  BY DEF Typed, RestTyped, KeepDone, Call
<1>2. calls' \in [Editors -> SUBSET Call]
  BY BecomesTyped DEF Typed, RestTyped, KeepDone
<1>3. SurfaceTyped'
  <2>1. SurfaceKept \/ LocalEdit(e, c.got)
    BY DEF KeepDone
  <2>2. CASE SurfaceKept
    BY <2>2 DEF Typed, SurfaceKept, SurfaceTyped
  <2>. QED  BY <1>1, <2>1, <2>2, LocalEditTyped DEF Typed
<1>4. SaveTyped'
  <2>1. Landed(e, c.got, c.got) \/ Failed(e) \/ UNCHANGED saveVars
    BY DEF KeepDone
  <2>2. CASE UNCHANGED saveVars
    BY <2>2 DEF Typed, SaveTyped, saveVars
  <2>. QED  BY <1>1, <2>1, <2>2, LandedTyped, FailedTyped DEF Typed
<1>5. FileTyped'
  BY <1>1 DEF Typed, KeepDone, FileTyped, pageVars, Texts
<1>6. RestTyped'
  <2>1. idle' \in [Editors -> BOOLEAN]
    BY DEF Typed, RestTyped, KeepDone
  <2>2. ask' \in [Editors -> {"no", "open", "busy"}]
    BY DEF Typed, RestTyped, KeepDone
  <2>. QED  BY <1>2, <2>1, <2>2 DEF Typed, KeepDone, RestTyped, pageVars
<1>. QED  BY <1>3, <1>4, <1>5, <1>6 DEF Typed

\* ... to its own restore.
LEMMA RestoreDoneTyped ==
  ASSUME Typed, NEW e \in Editors, NEW c, RestoreDone(e, c)
  PROVE  Typed'
<1>1. c.got \in Texts
  BY DEF Typed, RestTyped, RestoreDone, Call
<1>2. calls' \in [Editors -> SUBSET Call]
  BY BecomesTyped DEF Typed, RestTyped, RestoreDone
<1>3. SurfaceTyped' /\ SaveTyped' /\ idle' \in [Editors -> BOOLEAN]
  <2>1. \/ Merge(e, c.got)
        \/ Adopt(e, c.got) /\ UNCHANGED <<status, idle>> /\ SurfaceKept
        \/ UNCHANGED <<saveVars, idle>> /\ SurfaceKept
    BY DEF RestoreDone
  <2>2. CASE Merge(e, c.got)
    BY <1>1, <2>2, MergeTyped DEF Typed, RestTyped
  <2>3. CASE Adopt(e, c.got) /\ UNCHANGED <<status, idle>> /\ SurfaceKept
    BY <1>1, <2>3 DEF Typed, Adopt, SurfaceKept, SurfaceTyped, SaveTyped, RestTyped
  <2>4. CASE UNCHANGED <<saveVars, idle>> /\ SurfaceKept
    BY <2>4 DEF Typed, saveVars, SurfaceKept, SurfaceTyped, SaveTyped, RestTyped
  <2>. QED  BY <2>1, <2>2, <2>3, <2>4
<1>4. FileTyped'
  BY DEF Typed, RestoreDone, MergeOnly, FileTyped, pageVars
<1>5. blind' \in [Editors -> Texts]
  BY <1>1 DEF Typed, RestTyped, RestoreDone, Texts
<1>6. RestTyped'
  BY <1>2, <1>3, <1>5 DEF Typed, RestoreDone, MergeOnly, RestTyped, pageVars
<1>. QED  BY <1>3, <1>4, <1>6 DEF Typed

\* The page reads the file again, and hands the editor what came.
LEMMA PageTyped ==
  ASSUME Typed, NEW e \in Editors, Refetch(e) \/ Deliver(e)
  PROVE  Typed'
<1>1. CASE Refetch(e)
  <2>1. FileTyped' /\ SurfaceTyped' /\ SaveTyped'
    BY <1>1 DEF Typed, Refetch, FileTyped, SurfaceTyped, SaveTyped, hubVars, saveVars, histVars
  <2>2. RestTyped'
    BY <1>1 DEF Typed, Refetch, FileTyped, RestTyped, histVars
  <2>. QED  BY <2>1, <2>2 DEF Typed
<1>2. CASE Deliver(e)
  <2>1. PICK initial \in wire[e] :
          /\ wire' = [wire EXCEPT ![e] = {}]
          /\ prop' = [prop EXCEPT ![e] = initial]
          /\ \/ Merge(e, initial) \/ Seeds(e, initial)
             \/ UNCHANGED <<saveVars, idle>> /\ SurfaceKept
    BY <1>2 DEF Deliver
  <2>2. initial \in Texts
    BY DEF Typed, RestTyped
  <2>3. SurfaceTyped' /\ SaveTyped' /\ idle' \in [Editors -> BOOLEAN]
    <3>1. CASE Merge(e, initial)
      BY <2>2, <3>1, MergeTyped DEF Typed, RestTyped
    <3>2. CASE UNCHANGED <<saveVars, idle>> /\ SurfaceKept
      BY <3>2 DEF Typed, saveVars, SurfaceKept, SurfaceTyped, SaveTyped, RestTyped
    <3>3. CASE Seeds(e, initial)
      BY <2>2, <3>3 DEF Seeds, Typed, saveVars, SurfaceTyped, SaveTyped, RestTyped, Texts
    <3>. QED  BY <2>1, <3>1, <3>2, <3>3
  <2>4. FileTyped'
    BY <1>2 DEF Typed, Deliver, MergeOnly, FileTyped
  <2>5. RestTyped'
    BY <1>2, <2>1, <2>2, <2>3 DEF Typed, Deliver, MergeOnly, RestTyped
  <2>. QED  BY <2>3, <2>4, <2>5 DEF Typed
<1>. QED  BY <1>1, <1>2

\* Every variable keeps its type.
LEMMA TypedStep == Typed /\ [Next]_vars => Typed'
<1>. SUFFICES ASSUME Typed, [Next]_vars  PROVE Typed'
  OBVIOUS
<1>1. CASE UNCHANGED vars
  BY <1>1 DEF vars, Typed, FileTyped, SurfaceTyped, SaveTyped, RestTyped
<1>2. ASSUME NEW e \in Editors, Join(e) \/ GoSolo(e) \/ Drop(e) \/ Rejoin(e)
      PROVE  Typed'
  BY <1>2, SocketTyped
<1>3. ASSUME NEW e \in Editors, NEW p \in Paras, Type(e, p)
      PROVE  Typed'
  BY <1>3, TypeTyped
<1>4. ASSUME NEW e \in Editors,
             \/ IdleSave(e) \/ WatchShrink(e) \/ Confirm(e) \/ Keep(e) \/ Close(e)
             \/ Refetch(e) \/ Deliver(e)
      PROVE  Typed'
  BY <1>4, IdleTyped, AnsweredTyped, CloseTyped, PageTyped
<1>5. ASSUME NEW e \in Editors, NEW c \in calls[e], Answer(e, c) \/ Lose(e, c) \/ Done(e, c)
      PROVE  Typed'
  BY <1>5, AnswerTyped, PutDoneTyped, HeadDoneTyped, ReputDoneTyped, CopyDoneTyped,
     ConfirmDoneTyped, KeepDoneTyped, RestoreDoneTyped DEF Done
<1>6. ASSUME NEW e \in Editors, NEW t \in versions, Restore(e, t)
      PROVE  Typed'
  BY <1>6, RestoreTyped
<1>7. ASSUME RoomPauses \/ RoomEmpties
      PROVE  Typed'
  BY <1>7, RoomTyped
<1>8. ASSUME NEW t \in Texts, Outside(t)
      PROVE  Typed'
  BY <1>8, OutsideTyped
<1>. QED  BY <1>1, <1>2, <1>3, <1>4, <1>5, <1>6, <1>7, <1>8 DEF Next

\* The initial states are typed.
LEMMA TypedInit == Init => Typed
<1>. SUFFICES ASSUME Init  PROVE Typed
  OBVIOUS
<1>1. Start \in Texts /\ {} \in Texts /\ Start \in SUBSET Paras
  BY StartAssumption DEF Texts
<1>2. left \in Budget
  BY BudgetsAssumption DEF Init
<1>3. SurfaceTyped
  BY <1>1 DEF Init, SurfaceTyped, Rooms, NoEdits
<1>4. FileTyped /\ SaveTyped
  BY <1>1 DEF Init, FileTyped, SaveTyped
<1>5. RestTyped
  BY <1>1, <1>2 DEF Init, RestTyped
<1>. QED  BY <1>3, <1>4, <1>5 DEF Typed

\* Every reachable state is typed.
LEMMA TypedAlways == Spec => []Typed
BY TypedInit, TypedStep, PTL DEF Spec

\* Whatever the bounds, every variable keeps its type: no handler leaves a
\* request, a surface or a saved text the others cannot read.
THEOREM TypeCorrect == Spec => []TypeOK
<1>1. Typed => TypeOK
  BY TypedByGroups DEF Typed
<1>. QED  BY <1>1, TypedAlways, PTL

-----------------------------------------------------------------------------
(* Part 2a.  Where an editor's requests come from.                         *)

\* A request that is new, or newly answered: only an editor that saves by
\* itself, or is being closed, or that has a save under way, sends one of a
\* save; and an "ok" is the hub's answer to a request it has just carried out.
NewCall(e, n) ==
    /\ n.op \in SaveOps => \/ surf'[e] \in {"solo", "closed"}
                           \/ \E c \in calls[e] : c.op \in SaveOps
    /\ n.ans = "ok" => \E c \in calls[e] : n = Reply(c) /\ Serve(c)

\* The same of a step in which one editor swaps requests.
LEMMA BecomesNew ==
  ASSUME Typed, NEW e \in Editors, NEW c, NEW new, Becomes(e, c, new),
         \A n \in new : NewCall(e, n)
  PROVE  \A f \in Editors : \A n \in calls'[f] \ calls[f] : NewCall(f, n)
<1>1. \A f \in Editors : calls'[f] = IF f = e THEN (calls[e] \ {c}) \cup new ELSE calls[f]
  BY DEF Becomes, Typed, RestTyped
<1>. QED  BY <1>1

\* A save adds nothing but a put of its own.
LEMMA NewCallOfSave ==
  ASSUME Typed, NEW e \in Editors, NEW t, Save(e, t), surf'[e] \in {"solo", "closed"}
  PROVE  \A f \in Editors : \A n \in calls'[f] \ calls[f] : NewCall(f, n)
<1>1. Request("put", t, base[e]).ans = "none"
  BY DEF Request
<1>2. \A f \in Editors : calls'[f] \ calls[f] \subseteq {Request("put", t, base[e])}
                         /\ (f # e => calls'[f] = calls[f])
  BY DEF Save, Typed, RestTyped
<1>. QED  BY <1>1, <1>2 DEF NewCall

\* A save that goes on does so as one of its own kind.
LEMMA NewCallOfGoesOn ==
  ASSUME Typed, NEW e \in Editors, NEW c \in calls[e], c.op \in SaveOps,
         NEW op, NEW b, NEW theirs, GoesOn(e, c, op, b, theirs)
  PROVE  \A f \in Editors : \A n \in calls'[f] \ calls[f] : NewCall(f, n)
<1>1. [Request(op, c.text, b) EXCEPT !.theirs = theirs].ans = "none"
  BY DEF Request
<1>2. NewCall(e, [Request(op, c.text, b) EXCEPT !.theirs = theirs])
  BY <1>1 DEF NewCall
<1>. QED  BY <1>2, BecomesNew DEF GoesOn

\* What any step adds to the requests under way.
LEMMA NewCalls ==
  ASSUME Typed, Next
  PROVE  \A f \in Editors : \A n \in calls'[f] \ calls[f] : NewCall(f, n)
<1>1. CASE UNCHANGED calls
  BY <1>1
<1>2. ASSUME NEW e \in Editors, IdleSave(e) \/ Close(e)
      PROVE  \A f \in Editors : \A n \in calls'[f] \ calls[f] : NewCall(f, n)
  <2>1. surf'[e] \in {"solo", "closed"}
    BY <1>2 DEF IdleSave, Close, Typed, RestTyped
  <2>2. Save(e, text[e]) \/ UNCHANGED calls
    BY <1>2 DEF IdleSave, Close
  <2>. QED  BY <1>1, <2>1, <2>2, NewCallOfSave
<1>3. ASSUME NEW e \in Editors, NEW op \in Ops \ SaveOps, NEW t,
             calls' = [calls EXCEPT ![e] = @ \cup {Request(op, t, base[e])}]
      PROVE  \A f \in Editors : \A n \in calls'[f] \ calls[f] : NewCall(f, n)
  <2>1. Request(op, t, base[e]).op = op /\ Request(op, t, base[e]).ans = "none"
    BY DEF Request
  <2>2. \A f \in Editors : calls'[f] \ calls[f] \subseteq {Request(op, t, base[e])}
    BY <1>3 DEF Typed, RestTyped
  <2>. QED  BY <2>1, <2>2 DEF NewCall
<1>4. ASSUME NEW e \in Editors, Confirm(e) \/ Keep(e) \/ (\E t \in versions : Restore(e, t))
      PROVE  \A f \in Editors : \A n \in calls'[f] \ calls[f] : NewCall(f, n)
  <2>1. {"confirm", "keep", "folded", "restored"} \subseteq Ops \ SaveOps
    BY DEF Ops, SaveOps
  <2>2. \E op \in {"confirm", "keep", "folded", "restored"}, t \in {text[e], {}} :
          calls' = [calls EXCEPT ![e] = @ \cup {Request(op, t, base[e])}]
    BY <1>4 DEF Confirm, Keep, Restore
  <2>. QED  BY <1>3, <2>1, <2>2
<1>5. ASSUME NEW e \in Editors, NEW c \in calls[e], Answer(e, c) \/ Lose(e, c)
      PROVE  \A f \in Editors : \A n \in calls'[f] \ calls[f] : NewCall(f, n)
  <2>1. c \in Call
    BY DEF Typed, RestTyped
  <2>2. CASE Answer(e, c)
    <3>1. Reply(c).op = c.op
      BY <2>1 DEF Reply, Call
    <3>2. NewCall(e, Reply(c))
      BY <2>2, <3>1 DEF NewCall, Answer
    <3>. QED  BY <2>2, <3>2, BecomesNew DEF Answer
  <2>3. CASE Lose(e, c)
    <3>1. [c EXCEPT !.ans = "fail"].op = c.op /\ [c EXCEPT !.ans = "fail"].ans = "fail"
      BY <2>1 DEF Call
    <3>2. NewCall(e, [c EXCEPT !.ans = "fail"])
      BY <3>1 DEF NewCall
    <3>. QED  BY <2>3, <3>2, BecomesNew DEF Lose
  <2>. QED  BY <1>5, <2>2, <2>3
<1>6. ASSUME NEW e \in Editors, NEW c \in calls[e], Done(e, c)
      PROVE  \A f \in Editors : \A n \in calls'[f] \ calls[f] : NewCall(f, n)
  <2>1. \/ Becomes(e, c, {})
        \/ /\ c.op \in SaveOps
           /\ \E op, b, theirs : GoesOn(e, c, op, b, theirs)
    <3>1. CASE PutDone(e, c)
      BY <3>1 DEF PutDone, SaveOps
    <3>2. CASE HeadDone(e, c)
      BY <3>2 DEF HeadDone, SaveOps
    <3>3. CASE ReputDone(e, c)
      BY <3>3 DEF ReputDone, SaveOps
    <3>4. CASE CopyDone(e, c) \/ ConfirmDone(e, c) \/ KeepDone(e, c) \/ RestoreDone(e, c)
      BY <3>4 DEF CopyDone, ConfirmDone, KeepDone, RestoreDone
    <3>. QED  BY <1>6, <3>1, <3>2, <3>3, <3>4 DEF Done
  <2>2. CASE Becomes(e, c, {})
    BY <2>2, BecomesNew
  <2>. QED  BY <2>1, <2>2, NewCallOfGoesOn
<1>7. \/ UNCHANGED calls
      \/ \E e \in Editors : IdleSave(e) \/ Close(e)
      \/ \E e \in Editors : Confirm(e) \/ Keep(e) \/ (\E t \in versions : Restore(e, t))
      \/ \E e \in Editors : \E c \in calls[e] : Answer(e, c) \/ Lose(e, c) \/ Done(e, c)
  BY DEF Next, Join, GoSolo, Drop, Rejoin, Type, WatchShrink, Refetch, Deliver, RoomPauses,
         RoomEmpties, Outside
<1>. QED  BY <1>1, <1>2, <1>4, <1>5, <1>6, <1>7

-----------------------------------------------------------------------------
(* Part 2b.  The hub writes alone.                                         *)

\* Inductive: an editor that has not settled on saving by itself has no save
\* under way, joined or not.
NoOwnSave ==
    \A e \in Editors : surf[e] \in {"opening", "room"} => \A c \in calls[e] : c.op \notin SaveOps

\* A surface is chosen once.
LEMMA SurfaceChosenOnce ==
  ASSUME Typed, Next, NEW e \in Editors, surf'[e] \in {"opening", "room"}
  PROVE  surf[e] \in {"opening", "room"}
<1>1. \/ UNCHANGED surf
      \/ \E f \in Editors : \E s \in {"room", "solo"} : Mount(f, s)
      \/ \E f \in Editors : surf' = [surf EXCEPT ![f] = "closed"]
  <2>1. ASSUME NEW f \in Editors, NEW c, Done(f, c)
        PROVE  UNCHANGED surf
    BY <2>1 DEF Done, PutDone, HeadDone, ReputDone, CopyDone, ConfirmDone, KeepDone,
                RestoreDone, SaveOnly, MergeOnly
  <2>2. ASSUME NEW f \in Editors, Deliver(f)
        PROVE  UNCHANGED surf
    BY <2>2 DEF Deliver, MergeOnly
  <2>. QED
    BY <2>1, <2>2 DEF Next, Join, GoSolo, Close, Drop, Rejoin, Type, IdleSave, WatchShrink,
                Confirm, Keep, Answer, Lose, Restore, Refetch, RoomPauses, RoomEmpties, Outside
<1>2. CASE UNCHANGED surf
  BY <1>2
<1>3. ASSUME NEW f \in Editors, NEW s, Mount(f, s)
      PROVE  surf[e] \in {"opening", "room"}
  BY <1>3 DEF Mount, Typed, RestTyped
<1>4. ASSUME NEW f \in Editors, surf' = [surf EXCEPT ![f] = "closed"]
      PROVE  surf[e] \in {"opening", "room"}
  BY <1>4 DEF Typed, RestTyped
<1>. QED  BY <1>1, <1>2, <1>3, <1>4

\* No step makes an editor of a room, or one still opening, save by itself.
LEMMA NoOwnSaveStep == Typed /\ NoOwnSave /\ [Next]_vars => NoOwnSave'
<1>1. CASE UNCHANGED vars
  BY <1>1 DEF NoOwnSave, vars
<1>2. ASSUME Typed, NoOwnSave, Next  PROVE NoOwnSave'
  <2>. SUFFICES ASSUME NEW e \in Editors, surf'[e] \in {"opening", "room"}, NEW n \in calls'[e]
                PROVE  n.op \notin SaveOps
    BY DEF NoOwnSave
  <2>1. \A c \in calls[e] : c.op \notin SaveOps
    BY <1>2, SurfaceChosenOnce DEF NoOwnSave
  <2>2. n \notin calls[e] => NewCall(e, n)
    BY <1>2, NewCalls
  <2>. QED  BY <2>1, <2>2 DEF NewCall
<1>. QED  BY <1>1, <1>2

\* However many tabs are open, whatever is lost and however late it comes, an
\* editor of the room never has a save of its own under way (sharedfile.ts:
\* once the hub holds the document, only the hub writes the file).
THEOREM HubIsTheWriter == Spec => []HubWritesAlone
<1>1. Init => NoOwnSave
  BY DEF Init, NoOwnSave
<1>2. NoOwnSave => HubWritesAlone
  BY DEF NoOwnSave, HubWritesAlone
<1>. QED  BY <1>1, <1>2, NoOwnSaveStep, TypedAlways, PTL DEF Spec

-----------------------------------------------------------------------------
(* Part 2c.  What an editor takes for saved is stored.                     *)

Stored == versions \cup copies

\* Inductive: the file is in its own history, whatever reaches a page was the
\* file, and an "ok" is about a text the hub stored - the one that was sent, or
\* the one that was read.
Answered(c) ==
    c.ans = "ok" => IF c.op \in Puts \cup {"copy"}
                    THEN c.text \in Stored /\ (c.op # "copy" => c.got \in Stored)
                    ELSE c.got \in Stored
StoredInv ==
    /\ head \in versions
    /\ \A e \in Editors : /\ saved[e] \in Stored /\ wire[e] \subseteq versions
                          /\ \A c \in calls[e] : Answered(c)

\* Nothing is forgotten, and the file moves only within its history.
LEMMA StoresGrow ==
  ASSUME Typed, head \in versions, Next
  PROVE  versions \subseteq versions' /\ copies \subseteq copies' /\ head' \in versions'
<1>1. ASSUME NEW t, FileBecomes(t) \/ Parked(t) \/ FileKept
      PROVE  versions \subseteq versions' /\ copies \subseteq copies' /\ head' \in versions'
  BY <1>1 DEF FileBecomes, Parked, FileKept
<1>2. CASE UNCHANGED <<head, versions, copies>>
  BY <1>2
<1>3. ASSUME NEW final, Snapshot(final)
      PROVE  \E t : FileBecomes(t) \/ Parked(t) \/ FileKept
  BY <1>3 DEF Snapshot
<1>4. ASSUME NEW c, Serve(c)
      PROVE  \E t : FileBecomes(t) \/ Parked(t) \/ FileKept
  BY <1>4 DEF Serve
<1>5. ASSUME NEW e \in Editors, NEW t \in versions, Restore(e, t)
      PROVE  versions \subseteq versions' /\ copies \subseteq copies' /\ head' \in versions'
  BY <1>5 DEF Restore
<1>6. ASSUME NEW e \in Editors, NEW c, Done(e, c)
      PROVE  UNCHANGED <<head, versions, copies>>
  BY <1>6 DEF Done, PutDone, HeadDone, ReputDone, CopyDone, ConfirmDone, KeepDone,
              RestoreDone, SaveOnly, MergeOnly, hubVars
<1>7. \/ UNCHANGED <<head, versions, copies>>
      \/ \E final : Snapshot(final)
      \/ \E c : Serve(c) \/ FileKept
      \/ \E t : FileBecomes(t)
      \/ \E e \in Editors : \E t \in versions : Restore(e, t)
  <2>1. ASSUME NEW e \in Editors,
               \/ Join(e) \/ GoSolo(e) \/ Drop(e) \/ Rejoin(e) \/ IdleSave(e) \/ WatchShrink(e)
               \/ Confirm(e) \/ Keep(e) \/ Close(e) \/ Refetch(e) \/ Deliver(e)
               \/ \E p \in Paras : Type(e, p)
        PROVE  UNCHANGED <<head, versions, copies>>
    BY <2>1 DEF Join, GoSolo, Drop, Rejoin, IdleSave, WatchShrink, Confirm, Keep, Close,
                Refetch, Deliver, Type, MergeOnly, hubVars
  <2>2. ASSUME NEW e \in Editors, NEW c \in calls[e], Answer(e, c) \/ Lose(e, c)
        PROVE  Serve(c) \/ FileKept
    BY <2>2 DEF Answer, Lose
  <2>3. RoomPauses \/ RoomEmpties => \E final : Snapshot(final)
    BY DEF RoomPauses, RoomEmpties
  <2>4. ASSUME NEW t, Outside(t)
        PROVE  FileBecomes(t)
    BY <2>4 DEF Outside
  <2>. QED  BY <1>6, <2>1, <2>2, <2>3, <2>4 DEF Next
<1>8. (\E final : Snapshot(final)) \/ (\E c : Serve(c) \/ FileKept) \/ (\E t : FileBecomes(t))
      => \E t : FileBecomes(t) \/ Parked(t) \/ FileKept
  BY <1>3, <1>4
<1>. QED  BY <1>1, <1>2, <1>5, <1>7, <1>8

\* What the hub answers "ok" to, it has stored.
LEMMA OkIsStored ==
  ASSUME Typed, head \in versions, Next, NEW c \in Call, Serve(c), NEW n, n = Reply(c)
  PROVE  Answered(n)'
<1>1. versions \subseteq versions' /\ copies \subseteq copies'
  BY StoresGrow
<1>2. n.op = c.op /\ n.text = c.text
  BY DEF Reply, Call
<1>3. CASE c.op \in Puts
  <2>1. n.got = (IF PutAnswer(c) = "ok" THEN c.text ELSE head) /\ n.ans = PutAnswer(c)
    BY <1>3 DEF Reply, Call
  <2>2. PutAnswer(c) = "ok" => c.text \in versions'
    <3>1. CASE c.text = head
      BY <1>1, <3>1
    <3>2. CASE c.text # head /\ PutAnswer(c) = "ok"
      BY <1>3, <3>2 DEF Serve, FileBecomes
    <3>. QED  BY <3>1, <3>2
  <2>. QED  BY <1>2, <1>3, <2>1, <2>2 DEF Answered, Stored
<1>4. CASE c.op = "copy"
  <2>1. Parked(c.text)
    BY <1>4 DEF Serve, Puts
  <2>. QED  BY <1>2, <1>4, <2>1 DEF Answered, Stored, Parked
<1>5. CASE c.op \in Reads
  <2>1. n.got = head
    BY <1>5 DEF Reply, Call, Reads, Puts
  <2>. QED  BY <1>1, <1>2, <1>5, <2>1 DEF Answered, Stored, Reads, Puts
<1>. QED  BY <1>3, <1>4, <1>5 DEF Call, Ops, Puts, Reads

\* What changes an editor's saved text, and what reaches a page.
LEMMA SavedMoves ==
  ASSUME Typed, StoredInv, Next, NEW e \in Editors
  PROVE  saved'[e] \in Stored /\ wire'[e] \subseteq versions
<1>. DEFINE Kept == saved'[e] \in Stored /\ wire'[e] \subseteq versions
<1>1. ASSUME UNCHANGED <<saved, wire>>
      PROVE  Kept
  BY <1>1 DEF StoredInv
<1>2. ASSUME NEW f \in Editors, NEW t \in Stored, saved' = [saved EXCEPT ![f] = t], UNCHANGED wire
      PROVE  Kept
  BY <1>2 DEF StoredInv, Typed, SaveTyped
<1>3. ASSUME NEW f \in Editors, NEW c \in calls[f], Done(f, c)
      PROVE  Kept
  <2>1. UNCHANGED wire
    BY <1>3 DEF Done, PutDone, HeadDone, ReputDone, CopyDone, ConfirmDone, KeepDone,
                RestoreDone, SaveOnly, pageVars
  <2>2. Answered(c)
    BY DEF StoredInv
  <2>3. \/ UNCHANGED saved
        \/ saved' = [saved EXCEPT ![f] = c.text] /\ c.op \in Puts \cup {"copy"} /\ c.ans = "ok"
        \/ saved' = [saved EXCEPT ![f] = c.got] /\ c.op \in Reads /\ c.ans = "ok"
    <3>1. CASE PutDone(f, c)
      BY <3>1 DEF PutDone, Landed, Failed, GoesOn, Puts
    <3>2. CASE HeadDone(f, c)
      BY <3>2 DEF HeadDone, Landed, GoesOn, Reads
    <3>3. CASE ReputDone(f, c)
      BY <3>3 DEF ReputDone, Landed, GoesOn, Puts
    <3>4. CASE CopyDone(f, c)
      BY <3>4 DEF CopyDone, Landed, Failed
    <3>5. CASE ConfirmDone(f, c)
      BY <3>5 DEF ConfirmDone, Landed, Failed, Puts
    <3>6. CASE KeepDone(f, c)
      BY <3>6 DEF KeepDone, Landed, Failed, saveVars, Reads
    <3>7. CASE RestoreDone(f, c)
      BY <3>7 DEF RestoreDone, Merge, Blocked, Adopt, saveVars, Reads
    <3>. QED  BY <1>3, <3>1, <3>2, <3>3, <3>4, <3>5, <3>6, <3>7 DEF Done
  <2>4. c.op \in Reads => c.op \notin Puts \cup {"copy"}
    BY DEF Reads, Puts
  <2>5. CASE saved' = [saved EXCEPT ![f] = c.text] /\ c.op \in Puts \cup {"copy"} /\ c.ans = "ok"
    BY <1>2, <2>1, <2>2, <2>5 DEF Answered
  <2>6. CASE saved' = [saved EXCEPT ![f] = c.got] /\ c.op \in Reads /\ c.ans = "ok"
    BY <1>2, <2>1, <2>2, <2>4, <2>6 DEF Answered
  <2>. QED  BY <1>1, <2>1, <2>3, <2>5, <2>6
<1>4. ASSUME NEW f \in Editors, Refetch(f)
      PROVE  Kept
  <2>1. wire' = [wire EXCEPT ![f] = {head}] /\ UNCHANGED saved
    BY <1>4 DEF Refetch, saveVars
  <2>. QED  BY <2>1 DEF StoredInv, Typed, RestTyped
<1>5. ASSUME NEW f \in Editors, Deliver(f)
      PROVE  Kept
  <2>1. PICK initial \in wire[f] :
          /\ wire' = [wire EXCEPT ![f] = {}]
          /\ UNCHANGED saved \/ saved' = [saved EXCEPT ![f] = initial]
    BY <1>5 DEF Deliver, Seeds, Merge, Blocked, Adopt, saveVars
  <2>. QED  BY <2>1 DEF StoredInv, Stored, Typed, SaveTyped, RestTyped
<1>6. ASSUME NEW f \in Editors, Close(f)
      PROVE  Kept
  <2>1. wire' = [wire EXCEPT ![f] = {}] /\ UNCHANGED saved
    BY <1>6 DEF Close
  <2>. QED  BY <2>1 DEF StoredInv, Typed, RestTyped
<1>7. ASSUME NEW f \in Editors,
             \/ Join(f) \/ GoSolo(f) \/ Drop(f) \/ Rejoin(f) \/ IdleSave(f) \/ WatchShrink(f)
             \/ Confirm(f) \/ Keep(f) \/ (\E p \in Paras : Type(f, p))
             \/ (\E c \in calls[f] : Answer(f, c) \/ Lose(f, c))
             \/ (\E t \in versions : Restore(f, t))
      PROVE  UNCHANGED <<saved, wire>>
  BY <1>7 DEF Join, GoSolo, Drop, Rejoin, IdleSave, WatchShrink, Confirm, Keep, Type, Answer,
              Lose, Restore, saveVars, pageVars
<1>8. RoomPauses \/ RoomEmpties \/ (\E t \in Texts : Outside(t)) => UNCHANGED <<saved, wire>>
  BY DEF RoomPauses, RoomEmpties, Outside, saveVars
<1>. HIDE DEF Kept
<1>9. Kept
  BY <1>1, <1>3, <1>4, <1>5, <1>6, <1>7, <1>8 DEF Next
<1>. QED  BY <1>9 DEF Kept

\* No step makes an editor take for saved what the hub does not hold.
LEMMA StoredStep == Typed /\ StoredInv /\ [Next]_vars => StoredInv'
<1>1. CASE UNCHANGED vars
  BY <1>1 DEF StoredInv, Answered, Stored, vars
<1>2. ASSUME Typed, StoredInv, Next  PROVE StoredInv'
  <2>1. versions \subseteq versions' /\ copies \subseteq copies' /\ head' \in versions'
    BY <1>2, StoresGrow DEF StoredInv
  <2>2. \A e \in Editors : saved'[e] \in Stored' /\ wire'[e] \subseteq versions'
    BY <1>2, <2>1, SavedMoves DEF Stored
  <2>3. ASSUME NEW e \in Editors, NEW n \in calls'[e]
        PROVE  Answered(n)'
    <3>1. CASE n \in calls[e]
      BY <1>2, <2>1, <3>1 DEF StoredInv, Answered, Stored
    <3>2. CASE n \notin calls[e] /\ n.ans = "ok"
      <4>1. PICK c \in calls[e] : n = Reply(c) /\ Serve(c)
        BY <1>2, <3>2, NewCalls DEF NewCall
      <4>2. c \in Call
        BY <1>2 DEF Typed, RestTyped
      <4>. QED  BY <1>2, <4>1, <4>2, OkIsStored DEF StoredInv
    <3>3. CASE n.ans # "ok"
      BY <3>3 DEF Answered
    <3>. QED  BY <3>1, <3>2, <3>3
  <2>. QED  BY <2>1, <2>2, <2>3 DEF StoredInv
<1>. QED  BY <1>1, <1>2

\* At the start every editor takes the first text for the file's.
LEMMA StoredInit == Init => StoredInv
BY DEF Init, StoredInv, Stored

\* Whatever is lost, late, refused or restored meanwhile, the text an editor
\* takes for the file's is one the hub holds: in the file's history or in a
\* conflict copy.
THEOREM SavesAreStored == Spec => []SavedIsStored
<1>1. Init => StoredInv
  BY StoredInit
<1>2. StoredInv => SavedIsStored
  BY DEF StoredInv, Stored, SavedIsStored
<1>. QED  BY <1>1, <1>2, StoredStep, TypedAlways, PTL DEF Spec

-----------------------------------------------------------------------------
(* Part 3.  Nobody's words are lost.  What a person typed and no store     *)
(* holds is on their surface; and it is in the room, in the edits of a     *)
(* socket that is down, or under way, as soon as the surface may go.       *)

Shown == \A e \in Editors : Mounted(e) => mine[e] \subseteq text[e]
Unstored == \A e \in Editors : \A t \in Stored : mine[e] \cap t = {}
\* Editors whose socket is up show the room's document.
InStep == \A e \in Editors : live[e] => surf[e] = "room" /\ room.open /\ text[e] = room.doc
Elsewhere ==
    \A e \in Editors :
        /\ surf[e] = "opening" => mine[e] = {}
        /\ surf[e] = "room" => mine[e] \subseteq InRoom \cup away[e].ins
        /\ surf[e] = "closed" => \A p \in mine[e] :
               p \in InRoom \cup away[e].ins \/ \E c \in calls[e] : p \in c.text
\* A closed editor asks nothing; while an answer to the question is carried out
\* it is the only one, and the dialog is busy, or went with its editor.
OneAnswer ==
    \A e \in Editors :
        /\ surf[e] = "closed" => ask[e] = "no"
        /\ \A c \in calls[e] :
             /\ c.op \in Reads \ {"head"} => c.text = {}
             /\ c.op \in {"confirm", "keep"} =>
                    /\ ask[e] = "busy" \/ (surf[e] = "closed" /\ mine[e] = {})
                    /\ \A d \in calls[e] : d.op \in {"confirm", "keep"} => d = c
Work == Shown /\ Unstored /\ InStep /\ Elsewhere /\ OneAnswer

\* A step of the hub's stores takes what it stores out of everybody's words.
LEMMA StoringKeeps ==
  ASSUME Typed, Unstored, NEW t, FileBecomes(t) \/ Parked(t) \/ FileKept
  PROVE  /\ Unstored'
         /\ \A e \in Editors : mine'[e] \subseteq mine[e]
         /\ FileBecomes(t) \/ Parked(t) => \A e \in Editors : mine'[e] \cap t = {}
<1>1. \A e \in Editors : mine'[e] = IF FileBecomes(t) \/ Parked(t) THEN mine[e] \ t ELSE mine[e]
  BY DEF Typed, FileTyped, FileBecomes, Parked, FileKept
<1>2. Stored' \subseteq IF FileBecomes(t) \/ Parked(t) THEN Stored \cup {t} ELSE Stored
  BY DEF Stored, FileBecomes, Parked, FileKept
<1>3. Unstored'
  <2>. SUFFICES ASSUME NEW e \in Editors, NEW u \in Stored'  PROVE mine'[e] \cap u = {}
    BY DEF Unstored
  <2>1. CASE u \in Stored
    BY <1>1, <2>1 DEF Unstored
  <2>2. CASE u \notin Stored
    BY <1>1, <1>2, <2>2
  <2>. QED  BY <2>1, <2>2
<1>. QED  BY <1>1, <1>3

\* What a transaction of one editor does to the room, the surfaces and the
\* edits it owes the room.
LEMMA LocalEditEffect ==
  ASSUME Typed, NEW e \in Editors, NEW t \in Texts, LocalEdit(e, t)
  PROVE  /\ room'.open = room.open /\ room'.doc = IF live[e] THEN t ELSE room.doc
         /\ \A f \in Editors :
              /\ text'[f] = IF f = e \/ (live[e] /\ live[f]) THEN t ELSE text[f]
              /\ IF f = e /\ ~live[e] /\ surf[e] # "solo"
                 THEN away'[f].ins = (away[f].ins \cup (t \ text[f])) \ (text[f] \ t)
                 ELSE away'[f] = away[f]
<1>1. CASE live[e]
  <2>1. DocBecomes(room, t, Synced) /\ away' = away
    BY <1>1 DEF LocalEdit
  <2>2. room'.open = room.open /\ room'.doc = t
    BY <2>1 DEF DocBecomes, Typed, SurfaceTyped, Rooms
  <2>3. \A f \in Editors : text'[f] = IF live[f] THEN t ELSE text[f]
    BY <2>1 DEF DocBecomes, Synced, Typed, SurfaceTyped
  <2>. QED  BY <1>1, <2>1, <2>2, <2>3
<1>2. CASE ~live[e]
  BY <1>2 DEF LocalEdit, Typed, SurfaceTyped
<1>. QED  BY <1>1, <1>2

\* A transaction keeps everybody's words where it takes out of them, for all
\* that see it, what it takes out of the text.
LEMMA EditKeeps ==
  ASSUME Typed, Work, NEW e \in Editors, NEW t \in Texts, LocalEdit(e, t),
         UNCHANGED <<surf, live>>,
         \A f \in Editors : surf[f] = "closed" =>
             \A c \in calls[f] : c.text # {} => c \in calls'[f],
         \A f \in Editors : mine'[f] \subseteq
             IF f = e \/ live[e] THEN mine[f] \ (text[e] \ t) ELSE mine[f]
  PROVE  Shown' /\ InStep' /\ Elsewhere'
<1>1. Shown'
  <2>. SUFFICES ASSUME NEW f \in Editors, Mounted(f)  PROVE mine'[f] \subseteq text'[f]
    BY DEF Shown, Mounted
  <2>1. mine[f] \subseteq text[f]
    BY DEF Work, Shown
  <2>2. CASE f = e
    BY <2>1, <2>2, LocalEditEffect
  <2>3. CASE f # e /\ live[e] /\ live[f]
    <3>1. text[f] = text[e]
      BY <2>3 DEF Work, InStep
    <3>. QED  BY <2>1, <2>3, <3>1, LocalEditEffect
  <2>4. CASE f # e /\ ~(live[e] /\ live[f])
    BY <2>1, <2>4, LocalEditEffect
  <2>. QED  BY <2>2, <2>3, <2>4
<1>2. InStep'
  BY LocalEditEffect DEF Work, InStep
<1>3. Elsewhere'
  <2>. SUFFICES ASSUME NEW f \in Editors, NEW p \in mine'[f], surf[f] # "solo"
                PROVE  /\ surf[f] # "opening"
                       /\ \/ p \in InRoom' \cup away'[f].ins
                          \/ surf[f] = "closed" /\ \E c \in calls'[f] : p \in c.text
    BY DEF Elsewhere, Typed, RestTyped
  <2>1. p \in mine[f] /\ (f = e \/ live[e] => p \notin text[e] \ t)
    OBVIOUS
  <2>2. /\ surf[f] # "opening"
        /\ \/ p \in InRoom \cup away[f].ins
           \/ surf[f] = "closed" /\ \E c \in calls[f] : p \in c.text
    BY <2>1 DEF Work, Elsewhere, Typed, RestTyped
  <2>3. p \in InRoom => p \in InRoom'
    <3>1. live[e] => room.open /\ text[e] = room.doc
      BY DEF Work, InStep
    <3>. QED  BY <2>1, <3>1, LocalEditEffect DEF InRoom
  <2>4. p \in away[f].ins => p \in away'[f].ins
    BY <2>1, LocalEditEffect
  <2>. QED  BY <2>2, <2>3, <2>4
<1>. QED  BY <1>1, <1>2, <1>3

\* A step that leaves surfaces and sockets alone keeps everybody's words if it
\* keeps the room's document open and, of a closed editor, what is under way.
LEMMA QuietKeeps ==
  ASSUME Work, UNCHANGED <<surf, live, text, away>>,
         room'.doc = room.doc, room.open => room'.open,
         \A e \in Editors : mine'[e] \subseteq mine[e],
         \A e \in Editors : surf[e] = "closed" => \A p \in mine'[e] : \A c \in calls[e] :
             p \in c.text => \E d \in calls'[e] : p \in d.text
  PROVE  Shown' /\ InStep' /\ Elsewhere'
<1>1. Shown' /\ InStep'
  BY DEF Work, Shown, InStep, Mounted
<1>2. InRoom \subseteq InRoom'
  BY DEF InRoom
<1>3. Elsewhere'
  BY <1>2 DEF Work, Elsewhere
<1>. QED  BY <1>1, <1>3

\* Words that no store holds are not stored by taking less of them.
LEMMA UnstoredShrinks ==
  ASSUME Unstored, UNCHANGED <<versions, copies>>,
         \A e \in Editors : mine'[e] \subseteq mine[e]
  PROVE  Unstored'
BY DEF Unstored, Stored

\* The room's writes: what goes with the room has been stored.
LEMMA RoomKeepsWork ==
  ASSUME Typed, StoredInv, Work, RoomPauses \/ RoomEmpties
  PROVE  Work'
<1>1. PICK final \in BOOLEAN : Snapshot(final) /\ (final => Synced = {})
  BY DEF RoomPauses, RoomEmpties
<1>2. room'.doc = room.doc /\ room'.open = ~final
  <2>. DEFINE kept == [room EXCEPT !.armed = FALSE, !.open = ~final]
  <2>1. kept \in Rooms /\ head \in Texts /\ room.doc \in Texts
        /\ kept.doc = room.doc /\ kept.open = ~final
        /\ [kept EXCEPT !.base = head].doc = room.doc /\ [kept EXCEPT !.base = head].open = ~final
    BY DEF Typed, FileTyped, SurfaceTyped, Rooms
  <2>2. room' \in {kept, [kept EXCEPT !.base = head], Based(kept, head), Based(kept, room.doc)}
    BY <1>1 DEF Snapshot
  <2>. HIDE DEF kept
  <2>3. ASSUME NEW t \in Texts
        PROVE  Based(kept, t).doc = kept.doc /\ Based(kept, t).open = kept.open
    BY <2>1, BasedTyped
  <2>. QED  BY <2>1, <2>2, <2>3
<1>3. Unstored' /\ \A e \in Editors : mine'[e] \subseteq mine[e]
  <2>1. \E t : FileBecomes(t) \/ Parked(t) \/ FileKept
    BY <1>1 DEF Snapshot
  <2>. QED  BY <2>1, StoringKeeps DEF Work
<1>4. ASSUME final, NEW e \in Editors
      PROVE  mine'[e] \cap room.doc = {}
  <2>1. CASE room.doc = head
    BY <1>3, <2>1 DEF Work, Unstored, Stored, StoredInv
  <2>2. CASE room.doc # head
    <3>1. FileBecomes(room.doc) \/ Parked(room.doc)
      BY <1>1, <1>4, <2>2 DEF Snapshot
    <3>. QED  BY <3>1, StoringKeeps DEF Work
  <2>. QED  BY <2>1, <2>2
<1>5. UNCHANGED <<surf, live, text, away, calls, ask>>
  BY DEF RoomPauses, RoomEmpties
<1>6. Shown' /\ InStep' /\ Elsewhere'
  <2>1. CASE ~final
    BY <1>2, <1>3, <1>5, <2>1, QuietKeeps
  <2>2. CASE final
    <3>1. \A e \in Editors : ~live[e]
      BY <1>1, <2>2 DEF Synced
    <3>2. InRoom \subseteq room.doc
      BY DEF InRoom
    <3>3. Shown' /\ InStep'
      BY <1>3, <1>5, <3>1 DEF Work, Shown, InStep, Mounted
    <3>4. Elsewhere'
      BY <1>3, <1>4, <1>5, <2>2, <3>2 DEF Work, Elsewhere
    <3>. QED  BY <3>3, <3>4
  <2>. QED  BY <2>1, <2>2
<1>7. OneAnswer'
  BY <1>3, <1>5 DEF Work, OneAnswer
<1>. QED  BY <1>3, <1>6, <1>7 DEF Work

\* Sockets.
LEMMA SocketKeepsWork ==
  ASSUME Typed, StoredInv, Work, NEW e \in Editors, Join(e) \/ GoSolo(e) \/ Drop(e)
  PROVE  Work'
<1>1. Unstored'
  BY UnstoredShrinks DEF Work, Join, GoSolo, Drop, hubVars, histVars
<1>2. OneAnswer'
  BY DEF Work, OneAnswer, Join, GoSolo, Drop, Mount, histVars, Typed, RestTyped
<1>3. CASE Join(e)
  <2>1. /\ room'.open /\ room'.doc = RoomAsServed.doc
        /\ \A f \in Editors : text'[f] = IF live[f] \/ f = e THEN RoomAsServed.doc ELSE text[f]
        /\ room.open => RoomAsServed.doc = room.doc
    <3>1. RoomAsServed \in Rooms /\ RoomAsServed.open
      BY RoomAsServedTyped DEF Typed, RoomAsServed
    <3>. QED  BY <1>3, <3>1 DEF Join, DocBecomes, RoomAsServed, Synced, Rooms, Typed, SurfaceTyped
  <2>2. /\ \A f \in Editors : surf'[f] = IF f = e THEN "room" ELSE surf[f]
        /\ \A f \in Editors : live'[f] = IF f = e THEN TRUE ELSE live[f]
        /\ mine[e] = {} /\ UNCHANGED <<mine, away, calls>>
    BY <1>3 DEF Join, Mount, Work, Elsewhere, Typed, RestTyped
  <2>3. InRoom \subseteq InRoom'
    BY <2>1 DEF InRoom
  <2>4. Shown' /\ InStep'
    BY <2>1, <2>2 DEF Work, Shown, InStep, Mounted
  <2>5. Elsewhere'
    BY <2>2, <2>3 DEF Work, Elsewhere
  <2>. QED  BY <1>1, <1>2, <2>4, <2>5 DEF Work
<1>4. CASE GoSolo(e)
  <2>1. /\ \A f \in Editors : surf'[f] = IF f = e THEN "solo" ELSE surf[f]
        /\ \A f \in Editors : f # e => text'[f] = text[f]
        /\ mine[e] = {} /\ surf[e] = "opening" /\ UNCHANGED <<live, mine, away, calls, room>>
    BY <1>4 DEF GoSolo, Mount, Work, Elsewhere, Typed, RestTyped, SurfaceTyped, hubVars, histVars
  <2>2. Shown' /\ InStep'
    BY <2>1 DEF Work, Shown, InStep, Mounted
  <2>3. Elsewhere'
    BY <2>1 DEF Work, Elsewhere, InRoom
  <2>. QED  BY <1>1, <1>2, <2>2, <2>3 DEF Work
<1>5. CASE Drop(e)
  <2>1. Shown' /\ InStep' /\ Elsewhere'
    BY <1>5 DEF Drop, Work, Shown, InStep, Elsewhere, InRoom, Mounted, hubVars, histVars, Typed, RestTyped
  <2>. QED  BY <1>1, <1>2, <2>1 DEF Work
<1>. QED  BY <1>3, <1>4, <1>5

\* A socket that is up again: the room gets what its editor did meanwhile.
LEMMA RejoinKeepsWork ==
  ASSUME Typed, Work, NEW e \in Editors, Rejoin(e)
  PROVE  Work'
<1>. DEFINE doc == (RoomAsServed.doc \cup away[e].ins) \ away[e].del
<1>1. /\ room'.open /\ room'.doc = doc
      /\ \A f \in Editors : text'[f] = IF live[f] \/ f = e THEN doc ELSE text[f]
      /\ room.open => RoomAsServed.doc = room.doc
  <2>1. RoomAsServed \in Rooms /\ RoomAsServed.open
    BY RoomAsServedTyped DEF Typed, RoomAsServed
  <2>. QED  BY <2>1 DEF Rejoin, DocBecomes, RoomAsServed, Synced, Rooms, Typed, SurfaceTyped
<1>2. /\ surf[e] = "room" /\ UNCHANGED <<surf, calls, ask, versions, copies>>
      /\ \A f \in Editors : live'[f] = IF f = e THEN TRUE ELSE live[f]
      /\ \A f \in Editors : mine'[f] = mine[f] \ away[e].del
      /\ \A f \in Editors : f # e => away'[f] = away[f]
  BY DEF Rejoin, Typed, FileTyped, SurfaceTyped, RestTyped
<1>3. InRoom \ away[e].del \subseteq InRoom' /\ away[e].ins \ away[e].del \subseteq InRoom'
  BY <1>1 DEF InRoom
<1>4. Unstored' /\ OneAnswer'
  BY <1>2, UnstoredShrinks DEF Work, OneAnswer
<1>. HIDE DEF doc
<1>5. InStep'
  BY <1>1, <1>2 DEF Work, InStep
<1>6. Elsewhere'
  <2>. SUFFICES ASSUME NEW f \in Editors, NEW p \in mine'[f], surf[f] # "solo"
                PROVE  /\ surf[f] # "opening"
                       /\ \/ p \in InRoom' \cup away'[f].ins
                          \/ surf[f] = "closed" /\ \E c \in calls[f] : p \in c.text
    BY <1>2 DEF Elsewhere, Typed, RestTyped
  <2>1. /\ surf[f] # "opening"
        /\ \/ p \in InRoom \cup away[f].ins
           \/ surf[f] = "closed" /\ \E c \in calls[f] : p \in c.text
    BY <1>2 DEF Work, Elsewhere, Typed, RestTyped
  <2>. QED  BY <1>2, <1>3, <2>1
<1>7. Shown'
  <2>. SUFFICES ASSUME NEW f \in Editors, Mounted(f)  PROVE mine'[f] \subseteq text'[f]
    BY <1>2 DEF Shown, Mounted
  <2>1. CASE f = e
    <3>1. mine[f] \subseteq InRoom \cup away[f].ins
      BY <1>2, <2>1 DEF Work, Elsewhere
    <3>2. mine'[f] \subseteq InRoom'
      BY <1>2, <1>3, <2>1, <3>1
    <3>. QED  BY <1>1, <2>1, <3>2 DEF InRoom
  <2>2. CASE f # e /\ live[f]
    <3>1. text[f] \subseteq InRoom
      BY <2>2 DEF Work, InStep, InRoom
    <3>2. mine'[f] \subseteq InRoom'
      BY <1>2, <1>3, <3>1 DEF Work, Shown
    <3>. QED  BY <1>1, <2>2, <3>2 DEF InRoom
  <2>3. CASE f # e /\ ~live[f]
    BY <1>1, <1>2, <2>3 DEF Work, Shown
  <2>. QED  BY <2>1, <2>2, <2>3
<1>. QED  BY <1>4, <1>5, <1>6, <1>7 DEF Work

\* Typing.
LEMMA TypeKeepsWork ==
  ASSUME Typed, Work, NEW e \in Editors, NEW p \in Paras, Type(e, p)
  PROVE  Work'
<1>. DEFINE t == IF p \in text[e] THEN text[e] \ {p} ELSE text[e] \cup {p}
<1>1. LocalEdit(e, t) /\ t \in Texts /\ Mounted(e)
  BY DEF Type, Typed, SurfaceTyped, Texts
<1>2. UNCHANGED <<surf, live, calls, ask, versions, copies>>
  BY DEF Type
<1>3. /\ p \in t => \A f \in Editors :
           mine'[f] = IF f = e THEN mine[f] \cup ({p} \ UNION Stored) ELSE mine[f]
      /\ p \notin t => \A f \in Editors :
           mine'[f] = IF f = e \/ live[e] THEN mine[f] \ {p} ELSE mine[f]
  BY DEF Type, Stored, Typed, FileTyped
<1>4. Unstored'
  BY <1>2, <1>3 DEF Work, Unstored, Stored
<1>5. OneAnswer'
  <2>1. \A f \in Editors : surf[f] = "closed" => mine'[f] \subseteq mine[f]
    BY <1>1, <1>3 DEF Mounted
  <2>. QED  BY <1>2, <2>1 DEF Work, OneAnswer
<1>6. CASE p \notin t
  <2>1. text[e] \ t \subseteq {p}
    OBVIOUS
  <2>2. \A f \in Editors : mine'[f] \subseteq
             IF f = e \/ live[e] THEN mine[f] \ (text[e] \ t) ELSE mine[f]
    BY <1>3, <1>6, <2>1
  <2>. HIDE DEF t
  <2>3. Shown' /\ InStep' /\ Elsewhere'
    BY <1>1, <1>2, <2>2, EditKeeps
  <2>. QED  BY <1>4, <1>5, <2>3 DEF Work
<1>7. CASE p \in t
  <2>1. text[e] \subseteq t /\ p \in t
    BY <1>7
  <2>2. surf[e] # "closed" /\ surf[e] # "opening"
    BY <1>1 DEF Mounted
  <2>. HIDE DEF t
  <2>3. Shown'
    <3>. SUFFICES ASSUME NEW f \in Editors, Mounted(f)  PROVE mine'[f] \subseteq text'[f]
      BY <1>2 DEF Shown, Mounted
    <3>1. text[f] \subseteq text'[f] /\ (f = e => p \in text'[f])
      <4>1. f # e /\ live[e] /\ live[f] => text[f] = text[e]
        BY DEF Work, InStep
      <4>. QED  BY <1>1, <2>1, <4>1, LocalEditEffect
    <3>2. mine[f] \subseteq text[f]
      BY <1>2 DEF Work, Shown, Mounted
    <3>. QED  BY <1>3, <1>7, <3>1, <3>2
  <2>4. InStep'
    BY <1>1, <1>2, LocalEditEffect DEF Work, InStep
  <2>5. InRoom \subseteq InRoom' /\ \A f \in Editors : surf[f] # "solo" => away[f].ins \subseteq away'[f].ins
    <3>1. live[e] => room.open /\ text[e] = room.doc
      BY DEF Work, InStep
    <3>. QED  BY <1>1, <2>1, <3>1, LocalEditEffect DEF InRoom
  <2>6. surf[e] = "room" => p \in InRoom' \/ p \in away'[e].ins
    <3>1. live[e] => room.open /\ text[e] = room.doc
      BY DEF Work, InStep
    <3>2. ~live[e] /\ p \notin text[e] => p \in away'[e].ins \/ surf[e] = "solo"
      BY <1>1, <2>1, LocalEditEffect
    <3>3. p \notin text[e]
      BY <1>7 DEF t, Typed, SurfaceTyped, Texts
    <3>. QED  BY <1>1, <2>1, <3>1, <3>2, <3>3, LocalEditEffect DEF InRoom
  <2>7. Elsewhere'
    BY <1>2, <1>3, <1>7, <2>2, <2>5, <2>6 DEF Work, Elsewhere
  <2>. QED  BY <1>4, <1>5, <2>3, <2>4, <2>7 DEF Work
<1>. QED  BY <1>6, <1>7

\* A timer, a question or its answer: nobody's words move.
LEMMA AskKeepsWork ==
  ASSUME Typed, Work, NEW e \in Editors,
         IdleSave(e) \/ WatchShrink(e) \/ Confirm(e) \/ Keep(e)
  PROVE  Work'
<1>1. UNCHANGED <<surf, live, text, away, room, mine, versions, copies>>
  BY DEF IdleSave, WatchShrink, Confirm, Keep, hubVars, histVars
<1>2. \A f \in Editors : calls[f] \subseteq calls'[f]
  BY DEF IdleSave, WatchShrink, Confirm, Keep, Save, Typed, RestTyped
<1>3. Shown' /\ InStep' /\ Elsewhere' /\ Unstored'
  BY <1>1, <1>2, QuietKeeps, UnstoredShrinks DEF Work
<1>4. OneAnswer'
  <2>1. CASE IdleSave(e)
    <3>1. Request("put", text[e], base[e]).op = "put" /\ "put" \notin Reads
      BY DEF Request, Reads
    <3>2. \A f \in Editors : calls'[f] \subseteq calls[f] \cup {Request("put", text[e], base[e])}
      BY <2>1 DEF IdleSave, Save, Typed, RestTyped
    <3>3. ask' = ask
      BY <2>1 DEF IdleSave
    <3>. QED  BY <1>1, <3>1, <3>2, <3>3 DEF Work, OneAnswer
  <2>2. CASE WatchShrink(e)
    <3>1. calls' = calls /\ surf[e] = "room"
      BY <2>2 DEF WatchShrink
    <3>2. \A f \in Editors : ask'[f] = IF f = e /\ ask[e] = "no" /\ ask' # ask THEN "open" ELSE ask[f]
      BY <2>2 DEF WatchShrink, AskShrink, Typed, RestTyped
    <3>. QED  BY <1>1, <3>1, <3>2 DEF Work, OneAnswer
  <2>3. CASE Confirm(e) \/ Keep(e)
    <3>1. PICK op \in {"confirm", "keep"}, u \in {text[e], {}} :
            /\ calls' = [calls EXCEPT ![e] = @ \cup {Request(op, u, base[e])}]
            /\ op = "keep" => u = {}
      BY <2>3 DEF Confirm, Keep
    <3>2. Request(op, u, base[e]).op = op /\ Request(op, u, base[e]).text = u
      BY DEF Request
    <3>3. ask[e] = "open" /\ ask' = [ask EXCEPT ![e] = "busy"]
      BY <2>3 DEF Confirm, Keep, Answering
    <3>4. surf[e] # "closed" /\ \A c \in calls[e] : c.op \notin {"confirm", "keep"}
      BY <3>3 DEF Work, OneAnswer
    <3>5. /\ \A f \in Editors : f # e => calls'[f] = calls[f] /\ ask'[f] = ask[f]
          /\ calls'[e] = calls[e] \cup {Request(op, u, base[e])} /\ ask'[e] = "busy"
      BY <3>1, <3>3 DEF Typed, RestTyped
    <3>. QED  BY <1>1, <3>1, <3>2, <3>4, <3>5 DEF Work, OneAnswer, Reads
  <2>. QED  BY <2>1, <2>2, <2>3
<1>. QED  BY <1>3, <1>4 DEF Work

\* Closing: what no store holds leaves in a save, or is the room's already.
LEMMA CloseKeepsWork ==
  ASSUME Typed, StoredInv, Work, NEW e \in Editors, Close(e)
  PROVE  Work'
<1>1. /\ UNCHANGED <<room, text, away, versions, copies>>
      /\ \A f \in Editors : surf'[f] = IF f = e THEN "closed" ELSE surf[f]
      /\ \A f \in Editors : live'[f] = IF f = e THEN FALSE ELSE live[f]
      /\ \A f \in Editors : ask'[f] = IF f = e THEN "no" ELSE ask[f]
      /\ \A f \in Editors : mine'[f] = IF f = e /\ ask[e] # "no" THEN {} ELSE mine[f]
  BY DEF Close, hubVars, Typed, FileTyped, RestTyped
<1>2. /\ Request("put", text[e], base[e]).op = "put" /\ "put" \notin Reads
      /\ Request("put", text[e], base[e]).text = text[e]
  BY DEF Request, Reads
<1>3. \A f \in Editors : /\ calls[f] \subseteq calls'[f]
                         /\ calls'[f] \subseteq calls[f] \cup {Request("put", text[e], base[e])}
  BY DEF Close, Save, Typed, RestTyped
<1>4. Unstored' /\ Shown' /\ InStep'
  BY <1>1, UnstoredShrinks DEF Work, Shown, InStep, Mounted
<1>5. OneAnswer'
  BY <1>1, <1>2, <1>3 DEF Work, OneAnswer
<1>6. ASSUME ask[e] = "no", surf[e] = "solo", NEW p \in mine[e]
      PROVE  \E c \in calls'[e] : p \in c.text
  <2>1. p \in text[e] /\ saved[e] \in Stored
    BY <1>6 DEF Work, Shown, Mounted, StoredInv
  <2>2. p \notin saved[e]
    BY <2>1 DEF Work, Unstored
  <2>3. Save(e, text[e])
    BY <1>6, <2>1, <2>2 DEF Close
  <2>4. \E c \in calls'[e] : c.text = text[e]
    BY <1>2, <2>1, <2>2, <2>3 DEF Save, InFlight, Typed, RestTyped
  <2>. QED  BY <2>1, <2>4
<1>7. Elsewhere'
  BY <1>1, <1>3, <1>6 DEF Work, Elsewhere, InRoom, Typed, RestTyped
<1>. QED  BY <1>4, <1>5, <1>7 DEF Work

\* The hub's answers and the file's other writers.
LEMMA AnswerKeepsWork ==
  ASSUME Typed, Work, NEW e \in Editors, NEW c \in calls[e], Answer(e, c) \/ Lose(e, c)
  PROVE  Work'
<1>1. c \in Call
  BY DEF Typed, RestTyped
<1>2. PICK n : Becomes(e, c, {n}) /\ n.op = c.op /\ n.text = c.text
  <2>1. /\ Reply(c).op = c.op /\ Reply(c).text = c.text
        /\ [c EXCEPT !.ans = "fail"].op = c.op /\ [c EXCEPT !.ans = "fail"].text = c.text
    BY <1>1 DEF Reply, Call
  <2>. QED  BY <2>1 DEF Answer, Lose
<1>3. \A f \in Editors : calls'[f] = IF f = e THEN (calls[f] \ {c}) \cup {n} ELSE calls[f]
  BY <1>2 DEF Becomes, Typed, RestTyped
<1>4. Serve(c) \/ (FileKept /\ UNCHANGED room)
  BY DEF Answer, Lose
<1>5. Unstored' /\ \A f \in Editors : mine'[f] \subseteq mine[f]
  <2>1. \E t : FileBecomes(t) \/ Parked(t) \/ FileKept
    BY <1>4 DEF Serve
  <2>. QED  BY <2>1, StoringKeeps DEF Work
<1>6. room'.doc = room.doc /\ room'.open = room.open
  <2>1. room' = room \/ room' = Based(room, c.text)
    BY <1>4 DEF Serve
  <2>2. room \in Rooms /\ c.text \in Texts
    BY DEF Typed, SurfaceTyped, RestTyped, Call
  <2>3. Based(room, c.text).doc = room.doc /\ Based(room, c.text).open = room.open
    BY <2>2, BasedTyped
  <2>. QED  BY <2>1, <2>3
<1>7. UNCHANGED <<surf, live, text, away, ask>>
  BY DEF Answer, Lose
<1>8. Shown' /\ InStep' /\ Elsewhere'
  BY <1>2, <1>3, <1>5, <1>6, <1>7, QuietKeeps
<1>9. OneAnswer'
  <2>. SUFFICES ASSUME NEW f \in Editors, NEW d \in calls'[f]
                PROVE  /\ d.op \in Reads \ {"head"} => d.text = {}
                       /\ d.op \in {"confirm", "keep"} =>
                            /\ ask[f] = "busy" \/ (surf[f] = "closed" /\ mine'[f] = {})
                            /\ \A b \in calls'[f] : b.op \in {"confirm", "keep"} => b = d
    BY <1>7 DEF Work, OneAnswer
  <2>. DEFINE was(b) == IF f = e /\ b = n THEN c ELSE b
  <2>1. \A b \in calls'[f] : was(b) \in calls[f] /\ was(b).op = b.op /\ was(b).text = b.text
    BY <1>2, <1>3
  <2>2. \A b \in calls'[f] : was(b) = was(d) => b = d
    BY <1>3
  <2>. HIDE DEF was
  <2>3. mine[f] = {} => mine'[f] = {}
    BY <1>5
  <2>. QED  BY <2>1, <2>2, <2>3 DEF Work, OneAnswer
<1>. QED  BY <1>5, <1>8, <1>9 DEF Work

\* A write from outside stores words or leaves them alone.
LEMMA OutsideKeepsWork ==
  ASSUME Typed, Work, NEW t \in Texts, Outside(t)
  PROVE  Work'
<1>1. Unstored' /\ \A f \in Editors : mine'[f] \subseteq mine[f]
  BY StoringKeeps DEF Work, Outside
<1>2. room'.doc = room.doc /\ room'.open = room.open
  <2>1. room' \in {room, Based(room, t)}
    BY DEF Outside
  <2>. QED  BY <2>1, BasedTyped DEF Typed, SurfaceTyped
<1>3. UNCHANGED <<surf, live, text, away, ask, calls>>
  BY DEF Outside
<1>4. Shown' /\ InStep' /\ Elsewhere'
  BY <1>1, <1>2, <1>3, QuietKeeps
<1>5. OneAnswer'
  BY <1>1, <1>3 DEF Work, OneAnswer
<1>. QED  BY <1>1, <1>4, <1>5 DEF Work

\* A restore takes from everybody what it takes out of the room's document.
LEMMA RestoreKeepsWork ==
  ASSUME Typed, Work, NEW e \in Editors, NEW t \in versions, Restore(e, t)
  PROVE  Work'
<1>. DEFINE req == Request(IF room.open THEN "folded" ELSE "restored", {}, base[e])
<1>1. /\ UNCHANGED <<surf, live, away, ask, versions, copies>>
      /\ \A f \in Editors : calls'[f] = IF f = e THEN calls[f] \cup {req} ELSE calls[f]
      /\ \A f \in Editors :
           mine'[f] = IF room.open THEN mine[f] \ (room.doc \ t) ELSE mine[f]
  BY DEF Restore, Typed, FileTyped, RestTyped
<1>2. req.op \in Reads \ {"head"} /\ req.op \notin {"confirm", "keep"} /\ req.text = {}
  BY DEF Request, Reads
<1>. HIDE DEF req
<1>3. Unstored'
  BY <1>1, UnstoredShrinks DEF Work
<1>4. OneAnswer'
  <2>. SUFFICES ASSUME NEW f \in Editors, NEW d \in calls'[f]
                PROVE  /\ d.op \in Reads \ {"head"} => d.text = {}
                       /\ d.op \in {"confirm", "keep"} =>
                            /\ ask[f] = "busy" \/ (surf[f] = "closed" /\ mine'[f] = {})
                            /\ \A b \in calls'[f] : b.op \in {"confirm", "keep"} => b = d
    BY <1>1 DEF Work, OneAnswer
  <2>1. mine[f] = {} => mine'[f] = {}
    BY <1>1
  <2>2. d \in calls[f] \/ d = req
    BY <1>1
  <2>3. \A b \in calls'[f] : b.op \in {"confirm", "keep"} => b \in calls[f]
    BY <1>1, <1>2
  <2>. QED  BY <1>2, <2>1, <2>2, <2>3 DEF Work, OneAnswer
<1>5. CASE room.open
  <2>1. /\ room'.open /\ room'.doc = t
        /\ \A f \in Editors : text'[f] = IF live[f] THEN t ELSE text[f]
    <3>1. Based(room, t) \in Rooms /\ Based(room, t).open
      BY <1>5, BasedTyped DEF Typed, FileTyped, SurfaceTyped
    <3>. QED  BY <1>5, <3>1 DEF Restore, DocBecomes, Synced, Typed, SurfaceTyped, Rooms
  <2>2. InRoom = room.doc /\ InRoom' = t
    BY <1>5, <2>1 DEF InRoom
  <2>3. Shown' /\ InStep'
    <3>1. ASSUME NEW f \in Editors, Mounted(f)
          PROVE  mine'[f] \subseteq text'[f]
      <4>1. mine[f] \subseteq text[f] /\ (live[f] => text[f] = room.doc)
        BY <3>1 DEF Work, Shown, InStep
      <4>. QED  BY <1>1, <1>5, <2>1, <4>1
    <3>2. InStep'
      BY <1>1, <2>1 DEF Work, InStep
    <3>. QED  BY <1>1, <3>1, <3>2 DEF Shown, Mounted
  <2>4. Elsewhere'
    <3>. SUFFICES ASSUME NEW f \in Editors, NEW p \in mine'[f], surf[f] # "solo"
                  PROVE  /\ surf[f] # "opening"
                         /\ \/ p \in InRoom' \cup away[f].ins
                            \/ surf[f] = "closed" /\ \E c \in calls'[f] : p \in c.text
      BY <1>1 DEF Elsewhere, Typed, RestTyped
    <3>1. p \in mine[f] /\ (p \in InRoom => p \in InRoom')
      BY <1>1, <1>5, <2>2
    <3>2. /\ surf[f] # "opening"
          /\ \/ p \in InRoom \cup away[f].ins
             \/ surf[f] = "closed" /\ \E c \in calls[f] : p \in c.text
      BY <3>1 DEF Work, Elsewhere, Typed, RestTyped
    <3>3. calls[f] \subseteq calls'[f]
      BY <1>1
    <3>. QED  BY <3>1, <3>2, <3>3
  <2>. QED  BY <1>3, <1>4, <2>3, <2>4 DEF Work
<1>6. CASE ~room.open
  <2>1. UNCHANGED <<room, text>>
    BY <1>6 DEF Restore
  <2>2. Shown' /\ InStep' /\ Elsewhere'
    BY <1>1, <1>6, <2>1, QuietKeeps
  <2>. QED  BY <1>3, <1>4, <2>2 DEF Work
<1>. QED  BY <1>5, <1>6

\* An editor's save goes on, ends or gives up: words leave what is under way
\* only when they are stored, or when nobody is left to hear of them.
LEMMA SaveStepKeepsWork ==
  ASSUME Typed, Work, NEW e \in Editors, NEW c \in calls[e], NEW new, Becomes(e, c, new),
         SaveOnly, \A n \in new : n.op \in SaveOps /\ n.text = c.text,
         \A f \in Editors : mine'[f] \subseteq mine[f],
         surf[e] = "closed" => new # {} \/ mine'[e] \cap c.text = {},
         \/ UNCHANGED ask
         \/ AskShrink(e)
         \/ c.op \in {"confirm", "keep"} /\ ask' = [ask EXCEPT ![e] = "no"]
  PROVE  Work'
<1>1. UNCHANGED <<surf, live, text, away, room, versions, copies>>
  BY DEF SaveOnly, hubVars
<1>2. \A f \in Editors : calls'[f] = IF f = e THEN (calls[f] \ {c}) \cup new ELSE calls[f]
  BY DEF Becomes, Typed, RestTyped
<1>3. Unstored'
  BY <1>1, UnstoredShrinks DEF Work
<1>4. Shown' /\ InStep' /\ Elsewhere'
  <2>1. ASSUME NEW f \in Editors, surf[f] = "closed", NEW p \in mine'[f],
               NEW d \in calls[f], p \in d.text
        PROVE  \E b \in calls'[f] : p \in b.text
    <3>1. CASE f = e /\ d = c
      BY <1>2, <2>1, <3>1
    <3>2. CASE ~(f = e /\ d = c)
      BY <1>2, <2>1, <3>2
    <3>. QED  BY <3>1, <3>2
  <2>2. /\ \A f \in Editors : mine'[f] \subseteq mine[f]
        /\ room'.doc = room.doc /\ (room.open => room'.open)
    BY <1>1
  <2>. QED  BY <1>1, <2>1, <2>2, QuietKeeps
<1>5. OneAnswer'
  <2>1. \A f \in Editors : \A d \in calls'[f] : d \in calls[f] \/ d.op \in SaveOps
    BY <1>2
  <2>2. \A d : d.op \in SaveOps => d.op \notin {"confirm", "keep"} /\ d.op \notin Reads \ {"head"}
    BY DEF SaveOps, Reads
  <2>3. CASE UNCHANGED ask
    BY <1>1, <2>1, <2>2, <2>3 DEF Work, OneAnswer
  <2>4. CASE AskShrink(e) /\ ~UNCHANGED ask
    <3>1. ask[e] = "no" /\ surf[e] # "closed" /\ \A f \in Editors : f # e => ask'[f] = ask[f]
      BY <2>4 DEF AskShrink, Typed, RestTyped
    <3>. QED  BY <1>1, <2>1, <2>2, <3>1 DEF Work, OneAnswer
  <2>5. CASE c.op \in {"confirm", "keep"} /\ ask' = [ask EXCEPT ![e] = "no"]
    <3>1. \A f \in Editors : ask'[f] = IF f = e THEN "no" ELSE ask[f]
      BY <2>5 DEF Typed, RestTyped
    <3>2. \A d \in calls'[e] : d.op \notin {"confirm", "keep"}
      BY <1>2, <2>1, <2>2, <2>5 DEF Work, OneAnswer
    <3>. QED  BY <1>1, <2>1, <2>2, <3>1, <3>2 DEF Work, OneAnswer
  <2>. QED  BY <2>3, <2>4, <2>5
<1>. QED  BY <1>3, <1>4, <1>5 DEF Work

\* The words of an accepted save are stored; so are those of a save that finds
\* the file ahead of it.
LEMMA StoredLeavesNothing ==
  ASSUME Unstored, NEW e \in Editors, NEW t, NEW u \in Stored, t = u \/ textEdit(t, u) = {}
  PROVE  mine[e] \cap t = {}
<1>1. mine[e] \cap u = {}
  BY DEF Unstored
<1>2. t \subseteq u
  <2>1. textEdit(t, u) = {} => t \subseteq u
    BY DEF textEdit
  <2>. QED  BY <2>1
<1>. QED  BY <1>1, <1>2

\* What becomes of an answered save, whatever the answer.
LEMMA SaveDoneKeepsWork ==
  ASSUME Typed, StoredInv, Work, NEW e \in Editors, NEW c \in calls[e],
         \/ PutDone(e, c) \/ HeadDone(e, c) \/ ReputDone(e, c)
         \/ CopyDone(e, c) \/ ConfirmDone(e, c)
  PROVE  Work'
<1>1. Unstored /\ Answered(c) /\ SaveOnly
  BY DEF Work, StoredInv, PutDone, HeadDone, ReputDone, CopyDone, ConfirmDone
<1>2. ASSUME NEW failed, GivesUp(e, failed)
      PROVE  /\ \A f \in Editors : mine'[f] \subseteq mine[f]
             /\ failed /\ surf[e] = "closed" => mine'[e] = {}
  BY <1>2 DEF GivesUp, Typed, FileTyped
<1>3. ASSUME NEW op \in SaveOps, NEW b, NEW theirs, GoesOn(e, c, op, b, theirs)
      PROVE  \E n : Becomes(e, c, {n}) /\ n.op \in SaveOps /\ n.text = c.text
  <2>. DEFINE n == [Request(op, c.text, b) EXCEPT !.theirs = theirs]
  <2>1. n.op = op /\ n.text = c.text
    BY DEF Request
  <2>2. Becomes(e, c, {n})
    BY <1>3 DEF GoesOn
  <2>. QED  BY <2>1, <2>2
<1>4. CASE PutDone(e, c)
  <2>1. \A f \in Editors : mine'[f] \subseteq mine[f]
    BY <1>2, <1>4 DEF PutDone
  <2>2. CASE c.ans = "ok"
    <3>1. mine[e] \cap c.text = {}
      BY <1>1, <1>4, <2>2, StoredLeavesNothing DEF Answered, Puts, PutDone
    <3>. QED  BY <1>1, <1>4, <2>1, <2>2, <3>1, SaveStepKeepsWork DEF PutDone
  <2>3. CASE c.ans \in {"shrink", "fail"}
    <3>1. surf[e] = "closed" => mine'[e] = {}
      BY <1>2, <1>4, <2>3 DEF PutDone
    <3>2. Becomes(e, c, {}) /\ (UNCHANGED ask \/ AskShrink(e))
      BY <1>4, <2>3 DEF PutDone
    <3>. QED  BY <1>1, <2>1, <3>1, <3>2, SaveStepKeepsWork
  <2>4. CASE c.ans = "conflict"
    <3>1. GoesOn(e, c, "head", {}, c.got) /\ UNCHANGED ask
      BY <1>4, <2>4 DEF PutDone
    <3>2. PICK n : Becomes(e, c, {n}) /\ n.op \in SaveOps /\ n.text = c.text
      BY <1>3, <3>1 DEF SaveOps
    <3>. QED  BY <1>1, <2>1, <3>1, <3>2, SaveStepKeepsWork
  <2>. QED  BY <1>4, <2>2, <2>3, <2>4 DEF PutDone
<1>5. CASE HeadDone(e, c)
  <2>1. UNCHANGED <<ask, mine>>
    BY <1>5 DEF HeadDone
  <2>2. CASE c.ans = "ok" /\ textEdit(c.text, c.got) = {} /\ Becomes(e, c, {})
    <3>1. mine[e] \cap c.text = {}
      BY <1>1, <1>5, <2>2, StoredLeavesNothing DEF Answered, Puts, HeadDone
    <3>. QED  BY <1>1, <2>1, <2>2, <3>1, SaveStepKeepsWork
  <2>3. CASE GoesOn(e, c, "reput", c.got, c.theirs) \/ GoesOn(e, c, "copy", {}, c.theirs)
    <3>1. PICK n : Becomes(e, c, {n}) /\ n.op \in SaveOps /\ n.text = c.text
      BY <1>3, <2>3 DEF SaveOps
    <3>. QED  BY <1>1, <2>1, <3>1, SaveStepKeepsWork
  <2>. QED  BY <1>5, <2>2, <2>3 DEF HeadDone
<1>6. CASE ReputDone(e, c)
  <2>1. UNCHANGED <<ask, mine>>
    BY <1>6 DEF ReputDone
  <2>2. CASE c.ans = "ok"
    <3>1. mine[e] \cap c.text = {}
      BY <1>1, <1>6, <2>2, StoredLeavesNothing DEF Answered, Puts, ReputDone
    <3>2. Becomes(e, c, {})
      BY <1>6, <2>2 DEF ReputDone
    <3>. QED  BY <1>1, <2>1, <3>1, <3>2, SaveStepKeepsWork
  <2>3. CASE c.ans # "ok"
    <3>1. GoesOn(e, c, "copy", {}, c.theirs)
      BY <1>6, <2>3 DEF ReputDone
    <3>2. PICK n : Becomes(e, c, {n}) /\ n.op \in SaveOps /\ n.text = c.text
      BY <1>3, <3>1 DEF SaveOps
    <3>. QED  BY <1>1, <2>1, <3>2, SaveStepKeepsWork
  <2>. QED  BY <2>2, <2>3
<1>7. CASE CopyDone(e, c)
  <2>1. UNCHANGED ask /\ Becomes(e, c, {}) /\ \A f \in Editors : mine'[f] \subseteq mine[f]
    BY <1>2, <1>7 DEF CopyDone
  <2>2. surf[e] = "closed" => mine'[e] \cap c.text = {}
    <3>1. CASE c.ans = "ok"
      <4>1. mine[e] \cap c.text = {}
        BY <1>1, <1>7, <3>1, StoredLeavesNothing DEF Answered, CopyDone
      <4>. QED  BY <2>1, <4>1
    <3>2. CASE c.ans = "fail"
      BY <1>2, <1>7, <3>2 DEF CopyDone
    <3>. QED  BY <1>7, <3>1, <3>2 DEF CopyDone
  <2>. QED  BY <1>1, <2>1, <2>2, SaveStepKeepsWork
<1>8. CASE ConfirmDone(e, c)
  <2>1. /\ Becomes(e, c, {}) /\ UNCHANGED mine
        /\ c.op \in {"confirm", "keep"} /\ ask' = [ask EXCEPT ![e] = "no"]
    BY <1>8 DEF ConfirmDone
  <2>2. surf[e] = "closed" => mine[e] = {}
    <3>1. surf[e] = "closed" => ask[e] = "no"
      BY DEF Work, OneAnswer
    <3>. QED  BY <2>1, <3>1 DEF Work, OneAnswer
  <2>3. /\ \A f \in Editors : mine'[f] \subseteq mine[f]
        /\ surf[e] = "closed" => mine'[e] \cap c.text = {}
    BY <2>1, <2>2
  <2>4. /\ Becomes(e, c, {}) /\ SaveOnly
        /\ \/ UNCHANGED ask
           \/ AskShrink(e)
           \/ c.op \in {"confirm", "keep"} /\ ask' = [ask EXCEPT ![e] = "no"]
    BY <1>1, <2>1
  <2>. QED  BY <2>3, <2>4, SaveStepKeepsWork
<1>. QED  BY <1>4, <1>5, <1>6, <1>7, <1>8

\* "Keep saved version": the person takes the words out, for all that see them.
LEMMA KeepDoneKeepsWork ==
  ASSUME Typed, StoredInv, Work, NEW e \in Editors, NEW c \in calls[e], KeepDone(e, c)
  PROVE  Work'
<1>1. c.op = "keep" /\ c.text = {} /\ UNCHANGED <<surf, live, versions, copies>>
  BY DEF KeepDone, Work, OneAnswer, Reads
<1>2. /\ \A f \in Editors : calls'[f] = IF f = e THEN calls[f] \ {c} ELSE calls[f]
      /\ \A f \in Editors : ask'[f] = IF f = e THEN "no" ELSE ask[f]
  BY DEF KeepDone, Becomes, Typed, RestTyped
<1>3. \/ SurfaceKept /\ UNCHANGED mine
      \/ /\ LocalEdit(e, c.got) /\ c.got \in Texts
         /\ \A f \in Editors : mine'[f] =
              IF f = e \/ live[e] THEN mine[f] \ (text[e] \ c.got) ELSE mine[f]
  <2>1. c \in Call
    BY DEF Typed, RestTyped
  <2>. QED  BY <2>1 DEF KeepDone, Call
<1>4. \A f \in Editors : mine'[f] \subseteq mine[f]
  BY <1>3
<1>5. Unstored'
  BY <1>1, <1>4, UnstoredShrinks DEF Work
<1>6. OneAnswer'
  <2>1. \A d \in calls'[e] : d.op \notin {"confirm", "keep"}
    BY <1>1, <1>2 DEF Work, OneAnswer
  <2>2. \A f \in Editors : mine[f] = {} => mine'[f] = {}
    BY <1>4
  <2>. QED  BY <1>1, <1>2, <2>1, <2>2 DEF Work, OneAnswer
<1>7. \A f \in Editors : \A b \in calls[f] : b.text # {} => b \in calls'[f]
  BY <1>1, <1>2
<1>8. CASE SurfaceKept /\ UNCHANGED mine
  <2>1. UNCHANGED <<text, away, room>>
    BY <1>8 DEF SurfaceKept
  <2>2. Shown' /\ InStep' /\ Elsewhere'
    BY <1>1, <1>4, <1>7, <2>1, QuietKeeps
  <2>. QED  BY <1>5, <1>6, <2>2 DEF Work
<1>9. CASE LocalEdit(e, c.got) /\ c.got \in Texts /\ ~UNCHANGED mine
  <2>1. \A f \in Editors : mine'[f] \subseteq
             IF f = e \/ live[e] THEN mine[f] \ (text[e] \ c.got) ELSE mine[f]
    BY <1>3, <1>9
  <2>2. Shown' /\ InStep' /\ Elsewhere'
    BY <1>1, <1>7, <1>9, <2>1, EditKeeps
  <2>. QED  BY <1>5, <1>6, <2>2 DEF Work
<1>10. CASE LocalEdit(e, c.got) /\ c.got \in Texts /\ UNCHANGED mine /\ ~SurfaceKept
  <2>1. \A f \in Editors : mine'[f] \subseteq
             IF f = e \/ live[e] THEN mine[f] \ (text[e] \ c.got) ELSE mine[f]
    BY <1>3, <1>10
  <2>2. Shown' /\ InStep' /\ Elsewhere'
    BY <1>1, <1>7, <1>10, <2>1, EditKeeps
  <2>. QED  BY <1>5, <1>6, <2>2 DEF Work
<1>. QED  BY <1>3, <1>8, <1>9, <1>10

\* Another writer's text replaces the surface only where nothing on it is
\* unsaved, so it takes nobody's words.
LEMMA MergeKeepsWork ==
  ASSUME Typed, StoredInv, Work, NEW e \in Editors, NEW next \in Texts,
         SurfaceKept \/ Merge(e, next),
         UNCHANGED <<versions, copies, surf, live, mine, ask>>,
         \A f \in Editors : calls'[f] \subseteq calls[f],
         \A f \in Editors : \A b \in calls[f] : b.text # {} => b \in calls'[f]
  PROVE  Work'
<1>1. Unstored' /\ OneAnswer'
  BY UnstoredShrinks DEF Work, OneAnswer
<1>2. SurfaceKept \/ (LocalEdit(e, next) /\ text[e] = saved[e])
  BY DEF Merge, Blocked
<1>3. CASE SurfaceKept
  <2>1. UNCHANGED <<text, away, room>>
    BY <1>3 DEF SurfaceKept
  <2>2. \A f \in Editors : mine'[f] \subseteq mine[f]
    OBVIOUS
  <2>3. Shown' /\ InStep' /\ Elsewhere'
    BY <2>1, <2>2, QuietKeeps
  <2>. QED  BY <1>1, <2>3 DEF Work
<1>4. CASE LocalEdit(e, next) /\ text[e] = saved[e]
  <2>1. \A f \in Editors : mine[f] \cap text[e] = {}
    BY <1>4 DEF Work, Unstored, StoredInv
  <2>2. \A f \in Editors : mine'[f] \subseteq
             IF f = e \/ live[e] THEN mine[f] \ (text[e] \ next) ELSE mine[f]
    BY <2>1
  <2>3. Shown' /\ InStep' /\ Elsewhere'
    BY <1>4, <2>2, EditKeeps
  <2>. QED  BY <1>1, <2>3 DEF Work
<1>. QED  BY <1>2, <1>3, <1>4

\* The page's own reads, and a restore's, keep everybody's words.
LEMMA PageKeepsWork ==
  ASSUME Typed, StoredInv, Work, NEW e \in Editors,
         Deliver(e) \/ Refetch(e) \/ \E c \in calls[e] : RestoreDone(e, c)
  PROVE  Work'
<1>1. CASE Deliver(e)
  <2>1. PICK initial \in wire[e] :
          SurfaceKept \/ Merge(e, initial) \/ (~Mounted(e) /\ Seeds(e, initial))
    BY <1>1 DEF Deliver
  <2>2. initial \in Texts
    BY <2>1 DEF Typed, RestTyped
  <2>3. UNCHANGED <<versions, copies, surf, live, mine, ask, calls>>
    BY <1>1 DEF Deliver, MergeOnly
  <2>4. CASE ~Mounted(e) /\ Seeds(e, initial)
    <3>1. UNCHANGED <<room, away>> /\ \A f \in Editors : Mounted(f) => text'[f] = text[f]
      BY <2>4 DEF Seeds, Typed, SurfaceTyped
    <3>2. \A f \in Editors : live[f] => Mounted(f)
      BY DEF Work, InStep, Mounted
    <3>. QED  BY <2>3, <3>1, <3>2
              DEF Work, Shown, Unstored, Stored, InStep, Elsewhere, InRoom, OneAnswer, Mounted
  <2>. QED  BY <2>1, <2>2, <2>3, <2>4, MergeKeepsWork
<1>2. CASE Refetch(e)
  <2>1. UNCHANGED <<versions, copies, room, surf, live, text, away, mine, ask, calls>>
    BY <1>2 DEF Refetch, hubVars, histVars
  <2>. QED  BY <2>1 DEF Work, Shown, Unstored, Stored, InStep, Elsewhere, InRoom, OneAnswer, Mounted
<1>3. ASSUME NEW c \in calls[e], RestoreDone(e, c)
      PROVE  Work'
  <2>1. c.got \in Texts
    BY DEF Typed, RestTyped, Call
  <2>2. c.text = {} /\ (SurfaceKept \/ Merge(e, c.got))
    BY <1>3 DEF RestoreDone, Work, OneAnswer, Reads
  <2>3. \A f \in Editors : calls'[f] = IF f = e THEN calls[f] \ {c} ELSE calls[f]
    BY <1>3 DEF RestoreDone, Becomes, Typed, RestTyped
  <2>4. UNCHANGED <<versions, copies, surf, live, mine, ask>>
    BY <1>3 DEF RestoreDone, MergeOnly
  <2>. QED  BY <2>1, <2>2, <2>3, <2>4, MergeKeepsWork
<1>. QED  BY <1>1, <1>2, <1>3

\* Every step keeps everybody's words.
LEMMA WorkStep == Typed /\ StoredInv /\ Work /\ [Next]_vars => Work'
<1>1. CASE UNCHANGED vars
  BY <1>1 DEF Work, Shown, Unstored, Stored, InStep, Elsewhere, InRoom, OneAnswer, Mounted, vars
<1>2. ASSUME Typed, StoredInv, Work, NEW e \in Editors,
             Join(e) \/ GoSolo(e) \/ Drop(e) \/ Rejoin(e) \/ Close(e)
      PROVE  Work'
  BY <1>2, SocketKeepsWork, RejoinKeepsWork, CloseKeepsWork
<1>3. ASSUME Typed, StoredInv, Work, NEW e \in Editors,
             \/ \E p \in Paras : Type(e, p)
             \/ IdleSave(e) \/ WatchShrink(e) \/ Confirm(e) \/ Keep(e)
             \/ \E t \in versions : Restore(e, t)
      PROVE  Work'
  BY <1>3, TypeKeepsWork, AskKeepsWork, RestoreKeepsWork
<1>4. ASSUME Typed, StoredInv, Work, NEW e \in Editors, NEW c \in calls[e],
             Answer(e, c) \/ Lose(e, c) \/ Done(e, c)
      PROVE  Work'
  <2>1. CASE Answer(e, c) \/ Lose(e, c)
    BY <1>4, <2>1, AnswerKeepsWork
  <2>2. CASE KeepDone(e, c) \/ RestoreDone(e, c)
    BY <1>4, <2>2, KeepDoneKeepsWork, PageKeepsWork
  <2>3. CASE \/ PutDone(e, c) \/ HeadDone(e, c) \/ ReputDone(e, c)
             \/ CopyDone(e, c) \/ ConfirmDone(e, c)
    BY <1>4, <2>3, SaveDoneKeepsWork
  <2>. QED  BY <1>4, <2>1, <2>2, <2>3 DEF Done
<1>5. ASSUME Typed, StoredInv, Work, Next
      PROVE  Work'
  <2>1. ASSUME NEW e \in Editors, Refetch(e) \/ Deliver(e)
        PROVE  Work'
    BY <1>5, <2>1, PageKeepsWork
  <2>2. RoomPauses \/ RoomEmpties => Work'
    BY <1>5, RoomKeepsWork
  <2>3. (\E t \in Texts : Outside(t)) => Work'
    BY <1>5, OutsideKeepsWork
  <2>. QED  BY <1>2, <1>3, <1>4, <1>5, <2>1, <2>2, <2>3 DEF Next
<1>. QED  BY <1>1, <1>5

\* Nothing a person typed is lost: as long as no store of the hub holds it, it
\* is on their surface, and after closing in a save under way, in the room or
\* in what an offline tab still owes the room - for any number of editors,
\* writers, refused saves, lost answers and dropped sockets.
THEOREM WordsAreKept == Spec => []WorkKept
<1>1. Init => Work
  BY DEF Init, Work, Shown, Unstored, InStep, Elsewhere, OneAnswer, Mounted
<1>2. Work => WorkKept
  <2>. SUFFICES ASSUME Work, NEW e \in Editors
                PROVE  /\ Mounted(e) => mine[e] \subseteq text[e]
                       /\ surf[e] = "closed" =>
                            mine[e] \subseteq UnderWay(e) \cup InRoom \cup away[e].ins
    BY DEF WorkKept
  <2>1. \A p : (\E c \in calls[e] : p \in c.text) => p \in UnderWay(e)
    BY DEF UnderWay
  <2>. QED  BY <2>1 DEF Work, Shown, Elsewhere
<1>. QED  BY <1>1, <1>2, WorkStep, StoredStep, StoredInit, TypedAlways, PTL DEF Spec

-----------------------------------------------------------------------------
(* Part 4.  What a save may erase.  If-Match makes a save replace the       *)
(* version it names and no other; so it is enough that every version an     *)
(* editor ever names is one it knows.                                       *)

Fine(e, c) ==
    /\ c.text \subseteq had[e]
    /\ c.op \in Puts => c.base \subseteq KnownToEditor(e)
    /\ c.op \in Puts /\ c.ans = "ok" => c.got = c.text
Seen(e) == text[e] \subseteq had[e]
Vouched(e) == saved[e] \subseteq KnownToEditor(e) /\ base[e] \subseteq KnownToEditor(e)
KnownInv == \A e \in Editors : Seen(e) /\ Vouched(e) /\ \A c \in calls[e] : Fine(e, c)

Grows == \A e \in Editors :
    had[e] \subseteq had'[e] /\ yielded[e] \subseteq yielded'[e] /\ blind[e] \subseteq blind'[e]

\* What an editor knows it never forgets.
LEMMA KnownKept ==
  ASSUME KnownInv, Grows, \A e \in Editors : Seen(e)', \A e \in Editors : Vouched(e)',
         \A e \in Editors : \A c \in calls'[e] \ calls[e] : Fine(e, c)'
  PROVE  KnownInv'
<1>1. \A e \in Editors : had[e] \subseteq had'[e] /\ KnownToEditor(e) \subseteq KnownToEditor(e)'
  BY DEF Grows, KnownToEditor
<1>2. ASSUME NEW e \in Editors, NEW c \in calls[e]
      PROVE  Fine(e, c)'
  BY <1>1 DEF KnownInv, Fine
<1>. QED  BY <1>2 DEF KnownInv

\* Whatever reaches a surface is remembered.
LEMMA SurfaceSeen ==
  ASSUME Typed, KnownInv, NEW e \in Editors, NEW t, NEW r, NEW on,
         \/ SurfaceKept \/ UNCHANGED <<text, had>> \/ LocalEdit(e, t) \/ DocBecomes(r, t, on)
         \/ text' = [text EXCEPT ![e] = t] /\ had' = [had EXCEPT ![e] = @ \cup t],
         UNCHANGED <<yielded, blind>> \/ \A f \in Editors :
            yielded[f] \subseteq yielded'[f] /\ blind[f] \subseteq blind'[f]
  PROVE  /\ Grows /\ \A f \in Editors : Seen(f)'
         /\ LocalEdit(e, t) => t \subseteq had'[e]
<1>1. ASSUME NEW q, NEW d, NEW now, DocBecomes(q, d, now), NEW f \in Editors
      PROVE  had[f] \subseteq had'[f] /\ (f \in now => d \subseteq had'[f])
             /\ (text[f] \subseteq had[f] => text'[f] \subseteq had'[f])
  BY <1>1 DEF DocBecomes
<1>2. ASSUME text' = [text EXCEPT ![e] = t], had' = [had EXCEPT ![e] = @ \cup t], NEW f \in Editors
      PROVE  had[f] \subseteq had'[f] /\ t \subseteq had'[e]
             /\ (text[f] \subseteq had[f] => text'[f] \subseteq had'[f])
  BY <1>2 DEF Typed, SurfaceTyped
<1>3. UNCHANGED <<text, had>> \/ (\E q, d, now : DocBecomes(q, d, now))
      \/ (text' = [text EXCEPT ![e] = t] /\ had' = [had EXCEPT ![e] = @ \cup t])
  BY DEF SurfaceKept, LocalEdit
<1>4. \A f \in Editors : had[f] \subseteq had'[f] /\ (text[f] \subseteq had[f] => text'[f] \subseteq had'[f])
  BY <1>1, <1>2, <1>3
<1>5. LocalEdit(e, t) => t \subseteq had'[e]
  <2>1. CASE live[e] /\ LocalEdit(e, t)
    BY <1>1, <2>1 DEF LocalEdit, Synced
  <2>2. CASE ~live[e] /\ LocalEdit(e, t)
    BY <1>2, <2>2 DEF LocalEdit
  <2>. QED  BY <2>1, <2>2
<1>. QED  BY <1>4, <1>5 DEF Grows, Seen, KnownInv

\* A text that holds another: what Contains asks.
LEMMA ContainsMeans ==
  ASSUME NEW t, NEW u
  PROVE  /\ Contains(t, u) => u \subseteq t
         /\ textEdit(t, u) = {} => t \subseteq u
<1>1. ASSUME NEW a, NEW b, textEdit(a, b) = {}
      PROVE  a \subseteq b
  BY <1>1 DEF textEdit
<1>. QED  BY <1>1 DEF Contains

\* Steps that move neither an editor's requests nor what it takes for the file.
LEMMA SurfaceKeepsKnown ==
  ASSUME Typed, KnownInv, UNCHANGED <<saved, base, calls, yielded, blind>>,
         NEW e \in Editors,
         \/ Join(e) \/ GoSolo(e) \/ Drop(e) \/ Rejoin(e) \/ WatchShrink(e) \/ Refetch(e)
         \/ \E p \in Paras : Type(e, p)
         \/ RoomPauses \/ RoomEmpties \/ \E t \in Texts : Outside(t)
  PROVE  KnownInv'
<1>1. \/ UNCHANGED <<text, had>>
      \/ \E t : LocalEdit(e, t)
      \/ \E r, t, on : DocBecomes(r, t, on)
      \/ \E t : text' = [text EXCEPT ![e] = t] /\ had' = [had EXCEPT ![e] = @ \cup t]
  BY DEF Join, GoSolo, Drop, Rejoin, WatchShrink, Refetch, Type, RoomPauses, RoomEmpties, Outside,
         histVars
<1>2. Grows /\ \A f \in Editors : Seen(f)'
  BY <1>1, SurfaceSeen
<1>3. \A f \in Editors : Vouched(f)'
  BY <1>2 DEF KnownInv, Vouched, Grows, KnownToEditor
<1>. QED  BY <1>2, <1>3, KnownKept

\* A request is made on the version the editor takes for the file's.
LEMMA AskingKeepsKnown ==
  ASSUME Typed, KnownInv, NEW e \in Editors,
         \/ IdleSave(e) \/ Confirm(e) \/ Keep(e) \/ Close(e) \/ \E t \in versions : Restore(e, t)
  PROVE  KnownInv'
<1>1. UNCHANGED <<saved, base, yielded, blind>>
  BY DEF IdleSave, Confirm, Keep, Close, Restore, histVars, saveVars
<1>2. UNCHANGED <<text, had>> \/ \E r, t, on : DocBecomes(r, t, on)
  BY DEF IdleSave, Confirm, Keep, Close, Restore, histVars
<1>3. Grows /\ \A f \in Editors : Seen(f)'
  BY <1>1, <1>2, SurfaceSeen
<1>4. \A f \in Editors : Vouched(f)'
  BY <1>1, <1>3 DEF KnownInv, Vouched, Grows, KnownToEditor
<1>5. PICK n : /\ \A f \in Editors : \A m \in calls'[f] \ calls[f] : f = e /\ m = n
               /\ n.text \subseteq had[e] /\ n.base \subseteq KnownToEditor(e) /\ n.ans = "none"
  <2>1. ASSUME NEW op, NEW u \in {text[e], {}}
        PROVE  /\ Request(op, u, base[e]).text \subseteq had[e]
               /\ Request(op, u, base[e]).base \subseteq KnownToEditor(e)
               /\ Request(op, u, base[e]).ans = "none"
    BY DEF Request, KnownInv, Seen, Vouched
  <2>2. ASSUME NEW op, NEW u \in {text[e], {}},
               \/ UNCHANGED calls
               \/ calls' = [calls EXCEPT ![e] = @ \cup {Request(op, u, base[e])}]
        PROVE  \A f \in Editors : \A m \in calls'[f] \ calls[f] : f = e /\ m = Request(op, u, base[e])
    BY <2>2 DEF Typed, RestTyped
  <2>3. CASE IdleSave(e) \/ Close(e)
    <3>1. UNCHANGED calls \/ calls' = [calls EXCEPT ![e] = @ \cup {Request("put", text[e], base[e])}]
      BY <2>3 DEF IdleSave, Close, Save
    <3>. QED  BY <2>1, <2>2, <3>1
  <2>4. CASE Confirm(e)
    <3>1. calls' = [calls EXCEPT ![e] = @ \cup {Request("confirm", text[e], base[e])}]
      BY <2>4 DEF Confirm
    <3>. QED  BY <2>1, <2>2, <3>1
  <2>5. CASE Keep(e)
    <3>1. calls' = [calls EXCEPT ![e] = @ \cup {Request("keep", {}, base[e])}]
      BY <2>5 DEF Keep
    <3>. QED  BY <2>1, <2>2, <3>1
  <2>6. CASE \E t \in versions : Restore(e, t)
    <3>1. PICK op : calls' = [calls EXCEPT ![e] = @ \cup {Request(op, {}, base[e])}]
      BY <2>6 DEF Restore
    <3>. QED  BY <2>1, <2>2, <3>1
  <2>. QED  BY <2>3, <2>4, <2>5, <2>6
<1>6. n.text \subseteq had'[e] /\ n.base \subseteq KnownToEditor(e)'
  BY <1>3, <1>5 DEF Grows, KnownToEditor
<1>7. \A f \in Editors : \A m \in calls'[f] \ calls[f] : Fine(f, m)'
  BY <1>5, <1>6 DEF Fine
<1>. QED  BY <1>3, <1>4, <1>7, KnownKept

\* The hub's answer to a request is about that request.
LEMMA AnswerKeepsKnown ==
  ASSUME Typed, KnownInv, NEW e \in Editors, NEW c \in calls[e], Answer(e, c) \/ Lose(e, c)
  PROVE  KnownInv'
<1>1. UNCHANGED <<saved, base, text, had, yielded, blind>>
  BY DEF Answer, Lose, saveVars
<1>2. Grows /\ (\A f \in Editors : Seen(f)') /\ \A f \in Editors : Vouched(f)'
  BY <1>1 DEF Grows, KnownInv, Seen, Vouched, KnownToEditor
<1>3. c \in Call
  BY DEF Typed, RestTyped
<1>4. PICK n : /\ \A f \in Editors : \A m \in calls'[f] \ calls[f] : f = e /\ m = n
               /\ n.op = c.op /\ n.text = c.text /\ n.base = c.base
               /\ n.op \in Puts /\ n.ans = "ok" => n.got = n.text
  <2>1. CASE Answer(e, c)
    <3>1. \A f \in Editors : \A m \in calls'[f] \ calls[f] : f = e /\ m = Reply(c)
      BY <2>1 DEF Answer, Becomes, Typed, RestTyped
    <3>2. /\ Reply(c).op = c.op /\ Reply(c).text = c.text /\ Reply(c).base = c.base
          /\ c.op \in Puts /\ Reply(c).ans = "ok" => Reply(c).got = c.text
      BY <1>3 DEF Reply, Call
    <3>. QED  BY <3>1, <3>2
  <2>2. CASE Lose(e, c)
    <3>. DEFINE n == [c EXCEPT !.ans = "fail"]
    <3>1. \A f \in Editors : \A m \in calls'[f] \ calls[f] : f = e /\ m = n
      BY <2>2 DEF Lose, Becomes, Typed, RestTyped
    <3>2. n.op = c.op /\ n.text = c.text /\ n.base = c.base /\ n.ans # "ok"
      BY <1>3 DEF Call
    <3>. HIDE DEF n
    <3>. QED  BY <3>1, <3>2
  <2>. QED  BY <2>1, <2>2
<1>5. n.text \subseteq had'[e] /\ (n.op \in Puts => n.base \subseteq KnownToEditor(e)')
  <2>1. Fine(e, c)
    BY DEF KnownInv
  <2>. QED  BY <1>1, <1>4, <2>1 DEF Fine, KnownToEditor
<1>6. \A f \in Editors : \A m \in calls'[f] \ calls[f] : Fine(f, m)'
  BY <1>4, <1>5 DEF Fine
<1>. QED  BY <1>2, <1>6, KnownKept

\* A save that ends, or goes on against a version its text contains.
LEMMA SaveDoneKeepsKnown ==
  ASSUME Typed, KnownInv, NEW e \in Editors, NEW c \in calls[e],
         \/ PutDone(e, c) \/ HeadDone(e, c) \/ ReputDone(e, c)
         \/ CopyDone(e, c) \/ ConfirmDone(e, c)
  PROVE  KnownInv'
<1>1. UNCHANGED <<text, had>>
  BY DEF PutDone, HeadDone, ReputDone, CopyDone, ConfirmDone, SaveOnly
<1>2. /\ \A f \in Editors : f # e => /\ saved'[f] = saved[f] /\ base'[f] = base[f]
                                     /\ yielded'[f] = yielded[f] /\ blind'[f] = blind[f]
      /\ yielded[e] \subseteq yielded'[e] /\ blind[e] \subseteq blind'[e]
  <2>1. UNCHANGED yielded \/ yielded' = [yielded EXCEPT ![e] = @ \cup c.theirs]
    BY DEF PutDone, HeadDone, ReputDone, CopyDone, ConfirmDone
  <2>2. UNCHANGED blind \/ blind' = [blind EXCEPT ![e] = @ \cup c.got]
    BY DEF PutDone, HeadDone, ReputDone, CopyDone, ConfirmDone
  <2>3. UNCHANGED saved \/ (\E t : saved' = [saved EXCEPT ![e] = t])
    BY DEF PutDone, HeadDone, ReputDone, CopyDone, ConfirmDone, Landed, Failed, GoesOn
  <2>4. UNCHANGED base \/ (\E t : base' = [base EXCEPT ![e] = t])
    BY DEF PutDone, HeadDone, ReputDone, CopyDone, ConfirmDone, Landed, Failed, GoesOn
  <2>. QED  BY <2>1, <2>2, <2>3, <2>4 DEF Typed, RestTyped, SaveTyped
<1>3. Grows /\ \A f \in Editors : Seen(f)'
  BY <1>1, <1>2 DEF Grows, KnownInv, Seen
<1>4. Fine(e, c)
  BY DEF KnownInv
<1>5. Vouched(e)'
  <2>1. ASSUME c.op \in Puts, c.ans = "ok", Landed(e, c.text, c.got)
        PROVE  Vouched(e)'
    <3>1. saved'[e] = c.text /\ base'[e] = c.text /\ c.text \subseteq had[e]
      BY <1>4, <2>1 DEF Fine, Landed, Typed, SaveTyped
    <3>. QED  BY <1>1, <3>1 DEF Vouched, KnownToEditor
  <2>2. ASSUME UNCHANGED <<saved, base>>
        PROVE  Vouched(e)'
    BY <1>3, <2>2 DEF KnownInv, Vouched, Grows, KnownToEditor
  <2>3. CASE PutDone(e, c)
    BY <2>1, <2>2, <2>3 DEF PutDone, Failed, GoesOn, Puts
  <2>4. CASE HeadDone(e, c)
    <3>1. CASE Landed(e, c.got, c.got) /\ blind' = [blind EXCEPT ![e] = @ \cup c.got]
      <4>1. saved'[e] = c.got /\ base'[e] = c.got /\ c.got \subseteq blind'[e]
        BY <3>1 DEF Landed, Typed, SaveTyped, RestTyped
      <4>. QED  BY <4>1 DEF Vouched, KnownToEditor
    <3>2. CASE UNCHANGED saved /\ base' = [base EXCEPT ![e] = c.got] /\ Contains(c.text, c.got)
      <4>1. base'[e] = c.got /\ c.got \subseteq had[e] /\ saved'[e] = saved[e]
        BY <1>4, <3>2, ContainsMeans DEF Fine, Typed, SaveTyped
      <4>2. saved[e] \subseteq KnownToEditor(e)
        BY DEF KnownInv, Vouched
      <4>. QED  BY <1>3, <4>1, <4>2 DEF Vouched, KnownToEditor, Grows
    <3>3. CASE UNCHANGED <<saved, base>>
      BY <2>2, <3>3
    <3>. QED  BY <2>4, <3>1, <3>2, <3>3 DEF HeadDone, GoesOn
  <2>5. CASE ReputDone(e, c)
    BY <2>1, <2>2, <2>5 DEF ReputDone, GoesOn, Puts
  <2>6. CASE CopyDone(e, c)
    <3>1. CASE Landed(e, c.text, c.theirs) /\ yielded' = [yielded EXCEPT ![e] = @ \cup c.theirs]
      <4>1. /\ saved'[e] = c.text /\ base'[e] = c.theirs /\ c.text \subseteq had'[e]
            /\ c.theirs \subseteq yielded'[e]
        BY <1>1, <1>4, <3>1 DEF Fine, Landed, Typed, SaveTyped, RestTyped
      <4>. QED  BY <4>1 DEF Vouched, KnownToEditor
    <3>. QED  BY <2>2, <2>6, <3>1 DEF CopyDone, Failed
  <2>7. CASE ConfirmDone(e, c)
    BY <2>1, <2>2, <2>7 DEF ConfirmDone, Failed, Puts
  <2>. QED  BY <2>3, <2>4, <2>5, <2>6, <2>7
<1>6. \A f \in Editors : Vouched(f)'
  <2>1. ASSUME NEW f \in Editors, f # e
        PROVE  Vouched(f)'
    BY <1>1, <1>2, <2>1 DEF KnownInv, Vouched, KnownToEditor
  <2>. QED  BY <1>5, <2>1
<1>7. \/ Becomes(e, c, {})
      \/ \E op, b, theirs : GoesOn(e, c, op, b, theirs) /\ (op \in Puts => b \subseteq had[e])
  <2>1. CASE PutDone(e, c)
    BY <2>1 DEF PutDone, Puts
  <2>2. CASE HeadDone(e, c)
    <3>1. Contains(c.text, c.got) => c.got \subseteq had[e]
      BY <1>4, ContainsMeans DEF Fine
    <3>. QED  BY <2>2, <3>1 DEF HeadDone, Puts
  <2>3. CASE ReputDone(e, c)
    BY <2>3 DEF ReputDone, Puts
  <2>4. CASE CopyDone(e, c) \/ ConfirmDone(e, c)
    BY <2>4 DEF CopyDone, ConfirmDone
  <2>. QED  BY <2>1, <2>2, <2>3, <2>4
<1>8. \A f \in Editors : \A m \in calls'[f] \ calls[f] : Fine(f, m)'
  <2>1. CASE Becomes(e, c, {})
    BY <2>1 DEF Becomes, Typed, RestTyped
  <2>2. ASSUME NEW op, NEW b, NEW theirs, GoesOn(e, c, op, b, theirs), op \in Puts => b \subseteq had[e]
        PROVE  \A f \in Editors : \A m \in calls'[f] \ calls[f] : Fine(f, m)'
    <3>1. PICK n : /\ Becomes(e, c, {n}) /\ n.op = op /\ n.text = c.text /\ n.base = b /\ n.ans = "none"
      <4>. DEFINE n == [Request(op, c.text, b) EXCEPT !.theirs = theirs]
      <4>1. n.op = op /\ n.text = c.text /\ n.base = b /\ n.ans = "none"
        BY DEF Request
      <4>. QED  BY <2>2, <4>1 DEF GoesOn
    <3>2. \A f \in Editors : \A m \in calls'[f] \ calls[f] : f = e /\ m = n
      BY <3>1 DEF Becomes, Typed, RestTyped
    <3>3. n.text \subseteq had'[e] /\ (n.op \in Puts => n.base \subseteq KnownToEditor(e)')
      BY <1>1, <1>4, <2>2, <3>1 DEF Fine, KnownToEditor
    <3>. QED  BY <3>1, <3>2, <3>3 DEF Fine
  <2>. QED  BY <1>7, <2>1, <2>2
<1>. QED  BY <1>3, <1>6, <1>8, KnownKept

\* What an answer does to what the editor takes for the file's: nothing, or it
\* adopts a text that it shows, records, held already, or contains.
Offered(e, t) ==
    /\ \/ SurfaceKept \/ LocalEdit(e, t)
       \/ text' = [text EXCEPT ![e] = t] /\ had' = [had EXCEPT ![e] = @ \cup t]
    /\ UNCHANGED saved \/ saved' = [saved EXCEPT ![e] = t]
    /\ UNCHANGED base \/ base' = [base EXCEPT ![e] = t]
    /\ \/ UNCHANGED <<saved, base>>
       \/ LocalEdit(e, t)
       \/ blind' = [blind EXCEPT ![e] = @ \cup t]
       \/ t = saved[e] \/ InFlight(e, t) \/ t \subseteq text[e]
    /\ UNCHANGED yielded
    /\ UNCHANGED blind \/ blind' = [blind EXCEPT ![e] = @ \cup t]

\* Another writer's text: the editor adopts its version when it shows it, or
\* when its own text contains it.
LEMMA PageKeepsKnown ==
  ASSUME Typed, KnownInv, NEW e \in Editors,
         \/ Deliver(e)
         \/ \E c \in calls[e] : KeepDone(e, c) \/ RestoreDone(e, c)
  PROVE  KnownInv'
<1>1. \A f \in Editors : \A m \in calls'[f] \ calls[f] : Fine(f, m)'
  BY DEF Deliver, KeepDone, RestoreDone, Becomes, Typed, RestTyped
<1>2. PICK t : Offered(e, t)
  <2>1. ASSUME NEW t, Merge(e, t)
        PROVE  /\ SurfaceKept \/ LocalEdit(e, t)
               /\ \/ UNCHANGED saved
                  \/ saved' = [saved EXCEPT ![e] = t]
               /\ \/ UNCHANGED base
                  \/ base' = [base EXCEPT ![e] = t]
               /\ \/ UNCHANGED <<saved, base>>
                  \/ LocalEdit(e, t)
                  \/ t = saved[e] \/ InFlight(e, t) \/ t \subseteq text[e]
    <3>1. CASE Known(e, t) /\ base' = [base EXCEPT ![e] = t] /\ UNCHANGED saved /\ SurfaceKept
      BY <3>1 DEF Known
    <3>2. CASE t = text[e] /\ Adopt(e, t) /\ SurfaceKept
      BY <3>2 DEF Adopt
    <3>3. CASE Blocked(e, t)
      <4>1. CASE Contains(text[e], t)
        BY <3>3, <4>1, ContainsMeans DEF Blocked
      <4>2. CASE ~Contains(text[e], t)
        <5>1. UNCHANGED base
          BY <3>3, <4>2 DEF Blocked, Typed, SaveTyped
        <5>. QED  BY <3>3, <5>1 DEF Blocked
      <4>. QED  BY <4>1, <4>2
    <3>4. CASE Adopt(e, t) /\ LocalEdit(e, t)
      BY <3>4 DEF Adopt
    <3>. QED  BY <2>1, <3>1, <3>2, <3>3, <3>4 DEF Merge
  <2>2. CASE Deliver(e)
    <3>1. PICK t : \/ Merge(e, t)
                   \/ UNCHANGED <<saved, base>> /\ (SurfaceKept \/ Seeds(e, t))
      BY <2>2 DEF Deliver, Seeds, saveVars
    <3>2. UNCHANGED <<yielded, blind>>
      BY <2>2 DEF Deliver, MergeOnly
    <3>3. Offered(e, t)
      BY <2>1, <3>1, <3>2 DEF Seeds, Offered
    <3>. QED  BY <3>3
  <2>3. ASSUME NEW c \in calls[e], KeepDone(e, c)
        PROVE  \E t : /\ SurfaceKept \/ LocalEdit(e, t)
                      /\ \/ UNCHANGED <<saved, base>>
                         \/ Landed(e, t, t) /\ LocalEdit(e, t)
                      /\ UNCHANGED <<yielded, blind>>
    BY <2>3 DEF KeepDone, Failed, saveVars
  <2>4. ASSUME NEW c \in calls[e], RestoreDone(e, c)
        PROVE  /\ UNCHANGED yielded
               /\ \/ Merge(e, c.got) /\ UNCHANGED blind
                  \/ /\ SurfaceKept /\ Adopt(e, c.got)
                     /\ blind' = [blind EXCEPT ![e] = @ \cup c.got]
                  \/ SurfaceKept /\ UNCHANGED <<saved, base, blind>>
    BY <2>4 DEF RestoreDone, MergeOnly, saveVars
  <2>5. ASSUME NEW c \in calls[e], KeepDone(e, c) \/ RestoreDone(e, c)
        PROVE  \E t : Offered(e, t)
    <3>1. CASE KeepDone(e, c)
      BY <2>3, <3>1 DEF Landed, Offered
    <3>2. CASE RestoreDone(e, c)
      BY <2>1, <2>4, <3>2 DEF Adopt, Offered
    <3>. QED  BY <2>5, <3>1, <3>2
  <2>. QED  BY <2>2, <2>5
<1>3. \A f \in Editors : yielded[f] \subseteq yielded'[f] /\ blind[f] \subseteq blind'[f]
  BY <1>2 DEF Offered, Typed, RestTyped
<1>4. Grows /\ (\A f \in Editors : Seen(f)') /\ (LocalEdit(e, t) => t \subseteq had'[e])
  BY <1>2, <1>3, SurfaceSeen DEF Offered
<1>5. \A f \in Editors : KnownToEditor(f) \subseteq KnownToEditor(f)'
  BY <1>4 DEF Grows, KnownToEditor
<1>6. UNCHANGED <<saved, base>> \/ t \subseteq KnownToEditor(e)'
  <2>1. CASE blind' = [blind EXCEPT ![e] = @ \cup t]
    BY <2>1 DEF KnownToEditor, Typed, RestTyped
  <2>2. CASE t = saved[e]
    BY <1>5, <2>2 DEF KnownInv, Vouched
  <2>3. CASE InFlight(e, t) \/ t \subseteq text[e]
    <3>1. t \subseteq had[e]
      BY <2>3 DEF InFlight, KnownInv, Fine, Seen
    <3>. QED  BY <1>5, <3>1 DEF KnownToEditor
  <2>4. CASE LocalEdit(e, t)
    BY <1>4, <2>4 DEF KnownToEditor
  <2>. QED  BY <1>2, <2>1, <2>2, <2>3, <2>4 DEF Offered
<1>7. \A f \in Editors : Vouched(f)'
  <2>. SUFFICES ASSUME NEW f \in Editors
                PROVE  saved'[f] \subseteq KnownToEditor(f)' /\ base'[f] \subseteq KnownToEditor(f)'
    BY DEF Vouched
  <2>1. saved[f] \subseteq KnownToEditor(f)' /\ base[f] \subseteq KnownToEditor(f)'
    BY <1>5 DEF KnownInv, Vouched
  <2>2. saved'[f] \in {saved[f]} \cup (IF f = e THEN {t} ELSE {})
        /\ base'[f] \in {base[f]} \cup (IF f = e THEN {t} ELSE {})
    BY <1>2 DEF Offered, Typed, SaveTyped
  <2>. QED  BY <1>6, <2>1, <2>2
<1>. QED  BY <1>1, <1>4, <1>7, KnownKept

\* No step makes an editor name a version it does not know.
LEMMA KnownStep == Typed /\ KnownInv /\ [Next]_vars => KnownInv'
<1>1. CASE UNCHANGED vars
  BY <1>1 DEF KnownInv, Seen, Vouched, Fine, KnownToEditor, vars
<1>2. ASSUME Typed, KnownInv, Next
      PROVE  KnownInv'
  <2>1. ASSUME NEW e \in Editors,
               \/ Join(e) \/ GoSolo(e) \/ Drop(e) \/ Rejoin(e) \/ WatchShrink(e) \/ Refetch(e)
               \/ \E p \in Paras : Type(e, p)
        PROVE  KnownInv'
    <3>1. UNCHANGED <<saved, base, calls, yielded, blind>>
      BY <2>1 DEF Join, GoSolo, Drop, Rejoin, WatchShrink, Refetch, Type, saveVars, histVars
    <3>. QED  BY <1>2, <2>1, <3>1, SurfaceKeepsKnown
  <2>2. CASE RoomPauses \/ RoomEmpties \/ \E t \in Texts : Outside(t)
    <3>1. UNCHANGED <<saved, base, calls, yielded, blind, text, had>>
      BY <2>2 DEF RoomPauses, RoomEmpties, Outside, saveVars
    <3>. QED  BY <1>2, <3>1 DEF KnownInv, Seen, Vouched, Fine, KnownToEditor
  <2>3. ASSUME NEW e \in Editors,
               \/ IdleSave(e) \/ Confirm(e) \/ Keep(e) \/ Close(e) \/ \E t \in versions : Restore(e, t)
        PROVE  KnownInv'
    BY <1>2, <2>3, AskingKeepsKnown
  <2>4. ASSUME NEW e \in Editors,
               Deliver(e) \/ \E c \in calls[e] : Answer(e, c) \/ Lose(e, c) \/ Done(e, c)
        PROVE  KnownInv'
    BY <1>2, <2>4, AnswerKeepsKnown, SaveDoneKeepsKnown, PageKeepsKnown DEF Done
  <2>. QED  BY <1>2, <2>1, <2>2, <2>3, <2>4 DEF Next
<1>. QED  BY <1>1, <1>2

\* A save that replaces the file takes out of it only what its author had on
\* the surface, gave way to in a conflict copy, or recorded as the file's text.
THEOREM SavesEraseTheKnown == Spec => ErasesOnlyKnown
<1>1. Init => KnownInv
  BY DEF Init, KnownInv, Seen, Vouched, KnownToEditor
<1>2. Typed /\ KnownInv /\ [Next]_vars => [Erases(KnownToEditor)]_vars
  <2>. SUFFICES ASSUME Typed, KnownInv, Next, head' # head, calls' # calls, left'.outside = left.outside
                PROVE  \E e \in Editors : \E c \in calls[e] \ calls'[e] :
                          c.text = head' /\ head \ head' \subseteq KnownToEditor(e)
    BY DEF Erases
  <2>. SUFFICES ASSUME NEW e \in Editors, NEW c \in calls[e],
                       Answer(e, c) \/ Lose(e, c), Serve(c)
                PROVE  \E f \in Editors : \E d \in calls[f] \ calls'[f] :
                          d.text = head' /\ head \ head' \subseteq KnownToEditor(f)
    <3>1. ASSUME NEW e \in Editors, NEW c \in calls[e], Done(e, c)
          PROVE  head' = head
      BY <3>1 DEF Done, PutDone, HeadDone, ReputDone, CopyDone, ConfirmDone, KeepDone,
                  RestoreDone, SaveOnly, MergeOnly, hubVars
    <3>2. ASSUME NEW e \in Editors,
                 \/ Join(e) \/ GoSolo(e) \/ Drop(e) \/ Rejoin(e) \/ IdleSave(e)
                 \/ WatchShrink(e) \/ Confirm(e) \/ Keep(e) \/ Close(e) \/ Refetch(e)
                 \/ Deliver(e) \/ \E p \in Paras : Type(e, p)
          PROVE  head' = head
      BY <3>2 DEF Join, GoSolo, Drop, Rejoin, IdleSave, WatchShrink, Confirm, Keep, Close,
                  Refetch, Deliver, Type, MergeOnly, hubVars
    <3>3. ASSUME RoomPauses \/ RoomEmpties \/ \E t \in Texts : Outside(t)
          PROVE  calls' = calls
      BY <3>3 DEF RoomPauses, RoomEmpties, Outside
    <3>4. ASSUME NEW e \in Editors, NEW t \in versions, Restore(e, t)
          PROVE  FALSE
      BY <3>4 DEF Restore, Spend, Typed, RestTyped, Budget
    <3>5. ASSUME NEW e \in Editors, NEW c \in calls[e], Answer(e, c) \/ Lose(e, c)
          PROVE  Serve(c)
      BY <3>5 DEF Answer, Lose, FileKept
    <3>. QED  BY <3>1, <3>2, <3>3, <3>4, <3>5 DEF Next
  <2>2. c.op \in Puts /\ PutAnswer(c) = "ok" /\ c.text # head /\ head' = c.text
    BY DEF Serve, FileBecomes, Parked, FileKept
  <2>3. c.base = head
    BY <2>2 DEF PutAnswer
  <2>4. c \notin calls'[e]
    <3>1. c \in Call /\ c.ans = "none"
      BY DEF Typed, RestTyped, Answer, Lose
    <3>2. Reply(c).ans # "none" /\ [c EXCEPT !.ans = "fail"].ans # "none"
      BY <2>2, <3>1 DEF Reply, Call
    <3>3. PICK n : Becomes(e, c, {n}) /\ n # c
      BY <3>1, <3>2 DEF Answer, Lose
    <3>. QED  BY <3>3 DEF Becomes, Typed, RestTyped
  <2>5. head \subseteq KnownToEditor(e)
    BY <2>2, <2>3 DEF KnownInv, Fine
  <2>. QED  BY <2>2, <2>4, <2>5
<1>. QED  BY <1>1, <1>2, KnownStep, TypedAlways, PTL DEF Spec, ErasesOnlyKnown
=============================================================================
