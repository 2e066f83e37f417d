----------------------------- MODULE SharedFile -----------------------------
(***************************************************************************)
(* One text file of a project open in browser editors, as                  *)
(* lib/sharedfile.ts, lib/collab.ts and components/Editor.tsx run it: the   *)
(* editor either joins the hub's co-editing room (and then only the hub     *)
(* writes the file) or gives up on it and saves by itself under If-Match.   *)
(* Other writers - agents, the CLI, devices - write the same file.          *)
(*                                                                         *)
(* A text is the set of the paragraphs it holds; paragraphs keep one order, *)
(* so a set is one text.  A version's sha is a function of its bytes, so    *)
(* an If-Match names a text.                                               *)
(***************************************************************************)
EXTENDS Integers, FiniteSets, FiniteSetsExt

CONSTANTS
    Editors,      \* browser tabs that have the file open
    Paras,        \* paragraphs that may be in the file
    Bytes,        \* the size of each paragraph
    Floor,        \* SHRINK_RATIO_FLOOR
    Start,        \* the file's first text
    Budgets       \* the instances explored, each with its bounds

ASSUME ParasAssumption == Paras \subseteq Nat
ASSUME StartAssumption == Start \in SUBSET Paras

\* open: the tabs that open the file; reaching, unreached: those whose socket
\* may get through, or may not; the rest bounds what may happen: keystrokes,
\* writes by others and restores, requests or answers the network loses, and
\* live sockets that drop.
Budget == [open : SUBSET Editors, reaching : SUBSET Editors, unreached : SUBSET Editors,
           edits : Nat, outside : Nat, fails : Nat, drops : Nat]

ASSUME BudgetsAssumption == Budgets \subseteq Budget

VARIABLES
    head,     \* the text the hub's file holds
    versions, \* every text the file has held: its history
    copies,   \* the texts of the conflict copies beside it
    room,     \* the hub's room for the file; wrote, the texts its history is stored for
    surf,     \* which surface the editor has mounted
    live,     \* the editor's socket is up and synced
    text,     \* current(): the text on the editor's surface; before there is one, Editor's
              \* seed: the bytes it would mount on by itself
    away,     \* what the editor changed in the room's document while offline
    saved,    \* sharedfile's saved: the text the file was last known to hold
    base,     \* sharedfile's base: the If-Match of the next save
    status,   \* what onState last reported
    idle,     \* the idle timer is armed
    calls,    \* requests of the editor under way, with the save they belong to
    ask,      \* the shrink question
    opened,   \* Editor's opened: the bytes it was mounted with
    prop,     \* the query's data, the `initial` prop
    frame,    \* a change frame has invalidated the query
    wire,     \* the refetch's answer on its way to the page, if there is one
    mine,     \* history: paragraphs typed here that no store holds yet
    had,      \* history: paragraphs this editor ever held in text
    yielded,  \* history: paragraphs of the versions its conflict copies gave way to
    blind,    \* history: paragraphs of versions this editor recorded without showing them
    left      \* what is left of the instance's bounds

hubVars  == <<head, versions, copies, room>>
saveVars == <<saved, base, status>>
pageVars == <<opened, prop, frame, wire>>
histVars == <<mine, had, yielded, blind>>
vars == <<head, versions, copies, room, surf, live, text, away, saved, base,
          status, idle, calls, ask, opened, prop, frame, wire, mine, had,
          yielded, blind, left>>

Texts == SUBSET Paras
Ops == {"put", "head", "reput", "copy", "confirm", "keep", "restored", "folded"}
Answers == {"none", "ok", "conflict", "shrink", "fail"}
\* got is what the answer brought, theirs the version a refusal named.
Call == [op : Ops, text : Texts, base : Texts, theirs : Texts, ans : Answers, got : Texts]
NoEdits == [ins |-> {}, del |-> {}]

-----------------------------------------------------------------------------
(* The two questions the code asks of two texts.                           *)

\* What the smallest single replacement that turns a into b removes of a:
\* everything outside their common front and common back.
textEdit(a, b) ==
    LET Same(p) == (p \in a) = (p \in b)
        Front == {p \in a \cap b : \A q \in a \cup b : q < p => Same(q)}
        Back  == {p \in a \cap b : \A q \in a \cup b : q > p => Same(q)}
    IN a \ (Front \cup Back)

\* "ours contains theirs": turning theirs into ours deletes nothing.
Contains(ours, theirs) == textEdit(theirs, ours) = {}

byteLength(t) == MapThenSumSet(LAMBDA p : Bytes[p], t)

\* The rule for a save that needs the user's word, the same on both sides.
sharpShrink(was, now) ==
    /\ was > 0
    /\ now < was
    /\ now = 0 \/ (was >= Floor /\ now * 5 < was)

Shrinks(was, now) == sharpShrink(byteLength(was), byteLength(now))

-----------------------------------------------------------------------------

Init ==
    /\ left \in Budgets
    /\ head = Start
    /\ versions = {Start}
    /\ copies = {}
    /\ room = [open |-> FALSE, doc |-> {}, base |-> {}, armed |-> FALSE, wrote |-> {}]
    /\ surf = [e \in Editors |-> IF e \in left.open THEN "opening" ELSE "closed"]
    /\ live = [e \in Editors |-> FALSE]
    /\ text = [e \in Editors |-> Start]
    /\ away = [e \in Editors |-> NoEdits]
    /\ saved = [e \in Editors |-> Start]
    /\ base = [e \in Editors |-> Start]
    /\ status = [e \in Editors |-> "clean"]
    /\ idle = [e \in Editors |-> FALSE]
    /\ calls = [e \in Editors |-> {}]
    /\ ask = [e \in Editors |-> "no"]
    /\ opened = [e \in Editors |-> Start]
    /\ prop = [e \in Editors |-> Start]
    /\ frame = [e \in Editors |-> FALSE]
    /\ wire = [e \in Editors |-> {}]
    /\ mine = [e \in Editors |-> {}]
    /\ had = [e \in Editors |-> Start]
    /\ yielded = [e \in Editors |-> {}]
    /\ blind = [e \in Editors |-> {}]

(* Effects several actions share. *)

Spend(what) == left[what] > 0 /\ left' = [left EXCEPT ![what] = @ - 1]

Mounted(e) == surf[e] \in {"room", "solo"}
InFlight(e, t) == \E c \in calls[e] : c.op = "put" /\ c.text = t

Request(op, t, b) ==
    [op |-> op, text |-> t, base |-> b, theirs |-> {}, ans |-> "none", got |-> {}]

\* The file moves to t, and every open page will hear of it.
FileBecomes(t) ==
    /\ head' = t
    /\ versions' = versions \cup {t}
    /\ frame' = [e \in Editors |-> frame[e] \/ (head # t /\ surf[e] # "closed")]
    /\ mine' = [e \in Editors |-> mine[e] \ t]
    /\ UNCHANGED copies

\* t is written beside the file, under a conflict copy's name.
Parked(t) ==
    /\ copies' = copies \cup {t}
    /\ mine' = [e \in Editors |-> mine[e] \ t]
    /\ UNCHANGED <<head, versions, frame>>

FileKept == UNCHANGED <<head, versions, copies, frame, mine>>

\* The document of the room r becomes t, and so does the text of every editor
\* of on, the synced ones.
DocBecomes(r, t, on) ==
    /\ room' = [r EXCEPT !.doc = t, !.armed = @ \/ t # r.doc]
    /\ text' = [e \in Editors |-> IF e \in on THEN t ELSE text[e]]
    /\ had' = [e \in Editors |-> IF e \in on THEN had[e] \cup t ELSE had[e]]

Synced == {e \in Editors : live[e]}

\* A transaction of editor e's own turns its text into t: in the room's
\* document, in this tab's copy of it, or in the solo buffer.
LocalEdit(e, t) ==
    IF live[e] THEN DocBecomes(room, t, Synced) /\ UNCHANGED away
    ELSE /\ text' = [text EXCEPT ![e] = t]
         /\ had' = [had EXCEPT ![e] = @ \cup t]
         /\ LET ins == t \ text[e]
                del == text[e] \ t
            IN away' = IF surf[e] = "solo" THEN away
                       ELSE [away EXCEPT ![e] = [ins |-> (@.ins \cup ins) \ del,
                                                 del |-> (@.del \cup del) \ ins]]
         /\ UNCHANGED room

SurfaceKept == UNCHANGED <<room, text, away, had>>

-----------------------------------------------------------------------------
(* The room and the socket (lib/collab.ts).                                *)

\* A surface is mounted once, and stays what it is for the editor's life.
Mount(e, surface) == surf[e] = "opening" /\ surf' = [surf EXCEPT ![e] = surface]

\* The handshake is done: the hub built the document from the file when the
\* room opened, and the editor mounts on it.
RoomAsServed ==
    IF room.open THEN room
    ELSE [open |-> TRUE, doc |-> head, base |-> head, armed |-> FALSE,
          wrote |-> room.wrote \cup {head}]

Join(e) ==
    /\ e \in left.reaching /\ Mount(e, "room")
    /\ live' = [live EXCEPT ![e] = TRUE]
    /\ DocBecomes(RoomAsServed, RoomAsServed.doc, Synced \cup {e})
    /\ UNCHANGED <<head, versions, copies, away, saveVars, idle, calls, ask, pageVars,
                   mine, yielded, blind, left>>

\* No room answered in time, or the server has none: the transport is stopped
\* for good and the editor mounts on its seed.
GoSolo(e) ==
    /\ e \in left.unreached /\ Mount(e, "solo")
    /\ UNCHANGED <<hubVars, live, text, away, saveVars, idle, calls, ask, pageVars,
                   histVars, left>>

\* The socket goes away; the editor keeps the document and edits it on.
Drop(e) ==
    /\ live[e] /\ Spend("drops")
    /\ live' = [live EXCEPT ![e] = FALSE]
    /\ UNCHANGED <<hubVars, surf, text, away, saveVars, idle, calls, ask, pageVars, histVars>>

\* The provider reconnects: both documents hold what either side did.
Rejoin(e) ==
    /\ surf[e] = "room" /\ ~live[e]
    /\ live' = [live EXCEPT ![e] = TRUE]
    /\ DocBecomes(RoomAsServed, (RoomAsServed.doc \cup away[e].ins) \ away[e].del, Synced \cup {e})
    /\ away' = [away EXCEPT ![e] = NoEdits]
    /\ mine' = [f \in Editors |-> mine[f] \ away[e].del]
    /\ UNCHANGED <<head, versions, copies, surf, saveVars, idle, calls, ask, pageVars,
                   yielded, blind, left>>

\* The room builds on version t from now on, and has stored its history for it.
Based(r, t) == [r EXCEPT !.base = t, !.wrote = @ \cup {t}]

\* The hub writes the room's document to the file (ycollab.go, snapshot): the
\* same write, refused for the same reasons, as an editor's save; but a version
\* the document contains is its own, whoever put it back.
Snapshot(final) ==
    LET doc == room.doc
        kept == [room EXCEPT !.armed = FALSE, !.open = ~final]
        own == room.base = head \/ head \in room.wrote
    IN  \/ /\ doc = head
           /\ room' = IF room.base = head THEN kept ELSE Based(kept, head)
           /\ FileKept
        \/ /\ doc # head /\ ~own
           /\ room' = [kept EXCEPT !.base = head]
           /\ Parked(doc)
        \/ /\ doc # head /\ own /\ ~Shrinks(head, doc)
           /\ room' = Based(kept, doc)
           /\ FileBecomes(doc)
        \/ /\ doc # head /\ own /\ Shrinks(head, doc)
           /\ room' = [kept EXCEPT !.base = head]
           /\ IF final THEN Parked(doc) ELSE FileKept

RoomPauses ==
    /\ room.open /\ room.armed /\ Synced # {}
    /\ Snapshot(FALSE)
    /\ UNCHANGED <<surf, live, text, away, saveVars, idle, calls, ask, opened, prop, wire,
                   had, yielded, blind, left>>

RoomEmpties ==
    /\ room.open /\ Synced = {}
    /\ Snapshot(TRUE)
    /\ UNCHANGED <<surf, live, text, away, saveVars, idle, calls, ask, opened, prop, wire,
                   had, yielded, blind, left>>

-----------------------------------------------------------------------------
(* Typing and saving (lib/sharedfile.ts).                                  *)

\* One keystroke: a paragraph comes or goes, and the idle timer starts again.
Type(e, p) ==
    /\ Mounted(e) /\ Spend("edits")
    /\ LET t == IF p \in text[e] THEN text[e] \ {p} ELSE text[e] \cup {p}
       IN /\ LocalEdit(e, t)
          /\ mine' = IF p \in t THEN [mine EXCEPT ![e] = @ \cup ({p} \ UNION (versions \cup copies))]
                     ELSE [f \in Editors |-> IF f = e \/ live[e] THEN mine[f] \ {p} ELSE mine[f]]
    /\ status' = [status EXCEPT ![e] = "dirty"]
    /\ idle' = [idle EXCEPT ![e] = TRUE]
    /\ UNCHANGED <<head, versions, copies, surf, live, saved, base, calls, ask, pageVars,
                   yielded, blind>>

\* save(t): nothing if t is on its way, clean if the file has it, else a PUT.
Save(e, t) ==
    \/ InFlight(e, t) /\ UNCHANGED <<status, calls>>
    \/ /\ ~InFlight(e, t) /\ t = saved[e]
       /\ status' = [status EXCEPT ![e] = "clean"]
       /\ UNCHANGED calls
    \/ /\ ~InFlight(e, t) /\ t # saved[e]
       /\ status' = [status EXCEPT ![e] = "saving"]
       /\ calls' = [calls EXCEPT ![e] = @ \cup {Request("put", t, base[e])}]

\* Not what the code does, for contrast: the idle timer saves in a room too.
IdleSaveInRoom(e) ==
    /\ Mounted(e) /\ idle[e]
    /\ idle' = [idle EXCEPT ![e] = FALSE]
    /\ Save(e, text[e])
    /\ UNCHANGED <<hubVars, surf, live, text, away, saved, base, ask, pageVars, histVars, left>>

IdleSave(e) ==
    /\ surf[e] = "solo" /\ idle[e]
    /\ idle' = [idle EXCEPT ![e] = FALSE]
    /\ Save(e, text[e])
    /\ UNCHANGED <<hubVars, surf, live, text, away, saved, base, ask, pageVars, histVars, left>>

\* One question at a time, and none from a closed file.
AskShrink(e) ==
    IF ask[e] = "no" /\ surf[e] # "closed"
    THEN /\ ask' = [ask EXCEPT ![e] = "open"]
         /\ status' = [status EXCEPT ![e] = "error"]
    ELSE UNCHANGED <<ask, status>>

\* In a room the hub's refusal never reaches an editor: watchShrink looks.
WatchShrink(e) ==
    /\ surf[e] = "room" /\ idle[e]
    /\ idle' = [idle EXCEPT ![e] = FALSE]
    /\ IF Shrinks(saved[e], text[e]) THEN AskShrink(e) ELSE UNCHANGED <<ask, status>>
    /\ UNCHANGED <<hubVars, surf, live, text, away, saved, base, calls, pageVars, histVars, left>>

\* The dialog runs one answer and takes no second one meanwhile.
Answering(e) == ask[e] = "open" /\ ask' = [ask EXCEPT ![e] = "busy"]

\* "Save anyway" writes the document as it stands when clicked.
Confirm(e) ==
    /\ Answering(e)
    /\ status' = [status EXCEPT ![e] = "saving"]
    /\ calls' = [calls EXCEPT ![e] = @ \cup {Request("confirm", text[e], base[e])}]
    /\ UNCHANGED <<hubVars, surf, live, text, away, saved, base, idle, pageVars, histVars, left>>

Keep(e) ==
    /\ Answering(e)
    /\ calls' = [calls EXCEPT ![e] = @ \cup {Request("keep", {}, base[e])}]
    /\ UNCHANGED <<hubVars, surf, live, text, away, saveVars, idle, pageVars, histVars, left>>

\* destroy(): the parting save of a solo editor whose text is not the file's,
\* unless the user still owes an answer about that text.
Close(e) ==
    /\ surf[e] # "closed"
    /\ surf' = [surf EXCEPT ![e] = "closed"]
    /\ live' = [live EXCEPT ![e] = FALSE]
    /\ IF ask[e] = "no" /\ surf[e] = "solo" /\ text[e] # {} /\ text[e] # saved[e]
       THEN Save(e, text[e]) ELSE UNCHANGED <<status, calls>>
    /\ ask' = [ask EXCEPT ![e] = "no"]
    /\ idle' = [idle EXCEPT ![e] = FALSE]
    /\ frame' = [frame EXCEPT ![e] = FALSE]
    /\ wire' = [wire EXCEPT ![e] = {}]
    /\ mine' = IF ask[e] = "no" THEN mine ELSE [mine EXCEPT ![e] = {}]
    /\ UNCHANGED <<hubVars, text, away, saved, base, opened, prop, had, yielded, blind, left>>

-----------------------------------------------------------------------------
(* The hub's answers, and the file's other writers.                        *)

\* Not what the code does, for contrast: a save is accepted whatever version it was made on.
PutAnswerUnconditional(c) ==
    IF c.op # "confirm" /\ c.text # head /\ Shrinks(head, c.text) THEN "shrink" ELSE "ok"

\* upload/content (upload.go): text the file already has is no write at all;
\* then the If-Match, then the shrink rule.
PutAnswer(c) ==
    IF c.text = head THEN "ok"
    ELSE IF c.base # head THEN "conflict"
    ELSE IF c.op # "confirm" /\ Shrinks(head, c.text) THEN "shrink"
    ELSE "ok"

Puts == {"put", "reput", "confirm"}
Reads == {"head", "keep", "restored", "folded"}

\* The hub carries request c out; a write that lands on the room's own text
\* is the room's version from then on.
Serve(c) ==
    IF c.op \in Puts /\ PutAnswer(c) = "ok" /\ c.text # head
    THEN /\ FileBecomes(c.text)
         /\ room' = IF room.open /\ room.doc = c.text THEN Based(room, c.text) ELSE room
    ELSE /\ IF c.op = "copy" THEN Parked(c.text) ELSE FileKept
         /\ UNCHANGED room

\* What comes back: the verdict, and the text (so the sha) of the file.
Reply(c) ==
    IF c.op \in Puts
    THEN [c EXCEPT !.ans = PutAnswer(c), !.got = IF PutAnswer(c) = "ok" THEN c.text ELSE head]
    ELSE IF c.op \in Reads THEN [c EXCEPT !.ans = "ok", !.got = head]
    ELSE [c EXCEPT !.ans = "ok"]

Becomes(e, c, new) == calls' = [calls EXCEPT ![e] = (@ \ {c}) \cup new]

Answer(e, c) ==
    /\ c \in calls[e] /\ c.ans = "none"
    /\ Serve(c)
    /\ Becomes(e, c, {Reply(c)})
    /\ UNCHANGED <<surf, live, text, away, saveVars, idle, ask, opened, prop, wire,
                   had, yielded, blind, left>>

\* The request never arrives, or it is carried out and the answer is lost.
Lose(e, c) ==
    /\ c \in calls[e] /\ c.ans = "none" /\ Spend("fails")
    /\ Becomes(e, c, {[c EXCEPT !.ans = "fail"]})
    /\ Serve(c) \/ (FileKept /\ UNCHANGED room)
    /\ UNCHANGED <<surf, live, text, away, saveVars, idle, ask, opened, prop, wire,
                   had, yielded, blind>>

\* An agent, the CLI, a device or an editor elsewhere writes the file.  Only
\* the upload door looks whether the room spells the same.
Outside(t) ==
    /\ t # head /\ Spend("outside")
    /\ FileBecomes(t)
    /\ room' \in IF room.open /\ room.doc = t THEN {room, Based(room, t)} ELSE {room}
    /\ UNCHANGED <<surf, live, text, away, saveVars, idle, calls, ask, opened, prop, wire,
                   had, yielded, blind>>

\* The rail's restore of an earlier version: the hub writes it, folds it into
\* the room if there is one, and the editor that asked reads the file again.
Restore(e, t) ==
    /\ Mounted(e) /\ t \in versions \ {head} /\ Spend("outside")
    /\ head' = t
    /\ frame' = [f \in Editors |-> frame[f] \/ surf[f] # "closed"]
    /\ IF room.open
       THEN /\ DocBecomes([Based(room, t) EXCEPT !.armed = FALSE], t, Synced)
            /\ mine' = [f \in Editors |-> mine[f] \ (room.doc \ t)]
       ELSE UNCHANGED <<room, text, had, mine>>
    /\ calls' = [calls EXCEPT ![e] =
                    @ \cup {Request(IF room.open THEN "folded" ELSE "restored", {}, base[e])}]
    /\ UNCHANGED <<versions, copies, surf, live, away, saveVars, idle, ask, opened, prop, wire,
                   yielded, blind>>

-----------------------------------------------------------------------------
(* What the editor does with an answer.                                    *)

\* Not what the code does, for contrast: the state is reported under the word its label shows.
LandedSaved(e, t, b) ==
    /\ saved' = [saved EXCEPT ![e] = t]
    /\ base' = [base EXCEPT ![e] = b]
    /\ status' = [status EXCEPT ![e] = "saved"]

\* A save landed, or the file was found to hold t.
Landed(e, t, b) ==
    /\ saved' = [saved EXCEPT ![e] = t]
    /\ base' = [base EXCEPT ![e] = b]
    /\ status' = [status EXCEPT ![e] = "clean"]

Failed(e) ==
    /\ status' = [status EXCEPT ![e] = "error"]
    /\ UNCHANGED <<saved, base>>

\* The save goes on with another request, for the same text.
GoesOn(e, c, op, b, theirs) ==
    /\ Becomes(e, c, {[Request(op, c.text, b) EXCEPT !.theirs = theirs]})
    /\ UNCHANGED <<saved, status>>

\* Nobody is left to hear that the save of a closed file failed or was refused.
GivesUp(e, failed) ==
    mine' = IF failed /\ surf[e] = "closed" THEN [mine EXCEPT ![e] = {}] ELSE mine

SaveOnly == UNCHANGED <<hubVars, surf, live, text, away, idle, pageVars, had, left>>

\* Not what the code does, for contrast: a save that got no answer counts as landed.
PutDoneUnanswered(e, c) ==
    /\ c \in calls[e] /\ c.op = "put" /\ c.ans # "none"
    /\ \/ c.ans \in {"ok", "fail"} /\ Landed(e, c.text, c.got) /\ Becomes(e, c, {}) /\ UNCHANGED ask
       \/ c.ans = "shrink" /\ AskShrink(e) /\ Becomes(e, c, {}) /\ UNCHANGED <<saved, base>>
       \/ c.ans = "conflict" /\ GoesOn(e, c, "head", {}, c.got) /\ UNCHANGED <<base, ask>>
    /\ GivesUp(e, c.ans = "shrink")
    /\ UNCHANGED <<yielded, blind>>
    /\ SaveOnly

PutDone(e, c) ==
    /\ c \in calls[e] /\ c.op = "put" /\ c.ans # "none"
    /\ \/ c.ans = "ok" /\ Landed(e, c.text, c.got) /\ Becomes(e, c, {}) /\ UNCHANGED ask
       \/ c.ans = "fail" /\ Failed(e) /\ Becomes(e, c, {}) /\ UNCHANGED ask
       \/ c.ans = "shrink" /\ AskShrink(e) /\ Becomes(e, c, {}) /\ UNCHANGED <<saved, base>>
       \/ c.ans = "conflict" /\ GoesOn(e, c, "head", {}, c.got) /\ UNCHANGED <<base, ask>>
    /\ GivesUp(e, c.ans \in {"shrink", "fail"})
    /\ UNCHANGED <<yielded, blind>>
    /\ SaveOnly

\* rebaseOnLostRace, its read answered: the file is ahead and there is nothing
\* to write; or our text holds theirs and is put once more, on their version;
\* or neither, and ours goes beside theirs.
HeadDone(e, c) ==
    LET ahead == textEdit(c.text, c.got) = {}
        holds == Contains(c.text, c.got)
    IN  /\ c \in calls[e] /\ c.op = "head" /\ c.ans # "none"
        /\ \/ c.ans = "ok" /\ ahead /\ Landed(e, c.got, c.got) /\ Becomes(e, c, {})
           \/ /\ c.ans = "ok" /\ ~ahead /\ holds
              /\ base' = [base EXCEPT ![e] = c.got]
              /\ GoesOn(e, c, "reput", c.got, c.theirs)
           \/ /\ c.ans = "fail" \/ (~ahead /\ ~holds)
              /\ GoesOn(e, c, "copy", {}, c.theirs)
              /\ UNCHANGED base
        /\ blind' = IF c.ans = "ok" /\ ahead THEN [blind EXCEPT ![e] = @ \cup c.got] ELSE blind
        /\ UNCHANGED <<ask, yielded, mine>>
        /\ SaveOnly

ReputDone(e, c) ==
    /\ c \in calls[e] /\ c.op = "reput" /\ c.ans # "none"
    /\ \/ c.ans = "ok" /\ Landed(e, c.text, c.got) /\ Becomes(e, c, {})
       \/ c.ans # "ok" /\ GoesOn(e, c, "copy", {}, c.theirs) /\ UNCHANGED base
    /\ UNCHANGED <<ask, yielded, mine, blind>>
    /\ SaveOnly

\* preserve(): our version is beside the file, and theirs is the base now.
CopyDone(e, c) ==
    /\ c \in calls[e] /\ c.op = "copy" /\ c.ans # "none"
    /\ Becomes(e, c, {})
    /\ \/ /\ c.ans = "ok" /\ Landed(e, c.text, c.theirs)
          /\ yielded' = [yielded EXCEPT ![e] = @ \cup c.theirs]
       \/ c.ans = "fail" /\ Failed(e) /\ UNCHANGED yielded
    /\ GivesUp(e, c.ans = "fail")
    /\ UNCHANGED <<ask, blind>>
    /\ SaveOnly

ConfirmDone(e, c) ==
    /\ c \in calls[e] /\ c.op = "confirm" /\ c.ans # "none"
    /\ \/ c.ans = "ok" /\ Landed(e, c.text, c.got)
       \/ c.ans # "ok" /\ Failed(e)
    /\ Becomes(e, c, {})
    /\ ask' = [ask EXCEPT ![e] = "no"]
    /\ UNCHANGED <<yielded, mine, blind>>
    /\ SaveOnly

\* "Keep saved version": the surface goes back to the file's text.
KeepDone(e, c) ==
    /\ c \in calls[e] /\ c.op = "keep" /\ c.ans # "none"
    /\ Becomes(e, c, {})
    /\ ask' = [ask EXCEPT ![e] = "no"]
    /\ \/ /\ c.ans = "fail" /\ Failed(e)
          /\ UNCHANGED idle /\ SurfaceKept /\ UNCHANGED mine
       \/ /\ c.ans = "ok" /\ surf[e] = "closed"
          /\ UNCHANGED <<saveVars, idle, mine>> /\ SurfaceKept
       \/ /\ c.ans = "ok" /\ surf[e] # "closed"
          /\ Landed(e, c.got, c.got)
          /\ LocalEdit(e, c.got)
          /\ idle' = [idle EXCEPT ![e] = @ \/ c.got # text[e]]
          /\ mine' = [f \in Editors |-> IF f = e \/ live[e] THEN mine[f] \ (text[e] \ c.got) ELSE mine[f]]
    /\ UNCHANGED <<head, versions, copies, surf, live, pageVars, yielded, blind, left>>

\* merge(next, held): another writer's text is offered to the open document.
Known(e, next) == next = saved[e] \/ InFlight(e, next)

Adopt(e, next) ==
    /\ saved' = [saved EXCEPT ![e] = next]
    /\ base' = [base EXCEPT ![e] = next]

\* Awareness of a socket that is down is kept for a while, then forgotten.
PeersSeen(e) == IF live[e] THEN {Synced # {e}} ELSE IF surf[e] = "room" THEN BOOLEAN ELSE {FALSE}

Blocked(e, next) ==
    /\ base' = [base EXCEPT ![e] = IF Contains(text[e], next) THEN next ELSE @]
    /\ UNCHANGED <<saved, status, idle>> /\ SurfaceKept

\* Not what the code does, for contrast: another writer's text goes over edits that are not saved.
MergeOver(e, next) ==
    \/ /\ Known(e, next)
       /\ base' = [base EXCEPT ![e] = next]
       /\ UNCHANGED <<saved, status, idle>> /\ SurfaceKept
    \/ /\ ~Known(e, next) /\ FALSE \in PeersSeen(e)
       /\ Adopt(e, next)
       /\ LocalEdit(e, next)
       /\ status' = [status EXCEPT ![e] = "dirty"]
       /\ idle' = [idle EXCEPT ![e] = TRUE]

Merge(e, next) ==
    \/ /\ Known(e, next)
       /\ base' = [base EXCEPT ![e] = next]
       /\ UNCHANGED <<saved, status, idle>> /\ SurfaceKept
    \/ /\ ~Known(e, next) /\ next = text[e]
       /\ Adopt(e, next)
       /\ status' = IF surf[e] = "room" THEN [status EXCEPT ![e] = "clean"] ELSE status
       /\ UNCHANGED idle /\ SurfaceKept
    \/ /\ ~Known(e, next) /\ next # text[e]
       /\ text[e] # saved[e] \/ TRUE \in PeersSeen(e)
       /\ Blocked(e, next)
    \/ /\ ~Known(e, next) /\ next # text[e]
       /\ text[e] = saved[e] /\ FALSE \in PeersSeen(e)
       /\ Adopt(e, next)
       /\ LocalEdit(e, next)
       /\ status' = [status EXCEPT ![e] = "dirty"]
       /\ idle' = [idle EXCEPT ![e] = TRUE]

MergeOnly == UNCHANGED <<head, versions, copies, surf, live, mine, yielded>>

\* onRestored: a folded restore is only recorded, any other is an outside write.
RestoreDone(e, c) ==
    /\ c \in calls[e] /\ c.op \in {"restored", "folded"} /\ c.ans # "none"
    /\ Becomes(e, c, {})
    /\ \/ c.ans = "ok" /\ c.op = "restored" /\ Mounted(e) /\ Merge(e, c.got) /\ UNCHANGED blind
       \/ /\ c.ans = "ok" /\ c.op = "folded" /\ Mounted(e)
          /\ Adopt(e, c.got)
          /\ blind' = [blind EXCEPT ![e] = @ \cup c.got]
          /\ UNCHANGED <<status, idle>> /\ SurfaceKept
       \/ /\ c.ans = "fail" \/ ~Mounted(e)
          /\ UNCHANGED <<saveVars, idle, blind>> /\ SurfaceKept
    /\ MergeOnly
    /\ UNCHANGED <<ask, pageVars, left>>

-----------------------------------------------------------------------------
(* The page's own read of the file (components/Editor.tsx).                *)

Refetch(e) ==
    /\ frame[e]
    /\ frame' = [frame EXCEPT ![e] = FALSE]
    /\ wire' = [wire EXCEPT ![e] = {head}]
    /\ UNCHANGED <<hubVars, surf, live, text, away, saveVars, idle, calls, ask,
                   opened, prop, histVars, left>>

\* Before the editor is up there is nothing to offer bytes to: they are what it
\* would mount on.
Seeds(e, initial) ==
    /\ text' = [text EXCEPT ![e] = initial] /\ had' = [had EXCEPT ![e] = @ \cup initial]
    /\ UNCHANGED <<room, away, saveVars, idle>>

\* The answer is the editor's new `initial`, which counts unless it is what the
\* page had, or the bytes the editor opened with.
Deliver(e) ==
    \E initial \in wire[e] :
        /\ wire' = [wire EXCEPT ![e] = {}]
        /\ prop' = [prop EXCEPT ![e] = initial]
        /\ \/ /\ initial = prop[e] \/ initial = opened[e]
              /\ UNCHANGED <<saveVars, idle>> /\ SurfaceKept
           \/ /\ initial # prop[e] /\ initial # opened[e]
              /\ IF Mounted(e) THEN Merge(e, initial) ELSE Seeds(e, initial)
        /\ MergeOnly
        /\ UNCHANGED <<calls, ask, opened, frame, blind, left>>

-----------------------------------------------------------------------------

Done(e, c) ==
    \/ PutDone(e, c) \/ HeadDone(e, c) \/ ReputDone(e, c) \/ CopyDone(e, c)
    \/ ConfirmDone(e, c) \/ KeepDone(e, c) \/ RestoreDone(e, c)

Next ==
    \/ \E e \in Editors :
        \/ Join(e) \/ GoSolo(e) \/ Drop(e) \/ Rejoin(e)
        \/ \E p \in Paras : Type(e, p)
        \/ IdleSave(e) \/ WatchShrink(e) \/ Confirm(e) \/ Keep(e) \/ Close(e)
        \/ \E c \in calls[e] : Answer(e, c) \/ Lose(e, c) \/ Done(e, c)
        \/ \E t \in versions : Restore(e, t)
        \/ Refetch(e) \/ Deliver(e)
    \/ RoomPauses \/ RoomEmpties
    \/ \E t \in Texts : Outside(t)

Spec == Init /\ [][Next]_vars

-----------------------------------------------------------------------------

\* Every variable has its type: a surface is one of the four, every text is
\* made of the file's paragraphs, a request is one the editor sends.
TypeOK ==
    /\ head \in Texts /\ versions \in SUBSET Texts /\ copies \in SUBSET Texts
    /\ room \in [open : BOOLEAN, doc : Texts, base : Texts, armed : BOOLEAN, wrote : SUBSET Texts]
    /\ surf \in [Editors -> {"opening", "room", "solo", "closed"}]
    /\ live \in [Editors -> BOOLEAN] /\ idle \in [Editors -> BOOLEAN]
    /\ text \in [Editors -> Texts]
    /\ away \in [Editors -> [ins : Texts, del : Texts]]
    /\ saved \in [Editors -> Texts] /\ base \in [Editors -> Texts]
    /\ status \in [Editors -> {"clean", "dirty", "saving", "error"}]
    /\ calls \in [Editors -> SUBSET Call]
    /\ ask \in [Editors -> {"no", "open", "busy"}]
    /\ opened \in [Editors -> Texts] /\ prop \in [Editors -> Texts]
    /\ frame \in [Editors -> BOOLEAN] /\ wire \in [Editors -> SUBSET Texts]
    /\ mine \in [Editors -> Texts] /\ had \in [Editors -> Texts]
    /\ yielded \in [Editors -> Texts] /\ blind \in [Editors -> Texts]
    /\ left \in Budget

SaveOps == {"put", "head", "reput", "copy"}
InRoom == IF room.open THEN room.doc ELSE {}
UnderWay(e) == UNION {c.text : c \in calls[e]}

\* What this person typed and no store holds is still in front of them; and
\* once the file is closed it is in a save under way, in the room the hub
\* holds, or in a tab that was offline.  sharedfile.ts: merge() refuses to
\* splice over unsaved edits, preserve() parks what a save cannot write, and
\* destroy() saves on the way out.
WorkKept == \A e \in Editors :
    /\ Mounted(e) => mine[e] \subseteq text[e]
    /\ surf[e] = "closed" => mine[e] \subseteq UnderWay(e) \cup InRoom \cup away[e].ins

\* The text an editor takes for the file's is one the hub stored: answers that
\* come late, twice or for another request never make it believe in a save
\* that did not happen.
SavedIsStored == \A e \in Editors : saved[e] \in versions \cup copies

\* Once the hub holds the document no editor of the room has a save of its own
\* under way: only the user's "save anyway" is sent.
HubWritesAlone == \A e \in Editors :
    surf[e] = "room" => \A c \in calls[e] : c.op \notin SaveOps

\* A save that replaces the file drops only paragraphs in known.
Erases(known(_)) ==
    (head' # head /\ calls' # calls /\ left'.outside = left.outside) =>
        \E e \in Editors : \E c \in calls[e] \ calls'[e] :
            c.text = head' /\ head \ head' \subseteq known(e)

SeenByEditor(e) == had[e] \cup yielded[e]
KnownToEditor(e) == had[e] \cup yielded[e] \cup blind[e]

\* An accepted save erases only what its author had on the surface, what a
\* conflict copy gave way to, or what the code recorded as the file's text
\* without showing it (If-Match, rebaseOnLostRace and merge()'s rebase rule).
ErasesOnlyKnown == [][Erases(KnownToEditor)]_vars

\* The rule the comments state: a save may not erase "work this document never
\* saw" (sharedfile.ts, rebaseOnLostRace).
ErasesOnlySeen == [][Erases(SeenByEditor)]_vars

\* "Closing the tab mid-word must not lose the word" (sharedfile.ts, destroy).
WordSurvivesClose == \A e \in Editors :
    surf[e] = "closed" => mine[e] \subseteq UnderWay(e) \cup InRoom
=============================================================================
