------------------------------ MODULE Comments ------------------------------
(***************************************************************************)
(* Review comments on one file: components/Comments.tsx (CommentSurface,     *)
(* which marks the page, and CommentPanel, which lists the threads),         *)
(* hooks/useComments.ts (the cached list and its writes) and                 *)
(* inline-comment.ts (the half that runs inside the sandboxed frame of an    *)
(* HTML file and is told only by messages).                                  *)
(*                                                                         *)
(* A thread's id is its place in the order of creation.  Texts are left out: *)
(* of a draft or a reply it matters only whether there is something in it.   *)
(***************************************************************************)
EXTENDS Naturals, Sequences, FiniteSets

CONSTANTS MaxThreads, MaxActs  \* bounds: threads, and acts of people and loads

VARIABLES
  threads,   \* the hub's threads of the file
  list,      \* the cached list this tab shows
  read,      \* the read of the list under way, at most one
  calls,     \* writes under way
  missed,    \* the hub's list changed and no read was asked for since
  draft,     \* "none", "offered" (the floating button) or "composing"
  body,      \* something is typed in the composer
  busy,      \* who waits for the hub
  tab,       \* "open" or "resolved"
  focus,     \* the thread in focus, 0 for none
  picking,   \* the app's pick mode
  framed,    \* the file is HTML, shown in a frame
  page,      \* "loading" or "ready": the document that shows the file
  pins,      \* numbered places the page marks
  active,    \* the place it marks as active
  crosshair, \* the frame's pick mode
  up, down,  \* messages under way from and to the frame
  made,      \* threads created so far
  acts       \* acts so far

hubVars == <<threads, made>>
pageVars == <<framed, page, crosshair>>
markVars == <<pins, active>>
vars == <<list, read, calls, missed, draft, body, busy, tab, focus, picking, up,
          down, acts, hubVars, pageVars, markVars>>

Ids == 1 .. MaxThreads

\* Who waits for the hub: a card, the composer, or the foot of the panel.
Composer == MaxThreads + 1
Foot == MaxThreads + 2
Of(l, id) == {t \in l : t.id = id}
Held(l) == {t.id : t \in l}

-----------------------------------------------------------------------------
(* What is derived from the list *)

\* Numbers follow creation and count the resolved; only open threads of a file
\* that exists are marked on the page.
Number(l, id) == Cardinality({t \in l : t.id <= id})
Shown(l) == {[id |-> t.id, n |-> Number(l, t.id)] : t \in {t \in l : ~t.resolved}}

\* The panel follows the focus to the resolved threads, and not back.
TabFor(l, f) == IF \E t \in Of(l, f) : t.resolved THEN "resolved" ELSE tab

-----------------------------------------------------------------------------
(* A commit of the app: the list, the focus and the pick mode it shows now, *)
(* and what the effects tell the page of it.                                *)

AnchorsDown(l, f) == <<[type |-> "anchors", pins |-> Shown(l), id |-> f, on |-> FALSE]>>
PickDown(on) == <<[type |-> "pick", pins |-> {}, id |-> 0, on |-> on]>>
FocusDown(f) == <<[type |-> "focus", pins |-> {}, id |-> f, on |-> FALSE]>>
ClearDown == <<[type |-> "clear", pins |-> {}, id |-> 0, on |-> FALSE]>>

\* A frame that is loading hears nothing.
Posted(msgs) == IF framed /\ page = "ready" THEN msgs ELSE <<>>

\* The effects, in the order they are declared.
Effects(l, f, p) ==
  (IF Shown(l) # Shown(list) \/ f # focus THEN AnchorsDown(l, f) ELSE <<>>)
  \o (IF p # picking THEN PickDown(p) ELSE <<>>)
  \o (IF f # focus /\ f # 0 THEN FocusDown(f) ELSE <<>>)

Commit(l, f, p, first) ==
  /\ list' = l /\ focus' = f /\ picking' = p
  /\ tab' = IF f # focus \/ l # list THEN TabFor(l, f) ELSE tab
  /\ down' = down \o Posted(first \o Effects(l, f, p))
  /\ pins' = IF framed THEN pins ELSE Shown(l)
  /\ active' = IF framed THEN active ELSE f

Same == Commit(list, focus, picking, <<>>)

\* Something a person does, or a load of the page.
Acting == acts < MaxActs /\ acts' = acts + 1

-----------------------------------------------------------------------------
Init ==
  /\ threads = {[id |-> 1, resolved |-> FALSE, notes |-> 1]} /\ list = threads
  /\ read = {} /\ calls = {} /\ missed = FALSE
  /\ draft = "none" /\ body = FALSE /\ busy = {} /\ tab = "open"
  /\ focus = 0 /\ picking = FALSE
  /\ framed \in BOOLEAN
  /\ page = IF framed THEN "loading" ELSE "ready"
  /\ pins = IF framed THEN {} ELSE Shown(list)
  /\ active = 0 /\ crosshair = FALSE
  /\ up = <<>> /\ down = <<>>
  /\ made = 1 /\ acts = 0

-----------------------------------------------------------------------------
(* The list: reads and writes *)

\* Invalidating the list cancels the read under way and asks again.
Refetch == read' = {[done |-> FALSE, threads |-> {}]} /\ missed' = FALSE

\* The change stream, or the poll every thirty seconds.
Refresh ==
  /\ missed /\ Refetch /\ Same
  /\ UNCHANGED <<calls, draft, body, busy, up, hubVars, pageVars, acts>>

ReadServed ==
  /\ \E r \in read : ~r.done
  /\ read' = {[done |-> TRUE, threads |-> threads]}
  /\ Same
  /\ UNCHANGED <<calls, missed, draft, body, busy, up, hubVars, pageVars, acts>>

\* A card that leaves the list takes its waiting state with it.
BusyIn(l, b) == {w \in b : w \in Ids => w \in Held(l)}

ReadArrives ==
  \E r \in read :
    /\ r.done /\ read' = {} /\ Commit(r.threads, focus, picking, <<>>)
    /\ busy' = BusyIn(r.threads, busy)
    /\ UNCHANGED <<calls, missed, draft, body, up, hubVars, pageVars, acts>>

Send(from, kind, id, note) ==
  /\ from \notin busy /\ Acting
  /\ calls' = calls \cup {[from |-> from, kind |-> kind, id |-> id, note |-> note,
                           no |-> acts, answer |-> "none", thread |-> {}]}

\* Posting the draft, or a comment on the whole file from the panel's foot.
Submit ==
  /\ draft = "composing" /\ body /\ Send(Composer, "create", 0, TRUE)
  /\ busy' = busy \cup {Composer} /\ Same
  /\ UNCHANGED <<read, missed, draft, body, up, hubVars, pageVars>>

PostGeneral ==
  /\ Send(Foot, "create", 0, TRUE)
  /\ busy' = busy \cup {Foot} /\ Same
  /\ UNCHANGED <<read, missed, draft, body, up, hubVars, pageVars>>

\* A card's reply, resolve or reopen, the last two with or without a note.
Act(id, kind, note) ==
  /\ \E t \in Of(list, id) :
       CASE kind = "reply" -> note [] kind = "resolve" -> ~t.resolved [] OTHER -> t.resolved
  /\ Send(id, kind, id, note)
  /\ busy' = busy \cup {id} /\ Same
  /\ UNCHANGED <<read, missed, draft, body, up, hubVars, pageVars>>

\* Gone from the list before the hub answers.
Remove(id) ==
  /\ Of(list, id) # {} /\ Send(id, "remove", id, FALSE)
  /\ Commit(list \ Of(list, id), focus, picking, <<>>)
  /\ busy' = BusyIn(list', busy)
  /\ UNCHANGED <<read, missed, draft, body, up, hubVars, pageVars>>

\* The hub: each write answers with the thread as it then stands.
After(t, kind, note) ==
  [t EXCEPT !.notes = IF note THEN @ + 1 ELSE @,
            !.resolved = (kind = "resolve") \/ (kind = "reply" /\ @)]

Replaced(l, t) == (l \ Of(l, t.id)) \cup {t}

Served(c, answer, thread, others2) ==
  /\ calls' = (calls \ {c}) \cup {[c EXCEPT !.answer = answer, !.thread = thread]}
  /\ threads' = others2

CallServed ==
  \E c \in calls :
    /\ c.answer = "none" /\ Same
    /\ UNCHANGED <<read, draft, body, busy, up, pageVars, acts>>
    /\ \/ /\ c.kind = "create" /\ made < MaxThreads /\ made' = made + 1
          /\ LET t == [id |-> made + 1, resolved |-> FALSE, notes |-> 1]
             IN \/ Served(c, "ok", {t}, threads \cup {t}) /\ UNCHANGED missed
                \/ Served(c, "error", {}, threads \cup {t}) /\ missed' = TRUE
       \/ /\ c.kind \notin {"create", "remove"} /\ UNCHANGED made
          /\ \E old \in Of(threads, c.id) :
               LET t == After(old, c.kind, c.note)
               IN \/ Served(c, "ok", {t}, Replaced(threads, t)) /\ UNCHANGED missed
                  \/ Served(c, "error", {}, Replaced(threads, t)) /\ missed' = TRUE
       \/ /\ c.kind = "remove" /\ Served(c, "ok", {}, threads \ Of(threads, c.id))
          /\ UNCHANGED <<made, missed>>
       \/ Served(c, "error", {}, threads) /\ UNCHANGED <<made, missed>>

\* The answer of a write takes its place in the list, and the list is read
\* again.
Place(l, c) == UNION {Replaced(l, t) : t \in c.thread}

CreateDone ==
  \E c \in calls :
    /\ c.kind = "create" /\ c.answer = "ok"
    /\ \E t \in c.thread :
         Commit(Place(list, c), t.id, picking, IF c.from = Composer THEN ClearDown ELSE <<>>)
    /\ Refetch
    /\ draft' = IF c.from = Composer THEN "none" ELSE draft
    /\ body' = IF c.from = Composer THEN FALSE ELSE body
    /\ calls' = calls \ {c} /\ busy' = busy \ {c.from}
    /\ UNCHANGED <<up, hubVars, pageVars, acts>>

ActDone ==
  \E c \in calls :
    /\ c.kind \notin {"create", "remove"} /\ c.answer = "ok"
    /\ Commit(Place(list, c), focus, picking, <<>>)
    /\ Refetch
    /\ calls' = calls \ {c} /\ busy' = busy \ {c.from}
    /\ UNCHANGED <<draft, body, up, hubVars, pageVars, acts>>

\* Not what the code does, for contrast: only a removal the hub took is.
RemoveDoneOnce ==
  \E c \in calls :
    /\ c.kind = "remove" /\ c.answer # "none"
    /\ Same /\ IF c.answer = "ok" THEN Refetch ELSE UNCHANGED <<read, missed>>
    /\ calls' = calls \ {c} /\ busy' = busy \ {c.from}
    /\ UNCHANGED <<draft, body, up, hubVars, pageVars, acts>>

\* Refused or not, a removal is followed by a read.
RemoveDone ==
  \E c \in calls :
    /\ c.kind = "remove" /\ c.answer # "none"
    /\ Same /\ Refetch
    /\ calls' = calls \ {c} /\ busy' = busy \ {c.from}
    /\ UNCHANGED <<draft, body, up, hubVars, pageVars, acts>>

\* Any other write that failed says so and changes nothing.
Failed ==
  \E c \in calls :
    /\ c.kind # "remove" /\ c.answer = "error" /\ Same
    /\ calls' = calls \ {c} /\ busy' = busy \ {c.from}
    /\ UNCHANGED <<read, missed, draft, body, up, hubVars, pageVars, acts>>

\* Somebody else, or an agent: a new thread, one resolved, one removed.
Others ==
  /\ Acting /\ missed' = TRUE
  /\ \/ /\ made < MaxThreads /\ made' = made + 1
        /\ threads' = threads \cup {[id |-> made + 1, resolved |-> FALSE, notes |-> 1]}
     \/ /\ \E t \in threads : \/ threads' = Replaced(threads, After(t, "resolve", TRUE))
                              \/ threads' = threads \ {t}
        /\ UNCHANGED made
  /\ Same
  /\ UNCHANGED <<read, calls, draft, body, busy, up, pageVars>>

-----------------------------------------------------------------------------
(* The page and the panel *)

Kept == IF draft = "composing" THEN draft ELSE "none"

\* A selection in the page itself, or none: what is being written stays only
\* against the loss of a selection or a scroll, not against a new selection.
Select ==
  /\ ~framed /\ Acting /\ draft' \in {"offered", Kept} /\ Same
  /\ UNCHANGED <<read, calls, missed, body, busy, up, hubVars, pageVars>>

Compose ==
  /\ draft = "offered" /\ draft' = "composing" /\ Same
  /\ UNCHANGED <<read, calls, missed, body, busy, up, hubVars, pageVars, acts>>

Write ==
  /\ draft = "composing" /\ ~body /\ body' = TRUE /\ Same
  /\ UNCHANGED <<read, calls, missed, draft, busy, up, hubVars, pageVars, acts>>

Cancel ==
  /\ draft = "composing" /\ Acting /\ draft' = "none" /\ body' = FALSE /\ Same
  /\ UNCHANGED <<read, calls, missed, busy, up, hubVars, pageVars>>

TogglePick ==
  /\ framed /\ Acting /\ Commit(list, focus, ~picking, <<>>)
  /\ UNCHANGED <<read, calls, missed, draft, body, busy, up, hubVars, pageVars>>

\* A card clicked takes the focus, or gives it up; a pin takes it.
FocusOn(id) ==
  /\ Acting
  /\ \/ id \in Held(list) /\ Commit(list, IF focus = id THEN 0 ELSE id, picking, <<>>)
     \/ ~framed /\ \E p \in pins : p.id = id /\ Commit(list, id, picking, <<>>)
  /\ UNCHANGED <<read, calls, missed, draft, body, busy, up, hubVars, pageVars>>

SwitchTab ==
  /\ Acting /\ tab' = (IF tab = "open" THEN "resolved" ELSE "open")
  /\ UNCHANGED <<list, focus, picking, down, markVars, read, calls, missed, draft, body, busy, up, hubVars, pageVars>>

-----------------------------------------------------------------------------
(* The frame *)

Report(type, id) == up' = Append(up, [type |-> type, id |-> id])
appVars == <<list, read, calls, missed, draft, body, busy, tab, focus, picking>>

\* Its document loads, for the first time or anew: nothing it held stays, and
\* messages to and from the document before are lost.
FrameLoads ==
  /\ framed /\ page = "loading" /\ page' = "ready"
  /\ pins' = {} /\ active' = 0 /\ crosshair' = FALSE
  /\ up' = <<[type |-> "ready", id |-> 0]>> /\ down' = <<>>
  /\ UNCHANGED <<appVars, hubVars, framed, acts>>

\* Between two documents there is none.
FrameUnloads ==
  /\ framed /\ page = "ready" /\ Acting /\ page' = "loading"
  /\ pins' = {} /\ active' = 0 /\ crosshair' = FALSE /\ up' = <<>> /\ down' = <<>>
  /\ UNCHANGED <<appVars, hubVars, framed>>

\* The reader selects, picks an element, leaves pick mode or clicks a place.
FrameSelects ==
  /\ framed /\ page = "ready" /\ Acting /\ ~crosshair
  /\ \E t \in {"select", "unselect"} : Report(t, 0)
  /\ UNCHANGED <<appVars, hubVars, pageVars, markVars, down>>

FramePicks ==
  /\ framed /\ page = "ready" /\ Acting /\ crosshair /\ crosshair' = FALSE
  /\ \E t \in {"picked", "pickoff"} : Report(t, 0)
  /\ UNCHANGED <<appVars, hubVars, markVars, down, framed, page>>

FrameOpens ==
  /\ framed /\ page = "ready" /\ Acting /\ ~crosshair
  /\ \E p \in pins : Report("open", p.id)
  /\ UNCHANGED <<appVars, hubVars, pageVars, markVars, down>>

\* The frame handles a message of the app.
FrameHears ==
  /\ down # <<>> /\ down' = Tail(down)
  /\ LET m == Head(down)
     IN /\ pins' = IF m.type = "anchors" THEN m.pins ELSE pins
        /\ active' = IF m.type \in {"anchors", "focus"} THEN m.id ELSE active
        /\ crosshair' = IF m.type = "pick" THEN m.on ELSE crosshair
  /\ UNCHANGED <<appVars, hubVars, framed, page, up, acts>>

\* Not what the code does, for contrast: the pick mode is told only when it changes.
FrameReadyAnchors ==
  /\ up # <<>> /\ Head(up).type = "ready" /\ up' = Tail(up)
  /\ Commit(list, focus, picking, AnchorsDown(list, focus))
  /\ UNCHANGED <<draft, read, calls, missed, body, busy, hubVars, pageVars, acts>>

\* The app handles a message of the frame.
FrameReady ==
  /\ up # <<>> /\ Head(up).type = "ready" /\ up' = Tail(up)
  /\ Commit(list, focus, picking, AnchorsDown(list, focus) \o PickDown(picking))
  /\ UNCHANGED <<draft, read, calls, missed, body, busy, hubVars, pageVars, acts>>

FrameSaid ==
  /\ up # <<>> /\ up' = Tail(up)
  /\ UNCHANGED <<read, calls, missed, body, busy, hubVars, pageVars, acts>>
  /\ LET m == Head(up)
     IN \/ m.type = "select" /\ draft' = "offered" /\ Same
        \/ m.type = "unselect" /\ draft' = Kept /\ Same
        \/ m.type = "picked" /\ draft' = "composing" /\ Commit(list, focus, FALSE, <<>>)
        \/ m.type = "open" /\ Commit(list, m.id, picking, <<>>) /\ UNCHANGED draft
        \/ m.type = "pickoff" /\ Commit(list, focus, FALSE, <<>>) /\ UNCHANGED draft

-----------------------------------------------------------------------------
Next ==
  \/ Refresh \/ ReadServed \/ ReadArrives \/ Submit \/ PostGeneral
  \/ \E id \in Ids : Remove(id) \/ FocusOn(id)
       \/ \E k \in {"reply", "resolve", "reopen"}, n \in BOOLEAN : Act(id, k, n)
  \/ CallServed \/ CreateDone \/ ActDone \/ RemoveDone \/ Failed \/ Others
  \/ Select \/ Compose \/ Write \/ Cancel \/ TogglePick \/ SwitchTab
  \/ FrameLoads \/ FrameUnloads \/ FrameSelects \/ FramePicks \/ FrameOpens
  \/ FrameHears \/ FrameReady \/ FrameSaid

Spec == Init /\ [][Next]_vars

-----------------------------------------------------------------------------
TypeOK ==
  /\ \A t \in threads \cup list : t.id \in Ids /\ t.notes \in Nat
  /\ \A id \in Ids : Cardinality(Of(list, id)) <= 1 /\ Cardinality(Of(threads, id)) <= 1
  /\ Cardinality(read) <= 1 /\ busy \subseteq Ids \cup {Composer, Foot}
  /\ draft \in {"none", "offered", "composing"} /\ tab \in {"open", "resolved"}
  /\ focus \in 0 .. MaxThreads /\ {picking, crosshair, framed, body, missed} \subseteq BOOLEAN
  /\ ~framed => up = <<>> /\ down = <<>>

\* Once this tab's writes and reads are through, the list is the hub's, unless
\* the hub changed behind a failure or by somebody else's hand (useComments.ts:
\* "a refusal is put back by the refetch, which runs either way").
ListIsHub == calls = {} /\ read = {} /\ ~missed => list = threads

\* Once the messages are through, a loaded frame marks the open threads under
\* the numbers of the panel, with the focus active, and picks if the app says so.
FrameFollows ==
  framed /\ page = "ready" /\ up = <<>> /\ down = <<>> =>
    pins = Shown(list) /\ active = focus /\ crosshair = picking
=============================================================================
