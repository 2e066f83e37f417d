------------------------------ MODULE FilePage ------------------------------
(***************************************************************************)
(* The page of one file, read and then edited (components/FileView.tsx).     *)
(* Reading and editing share one cached text; editing waits for a read of    *)
(* its own, and for the code of the editor.  What the editor then does with  *)
(* the text is SharedFile's and VisualEdit's; here is what it is given, and  *)
(* the banner that says somebody else wrote the file.                        *)
(*                                                                         *)
(* The file's content is its version, a number from 1; 0 stands for none.    *)
(***************************************************************************)
EXTENDS Integers, Sequences

CONSTANTS MaxWrites, MaxEdits \* bounds: writes of the file; times editing starts

VARIABLES
  file,      \* "html", which is edited as a page, or "text", which TextView reads
  head,      \* the version the hub has
  frames,    \* announcements on the way to the tab: the edit that saved it, 0 for
             \* somebody else's; -e for the hub's, of words typed in edit e's room
  cached, fresh, \* the text the tab keeps, and whether it is fresh enough to use
  req,       \* the read under way: who reads it as what, and what was served
  code, failed,  \* the editor's code; the page says that it could not be loaded
  page, edit,    \* "read" or "edit"; how often editing has started
  asked, revalidated, \* the edit's own read is out; it was answered
  seed,      \* the version the editor was built from
  mine, banner, \* announced own writes; the banner
  room,      \* who writes the file ("solo": the editor, "live": the hub), the number
             \* of the edit whose words the hub has not written, and company in it
  crashed,   \* a view was given a text it cannot draw
  opened, joined, strays \* history: head when editing started; its read was an
                         \* older one; a frame that is not of this edit's own save

hubVars == <<file, head, frames>>
codeVars == <<code, failed>>
editVars == <<mine, room, banner, strays>>
vars == <<hubVars, cached, fresh, req, codeVars, page, edit, asked, revalidated, seed, editVars, crashed, opened, joined>>

NoRead == [on |-> FALSE, blob |-> FALSE, at |-> 0]
NewRead(blob) == [on |-> TRUE, blob |-> blob, at |-> 0]
visual == file = "html"

\* A read is joined; a refetch replaces it once there is something to show.
fetch(blob) == IF req.on THEN req ELSE NewRead(blob)
Refetched(blob) == IF req.on /\ cached.at = 0 THEN req ELSE NewRead(blob)

\* The page draws what it has: the editor once its read and its code are there.
Shown == page = "edit" /\ revalidated /\ cached.at # 0 /\ cached.blob /\ code = "loaded" /\ ~failed
Render ==
  /\ seed' = IF page' = "read" \/ edit' # edit THEN 0
             ELSE IF seed = 0 /\ Shown' THEN cached'.at ELSE seed
  /\ crashed' = (crashed \/ (page' = "read" /\ file = "text" /\ cached'.at # 0 /\ cached'.blob))

-----------------------------------------------------------------------------
(* The cached text and its reads *)

Serve ==
  /\ req.on /\ req.at = 0 /\ req' = [req EXCEPT !.at = head]
  /\ UNCHANGED <<hubVars, cached, fresh, codeVars, page, edit, asked, revalidated, editVars, opened, joined>>
Arrive ==
  /\ req.on /\ req.at # 0 /\ req' = NoRead
  /\ cached' = [at |-> req.at, blob |-> req.blob] /\ fresh' = TRUE
  /\ revalidated' = (revalidated \/ asked) /\ asked' = FALSE
  /\ UNCHANGED <<hubVars, codeVars, page, edit, editVars, opened, joined>>
\* Not what the code does, for contrast: the copy a failed read leaves is used.
FailsSeeding ==
  /\ req.on /\ req' = NoRead
  /\ revalidated' = (revalidated \/ asked) /\ asked' = FALSE
  /\ UNCHANGED <<hubVars, cached, fresh, codeVars, page, edit, editVars, opened, joined>>
\* A failed read leaves the cached copy in place; that does not seed the editor.
Fails ==
  /\ req.on /\ req' = NoRead /\ asked' = FALSE
  /\ UNCHANGED <<hubVars, cached, fresh, codeVars, page, edit, revalidated, editVars, opened, joined>>
Ages ==
  /\ fresh /\ fresh' = FALSE
  /\ UNCHANGED <<hubVars, cached, req, codeVars, page, edit, asked, revalidated, editVars, opened, joined>>

-----------------------------------------------------------------------------
(* The page *)

Preloaded == IF code = "absent" THEN "loading" ELSE code
\* The pointer rests on Edit: the code and the text are fetched ahead of a click.
prefetchEditText ==
  /\ page = "read" /\ code' = Preloaded
  /\ req' = IF fresh THEN req ELSE fetch(TRUE)
  /\ UNCHANGED <<hubVars, cached, fresh, failed, page, edit, asked, revalidated, editVars, opened, joined>>
\* The room has not answered yet; what the hub holds of one, it keeps.
Unsettled(peers) == room' = [room EXCEPT !.is = "none", !.peers = peers]
EditView ==
  /\ page = "read" /\ edit < MaxEdits /\ edit' = edit + 1 /\ page' = "edit"
  /\ code' = Preloaded /\ failed' = FALSE
  /\ req' = Refetched(TRUE) /\ asked' = TRUE /\ revalidated' = FALSE
  /\ mine' = 0 /\ Unsettled(FALSE) /\ banner' = FALSE /\ strays' = FALSE
  /\ opened' = head /\ joined' = (req.on /\ cached.at = 0)
  /\ UNCHANGED <<hubVars, cached, fresh>>
loadDone ==
  /\ code = "loading" /\ code' = "loaded"
  /\ UNCHANGED <<hubVars, cached, fresh, req, failed, page, edit, asked, revalidated, editVars, opened, joined>>
\* A failed import is forgotten, and an edit that waits for it says so.
loadFails ==
  /\ code = "loading" /\ code' = "absent" /\ failed' = (page = "edit")
  /\ UNCHANGED <<hubVars, cached, fresh, req, page, edit, asked, revalidated, editVars, opened, joined>>
retry ==
  /\ failed /\ failed' = FALSE /\ code' = Preloaded
  /\ UNCHANGED <<hubVars, cached, fresh, req, page, edit, asked, revalidated, editVars, opened, joined>>

Written(by) ==
  /\ head < MaxWrites /\ head' = head + 1 /\ frames' = Append(frames, by)
\* Done: what an editor that saves for itself holds unsaved leaves as it closes,
\* and is read again where reading uses the same text.
Leave ==
  /\ page = "edit" /\ page' = "read" /\ asked' = FALSE /\ revalidated' = FALSE
  /\ \/ UNCHANGED <<head, frames>>
     \/ seed # 0 /\ room.is # "live" /\ Written(edit)
  /\ req' = IF file = "text" /\ ~fresh THEN fetch(FALSE) ELSE req
  /\ Unsettled(FALSE) /\ banner' = FALSE /\ strays' = FALSE /\ failed' = FALSE
  /\ UNCHANGED <<file, cached, fresh, code, edit, opened, joined>>
\* Not what the code does, for contrast: the count outlives the edit.
DoneKeepsCount == Leave /\ mine' = mine
Done == Leave /\ mine' = 0

-----------------------------------------------------------------------------
(* Writes, and the stream that announces them *)

Outsider ==
  /\ Written(0)
  /\ UNCHANGED <<file, cached, fresh, req, codeVars, page, edit, asked, revalidated, editVars, opened, joined>>
\* Not what the code does, for contrast: a flag in place of the count.
onWritingFlag ==
  /\ page = "edit" /\ room.is # "none" /\ mine < MaxWrites /\ mine' = 1
  /\ (Written(edit) \/ UNCHANGED <<head, frames>>)
  /\ UNCHANGED <<file, cached, fresh, req, codeVars, page, edit, asked, revalidated, room, banner, strays, opened, joined>>
\* Each write of the editor is counted before it leaves; it may be refused.  In a
\* live room it makes one only where the user has confirmed that the file shrinks.
onWriting ==
  /\ page = "edit" /\ room.is # "none" /\ mine < MaxWrites /\ mine' = mine + 1
  /\ (Written(edit) \/ UNCHANGED <<head, frames>>)
  /\ UNCHANGED <<file, cached, fresh, req, codeVars, page, edit, asked, revalidated, room, banner, strays, opened, joined>>

InRoom ==
  /\ page = "edit" /\ seed # 0 /\ visual
  /\ UNCHANGED <<hubVars, cached, fresh, req, codeVars, page, edit, asked, revalidated, mine, banner, strays, opened, joined>>
\* The room is live, or given up; a page rendered anew joins it again.
onCollab == InRoom /\ room.is = "none" /\ \E is \in {"solo", "live"} : room' = [room EXCEPT !.is = is]
Rerender == InRoom /\ room.is # "none" /\ Unsettled(room.peers)
onPeers == InRoom /\ room.is = "live" /\ room' = [room EXCEPT !.peers = ~@]
\* Words typed in a live room are the hub's to write.
onDocChange == InRoom /\ room.is = "live" /\ room' = [room EXCEPT !.words = edit]
\* It writes them in its own time, also after the editor has gone.  Where the file
\* says them already, by a save that the room did not make, it only announces them
\* (bound: while no more is on its way than there are versions).
Snapshot ==
  /\ room.words # 0 /\ room' = [room EXCEPT !.words = 0]
  /\ \/ Written(-room.words)
     \/ Len(frames) < head /\ head' = head /\ frames' = Append(frames, -room.words)
  /\ UNCHANGED <<file, cached, fresh, req, codeVars, page, edit, asked, revalidated, mine, banner, strays, opened, joined>>

\* The next writes arrive, several of a moment as one frame, or are missed: the
\* text is read again where it is in use, and the page sorts out whose it was.
Claimed == mine > 0
onPeer ==
  IF page = "edit" /\ visual
  THEN /\ mine' = IF Claimed THEN mine - 1 ELSE mine
       /\ banner' = (banner \/ (~Claimed /\ ~room.peers))
  ELSE UNCHANGED <<mine, banner>>
Frame ==
  \E n \in 1 .. Len(frames) :
    /\ frames' = SubSeq(frames, n + 1, Len(frames))
    /\ \/ /\ onPeer /\ fresh' = FALSE
          /\ strays' = (strays \/ (page = "edit" /\ \E i \in 1 .. n : frames[i] # edit))
          /\ req' = IF page = "edit" \/ file = "text" THEN Refetched(page = "edit") ELSE req
       \/ UNCHANGED <<mine, banner, strays, fresh, req>>
    /\ UNCHANGED <<file, head, cached, codeVars, page, edit, asked, revalidated, room, opened, joined>>

-----------------------------------------------------------------------------
Init ==
  /\ file \in {"html", "text"} /\ head = 1 /\ frames = <<>>
  /\ cached = [at |-> 0, blob |-> FALSE] /\ fresh = FALSE
  /\ req = IF file = "text" THEN NewRead(FALSE) ELSE NoRead
  /\ code = "absent" /\ failed = FALSE /\ page = "read" /\ edit = 0
  /\ asked = FALSE /\ revalidated = FALSE /\ seed = 0
  /\ mine = 0 /\ room = [is |-> "none", words |-> 0, peers |-> FALSE] /\ banner = FALSE /\ crashed = FALSE
  /\ opened = 1 /\ joined = FALSE /\ strays = FALSE

Next ==
  /\ ~crashed
  /\ \/ Serve \/ Arrive \/ Fails \/ Ages
     \/ prefetchEditText \/ EditView \/ loadDone \/ loadFails \/ retry \/ Done
     \/ Outsider \/ onWriting \/ onCollab \/ Rerender \/ onPeers \/ onDocChange
     \/ Snapshot \/ Frame
  /\ Render
Spec == Init /\ [][Next]_vars

-----------------------------------------------------------------------------
(* Properties *)

\* The type invariant.
TypeOK ==
  /\ head \in 1 .. MaxWrites /\ cached.at <= head /\ req.at <= head /\ seed <= head
  /\ (req.at # 0 => req.on) /\ (asked => page = "edit" /\ req.on)
  /\ code \in {"absent", "loading", "loaded"} /\ page \in {"read", "edit"}
  /\ edit \in 0 .. MaxEdits /\ mine \in 0 .. MaxWrites /\ Len(frames) <= MaxWrites
  /\ (mine > 0 => page = "edit") /\ (seed # 0 => page = "edit")
  /\ room.is \in {"none", "solo", "live"} /\ room.words <= edit
  /\ (room.is # "none" => seed # 0 /\ visual)

\* An editor is not built from text that is older than the moment editing
\* started, whatever was cached, failed or was announced meanwhile; unless the
\* first read of the file was out already, which is joined.
SeedFresh == seed # 0 /\ ~joined => seed >= opened

\* The banner is raised by a write that this edit's editor did not save itself,
\* however its own saves, their answers and their frames fall: "the second event then
\* had nothing to claim it and raised the banner on the user's own edit".  What the
\* hub writes for a live room is such a write: nothing counts it.
BannerHasCause == banner => strays

\* The same as SeedFresh with no exception ("A new request, not one already in
\* flight").
SeedRead == seed # 0 => seed >= opened

\* The same as BannerHasCause with no exception: not of the reader's own words that
\* the hub wrote for a live room, nor of an earlier edit's saves ("Alone, the same
\* event means somebody edited outside the room").
BannerIsOthers == [][banner' /\ ~banner => \E i \in 1 .. Len(frames) : frames[i] = 0]_vars

\* No view is given a text in the shape another one cached.
NeverCrashes == ~crashed
=============================================================================
