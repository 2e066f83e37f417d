----------------------------- MODULE VisualEdit -----------------------------
(***************************************************************************)
(* Click-to-edit of a synced HTML page: components/VisualEdit.tsx, the app's *)
(* half, inline-edit.ts, the script in the sandboxed frame, and the stamps   *)
(* of htmledit.go.  The frame knows which range of the STORED file each      *)
(* element's text came from; the app holds the shared document and turns a   *)
(* patch of the frame into a splice.  The two arrive independently, and the  *)
(* document moves on.                                                        *)
(*                                                                         *)
(* A text is a sequence of characters.  Character k of 1 .. Elems + 1 is the *)
(* markup before element k, so element e's text lies between two of them;    *)
(* further characters are words.  The shared document keeps the characters   *)
(* deleted from it, as the CRDT does, since positions refer to them.         *)
(***************************************************************************)
EXTENDS Naturals, Sequences, FiniteSets, SequencesExt

CONSTANTS
  Elems,        \* how many elements the page has
  Keeps,        \* those whose markup the frame's schema can keep
  Retries,      \* automatic retries of arming (the code's 1)
  Growth, Slack, \* a range may outgrow its stamp: Growth times it and Slack
  Secure,       \* a secure context: the browser can hash the document
  Disturbed,    \* the document may change while a hash of it is computed
  Joins,        \* subset of {"room", "solo"}: what opening may come to
  MaxPeer, MaxTyped, MaxRaces  \* bounds: edits of others, keystrokes, writes

VARIABLES
  file,     \* the stored file
  doc,      \* the Y.Text of this tab: characters, the deleted ones included
  how,      \* "opening", "room", "solo": what docReady came from
  frame,    \* "loading", "ready", or "gone" once the editor is closed
  served,   \* the stored text this frame was stamped from
  typed,    \* the text of each element, as the frame shows it
  post,     \* messages of the frame the app has not handled, in order
  source,   \* the text that the ranges the app holds were measured in: empty
            \* before the frame's ready and after they are given up
  hashing,  \* documents being hashed; own: by the effect that is mounted
  anchors,  \* relative positions, one pair for each range
  anchored, armed,
  retried,  \* retries spent
  differs,  \* history: elements whose text the document may show otherwise
  removed,  \* history: the last splice removed a character not its element's
  peers, keys, races

viewVars == <<how, frame, served, typed, post, source, anchors, anchored, armed>>
vars == <<file, doc, hashing, retried, differs, removed, peers, keys, races, viewVars>>

Page == 1 .. Elems

-----------------------------------------------------------------------------
(* The shared text *)

Alive(d) == SelectSeq(d, LAMBDA c : c.live)
Text(d) == LET l == Alive(d) IN [k \in 1 .. Len(l) |-> l[k].ch]

\* Where the live character at index i stands.  What is inserted at i goes just
\* before it, so behind whatever was deleted there.
Before(d, i) ==
  LET at == {p \in 1 .. Len(d) :
               d[p].live /\ Len(Alive(SubSeq(d, 1, p - 1))) = i}
  IN IF at = {} THEN Len(d) + 1 ELSE CHOOSE p \in at : TRUE

InsertText(d, i, chars) ==
  LET p == Before(d, i)
      new == [k \in 1 .. Len(chars) |->
                [ch |-> chars[k], key |-> Len(d) + k, live |-> TRUE]]
  IN SubSeq(d, 1, p - 1) \o new \o SubSeq(d, p, Len(d))

DeleteText(d, i, n) ==
  [p \in 1 .. Len(d) |->
     IF d[p].live /\ Len(Alive(SubSeq(d, 1, p - 1))) \in i .. i + n - 1
     THEN [d[p] EXCEPT !.live = FALSE] ELSE d[p]]

Filled(t) == [k \in 1 .. Len(t) |-> [ch |-> t[k], key |-> k, live |-> TRUE]]

\* A relative position names the character it stands before; 0 is the end.
RelativePosition(d, i) ==
  LET p == Before(d, i) IN IF p > Len(d) THEN 0 ELSE d[p].key

AbsoluteIndex(d, key) ==
  IF key = 0 THEN Len(Alive(d))
  ELSE Len(Alive(SubSeq(d, 1, (CHOOSE p \in 1 .. Len(d) : d[p].key = key) - 1)))

-----------------------------------------------------------------------------
(* The server's stamps: the inner range of each element that holds text. *)

At(t, ch) == CHOOSE p \in 1 .. Len(t) : t[p] = ch
Span(t, e) == [el |-> e, start |-> At(t, e), end |-> At(t, e + 1) - 1]
InnerOf(t, e) == SubSeq(t, At(t, e) + 1, At(t, e + 1) - 1)

Spans(t) == IF t = <<>> THEN {}
            ELSE {Span(t, e) : e \in {e \in Page : InnerOf(t, e) # <<>>}}

\* The page the editor is opened on: one word in each element.
Opened == [k \in 1 .. 2 * Elems + 1 |->
             IF k % 2 = 1 THEN (k + 1) \div 2 ELSE Elems + 1 + k \div 2]

\* The gate of the frame: an element is edited only when it is stamped and its
\* markup survives being parsed and written out again.
Editable == {r.el : r \in Spans(served)} \cap Keeps

\* A character nobody has written yet.
Fresh == 2 * Elems + 2 + peers + keys + races

-----------------------------------------------------------------------------
Init ==
  /\ file = Opened /\ doc = Filled(Opened)
  /\ how = "opening" /\ frame = "loading" /\ served = Opened
  /\ typed = [e \in Page |-> <<>>] /\ post = <<>>
  /\ source = <<>> /\ hashing = {} /\ anchors = {}
  /\ anchored = FALSE /\ armed = FALSE /\ retried = 0
  /\ differs = {} /\ removed = FALSE
  /\ peers = 0 /\ keys = 0 /\ races = 0

Mounted == frame # "gone"

\* A generation: the frame is loaded again, the effect runs from the start and
\* opens the document anew.  Hashes of the effect that is gone still come back.
Reset(pending) ==
  /\ how' = "opening" /\ frame' = "loading" /\ post' = <<>>
  /\ source' = <<>> /\ anchors' = {} /\ anchored' = FALSE /\ armed' = FALSE
  /\ hashing' = {[h EXCEPT !.own = FALSE] : h \in pending}
  /\ differs' = {}
  /\ UNCHANGED <<served, typed>>

\* The frame's load: the hub stamps the file as it is stored now, and the
\* script in it reports what it was stamped with.
FrameLoads ==
  /\ frame = "loading" /\ frame' = "ready" /\ served' = file
  /\ typed' = [e \in Page |-> InnerOf(file, e)]
  /\ post' = Append(post, [type |-> "ready", el |-> 0, html |-> <<>>])
  /\ UNCHANGED <<file, doc, how, source, hashing, anchors, anchored, armed,
                 retried, differs, removed, peers, keys, races>>

\* anchorRanges, up to its wait: only with ranges and a document that is ready
\* and not empty.
MayAnchor(s, state, d) ==
  ~anchored /\ s # <<>> /\ state # "opening" /\ Text(d) # <<>>

\* No range runs past the end of the document; one that does asks for another
\* render.
Fits(s, d) == \A r \in Spans(s) : r.end <= Len(Text(d))

\* Not what the code does, for contrast: only the frame's report makes the app anchor.
AnchorRangesOnReport(s, state, d) ==
  IF MayAnchor(s, state, d) /\ source = <<>>
  THEN hashing' = hashing \cup {[text |-> Text(d), own |-> TRUE]}
  ELSE UNCHANGED hashing

AnchorRanges(s, state, d) ==
  IF MayAnchor(s, state, d)
  THEN hashing' = hashing \cup {[text |-> Text(d), own |-> TRUE]}
  ELSE UNCHANGED hashing

\* onReady, or onSolo: no peer then, and the tab fills the document itself
\* with the bytes it was mounted with.
DocReady(as) ==
  LET d == IF as = "solo" THEN Filled(Opened) ELSE doc
  IN /\ Mounted /\ how = "opening" /\ as \in Joins
     /\ doc' = d
     /\ UNCHANGED <<file, retried, removed, peers, keys, races>>
     /\ IF MayAnchor(source, as, d) /\ ~Fits(source, d)
        THEN Reset(hashing)
        ELSE /\ how' = as
             /\ AnchorRanges(source, as, d)
             /\ UNCHANGED <<frame, served, typed, post, source, anchors,
                            anchored, armed, differs>>

\* Not what the code does, for contrast: lengths are compared where a hash is to be had.
MovedByLength(text, s) == Len(text) # Len(s)

\* The comparison after the wait: by hash, or by length where the browser
\* cannot hash.
MovedSince(text, s) == IF Secure THEN text # s ELSE Len(text) # Len(s)

Anchored(d, s) ==
  {[el |-> r.el, span |-> r.end - r.start,
    from |-> RelativePosition(d, r.start),
    to |-> RelativePosition(d, r.end)] : r \in Spans(s)}

\* The hash is back.  Only the text that was hashed is compared: the anchors are
\* built on the document as it is now.  An effect that is gone can still ask
\* for a generation or call the new one armed.
HashDone ==
  \E h \in hashing :
    /\ UNCHANGED <<file, doc, retried, removed, peers, keys, races>>
    /\ \/ /\ Mounted
          /\ IF h.own THEN source # <<>> /\ MovedSince(h.text, source)
                      ELSE MovedSince(h.text, served)
          /\ Reset(hashing \ {h})
       \/ /\ h.own /\ source # <<>> /\ ~MovedSince(h.text, source)
          /\ anchors' = Anchored(doc, source)
          /\ anchored' = TRUE /\ armed' = TRUE
          /\ hashing' = hashing \ {h}
          /\ UNCHANGED <<how, frame, served, typed, post, source, differs>>
       \/ /\ ~h.own \/ source = <<>> \/ ~Mounted
          /\ hashing' = hashing \ {h}
          /\ armed' \in IF h.own THEN {armed} ELSE {armed, TRUE}
          /\ UNCHANGED <<how, frame, served, typed, post, source, anchors,
                         anchored, differs>>

-----------------------------------------------------------------------------
(* Messages of the frame *)

\* No document changes while a hash of it is computed, unless Disturbed.
Quiet == Disturbed \/ hashing = {}

ReadyArrives ==
  /\ Mounted /\ post # <<>> /\ Head(post).type = "ready"
  /\ UNCHANGED <<file, doc, retried, removed, peers, keys, races>>
  /\ IF MayAnchor(served, how, doc) /\ ~Fits(served, doc)
     THEN Reset(hashing)
     ELSE /\ post' = Tail(post) /\ source' = served
          /\ AnchorRanges(served, how, doc)
          /\ UNCHANGED <<how, frame, served, typed, anchors, anchored, armed, differs>>

\* Not what the code does, for contrast: the new text goes in first, and is what the deletion takes.
SplicedBefore(d, from, to, chars) ==
  DeleteText(InsertText(d, from, chars), from, to - from)

\* One character range replaced by another text, in one transaction.
Spliced(d, from, to, chars) == InsertText(DeleteText(d, from, to - from), from, chars)

Resolved(a) == [el |-> a.el, span |-> a.span,
                from |-> AbsoluteIndex(doc, a.from), to |-> AbsoluteIndex(doc, a.to)]

\* A range that has grown out of all proportion, or has become the whole of a
\* document it was a part of.
Implausible(r) ==
  \/ r.from = 0 /\ r.to = Len(Text(doc)) /\ r.span < Len(Text(doc))
  \/ r.to - r.from > r.span * Growth + Slack

\* The text of a patch lands in the document.  What others typed at the edge of
\* the range is not in it, and stays.
Lands(r, html) ==
  /\ doc' = Spliced(doc, r.from, r.to, html)
  /\ removed' = \E k \in r.from + 1 .. r.to :
                  k \notin Span(Text(doc), r.el).start + 1 .. Span(Text(doc), r.el).end
  /\ differs' = {e \in differs : e # r.el \/ removed' \/ InnerOf(Text(doc'), e) # html}

PatchArrives ==
  /\ Mounted /\ Quiet /\ post # <<>> /\ Head(post).type = "patch"
  /\ UNCHANGED <<file, retried, peers, keys, races>>
  /\ LET known == {Resolved(a) : a \in {a \in anchors : a.el = Head(post).el}}
     IN \/ /\ \E r \in known : Implausible(r)
           /\ Reset(hashing)
           /\ UNCHANGED <<doc, removed>>
        \/ /\ ~\E r \in known : r.from <= r.to
           /\ post' = Tail(post)
           /\ differs' = differs \cup {Head(post).el}
           /\ UNCHANGED <<doc, hashing, removed, how, frame, served, typed, source,
                          anchors, anchored, armed>>
        \/ /\ \E r \in known : r.from <= r.to /\ ~Implausible(r) /\ Lands(r, Head(post).html)
           /\ post' = Tail(post)
           /\ UNCHANGED <<hashing, how, frame, served, typed, source, anchors,
                          anchored, armed>>

\* A keystroke in an element that was clicked, whether or not the app is armed:
\* the frame posts the element's whole text each time.
Type(e, erase) ==
  /\ frame = "ready" /\ keys < MaxTyped /\ keys' = keys + 1
  /\ e \in Editable
  /\ IF erase THEN typed[e] # <<>> /\ typed' = [typed EXCEPT ![e] = <<>>]
     ELSE typed' = [typed EXCEPT ![e] = Append(@, Fresh)]
  /\ post' = Append(post, [type |-> "patch", el |-> e, html |-> typed'[e]])
  /\ UNCHANGED <<file, doc, how, frame, served, source, hashing, anchors, anchored,
                 armed, retried, differs, removed, peers, races>>

-----------------------------------------------------------------------------
(* Everything else that moves *)

\* A co-editor's edit in the room: a word typed at the start or the end of an
\* element, or an element emptied.  The observer tries to anchor again.
PeerEdit(e) ==
  LET s == Span(Text(doc), e)
  IN /\ "room" \in Joins /\ Quiet /\ peers < MaxPeer /\ peers' = peers + 1
     /\ \/ \E i \in {s.start, s.end} : doc' = InsertText(doc, i, <<Fresh>>)
        \/ s.start < s.end /\ doc' = DeleteText(doc, s.start, s.end - s.start)
     /\ UNCHANGED <<file, retried, removed, keys, races>>
     /\ IF how = "room" /\ Mounted /\ MayAnchor(source, how, doc') /\ ~Fits(source, doc')
        THEN Reset(hashing)
        ELSE /\ IF how = "room" /\ Mounted THEN AnchorRanges(source, how, doc')
                                           ELSE UNCHANGED hashing
             /\ differs' = differs \cup {e}
             /\ UNCHANGED viewVars

\* The hub writes the room's text to the file; alone, this tab saves its own.
Snapshot ==
  /\ how = "solo" => armed
  /\ file # Text(doc) /\ file' = Text(doc)
  /\ UNCHANGED <<doc, hashing, retried, differs, removed, peers, keys, races, viewVars>>

\* Somebody writes the file outside the room while it is being opened.  The hub
\* brings a write to the room; a tab on its own keeps what it was opened with.
Outside ==
  /\ ~anchored /\ Mounted /\ Quiet /\ races < MaxRaces /\ races' = races + 1
  /\ file' = InsertAt(file, 2, Fresh)
  /\ doc' = IF "room" \in Joins THEN InsertText(doc, 1, <<Fresh>>) ELSE doc
  /\ differs' = differs \cup {1}
  /\ UNCHANGED <<hashing, retried, removed, peers, keys, viewVars>>

\* Eleven seconds without anchors: one more generation, once.
RetryTimer ==
  /\ Mounted /\ ~anchored /\ retried < Retries /\ retried' = retried + 1
  /\ Reset(hashing)
  /\ UNCHANGED <<file, doc, removed, peers, keys, races>>

\* Done: the frame's element goes at once, and its messages with it.
Close ==
  /\ Mounted /\ frame' = "gone" /\ post' = <<>>
  /\ UNCHANGED <<file, doc, how, served, typed, source, hashing, anchors, anchored,
                 armed, retried, differs, removed, peers, keys, races>>

-----------------------------------------------------------------------------
System == FrameLoads \/ (\E as \in Joins : DocReady(as)) \/ HashDone
          \/ ReadyArrives \/ PatchArrives

Next ==
  \/ System \/ Snapshot
  \/ \E e \in Page : Type(e, TRUE) \/ Type(e, FALSE) \/ PeerEdit(e)
  \/ Outside \/ RetryTimer \/ Close

\* The browser loads the frame, delivers messages and hashes, the connection
\* opens or gives up, and the hub's idle timer writes the room's text.
Fairness ==
  /\ WF_vars(FrameLoads) /\ WF_vars(HashDone)
  /\ WF_vars(\E as \in Joins : DocReady(as))
  /\ WF_vars(ReadyArrives \/ PatchArrives) /\ WF_vars(Snapshot)

Spec == Init /\ [][Next]_vars /\ Fairness

-----------------------------------------------------------------------------
TypeOK ==
  /\ how \in {"opening", "room", "solo"} /\ frame \in {"loading", "ready", "gone"}
  /\ typed \in [Page -> Seq(Nat)] /\ source \in Seq(Nat) /\ served \in Seq(Nat)
  /\ \A h \in hashing : h.own \in BOOLEAN
  /\ {anchored, armed, removed} \subseteq BOOLEAN
  /\ anchored => anchors # {}
  /\ retried \in 0 .. Retries /\ differs \subseteq Page

\* A patch takes out of the shared document only characters of the element it
\* was typed in, whatever the others typed since the page was stamped
\* (VisualEdit.tsx, the splice and the checks before it).
SplicesInside == ~removed

\* Once the frame's messages are handled, the document says what the frame shows
\* in every element nobody else has touched since (inline-edit.ts flush).
FrameIsFile ==
  anchored /\ post = <<>> /\ Mounted =>
    \A a \in anchors : a.el \notin differs => InnerOf(Text(doc), a.el) = typed[a.el]

\* An editor that stays open comes to answer clicks (VisualEdit.tsx, "one
\* automatic retry, never a reload loop").
ArmedOrClosed == armed \/ ~Mounted
Arms == <>ArmedOrClosed
=============================================================================
