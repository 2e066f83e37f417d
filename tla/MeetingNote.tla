----------------------------- MODULE MeetingNote -----------------------------
(***************************************************************************)
(* A meeting note open in one browser: its `## Name` sections                *)
(* (lib/meeting.ts), the guard that keeps typing inside one's own section    *)
(* while the room is unreachable (lib/cm-meeting.ts), and the command that   *)
(* carries open items over from the note before it (lib/cm-slash.ts).       *)
(*                                                                         *)
(* A note is a sequence of lines.  What the others write reaches it while    *)
(* the room is live; what they wrote meanwhile comes when it is live again,  *)
(* and merges, whatever was typed here (Yjs, external).                      *)
(***************************************************************************)
EXTENDS Naturals, Sequences, FiniteSets, SequencesExt

CONSTANTS
  Names, Mine, Nobody,         \* names, those of this user, and one that is nobody's
  Notes,                       \* the notes a behaviour may start from
  MaxLines, MaxEdits, MaxPeer  \* bounds: lines, edits of this user, edits of the others

VARIABLES
  note,    \* the lines on screen
  live,    \* the room answers
  carry,   \* a note before this one is being read for its open items
  blocked, \* the last edit was refused, and the user told so
  held,    \* the lines outside the user's own section when the room was lost
  loose,   \* since then, the own section had a fence left open, or lost its heading,
           \* or a change from before was taken back or made again
  done, undone, \* the editor's history: the text before each change, and after each
                \* that was taken back; `since`, whether the room was away already
  edits, others

histVars == <<done, undone>>
vars == <<note, live, carry, blocked, held, loose, histVars, edits, others>>

\* A line: a heading of a person, the title, a code fence, an empty bullet, or
\* text.  Lines that were there when the room was lost have an id, others 0.
Kinds == {"head", "title", "fence", "blank", "text"}
Line(is, who) == [id |-> 0, is |-> is, who |-> who]
Lines == {Line("head", n) : n \in Names \ {Nobody}} \cup {Line(is, Nobody) : is \in Kinds \ {"head"}}

\* A change in the editor's history.
Change(t, since) == [text |-> t, since |-> since]
Changed == done' = Append(done, Change(note, ~live)) /\ undone' = <<>>
Unnumbered(t) == [i \in DOMAIN t |-> [t[i] EXCEPT !.id = 0]]
Before(changes) == [i \in DOMAIN changes |-> Change(Unnumbered(changes[i].text), FALSE)]

\* What is assumed of the constants: notes are made of such lines, and within bounds.
ConstantsSound ==
  /\ Nobody \in Names /\ MaxLines \in Nat /\ MaxEdits \in Nat /\ MaxPeer \in Nat
  /\ \A n \in Notes : n \in Seq([id : {0}, is : Kinds, who : Names]) /\ Len(n) <= MaxLines

-----------------------------------------------------------------------------
(* Sections *)

Odd(S) == Cardinality(S) % 2 = 1
FencesBefore(t, i) == {k \in 1..(i - 1) : t[k].is = "fence"}

\* Headings inside fenced code blocks are not headings.
Heading(t, i) == t[i].is \in {"head", "title"} /\ ~Odd(FencesBefore(t, i))

\* A section runs to the next heading, or to the end.
SectionEnd(t, i) ==
  LET next == {k \in (i + 1)..Len(t) : Heading(t, k)}
  IN IF next = {} THEN Len(t) ELSE (CHOOSE k \in next : \A x \in next : k <= x) - 1
sections(t) ==
  {[at |-> i, end |-> SectionEnd(t, i), name |-> t[i].who] :
     i \in {k \in DOMAIN t : t[k].is = "head" /\ Heading(t, k)}}

sameName(name) == name \in Mine
\* The first section that is this user's, as a set of at most one.
Own(t) ==
  LET mine == {s \in sections(t) : sameName(s.name)}
  IN {s \in mine : \A x \in mine : s.at <= x.at}

-----------------------------------------------------------------------------
(* The guard.  A place in the note: line i starts at 2i - 1 and ends at 2i.   *)

StartOf(i) == 2 * i - 1
EndOf(i) == 2 * i
At(place) == [from |-> place, to |-> place]
Span(a, b) == [from |-> a, to |-> b]

\* Not what the code does, for contrast: where the range starts decides.
editableByStart(t, ranges) ==
  \E s \in Own(t) : \A r \in ranges : r.from >= EndOf(s.at) /\ r.from <= EndOf(s.end)
offlineEditable(t, ranges) ==
  \E s \in Own(t) : \A r \in ranges : r.from >= EndOf(s.at) /\ r.to <= EndOf(s.end)

\* A code fence the user left open, or a heading typed into.
OwnLines(t) == {i \in DOMAIN t : \A h \in held : t[i].id # h.id}
Loose(t) ==
  \/ Odd({i \in OwnLines(t) : t[i].is = "fence"})
  \/ \E h \in held : h.is = "head" /\ \E i \in DOMAIN t : t[i].id = h.id /\ t[i].who # h.who

\* A transaction of this user's: refused whole, with a word, when any range of
\* it leaves the own section while the room is away.
Dispatch(ranges, t) ==
  /\ edits < MaxEdits /\ edits' = edits + 1 /\ Len(t) <= MaxLines
  /\ IF live \/ offlineEditable(note, ranges)
       THEN /\ note' = t /\ blocked' = FALSE /\ Changed
            /\ loose' = (~live /\ (loose \/ Loose(t)))
       ELSE blocked' = TRUE /\ UNCHANGED <<note, loose, histVars>>
  /\ UNCHANGED <<live, held, others>>

-----------------------------------------------------------------------------
(* What this user types *)

\* Enter at the end of a line, and a line.
NewLine ==
  \E i \in DOMAIN note, l \in Lines :
    Dispatch({At(EndOf(i))}, InsertAt(note, i + 1, l)) /\ UNCHANGED carry
\* A line becomes another.
Retype ==
  \E i \in DOMAIN note, l \in Lines :
    /\ note[i].is # l.is
    /\ Dispatch({Span(StartOf(i), EndOf(i))}, ReplaceAt(note, i, l)) /\ UNCHANGED carry
\* Typing at the end of a heading makes it another name.
TypeAtHeading ==
  \E i \in DOMAIN note :
    /\ note[i].is = "head" /\ note[i].who # Nobody
    /\ Dispatch({At(EndOf(i))}, [note EXCEPT ![i].who = Nobody]) /\ UNCHANGED carry
\* One line or two are cut, apart by two cursors, each with the break before it.
Cut ==
  \E i, j \in DOMAIN note :
    /\ 1 < i /\ i <= j
    /\ Dispatch({Span(EndOf(k - 1), EndOf(k)) : k \in {i, j}},
                RemoveAt(IF i = j THEN note ELSE RemoveAt(note, j), i))
    /\ UNCHANGED carry

-----------------------------------------------------------------------------
(* Carrying over *)

\* The command takes its own text out of a line, and the note before this one is
\* read; by the time it answers the cursor may be anywhere.
Carry ==
  \E i \in DOMAIN note :
    /\ ~carry /\ note[i].is = "blank" /\ Dispatch({At(EndOf(i))}, note)
    /\ carry' = ~blocked'
\* An empty bullet is replaced by the items; other lines are followed by them.
Carried ==
  /\ carry /\ carry' = FALSE
  /\ \/ \E i \in DOMAIN note :
          IF note[i].is = "blank"
            THEN Dispatch({Span(StartOf(i), EndOf(i))}, ReplaceAt(note, i, Line("text", Nobody)))
            ELSE Dispatch({At(EndOf(i))}, InsertAt(note, i + 1, Line("text", Nobody)))
     \/ UNCHANGED <<note, live, blocked, held, loose, histVars, edits, others>> \* no note, no items

-----------------------------------------------------------------------------
(* Taking back.  The editor's history holds the others' changes too, and what *)
(* it dispatches passes by the guard.                                        *)

Again(change) ==
  /\ note' = change.text /\ blocked' = FALSE
  /\ loose' = (~live /\ (loose \/ ~change.since))
  /\ UNCHANGED <<live, carry, held, edits, others>>
undo ==
  /\ done # <<>> /\ Again(Last(done))
  /\ done' = Front(done) /\ undone' = Append(undone, Change(note, Last(done).since))
redo ==
  /\ undone # <<>> /\ Again(Last(undone))
  /\ undone' = Front(undone) /\ done' = Append(done, Change(note, Last(undone).since))

-----------------------------------------------------------------------------
(* The room *)

\* The lines outside the own section's body are the others' to change.
Drop ==
  LET lines == [i \in DOMAIN note |-> [note[i] EXCEPT !.id = i]]
      mine == UNION {(s.at + 1)..s.end : s \in Own(note)}
  IN /\ live /\ live' = FALSE /\ note' = lines
     /\ held' = {lines[i] : i \in DOMAIN note \ mine} /\ loose' = FALSE
     /\ done' = Before(done) /\ undone' = Before(undone)
     /\ UNCHANGED <<carry, blocked, edits, others>>

\* Back: what is kept of the lines is what the merge keeps.
Reconnect ==
  /\ ~live /\ live' = TRUE /\ held' = {} /\ loose' = FALSE
  /\ note' = Unnumbered(note) /\ done' = Before(done) /\ undone' = Before(undone)
  /\ UNCHANGED <<carry, blocked, edits, others>>

\* Carries no user event: never refused.
Remote ==
  /\ live /\ others < MaxPeer /\ others' = others + 1
  /\ \E i \in DOMAIN note :
       \/ \E l \in Lines : Len(note) < MaxLines /\ note' = InsertAt(note, i + 1, l)
       \/ i > 1 /\ note' = RemoveAt(note, i)
  /\ Changed /\ UNCHANGED <<live, carry, blocked, held, loose, edits>>

Init ==
  /\ note \in Notes /\ live = TRUE /\ carry = FALSE /\ blocked = FALSE
  /\ held = {} /\ loose = FALSE /\ done = <<>> /\ undone = <<>> /\ edits = 0 /\ others = 0
Next ==
  \/ NewLine \/ Retype \/ TypeAtHeading \/ Cut \/ Carry \/ Carried \/ undo \/ redo
  \/ Drop \/ Reconnect \/ Remote
Spec == Init /\ [][Next]_vars

-----------------------------------------------------------------------------
(* Properties *)

\* The type invariant.
Texts == {t \in Seq([id : 0..MaxLines, is : Kinds, who : Names]) : Len(t) <= MaxLines}
TypeOK ==
  /\ note \in Texts
  /\ \A h \in {done, undone} : \A i \in DOMAIN h : h[i].text \in Texts /\ h[i].since \in BOOLEAN
  /\ held \subseteq [id : 1..MaxLines, is : Kinds, who : Names]
  /\ live \in BOOLEAN /\ carry \in BOOLEAN /\ loose \in BOOLEAN
  /\ edits \in 0..MaxEdits /\ blocked \in BOOLEAN /\ others \in 0..MaxPeer
  /\ live => held = {} /\ ~loose

\* While the room is away, no sequence of edits, taken back and made again, changes
\* what stood outside the user's own section, nor puts a line there ("so a stale copy
\* cannot overwrite a teammate's live section when it merges back"), as long as the
\* user left no code fence open, typed into no heading, and took back or made again
\* nothing from before the loss: the first two move the end of the section, or the
\* section itself, over what the others wrote; the guard does not see the third.
OthersKept ==
  ~live /\ ~loose =>
    /\ \A h \in held : \E i \in DOMAIN note : note[i] = h
    /\ \A i, k \in OwnLines(note) : i..k \subseteq OwnLines(note)
    /\ \A i \in OwnLines(note) : \E s \in Own(note) : i > s.at

\* The same with nothing left out, which the code does not keep.
OthersAlwaysKept == \A h \in held : \E i \in DOMAIN note : note[i].id = h.id
==============================================================================
