----------------------------- MODULE TextAnchor -----------------------------
(***************************************************************************)
(* lib/anchor.ts: how a comment finds the text it quotes after the file has  *)
(* been edited and rendered again.  A text is a sequence of characters; 0 is *)
(* a space, which matching ignores.  An anchor is the quote and a little     *)
(* context on either side.                                                   *)
(***************************************************************************)
EXTENDS Naturals, Sequences, FiniteSets, SequencesExt

CONSTANTS
  Letters,      \* the characters that are not spaces
  Context,      \* characters of context kept on a side (the code's 48)
  MaxLen, MaxEdits  \* bounds: the page's length, edits of it

ConstantsSound == Context \in Nat

VARIABLES
  all,      \* the text of the page
  marked,   \* [start, end) of the text that was selected, wherever it is now
  anchor,   \* what the comment stored of it
  edits

vars == <<all, marked, anchor, edits>>

-----------------------------------------------------------------------------
IsSpace(c) == c = 0

\* squash: the characters a match is decided on.  Where each stood is found
\* again by counting them.
squash(s) ==
  LET text[i \in 0 .. Len(s)] ==
        IF i = 0 THEN <<>> ELSE IF IsSpace(s[i]) THEN text[i - 1] ELSE Append(text[i - 1], s[i])
  IN text[Len(s)]

\* The index in s of the k-th character squash keeps.
At(s, k) == CHOOSE i \in 1 .. Len(s) :
              ~IsSpace(s[i]) /\ Len(squash(SubSeq(s, 1, i))) = k

Slice(s, from, to) == SubSeq(s, from + 1, to)

\* How far two texts agree, from the front and from the back.
AgreeFront(a, b) ==
  CHOOSE n \in 0 .. Len(a) :
    /\ n <= Len(b) /\ Slice(a, 0, n) = Slice(b, 0, n)
    /\ n = Len(a) \/ n = Len(b) \/ a[n + 1] # b[n + 1]

AgreeBack(a, b) == AgreeFront(Reverse(a), Reverse(b))

Occurrences(hay, needle) ==
  {i \in 0 .. Len(hay) : i + Len(needle) <= Len(hay)
                         /\ Slice(hay, i, i + Len(needle)) = needle}

Score(hay, i, n, pre, suf) ==
  AgreeBack(Slice(hay, 0, i), pre) + AgreeFront(Slice(hay, i + n, Len(hay)), suf)

\* Not what the code does, for contrast: the first occurrence will do.
firstMatch(hay, needle, pre, suf) ==
  {i \in Occurrences(hay, needle) : \A j \in Occurrences(hay, needle) : i <= j}

\* The occurrence whose neighbours agree with the context for longest, the first
\* of those; none when the quote is gone.
bestMatch(hay, needle, pre, suf) ==
  LET score(i) == Score(hay, i, Len(needle), pre, suf)
      found == Occurrences(hay, needle)
  IN {i \in found : \A j \in found : \/ score(j) < score(i)
                                     \/ score(j) = score(i) /\ i <= j}

\* locate: the span of the text itself, at most one.
locate(text, a) ==
  LET q == squash(a.quote)
  IN IF q = <<>> THEN {}
     ELSE {[start |-> At(text, i + 1) - 1, end |-> At(text, i + Len(q))] :
             i \in bestMatch(squash(text), q, squash(a.prefix), squash(a.suffix))}

\* contextAround and describe: a selection with nothing in it is no anchor.
contextAround(text, start, end) ==
  [prefix |-> Slice(text, IF start > Context THEN start - Context ELSE 0, start),
   suffix |-> Slice(text, end, IF end + Context < Len(text) THEN end + Context ELSE Len(text))]

describe(text, start, end) ==
  IF end <= start \/ squash(Slice(text, start, end)) = <<>> THEN {}
  ELSE {[quote |-> Slice(text, start, end),
         prefix |-> contextAround(text, start, end).prefix,
         suffix |-> contextAround(text, start, end).suffix]}

-----------------------------------------------------------------------------
Texts == UNION {[1 .. n -> Letters \cup {0}] : n \in 1 .. MaxLen}

Init ==
  /\ all \in Texts
  /\ \E s, e \in 0 .. MaxLen :
       /\ e <= Len(all) /\ marked = [start |-> s, end |-> e]
       /\ anchor \in describe(all, s, e)
  /\ edits = 0

\* The file is edited away from the quote and rendered again: a character
\* comes, or goes, or the page wraps it in space.
EditBefore ==
  /\ edits < MaxEdits /\ edits' = edits + 1
  /\ \/ \E i \in 1 .. marked.start + 1, c \in Letters \cup {0} :
          /\ all' = InsertAt(all, i, c)
          /\ marked' = [start |-> marked.start + 1, end |-> marked.end + 1]
     \/ \E i \in 1 .. marked.start :
          /\ all' = RemoveAt(all, i)
          /\ marked' = [start |-> marked.start - 1, end |-> marked.end - 1]
  /\ UNCHANGED anchor

EditAfter ==
  /\ edits < MaxEdits /\ edits' = edits + 1
  /\ \/ \E i \in marked.end + 1 .. Len(all) + 1, c \in Letters \cup {0} :
          all' = InsertAt(all, i, c)
     \/ \E i \in marked.end + 1 .. Len(all) : all' = RemoveAt(all, i)
  /\ UNCHANGED <<anchor, marked>>

\* An edit within the quote: it may be found elsewhere, or nowhere.
EditWithin ==
  /\ edits < MaxEdits /\ edits' = edits + 1
  /\ \E i \in marked.start + 1 .. marked.end, c \in Letters :
       all' = [all EXCEPT ![i] = c]
  /\ UNCHANGED <<anchor, marked>>

Next == EditBefore \/ EditAfter \/ EditWithin

Spec == Init /\ [][Next]_vars

-----------------------------------------------------------------------------
TypeOK ==
  /\ all \in Seq(Letters \cup {0}) /\ marked.start <= marked.end /\ marked.end <= Len(all)
  /\ anchor.quote # <<>> /\ edits \in 0 .. MaxEdits

Same(span, text) == squash(Slice(all, span.start, span.end)) = squash(text)

\* What the quote's own place agrees with of the context it was stored with.
AllOf(span) ==
  /\ AgreeBack(squash(Slice(all, 0, span.start)), squash(anchor.prefix))
       = Len(squash(anchor.prefix))
  /\ AgreeFront(squash(Slice(all, span.end, Len(all))), squash(anchor.suffix))
       = Len(squash(anchor.suffix))

\* A comment's mark stands on text that reads as its quote, and as long as the
\* quote and its context are left alone it is not put on another occurrence,
\* unless that one has all of the same context (anchor.ts, bestMatch).
QuoteFound ==
  LET found == locate(all, anchor)
  IN /\ Cardinality(found) <= 1
     /\ \A s \in found : Same(s, anchor.quote)
     /\ Same(marked, anchor.quote) => found # {}
     /\ Same(marked, anchor.quote) /\ AllOf(marked) => \A s \in found : AllOf(s)
=============================================================================
