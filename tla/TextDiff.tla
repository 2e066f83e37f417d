------------------------------ MODULE TextDiff ------------------------------
(***************************************************************************)
(* What changed between two texts (lib/diff.ts): the line diff the history   *)
(* shows (components/DiffView.tsx), and the single replacement the editors   *)
(* put into a live document.  A text is a sequence of characters; NL ends a  *)
(* line.                                                                   *)
(***************************************************************************)
EXTENDS Integers, Sequences, FiniteSets

CONSTANTS
  Letters, NL,      \* the characters, and the one that ends a line
  MaxLen,           \* bound: the length of a text
  CELL_BUDGET       \* how large a table may be

VARIABLES
  versions, \* the blobs of the version before and of this one
  arrived   \* the ones the page has read: a text, or an error

vars == <<versions, arrived>>

-----------------------------------------------------------------------------
(* What two sequences share *)

Least(x, y) == IF x < y THEN x ELSE y

\* How much they share at the front, of what is left after `used`, and at the back.
FrontLengths(a, b) ==
  {p \in 0..Least(Len(a), Len(b)) : \A i \in 1..p : a[i] = b[i]}
\* Not what the code does, for contrast: the front is counted at the back again.
BackFromAll(a, b, used) ==
  {s \in 0..Least(Len(a), Len(b)) : \A i \in 0..(s - 1) : a[Len(a) - i] = b[Len(b) - i]}
BackLengths(a, b, used) ==
  {s \in 0..(Least(Len(a), Len(b)) - used) : \A i \in 0..(s - 1) : a[Len(a) - i] = b[Len(b) - i]}
Longest(S) == CHOOSE n \in S : \A m \in S : m <= n
Front(a, b) == Longest(FrontLengths(a, b))
Back(a, b) == Longest(BackLengths(a, b, Front(a, b)))

\* The smallest single replacement that turns prev into next: of from + 1 .. to.
textEdit(prev, next) ==
  LET p == Front(prev, next)
      s == Back(prev, next)
  IN [from |-> p, to |-> Len(prev) - s, insert |-> SubSeq(next, p + 1, Len(next) - s)]
Applied(text, e) == SubSeq(text, 1, e.from) \o e.insert \o SubSeq(text, e.to + 1, Len(text))

-----------------------------------------------------------------------------
(* The line diff *)

\* A line break at the end ends the last line, and starts none.
splitLines(t) ==
  LET cuts == {0, Len(t) + 1} \cup {i \in DOMAIN t : t[i] = NL}
      cut[k \in 0..Len(t) + 1] == CHOOSE c \in cuts : Cardinality({x \in cuts : x < c}) = k
      all == [k \in 1..(Cardinality(cuts) - 1) |-> SubSeq(t, cut[k - 1] + 1, cut[k] - 1)]
  IN IF all[Len(all)] = <<>> THEN SubSeq(all, 1, Len(all) - 1) ELSE all

\* A line of the diff: on both sides, or on one, 0 where it is on none.
Row(op, line, an, bn) == <<[op |-> op, line |-> line, an |-> an, bn |-> bn]>>

lcsDiff(a, b) ==
  LET p == Front(a, b)
      s == Back(a, b)
      n == Len(a) - p - s
      m == Len(b) - p - s
      same(i, j) == a[p + i + 1] = b[p + j + 1]
      both(i, j) == Row("=", a[i], i, j)
      del(i) == Row("-", a[p + i + 1], p + i + 1, 0)
      add(j) == Row("+", b[p + j + 1], 0, p + j + 1)
      \* how much of what follows i lines of one and j of the other they share
      L[i \in 0..n, j \in 0..m] ==
        IF i = n \/ j = m THEN 0
        ELSE IF same(i, j) THEN L[i + 1, j + 1] + 1
        ELSE IF L[i + 1, j] >= L[i, j + 1] THEN L[i + 1, j] ELSE L[i, j + 1]
      rest[i \in 0..n, j \in 0..m] ==
        IF i < n /\ j < m /\ same(i, j) THEN both(p + i + 1, p + j + 1) \o rest[i + 1, j + 1]
        ELSE IF i < n /\ (j = m \/ L[i + 1, j] >= L[i, j + 1]) THEN del(i) \o rest[i + 1, j]
        ELSE IF j < m THEN add(j) \o rest[i, j + 1]
        ELSE <<>>
      coarse[i \in 0..n, j \in 0..m] ==
        IF i < n THEN del(i) \o coarse[i + 1, j]
        ELSE IF j < m THEN add(j) \o coarse[i, j + 1] ELSE <<>>
      front[k \in 0..p] == IF k = 0 THEN <<>> ELSE front[k - 1] \o both(k, k)
      back[k \in 0..s] ==
        IF k = 0 THEN <<>> ELSE both(Len(a) - k + 1, Len(b) - k + 1) \o back[k - 1]
  IN front[p] \o (IF n * m > CELL_BUDGET THEN coarse[0, 0] ELSE rest[0, 0]) \o back[s]

Of(ops, lines) == SelectSeq(lines, LAMBDA r : r.op \in ops)
diffText(prev, next) ==
  LET lines == lcsDiff(splitLines(prev), splitLines(next))
  IN [lines |-> lines, add |-> Len(Of({"+"}, lines)), del |-> Len(Of({"-"}, lines))]

-----------------------------------------------------------------------------
(* The panel of a change *)

Texts == UNION {[1..n -> Letters \cup {NL}] : n \in 0..MaxLen}
Blob(kind, text) == [kind |-> kind, text |-> text]
Stored == {Blob("text", t) : t \in Texts} \cup {Blob(k, <<>>) : k \in {"binary", "too-large"}}
\* A first version has none before it.
Absent == Blob("absent", <<>>)
Unread == Blob("unread", <<>>)
Failed == Blob("failed", <<>>)

IsText(v) == arrived[v].kind = "text"

\* Each side is read for itself, and may fail; closing the row and opening it
\* asks again.
Arrive ==
  \E v \in {"prev", "cur"} :
    /\ arrived[v] = Unread /\ versions[v] # Absent
    /\ \E x \in {versions[v], Failed} : arrived' = [arrived EXCEPT ![v] = x]
    /\ UNCHANGED versions
Reopen ==
  /\ \E v \in {"prev", "cur"} : arrived[v] = Failed
  /\ arrived' = [v \in {"prev", "cur"} |-> IF arrived[v] = Failed THEN Unread ELSE arrived[v]]
  /\ UNCHANGED versions

\* What the panel says of the two.
Says ==
  LET has(k) == \E v \in {"prev", "cur"} : arrived[v].kind = k
  IN IF versions.prev = Absent THEN "first"
     ELSE IF has("failed") THEN "failed"
     ELSE IF has("unread") THEN "loading"
     ELSE IF IsText("prev") /\ IsText("cur") THEN "changes"
     ELSE IF has("too-large") THEN "too-large" ELSE "binary"

\* The lines added and taken out, on the row: with nothing before it, all of them
\* are added.
Counted == IsText("cur") /\ (versions.prev = Absent \/ IsText("prev"))
useDiffStat ==
  IF ~Counted THEN {}
  ELSE {diffText(IF versions.prev = Absent THEN <<>> ELSE arrived.prev.text, arrived.cur.text)}

Init ==
  /\ versions \in [prev : Stored \cup {Absent}, cur : Stored]
  /\ arrived = [v \in {"prev", "cur"} |-> Unread]
Next == Arrive \/ Reopen
Spec == Init /\ [][Next]_vars

-----------------------------------------------------------------------------
(* Properties *)

\* The type invariant.
TypeOK ==
  /\ versions \in [prev : Stored \cup {Absent}, cur : Stored]
  /\ \A v \in {"prev", "cur"} : arrived[v] \in {Unread, Failed, versions[v]}

\* The sequences that leave out some of s, in its order.
Kept(s) ==
  {LET at[k \in 1..Cardinality(I)] == CHOOSE i \in I : Cardinality({x \in I : x < i}) = k - 1
   IN [k \in 1..Cardinality(I) |-> s[at[k]]] : I \in SUBSET DOMAIN s}

\* The diff of two texts: its rows are the lines of each, in order and by their
\* numbers, and no diff that fits the table's budget takes out more than it must.
LineDiffTrue(prev, next) ==
  LET a == splitLines(prev)
      b == splitLines(next)
      d == diffText(prev, next)
      old == Of({"=", "-"}, d.lines)
      new == Of({"=", "+"}, d.lines)
  IN /\ Len(old) = Len(a) /\ \A i \in DOMAIN a : old[i].line = a[i] /\ old[i].an = i
     /\ Len(new) = Len(b) /\ \A i \in DOMAIN b : new[i].line = b[i] /\ new[i].bn = i
     /\ (Len(a) * Len(b) <= CELL_BUDGET) =>
          \A c \in Kept(a) \cap Kept(b) : Len(c) <= Len(a) - d.del

\* The replacement turns one text into the other, never runs backwards, and none
\* touches fewer characters.
TextEditTrue(prev, next) ==
  LET e == textEdit(prev, next)
  IN /\ e.from <= e.to /\ Applied(prev, e) = next
     /\ \A p \in FrontLengths(prev, next) : \A s \in BackLengths(prev, next, p) :
          p + s <= e.from + Len(prev) - e.to

\* The panel and the row say what was changed, in lines; and the replacement an
\* open editor would make of it is exact.
DiffTrue ==
  /\ Counted =>
       LET prev == IF versions.prev = Absent THEN <<>> ELSE versions.prev.text
       IN TextEditTrue(prev, versions.cur.text) /\ LineDiffTrue(prev, versions.cur.text)
  /\ Says = "changes" => Counted
==============================================================================
