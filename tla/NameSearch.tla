------------------------------ MODULE NameSearch ------------------------------
(***************************************************************************)
(* The search for names behind the command palette and the sidebar's filter  *)
(* (lib/fuzzy.ts, components/Palette.tsx): the best alignment of each word   *)
(* of the query inside each label, by dynamic programming; the bounded list  *)
(* of the best rows; the one forgiven typo; and the letters each row marks.  *)
(*                                                                         *)
(* Scores are in thousandths: the rounding of doubles is left out.           *)
(***************************************************************************)
EXTENDS Integers, Sequences, FiniteSets, SequencesExt

CONSTANTS
  Lists,        \* the lists of labels the palette may be opened on
  Typed,        \* the characters of a query
  LIMIT, TYPO_ROWS, MIN_TYPO_LEN,
  MaxQuery      \* bound: the length of a query

VARIABLES items, query, open
vars == <<items, query, open>>

-----------------------------------------------------------------------------
(* Characters: letters 11.. in lower case, 31.. in upper, 51.. composed with  *)
(* the mark; the rest separates.                                             *)

SLASH == 0
DASH == 1
DOT == 2
SPACE == 3
MARK == 4
IsLower(c) == c \in 11..30
IsUpper(c) == c \in 31..50
IsLetter(c) == IsLower(c) \/ IsUpper(c)
ToLower(c) == IF IsUpper(c) THEN c - 20 ELSE c

Positions(S) == SetToSortSeq(S, <)
Lowest(S) == CHOOSE x \in S : \A y \in S : x <= y
Greatest(S) == CHOOSE x \in S : \A y \in S : x >= y

\* Lower case and composed, each unit with the stretch of the label it stands for.
fold(label) ==
  LET at == Positions({i \in DOMAIN label : i = 1 \/ label[i] # MARK})
      end(k) == IF k = Len(at) THEN Len(label) ELSE at[k + 1] - 1
      unit(k) == IF at[k] < end(k) /\ IsLetter(label[at[k]]) THEN ToLower(label[at[k]]) + 40
                 ELSE label[at[k]]
  IN [cased |-> [k \in DOMAIN at |-> unit(k)],
      text |-> [k \in DOMAIN at |-> ToLower(unit(k))],
      from |-> at, to |-> [k \in DOMAIN at |-> end(k)]]

\* What a match is worth for the character before it.
bonusClass(prev, c) ==
  CASE prev = SLASH -> 900
    [] prev \in {DASH, SPACE} -> 800
    [] prev = DOT -> 600
    [] IsLower(prev) /\ IsUpper(c) -> 700
    [] OTHER -> 0

\* A label, prepared: `name` characters stand before its last segment.
prepare(label) ==
  LET over(f) ==
        LET name == Greatest({0} \cup {i \in DOMAIN f.text : f.text[i] = SLASH})
            base == SubSeq(f.text, name + 1, Len(f.text))
            dot == Greatest({0} \cup {i \in DOMAIN base : base[i] = DOT})
            before(j) == IF j = 1 THEN SLASH ELSE f.cased[j - 1]
        IN [label |-> label, text |-> f.text, from |-> f.from, to |-> f.to, name |-> name,
            bonus |-> [j \in DOMAIN f.text |-> bonusClass(before(j), f.cased[j])],
            base |-> base, stem |-> IF dot > 1 THEN SubSeq(base, 1, dot - 1) ELSE base]
  IN over(fold(label))

-----------------------------------------------------------------------------
(* The best alignment *)

NONE == -1000000   \* no match
FULL == 1000000    \* the whole range is the word
Stale == 500000    \* what the reused rows held before
Plus(x, y) ==
  IF NONE \in {x, y} THEN NONE ELSE IF FULL \in {x, y} THEN FULL ELSE x + y
Most(x, y) == IF x >= y THEN x ELSE y
Less(x, y) == IF x <= y THEN x ELSE y

\* Where each letter can match at the earliest, after `from`; past the end if nowhere.
Leftmost(tok, text, from) ==
  FoldLeft(LAMBDA lo, c :
             LET past == IF lo = <<>> THEN from ELSE Last(lo)
                 at == {j \in (past + 1)..Len(text) : text[j] = c}
             IN Append(lo, IF at = {} THEN Len(text) + 1 ELSE Lowest(at)),
           <<>>, tok)
hasMatch(tok, text, from) == \A x \in Range(Leftmost(tok, text, from)) : x <= Len(text)

\* The two tables, row by row: the best score with the letter matched here, d, and
\* so far, m.  Row i is filled from begin[i] on.
Table(tok, p, from, begin) ==
  LET m == Len(p.text) - from
      gap(i) == IF i = Len(tok) THEN -5 ELSE -10
      worth(rows, i, j) ==
        IF p.text[from + j] # tok[i] THEN NONE
        ELSE IF i = 1 THEN -5 * (j - 1) + p.bonus[from + j]
        ELSE IF j = 1 THEN NONE
        ELSE Most(Plus(rows[i - 1][j - 1].m, p.bonus[from + j]), Plus(rows[i - 1][j - 1].d, 1000))
      cell(rows, i, row, j) ==
        IF from + j < begin[i] THEN [d |-> Stale, m |-> Stale]
        ELSE LET s == worth(rows, i, j)
                 prev == IF from + j = begin[i] \/ j = 1 THEN NONE ELSE row[j - 1].m
             IN [d |-> s, m |-> Most(s, Plus(prev, gap(i)))]
  IN FoldLeft(LAMBDA rows, i :
                Append(rows, FoldLeft(LAMBDA row, j : Append(row, cell(rows, i, row, j)),
                                      <<>>, [j \in 1..m |-> j])),
              <<>>, [i \in DOMAIN tok |-> i])

\* Not what the code does, for contrast: the greedy walk it replaced.
fzyGreedy(tok, p, from) ==
  LET lo == Leftmost(tok, p.text, from)
      m == Len(p.text) - from
      worth(i) ==
        IF i = 1 THEN -5 * (lo[1] - from - 1) + p.bonus[lo[1]]
        ELSE IF lo[i] = lo[i - 1] + 1 THEN 1000 ELSE p.bonus[lo[i]] - 10 * (lo[i] - lo[i - 1] - 1)
  IN IF Len(tok) = m THEN FULL
     ELSE FoldLeftDomain(LAMBDA s, i : s + worth(i), -5 * (Len(p.text) - Last(lo)), tok)
fzy(tok, p, from) ==
  LET m == Len(p.text) - from
  IN IF Len(tok) = m THEN FULL
     ELSE IF Len(tok) = 1
       THEN Greatest({p.bonus[j] : j \in {k \in (from + 1)..Len(p.text) : p.text[k] = tok[1]}})
              - 5 * (m - 1)
     ELSE Table(tok, p, from, Leftmost(tok, p.text, from))[Len(tok)][m].m

\* The alignment itself, walked back through the whole table.
fzyPositions(tok, p, from) ==
  LET m == Len(p.text) - from
      step(t, w, j) ==
        IF w.i = 0 \/ t[w.i][j].d = NONE \/ (~w.required /\ t[w.i][j].d # t[w.i][j].m) THEN w
        ELSE [i |-> w.i - 1, out |-> <<from + j>> \o w.out,
              required |-> w.i > 1 /\ j > 1 /\ t[w.i][j].m = Plus(t[w.i - 1][j - 1].d, 1000)]
      walk(t) == FoldLeft(LAMBDA w, j : step(t, w, j),
                          [i |-> Len(tok), out |-> <<>>, required |-> FALSE],
                          [k \in 1..m |-> m + 1 - k]).out
  IN IF Len(tok) = m THEN [i \in DOMAIN tok |-> from + i]
     ELSE walk(Table(tok, p, from, [i \in DOMAIN tok |-> from + 1]))

-----------------------------------------------------------------------------
(* Words *)

Match(score, at) == [score |-> score, at |-> at]
Unmatched == Match(NONE, <<>>)

\* The file name first, then the whole path.
scoreToken(tok, p, nameOnly) ==
  IF hasMatch(tok, p.text, p.name)
    THEN Match(Plus(fzy(tok, p, p.name), 500), fzyPositions(tok, p, p.name))
  ELSE IF nameOnly \/ ~hasMatch(tok, p.text, 0) THEN Unmatched
  ELSE Match(fzy(tok, p, 0), fzyPositions(tok, p, 0))

\* The word less one letter of it, each such word once.
drops(tok) ==
  LET each == [k \in DOMAIN tok |-> RemoveAt(tok, k)]
  IN IF Len(tok) < MIN_TYPO_LEN THEN <<>>
     ELSE FoldLeft(LAMBDA out, d : IF d \in Range(out) THEN out ELSE Append(out, d), <<>>, each)

\* Whether some of them can match at all: the front of the word, from the left,
\* ends before its back, from the right, begins.
nearMatch(tok, text, from) ==
  LET n == Len(tok)
      \* where the last k letters start at the latest; 0 when nowhere
      suffix[k \in 0..n] ==
        IF k = 0 THEN Len(text) + 1
        ELSE Greatest({0} \cup {j \in (from + 1)..(suffix[k - 1] - 1) : text[j] = tok[n - k + 1]})
      front == Leftmost(tok, text, from)
      past(k) == IF k = 0 THEN from ELSE front[k]
  IN \E k \in 0..(n - 1) : past(k) <= Len(text) /\ suffix[n - k - 1] > past(k)

scoreTypo(tok, p, nameOnly) ==
  LET foremost(at) ==
        at[CHOOSE k \in DOMAIN at :
             /\ \A x \in DOMAIN at : at[x].score <= at[k].score
             /\ \A x \in 1..(k - 1) : at[x].score < at[k].score]
      paid(s) == Match(Plus(s.score, -1000), s.at)
  IN IF ~nearMatch(tok, p.text, IF nameOnly THEN p.name ELSE 0) \/ drops(tok) = <<>>
       THEN Unmatched
     ELSE paid(foremost([k \in DOMAIN drops(tok) |-> scoreToken(drops(tok)[k], p, nameOnly)]))

\* At most one letter of the word is nowhere in the text.
OneMissing(tok, text) == Cardinality({c \in Range(tok) : IsLower(c)} \ Range(text)) <= 1

\* Every word must match; one may be forgiven, and with `typo` one must be.
scoreLabel(q, p, mode) ==
  LET forgive(tok) ==
        IF OneMissing(tok, IF mode.nameOnly THEN p.base ELSE p.text)
          THEN scoreTypo(tok, p, mode.nameOnly) ELSE Unmatched
      with(acc, s, f) ==
        [score |-> Plus(acc.score, s.score), at |-> acc.at \o s.at,
         forgiven |-> acc.forgiven \/ f]
      next(acc, tok, s) ==
        IF s = Unmatched /\ mode.typo /\ ~acc.forgiven THEN with(acc, forgive(tok), TRUE)
        ELSE with(acc, s, FALSE)
      add(acc, tok) == next(acc, tok, scoreToken(tok, p, mode.nameOnly))
      exact == IF q.whole \in {p.stem, p.base} THEN 2000 ELSE 0
      sum(all) == IF all.score = NONE \/ (mode.typo /\ ~all.forgiven) THEN Unmatched
                  ELSE Match(Plus(all.score, exact), all.at)
  IN sum(FoldLeft(add, [score |-> 0, at |-> <<>>, forgiven |-> FALSE], q.tokens))

-----------------------------------------------------------------------------
(* Rows *)

\* The words of a query, which folds as the labels do.
parse(text) ==
  LET q == [i \in DOMAIN text |-> ToLower(text[i])]
      at == {i \in DOMAIN q : q[i] # SPACE}
      cuts == Positions({0, Len(q) + 1} \cup (DOMAIN q \ at))
      parts == [k \in 1..(Len(cuts) - 1) |-> SubSeq(q, cuts[k] + 1, cuts[k + 1] - 1)]
  IN [whole |-> IF at = {} THEN <<>> ELSE SubSeq(q, Lowest(at), Greatest(at)),
      tokens |-> SelectSeq(parts, LAMBDA w : w # <<>>)]

\* Best first: score, then the shorter label, then the order of the list.
better(list, a, b) ==
  \/ a.score > b.score
  \/ a.score = b.score /\ Len(list[a.index]) < Len(list[b.index])
  \/ a.score = b.score /\ Len(list[a.index]) = Len(list[b.index]) /\ a.index < b.index
\* A bounded list of the best.
Top(list, limit, rows) ==
  FoldLeft(LAMBDA top, x :
             LET k == Greatest({0} \cup {j \in DOMAIN top : ~better(list, x, top[j])})
             IN SubSeq(InsertAt(top, k + 1, x), 1, Less(limit, Len(top) + 1)),
           <<>>, rows)

\* The rows of the labels that match, and, of those of `missed`, the best that
\* match by a typo and score above `best`.
Scored(q, p, mode) ==
  SelectSeq([i \in DOMAIN p |-> [index |-> i, score |-> scoreLabel(q, p[i], mode).score]],
            LAMBDA r : r.score # NONE)
Forgiven(q, p, list, mode, missed, best) ==
  IF \A k \in DOMAIN q.tokens : drops(q.tokens[k]) = <<>> THEN <<>>
  ELSE SelectSeq(Top(list, TYPO_ROWS, SelectSeq(Scored(q, p, mode),
                                                LAMBDA r : r.index \in missed)),
                 LAMBDA r : r.score > best)

\* The characters of its label that a match marks.
Marks(p, match) == UNION {p.from[k]..p.to[k] : k \in Range(match.at)}

\* The rows that are shown: those that match as they stand, `found`, and of the
\* others the misspelled; how many rows there are; and what each marks.
Listing(found, q, p, list, exact) ==
  LET missed == DOMAIN list \ {r.index : r \in Range(found)}
      typo == [nameOnly |-> exact.nameOnly \/ found # <<>>, typo |-> TRUE]
      clean == Top(list, LIMIT, found)
      best == IF found = <<>> THEN NONE ELSE clean[1].score
      mode(i) == IF i \in missed THEN typo ELSE exact
      hit(r) == [index |-> r.index, score |-> r.score,
                 marks |-> Marks(p[r.index], scoreLabel(q, p[r.index], mode(r.index)))]
      page(forgiven) ==
        LET rows == Top(list, LIMIT, clean \o forgiven)
        IN [hits |-> [k \in DOMAIN rows |-> hit(rows[k])],
            total |-> Len(found) + Len(forgiven)]
  IN page(Forgiven(q, p, list, typo, missed, best))

search(text, list, nameOnly) ==
  LET q == parse(text)
      p == [i \in DOMAIN list |-> prepare(list[i])]
      exact == [nameOnly |-> nameOnly, typo |-> FALSE]
  IN IF q.whole = <<>> THEN [hits |-> <<>>, total |-> 0]
     ELSE Listing(Scored(q, p, exact), q, p, list, exact)

-----------------------------------------------------------------------------
(* The palette *)

\* It opens on what the sidebar's filter has typed; its list is made anew with
\* the tree, and every letter searches it.
Open == ~open /\ open' = TRUE /\ query' \in {<<>>, <<11>>} /\ UNCHANGED items
Close == open /\ open' = FALSE /\ UNCHANGED <<items, query>>
Type ==
  /\ open /\ Len(query) < MaxQuery
  /\ \E c \in Typed : query' = Append(query, c)
  /\ UNCHANGED <<items, open>>
Erase == open /\ query # <<>> /\ query' = Front(query) /\ UNCHANGED <<items, open>>
Change == open /\ items' \in Lists /\ UNCHANGED <<query, open>>

Init == items \in Lists /\ query = <<>> /\ open = FALSE
Next == Open \/ Close \/ Type \/ Erase \/ Change
Spec == Init /\ [][Next]_vars

-----------------------------------------------------------------------------
(* Properties *)

\* The type invariant.
TypeOK == items \in Lists /\ query \in Seq(Typed) /\ Len(query) <= MaxQuery /\ open \in BOOLEAN

\* Every way to find the letters of a word in a label, in order, after `from`.
Alignments(tok, p, from) ==
  {E \in kSubset(Len(tok), (from + 1)..Len(p.text)) :
     LET at == Positions(E) IN \A i \in DOMAIN tok : p.text[at[i]] = tok[i]}
\* What one is worth: gaps cost, a letter after the one before it or after a
\* separator pays; a word that is all there is pays most.
Worth(E, p, from) ==
  LET before(j) == {k \in E : k < j}
      gap(j) == j - Greatest(before(j)) - 1
      letter(j) ==
        IF before(j) = {} THEN p.bonus[j] - 5 * (j - from - 1)
        ELSE IF gap(j) = 0 THEN 1000 ELSE p.bonus[j] - 10 * gap(j)
  IN IF E = (from + 1)..Len(p.text) THEN FULL
     ELSE MapThenSumSet(letter, E) - 5 * (Len(p.text) - Greatest(E))

\* Where a word is looked for in a label, and what the best of it is worth.
From(tok, p) == IF Alignments(tok, p, p.name) # {} THEN p.name ELSE 0
Finds(tok, p, nameOnly) == Alignments(tok, p, IF nameOnly THEN p.name ELSE 0) # {}
Best(tok, p) ==
  LET from == From(tok, p)
      top == Greatest({Worth(E, p, from) : E \in Alignments(tok, p, from)})
  IN IF Alignments(tok, p, p.name) # {} THEN Plus(top, 500) ELSE top

\* A word's score is the best there is, and its marks are its letters, in order,
\* where the score was looked for.
AlignTrue(tok, p, nameOnly) ==
  LET got == scoreToken(tok, p, nameOnly)
  IN IF ~Finds(tok, p, nameOnly) THEN got = Unmatched
     ELSE /\ got.score = Best(tok, p)
          /\ Range(got.at) \in Alignments(tok, p, From(tok, p)) /\ Len(got.at) = Len(tok)
\* Besides, they are the alignment that was scored, which the walk back misses.
MarksBest(tok, p) ==
  Worth(Range(scoreToken(tok, p, FALSE).at), p, From(tok, p)) =
    Greatest({Worth(E, p, From(tok, p)) : E \in Alignments(tok, p, From(tok, p))})

\* The words of a query that a label does not hold, and the words less a letter
\* that it holds for one of them.
Bad(q, l, inName) == {k \in DOMAIN q.tokens : ~Finds(q.tokens[k], l, inName)}
Near(q, l, k, inName) == {d \in Range(drops(q.tokens[k])) : Finds(d, l, inName)}

\* A row for the words K of a query, and what else it is worth.
Row(q, p, i, K, more) ==
  LET sum == FoldSet(LAMBDA k, s : Plus(s, Best(q.tokens[k], p[i])), more, K)
  IN [index |-> i,
      score |-> Plus(sum, IF q.whole \in {p[i].stem, p[i].base} THEN 2000 ELSE 0)]

\* The labels that hold all the words, and those that hold all but one, which is
\* misspelled by a letter, in the name if anything else was found.
Held(q, p, nameOnly) ==
  {Row(q, p, i, DOMAIN q.tokens, 0) : i \in {x \in DOMAIN p : Bad(q, p[x], nameOnly) = {}}}
Misspelled(q, p, nameOnly, inName) ==
  {Row(q, p, i, DOMAIN q.tokens \ Bad(q, p[i], inName),
       Greatest({Plus(Best(d, p[i]), -1000) :
                   d \in UNION {Near(q, p[i], k, inName) : k \in Bad(q, p[i], inName)}})) :
     i \in {x \in DOMAIN p :
              /\ Bad(q, p[x], nameOnly) # {} /\ Cardinality(Bad(q, p[x], inName)) = 1
              /\ \A k \in Bad(q, p[x], inName) : Near(q, p[x], k, inName) # {}}}

\* The rows a query should get: every label that holds all its words, and the best
\* misspelled ones, above the rest.
Ahead(list, r, S) == Cardinality({x \in S : better(list, x, r)})
Shown(list, held, typos) ==
  held \cup {r \in typos : /\ Ahead(list, r, typos) < TYPO_ROWS
                           /\ \A c \in held : r.score > c.score}
AreRows(got, list, rows) ==
  /\ Len(got.hits) = Less(LIMIT, Cardinality(rows))
  /\ \A k \in DOMAIN got.hits :
       \E r \in rows : /\ Ahead(list, r, rows) = k - 1
                       /\ got.hits[k].index = r.index /\ got.hits[k].score = r.score
  /\ got.total = Cardinality(rows)
RowsTrue(q, p, nameOnly) ==
  \A held \in {Held(q, p, nameOnly)} :
    AreRows(search(query, items, nameOnly), items,
            Shown(items, held, Misspelled(q, p, nameOnly, nameOnly \/ held # {})))

\* The open palette's rows, and the sidebar's: the right labels in the right order,
\* by the best alignment of every word, and the letters marked spell the words.
SearchTrue ==
  open /\ parse(query).whole # <<>> =>
    \A nameOnly \in BOOLEAN :
      /\ RowsTrue(parse(query), [i \in DOMAIN items |-> prepare(items[i])], nameOnly)
      /\ \A l \in Range(items), k \in DOMAIN parse(query).tokens :
           LET tok == parse(query).tokens[k]
           IN \A w \in {tok} \cup Range(drops(tok)) : AlignTrue(w, prepare(l), nameOnly)
==============================================================================
