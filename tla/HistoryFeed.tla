----------------------------- MODULE HistoryFeed -----------------------------
(***************************************************************************)
(* The Activity feed: components/HistoryView.tsx with its rows, filters and  *)
(* side panel, lib/runs.ts (the cards), the hub's pages behind it            *)
(* (history.go, histindex.go), and the three ways back it offers: restore a  *)
(* version, remove a file a run created, undo a whole run (Browser.tsx,      *)
(* restore.go, undorun.go).                                                  *)
(*                                                                         *)
(* A file's content is a small number, 0 when there is no file.  What moved  *)
(* from one path to another, and what a member may not read, are left out.   *)
(***************************************************************************)
EXTENDS Integers, Sequences, FiniteSets, SequencesExt

CONSTANTS
  Paths, Contents,   \* files, and what they hold
  Logs,              \* bound: the operations devices make, in what may happen
  PageSize,          \* entries of a page (the code's 100)
  MaxWrites          \* bound: writes of the browser

\* What is assumed of them: the changes are finitely many, clocks count up from 0,
\* paths and devices are ordered, a device numbers its changes, and 0 is the hub.
ConstantsSound ==
  /\ PageSize \in Nat \ {0}
  /\ \A g \in Logs :
       /\ IsFiniteSet(g) /\ \A o \in g : o.path \in Nat /\ o.lamport \in Nat
       /\ \A o \in g : o.time \in Nat /\ o.device \in Nat \ {0} /\ o.seq \in Nat
       /\ \A a, b \in g : a.device = b.device /\ a.seq = b.seq => a = b

VARIABLES
  log,       \* operations of devices the hub does not hold yet
  ops,       \* the operations it holds
  filter,    \* whose changes: "everyone", "agents" or "people"
  pages,     \* what this tab shows of the feed: how many pages, their entries, and
             \* the cursor to the next; none before the first answer
  fetch,     \* the read under way, at most one
  feedState, \* "pending", "error" or "ready"
  slow,      \* a first read has taken ten seconds
  stale,     \* the hub's history changed since the pages shown were asked for
  sel,       \* the row the side panel shows, by its index; 0 for none
  dialog,    \* the confirmation on screen, at most one
  post       \* the confirmed write under way, at most one

tabVars == <<filter, pages, fetch, feedState, slow, sel, dialog, post>>
vars == <<log, ops, stale, tabVars>>

\* The run an operation belongs to: none, one that carries a session, one known
\* by its note alone, or the undoing of one (whose note names the run).
Runs == {<<>>, <<"session">>, <<"note">>}
undoNote(run) == <<"undo">> \o run
Filters == {"everyone", "agents", "people"}

-----------------------------------------------------------------------------
(* The hub: operations, their two orders, and the feed *)

\* The journal's order is causal; the feed's is the wall clock's, latest first.
Less(a, b) ==
  \/ a.lamport < b.lamport
  \/ a.lamport = b.lamport /\ a.device < b.device
  \/ a.lamport = b.lamport /\ a.device = b.device /\ a.seq < b.seq

Sorted(S, lt(_, _)) ==
  [i \in 1 .. Cardinality(S) |-> CHOOSE x \in S : Cardinality({y \in S : lt(y, x)}) = i - 1]

histLess(a, b) == a.time > b.time \/ (a.time = b.time /\ Less(b, a))

Newest(S) == {o \in S : \A x \in S : x = o \/ Less(x, o)}
On(p) == {o \in ops : o.path = p}
Earlier(o) == {x \in On(o.path) : Less(x, o)}

\* What the newest of some operations on one path leaves there.
Held(S) == IF S = {} THEN 0 ELSE (CHOOSE o \in Newest(S) : TRUE).content
Current(p) == Held(On(p))

\* buildHistIndex: what kind of change an operation was, and the content the
\* path last had before it; a delete of what was gone removed nothing.
Kind(o) == IF o.content = 0 THEN "delete" ELSE IF Held(Earlier(o)) = 0 THEN "add" ELSE "edit"
Prev(o) == IF Kind(o) = "delete" /\ Held(Earlier(o)) = 0 THEN 0
           ELSE Held({x \in Earlier(o) : x.content # 0})
Entry(o) == [op |-> o, kind |-> Kind(o), prev |-> Prev(o)]

Keep(o, f) == CASE f = "agents" -> o.run = <<"session">> [] f = "people" -> o.run # <<"session">> [] OTHER -> TRUE
\* What is past a cursor, all without one.
Past(f, cursor) == Sorted({o \in ops : Keep(o, f) /\ \A c \in cursor : histLess(c, o)}, histLess)
Feed(f) == Past(f, {})

\* Not what the code does, for contrast: the cursor names the first entry left, and a page starts past it.
PageSkips(f, cursor) ==
  LET rest == Past(f, cursor)
      n == IF Len(rest) < PageSize THEN Len(rest) ELSE PageSize
  IN [entries |-> [i \in 1 .. n |-> Entry(rest[i])],
      next |-> IF Len(rest) > n THEN {rest[n + 1]} ELSE {}]

\* handleHistory: the page just past a cursor, and the cursor of its last entry
\* while there is more.
Page(f, cursor) ==
  LET rest == Past(f, cursor)
      n == IF Len(rest) < PageSize THEN Len(rest) ELSE PageSize
  IN [entries |-> [i \in 1 .. n |-> Entry(rest[i])],
      next |-> IF Len(rest) > n THEN {rest[n]} ELSE {}]

-----------------------------------------------------------------------------
(* What the view makes of the pages *)

NoPages == [count |-> 0, entries |-> <<>>, next |-> {}]
With(ps, p) == [count |-> ps.count + 1, entries |-> ps.entries \o p.entries, next |-> p.next]
entries == pages.entries
hasNextPage == pages.next # {}
PathAt(es, i) == es[i].op.path

\* The version before a row: named by the hub, or the nearest older content of
\* the path in the loaded window.
prevBlob(es, i) ==
  IF es[i].prev # 0 \/ es[i].kind = "delete" THEN es[i].prev
  ELSE LET older == {j \in i + 1 .. Len(es) : PathAt(es, j) = PathAt(es, i) /\ es[j].kind # "delete"}
       IN IF older = {} THEN 0 ELSE es[CHOOSE j \in older : \A k \in older : j <= k].op.content

\* A path's content now: its first row decides.
headBlob(es, i) ==
  LET same == {j \in 1 .. Len(es) : PathAt(es, j) = PathAt(es, i)}
  IN es[CHOOSE j \in same : \A k \in same : j <= k].op.content

\* Not what the code does, for contrast: every row of a version restores it.
anyRestoreSha(es, i) == IF es[i].kind = "delete" THEN prevBlob(es, i) ELSE es[i].op.content

\* What a row puts back, and the panel; 0 when that would change nothing.
restoreSha(es, i) ==
  LET sha == IF es[i].kind = "delete" THEN prevBlob(es, i) ELSE es[i].op.content
  IN IF sha = headBlob(es, i) THEN 0 ELSE sha
restorePrev(es, i) == IF prevBlob(es, i) = headBlob(es, i) THEN 0 ELSE prevBlob(es, i)
recreates(es, i) == headBlob(es, i) = 0

\* groupRuns: rows of one session (or, without one, one note) of one device.
sameRun(a, b) == a.run # <<>> /\ a.run = b.run /\ a.device = b.device
Rows(es, i) == {j \in 1 .. Len(es) : sameRun(es[i].op, es[j].op)}
runFileCount(es, rows) == Cardinality({PathAt(es, j) : j \in rows})

\* The cards, each a set of rows, from the second file on; other rows are bare.
groupRuns(es) ==
  {rows \in {Rows(es, i) : i \in 1 .. Len(es)} : runFileCount(es, rows) >= 2}
Bare(es) == (1 .. Len(es)) \ UNION groupRuns(es)

\* Keyboard order: a card sits where its newest row does, its rows within it.
Order(es) ==
  LET cards == groupRuns(es)
      rows == [i \in 1 .. Len(es) |-> i]
      card(i) == UNION {c \in cards : i \in c}
      block(i) == IF card(i) = {} THEN <<i>>
                  ELSE IF \E j \in card(i) : j < i THEN <<>>
                  ELSE SelectSeq(rows, LAMBDA j : j \in card(i))
  IN FoldLeft(LAMBDA shown, i : shown \o block(i), <<>>, rows)

-----------------------------------------------------------------------------
Init ==
  /\ log \in Logs /\ ops = {} /\ stale = FALSE /\ filter = "everyone"
  /\ pages = NoPages /\ fetch = {[want |-> 1, more |-> FALSE, got |-> NoPages]}
  /\ feedState = "pending" /\ slow = FALSE /\ sel = 0
  /\ dialog = {} /\ post = {}

-----------------------------------------------------------------------------
(* Changes reach the hub *)

Clock(S) == CHOOSE l \in {o.lamport : o \in S} \cup {0} : \A o \in S : o.lamport <= l
Own(d) == {o \in ops : o.device = d}

\* The hub's wall clock: not behind any change so far, or those still to come.
Now == CHOOSE t \in {o.time : o \in ops \cup log} : \A o \in ops \cup log : o.time <= t

\* Operations the hub writes itself, all in one append, ahead of all it holds.
\* Each one's clock is the hub's.
HubOps(writes, runs) ==
  LET order == Sorted(writes, LAMBDA a, b : a.path < b.path)
  IN {[device |-> 0, seq |-> Cardinality(Own(0)) + i, lamport |-> Clock(ops) + i,
       time |-> Now, path |-> order[i].path, content |-> order[i].content, run |-> run] :
        i \in 1 .. Len(order), run \in runs}

Append2Hub(new) == ops' = ops \cup new /\ stale' = (stale \/ new # {})

\* A device pushes its next change, possibly made long before others here.
Push(o) ==
  /\ \A x \in log : x.device = o.device => o.seq <= x.seq
  /\ log' = log \ {o} /\ Append2Hub({o}) /\ UNCHANGED tabVars

-----------------------------------------------------------------------------
(* Reading the feed *)

Reading(n) == {[want |-> n, more |-> FALSE, got |-> NoPages]}
HistoryGone == pages' = NoPages /\ fetch' = Reading(1) /\ feedState' = "pending" /\ slow' = FALSE

\* The queries are invalidated (a change event, or an answer of ours): a first
\* read is joined, a later one is given up for a new one of as many pages.
Invalidated ==
  IF pages = NoPages /\ fetch # {} THEN UNCHANGED <<fetch, stale, feedState>>
  ELSE /\ fetch' = Reading(IF pages = NoPages THEN 1 ELSE pages.count) /\ stale' = FALSE
       /\ feedState' = IF pages = NoPages THEN "pending" ELSE feedState

Refresh ==
  /\ stale /\ Invalidated /\ UNCHANGED <<log, ops, filter, pages, slow, sel, dialog, post>>

\* Any read of more pages gives up the one under way.
fetchNextPage ==
  /\ hasNextPage /\ \A f \in fetch : ~f.more
  /\ fetch' = {[want |-> pages.count + 1, more |-> TRUE, got |-> pages]}
  /\ stale' = (stale \/ fetch # {})
  /\ UNCHANGED <<log, ops, filter, pages, feedState, slow, sel, dialog, post>>

\* One page is served and arrives; the read ends at its last page.
Served ==
  \E f \in fetch :
    LET got == With(f.got, Page(filter, f.got.next))
        done == got.count = f.want \/ got.next = {}
    IN /\ fetch' = IF done THEN {} ELSE {[f EXCEPT !.got = got]}
       /\ pages' = IF done THEN got ELSE pages
       /\ feedState' = IF done THEN "ready" ELSE feedState
       /\ slow' = (slow /\ ~done)
       /\ sel' = IF sel > Len(entries') THEN 0 ELSE sel
       /\ UNCHANGED <<log, ops, filter, stale, dialog, post>>

Failed ==
  /\ fetch # {} /\ fetch' = {} /\ feedState' = "error" /\ slow' = FALSE /\ stale' = TRUE
  /\ UNCHANGED <<log, ops, filter, pages, sel, dialog, post>>

\* A hung first read is called one after ten seconds; trying again abandons it.
TimedOut ==
  /\ pages = NoPages /\ feedState = "pending" /\ ~slow /\ slow' = TRUE
  /\ UNCHANGED <<log, ops, stale, filter, pages, fetch, feedState, sel, dialog, post>>

Retry ==
  /\ pages = NoPages /\ (slow \/ feedState = "error")
  /\ HistoryGone /\ stale' = FALSE /\ UNCHANGED <<log, ops, filter, sel, dialog, post>>

\* Another filter is another feed; what was selected is not in it.
SetFilter(f) ==
  /\ f # filter /\ filter' = f /\ HistoryGone /\ sel' = 0 /\ stale' = FALSE
  /\ UNCHANGED <<log, ops, dialog, post>>

-----------------------------------------------------------------------------
(* Choosing a change and undoing it *)

Selected(n) == sel' = n /\ UNCHANGED <<log, ops, stale, filter, pages, fetch, feedState, slow, dialog, post>>

SelectRow == dialog = {} /\ \E i \in 1 .. Len(entries) : Selected(i)

\* j and k walk the rows as they sit on screen; Escape leaves them.
Key ==
  /\ dialog = {} /\ entries # <<>>
  /\ LET order == Order(entries)
         at == IF sel = 0 THEN 0 ELSE CHOOSE n \in 1 .. Len(order) : order[n] = sel
     IN \/ at < Len(order) /\ Selected(order[at + 1])
        \/ at > 1 /\ Selected(order[at - 1])
        \/ at # 0 /\ Selected(0)

Ask(d) == Cardinality(Own(0)) < MaxWrites /\ dialog' = {d} /\ UNCHANGED <<log, ops, stale, filter, pages, fetch, feedState, slow, sel, post>>

\* A row, or the panel, asks to put content back; a row of a card that created
\* its file does not.
AskRestore ==
  /\ dialog = {} /\ post = {}
  /\ LET es == entries IN \E i \in 1 .. Len(es) :
       \/ /\ restoreSha(es, i) # 0
          /\ ~(es[i].kind = "add" /\ i \in UNION groupRuns(es))
          /\ Ask([kind |-> "restore", path |-> PathAt(es, i), content |-> restoreSha(es, i),
                  run |-> {}])
       \/ /\ i = sel /\ restorePrev(es, i) # 0
          /\ Ask([kind |-> "restore", path |-> PathAt(es, i), content |-> restorePrev(es, i),
                  run |-> {}])

AskRemove ==
  /\ dialog = {} /\ post = {}
  /\ \E i \in UNION groupRuns(entries) :
       /\ entries[i].kind = "add"
       /\ Ask([kind |-> "remove", path |-> PathAt(entries, i), content |-> 0, run |-> {}])

\* planUndo, over everything the hub holds: the run's operations, what each of
\* their paths held before the first of them, and the writes that put it back.
matchesRun(o, r) == o.device = r.device /\ o.run = r.run
RunOps(r) == {o \in ops : matchesRun(o, r)}
PreRun(r, p) ==
  Held({o \in On(p) : \A x \in RunOps(r) \cap On(p) : Less(o, x)})

\* Not what the code does, for contrast: what the path held before the last of them.
planUndoLast(r) ==
  LET before(p) == Held({o \in On(p) : \E x \in Newest(RunOps(r) \cap On(p)) : Less(o, x)})
  IN {[path |-> p, content |-> before(p)] :
        p \in {p \in {o.path : o \in RunOps(r)} : Current(p) # before(p)}}

planUndo(r) ==
  {[path |-> p, content |-> PreRun(r, p)] :
     p \in {p \in {o.path : o \in RunOps(r)} : Current(p) # PreRun(r, p)}}

\* The preview comes first; with nothing to undo there is nothing to confirm.
AskUndo ==
  /\ dialog = {} /\ post = {}
  /\ \E rows \in groupRuns(entries) :
       LET r == entries[CHOOSE i \in rows : \A j \in rows : i <= j].op
       IN planUndo(r) # {} /\ Ask([kind |-> "undo", path |-> r.path, content |-> 0, run |-> {r}])

Dismiss ==
  /\ dialog # {} /\ dialog' = {}
  /\ UNCHANGED <<log, ops, stale, filter, pages, fetch, feedState, slow, sel, post>>

Confirm ==
  /\ dialog # {} /\ post' = dialog /\ dialog' = {}
  /\ UNCHANGED <<log, ops, stale, filter, pages, fetch, feedState, slow, sel>>

\* The hub works out the writes when they are asked for, not when they were
\* confirmed, and refuses a restore or a removal that would change nothing, and
\* a restore of what was never a version of the file.
Version(w) == w.content = 0 \/ \E o \in On(w.path) : o.content = w.content
Writes(w) ==
  CASE w.kind = "undo" -> UNION {planUndo(r) : r \in w.run}
    [] OTHER -> IF Current(w.path) = w.content \/ ~Version(w) THEN {}
                ELSE {[path |-> w.path, content |-> w.content]}

PostServed ==
  \E w \in post :
    /\ w.kind # "answered"
    /\ Append2Hub(HubOps(Writes(w), IF w.kind = "undo" THEN UNION {{undoNote(r.run)} : r \in w.run} ELSE {<<>>}))
    /\ post' = IF Writes(w) = {} THEN {} ELSE {[w EXCEPT !.kind = "answered"]}
    /\ UNCHANGED <<log, filter, pages, fetch, feedState, slow, sel, dialog>>

PostDone ==
  /\ \E w \in post : w.kind = "answered"
  /\ post' = {} /\ Invalidated /\ UNCHANGED <<log, ops, filter, pages, slow, sel, dialog>>

-----------------------------------------------------------------------------
Next ==
  \/ \E o \in log : Push(o)
  \/ Refresh \/ fetchNextPage \/ Served \/ Failed \/ TimedOut \/ Retry
  \/ \E f \in Filters : SetFilter(f)
  \/ SelectRow \/ Key \/ AskRestore \/ AskRemove \/ AskUndo
  \/ Dismiss \/ Confirm \/ PostServed \/ PostDone

Spec == Init /\ [][Next]_vars

-----------------------------------------------------------------------------
TypeOK ==
  /\ \A o \in ops : o.path \in Paths /\ o.content \in Contents \cup {0} /\ o.seq > 0 /\ o.lamport > 0
  /\ filter \in Filters /\ feedState \in {"pending", "error", "ready"}
  /\ feedState = "ready" => pages # NoPages
  /\ Cardinality(fetch) <= 1 /\ sel \in 0 .. Len(entries)

\* However pages and operations arrive, the feed is strictly in its order, so
\* no change is shown twice (history.go, histLess: "paging can never disagree
\* with what a reader sees").
FeedOrdered ==
  LET es == entries IN \A i \in 2 .. Len(es) : histLess(es[i - 1].op, es[i].op)

\* A feed nothing reached since it was asked for is the top of the history.
FeedIsTop ==
  pages # NoPages /\ fetch = {} /\ ~stale =>
    LET es == entries
        feed == Feed(filter)
    IN /\ es = [i \in 1 .. Len(es) |-> Entry(feed[i])]
       /\ ~hasNextPage => Len(es) = Len(feed)

\* The whole feed, nothing filtered and nothing missed.
AllLoaded == filter = "everyone" /\ pages # NoPages /\ fetch = {} /\ ~stale /\ ~hasNextPage

\* Where the clocks agree with the journal, a row offers a restore exactly when
\* the hub would make one of it, and says so when it brings a file back
\* (HistoryView.tsx, restoreSha: "exactly what the server checks").
ClocksAgree == \A a, b \in ops : Less(a, b) => a.time <= b.time
OfferIsChange ==
  filter = "everyone" /\ ~stale /\ fetch = {} /\ ClocksAgree =>
    LET es == entries IN \A i \in 1 .. Len(es) :
      LET now == Current(PathAt(es, i))
      IN /\ restoreSha(es, i) # 0 => now # restoreSha(es, i)
         /\ restoreSha(es, i) = 0 => es[i].op.content \in {0, now}
         /\ recreates(es, i) <=> now = 0

\* A card's rows are the changes an undo of it selects, and no other card or
\* bare row has them (undorun.go, matchesRun: "it is groupRuns' key in Go").
CardIsRun ==
  AllLoaded =>
    LET es == entries IN \A rows \in groupRuns(es) : \A i \in rows :
      {es[j].op : j \in rows} = {o \in ops : matchesRun(o, es[i].op)}

\* Once a run is undone, what it touched holds what it held before the run,
\* whatever came between the card, the preview and the confirmation.
Reverts ==
  \A w \in post : w.kind = "undo" /\ w \notin post' =>
    \A r \in w.run : \A p \in {o.path : o \in RunOps(r)} : Current(p)' = PreRun(r, p)
UndoReverts == [][Reverts]_vars

\* The change the panel shows stays the one chosen while the feed is read again.
SelectionStays ==
  [][sel' = sel /\ sel # 0 => entries'[sel].op = entries[sel].op]_vars
=============================================================================
