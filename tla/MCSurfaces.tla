------------------------------ MODULE MCSurfaces ------------------------------
(***************************************************************************)
(* The pages and dialogs of a tab, side by side.  They share no state of     *)
(* their own, so a behaviour follows one of them, `part`; s1 .. s20 hold its *)
(* variables, and those it does not need are 0.                              *)
(***************************************************************************)
EXTENDS Pages_proofs

CONSTANTS
  MaxWrites,                \* of FilePage
  MaxThreads,               \* of Comments
  People, Levels, MaxLinks, \* of Sharing
  InsightFilled             \* the files of Dashboard that hold content at first

VARIABLES part, s17, s18, s19, s20

vars == <<part, s1, s2, s3, s4, s5, s6, s7, s8, s9, s10, s11, s12, s13, s14, s15,
          s16, s17, s18, s19, s20>>

-----------------------------------------------------------------------------
(* The instances *)

\* Dashboard: a file, a folder, and in its place one with a file three levels down,
\* which holds content at first.
MCPlaces == {<<"a">>, <<"d">>, <<"d", "e", "f", "x">>}
MCStart == {<<"a">>, <<"d", "e", "f", "x">>}
MCFilled == {<<"d", "e", "f", "x">>}
MCScopes == {<<>>, <<"d">>}

\* Sidebar: a folder with a file, a conflict copy of it, another file and a
\* system file.
MCPaths == {<<1, 2>>, <<1, 3>>, <<1, 4>>, <<1, 9>>}
MCCopies == [p \in {<<1, 3>>} |-> <<1, 2>>]

\* HistoryFeed: a run of device 1 on file 1, or on both; a change of device 2 that
\* came after it by its clock, and before or after it by the journal; the same note
\* or session as the run's, or none.
Op(d, n, l, t, p, c, r) == [device |-> d, seq |-> n, lamport |-> l, time |-> t,
                            path |-> p, content |-> c, run |-> r]
AllLogs ==
  {{Op(1, 1, 2, 2, 1, 1, <<"session">>), Op(1, 2, 3, 3, p[1], is[1], <<"session">>),
    Op(2, 1, at[1], at[2], 1, is[2], p[2])} :
     p \in {<<1, <<>>>>, <<2, <<"session">>>>},
     is \in {<<0, 2>>, <<2, 0>>, <<2, 2>>}, at \in {<<3, 4>>, <<1, 4>>}}
  \cup {{Op(1, 1, 2, 2, 1, 1, <<"note">>), Op(1, 2, 3, 3, 2, 2, <<"note">>),
         Op(2, 1, 1, 4, 1, 2, <<"note">>)}}
  \cup {{Op(1, 1, 1, 1, 1, 1, <<"session">>), Op(1, 2, 2, 2, 2, 1, <<"session">>),
         Op(1, 3, 3, 3, 1, 2, <<"session">>), Op(2, 1, 4, 2, 1, 1, <<>>)}}
\* Nobody deletes a file nobody made.
Precedes(a, b) == a.lamport < b.lamport \/ (a.lamport = b.lamport /\ a.device < b.device)
MCLogs ==
  {g \in AllLogs : \A o \in g : o.content = 0 => \E x \in g : x.path = o.path /\ Precedes(x, o)}

\* MeetingNote: person 1 is the user, 3 nobody; headings in a fence and out of it.
MCNotes ==
  LET Text(is) == [id |-> 0, is |-> is, who |-> 3]
      Heading(n) == [id |-> 0, is |-> "head", who |-> n]
  IN {<<Text("fence"), Heading(1), Text("fence"), Heading(1)>>,
      <<Heading(2), Heading(1), Text("blank"), Heading(2)>>}

\* NameSearch: words whose letters stand together, apart, at a separator, in the
\* name, above it, after a mark; and letters in both cases.
MCLists ==
  LET a == 11
      b == 12
  IN {<<<<a, b, 0, a, b>>, <<b, a, b>>, <<a, 0, b, 1, a>>>>,
      <<<<a, b, a, 2, b>>, <<a, a + 20, b + 20, a>>, <<b, b, 2, a>>, <<a, 4, b, 0, b, a>>>>,
      <<<<a, a>>, <<b, a>>, <<a, b, b, a, a>>, <<b, a, a>>, <<a, a, a, b>>>>}

C == INSTANCE Comments_proofs WITH
  threads <- s1, list <- s2, read <- s3, calls <- s4, missed <- s5, draft <- s6,
  body <- s7, busy <- s8, tab <- s9, focus <- s10, picking <- s11, framed <- s12,
  page <- s13, pins <- s14, active <- s15, crosshair <- s16, up <- s17, down <- s18,
  made <- s19, acts <- s20
F == INSTANCE FilePage_proofs WITH
  file <- s1, head <- s2, frames <- s3, cached <- s4, fresh <- s5, req <- s6, code <- s7,
  failed <- s8, page <- s9, edit <- s10, asked <- s11, revalidated <- s12, seed <- s13,
  mine <- s14, room <- s15, banner <- s16, crashed <- s17, opened <- s18, joined <- s19,
  strays <- s20
R == INSTANCE NameSearch WITH
  Lists <- MCLists, Typed <- {3, 11, 12, 51}, LIMIT <- 2, TYPO_ROWS <- 1,
  MIN_TYPO_LEN <- 3, MaxQuery <- 4, items <- s1, query <- s2, open <- s3
S == INSTANCE Sharing_proofs WITH
  follow <- s1, rule <- s2, members <- s3, links <- s4, secret <- s5, ended <- s6,
  minting <- s7, others <- s8, folders <- s9, shares <- s10, behind <- s11, page <- s12,
  open <- s13, minted <- s14, pending <- s15, preset <- s16, busy <- s17, ask <- s18,
  calls <- s19, made <- s20
V == INSTANCE VisualEdit WITH
  Elems <- 2, Keeps <- {1, 2}, Retries <- 1, Growth <- 1, Slack <- 0, Secure <- TRUE,
  Disturbed <- FALSE, Joins <- {"room"}, MaxPeer <- 1, MaxTyped <- 1, MaxRaces <- 1,
  file <- s1, doc <- s2, how <- s3, frame <- s4, served <- s5, typed <- s6, post <- s7,
  source <- s8, hashing <- s9, anchors <- s10, anchored <- s11, armed <- s12,
  retried <- s13, differs <- s14, removed <- s15, peers <- s16, keys <- s17, races <- s18

ASSUME PartBounds == C!Bounds /\ F!Bounds /\ S!Bounds

-----------------------------------------------------------------------------
(* The behaviours *)

Zero18 == s19 = 0 /\ s20 = 0
Zero16 == s17 = 0 /\ s18 = 0 /\ Zero18
Zero11 == s12 = 0 /\ s13 = 0 /\ s14 = 0 /\ s15 = 0 /\ s16 = 0 /\ Zero16
Zero10 == s11 = 0 /\ Zero11
Zero4 == s5 = 0 /\ s6 = 0 /\ s7 = 0 /\ s8 = 0 /\ s9 = 0 /\ s10 = 0 /\ Zero10
Zero3 == s4 = 0 /\ Zero4
Zero2 == s3 = 0 /\ Zero3
Spare18 == <<s19, s20>>
Spare16 == <<s17, s18, Spare18>>
Spare11 == <<s12, s13, s14, s15, s16, Spare16>>
Spare10 == <<s11, Spare11>>
Spare4 == <<s5, s6, s7, s8, s9, s10, Spare10>>
Spare3 == <<s4, Spare4>>
Spare2 == <<s3, Spare3>>

Init ==
  \/ part = "anchor" /\ A!Init /\ Zero4
  \/ part = "comments" /\ C!Init
  \/ part = "insights" /\ D!Init /\ (\A p \in InsightFilled : s1[p].size = 1) /\ Zero10
  \/ part = "file" /\ F!Init
  \/ part = "history" /\ H!Init /\ Zero11
  \/ part = "diff" /\ L!Init /\ Zero2
  \/ part = "note" /\ M!Init /\ Zero10
  \/ part = "sidebar" /\ N!Init /\ Zero16
  \/ part = "search" /\ R!Init /\ Zero3
  \/ part = "sharing" /\ S!Init
  \/ part = "settings" /\ T!Init /\ Zero11
  \/ part = "visual" /\ V!Init /\ Zero18

Next ==
  \/ part = "anchor" /\ A!Next /\ UNCHANGED <<part, Spare4>>
  \/ part = "comments" /\ C!Next /\ UNCHANGED part
  \/ part = "insights" /\ D!Next /\ UNCHANGED <<part, Spare10>>
  \/ part = "file" /\ F!Next /\ UNCHANGED part
  \/ part = "history" /\ H!Next /\ UNCHANGED <<part, Spare11>>
  \/ part = "diff" /\ L!Next /\ UNCHANGED <<part, Spare2>>
  \/ part = "note" /\ M!Next /\ UNCHANGED <<part, Spare10>>
  \/ part = "sidebar" /\ N!Next /\ UNCHANGED <<part, Spare16>>
  \/ part = "search" /\ R!Next /\ UNCHANGED <<part, Spare3>>
  \/ part = "sharing" /\ S!Next /\ UNCHANGED part
  \/ part = "settings" /\ T!Next /\ UNCHANGED <<part, Spare11>>
  \/ part = "visual" /\ V!Next /\ UNCHANGED <<part, Spare18>>
Spec == Init /\ [][Next]_vars

\* Bound: two writes of a folder's rule, of a settings page or of a note, in all, by
\* this tab and by others, one of a note while its room answers; two
\* announcements of a file's writes on their way, and two of its own writes counted.
Bounded ==
  /\ part = "file" => Len(s3) <= 2 /\ s14 <= 2
  /\ part = "sharing" /\ s1 = "rule" => s8 + s20 <= 2
  /\ part = "settings" => s5 + s6 <= 2
  /\ part = "note" => s7 + s8 <= IF s2 THEN 1 ELSE 2

-----------------------------------------------------------------------------
(* The properties of the parts *)

\* The type invariant of the part that is followed.
TypeOK ==
  /\ part = "anchor" => A!TypeOK
  /\ part = "comments" => C!TypeOK
  /\ part = "insights" => D!TypeOK
  /\ part = "file" => F!TypeOK
  /\ part = "history" => H!TypeOK
  /\ part = "diff" => L!TypeOK
  /\ part = "note" => M!TypeOK
  /\ part = "sidebar" => N!TypeOK
  /\ part = "search" => R!TypeOK
  /\ part = "sharing" => S!TypeOK
  /\ part = "settings" => T!TypeOK
  /\ part = "visual" => V!TypeOK

\* TextAnchor: a comment whose words are all still there is found at them.
QuoteFound == part = "anchor" => A!QuoteFound

\* Comments and Settings: with every call answered, a page's list is the hub's.
ListsTrue == (part = "comments" => C!ListIsHub) /\ (part = "settings" => T!ListTrue)

\* Comments: the page in the frame picks and marks as the app says.
FrameFollows == part = "comments" => C!FrameFollows

\* Dashboard: a file that was emptied and is still read is flagged, and every surface
\* prints one arithmetic.
EmptiedFound == part = "insights" => D!EmptiedFound
InsightsTrue == EmptiedFound /\ (part = "insights" => D!SurfacesAgree)

\* FilePage: an editor is not built from text older than the edit.
SeedFresh == part = "file" => F!SeedFresh

\* FilePage: the banner is raised by a write that is not this edit's.
BannerHasCause == part = "file" => F!BannerHasCause

\* HistoryFeed: the pages are the top of the history, in its order and once each,
\* and a card holds one run.
FeedTrue == part = "history" => H!FeedOrdered /\ H!FeedIsTop /\ H!CardIsRun

\* HistoryFeed: a row offers a restore exactly when the hub would make one.
OfferIsChange == part = "history" => H!OfferIsChange

\* HistoryFeed: an undone run's files hold what they held before it.
UndoReverts == [][part = "history" => H!Reverts]_vars

\* TextDiff: a diff says what was changed, and the editors' replacement is exact.
DiffTrue == part = "diff" => L!DiffTrue

\* MeetingNote: what the others wrote stays as it was while the room is away.
OthersKept == part = "note" => M!OthersKept

\* Sidebar: what has no row is counted, or stands behind a badge.
FilesAccounted == part = "sidebar" => N!FilesAccounted

\* NameSearch: a query gets the right rows in the right order, and marks its letters.
SearchTrue == part = "search" => R!SearchTrue

\* Sharing: the dialog and the banner show a link exactly when one is live.
LinkTrue == part = "sharing" => S!LinkTrue

\* Sharing and Settings: what is written whole changes only what was chosen, of a
\* rule, and the fields its user touched, of a form.
OnlyChosenWritten ==
  [][(part = "sharing" => S!Edits) /\ (part = "settings" => T!Keeps)]_vars

\* VisualEdit: a patch takes out only what its element held, and the document says
\* what the frame shows.
PatchesLand == part = "visual" => V!SplicesInside /\ V!FrameIsFile
===============================================================================
