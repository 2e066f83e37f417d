---------------------------- MODULE Surfaces_proofs ----------------------------
(***************************************************************************)
(* What the theorems about its parts say of a tab's pages as MCSurfaces      *)
(* composes them: the part that is followed stays, and takes its own steps.  *)
(***************************************************************************)
EXTENDS MCSurfaces

FileOn == part = "file"
CommentsOn == part = "comments"
SharingOn == part = "sharing"
SettingsOn == part = "settings"
HistoryOn == part = "history"
SidebarOn == part = "sidebar"
NoteOn == part = "note"
InsightsOn == part = "insights"
AnchorOn == part = "anchor"

\* A behaviour follows the file page from its first state on, or never.
LEMMA FileFollowed ==
  Spec => (FileOn /\ F!Spec) \/ []~FileOn
<1>1. Init /\ FileOn => F!Init
  BY DEF Init, FileOn
<1>2. FileOn /\ [Next]_vars => FileOn'
  BY DEF Next, vars, FileOn
<1>3. FileOn /\ [Next]_vars => [F!Next]_(F!vars)
  BY DEF Next, vars, F!vars, F!hubVars, F!codeVars, F!editVars, FileOn
<1>4. ~FileOn /\ [Next]_vars => ~FileOn'
  BY DEF Next, vars, FileOn
<1>5. FileOn /\ [][Next]_vars => [][F!Next]_(F!vars)
  BY <1>2, <1>3, PTL
<1>6. ~FileOn /\ [][Next]_vars => []~FileOn
  BY <1>4, PTL
<1>. QED  BY <1>1, <1>5, <1>6, PTL DEF Spec, F!Spec

\* FileView: no editor is built from text older than the moment editing began,
\* unless the file's first read was out already.
THEOREM EditorsAreFresh == Spec => []SeedFresh
<1>1. F!Spec => []F!SeedFresh
  BY PartBounds, F!SeedsAreFresh
<1>2. F!SeedFresh => SeedFresh
  BY DEF SeedFresh
<1>3. ~FileOn => SeedFresh
  BY DEF SeedFresh, FileOn
<1>. QED  BY FileFollowed, <1>1, <1>2, <1>3, PTL

\* FileView: the banner "changed by someone else" has a write behind it that this
\* edit did not make.
THEOREM BannersAreTrue == Spec => []BannerHasCause
<1>1. F!Spec => []F!BannerHasCause
  BY PartBounds, F!BannersHaveCause
<1>2. F!BannerHasCause => BannerHasCause
  BY DEF BannerHasCause
<1>3. ~FileOn => BannerHasCause
  BY DEF BannerHasCause, FileOn
<1>. QED  BY FileFollowed, <1>1, <1>2, <1>3, PTL

-----------------------------------------------------------------------------
\* Or it follows the comments, or never.
LEMMA CommentsFollowed ==
  Spec => (CommentsOn /\ C!Spec) \/ []~CommentsOn
<1>1. Init /\ CommentsOn => C!Init
  BY DEF Init, CommentsOn
<1>2. CommentsOn /\ [Next]_vars => CommentsOn'
  BY DEF Next, vars, CommentsOn
<1>3. CommentsOn /\ [Next]_vars => [C!Next]_(C!vars)
  BY DEF Next, vars, C!vars, C!hubVars, C!pageVars, C!markVars, CommentsOn
<1>4. ~CommentsOn /\ [Next]_vars => ~CommentsOn'
  BY DEF Next, vars, CommentsOn
<1>5. CommentsOn /\ [][Next]_vars => [][C!Next]_(C!vars)
  BY <1>2, <1>3, PTL
<1>6. ~CommentsOn /\ [][Next]_vars => []~CommentsOn
  BY <1>4, PTL
<1>. QED  BY <1>1, <1>5, <1>6, PTL DEF Spec, C!Spec

\* Comments: once the messages both ways are through, a loaded frame marks the open
\* threads under the panel's numbers, with the focus active, and picks if the app
\* says so.
THEOREM FramesFollow == Spec => []FrameFollows
<1>1. C!Spec => []C!FrameFollows
  BY PartBounds, C!FrameFollowsHolds
<1>2. C!FrameFollows => FrameFollows
  BY DEF FrameFollows
<1>3. ~CommentsOn => FrameFollows
  BY DEF FrameFollows, CommentsOn
<1>. QED  BY CommentsFollowed, <1>1, <1>2, <1>3, PTL

-----------------------------------------------------------------------------
\* Or it follows the dialog of who can open a file, or never.
LEMMA SharingFollowed ==
  Spec => ([]SharingOn /\ S!Spec) \/ []~SharingOn
<1>1. Init /\ SharingOn => S!Init
  BY DEF Init, SharingOn
<1>2. SharingOn /\ [Next]_vars => SharingOn'
  BY DEF Next, vars, SharingOn
<1>3. SharingOn /\ [Next]_vars => [S!Next]_(S!vars)
  BY DEF Next, vars, S!vars, S!hubVars, S!cacheVars, S!dialogVars, S!callVars, SharingOn
<1>4. ~SharingOn /\ [Next]_vars => ~SharingOn'
  BY DEF Next, vars, SharingOn
<1>5. SharingOn /\ [][Next]_vars => []SharingOn /\ [][S!Next]_(S!vars)
  BY <1>2, <1>3, PTL
<1>6. ~SharingOn /\ [][Next]_vars => []~SharingOn
  BY <1>4, PTL
<1>. QED  BY <1>1, <1>5, <1>6, PTL DEF Spec, S!Spec

\* Or it follows a settings page, or never.
LEMMA SettingsFollowed ==
  Spec => ([]SettingsOn /\ T!Spec) \/ []~SettingsOn
<1>1. Init /\ SettingsOn => T!Init
  BY DEF Init, SettingsOn
<1>2. SettingsOn /\ [Next]_vars => SettingsOn'
  BY DEF Next, vars, SettingsOn
<1>3. SettingsOn /\ [Next]_vars => [T!Next]_(T!vars)
  BY DEF Next, vars, T!vars, SettingsOn
<1>4. ~SettingsOn /\ [Next]_vars => ~SettingsOn'
  BY DEF Next, vars, SettingsOn
<1>5. SettingsOn /\ [][Next]_vars => []SettingsOn /\ [][T!Next]_(T!vars)
  BY <1>2, <1>3, PTL
<1>6. ~SettingsOn /\ [][Next]_vars => []~SettingsOn
  BY <1>4, PTL
<1>. QED  BY <1>1, <1>5, <1>6, PTL DEF Spec, T!Spec

\* ShareDialog and ShareBanner: with the listing settled a link is shown exactly when
\* the hub has a live one.
THEOREM LinksAreTrue == Spec => []LinkTrue
<1>1. S!Spec => []S!LinkTrue
  BY PartBounds, S!LinkIsTrue
<1>2. S!LinkTrue => LinkTrue
  BY DEF LinkTrue
<1>3. ~SharingOn => LinkTrue
  BY DEF LinkTrue, SharingOn
<1>. QED  BY SharingFollowed, <1>1, <1>2, <1>3, PTL

\* Comments and the settings pages: with every call answered, the list shown is the
\* hub's.
THEOREM ListsComeTrue == Spec => []ListsTrue
<1>. DEFINE OfComments == CommentsOn => C!ListIsHub
            OfSettings == SettingsOn => T!ListTrue
<1>1. C!Spec => []C!ListIsHub
  BY PartBounds, C!ListComesTrue
<1>2. T!Spec => []T!ListTrue
  BY PagesSound, ListComesTrue DEF PagesSound
<1>3. (C!ListIsHub => OfComments) /\ (T!ListTrue => OfSettings)
  OBVIOUS
<1>4. (~CommentsOn => OfComments) /\ (~SettingsOn => OfSettings)
  OBVIOUS
<1>5. OfComments /\ OfSettings => ListsTrue
  BY DEF ListsTrue, CommentsOn, SettingsOn
<1>. HIDE DEF OfComments, OfSettings
<1>6. Spec => []OfComments
  BY CommentsFollowed, <1>1, <1>3, <1>4, PTL
<1>7. Spec => []OfSettings
  BY SettingsFollowed, <1>2, <1>3, <1>4, PTL
<1>. QED  BY <1>5, <1>6, <1>7, PTL

\* What is written whole changes only what was chosen: of a folder's rule that is
\* still what its dialog showed (putRule), and of a project's form the fields its user
\* touched (save).
THEOREM ChosenIsWritten == Spec => OnlyChosenWritten
<1>. DEFINE OfRule == SharingOn => S!Edits
            OfForm == SettingsOn => T!Keeps
<1>1. S!Spec => [][S!Edits]_(S!vars)
  BY S!EditIsChangeHolds DEF S!EditIsChange
<1>2. T!Spec => [][T!Keeps]_(T!vars)
  BY PagesSound, UntouchedIsKept DEF PagesSound, T!UntouchedKept
<1>3. SharingOn /\ [Next]_vars /\ [S!Edits]_(S!vars) => [OfRule]_vars
  <2>1. SharingOn /\ [Next]_vars /\ UNCHANGED S!vars => UNCHANGED vars
    BY DEF Next, vars, S!vars, S!hubVars, S!cacheVars, S!dialogVars, S!callVars, SharingOn
  <2>. QED  BY <2>1
<1>4. SettingsOn /\ [Next]_vars /\ [T!Keeps]_(T!vars) => [OfForm]_vars
  <2>1. SettingsOn /\ [Next]_vars /\ UNCHANGED T!vars => UNCHANGED vars
    BY DEF Next, vars, T!vars, SettingsOn, Spare11, Spare16, Spare18
  <2>. QED  BY <2>1
<1>5. (~SharingOn => OfRule) /\ (~SettingsOn => OfForm)
  OBVIOUS
<1>6. [OfRule]_vars /\ [OfForm]_vars =>
        [(part = "sharing" => S!Edits) /\ (part = "settings" => T!Keeps)]_vars
  BY DEF SharingOn, SettingsOn
<1>. HIDE DEF OfRule, OfForm
<1>7. Spec => [][OfRule]_vars
  BY SharingFollowed, <1>1, <1>3, <1>5, PTL DEF Spec
<1>8. Spec => [][OfForm]_vars
  BY SettingsFollowed, <1>2, <1>4, <1>5, PTL DEF Spec
<1>. QED  BY <1>6, <1>7, <1>8, PTL DEF OnlyChosenWritten

\* Or it follows the activity feed, or never.
LEMMA HistoryFollowed ==
  Spec => ([]HistoryOn /\ H!Spec) \/ []~HistoryOn
<1>1. Init /\ HistoryOn => H!Init
  BY DEF Init, HistoryOn
<1>2. HistoryOn /\ [Next]_vars => HistoryOn'
  BY DEF Next, vars, HistoryOn
<1>3. HistoryOn /\ [Next]_vars => [H!Next]_(H!vars)
  BY DEF Next, vars, H!vars, H!tabVars, HistoryOn
<1>4. ~HistoryOn /\ [Next]_vars => ~HistoryOn'
  BY DEF Next, vars, HistoryOn
<1>5. HistoryOn /\ [][Next]_vars => []HistoryOn /\ [][H!Next]_(H!vars)
  BY <1>2, <1>3, PTL
<1>6. ~HistoryOn /\ [][Next]_vars => []~HistoryOn
  BY <1>4, PTL
<1>. QED  BY <1>1, <1>5, <1>6, PTL DEF Spec, H!Spec

\* planUndo: when the hub has served "undo this run", every file the run wrote holds
\* what it held before the run, whatever devices pushed since.
THEOREM UndoneIsReverted == Spec => UndoReverts
<1>. DEFINE OfUndo == HistoryOn => H!Reverts
<1>1. H!Init => Undoing
  BY HistoryStarts
<1>2. Undoing /\ [H!Next]_(H!vars) => Undoing' /\ [H!Reverts]_(H!vars)
  BY UndoStep
<1>3. H!Spec => [][H!Reverts]_(H!vars)
  BY <1>1, <1>2, PTL DEF H!Spec
<1>4. HistoryOn /\ [Next]_vars /\ [H!Reverts]_(H!vars) => [OfUndo]_vars
  <2>1. HistoryOn /\ [Next]_vars /\ UNCHANGED H!vars => UNCHANGED vars
    BY DEF Next, vars, H!vars, H!tabVars, HistoryOn, Spare11, Spare16, Spare18
  <2>. QED  BY <2>1
<1>5. ~HistoryOn => OfUndo
  OBVIOUS
<1>6. [OfUndo]_vars => [part = "history" => H!Reverts]_vars
  BY DEF HistoryOn
<1>. HIDE DEF OfUndo
<1>7. Spec => [][OfUndo]_vars
  BY HistoryFollowed, <1>3, <1>4, <1>5, PTL DEF Spec
<1>. QED  BY <1>6, <1>7, PTL DEF UndoReverts

\* What the activity view shows is the hub's history in the feed's order, each change
\* once (history.go, handleHistory and histLess), and a card's rows are the changes
\* that undoing it undoes (undorun.go, matchesRun).
THEOREM FeedIsTrue == Spec => []FeedTrue
<1>1. H!Init => FeedRead
  BY FeedStarts
<1>2. FeedRead /\ [H!Next]_(H!vars) => FeedRead'
  BY FeedStep
<1>3. FeedRead => FeedTrue
  BY FeedHolds DEF FeedTrue
<1>4. ~HistoryOn => FeedTrue
  BY DEF FeedTrue, HistoryOn
<1>. QED  BY HistoryFollowed, <1>1, <1>2, <1>3, <1>4, PTL DEF H!Spec

\* A row offers a restore exactly where the hub would make a change of it, as long as
\* the devices' clocks agree with the journal (HistoryView.tsx, restoreSha).
THEOREM OffersAreChanges == Spec => []OfferIsChange
<1>1. H!Init => FeedRead
  BY FeedStarts
<1>2. FeedRead /\ [H!Next]_(H!vars) => FeedRead'
  BY FeedStep
<1>3. FeedRead => OfferIsChange
  BY OffersHold DEF OfferIsChange
<1>4. ~HistoryOn => OfferIsChange
  BY DEF OfferIsChange, HistoryOn
<1>. QED  BY HistoryFollowed, <1>1, <1>2, <1>3, <1>4, PTL DEF H!Spec

\* Or it follows the sidebar, or never.
LEMMA SidebarFollowed ==
  Spec => ([]SidebarOn /\ N!Spec) \/ []~SidebarOn
<1>1. Init /\ SidebarOn => N!Init
  BY DEF Init, SidebarOn
<1>2. SidebarOn /\ [Next]_vars => SidebarOn'
  BY DEF Next, vars, SidebarOn
<1>3. SidebarOn /\ [Next]_vars => [N!Next]_(N!vars)
  BY DEF Next, vars, N!vars, N!treeVars, N!visitVars, N!pinVars, SidebarOn
<1>4. ~SidebarOn /\ [Next]_vars => ~SidebarOn'
  BY DEF Next, vars, SidebarOn
<1>5. SidebarOn /\ [][Next]_vars => []SidebarOn /\ [][N!Next]_(N!vars)
  BY <1>2, <1>3, PTL
<1>6. ~SidebarOn /\ [][Next]_vars => []~SidebarOn
  BY <1>4, PTL
<1>. QED  BY <1>1, <1>5, <1>6, PTL DEF Spec, N!Spec

\* treeview.ts, capped and buildRows: in an unfolded folder every file and folder has
\* a row, is counted by "Show N more", is a system file of a shut group or a copy
\* whose original carries the badge; and the way to the selected path has its rows.
THEOREM FilesAreAccounted == Spec => []FilesAccounted
<1>1. N!Init => TreesRead
  BY TreesStart
<1>2. TreesRead /\ [N!Next]_(N!vars) => TreesRead'
  BY TreesStep
<1>3. TreesRead => FilesAccounted
  BY TreeAccounted DEF TreesRead, FilesAccounted
<1>4. ~SidebarOn => FilesAccounted
  BY DEF FilesAccounted, SidebarOn
<1>. QED  BY SidebarFollowed, <1>1, <1>2, <1>3, <1>4, PTL DEF N!Spec

\* A behaviour that follows a note follows MeetingNote.
LEMMA NoteFollowed ==
  Spec => ([]NoteOn /\ M!Spec) \/ []~NoteOn
<1>1. Init /\ NoteOn => M!Init
  BY DEF Init, NoteOn
<1>2. NoteOn /\ [Next]_vars => NoteOn'
  BY DEF Next, vars, NoteOn
<1>3. NoteOn /\ [Next]_vars => [M!Next]_(M!vars)
  BY DEF Next, vars, M!vars, M!histVars, NoteOn
<1>4. ~NoteOn /\ [Next]_vars => ~NoteOn'
  BY DEF Next, vars, NoteOn
<1>5. NoteOn /\ [][Next]_vars => []NoteOn /\ [][M!Next]_(M!vars)
  BY <1>2, <1>3, PTL
<1>6. ~NoteOn /\ [][Next]_vars => []~NoteOn
  BY <1>4, PTL
<1>. QED  BY <1>1, <1>5, <1>6, PTL DEF Spec, M!Spec

\* lib/cm-meeting.ts, offlineEditable: while the room is away no sequence of edits the
\* guard lets through, taken back and made again, changes, moves or splits what the
\* others wrote, unless the user leaves a code fence open, types into a heading, or
\* takes back or makes again a change from before the loss.
THEOREM OthersAreKept == Spec => []OthersKept
<1>1. M!Init => NoteHolds
  BY HistStarted
<1>2. NoteHolds /\ [M!Next]_(M!vars) => NoteHolds'
  BY NoteStep
<1>3. NoteHolds => OthersKept
  BY FramedIsKept DEF OthersKept, NoteHolds
<1>4. ~NoteOn => OthersKept
  BY DEF OthersKept, NoteOn
<1>. QED  BY NoteFollowed, <1>1, <1>2, <1>3, <1>4, PTL DEF M!Spec

\* A behaviour that follows the dashboard follows Dashboard.
LEMMA InsightsFollowed ==
  Spec => ([]InsightsOn /\ D!Spec) \/ []~InsightsOn
<1>1. Init /\ InsightsOn => D!Init
  BY DEF Init, InsightsOn
<1>2. InsightsOn /\ [Next]_vars => InsightsOn'
  BY DEF Next, vars, InsightsOn
<1>3. InsightsOn /\ [Next]_vars => [D!Next]_(D!vars)
  BY DEF Next, vars, D!vars, D!hubSide, D!choices, InsightsOn
<1>4. ~InsightsOn /\ [Next]_vars => ~InsightsOn'
  BY DEF Next, vars, InsightsOn
<1>5. InsightsOn /\ [][Next]_vars => []InsightsOn /\ [][D!Next]_(D!vars)
  BY <1>2, <1>3, PTL
<1>6. ~InsightsOn /\ [][Next]_vars => []~InsightsOn
  BY <1>4, PTL
<1>. QED  BY <1>1, <1>5, <1>6, PTL DEF Spec, D!Spec

\* components/Insights.tsx, useEmptied: once the tab has the hub's tree and its question
\* is answered, every file that was emptied and is still read is flagged, whichever
\* answers came before; but for a file whose content arrived after it was emptied.
THEOREM EmptiedIsFound == Spec => []EmptiedFound
<1>1. D!Init => AnswersHold
  BY AnswersStart
<1>2. AnswersHold /\ [D!Next]_(D!vars) => AnswersHold'
  BY AnswersStep
<1>3. AnswersHold => EmptiedFound
  BY EmptiedAreFlagged DEF EmptiedFound
<1>4. ~InsightsOn => EmptiedFound
  BY DEF EmptiedFound, InsightsOn
<1>. QED  BY InsightsFollowed, <1>1, <1>2, <1>3, <1>4, PTL DEF D!Spec

\* A behaviour that follows a comment's quote follows TextAnchor.
LEMMA AnchorFollowed ==
  Spec => ([]AnchorOn /\ A!Spec) \/ []~AnchorOn
<1>1. Init /\ AnchorOn => A!Init
  BY DEF Init, AnchorOn
<1>2. AnchorOn /\ [Next]_vars => AnchorOn'
  BY DEF Next, vars, AnchorOn
<1>3. AnchorOn /\ [Next]_vars => [A!Next]_(A!vars)
  BY DEF Next, vars, A!vars, AnchorOn
<1>4. ~AnchorOn /\ [Next]_vars => ~AnchorOn'
  BY DEF Next, vars, AnchorOn
<1>5. AnchorOn /\ [][Next]_vars => []AnchorOn /\ [][A!Next]_(A!vars)
  BY <1>2, <1>3, PTL
<1>6. ~AnchorOn /\ [][Next]_vars => []~AnchorOn
  BY <1>4, PTL
<1>. QED  BY <1>1, <1>5, <1>6, PTL DEF Spec, A!Spec

\* lib/anchor.ts, locate and bestMatch: a comment's mark stands on text that reads as
\* its quote, it has one while the quote is left alone, and it is not put on another
\* occurrence unless that one has all of the same context.
THEOREM QuoteIsFound == Spec => []QuoteFound
<1>1. A!Init => AnchorRead
  BY AnchorStarts
<1>2. AnchorRead /\ [A!Next]_(A!vars) => AnchorRead'
  BY AnchorStep
<1>3. AnchorRead => QuoteFound
  BY QuoteHolds DEF QuoteFound
<1>4. ~AnchorOn => QuoteFound
  BY DEF QuoteFound, AnchorOn
<1>. QED  BY AnchorFollowed, <1>1, <1>2, <1>3, <1>4, PTL DEF A!Spec
=============================================================================
