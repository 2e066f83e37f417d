-------------------------------- MODULE MCTab --------------------------------
(***************************************************************************)
(* What a tab has to get done while nobody looks: its cached listings heal,  *)
(* the router settles, the visual editor arms.  The three share no state; a  *)
(* behaviour follows one of them, and the tabs of LiveTabs rest as they were  *)
(* loaded while it is another (s1 .. s18 hold that one's variables).         *)
(***************************************************************************)
EXTENDS LiveTabs

CONSTANTS Segments, Order, NameOf, OrgOf, Files, URLs, Listed, Platforms, MaxMoves \* of PageRouter

VARIABLES part, s1, s2, s3, s4, s5, s6, s7, s8, s9, s10, s11, s12,
          s13, s14, s15, s16, s17, s18

others == <<s1, s2, s3, s4, s5, s6, s7, s8, s9, s10, s11, s12,
            s13, s14, s15, s16, s17, s18>>
allVars == <<part, vars, others>>

-----------------------------------------------------------------------------
(* The instances of the other two *)

Note == <<"notes", "a">>
Draft == <<"drafts", "a">>

Plain(segs) == [segs |-> segs, slash |-> FALSE, v |-> FALSE, full |-> FALSE,
                target |-> <<>>, filters |-> FALSE, connect |-> FALSE]

\* One URL for each way an address can need rewriting, or cannot be resolved.
MCURLs ==
  {Plain(<<>>),
   Plain(<<"p2", "settings">>),
   [Plain(<<"p1">> \o Note) EXCEPT !.full = TRUE],
   [Plain(<<"p1", "edit">> \o Note) EXCEPT !.slash = TRUE],
   [Plain(<<"wiki">> \o Note) EXCEPT !.v = TRUE, !.slash = TRUE],
   [Plain(<<"docs", "history", "notes">>) EXCEPT !.filters = TRUE],
   [Plain(<<"p1", "activity">>) EXCEPT !.target = Note, !.filters = TRUE],
   [Plain(<<"p1", "dashboard", "notes">>) EXCEPT !.slash = TRUE],
   Plain(<<"nobody", "notes", "a">>),
   Plain(<<"join", "p3">>),
   Plain(<<"notes">>)}

\* Three projects, two of them namesakes; the third is of an organization that
\* the account may be invited to.
MCSegments == STRING
MCOrder == <<"p1", "p2", "p3">>
MCNames == [p1 |-> "wiki", p2 |-> "docs", p3 |-> "docs"]
MCOrgs == [p1 |-> "acme", p2 |-> "acme", p3 |-> "other"]
MCFiles == {Note, Draft}

\* For the run on fullscreen: one link to a file in full.
MCPasted == {[Plain(<<"p1">> \o Note) EXCEPT !.full = TRUE]}

R == INSTANCE PageRouter WITH Typed <- URLs,
  platform <- s1, entries <- s2, pos <- s3, projects <- s4, deleted <- s5, list <- s6,
  joined <- s7, last <- s8, panel <- s9, pushed <- s10, files <- s11, movedTo <- s12,
  tree <- s13, resolves <- s14, doing <- s15, made <- s16, missedList <- s17, moves <- s18
V == INSTANCE VisualEdit WITH
  Elems <- 2, Keeps <- {1, 2}, Retries <- 1, Growth <- 1, Slack <- 0, Secure <- TRUE,
  Disturbed <- FALSE, Joins <- {"room"}, MaxPeer <- 1, MaxTyped <- 1, MaxRaces <- 1,
  file <- s1, doc <- s2, how <- s3, frame <- s4, served <- s5, typed <- s6, post <- s7,
  source <- s8, hashing <- s9, anchors <- s10, anchored <- s11, armed <- s12,
  retried <- s13, differs <- s14, removed <- s15, peers <- s16, keys <- s17, races <- s18

ASSUME RouterAssumption == R!ConstantsSound /\ R!FilesAddressed /\ R!IdsUnguessed

-----------------------------------------------------------------------------
\* The other tabs rest.
Resting == Init /\ thing = "tree"
NoOthers ==
  /\ s1 = 0 /\ s2 = 0 /\ s3 = 0 /\ s4 = 0 /\ s5 = 0 /\ s6 = 0 /\ s7 = 0 /\ s8 = 0 /\ s9 = 0
  /\ s10 = 0 /\ s11 = 0 /\ s12 = 0 /\ s13 = 0 /\ s14 = 0 /\ s15 = 0 /\ s16 = 0 /\ s17 = 0 /\ s18 = 0

TabInit ==
  \/ part = "live" /\ Init /\ NoOthers
  \/ part = "router" /\ R!Init /\ Resting
  \/ part = "visual" /\ V!Init /\ Resting

TabNext ==
  \/ part = "live" /\ Next /\ UNCHANGED <<part, others>>
  \/ part = "router" /\ R!Next /\ UNCHANGED <<part, vars>>
  \/ part = "visual" /\ V!Next /\ UNCHANGED <<part, vars>>

\* Each part's own fairness.
TabFairness ==
  /\ WF_others(part = "router" /\ R!Redirect)
  /\ WF_others(part = "router" /\ R!ListLands) /\ WF_others(part = "router" /\ R!TreeLands)
  /\ WF_others(part = "router" /\ (R!CreateDone \/ R!DeleteDone \/ R!JoinDone))
  /\ WF_others(part = "visual" /\ V!FrameLoads)
  /\ WF_others(part = "visual" /\ V!HashDone)
  /\ WF_others(part = "visual" /\ V!DocReady("room"))
  /\ WF_others(part = "visual" /\ (V!ReadyArrives \/ V!PatchArrives))
  /\ WF_others(part = "visual" /\ V!Snapshot)
  /\ WF_vars(part = "live" /\ onmessage)
  /\ WF_vars(part = "live" /\ Connected)
  /\ \A t \in Tabs : WF_vars(part = "live" /\ TabSteps(t)) /\ WF_vars(part = "live" /\ Poll(t))
TabSpec == TabInit /\ [][TabNext]_allVars /\ TabFairness

-----------------------------------------------------------------------------
(* The properties of the parts; StaysCurrent and Heals are those of LiveTabs *)

\* The type invariants of the three.
TabTypeOK ==
  /\ TypeOK
  /\ part = "router" => R!TypeOK
  /\ part = "visual" => V!TypeOK

\* PageRouter: a new project's own page is found.
OwnFound == part = "router" => R!OwnProjectFound

\* PageRouter: the address bar settles.
AddressSettles == []<>(part = "router" => ~R!Redirecting)

\* PageRouter: no address becomes another's by itself (RedirectKeepsSubject,
\* ExitStays).
AddressKept == [][part = "router" => R!KeepsSubject /\ R!StaysOnFile]_others

\* VisualEdit: an editor that stays open comes to answer clicks.
Arms == <>(part = "visual" => V!ArmedOrClosed)
=============================================================================
