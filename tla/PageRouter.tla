------------------------------ MODULE PageRouter ------------------------------
(***************************************************************************)
(* The address bar of the web application: router.ts (what a URL means and *)
(* which URL a page has), nav.ts (the history stack), HubApp and VolumeApp *)
(* (which page a URL shows, and the redirects that make it canonical), and *)
(* the route half of Browser (moved files, fullscreen, opening a path).    *)
(*                                                                         *)
(* A path is a sequence of segments; a URL is the segments of its          *)
(* pathname, whether it ends in a separator, and the query parameters that *)
(* are read.  The percent-encoding of one segment is left out.             *)
(***************************************************************************)
EXTENDS Naturals, Sequences, FiniteSets, SequencesExt

CONSTANTS
  Segments,    \* what a segment of an address can be
  Order,       \* the project ids, in the order the hub lists them
  NameOf,      \* the name of each project
  OrgOf,       \* the organization of each project
  Files,       \* the paths a file can be at, in the first project
  Typed,       \* URLs a person may type, paste or bookmark
  Listed,      \* the projects of the account when the app is opened
  Platforms,   \* subset of {"hub", "desktop", "volume"}
  MaxMoves     \* bound: clicks, writes of others, failures

Ids == ToSet(Order)

Addresses == [segs : Seq(Segments), slash : BOOLEAN, v : BOOLEAN, full : BOOLEAN,
              target : Seq(Segments), filters : BOOLEAN, connect : BOOLEAN]

\* First segments that name a screen of the app and never a project.
Screens == {"orgs", "billing", "connections", "join", "setup"}
Words == Screens \cup {"edit", "dashboard", "history", "insights", "activity", "install",
                       "settings"}

\* What is assumed of them: the ids differ, have names and are no screen's (the
\* hub mints UUIDs), a path has a segment.
ConstantsSound ==
  /\ Words \subseteq Segments
  /\ IsInjective(Order) /\ Order \in Seq(Segments \ Screens)
  /\ DOMAIN NameOf = Ids /\ DOMAIN OrgOf = Ids /\ Listed \subseteq Ids
  /\ \A p \in Files : p \in Seq(Segments) /\ p # <<>>
  /\ Typed \subseteq Addresses

\* Nobody guesses an id before the hub has minted it.
IdsUnguessed ==
  \A u \in Typed : u.segs = <<>> \/ Head(u.segs) \notin Ids \ Listed

VARIABLES
  platform,   \* what the server says it is; fixed when the page is loaded
  entries, pos, \* the browser's history stack and the entry shown
  projects,   \* projects the account has, on the hub
  deleted,    \* projects that are no more; an id is never used again
  list,       \* the cached ["projects"] answer: {} before it came, else {set}
  joined,     \* HubApp.joinedOrgId, as {} or {org}
  last,       \* localStorage: the project opened last, as {} or {id}
  panel,      \* HubApp.panel: the hub settings cover the content pane
  pushed,     \* Browser.pushedFull
  files,      \* the files of the first project, on the hub
  movedTo,    \* pairs <<from, to>> the hub can resolve
  tree,       \* the cached tree of the first project: {} or {set}
  resolves,   \* cached ["resolve", path] answers: pairs
  doing,      \* the operation waiting for its answer
  made,       \* ghost: projects this tab created or joined
  missedList, \* ghost: a refresh of the list failed
  moves

vars == <<platform, entries, pos, projects, deleted, list, joined, last, panel, pushed,
          files, movedTo, tree, resolves, doing, made, missedList, moves>>

hubVars == <<projects, deleted, files, movedTo>>
tabVars == <<list, joined, tree, resolves>>

-----------------------------------------------------------------------------
(* router.ts *)

\* Not what the code does, for contrast: the view keeps the segment it once had.
OldViewSegments == [dashboard |-> "dashboard", history |-> "activity",
                    install |-> "install", settings |-> "settings"]

ViewSegments == [dashboard |-> "insights", history |-> "activity",
                 install |-> "install", settings |-> "settings"]
SegmentViews == [insights |-> "dashboard", activity |-> "history",
                 install |-> "install", settings |-> "settings"]
LegacyViews == [dashboard |-> "dashboard", history |-> "history"]

\* No file lies where its address would be that of a view or of its editor
\* (router.ts: such a file is reached from the tree alone).
FilesAddressed ==
  \A p \in Files : Head(p) \notin {"edit"} \cup DOMAIN LegacyViews
                                  \cup DOMAIN SegmentViews

URLAt(segs) == [segs |-> segs, slash |-> FALSE, v |-> FALSE, full |-> FALSE,
                target |-> <<>>, filters |-> FALSE, connect |-> FALSE]

NoRoute == [org |-> <<>>, billing |-> FALSE, connections |-> FALSE,
            project |-> <<>>, path |-> <<>>, view |-> "none", viewTarget |-> <<>>,
            legacyView |-> FALSE, trailingSlash |-> FALSE,
            queryTarget |-> FALSE, version |-> FALSE, full |-> FALSE,
            editing |-> FALSE, connect |-> FALSE, filters |-> FALSE]

\* A trailing separator is flagged only when there was something before it.
withPath(r, segs, slash) ==
  [r EXCEPT !.path = segs, !.trailingSlash = slash /\ segs # <<>>]

takeEdit(r) ==
  IF r.path # <<>> /\ Head(r.path) = "edit"
  THEN [r EXCEPT !.editing = TRUE, !.path = Tail(@)]
  ELSE r

takeView(r) ==
  LET head == IF r.path = <<>> THEN "none" ELSE Head(r.path)
      legacy == head \in DOMAIN LegacyViews
      canonical == head \in DOMAIN SegmentViews
  IN IF legacy \/ canonical
     THEN [r EXCEPT !.view = IF canonical THEN SegmentViews[head]
                                          ELSE LegacyViews[head],
                    !.legacyView = legacy,
                    !.viewTarget = Tail(r.path),
                    !.path = <<>>]
     ELSE r

parsePath(u, mode) ==
  LET segs == u.segs
      head == IF segs = <<>> THEN "none" ELSE Head(segs)
      inProject == withPath([NoRoute EXCEPT !.project = <<head>>],
                            Tail(segs), u.slash)
  IN IF mode = "volume" THEN takeEdit(withPath(NoRoute, segs, u.slash))
     ELSE IF head = "orgs" THEN [NoRoute EXCEPT !.org = Tail(segs)]
     ELSE IF head = "billing" THEN [NoRoute EXCEPT !.billing = TRUE]
     ELSE IF head = "connections" THEN [NoRoute EXCEPT !.connections = TRUE]
     ELSE IF segs = <<>> THEN NoRoute
     ELSE IF Len(segs) > 1 /\ segs[2] = "edit" THEN takeEdit(inProject)
     ELSE takeView(inProject)

\* The query half: a version, fullscreen, filters, and the history target in
\* the form the History API takes it; a target in the path wins.
parseRoute(u, mode) ==
  LET r == parsePath(u, mode)
      byQuery == r.view = "history" /\ r.viewTarget = <<>> /\ u.target # <<>>
  IN [r EXCEPT !.version = u.v, !.full = u.full, !.connect = u.connect,
               !.filters = u.filters,
               !.viewTarget = IF byQuery THEN u.target ELSE @,
               !.queryTarget = byQuery]

\* No file, no editor: "edit" alone names nothing.
urlForPath(path, project, version, full, editing) ==
  LET page == IF path # <<>> /\ editing THEN <<"edit">> \o path ELSE path
  IN [URLAt(project \o page) EXCEPT !.v = version, !.full = full]

urlForView(view, project, target, filters) ==
  [URLAt(project \o <<ViewSegments[view]>> \o target)
     EXCEPT !.filters = view = "history" /\ filters]

\* A name resolves only when exactly one project has it.
projectByName(ids, seg) ==
  LET hits == {i \in ids : <<NameOf[i]>> = seg}
  IN IF Cardinality(hits) = 1 THEN hits ELSE {}

-----------------------------------------------------------------------------
(* HubApp: which page the current URL shows. *)

here == entries[pos]
mode == IF platform = "volume" THEN "volume" ELSE "hub"
route == parseRoute(here, mode)

known == UNION list

first(ids) ==
  {Order[k] : k \in {k \in DOMAIN Order :
                       Order[k] \in ids /\ \A j \in 1 .. k - 1 : Order[j] \notin ids}}

\* The URL's project, else one of the organization just joined, else the one
\* opened last, else the first listed.
choose(r, ids, org, opened) ==
  LET byURL == {i \in ids : <<i>> = r.project}
      byOrg == first({i \in ids : OrgOf[i] \in org})
      byLast == opened \cap ids
  IN IF byURL # {} THEN byURL ELSE IF byOrg # {} THEN byOrg
     ELSE IF byLast # {} THEN byLast ELSE first(ids)

current(r) == choose(r, known, joined, last)

Go(u) == [page |-> "redirect", to |-> {u}]
Show(what) == [page |-> what, to |-> {}]

joinToken == here.segs # <<>> /\ Head(here.segs) = "join"
setupStep == platform = "desktop" /\ here.segs # <<>> /\ Head(here.segs) = "setup"

\* Not what the code does, for contrast: the version is lost with the name.
missingProjectLatest(r) ==
  LET named == projectByName(known, r.project)
  IN IF named = {} THEN Show("notfound")
     ELSE Go(urlForPath(r.path, <<CHOOSE n \in named : TRUE>>, FALSE, r.full,
                        r.editing))

\* A first segment that names no listed project: its one namesake, or the
\* not-found page, at the address as it was typed.
missingProject(r) ==
  LET named == projectByName(known, r.project)
  IN IF named = {} THEN Show("notfound")
     ELSE Go(LET i == <<CHOOSE n \in named : TRUE>>
             IN IF r.view # "none"
                THEN urlForView(r.view, i, r.viewTarget, r.filters)
                ELSE urlForPath(r.path, i, r.version, r.full, r.editing))

\* The landing page, renamed views, query targets and trailing separators are
\* each replaced by the one address of the page they name.
canonical(r, i) ==
  IF r.org = <<>> /\ ~r.billing /\ ~r.connections /\ r.project # i
  THEN Go(URLAt(i))
  ELSE IF r.view # "none" /\ (r.legacyView \/ r.queryTarget)
  THEN Go(urlForView(r.view, i, r.viewTarget, r.filters))
  ELSE IF r.trailingSlash /\ r.path # <<>>
  THEN Go(urlForPath(r.path, i, r.version, r.full, r.editing))
  ELSE Show("project")

HubPage(r) ==
  LET cur == current(r)
  IN IF joinToken THEN Show("join")
     ELSE IF setupStep THEN Show("setup")
     ELSE IF list = {} THEN Show("loading")
     ELSE IF platform = "desktop" /\ known = {} THEN Go(URLAt(<<"setup">>))
     ELSE IF cur = {} THEN Show("empty")
     ELSE IF r.project # <<>> /\ r.project \notin {<<i>> : i \in known}
     THEN missingProject(r)
     ELSE canonical(r, <<CHOOSE i \in cur : TRUE>>)

VolumePage(r) ==
  IF r.trailingSlash /\ r.path # <<>>
  THEN Go(urlForPath(r.path, <<>>, r.version, r.full, r.editing))
  ELSE Show("project")

-----------------------------------------------------------------------------
(* Browser: what the content pane shows. *)

owner == IF platform = "volume" THEN <<>> ELSE <<Head(Order)>>
inTree(r) == platform = "volume" \/ r.project = owner
treeFiles(r) == IF inTree(r) THEN UNION tree ELSE {}
dirIndex(r) ==
  UNION {{SubSeq(f, 1, n) : n \in 1 .. Len(f) - 1} : f \in treeFiles(r)}
loaded(r) == ~inTree(r) \/ tree # {}
isDir(r) == r.path \in dirIndex(r)
isFile(r) == loaded(r) /\ r.path \in treeFiles(r)
isMissing(r) == /\ r.path # <<>> /\ loaded(r) /\ ~r.version
                /\ ~isFile(r) /\ ~isDir(r)
moved(r) == {m[2] : m \in {m \in resolves : m[1] = r.path}}

\* An address whose file moved is replaced by where the file is.
MovedPage(r) ==
  IF moved(r) # {} /\ isMissing(r)
  THEN Go(urlForPath(CHOOSE p \in moved(r) : TRUE, r.project, FALSE,
                     r.full, r.editing))
  ELSE Show("project")

PageOf(r) ==
  LET outer == IF platform = "volume" THEN VolumePage(r) ELSE HubPage(r)
  IN IF outer.page = "project" THEN MovedPage(r) ELSE outer

Page == PageOf(route)

\* The body of the content pane, once no redirect is due.
ContentOf(r) ==
  LET page == PageOf(r).page
  IN IF page # "project" THEN page
     ELSE IF panel \/ r.org # <<>> \/ r.billing \/ r.connections THEN "panel"
     ELSE IF r.view \in {"settings", "install"} THEN "panel"
     ELSE IF r.view # "none" THEN r.view
     ELSE IF r.path = <<>> THEN "home"
     ELSE IF ~loaded(r) THEN "loading"
     ELSE IF isMissing(r) THEN "missing"
     ELSE IF isDir(r) THEN "folder"
     ELSE IF r.editing /\ isFile(r) /\ ~r.version THEN "editor"
     ELSE "file"

full(r) == r.full /\ r.view = "none" /\ r.path # <<>> /\ ~isDir(r) /\ ~panel

Redirecting == Page.page = "redirect"

-----------------------------------------------------------------------------
(* nav.ts *)

\* Not what the code does, for contrast: the project in the URL is remembered, listed or not.
RememberedAsTyped ==
  \E now \in {route'} :
    last' = IF now.project = <<>> THEN last ELSE {now.project[1]}

\* What a render leaves behind: the project shown is remembered, a change of
\* location closes the panel, a change of path forgets the fullscreen entry.
Remembered ==
  \E now \in {route'} : \E cur \in {choose(now, UNION list', joined', last)} :
    last' = IF cur = {} THEN last ELSE cur

Rendered ==
  /\ Remembered
  /\ panel' = (panel /\ here' = here)
  /\ \E now \in {route'}, was \in {route} :
       pushed' = (pushed /\ now.path = was.path /\ now.project = was.project)

push(u) ==
  IF u = here THEN UNCHANGED <<entries, pos>>
  ELSE /\ entries' = Append(SubSeq(entries, 1, pos), u)
       /\ pos' = pos + 1

replace(u) == entries' = [entries EXCEPT ![pos] = u] /\ UNCHANGED pos

Spend == moves > 0 /\ moves' = moves - 1

-----------------------------------------------------------------------------
Init ==
  /\ platform \in Platforms
  /\ entries \in {<<u>> : u \in Typed} /\ pos = 1
  /\ projects = Listed /\ deleted = {} /\ list = {}
  /\ joined = {} /\ last = {} /\ panel = FALSE /\ pushed = FALSE
  /\ files \in {{p} : p \in Files} /\ movedTo = {}
  /\ tree = {} /\ resolves = {}
  /\ doing = [op |-> "none", id |-> {}]
  /\ made = {} /\ missedList = FALSE /\ moves = MaxMoves

Idle == doing.op = "none"

\* Redirect: the current entry is replaced, never pushed over.
Redirect ==
  /\ \E r \in {route} : \E u \in PageOf(r).to : replace(u)
  /\ UNCHANGED <<platform, hubVars, tabVars, doing, made, missedList, moves>>
  /\ Rendered

\* useProjects: not asked for on the join screen, nor in single-volume mode.
ListLands ==
  /\ list = {} /\ platform # "volume" /\ ~joinToken
  /\ list' = {projects}
  /\ UNCHANGED <<platform, entries, pos, hubVars, joined, tree, resolves,
                 panel, pushed, doing, made, missedList, moves>>
  /\ Remembered

\* useTree: the first read, and the reads the change stream asks for.
TreeLands ==
  /\ tree # {files}
  /\ tree # {} \/ \E r \in {route} : PageOf(r).page = "project"
  /\ tree' = {files}
  /\ UNCHANGED <<platform, entries, pos, hubVars, list, joined, resolves, last,
                 panel, pushed, doing, made, missedList, moves>>

\* The hub is asked where a file went only once the tree says it is gone.
ResolveLands ==
  /\ LET r == route
     IN /\ moved(r) = {} /\ PageOf(r).page = "project" /\ isMissing(r)
        /\ \E m \in movedTo : m[1] = r.path /\ resolves' = resolves \cup {m}
  /\ UNCHANGED <<platform, entries, pos, hubVars, list, joined, tree, last,
                 panel, pushed, doing, made, missedList, moves>>

\* A 404 is kept for a minute and then asked again; so is an answer.
ResolveExpires ==
  /\ Spend
  /\ \E m \in resolves : resolves' = resolves \ {m}
  /\ UNCHANGED <<platform, entries, pos, hubVars, list, joined, tree, last,
                 panel, pushed, doing, made, missedList>>

-----------------------------------------------------------------------------
(* What a person does on the page. *)

Click(u) ==
  /\ Spend /\ Idle
  /\ push(u)
  /\ UNCHANGED <<platform, hubVars, tabVars, doing, made, missedList>>
  /\ Rendered

\* openPath: a tree row, the palette, a wikilink, a pinned path.
OpenPath ==
  LET r == route
  IN /\ PageOf(r).page = "project" /\ loaded(r) /\ inTree(r)
     /\ \E p \in treeFiles(r) \cup dirIndex(r) :
          Click(urlForPath(p, r.project, FALSE, FALSE, FALSE))

\* The sidebar's menu, the history button and the feed's filters.
OpenView ==
  LET r == route
  IN /\ platform # "volume" /\ PageOf(r).page = "project"
     /\ \E v \in DOMAIN ViewSegments, f \in BOOLEAN :
          Click(urlForView(v, <<CHOOSE i \in current(r) : TRUE>>,
                           IF v \in {"history", "dashboard"} THEN r.path
                                                             ELSE <<>>, f))

\* The home button, the project switcher and every "Back to <project>" link.
OpenProject ==
  /\ platform # "volume" /\ Page.page \in {"project", "notfound"}
  /\ \/ Click(URLAt(<<>>))
     \/ \E i \in known : Click(URLAt(<<i>>))

\* Its button is part of the chrome that fullscreen hides.
ToggleEdit ==
  LET r == route
      content == ContentOf(r)
  IN /\ content \in {"file", "editor"} /\ isFile(r) /\ ~r.version /\ ~full(r)
     /\ Click(urlForPath(r.path, r.project, FALSE, r.full, content # "editor"))

EnterFull ==
  LET r == route
  IN /\ Spend /\ Idle
     /\ ContentOf(r) \in {"file", "editor"} /\ isFile(r) /\ ~full(r)
     /\ push(urlForPath(r.path, r.project, r.version, TRUE, r.editing))
     /\ pushed' = TRUE
     /\ UNCHANGED <<platform, hubVars, tabVars, last, panel, doing, made,
                    missedList>>

\* An entry this page pushed is popped; a pasted one is replaced in place.
ExitFull ==
  LET r == route
  IN /\ Spend /\ Idle /\ full(r) /\ PageOf(r).page = "project"
     /\ IF pushed THEN pos' = (IF pos > 1 THEN pos - 1 ELSE 1) /\ UNCHANGED entries
        ELSE replace(urlForPath(r.path, r.project, r.version, FALSE, r.editing))
     /\ pushed' = FALSE
     /\ UNCHANGED <<platform, hubVars, tabVars, panel, doing, made, missedList>>
     /\ Remembered

OpenPanel ==
  /\ Spend /\ ~panel /\ platform = "hub" /\ Page.page = "project"
  /\ panel' = TRUE
  /\ UNCHANGED <<platform, entries, pos, hubVars, tabVars, last, pushed, doing,
                 made, missedList>>

\* The browser's own buttons; an operation in progress does not stop them.
Travel ==
  /\ Spend
  /\ pos' \in {pos - 1, pos + 1} \cap (1 .. Len(entries))
  /\ UNCHANGED <<entries, platform, hubVars, tabVars, doing, made, missedList>>
  /\ Rendered

\* A reload starts the app again at the same address; localStorage survives.
Reload ==
  /\ Spend
  /\ list' = {} /\ joined' = {} /\ tree' = {} /\ resolves' = {}
  /\ panel' = FALSE /\ pushed' = FALSE
  /\ doing' = [op |-> "none", id |-> {}] /\ made' = {}
  /\ missedList' = FALSE
  /\ UNCHANGED <<platform, entries, pos, hubVars, last>>

-----------------------------------------------------------------------------
(* Operations that end in a navigation, in their two halves: the hub acts,  *)
(* then the list is read again and the page moves.                          *)

Begin(op, id) ==
  /\ Spend /\ Idle
  /\ doing' = [op |-> op, id |-> id]
  /\ UNCHANGED <<platform, entries, pos, tabVars, last, panel, pushed, files,
                 movedTo, missedList>>

CreateProject ==
  /\ platform = "hub" /\ list # {}
  /\ \E i \in Ids \ (projects \cup deleted) :
       /\ projects' = projects \cup {i} /\ UNCHANGED deleted
       /\ Begin("create", {i}) /\ made' = made \cup {i}

DeleteProject ==
  /\ platform = "hub" /\ route.view = "settings" /\ ContentOf(route) = "panel"
  /\ \E i \in current(route) \cap projects :
       /\ projects' = projects \ {i} /\ deleted' = deleted \cup {i}
       /\ Begin("delete", {i}) /\ made' = made \ {i}

\* The invite adds every project of its organization to the account, or is
\* refused.
AcceptInvite ==
  /\ platform # "volume" /\ joinToken /\ list = {}
  /\ \/ \E o \in {OrgOf[i] : i \in Ids} :
          LET won == {i \in Ids \ deleted : OrgOf[i] = o}
          IN /\ projects' = projects \cup won /\ UNCHANGED deleted
             /\ Begin("join", won) /\ made' = made \cup won
     \/ Begin("join", {}) /\ UNCHANGED <<projects, deleted, made>>

\* Not what the code does, for contrast: the page moves before the list was read again.
RefreshedLater == UNCHANGED <<list, missedList, moves>>

\* useHubRefresh resolves whether or not the list could be read.
Refreshed ==
  \/ list' = {projects} /\ UNCHANGED <<missedList, moves>>
  \/ list # {} /\ list' = list /\ missedList' = TRUE /\ Spend

CreateDone ==
  /\ doing.op = "create" /\ Refreshed
  /\ push(URLAt(<<CHOOSE i \in doing.id : TRUE>>))
  /\ doing' = [op |-> "none", id |-> {}]
  /\ UNCHANGED <<platform, hubVars, joined, tree, resolves, made>>
  /\ Rendered

DeleteDone ==
  /\ doing.op = "delete" /\ Refreshed
  /\ push(URLAt(<<>>))
  /\ doing' = [op |-> "none", id |-> {}]
  /\ UNCHANGED <<platform, hubVars, joined, tree, resolves, made>>
  /\ Rendered

\* The project the invite was about is trusted only if the list just read
\* holds it; anything else, a failed read included, lands on "/".
JoinDone ==
  /\ doing.op = "join"
  /\ joined' = {OrgOf[i] : i \in doing.id}
  /\ \/ /\ list' = {projects}
        /\ replace(IF Len(here.segs) > 1 /\ here.segs[2] \in projects
                   THEN URLAt(<<here.segs[2], "install">>) ELSE URLAt(<<>>))
        /\ UNCHANGED moves
     \/ Spend /\ UNCHANGED list /\ replace(URLAt(<<>>))
  /\ doing' = [op |-> "none", id |-> {}]
  /\ UNCHANGED <<platform, hubVars, tree, resolves, made, missedList>>
  /\ Rendered

\* The join screen was left before the hub answered: nothing moves the page.
JoinDropped ==
  /\ doing.op = "join" /\ ~joinToken
  /\ doing' = [op |-> "none", id |-> {}]
  /\ UNCHANGED <<platform, entries, pos, hubVars, tabVars, last, panel, pushed,
                 made, missedList, moves>>

-----------------------------------------------------------------------------
(* What others do. *)

PeerMovesFile ==
  /\ Spend
  /\ \E from \in files, to \in Files \ files :
       /\ files' = (files \ {from}) \cup {to}
       /\ movedTo' = {m \in movedTo : m[1] # to /\ m[1] # from}
                       \cup {<<from, to>>}
  /\ UNCHANGED <<platform, entries, pos, projects, deleted, tabVars, last,
                 panel, pushed, doing, made, missedList>>

PeerDeletesProject ==
  /\ Spend
  /\ \E i \in projects : /\ projects' = projects \ {i}
                         /\ deleted' = deleted \cup {i} /\ made' = made \ {i}
  /\ UNCHANGED <<platform, entries, pos, files, movedTo, tabVars, last, panel,
                 pushed, doing, missedList>>

Acts == \/ OpenPath \/ OpenView \/ OpenProject \/ ToggleEdit
        \/ EnterFull \/ ExitFull \/ OpenPanel \/ Travel \/ Reload

Operations == \/ CreateProject \/ DeleteProject \/ AcceptInvite
              \/ CreateDone \/ DeleteDone \/ JoinDone \/ JoinDropped

Answers == ListLands \/ TreeLands \/ ResolveLands \/ ResolveExpires

Next == Redirect \/ Answers \/ Acts \/ Operations
          \/ PeerMovesFile \/ PeerDeletesProject

\* An effect of a committed render runs, and a request is answered.
Fairness == /\ WF_vars(Redirect) /\ WF_vars(ListLands) /\ WF_vars(TreeLands)
            /\ WF_vars(CreateDone \/ DeleteDone \/ JoinDone)

Spec == Init /\ [][Next]_vars /\ Fairness

-----------------------------------------------------------------------------
(* Properties *)

\* Every variable has its type, and the entry shown is one of the history.
TypeOK ==
  /\ platform \in Platforms /\ pos \in 1 .. Len(entries)
  /\ projects \subseteq Ids /\ deleted \subseteq Ids /\ list \in SUBSET SUBSET Ids
  /\ Cardinality(list) <= 1 /\ Cardinality(tree) <= 1 /\ Cardinality(last) <= 1
  /\ last \subseteq Ids /\ tree \in SUBSET SUBSET Files
  /\ movedTo \subseteq Files \X Files /\ resolves \subseteq Files \X Files
  /\ {panel, pushed, missedList} \subseteq BOOLEAN
  /\ doing.op \in {"none", "create", "delete", "join"} /\ doing.id \subseteq Ids
  /\ made \subseteq Ids /\ moves \in 0 .. MaxMoves

\* The address bar settles: no redirect of HubApp, VolumeApp or Browser feeds
\* another forever, whatever URL was pasted and whatever moved meanwhile.
Settles == []<>~Redirecting

\* What a URL is about: the project it means, the file or the view's target,
\* and how it is shown.
means(r) ==
  LET named == projectByName(known, r.project)
      any == IF r.project = <<>> THEN current(r) ELSE named
  IN IF any = {} \/ r.project \in {<<i>> : i \in known} THEN r.project
     ELSE <<CHOOSE i \in any : TRUE>>

Subject(r) ==
  [project |-> means(r), path |-> r.path, view |-> r.view,
   target |-> r.viewTarget,
   shownAs |-> IF r.path = <<>> THEN <<r.view = "history" /\ r.filters>>
               ELSE <<r.version, r.full, r.editing>>]

\* A redirect of HubApp, VolumeApp or Browser rewrites an address, never what
\* it is about: the project a name meant, the path, the view and its target,
\* the filters, the version, fullscreen and the editor all ride along, and an
\* address that names no project never becomes one of another.  Only a moved
\* file changes the path, to where the hub says it went.
KeepsSubject ==
  Redirect /\ ~setupStep' =>
    LET was == Subject(route)
        now == Subject(route')
    IN /\ [now EXCEPT !.path = was.path] = was
       /\ now.path = was.path \/ <<was.path, now.path>> \in resolves
RedirectKeepsSubject == [][KeepsSubject]_vars

\* Leaving fullscreen in place (Browser.exitFull) stays on the file that was
\* shown in full, in the same version and mode, and leaves it.
StaysOnFile ==
  ExitFull /\ ~pushed => route' = [route EXCEPT !.full = FALSE, !.filters = FALSE,
                                               !.connect = FALSE]
ExitStays == [][StaysOnFile]_vars

\* "a pasted ?full=1 URL has nothing to pop, so it is replaced in place"
\* (Browser.tsx:359): with no entry of the app below it, what leaving
\* fullscreen leaves behind is the same page without it.
PastedReplaced == [][ExitFull /\ pos = 1 => ~route'.full]_vars

\* useHubRefresh is awaited before the page of a new project is opened, so
\* "Project not found" never greets who just created or joined it, unless
\* the list could not be read.
OwnProjectFound ==
  Page.page = "notfound" => missedList \/ \A i \in made : route.project # <<i>>

\* "Root-level files literally named like a view lose the URL shortcut and
\* remain reachable via the tree" (router.ts): opening a file from the tree
\* shows that file.
ReachableFromTree ==
  LET r == route
  IN inTree(r) /\ PageOf(r).page = "project" =>
       \A p \in treeFiles(r) :
         parseRoute(urlForPath(p, r.project, FALSE, FALSE, FALSE), mode).path = p
=============================================================================
