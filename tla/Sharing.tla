------------------------------- MODULE Sharing -------------------------------
(***************************************************************************)
(* Who can open a file: components/ShareDialog.tsx over a file and the       *)
(* folder it is in, the banner and the tables of public links                *)
(* (ShareBanner.tsx, SharesTable.tsx), and the hub behind them (folders.go,  *)
(* shares.go).                                                              *)
(*                                                                         *)
(* The rule is the folder's, the links are the file's, and a behaviour       *)
(* follows one of the two while the other stays as it is: they share only    *)
(* the dialog, and where the rule is followed it is the folder's.  The       *)
(* account may do all it offers.  Later links have greater numbers.          *)
(***************************************************************************)
EXTENDS Naturals, FiniteSets

CONSTANTS
  People, Levels,    \* members of the organisation; what a rule may say of one
  MaxCalls, MaxOthers, MaxLinks \* bounds: writes of this tab, acts of others, links

VARIABLES
  follow,    \* what is followed: "rule" or "links"
  rule,      \* the folder's rule: none, or one
  members,   \* who may be named in a rule: members who are not owners
  links,     \* the file's live links
  secret,    \* the file as it is seems to hold credentials
  ended,     \* links that expired, or that others or a dialog closed meanwhile revoked
  minting, others, \* links so far, acts of others so far
  folders, shares, \* the two listings this tab caches
  behind,    \* listings that changed, and the tab has not read since
  page,      \* the subject, "file" or "folder"
  open,      \* the dialog is open, with its own link of the mint, its warning of
  minted, pending, preset, busy, \* credentials, its lifetime and its write
  ask,       \* the link the confirmation on screen would revoke
  calls, made \* writes under way, writes so far

hubVars == <<follow, rule, members, links, secret, ended, minting, others>>
cacheVars == <<folders, shares, behind>>
dialogVars == <<page, open, minted, pending, preset, busy, ask>>
callVars == <<calls, made>>
vars == <<hubVars, cacheVars, dialogVars, callVars>>

Inherit == "inherit"
Everyone == 0
Rules == UNION {[default : Levels \cup {Inherit}, grants : [P -> Levels]] : P \in SUBSET People}
Links == [id : 1 .. MaxLinks, expires : BOOLEAN]
Ids(S) == {l.id : l \in S}
Newest(S) == {l \in S : \A x \in S : x.id <= l.id}

-----------------------------------------------------------------------------
(* A listing in the cache: what it holds, and the read of it under way *)

Unread == [data |-> {}, read |-> FALSE, asked |-> TRUE, got |-> {}]
Read(d) == [data |-> d, read |-> TRUE, asked |-> FALSE, got |-> {}]
Settled(q) == q.read /\ ~q.asked

\* Reading again gives up the read under way; a first one is joined.
Invalidated(q) == IF ~q.read /\ q.asked THEN q ELSE [q EXCEPT !.asked = TRUE, !.got = {}]
Joins(q) == ~q.read /\ q.got # {}
Again(q, f) == IF f = follow THEN Invalidated(q) ELSE q
Answered(q) == {Read(d) : d \in q.got}

useFolders ==
  /\ \/ folders.asked /\ folders.got = {} /\ folders' = [folders EXCEPT !.got = {rule}]
        /\ behind' = behind \ {"folders"}
     \/ folders' \in Answered(folders) /\ UNCHANGED behind
  /\ UNCHANGED <<hubVars, shares, dialogVars, callVars>>

useShares ==
  /\ \/ shares.asked /\ shares.got = {} /\ shares' = [shares EXCEPT !.got = {links}]
        /\ behind' = behind \ {"shares"}
     \/ shares' \in Answered(shares) /\ UNCHANGED behind
  /\ UNCHANGED <<hubVars, folders, dialogVars, callVars>>

refreshShares ==
  /\ shares' = Again(shares, "links")
  /\ behind' = IF Joins(shares) THEN behind \cup {"shares"} ELSE behind
reload ==
  /\ folders' = Again(folders, "rule") /\ shares' = Again(shares, "links")
  /\ behind' = behind \cup (IF Joins(folders) THEN {"folders"} ELSE {})
                      \cup (IF Joins(shares) THEN {"shares"} ELSE {})

\* A scope frame of the hub's events.
Scope ==
  /\ "folders" \in behind /\ folders' = Invalidated(folders)
  /\ UNCHANGED <<hubVars, shares, behind, dialogVars, callVars>>

-----------------------------------------------------------------------------
(* What the tab shows *)

\* The rule as far as this tab knows: none before its listing came.
own == folders.data
Default(r) == IF r = {} THEN Inherit ELSE (CHOOSE x \in r : TRUE).default
Grants(r) == IF r = {} THEN [p \in {} |-> Inherit] ELSE (CHOOSE x \in r : TRUE).grants
LevelOf(r, p) == IF p \in DOMAIN Grants(r) THEN Grants(r)[p] ELSE Inherit

\* The listing's row first, then what the mint answered.
link == IF page = "file" /\ shares.data # {} THEN Newest(shares.data) ELSE minted

-----------------------------------------------------------------------------
(* Writes *)

Send(c) == made < MaxCalls /\ made' = made + 1 /\ calls' = calls \cup {c}
Write(kind) == [n |-> made, kind |-> kind, put |-> {}, base |-> {}, about |-> Everyone,
                link |-> {}, expires |-> FALSE, prev |-> FALSE, confirm |-> FALSE,
                mine |-> TRUE, answer |-> "none"]

\* Not what the code does, for contrast: a level is sent without its exceptions.
WholeOfLevel(default, grants) ==
  {[default |-> default, grants |-> IF default = Inherit THEN grants ELSE [p \in {} |-> Inherit]]}
\* PUT replaces the rule, so every write of it sends the whole; one that says
\* nothing and names nobody is a DELETE.
Whole(default, grants) ==
  IF default = Inherit /\ DOMAIN grants = {} THEN {} ELSE {[default |-> default, grants |-> grants]}

putRule(default, grants, about) ==
  /\ follow = "rule" /\ open /\ page = "folder" /\ ~busy /\ busy' = TRUE
  /\ Send([Write("rule") EXCEPT !.put = Whole(default, grants), !.base = own, !.about = about])
  /\ UNCHANGED <<hubVars, cacheVars, page, open, minted, pending, preset, ask>>

\* The level of everyone, of someone the rule names, or of someone added.
SetLevel == \E l \in Levels \cup {Inherit} : l # Default(own) /\ putRule(l, Grants(own), Everyone)
SetGrant ==
  \E p \in People, l \in Levels :
    /\ LevelOf(own, p) # l
    /\ putRule(Default(own), [q \in DOMAIN Grants(own) \cup {p} |-> IF q = p THEN l ELSE Grants(own)[q]], p)

mint(confirm) ==
  /\ follow = "links" /\ open /\ page = "file" /\ ~busy /\ busy' = TRUE
  /\ IF confirm THEN pending ELSE link = {}
  /\ Send([Write("mint") EXCEPT !.confirm = confirm])
  /\ UNCHANGED <<hubVars, cacheVars, page, open, minted, pending, preset, ask>>
CancelMint ==
  /\ pending /\ ~busy /\ pending' = FALSE
  /\ UNCHANGED <<hubVars, cacheVars, page, open, minted, preset, busy, ask, callVars>>

\* Not what the code does, for contrast: what the mint said is still shown.
RestrictedKeepsMinted ==
  /\ follow = "links" /\ open /\ page = "file" /\ ~busy /\ link # {}
  /\ pending' = FALSE /\ busy' = TRUE
  /\ Send([Write("revoke") EXCEPT !.link = link])
  /\ UNCHANGED <<hubVars, cacheVars, page, open, minted, preset, ask>>
\* Back to restricted: what the mint said is forgotten, and the link revoked.
Restricted ==
  /\ follow = "links" /\ open /\ page = "file" /\ ~busy /\ link # {}
  /\ pending' = FALSE /\ minted' = {} /\ busy' = TRUE
  /\ Send([Write("revoke") EXCEPT !.link = link])
  /\ UNCHANGED <<hubVars, cacheVars, page, open, preset, ask>>

\* The lifetime is shown at once and is not a write the dialog waits for.
setExpiry ==
  /\ follow = "links" /\ open /\ page = "file" /\ ~busy /\ link # {}
  /\ preset' = ~preset
  /\ Send([Write("expiry") EXCEPT !.link = link, !.expires = ~preset, !.prev = preset])
  /\ UNCHANGED <<hubVars, cacheVars, page, open, minted, pending, busy, ask>>

\* The banner and the tables ask first.
AskRevoke ==
  /\ ~open /\ ask = {}
  /\ \E l \in shares.data : ask' = {l}
  /\ UNCHANGED <<hubVars, cacheVars, page, open, minted, pending, preset, busy, callVars>>
revokeShare ==
  /\ ask # {} /\ ask' = {}
  /\ \/ Send([Write("banner") EXCEPT !.link = ask]) \/ UNCHANGED callVars
  /\ UNCHANGED <<hubVars, cacheVars, page, open, minted, pending, preset, busy>>

-----------------------------------------------------------------------------
(* The hub serves a write *)

Live(c) == {l \in links : \E x \in c.link : x.id = l.id}

\* SetFolder names members only; ClearFolder wants a rule to be there.
RuleServed(c) ==
  /\ IF c.put = {} THEN rule # {} ELSE DOMAIN Grants(c.put) \subseteq members
  /\ rule' = c.put /\ UNCHANGED <<links, minting>>

\* What is public already needs no scan; a permanent link is handed out again.
MintAsks(c) == c.kind = "mint" /\ secret /\ ~c.confirm /\ links = {}
MintServed(c) ==
  /\ ~MintAsks(c)
  /\ LET permanent == {l \in links : ~l.expires} IN
       IF permanent # {} THEN UNCHANGED <<links, minting>>
       ELSE /\ minting < MaxLinks /\ minting' = minting + 1
            /\ links' = links \cup {[id |-> minting + 1, expires |-> FALSE]}
  /\ UNCHANGED rule
RevokeServed(c) == Live(c) # {} /\ links' = links \ Live(c) /\ UNCHANGED <<rule, minting>>
ExpiryServed(c) ==
  /\ Live(c) # {} /\ links' = (links \ Live(c)) \cup {[l EXCEPT !.expires = c.expires] : l \in Live(c)}
  /\ UNCHANGED <<rule, minting>>

Served(c) ==
  CASE c.kind = "rule" -> RuleServed(c) [] c.kind = "mint" -> MintServed(c)
    [] c.kind = "expiry" -> ExpiryServed(c) [] OTHER -> RevokeServed(c)

\* A mint is answered with a permanent link.
AnswerOf(c, a) ==
  \E m \in IF c.kind = "mint" /\ a = "ok" THEN {{l} : l \in {x \in links' : ~x.expires}} ELSE {c.link} :
    calls' = (calls \ {c}) \cup {[c EXCEPT !.answer = a, !.link = m]}

\* Served, and answered or the answer lost; or refused, or never arrived.
CallServed(c) ==
  /\ c.answer = "none"
  /\ \/ /\ Served(c) /\ \E a \in {"ok", "error"} : AnswerOf(c, a)
        /\ behind' = behind \cup (IF links' # links THEN {"shares"} ELSE {})
                            \cup (IF rule' # rule THEN {"folders"} ELSE {})
     \/ /\ MintAsks(c) /\ UNCHANGED <<rule, links, minting, behind>> /\ AnswerOf(c, "asks")
     \/ UNCHANGED <<rule, links, minting, behind>> /\ AnswerOf(c, "error")
  /\ ended' = IF c.mine THEN ended ELSE ended \cup (Ids(links) \ Ids(links'))
  /\ UNCHANGED <<follow, members, secret, others, folders, shares, dialogVars, made>>

-----------------------------------------------------------------------------
(* Its answer *)

\* State of a dialog closed meanwhile is gone; what is cached is not.
Mine(c, on, off) == IF c.mine THEN on ELSE off

MintDone(c) ==
  /\ minted' = IF c.mine /\ c.answer = "ok" THEN c.link ELSE minted
  /\ pending' = IF ~c.mine \/ c.answer = "error" THEN pending ELSE c.answer = "asks"
  /\ busy' = Mine(c, FALSE, busy) /\ UNCHANGED preset
  /\ IF c.answer = "ok" THEN refreshShares /\ UNCHANGED folders ELSE UNCHANGED cacheVars
RunDone(c) == busy' = Mine(c, FALSE, busy) /\ reload /\ UNCHANGED <<minted, pending, preset>>
ExpiryDone(c) ==
  /\ preset' = IF c.mine /\ c.answer # "ok" THEN c.prev ELSE preset
  /\ IF c.answer = "ok" THEN refreshShares /\ UNCHANGED folders ELSE UNCHANGED cacheVars
  /\ UNCHANGED <<minted, pending, busy>>
BannerDone(c) ==
  /\ IF c.answer = "ok" THEN refreshShares /\ UNCHANGED folders ELSE UNCHANGED cacheVars
  /\ UNCHANGED <<minted, pending, preset, busy>>

CallDone(c) ==
  /\ c.answer # "none" /\ calls' = calls \ {c}
  /\ CASE c.kind = "mint" -> MintDone(c) [] c.kind = "expiry" -> ExpiryDone(c)
       [] c.kind = "banner" -> BannerDone(c) [] OTHER -> RunDone(c)
  /\ UNCHANGED <<hubVars, page, open, ask, made>>

-----------------------------------------------------------------------------
(* The dialog *)

OpenDialog ==
  /\ ~open /\ ask = {} /\ open' = TRUE
  /\ minted' = {} /\ pending' = FALSE /\ preset' = FALSE /\ busy' = FALSE
  /\ UNCHANGED <<hubVars, cacheVars, page, ask, callVars>>
Close ==
  /\ open /\ open' = FALSE /\ minted' = {} /\ pending' = FALSE /\ preset' = FALSE /\ busy' = FALSE
  /\ calls' = {[c EXCEPT !.mine = FALSE] : c \in calls}
  /\ refreshShares /\ UNCHANGED <<hubVars, folders, page, ask, made>>

\* The button that opens the folder's sharing, or the browser's history: the
\* dialog stays as it is.
onOpenFolder ==
  /\ follow = "links" /\ (page = "file" /\ open => own # {})
  /\ page' = IF page = "file" THEN "folder" ELSE "file"
  /\ UNCHANGED <<hubVars, cacheVars, open, minted, pending, preset, busy, ask, callVars>>

-----------------------------------------------------------------------------
(* Others, and time *)

Other == others < MaxOthers /\ others' = others + 1
OtherRule ==
  /\ follow = "rule" /\ Other /\ \E r \in Rules : rule' \in {{}, {r}} /\ rule' # rule
  /\ behind' = behind \cup {"folders"}
  /\ UNCHANGED <<follow, members, links, secret, ended, minting, folders, shares, dialogVars, callVars>>
MemberLeaves ==
  /\ follow = "rule" /\ Other /\ \E p \in members : members' = members \ {p}
  /\ UNCHANGED <<follow, rule, links, secret, ended, minting, cacheVars, dialogVars, callVars>>
OtherLink ==
  /\ follow = "links" /\ Other
  /\ \/ /\ minting < MaxLinks /\ minting' = minting + 1 /\ UNCHANGED ended
        /\ \E e \in BOOLEAN : links' = links \cup {[id |-> minting + 1, expires |-> e]}
     \/ \E l \in links : links' = links \ {l} /\ ended' = ended \cup {l.id} /\ UNCHANGED minting
  /\ behind' = behind \cup {"shares"}
  /\ UNCHANGED <<follow, rule, members, secret, folders, shares, dialogVars, callVars>>
FileChanges ==
  /\ follow = "links" /\ Other /\ secret' = ~secret
  /\ UNCHANGED <<follow, rule, members, links, ended, minting, cacheVars, dialogVars, callVars>>

Init ==
  /\ follow \in {"rule", "links"}
  /\ rule \in {{}} \cup {{r} : r \in Rules \ {[default |-> Inherit, grants |-> [p \in {} |-> Inherit]]}}
  /\ members = People /\ links = {} /\ ended = {} /\ minting = 0 /\ others = 0 /\ behind = {}
  /\ IF follow = "rule" THEN folders = Unread /\ shares = Read({}) /\ secret = FALSE
     ELSE /\ folders = Read(rule) /\ shares = Unread /\ secret \in BOOLEAN
          /\ Default(rule) # Inherit /\ DOMAIN Grants(rule) = {}
  /\ page \in {"folder"} \cup {x \in {"file"} : follow = "links"} /\ open = FALSE /\ minted = {} /\ pending = FALSE
  /\ preset = FALSE /\ busy = FALSE /\ ask = {} /\ calls = {} /\ made = 0

Next ==
  \/ useFolders \/ useShares \/ Scope
  \/ SetLevel \/ SetGrant \/ mint(FALSE) \/ mint(TRUE) \/ CancelMint \/ Restricted
  \/ setExpiry \/ AskRevoke \/ revokeShare
  \/ \E c \in calls : CallServed(c) \/ CallDone(c)
  \/ OpenDialog \/ Close \/ onOpenFolder
  \/ OtherRule \/ MemberLeaves \/ OtherLink \/ FileChanges
Spec == Init /\ [][Next]_vars

-----------------------------------------------------------------------------
(* Properties *)

\* The type invariant.
TypeOK ==
  /\ rule \subseteq Rules /\ Cardinality(rule) <= 1 /\ members \subseteq People
  /\ links \subseteq Links /\ minting \in 0 .. MaxLinks /\ ended \subseteq 1 .. MaxLinks
  /\ folders.data \subseteq Rules /\ shares.data \subseteq Links
  /\ minted \subseteq Links /\ Cardinality(minted) <= 1
  /\ busy => open /\ \E c \in calls : c.mine

\* Beside what was chosen, a write changes nothing of a rule that is still what
\* the dialog showed (putRule: "a partial post would drop the exceptions").
SameBut(r, s, about) ==
  /\ about # Everyone => Default(r) = Default(s)
  /\ \A p \in People \ {about} : LevelOf(r, p) = LevelOf(s, p)
Edits ==
  \A c \in calls : c.kind = "rule" /\ c.base = rule /\ rule' # rule /\ c \notin calls' =>
    SameBut(rule, rule', c.about)
EditIsChange == [][Edits]_vars

\* The same of every write while nobody else changes the rule.  The dialog does
\* not wait for its listing, nor for the one after a write.
RuleKept ==
  [][\A c \in calls : c.kind = "rule" /\ rule' # rule /\ c \notin calls' =>
       SameBut(rule, rule', c.about)]_vars

\* Once every answer is in and the listing is the hub's, the file's dialog and
\* banner show a link exactly when one is live, but for one this dialog minted
\* that others ended since, or a request sent before it was opened.
LinkTrue ==
  page = "file" /\ calls = {} /\ Settled(shares) /\ "shares" \notin behind =>
    /\ links # {} => link # {}
    /\ Ids(link) \subseteq Ids(links) \cup ended

\* The dialog offers no link of another subject.
LinkOfPath == page = "folder" => link = {}
=============================================================================
