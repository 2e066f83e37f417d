---------------------------- MODULE Sharing_proofs ----------------------------
(***************************************************************************)
(* What holds of Sharing for any people and levels and any number of writes, *)
(* links and acts of others: a write of a rule changes only what was chosen, *)
(* and the dialog and the banner come to show a link exactly when one lives. *)
(***************************************************************************)
EXTENDS Sharing, TLAPS, WellFoundedInduction

Bounds == MaxLinks \in Nat

-----------------------------------------------------------------------------
(* A rule is written whole                                                 *)

\* What a write of a rule sends differs from what the dialog showed in what it is
\* about, and nothing else.
Drafted == \A c \in calls : c.kind = "rule" => SameBut(c.base, c.put, c.about)

\* The steps, by what they touch.
Reading == useFolders \/ useShares \/ Scope
Drafting == SetLevel \/ SetGrant
Linking == mint(FALSE) \/ mint(TRUE) \/ CancelMint \/ Restricted \/ setExpiry
Revoking == AskRevoke \/ revokeShare
Opening == OpenDialog \/ Close \/ onOpenFolder
Others == OtherRule \/ MemberLeaves \/ OtherLink \/ FileChanges

LEMMA NextGroups ==
  ASSUME Next
  PROVE  \/ Reading \/ Drafting \/ Linking \/ Revoking \/ Opening \/ Others
         \/ \E c \in calls : CallServed(c) \/ CallDone(c)
BY DEF Next, Reading, Drafting, Linking, Revoking, Opening, Others

LEMMA WholeSays ==
  ASSUME NEW d, NEW g, NEW p
  PROVE  /\ Default(Whole(d, g)) = d
         /\ LevelOf(Whole(d, g), p) = IF p \in DOMAIN g THEN g[p] ELSE Inherit
<1>1. CASE d = Inherit /\ DOMAIN g = {}
  BY <1>1 DEF Whole, Default, LevelOf, Grants
<1>2. CASE ~(d = Inherit /\ DOMAIN g = {})
  <2>. DEFINE r == [default |-> d, grants |-> g]
              w == Whole(d, g)
  <2>1. w = {r}
    BY <1>2 DEF Whole
  <2>2. w # {} /\ (CHOOSE x \in w : TRUE) \in w
    BY <2>1
  <2>3. (CHOOSE x \in w : TRUE) = r
    BY <2>1, <2>2
  <2>4. r.default = d /\ r.grants = g
    OBVIOUS
  <2>. HIDE DEF r, w
  <2>5. Default(w) = d /\ Grants(w) = g
    BY <2>2, <2>3, <2>4 DEF Default, Grants
  <2>6. LevelOf(w, p) = IF p \in DOMAIN g THEN g[p] ELSE Inherit
    BY <2>5 DEF LevelOf
  <2>. QED  BY <2>5, <2>6 DEF w
<1>. QED  BY <1>1, <1>2

\* A level for everyone leaves each exception; one for a person leaves the rest.
LEMMA LevelSameBut ==
  ASSUME NEW r, NEW l
  PROVE  SameBut(r, Whole(l, Grants(r)), Everyone)
BY WholeSays DEF SameBut, LevelOf

LEMMA GrantSameBut ==
  ASSUME NEW r, NEW l, NEW p
  PROVE  SameBut(r, Whole(Default(r), [q \in DOMAIN Grants(r) \cup {p} |->
                                         IF q = p THEN l ELSE Grants(r)[q]]), p)
<1>. DEFINE g == [q \in DOMAIN Grants(r) \cup {p} |-> IF q = p THEN l ELSE Grants(r)[q]]
<1>1. DOMAIN g = DOMAIN Grants(r) \cup {p}
      /\ \A q \in DOMAIN Grants(r) \ {p} : g[q] = Grants(r)[q]
  OBVIOUS
<1>. HIDE DEF g
<1>2. Default(Whole(Default(r), g)) = Default(r)
  BY WholeSays
<1>3. ASSUME NEW q, q # p PROVE LevelOf(Whole(Default(r), g), q) = LevelOf(r, q)
  <2>1. LevelOf(Whole(Default(r), g), q) = IF q \in DOMAIN g THEN g[q] ELSE Inherit
    BY WholeSays
  <2>. QED  BY <2>1, <1>1, <1>3 DEF LevelOf
<1>. QED  BY <1>2, <1>3 DEF SameBut, g

LEMMA DraftedInit ==
  ASSUME Init
  PROVE  Drafted
BY DEF Init, Drafted

\* A call under way is a record of its fields; serving it, or closing the dialog,
\* leaves the ones it was sent with.
Fields == {"n", "kind", "put", "base", "about", "link", "expires", "prev", "confirm",
           "mine", "answer"}
Kinds == {"rule", "mint", "revoke", "expiry", "banner"}
IsCall(c) == DOMAIN c = Fields /\ c.expires \in BOOLEAN /\ c.kind \in Kinds
Shaped == \A c \in calls : IsCall(c)

Answers(c, a, m) == [c EXCEPT !.answer = a, !.link = m]
Orphan(c) == [c EXCEPT !.mine = FALSE]

LEMMA AnswersKeep ==
  ASSUME NEW c, IsCall(c), NEW a, NEW m
  PROVE  LET d == Answers(c, a, m)
         IN  /\ IsCall(d) /\ d.answer = a /\ d.link = m
             /\ d.n = c.n /\ d.kind = c.kind /\ d.put = c.put /\ d.base = c.base
             /\ d.about = c.about /\ d.mine = c.mine /\ d.confirm = c.confirm
BY DEF IsCall, Fields, Answers

LEMMA OrphanKeeps ==
  ASSUME NEW c, IsCall(c)
  PROVE  LET d == Orphan(c)
         IN  /\ IsCall(d) /\ d.mine = FALSE /\ d.answer = c.answer /\ d.link = c.link
             /\ d.n = c.n /\ d.kind = c.kind /\ d.put = c.put /\ d.base = c.base
             /\ d.about = c.about /\ d.confirm = c.confirm
BY DEF IsCall, Fields, Orphan

LEMMA SentIsCall ==
  ASSUME NEW k \in Kinds
  PROVE  IsCall(Write(k)) /\ Write(k).kind = k /\ Write(k).mine /\ Write(k).answer = "none"
BY DEF IsCall, Fields, Write

\* What a step does to the calls under way.
CallsKeep == calls' = calls \/ \E c \in calls : calls' = calls \ {c}
CallsOrphaned == calls' = {Orphan(c) : c \in calls}
Sent(w) == calls' = calls \cup {w} /\ IsCall(w) /\ w.mine /\ w.answer = "none"

LEMMA WholeSent ==
  ASSUME NEW d, NEW g, NEW p, putRule(d, g, p)
  PROVE  \E w : /\ Sent(w) /\ w.kind = "rule" /\ w.put = Whole(d, g)
                /\ w.base = own /\ w.about = p
<1>. DEFINE w == [Write("rule") EXCEPT !.put = Whole(d, g), !.base = own, !.about = p]
<1>1. calls' = calls \cup {w}
  BY DEF putRule, Send
<1>2. /\ IsCall(w) /\ w.mine /\ w.answer = "none" /\ w.kind = "rule" /\ w.put = Whole(d, g)
      /\ w.base = own /\ w.about = p
  BY SentIsCall DEF IsCall, Fields, Kinds
<1>. QED  BY <1>1, <1>2 DEF Sent

\* Each send, with what it is about.
SentRule(w) == Drafting /\ w.kind = "rule" /\ SameBut(w.base, w.put, w.about)
SentMint(w) == (mint(FALSE) \/ mint(TRUE)) /\ w.kind = "mint"
SentRevoke(w) == Restricted /\ w.kind = "revoke"
SentExpiry(w) == setExpiry /\ w.kind = "expiry"
SentBanner(w) == revokeShare /\ w.kind = "banner" /\ w.link = ask

LEMMA DraftSent ==
  ASSUME Drafting
  PROVE  \E w : Sent(w) /\ SentRule(w)
<1>1. CASE SetLevel
  <2>1. PICK l : putRule(l, Grants(own), Everyone)
    BY <1>1 DEF SetLevel
  <2>. QED  BY <2>1, WholeSent, LevelSameBut DEF SentRule
<1>2. CASE SetGrant
  <2>1. PICK p, l : putRule(Default(own), [q \in DOMAIN Grants(own) \cup {p} |->
                                             IF q = p THEN l ELSE Grants(own)[q]], p)
    BY <1>2 DEF SetGrant
  <2>. DEFINE g == [q \in DOMAIN Grants(own) \cup {p} |-> IF q = p THEN l ELSE Grants(own)[q]]
  <2>2. PICK w : /\ Sent(w) /\ w.kind = "rule" /\ w.put = Whole(Default(own), g)
                 /\ w.base = own /\ w.about = p
    BY <2>1, WholeSent
  <2>3. SameBut(own, Whole(Default(own), g), p)
    BY GrantSameBut
  <2>. QED  BY <2>2, <2>3 DEF SentRule
<1>. QED  BY <1>1, <1>2 DEF Drafting

LEMMA LinkingSends ==
  ASSUME Linking \/ Revoking
  PROVE  \/ calls' = calls /\ (CancelMint \/ AskRevoke \/ revokeShare)
         \/ \E w : Sent(w) /\ (SentMint(w) \/ SentRevoke(w) \/ SentExpiry(w) \/ SentBanner(w))
<1>. USE DEF Sent, SentMint, SentRevoke, SentExpiry, SentBanner, Send
<1>1. ASSUME NEW b \in BOOLEAN, mint(b) PROVE \E w : Sent(w) /\ SentMint(w)
  <2>. DEFINE w == [Write("mint") EXCEPT !.confirm = b]
  <2>1. calls' = calls \cup {w}
    BY <1>1 DEF mint
  <2>2. IsCall(w) /\ w.kind = "mint" /\ w.mine /\ w.answer = "none"
    BY SentIsCall DEF IsCall, Fields, Kinds
  <2>3. mint(FALSE) \/ mint(TRUE)
    BY <1>1
  <2>. HIDE DEF w
  <2>. QED  BY <2>1, <2>2, <2>3
<1>2. CASE CancelMint \/ AskRevoke
  BY <1>2 DEF CancelMint, AskRevoke, callVars
<1>3. CASE Restricted
  <2>. DEFINE w == [Write("revoke") EXCEPT !.link = link]
  <2>1. calls' = calls \cup {w}
    BY <1>3 DEF Restricted
  <2>2. IsCall(w) /\ w.kind = "revoke" /\ w.mine /\ w.answer = "none"
    BY SentIsCall DEF IsCall, Fields, Kinds
  <2>. HIDE DEF w
  <2>. QED  BY <2>1, <2>2, <1>3
<1>4. CASE setExpiry
  <2>. DEFINE w == [Write("expiry") EXCEPT !.link = link, !.expires = ~preset, !.prev = preset]
  <2>1. calls' = calls \cup {w}
    BY <1>4 DEF setExpiry
  <2>2. IsCall(w) /\ w.kind = "expiry" /\ w.mine /\ w.answer = "none"
    BY SentIsCall DEF IsCall, Fields, Kinds
  <2>. HIDE DEF w
  <2>. QED  BY <2>1, <2>2, <1>4
<1>5. CASE revokeShare
  <2>. DEFINE w == [Write("banner") EXCEPT !.link = ask]
  <2>1. calls' = calls \/ calls' = calls \cup {w}
    BY <1>5 DEF revokeShare, callVars
  <2>2. IsCall(w) /\ w.kind = "banner" /\ w.mine /\ w.answer = "none" /\ w.link = ask
    BY SentIsCall DEF IsCall, Fields, Kinds
  <2>. HIDE DEF w
  <2>. QED  BY <2>1, <2>2, <1>5
<1>. QED  BY <1>1, <1>2, <1>3, <1>4, <1>5 DEF Linking, Revoking

LEMMA CallSteps ==
  /\ \A c : CallServed(c) => \E a, m : calls' = (calls \ {c}) \cup {Answers(c, a, m)}
  /\ \A c : CallDone(c) => calls' = calls \ {c}
BY DEF CallServed, AnswerOf, Answers, CallDone

LEMMA OtherCalls ==
  ASSUME Reading \/ Opening \/ Others \/ UNCHANGED vars
  PROVE  CallsKeep \/ CallsOrphaned
<1>1. CASE Reading \/ Others \/ UNCHANGED vars
  BY <1>1 DEF Reading, Others, useFolders, useShares, Scope, OtherRule, MemberLeaves, OtherLink,
     FileChanges, vars, callVars, CallsKeep
<1>2. CASE Opening
  BY <1>2 DEF Opening, OpenDialog, Close, onOpenFolder, callVars, CallsKeep, CallsOrphaned, Orphan
<1>. QED  BY <1>1, <1>2

LEMMA DraftedStep ==
  ASSUME Shaped, Drafted, [Next]_vars
  PROVE  Shaped' /\ Drafted'
<1>1. CASE CallsKeep
  BY <1>1 DEF CallsKeep, Shaped, Drafted
<1>2. ASSUME NEW c \in calls, NEW a, NEW m, calls' = (calls \ {c}) \cup {Answers(c, a, m)}
      PROVE  Shaped' /\ Drafted'
  <2>. DEFINE d == Answers(c, a, m)
  <2>1. IsCall(d) /\ d.kind = c.kind /\ d.put = c.put /\ d.base = c.base /\ d.about = c.about
    BY AnswersKeep DEF Shaped
  <2>. HIDE DEF d
  <2>2. Shaped'
    BY <1>2, <2>1 DEF Shaped, d
  <2>3. SameBut(d.base, d.put, d.about) <=> SameBut(c.base, c.put, c.about)
    BY <2>1
  <2>4. ASSUME NEW e \in calls', e.kind = "rule" PROVE SameBut(e.base, e.put, e.about)
    BY <1>2, <2>1, <2>3, <2>4 DEF Drafted, d
  <2>. QED  BY <2>2, <2>4 DEF Drafted
<1>3. CASE CallsOrphaned
  <2>1. ASSUME NEW e \in calls'
        PROVE  IsCall(e) /\ (e.kind = "rule" => SameBut(e.base, e.put, e.about))
    <3>1. PICK c \in calls : e = Orphan(c)
      BY <1>3, <2>1 DEF CallsOrphaned
    <3>2. IsCall(e) /\ e.kind = c.kind /\ e.put = c.put /\ e.base = c.base /\ e.about = c.about
      BY <3>1, OrphanKeeps DEF Shaped
    <3>. QED  BY <3>2 DEF Drafted
  <2>. QED  BY <2>1 DEF Shaped, Drafted
<1>4. ASSUME NEW w, Sent(w), w.kind = "rule" => SameBut(w.base, w.put, w.about)
      PROVE  Shaped' /\ Drafted'
  BY <1>4 DEF Sent, Shaped, Drafted
<1>5. CASE UNCHANGED vars
  BY <1>1, <1>3, <1>5, OtherCalls
<1>6. CASE Next
  <2>1. CASE Reading \/ Opening \/ Others
    BY <2>1, <1>1, <1>3, OtherCalls
  <2>2. CASE Drafting
    BY <2>2, <1>4, DraftSent DEF SentRule
  <2>3. CASE Linking \/ Revoking
    BY <2>3, <1>1, <1>4, LinkingSends
       DEF CallsKeep, SentMint, SentRevoke, SentExpiry, SentBanner
  <2>4. ASSUME NEW c \in calls, CallServed(c) \/ CallDone(c) PROVE Shaped' /\ Drafted'
    <3>1. CASE CallServed(c)
      BY <3>1, <1>2, CallSteps
    <3>2. CASE CallDone(c)
      BY <3>2, <1>1, CallSteps DEF CallsKeep
    <3>. QED  BY <2>4, <3>1, <3>2
  <2>. QED  BY <1>6, <2>1, <2>2, <2>3, <2>4, NextGroups
<1>. QED  BY <1>5, <1>6

\* The rule changes where the hub serves a write of it, or somebody else's act.
LEMMA EditsStep ==
  ASSUME Shaped, Drafted, [Next]_vars
  PROVE  Edits
<1>. SUFFICES ASSUME NEW c \in calls, c.kind = "rule", c.base = rule, rule' # rule, c \notin calls'
              PROVE  SameBut(rule, rule', c.about)
  BY DEF Edits
<1>1. CASE Reading \/ Drafting \/ Linking \/ Revoking \/ Opening \/ UNCHANGED vars
  BY <1>1 DEF Reading, Drafting, Linking, Revoking, Opening, useFolders, useShares, Scope,
     SetLevel, SetGrant, putRule, mint, CancelMint, Restricted, setExpiry, AskRevoke, revokeShare,
     OpenDialog, Close, onOpenFolder, hubVars, vars
<1>2. CASE Others
  BY <1>2 DEF Others, OtherRule, MemberLeaves, OtherLink, FileChanges, callVars
<1>3. ASSUME NEW d \in calls, CallServed(d) PROVE SameBut(rule, rule', c.about)
  <2>1. c = d
    BY <1>3, CallSteps
  <2>2. Served(c)
    BY <1>3, <2>1 DEF CallServed
  <2>3. rule' = c.put
    BY <2>2 DEF Served, RuleServed
  <2>. QED  BY <2>3 DEF Drafted
<1>4. ASSUME NEW d \in calls, CallDone(d) PROVE FALSE
  BY <1>4 DEF CallDone, hubVars
<1>. QED  BY <1>1, <1>2, <1>3, <1>4, NextGroups

\* A write of a rule that is still what the dialog showed changes of it only what was
\* chosen: the level of everyone, or of one person (putRule sends the whole rule).
THEOREM EditIsChangeHolds == Spec => EditIsChange
<1>1. Init => Shaped /\ Drafted
  BY DraftedInit DEF Init, Shaped
<1>2. Shaped /\ Drafted /\ [Next]_vars => (Shaped /\ Drafted)'
  BY DraftedStep
<1>3. Shaped /\ Drafted /\ [Next]_vars => Edits
  BY EditsStep
<1>. QED  BY <1>1, <1>2, <1>3, PTL DEF Spec, EditIsChange

-----------------------------------------------------------------------------
(* The listing of links is the hub's once it is read again                 *)

\* What is held of the links, by the hub and by the listing; a listing that nothing
\* happened to since is theirs, or its read will be.
Queries == [data : SUBSET Links, read : BOOLEAN, asked : BOOLEAN, got : SUBSET SUBSET Links]
Numbered(S) == \A l \in S : l.id <= minting
Listing ==
  /\ shares \in Queries /\ (shares.got # {} => shares.asked)
  /\ links \in SUBSET Links /\ minting \in 0 .. MaxLinks
  /\ Numbered(links) /\ \A g \in shares.got : Numbered(g)
  /\ (follow = "rule" => page = "folder")
Current ==
  "shares" \notin behind => IF shares.asked THEN shares.got \subseteq {links} ELSE shares.data = links

\* A link the listing held, or that was asked to be revoked there: while it lives,
\* the listing and the read of it under way have it.
Seen(i) ==
  /\ i \in Nat /\ i <= minting
  /\ i \in Ids(links) => i \in Ids(shares.data) /\ \A g \in shares.got : i \in Ids(g)
SeenHolds ==
  /\ \A l \in shares.data : Seen(l.id)
  /\ \A l \in ask : Seen(l.id)
  /\ \A c \in calls : c.kind = "banner" => \A l \in c.link : Seen(l.id)

-----------------------------------------------------------------------------
(* What the dialog says was minted                                         *)

\* The dialog waits for one call of its own at a time; a closed one has none, and
\* nothing of its own.
Waits(c) == c.mine /\ c.kind \in {"rule", "mint", "revoke"}
Waiting ==
  /\ ~open => ~busy /\ ~pending /\ minted = {}
  /\ ask # {} => ~open
  /\ \A c \in calls : Waits(c) => busy /\ \A d \in calls : Waits(d) => d = c
  /\ \A c \in calls : Waits(c) /\ c.kind = "revoke" => minted = {}

\* A mint of this dialog: its own answer, or one to come.
Minting == pending \/ minted # {} \/ \E c \in calls : c.mine /\ c.kind = "mint"
Gone(c) == \A l \in c.link : l.id \notin Ids(links)
BannersGone == Minting => \A c \in calls : c.kind = "banner" => Gone(c)

Accounted(S) == Ids(S) \subseteq Ids(links) \cup ended
Backed ==
  /\ Accounted(minted)
  /\ \A c \in calls : c.mine /\ c.kind = "mint" /\ c.answer = "ok" => Accounted(c.link)

Inv == Listing /\ Current /\ SeenHolds /\ Waiting /\ BannersGone /\ Backed

-----------------------------------------------------------------------------
(* Steps of the listing                                                    *)

\* The hub's links change, or nothing of the listing does.
HubMoves ==
  /\ shares' = shares /\ ("shares" \in behind => "shares" \in behind')
  /\ links' \in SUBSET Links /\ minting' \in minting .. MaxLinks
  /\ \A l \in links' : l.id \in Ids(links) \/ (l.id > minting /\ l.id <= minting')
  /\ links' # links => "shares" \in behind'
\* A mutation reads the listing again.
Refreshes ==
  /\ shares' = Again(shares, "links") /\ links' = links /\ minting' = minting
  /\ "shares" \in behind \/ Joins(shares) => "shares" \in behind'

LEMMA InIds ==
  ASSUME NEW S
  PROVE  /\ \A l \in S : l.id \in Ids(S)
         /\ \A i \in Ids(S) : \E l \in S : l.id = i
BY DEF Ids

LEMMA HubStays ==
  ASSUME Bounds, Listing, UNCHANGED <<shares, links, minting>>,
         "shares" \in behind => "shares" \in behind'
  PROVE  HubMoves
BY InIds DEF HubMoves, Listing, Bounds

LEMMA ServedMoves ==
  ASSUME Bounds, Listing, NEW c, IsCall(c), Served(c)
  PROVE  /\ links' \in SUBSET Links /\ minting' \in minting .. MaxLinks
         /\ \A l \in links' : l.id \in Ids(links) \/ (l.id > minting /\ l.id <= minting')
<1>. USE DEF Listing, Bounds
<1>1. CASE UNCHANGED <<links, minting>>
  BY <1>1, InIds
<1>2. CASE RevokeServed(c)
  BY <1>2, InIds DEF RevokeServed
<1>3. CASE ExpiryServed(c)
  <2>1. ASSUME NEW l \in links' PROVE l \in Links /\ l.id \in Ids(links)
    <3>1. CASE l \in links
      BY <3>1, InIds
    <3>2. CASE l \notin links
      <4>1. PICK k \in Live(c) : l = [k EXCEPT !.expires = c.expires]
        BY <3>2, <2>1, <1>3 DEF ExpiryServed
      <4>2. k \in links
        BY <4>1 DEF Live
      <4>3. l \in Links /\ l.id = k.id
        BY <4>1, <4>2 DEF Links, IsCall
      <4>. QED  BY <4>2, <4>3, InIds
    <3>. QED  BY <3>1, <3>2
  <2>2. minting' = minting
    BY <1>3 DEF ExpiryServed
  <2>. QED  BY <2>1, <2>2
<1>4. CASE MintServed(c)
  <2>1. CASE links' = links \cup {[id |-> minting + 1, expires |-> FALSE]}
             /\ minting < MaxLinks /\ minting' = minting + 1
    <3>1. [id |-> minting + 1, expires |-> FALSE] \in Links
      BY <2>1 DEF Links
    <3>2. minting \in Nat /\ minting' \in minting .. MaxLinks
      BY <2>1
    <3>3. ASSUME NEW l \in links'
          PROVE  l \in Links /\ (l.id \in Ids(links) \/ (l.id > minting /\ l.id <= minting'))
      <4>1. CASE l \in links
        BY <4>1, InIds
      <4>2. CASE l = [id |-> minting + 1, expires |-> FALSE]
        <5>1. l.id = minting + 1
          BY <4>2
        <5>. QED  BY <5>1, <4>2, <2>1, <3>1, <3>2
      <4>. QED  BY <2>1, <3>3, <4>1, <4>2
    <3>. QED  BY <3>2, <3>3
  <2>. QED  BY <2>1, <1>1, <1>4 DEF MintServed
<1>5. RuleServed(c) => UNCHANGED <<links, minting>>
  BY DEF RuleServed
<1>6. RuleServed(c) \/ MintServed(c) \/ ExpiryServed(c) \/ RevokeServed(c)
  BY DEF Served
<1>. QED  BY <1>1, <1>2, <1>3, <1>4, <1>5, <1>6

LEMMA CallServedMoves ==
  ASSUME Bounds, Listing, NEW c, IsCall(c), CallServed(c)
  PROVE  HubMoves
<1>1. CASE UNCHANGED <<links, minting, behind>>
  BY <1>1, HubStays DEF CallServed
<1>2. CASE Served(c)
  BY <1>1, <1>2, ServedMoves DEF CallServed, HubMoves
<1>. QED  BY <1>1, <1>2 DEF CallServed

LEMMA OthersMove ==
  ASSUME Bounds, Listing, Others
  PROVE  HubMoves
<1>1. CASE OtherRule \/ MemberLeaves \/ FileChanges
  BY <1>1, HubStays DEF OtherRule, MemberLeaves, FileChanges, cacheVars
<1>2. CASE OtherLink
  <2>1. shares' = shares /\ behind' = behind \cup {"shares"}
    BY <1>2 DEF OtherLink
  <2>2. CASE minting < MaxLinks /\ minting' = minting + 1
             /\ \E e \in BOOLEAN : links' = links \cup {[id |-> minting + 1, expires |-> e]}
    <3>1. PICK e \in BOOLEAN : links' = links \cup {[id |-> minting + 1, expires |-> e]}
      BY <2>2
    <3>2. [id |-> minting + 1, expires |-> e] \in Links
      BY <2>2 DEF Links, Bounds, Listing
    <3>. QED  BY <2>1, <2>2, <3>1, <3>2, InIds DEF HubMoves, Listing, Bounds
  <2>3. CASE minting' = minting /\ \E l \in links : links' = links \ {l}
    BY <2>1, <2>3, InIds DEF HubMoves, Listing, Bounds
  <2>. QED  BY <1>2, <2>2, <2>3 DEF OtherLink
<1>. QED  BY <1>1, <1>2 DEF Others

LEMMA DoneRefreshes ==
  ASSUME Bounds, Listing, NEW c, CallDone(c)
  PROVE  HubMoves \/ Refreshes
<1>1. UNCHANGED hubVars
  BY DEF CallDone
<1>2. CASE UNCHANGED cacheVars
  BY <1>1, <1>2, HubStays DEF hubVars, cacheVars
<1>3. CASE refreshShares
  BY <1>1, <1>3 DEF Refreshes, refreshShares, hubVars
<1>4. CASE reload
  BY <1>1, <1>4 DEF Refreshes, reload, hubVars
<1>. QED  BY <1>2, <1>3, <1>4 DEF CallDone, MintDone, RunDone, ExpiryDone, BannerDone

LEMMA ListingSteps ==
  ASSUME Bounds, Listing, Shaped, [Next]_vars
  PROVE  HubMoves \/ Refreshes \/ useShares
<1>1. CASE UNCHANGED <<hubVars, cacheVars>>
  BY <1>1, HubStays DEF hubVars, cacheVars
<1>2. CASE Drafting \/ Linking \/ Revoking \/ OpenDialog \/ onOpenFolder
  BY <1>1, <1>2 DEF Drafting, Linking, Revoking, SetLevel, SetGrant, putRule, mint, CancelMint,
     Restricted, setExpiry, AskRevoke, revokeShare, OpenDialog, onOpenFolder
<1>3. CASE Reading
  <2>1. CASE useFolders \/ Scope
    BY <2>1, HubStays DEF useFolders, Scope, hubVars
  <2>. QED  BY <2>1, <1>3 DEF Reading
<1>4. CASE Close
  BY <1>4 DEF Close, refreshShares, Refreshes, hubVars
<1>5. CASE Opening
  BY <1>5, <1>2, <1>4 DEF Opening
<1>6. ASSUME NEW c \in calls, CallServed(c) \/ CallDone(c) PROVE HubMoves \/ Refreshes
  BY <1>6, CallServedMoves, DoneRefreshes DEF Shaped
<1>7. UNCHANGED vars => UNCHANGED <<hubVars, cacheVars>>
  BY DEF vars
<1>. QED  BY <1>1, <1>2, <1>3, <1>5, <1>6, <1>7, OthersMove, NextGroups

LEMMA PageStep ==
  ASSUME [Next]_vars, follow = "rule" => page = "folder"
  PROVE  follow' = "rule" => page' = "folder"
<1>1. follow' = follow /\ (page' = page \/ onOpenFolder)
  <2>1. CASE Reading \/ Drafting \/ Linking \/ Revoking \/ Opening
    BY <2>1 DEF Reading, Drafting, Linking, Revoking, Opening, useFolders, useShares, Scope,
       SetLevel, SetGrant, putRule, mint, CancelMint, Restricted, setExpiry, AskRevoke, revokeShare,
       OpenDialog, Close, onOpenFolder, hubVars, dialogVars
  <2>2. CASE Others
    BY <2>2 DEF Others, OtherRule, MemberLeaves, OtherLink, FileChanges, dialogVars
  <2>3. ASSUME NEW c \in calls, CallServed(c) \/ CallDone(c) PROVE UNCHANGED <<follow, page>>
    BY <2>3 DEF CallServed, CallDone, dialogVars, hubVars
  <2>4. CASE UNCHANGED vars
    BY <2>4 DEF vars, hubVars, dialogVars
  <2>. QED  BY <2>1, <2>2, <2>3, <2>4, NextGroups
<1>. QED  BY <1>1 DEF onOpenFolder

\* What reading again makes of the listing.
LEMMA AgainIs ==
  ASSUME Listing
  PROVE  /\ Again(shares, "links") \in Queries
         /\ Again(shares, "links").data = shares.data
         /\ \/ Again(shares, "links") = shares
            \/ Again(shares, "links").got = {} /\ Again(shares, "links").asked
<1>1. CASE Again(shares, "links") = shares
  BY <1>1 DEF Listing
<1>2. CASE Again(shares, "links") = [shares EXCEPT !.asked = TRUE, !.got = {}]
  <2>. DEFINE q == [shares EXCEPT !.asked = TRUE, !.got = {}]
  <2>1. shares \in Queries
    BY DEF Listing
  <2>2. q.data = shares.data /\ q.got = {} /\ q.asked
    BY <2>1 DEF Queries
  <2>3. q \in Queries
    BY <2>1 DEF Queries
  <2>. QED  BY <1>2, <2>2, <2>3
<1>. QED  BY <1>1, <1>2 DEF Again, Invalidated

LEMMA AnswerIs ==
  ASSUME Listing, useShares
  PROVE  /\ links' = links /\ minting' = minting /\ shares' \in Queries
         /\ \/ /\ shares'.data = shares.data /\ shares'.asked /\ shares'.got = {links}
            \/ /\ shares'.data \in shares.got /\ ~shares'.asked /\ shares'.got = {}
               /\ behind' = behind
<1>1. UNCHANGED <<links, minting>>
  BY DEF useShares, hubVars
<1>2. CASE shares.asked /\ shares' = [shares EXCEPT !.got = {links}]
  <2>1. shares' = [data |-> shares.data, read |-> shares.read, asked |-> shares.asked,
                   got |-> {links}]
    BY <1>2 DEF Listing, Queries
  <2>. QED  BY <1>1, <1>2, <2>1 DEF Listing, Queries
<1>3. CASE shares' \in Answered(shares) /\ behind' = behind
  <2>1. PICK d \in shares.got : shares' = Read(d)
    BY <1>3 DEF Answered
  <2>2. d \in SUBSET Links
    BY DEF Listing, Queries
  <2>3. Read(d) \in Queries /\ Read(d).data = d /\ ~Read(d).asked /\ Read(d).got = {}
    BY <2>2 DEF Read, Queries
  <2>. QED  BY <1>1, <1>3, <2>1, <2>3
<1>. QED  BY <1>2, <1>3 DEF useShares

LEMMA ListingStep ==
  ASSUME Bounds, Listing, Shaped, [Next]_vars
  PROVE  Listing'
<1>1. CASE HubMoves
  <2>1. shares' = shares /\ links' \in SUBSET Links /\ minting' \in 0 .. MaxLinks
        /\ minting <= minting' /\ minting \in Nat
    BY <1>1 DEF HubMoves, Listing, Bounds
  <2>2. ASSUME NEW l \in links' PROVE l.id <= minting'
    <3>1. CASE l.id \in Ids(links)
      <4>1. PICK k \in links : k.id = l.id
        BY <3>1, InIds
      <4>2. k.id \in Nat /\ k.id <= minting
        BY <4>1 DEF Listing, Numbered, Links
      <4>. QED  BY <4>1, <4>2, <2>1
    <3>. QED  BY <3>1, <1>1 DEF HubMoves
  <2>3. ASSUME NEW g \in shares.got, NEW l \in g PROVE l.id <= minting'
    <3>1. l.id \in Nat /\ l.id <= minting
      BY <2>3 DEF Listing, Numbered, Links, Queries
    <3>. QED  BY <3>1, <2>1
  <2>. QED  BY <2>1, <2>2, <2>3, PageStep DEF Listing, Numbered
<1>2. CASE Refreshes
  BY <1>2, AgainIs, PageStep DEF Refreshes, Listing, Numbered
<1>3. CASE useShares
  BY <1>3, AnswerIs, PageStep DEF Listing, Numbered
<1>. QED  BY <1>1, <1>2, <1>3, ListingSteps

LEMMA CurrentStep ==
  ASSUME Bounds, Listing, Shaped, Current, [Next]_vars
  PROVE  Current'
<1>1. CASE HubMoves
  BY <1>1 DEF HubMoves, Current
<1>2. CASE Refreshes
  <2>1. CASE shares' = shares /\ links' = links
    BY <1>2, <2>1 DEF Refreshes, Current
  <2>2. CASE shares'.got = {} /\ shares'.asked
    BY <2>2 DEF Current
  <2>. QED  BY <1>2, <2>1, <2>2, AgainIs DEF Refreshes
<1>3. CASE useShares
  BY <1>3, AnswerIs DEF Listing, Current
<1>. QED  BY <1>1, <1>2, <1>3, ListingSteps

\* What was seen stays seen: links of new numbers only come.
LEMMA SeenStays ==
  ASSUME Bounds, Listing, Shaped, [Next]_vars, NEW i, Seen(i)
  PROVE  Seen(i)'
<1>1. CASE HubMoves
  <2>1. minting \in Nat /\ minting' \in Nat /\ minting <= minting' /\ shares' = shares
    BY <1>1 DEF HubMoves, Listing, Bounds
  <2>2. ASSUME i \in Ids(links)' PROVE i \in Ids(links)
    <3>1. PICK l \in links' : l.id = i
      BY <2>2 DEF Ids
    <3>. QED  BY <3>1, <2>1, <1>1 DEF HubMoves, Seen
  <2>. QED  BY <2>1, <2>2 DEF Seen
<1>2. CASE Refreshes
  BY <1>2, AgainIs DEF Refreshes, Seen, Ids
<1>3. CASE useShares
  BY <1>3, AnswerIs DEF Seen, Ids
<1>. QED  BY <1>1, <1>2, <1>3, ListingSteps

LEMMA DataSeen ==
  ASSUME Bounds, Listing, Shaped, SeenHolds, [Next]_vars, NEW l \in shares'.data
  PROVE  Seen(l.id)'
<1>1. CASE shares'.data = shares.data
  BY <1>1, SeenStays DEF SeenHolds
<1>2. CASE useShares /\ shares'.data \in shares.got /\ shares'.got = {}
  <2>1. l \in Links /\ l.id <= minting /\ minting' = minting
    BY <1>2, AnswerIs DEF Listing, Numbered, Queries
  <2>2. l.id \in Nat /\ l.id \in Ids(shares'.data)
    BY <2>1, InIds DEF Links
  <2>. QED  BY <1>2, <2>1, <2>2 DEF Seen, Ids
<1>. QED  BY <1>1, <1>2, ListingSteps, AgainIs, AnswerIs DEF HubMoves, Refreshes

-----------------------------------------------------------------------------
(* Steps of the calls                                                      *)

\* What serving a call makes of it: a mint that went well is answered with a link.
Replaced(c) ==
  \E a, m : /\ calls' = (calls \ {c}) \cup {Answers(c, a, m)}
            /\ m = c.link \/ c.kind = "mint"
            /\ c.kind = "mint" /\ a = "ok" => \E l \in links' : m = {l}
SameDialog == UNCHANGED <<open, minted, pending, busy, ask>>
Quiet == SameDialog \/ CancelMint \/ AskRevoke \/ revokeShare \/ OpenDialog
Sends(w) == SentRule(w) \/ SentMint(w) \/ SentRevoke(w) \/ SentExpiry(w) \/ SentBanner(w)

LEMMA ServedReplaces ==
  ASSUME NEW c, CallServed(c)
  PROVE  Replaced(c) /\ SameDialog
<1>1. PICK a : AnswerOf(c, a)
  BY DEF CallServed
<1>2. PICK m \in IF c.kind = "mint" /\ a = "ok" THEN {{l} : l \in {x \in links' : ~x.expires}}
                 ELSE {c.link} : calls' = (calls \ {c}) \cup {Answers(c, a, m)}
  BY <1>1 DEF AnswerOf, Answers
<1>3. Replaced(c)
  BY <1>2 DEF Replaced
<1>. QED  BY <1>3 DEF CallServed, dialogVars, SameDialog

\* Each step is one of these.
LEMMA CallsChange ==
  ASSUME [Next]_vars
  PROVE  \/ calls' = calls /\ Quiet
         \/ \E c \in calls : CallServed(c) /\ Replaced(c) /\ SameDialog
         \/ \E c \in calls : CallDone(c)
         \/ Close
         \/ \E w : Sent(w) /\ Sends(w)
<1>1. CASE Reading \/ Others \/ onOpenFolder \/ UNCHANGED vars
  <2>1. calls' = calls /\ SameDialog
    BY <1>1 DEF Reading, Others, useFolders, useShares, Scope, OtherRule, MemberLeaves, OtherLink,
       FileChanges, onOpenFolder, vars, callVars, dialogVars, SameDialog
  <2>. QED  BY <2>1 DEF Quiet
<1>2. CASE OpenDialog
  BY <1>2 DEF OpenDialog, callVars, Quiet
<1>3. CASE Drafting \/ Linking \/ Revoking
  BY <1>3, DraftSent, LinkingSends DEF Sends, Quiet
<1>4. ASSUME NEW c \in calls, CallServed(c) \/ CallDone(c)
      PROVE  \E d \in calls : CallDone(d) \/ (CallServed(d) /\ Replaced(d) /\ SameDialog)
  BY <1>4, ServedReplaces
<1>. QED  BY <1>1, <1>2, <1>3, <1>4, NextGroups DEF Opening

LEMMA GoneStays ==
  ASSUME Bounds, Listing, Shaped, [Next]_vars, NEW i \in Nat, i <= minting, i \notin Ids(links)
  PROVE  i \notin Ids(links')
<1>1. CASE HubMoves
  <2>1. minting \in Nat
    BY DEF Listing, Bounds
  <2>. SUFFICES ASSUME i \in Ids(links') PROVE FALSE
    OBVIOUS
  <2>2. PICK l \in links' : l.id = i
    BY DEF Ids
  <2>. QED  BY <1>1, <2>1, <2>2 DEF HubMoves
<1>2. CASE links' = links
  BY <1>2
<1>. QED  BY <1>1, <1>2, ListingSteps, AnswerIs DEF Refreshes

\* A banner's call was under way, or asks for the link its confirmation named.
LEMMA BannerCalls ==
  ASSUME Shaped, [Next]_vars, NEW c \in calls', c.kind = "banner"
  PROVE  \/ \E d \in calls : d.kind = "banner" /\ d.link = c.link
         \/ revokeShare /\ c.link = ask /\ \E w : calls' = calls \cup {w} /\ w.kind = "banner"
<1>1. CASE c \in calls
  BY <1>1
<1>2. ASSUME NEW d \in calls, Replaced(d), c \notin calls
      PROVE  d.kind = "banner" /\ d.link = c.link
  <2>1. PICK a, m : c = Answers(d, a, m) /\ (m = d.link \/ d.kind = "mint")
    BY <1>2 DEF Replaced
  <2>2. c.kind = d.kind /\ c.link = m
    BY <2>1, AnswersKeep DEF Shaped
  <2>. QED  BY <2>1, <2>2
<1>3. ASSUME Close, c \notin calls PROVE \E d \in calls : d.kind = "banner" /\ d.link = c.link
  <2>1. PICK d \in calls : c = Orphan(d)
    BY <1>3 DEF Close, Orphan
  <2>. QED  BY <2>1, OrphanKeeps DEF Shaped
<1>4. ASSUME NEW w, Sent(w), Sends(w), c \notin calls
      PROVE  revokeShare /\ c.link = ask /\ calls' = calls \cup {c}
  BY <1>4 DEF Sent, Sends, SentRule, SentMint, SentRevoke, SentExpiry, SentBanner
<1>5. ASSUME NEW d \in calls, CallDone(d) PROVE c \in calls
  BY <1>5, CallSteps
<1>. QED  BY <1>1, <1>2, <1>3, <1>4, <1>5, CallsChange

\* What the confirmation asks about is of the listing.
LEMMA AskStep ==
  ASSUME [Next]_vars
  PROVE  ask' = ask \/ ask' = {} \/ \E l \in shares.data : ask' = {l} /\ shares' = shares
<1>1. SameDialog => ask' = ask
  BY DEF SameDialog
<1>2. CASE calls' = calls /\ Quiet
  BY <1>1, <1>2 DEF Quiet, CancelMint, AskRevoke, revokeShare, OpenDialog, cacheVars
<1>3. ASSUME NEW w, Sends(w) PROVE ask' = ask \/ ask' = {}
  BY <1>3 DEF Sends, SentRule, SentMint, SentRevoke, SentExpiry, SentBanner, Drafting, SetLevel,
     SetGrant, putRule, mint, Restricted, setExpiry, revokeShare
<1>. QED  BY <1>1, <1>2, <1>3, CallsChange DEF CallDone, Close

LEMMA SeenStep ==
  ASSUME Bounds, Listing, Shaped, SeenHolds, [Next]_vars
  PROVE  SeenHolds'
<1>1. \A l \in shares'.data : Seen(l.id)'
  BY DataSeen
<1>2. \A l \in ask' : Seen(l.id)'
  BY AskStep, <1>1, SeenStays DEF SeenHolds
<1>3. ASSUME NEW c \in calls', c.kind = "banner", NEW l \in c.link PROVE Seen(l.id)'
  BY <1>3, BannerCalls, SeenStays DEF SeenHolds
<1>. QED  BY <1>1, <1>2, <1>3 DEF SeenHolds

-----------------------------------------------------------------------------
(* Steps of the dialog                                                     *)

\* The call whose answer is handled, and what it leaves.
LEMMA DoneDialog ==
  ASSUME Shaped, NEW c \in calls, CallDone(c)
  PROVE  /\ open' = open /\ ask' = ask /\ calls' = calls \ {c}
         /\ busy' = IF Waits(c) THEN FALSE ELSE busy
         /\ minted' = minted \/ (c.mine /\ c.kind = "mint" /\ c.answer = "ok" /\ minted' = c.link)
         /\ pending' => pending \/ (c.mine /\ c.kind = "mint")
<1>1. c.kind \in Kinds
  BY DEF Shaped, IsCall
<1>2. /\ open' = open /\ ask' = ask /\ calls' = calls \ {c}
  BY DEF CallDone
<1>3. CASE c.kind = "mint"
  <2>1. MintDone(c)
    BY <1>3 DEF CallDone
  <2>. QED  BY <1>2, <1>3, <2>1 DEF MintDone, Mine, Waits
<1>4. CASE c.kind = "expiry"
  <2>1. ExpiryDone(c)
    BY <1>4 DEF CallDone
  <2>. QED  BY <1>2, <1>4, <2>1 DEF ExpiryDone, Waits
<1>5. CASE c.kind = "banner"
  <2>1. BannerDone(c)
    BY <1>5 DEF CallDone
  <2>. QED  BY <1>2, <1>5, <2>1 DEF BannerDone, Waits
<1>6. CASE c.kind \in {"rule", "revoke"}
  <2>1. RunDone(c)
    BY <1>6 DEF CallDone
  <2>. QED  BY <1>2, <1>6, <2>1 DEF RunDone, Mine, Waits
<1>. QED  BY <1>1, <1>3, <1>4, <1>5, <1>6 DEF Kinds

LEMMA WaitingDone ==
  ASSUME Shaped, Waiting, NEW c \in calls, CallDone(c)
  PROVE  Waiting'
<1>1. CASE Waits(c)
  <2>1. \A d \in calls' : ~Waits(d)
    BY <1>1, DoneDialog DEF Waiting
  <2>2. open
    BY <1>1 DEF Waiting
  <2>. QED  BY <2>1, <2>2, DoneDialog DEF Waiting
<1>2. CASE ~Waits(c)
  <2>1. ~(c.mine /\ c.kind = "mint")
    BY <1>2 DEF Waits
  <2>2. busy' = busy /\ minted' = minted /\ (pending' => pending) /\ calls' = calls \ {c}
        /\ open' = open /\ ask' = ask
    BY <1>2, <2>1, DoneDialog
  <2>. QED  BY <2>2 DEF Waiting
<1>. QED  BY <1>1, <1>2

LEMMA WaitingStep ==
  ASSUME Shaped, Waiting, [Next]_vars
  PROVE  Waiting'
<1>1. CASE calls' = calls /\ Quiet
  <2>1. CASE SameDialog
    BY <1>1, <2>1 DEF SameDialog, Waiting
  <2>2. CASE CancelMint
    BY <1>1, <2>2 DEF CancelMint, Waiting
  <2>3. CASE AskRevoke
    BY <1>1, <2>3 DEF AskRevoke, Waiting
  <2>4. CASE revokeShare
    BY <1>1, <2>4 DEF revokeShare, Waiting
  <2>5. CASE OpenDialog
    <3>1. \A c \in calls : ~Waits(c)
      BY <2>5 DEF OpenDialog, Waiting
    <3>2. open' /\ ask' = {}
      BY <2>5 DEF OpenDialog
    <3>. QED  BY <1>1, <3>1, <3>2 DEF Waiting
  <2>. QED  BY <1>1, <2>1, <2>2, <2>3, <2>4, <2>5 DEF Quiet
<1>2. ASSUME NEW c \in calls, Replaced(c), SameDialog PROVE Waiting'
  <2>1. PICK a, m : calls' = (calls \ {c}) \cup {Answers(c, a, m)}
    BY <1>2 DEF Replaced
  <2>. DEFINE d == Answers(c, a, m)
  <2>2. (Waits(d) <=> Waits(c)) /\ d.kind = c.kind
    BY AnswersKeep DEF Shaped, Waits
  <2>. HIDE DEF d
  <2>3. ASSUME NEW e \in calls', Waits(e) PROVE busy /\ (e.kind = "revoke" => minted = {})
    BY <2>1, <2>2, <2>3 DEF Waiting, d
  <2>4. ASSUME NEW e \in calls', Waits(e), NEW f \in calls', Waits(f) PROVE f = e
    <3>1. CASE Waits(c)
      BY <3>1, <2>1, <2>4 DEF Waiting, d
    <3>2. CASE ~Waits(c)
      BY <3>2, <2>1, <2>2, <2>4 DEF Waiting, d
    <3>. QED  BY <3>1, <3>2
  <2>. QED  BY <1>2, <2>3, <2>4 DEF Waiting, SameDialog
<1>3. CASE Close
  <2>1. \A c \in calls' : ~Waits(c)
    <3>. SUFFICES ASSUME NEW c \in calls' PROVE ~Waits(c)
      OBVIOUS
    <3>1. PICK d \in calls : c = Orphan(d)
      BY <1>3 DEF Close, Orphan
    <3>. QED  BY <3>1, OrphanKeeps DEF Shaped, Waits
  <2>2. ask' = {} /\ ~open' /\ ~busy' /\ ~pending' /\ minted' = {}
    BY <1>3 DEF Close, Waiting
  <2>. QED  BY <2>1, <2>2 DEF Waiting
<1>4. ASSUME NEW w, Sent(w), Sends(w) PROVE Waiting'
  <2>1. calls' = calls \cup {w}
    BY <1>4 DEF Sent
  <2>2. CASE SentRule(w) \/ SentMint(w) \/ SentRevoke(w)
    <3>1. open /\ ~busy /\ busy' /\ open' = open /\ ask' = ask
          /\ (w.kind = "revoke" => minted' = {})
      BY <2>2 DEF SentRule, SentMint, SentRevoke, Drafting, SetLevel, SetGrant, putRule, mint,
         Restricted
    <3>2. \A c \in calls : ~Waits(c)
      BY <3>1 DEF Waiting
    <3>. QED  BY <2>1, <3>1, <3>2 DEF Waiting
  <2>3. CASE SentExpiry(w) \/ SentBanner(w)
    <3>1. ~Waits(w) /\ UNCHANGED <<open, minted, pending, busy>> /\ ask' \in {ask, {}}
      BY <2>3 DEF SentExpiry, SentBanner, setExpiry, revokeShare, Waits
    <3>. QED  BY <2>1, <3>1 DEF Waiting
  <2>. QED  BY <1>4, <2>2, <2>3 DEF Sends
<1>. QED  BY <1>1, <1>2, <1>3, <1>4, WaitingDone, CallsChange

\* A mint begins where the dialog shows no link.
LEMMA MintingBegins ==
  ASSUME Shaped, Waiting, [Next]_vars, Minting'
  PROVE  Minting \/ mint(FALSE)
<1>1. CASE calls' = calls /\ Quiet
  BY <1>1 DEF Quiet, SameDialog, CancelMint, AskRevoke, revokeShare, OpenDialog, Minting
<1>2. ASSUME NEW c \in calls, Replaced(c), SameDialog PROVE Minting
  <2>1. PICK a, m : calls' = (calls \ {c}) \cup {Answers(c, a, m)}
    BY <1>2 DEF Replaced
  <2>. DEFINE d == Answers(c, a, m)
  <2>2. (d.mine <=> c.mine) /\ d.kind = c.kind
    BY AnswersKeep DEF Shaped
  <2>. HIDE DEF d
  <2>. QED  BY <1>2, <2>1, <2>2 DEF Minting, SameDialog, d
<1>3. ASSUME NEW c \in calls, CallDone(c) PROVE Minting
  BY <1>3, DoneDialog DEF Minting
<1>4. CASE Close
  <2>1. ~pending' /\ minted' = {} /\ calls' = {Orphan(c) : c \in calls}
    BY <1>4 DEF Close, Orphan
  <2>. QED  BY <2>1, OrphanKeeps DEF Minting, Shaped
<1>5. ASSUME NEW w, Sent(w), Sends(w) PROVE Minting \/ mint(FALSE)
  <2>1. CASE SentMint(w)
    BY <2>1 DEF SentMint, mint, Minting
  <2>2. CASE ~SentMint(w)
    <3>1. w.kind # "mint" /\ (pending' => pending) /\ (minted' # {} => minted # {})
          /\ calls' = calls \cup {w}
      <4>1. calls' = calls \cup {w}
        BY <1>5 DEF Sent
      <4>2. CASE SentRule(w)
        <5>1. w.kind = "rule" /\ (SetLevel \/ SetGrant)
          BY <4>2 DEF SentRule, Drafting
        <5>2. minted' = minted /\ pending' = pending
          BY <5>1 DEF SetLevel, SetGrant, putRule
        <5>. QED  BY <4>1, <5>1, <5>2
      <4>3. CASE SentRevoke(w)
        BY <4>1, <4>3 DEF SentRevoke, Restricted
      <4>4. CASE SentExpiry(w) \/ SentBanner(w)
        BY <4>1, <4>4 DEF SentExpiry, SentBanner, setExpiry, revokeShare
      <4>. QED  BY <1>5, <2>2, <4>2, <4>3, <4>4 DEF Sends
    <3>. QED  BY <3>1 DEF Minting
  <2>. QED  BY <2>1, <2>2
<1>. QED  BY <1>1, <1>2, <1>3, <1>4, <1>5, CallsChange

\* Links have numbers, so some links have a newest.
LEMMA NewestSome ==
  ASSUME Bounds, NEW S \in SUBSET Links, S # {}
  PROVE  Newest(S) # {} /\ Newest(S) \subseteq S
<1>. DEFINE Less == {ss \in Nat \X Nat : ss[1] < ss[2]}
            Above == {MaxLinks - l.id : l \in S}
<1>0. IsWellFoundedOn(Less, Nat)
  BY NatLessThanWellFounded DEF OpToRel
<1>1. \A l \in S : l.id \in Nat /\ MaxLinks - l.id \in Nat
  BY DEF Links, Bounds
<1>2. Above \subseteq Nat /\ Above # {}
  BY <1>1
<1>3. PICK k \in Above : \A y \in Above : ~(<<y, k>> \in Less)
  <2>. HIDE DEF Above, Less
  <2>. QED  BY <1>0, <1>2, WFMin
<1>4. \A y \in Above : ~(y < k)
  BY <1>2, <1>3
<1>5. PICK l \in S : k = MaxLinks - l.id
  OBVIOUS
<1>6. \A x \in S : x.id <= l.id
  <2>. TAKE x \in S
  <2>1. ~(MaxLinks - x.id < MaxLinks - l.id)
    BY <1>4, <1>5
  <2>. QED  BY <2>1, <1>1 DEF Bounds
<1>. QED  BY <1>5, <1>6 DEF Newest

LEMMA BannersStep ==
  ASSUME Bounds, Listing, Shaped, SeenHolds, Waiting, BannersGone, [Next]_vars
  PROVE  BannersGone'
<1>. SUFFICES ASSUME Minting', NEW c \in calls', c.kind = "banner", NEW l \in c.link
              PROVE  l.id \notin Ids(links')
  BY DEF BannersGone, Gone
<1>1. CASE \E d \in calls : d.kind = "banner" /\ d.link = c.link
  <2>1. PICK d \in calls : d.kind = "banner" /\ d.link = c.link
    BY <1>1
  <2>2. Seen(l.id)
    BY <2>1 DEF SeenHolds
  <2>3. CASE Minting
    BY <2>1, <2>2, <2>3, GoneStays DEF BannersGone, Gone, Seen
  <2>4. CASE mint(FALSE)
    <3>1. shares.data = {}
      BY <2>4, NewestSome DEF mint, link, Listing, Queries
    <3>2. l.id \notin Ids(links)
      BY <3>1, <2>2 DEF Seen, Ids
    <3>. QED  BY <3>2, <2>2, GoneStays DEF Seen
  <2>. QED  BY <2>3, <2>4, MintingBegins
<1>2. CASE revokeShare /\ \E w : calls' = calls \cup {w} /\ w.kind = "banner"
  <2>1. ~open /\ ~busy /\ ~pending /\ minted = {} /\ pending' = pending /\ minted' = minted
    BY <1>2 DEF revokeShare, Waiting
  <2>2. \A d \in calls : ~Waits(d)
    BY <2>1 DEF Waiting
  <2>. QED  BY <1>2, <2>1, <2>2 DEF Minting, Waits
<1>. QED  BY <1>1, <1>2, BannerCalls

-----------------------------------------------------------------------------
(* Where links end                                                         *)

\* A link ends by somebody else, by a call of a dialog closed meanwhile, or by a call
\* of this tab that asked to revoke it.
Told == ended \subseteq ended' /\ Ids(links) \subseteq Ids(links') \cup ended'
RevokesHere(c) ==
  CallServed(c) /\ c.mine /\ c.kind \in {"revoke", "banner"} /\ ~Gone(c) /\ ended' = ended

LEMMA ServedTells ==
  ASSUME Bounds, Listing, Shaped, NEW c \in calls, CallServed(c)
  PROVE  Told \/ RevokesHere(c)
<1>1. ended' = IF c.mine THEN ended ELSE ended \cup (Ids(links) \ Ids(links'))
  BY DEF CallServed
<1>2. CASE ~c.mine
  BY <1>1, <1>2 DEF Told
<1>3. CASE c.mine /\ links' = links
  BY <1>1, <1>3 DEF Told
<1>4. CASE c.mine /\ links' # links
  <2>1. Served(c) /\ ended' = ended /\ c.kind \in Kinds /\ IsCall(c)
    BY <1>1, <1>4 DEF CallServed, Shaped, IsCall
  <2>2. CASE c.kind \in {"revoke", "banner"}
    <3>1. RevokeServed(c)
      BY <2>1, <2>2 DEF Served
    <3>2. PICK l \in links : \E x \in c.link : x.id = l.id
      BY <3>1 DEF RevokeServed, Live
    <3>. QED  BY <1>4, <2>1, <2>2, <3>2 DEF RevokesHere, Gone, Ids
  <2>3. CASE c.kind = "expiry"
    <3>1. ExpiryServed(c)
      BY <2>1, <2>3 DEF Served
    <3>2. ASSUME NEW l \in links PROVE l.id \in Ids(links')
      <4>1. CASE l \notin Live(c)
        BY <3>1, <4>1 DEF ExpiryServed, Ids
      <4>2. CASE l \in Live(c)
        <5>1. [l EXCEPT !.expires = c.expires] \in links'
          BY <3>1, <4>2 DEF ExpiryServed
        <5>2. [l EXCEPT !.expires = c.expires].id = l.id
          BY DEF Listing, Links
        <5>. QED  BY <5>1, <5>2 DEF Ids
      <4>. QED  BY <4>1, <4>2
    <3>. QED  BY <2>1, <3>2, InIds DEF Told
  <2>4. CASE c.kind = "mint"
    <3>1. MintServed(c)
      BY <2>1, <2>4 DEF Served
    <3>2. links \subseteq links'
      BY <3>1 DEF MintServed
    <3>. QED  BY <2>1, <3>2 DEF Told, Ids
  <2>5. CASE c.kind = "rule"
    BY <1>4, <2>1, <2>5 DEF Served, RuleServed
  <2>. QED  BY <2>1, <2>2, <2>3, <2>4, <2>5 DEF Kinds
<1>. QED  BY <1>2, <1>3, <1>4

LEMMA StepTells ==
  ASSUME Bounds, Listing, Shaped, [Next]_vars
  PROVE  Told \/ \E c \in calls : RevokesHere(c) /\ Replaced(c) /\ SameDialog
<1>1. CASE UNCHANGED <<links, ended>>
  BY <1>1 DEF Told
<1>2. CASE Reading \/ Drafting \/ Linking \/ Revoking \/ Opening \/ UNCHANGED vars
  BY <1>1, <1>2 DEF Reading, Drafting, Linking, Revoking, Opening, useFolders, useShares, Scope,
     SetLevel, SetGrant, putRule, mint, CancelMint, Restricted, setExpiry, AskRevoke, revokeShare,
     OpenDialog, Close, onOpenFolder, hubVars, vars
<1>3. CASE Others
  <2>1. CASE OtherLink
    <3>1. CASE links \subseteq links' /\ ended' = ended
      BY <3>1 DEF Told, Ids
    <3>2. CASE \E l \in links : links' = links \ {l} /\ ended' = ended \cup {l.id}
      BY <3>2 DEF Told, Ids
    <3>. QED  BY <2>1, <3>1, <3>2 DEF OtherLink
  <2>2. CASE OtherRule \/ MemberLeaves \/ FileChanges
    BY <1>1, <2>2 DEF OtherRule, MemberLeaves, FileChanges
  <2>. QED  BY <1>3, <2>1, <2>2 DEF Others
<1>4. ASSUME NEW c \in calls, CallServed(c)
      PROVE  Told \/ (RevokesHere(c) /\ Replaced(c) /\ SameDialog)
  BY <1>4, ServedTells, ServedReplaces
<1>5. ASSUME NEW c \in calls, CallDone(c) PROVE Told
  <2>1. links' = links /\ ended' = ended
    BY <1>5 DEF CallDone, hubVars
  <2>. QED  BY <2>1 DEF Told
<1>. QED  BY <1>2, <1>3, <1>4, <1>5, NextGroups

\* What the dialog was told of a mint, now or by an answer to come.
MintTold(c) == c.mine /\ c.kind = "mint" /\ c.answer = "ok"

LEMMA MintedStep ==
  ASSUME Shaped, [Next]_vars
  PROVE  /\ \/ minted' = minted \/ minted' = {}
            \/ \E c \in calls : MintTold(c) /\ minted' = c.link
         /\ \A c \in calls' : MintTold(c) =>
              \/ \E d \in calls : MintTold(d) /\ d.link = c.link
              \/ \E l \in links' : c.link = {l}
<1>1. CASE calls' = calls /\ Quiet
  BY <1>1 DEF Quiet, SameDialog, CancelMint, AskRevoke, revokeShare, OpenDialog
<1>2. ASSUME NEW c \in calls, Replaced(c), SameDialog
      PROVE  /\ minted' = minted
             /\ \A e \in calls' : MintTold(e) =>
                  \/ \E d \in calls : MintTold(d) /\ d.link = e.link
                  \/ \E l \in links' : e.link = {l}
  <2>1. PICK a, m : /\ calls' = (calls \ {c}) \cup {Answers(c, a, m)}
                    /\ c.kind = "mint" /\ a = "ok" => \E l \in links' : m = {l}
    BY <1>2 DEF Replaced
  <2>. DEFINE d == Answers(c, a, m)
  <2>2. d.kind = c.kind /\ d.link = m /\ d.answer = a
    BY AnswersKeep DEF Shaped
  <2>. HIDE DEF d
  <2>3. ASSUME NEW e \in calls', MintTold(e)
        PROVE  \/ \E x \in calls : MintTold(x) /\ x.link = e.link
               \/ \E l \in links' : e.link = {l}
    <3>1. CASE e \in calls
      BY <3>1, <2>3
    <3>2. CASE e = d
      BY <3>2, <2>1, <2>2, <2>3 DEF MintTold
    <3>. QED  BY <2>1, <2>3, <3>1, <3>2 DEF d
  <2>. QED  BY <1>2, <2>3 DEF SameDialog
<1>3. ASSUME NEW c \in calls, CallDone(c)
      PROVE  /\ minted' = minted \/ (MintTold(c) /\ minted' = c.link)
             /\ calls' \subseteq calls
  BY <1>3, DoneDialog DEF MintTold
<1>4. CASE Close
  <2>1. minted' = {} /\ calls' = {Orphan(c) : c \in calls}
    BY <1>4 DEF Close, Orphan
  <2>. QED  BY <2>1, OrphanKeeps DEF MintTold, Shaped
<1>5. ASSUME NEW w, Sent(w), Sends(w)
      PROVE  minted' \in {minted, {}} /\ calls' = calls \cup {w} /\ ~MintTold(w)
  <2>1. calls' = calls \cup {w} /\ ~MintTold(w)
    BY <1>5 DEF Sent, MintTold
  <2>2. CASE SentRule(w) \/ SentMint(w)
    BY <2>1, <2>2 DEF SentRule, SentMint, Drafting, SetLevel, SetGrant, putRule, mint
  <2>3. CASE SentRevoke(w) \/ SentExpiry(w) \/ SentBanner(w)
    BY <2>1, <2>3 DEF SentRevoke, SentExpiry, SentBanner, Restricted, setExpiry, revokeShare
  <2>. QED  BY <1>5, <2>2, <2>3 DEF Sends
<1>. QED  BY <1>1, <1>2, <1>3, <1>4, <1>5, CallsChange

LEMMA BackedStep ==
  ASSUME Bounds, Listing, Shaped, Waiting, BannersGone, Backed, [Next]_vars
  PROVE  Backed'
<1>1. CASE Told
  <2>1. ASSUME NEW S, Accounted(S) PROVE Accounted(S)'
    BY <1>1, <2>1 DEF Accounted, Told
  <2>2. Accounted({})' /\ \A l \in links' : Accounted({l})'
    BY DEF Accounted, Ids
  <2>3. Accounted(minted)'
    BY <2>1, <2>2, MintedStep DEF Backed, MintTold
  <2>4. ASSUME NEW c \in calls', MintTold(c) PROVE Accounted(c.link)'
    BY <2>1, <2>2, <2>4, MintedStep DEF Backed, MintTold
  <2>. QED  BY <2>3, <2>4 DEF Backed, MintTold
<1>2. ASSUME NEW c \in calls, RevokesHere(c), Replaced(c), SameDialog PROVE Backed'
  <2>1. minted = {} /\ \A d \in calls : ~(d.mine /\ d.kind = "mint")
    <3>1. CASE c.kind = "revoke"
      BY <1>2, <3>1 DEF RevokesHere, Waiting, Waits
    <3>2. CASE c.kind = "banner"
      BY <1>2, <3>2 DEF RevokesHere, BannersGone, Minting
    <3>. QED  BY <1>2, <3>1, <3>2 DEF RevokesHere
  <2>2. minted' = {}
    BY <1>2, <2>1 DEF SameDialog
  <2>3. ASSUME NEW d \in calls' PROVE ~MintTold(d)
    <3>1. PICK a, m : calls' = (calls \ {c}) \cup {Answers(c, a, m)}
      BY <1>2 DEF Replaced
    <3>2. Answers(c, a, m).kind = c.kind
      BY AnswersKeep DEF Shaped
    <3>. QED  BY <1>2, <2>1, <3>1, <3>2 DEF MintTold, RevokesHere
  <2>. QED  BY <2>2, <2>3 DEF Backed, Accounted, Ids, MintTold
<1>. QED  BY <1>1, <1>2, StepTells

-----------------------------------------------------------------------------
(* The theorem                                                             *)

LEMMA InvInit ==
  ASSUME Bounds, Init
  PROVE  Shaped /\ Inv
<1>1. shares \in {Unread, Read({})} /\ links = {} /\ minting = 0
  BY DEF Init
<1>2. follow = "rule" => page = "folder"
  BY DEF Init
<1>3. shares \in Queries /\ shares.data = {} /\ shares.got = {}
  <2>1. CASE shares = Unread
    BY <2>1 DEF Unread, Queries
  <2>2. CASE shares = Read({})
    BY <2>2 DEF Read, Queries
  <2>. QED  BY <1>1, <2>1, <2>2
<1>4. Listing
  BY <1>1, <1>2, <1>3 DEF Listing, Numbered, Bounds
<1>5. Current /\ SeenHolds
  BY <1>1, <1>3 DEF Init, Current, SeenHolds
<1>6. Waiting /\ BannersGone /\ Backed /\ Shaped
  BY DEF Init, Waiting, BannersGone, Minting, Backed, Accounted, Ids, Shaped
<1>. QED  BY <1>4, <1>5, <1>6 DEF Inv

LEMMA InvStep ==
  ASSUME Bounds, Shaped, Inv, [Next]_vars
  PROVE  Inv'
BY ListingStep, CurrentStep, SeenStep, WaitingStep, BannersStep, BackedStep DEF Inv

LEMMA InvShows ==
  ASSUME Bounds, Inv
  PROVE  LinkTrue
<1>. SUFFICES ASSUME page = "file", Settled(shares), "shares" \notin behind
              PROVE  (links # {} => link # {}) /\ Ids(link) \subseteq Ids(links) \cup ended
  BY DEF LinkTrue
<1>1. shares.data = links /\ links \in SUBSET Links
  BY DEF Inv, Current, Settled, Listing
<1>2. CASE links = {}
  BY <1>1, <1>2 DEF link, Inv, Backed, Accounted
<1>3. CASE links # {}
  BY <1>1, <1>3, NewestSome DEF link, Ids
<1>. QED  BY <1>2, <1>3

\* With the listing settled the dialog and the banner show a link exactly when the hub
\* has a live one, but for one minted here that somebody else ended since
\* (ShareDialog.tsx's link, ShareBanner.tsx).
THEOREM LinkIsTrue ==
  ASSUME Bounds
  PROVE  Spec => []LinkTrue
<1>1. Init => Shaped /\ Drafted /\ Inv
  BY InvInit, DraftedInit
<1>2. Shaped /\ Drafted /\ Inv /\ [Next]_vars => (Shaped /\ Drafted /\ Inv)'
  BY DraftedStep, InvStep
<1>3. Inv => LinkTrue
  BY InvShows
<1>. QED  BY <1>1, <1>2, <1>3, PTL DEF Spec
=============================================================================
