------------------------------ MODULE Settings ------------------------------
(***************************************************************************)
(* The settings pages: OrgAdmin.tsx (name, members, invites, apps and their  *)
(* keys), ProjectSettings.tsx (the form of its name, description and icon,   *)
(* its people, its data switch), HubSettings.tsx (the policy of signups, and *)
(* who waits), McpConnections.tsx (grants), and the one modal they ask       *)
(* through (modal.tsx).                                                     *)
(*                                                                         *)
(* A behaviour follows one list or one form; rows, and the fields of a form, *)
(* are keys of a function.  A page sends a write, and reads its list again   *)
(* after it: always, or when the write succeeded.                           *)
(***************************************************************************)
EXTENDS Naturals, FiniteSets

CONSTANTS
  Rows, Values,       \* keys of the rows or fields, and what one says
  MaxCalls, MaxOthers \* bounds: writes of this tab, changes by others

VARIABLES
  follow,  \* the list or the form followed
  hub,     \* its rows on the hub
  list,    \* the listing this tab caches
  calls,   \* writes under way
  made, others, \* writes so far, changes by others so far
  behind,  \* others changed it since the tab last read
  unsure,  \* a write failed here since then, served or not
  modal,   \* the dialog on screen
  form,    \* its fields: what they were seeded with, what they hold
  lost     \* keys of apps taken off the screen before they were dismissed

vars == <<follow, hub, list, calls, made, others, behind, unsure, modal, form, lost>>

Forms == {"project", "rename", "policy"}
Lists == {"members", "invites", "apps", "keys", "people", "data", "pending", "grants"}
Tables == UNION {[S -> Values] : S \in SUBSET Rows}
Without(t, r) == [x \in DOMAIN t \ {r} |-> t[x]]
None == [x \in {} |-> 1]
Only(r, v) == [x \in {r} |-> v]
Over(t, u) == [x \in DOMAIN t \cup DOMAIN u |-> IF x \in DOMAIN t THEN t[x] ELSE u[x]]

-----------------------------------------------------------------------------
(* The listing *)

Settled == ~list.asked
Again(q) == IF q.read THEN [q EXCEPT !.asked = TRUE, !.got = {}] ELSE q

\* A first read under way is joined, and may not see what it is for.
reload == list' = Again(list) /\ behind' = (behind \/ (~list.read /\ list.got # {}))

\* Reading: sent, then answered.  New values of the project seed its form
\* again, whatever was typed.
Ask ==
  /\ list.asked /\ list.got = {} /\ list' = [list EXCEPT !.got = {hub}]
  /\ behind' = FALSE /\ unsure' = FALSE
  /\ UNCHANGED <<follow, hub, calls, made, others, modal, form, lost>>
Seeded(t) == [seed |-> t, held |-> t, sending |-> FALSE]
Answer ==
  \E t \in list.got :
    /\ list' = [data |-> t, read |-> TRUE, asked |-> FALSE, got |-> {}]
    /\ form' = IF follow \in Forms /\ t # list.data THEN [Seeded(t) EXCEPT !.sending = form.sending] ELSE form
    /\ UNCHANGED <<follow, hub, calls, made, others, behind, unsure, modal, lost>>

-----------------------------------------------------------------------------
(* The modal: showing one takes the other off, and its promise never settles *)

NoModal == [does |-> "nothing", row |-> {}]
emit(next) ==
  /\ modal' = next
  /\ lost' = IF modal.does = "key" /\ next # NoModal THEN lost \cup modal.row ELSE lost

Shown == DOMAIN list.data
ask(does, rows) ==
  /\ modal = NoModal /\ \E r \in rows : emit([does |-> does, row |-> {r}])
  /\ UNCHANGED <<follow, hub, list, calls, made, others, behind, unsure, form>>

\* What asks first: a name to add by, or a confirmation to remove.
AppNew == follow = "apps" /\ ask("add", Rows \ Shown)
addPerson == follow = "people" /\ ask("add", Rows \ Shown)
MemberRemove == follow = "members" /\ ask("del", Shown)
InviteRevoke == follow = "invites" /\ ask("del", Shown)
AppDelete == follow = "apps" /\ ask("del", Shown)
KeyRevoke == follow = "keys" /\ ask("del", Shown)
cancel ==
  /\ modal # NoModal /\ emit(NoModal)
  /\ IF modal.does = "key" THEN reload ELSE UNCHANGED <<list, behind>>
  /\ UNCHANGED <<follow, hub, calls, made, others, unsure, form>>

-----------------------------------------------------------------------------
(* Writes *)

Send(does, put, row, all) ==
  /\ made < MaxCalls /\ made' = made + 1
  /\ calls' = calls \cup {[n |-> made, does |-> does, put |-> put, row |-> row, all |-> all, answer |-> "none"]}

\* The dialog's answer goes to who asked.
ok ==
  /\ modal.does \in {"add", "del"} /\ emit(NoModal)
  /\ \E r \in modal.row : \E v \in Values :
       Send(modal.does, IF modal.does = "add" THEN Only(r, v) ELSE None, {r}, None)
  /\ UNCHANGED <<follow, hub, list, others, behind, unsure, form>>

\* What acts at once.
Add(rows) == \E r \in rows, v \in Values : Send("add", Only(r, v), {r}, None)
Set == \E r \in Shown : \E v \in Values \ {list.data[r]} : Send("set", Only(r, v), {r}, None)
Remove == \E r \in Shown : Send("del", None, {r}, None)
Acts(page) == follow = page /\ modal = NoModal /\ UNCHANGED <<follow, hub, list, others, behind, unsure, modal, form, lost>>

MemberRole == Acts("members") /\ Set
InviteNew == Acts("invites") /\ Add(Rows \ DOMAIN hub)
KeyNew == Acts("keys") /\ Add(Rows \ DOMAIN hub)
PersonLevel == Acts("people") /\ Set
PersonRemove == Acts("people") /\ Remove
DataToggle == Acts("data") /\ Set
act == Acts("pending") /\ Remove
Disconnect == Acts("grants") /\ calls = {} /\ Remove

\* The hub serves it, or refuses: setting or removing what is gone is refused.
Served(c) ==
  /\ CASE c.does = "add" -> hub' = Over(c.put, hub)
       [] c.does = "set" -> DOMAIN c.put \subseteq DOMAIN hub /\ hub' = Over(c.put, hub)
       [] c.does = "del" -> \E r \in c.row \cap DOMAIN hub : hub' = Without(hub, r)
CallServed(c) ==
  /\ c.answer = "none"
  /\ \/ /\ Served(c)
        /\ \E a \in {"ok", "error"} : calls' = (calls \ {c}) \cup {[c EXCEPT !.answer = a]}
     \/ UNCHANGED hub /\ calls' = (calls \ {c}) \cup {[c EXCEPT !.answer = "error"]}
  /\ UNCHANGED <<follow, list, made, others, behind, unsure, modal, form, lost>>

\* Not what the code does, for contrast: a list is read again after a success alone.
RefetchOnSuccess(c) == c.answer = "ok"
\* Which pages read their list again after a failure too.
Refetches(c) ==
  \/ c.answer = "ok"
  \/ follow \in {"apps", "keys", "people"}
  \/ follow = "members" /\ c.does = "set"

\* A new key is copied and shown, and the list is read again once that dialog
\* is dismissed.
Shows(c) == follow = "keys" /\ c.does = "add" /\ c.answer = "ok"
CallDone(c) ==
  /\ follow \in Lists /\ c.answer # "none" /\ calls' = calls \ {c}
  /\ IF Refetches(c) /\ ~Shows(c) THEN reload ELSE UNCHANGED <<list, behind>>
  /\ IF Shows(c) THEN emit([does |-> "key", row |-> c.row]) ELSE UNCHANGED <<modal, lost>>
  /\ unsure' = (unsure \/ c.answer = "error")
  /\ UNCHANGED <<follow, hub, made, others, form>>

-----------------------------------------------------------------------------
(* The forms *)

Dirty == {f \in DOMAIN form.held : form.held[f] # form.seed[f]}
Type ==
  /\ follow \in Forms
  /\ \E f \in DOMAIN form.held : \E v \in Values : v # form.held[f] /\ form' = [form EXCEPT !.held[f] = v]
  /\ UNCHANGED <<follow, hub, list, calls, made, others, behind, unsure, modal, lost>>
Submit(page, put) ==
  /\ follow = page /\ Dirty # {} /\ Send("set", put, Dirty, form.held)
  /\ UNCHANGED <<follow, hub, list, others, behind, unsure, modal, lost>>

\* Not what the code does, for contrast: every field travels.
bodyOfAll == form.held
\* Of a project's form, only the fields that differ from their seed travel; the
\* organisation's has one, and of the policy both do.
body == [f \in Dirty |-> form.held[f]]
save == ~form.sending /\ form' = [form EXCEPT !.sending = TRUE] /\ Submit("project", body)
RenameOrg == UNCHANGED form /\ Submit("rename", form.held)
SavePolicy == UNCHANGED form /\ Submit("policy", form.held)

\* Saved: a project's form is clean, with what was sent and not what it holds by
\* now; the others wait for the values that are read.
SaveDone(c) ==
  /\ follow \in Forms /\ c.answer # "none" /\ calls' = calls \ {c}
  /\ form' = IF follow = "project" /\ c.answer = "ok" THEN Seeded(c.all) ELSE [form EXCEPT !.sending = FALSE]
  /\ IF c.answer = "ok" THEN reload ELSE UNCHANGED <<list, behind>>
  /\ unsure' = (unsure \/ c.answer = "error")
  /\ UNCHANGED <<follow, hub, made, others, modal, lost>>

-----------------------------------------------------------------------------
(* Others *)

Other ==
  /\ others < MaxOthers /\ others' = others + 1 /\ behind' = TRUE
  /\ \E r \in Rows, v \in Values :
       \/ (follow \in Lists \ {"data"} \/ r \in DOMAIN hub) /\ hub' = Over(Only(r, v), hub)
       \/ follow \in Lists \ {"data"} /\ hub' = Without(hub, r)
  /\ hub' # hub
  /\ UNCHANGED <<follow, list, calls, made, unsure, modal, form, lost>>

\* Members, and the values of the forms, are on screen once they were read; the
\* organisation's form has one field, and the data switch is one row.
Fields == IF follow \in {"rename", "data"} THEN {CHOOSE r \in Rows : TRUE} ELSE Rows
Init ==
  /\ follow \in Lists \cup Forms
  /\ hub \in IF follow \in Forms \cup {"data"} THEN [Fields -> Values] ELSE Tables
  /\ list = IF follow \in Forms \cup {"members", "data"}
              THEN [data |-> hub, read |-> TRUE, asked |-> FALSE, got |-> {}]
              ELSE [data |-> None, read |-> FALSE, asked |-> TRUE, got |-> {}]
  /\ calls = {} /\ made = 0 /\ others = 0 /\ behind = FALSE /\ unsure = FALSE
  /\ modal = NoModal /\ form = Seeded(IF follow \in Forms THEN hub ELSE None) /\ lost = {}

Next ==
  \/ Ask \/ Answer \/ cancel \/ ok \/ Other
  \/ AppNew \/ addPerson \/ MemberRemove \/ InviteRevoke \/ AppDelete \/ KeyRevoke
  \/ MemberRole \/ InviteNew \/ KeyNew \/ PersonLevel \/ PersonRemove \/ DataToggle \/ act \/ Disconnect
  \/ Type \/ save \/ RenameOrg \/ SavePolicy
  \/ \E c \in calls : CallServed(c) \/ CallDone(c) \/ SaveDone(c)
Spec == Init /\ [][Next]_vars

-----------------------------------------------------------------------------
(* Properties *)

\* The type invariant.
TypeOK ==
  /\ hub \in Tables /\ list.data \in Tables /\ list.got \subseteq Tables /\ Cardinality(list.got) <= 1
  /\ form.seed \in Tables /\ DOMAIN form.held = DOMAIN form.seed
  /\ \A c \in calls : c.put \in Tables /\ c.row \subseteq Rows
  /\ modal.row \subseteq Rows /\ lost \subseteq Rows

\* Once every answer is in and the listing is read, a page shows the hub's rows,
\* unless others changed them since, or another dialog took a new key's off the
\* screen.  Apps, their keys and a project's people do so even when a write's
\* answer was lost, since `run` reads again whatever the answer was.
ListTrue ==
  /\ follow \in Lists /\ calls = {} /\ Settled /\ ~behind
  /\ modal.does # "key" /\ lost = {}
  /\ unsure => follow \in {"apps", "keys", "people"}
  => (list.data = hub)

\* Saving a project's form keeps what others wrote in the fields its user left alone,
\* however old the values it shows ("an untouched field is never sent — and
\* never overwritten by a stale value").
Keeps ==
  \A c \in calls, f \in DOMAIN hub :
    follow = "project" /\ c \notin calls' /\ f \notin c.row => hub'[f] = hub[f]
UntouchedKept == [][Keeps]_vars

\* A new key stays on screen until dismissed.
KeyShown == lost = {}

\* What is typed while a save is under way outlives its success.
TypingKept ==
  [][\A c \in calls : follow = "project" /\ c.answer = "ok" /\ c \notin calls' => form'.held = form.held]_vars
=============================================================================
