------------------------------ MODULE LiveTabs ------------------------------
(***************************************************************************)
(* How the tabs of one browser stay current (hooks/useProjectEvents.ts, and  *)
(* the cache it invalidates).  One tab, the holder of a Web Lock, has the    *)
(* event stream and relays its frames to the others over a BroadcastChannel; *)
(* a frame makes each tab fetch again what it names.  The file on screen is  *)
(* only fetched then; the listing and the comments are also polled.          *)
(*                                                                         *)
(* A behaviour follows one thing a tab shows, as they share only the frames. *)
(* What an answer holds is the number of changes of it.                      *)
(***************************************************************************)
EXTENDS Integers, Sequences

CONSTANTS
  Tabs,      \* tabs of the project in one browser
  Buffer,    \* frames the hub queues for a stream
  MaxWrites, MaxFaults \* bounds: changes; streams cut, fetches failed, tabs closed

VARIABLES
  thing,     \* what is followed: "body", "tree" or "comments"
  hub,       \* the changes of it
  tab,       \* "loading" (fetching, not listening yet), "open" or "closed"
  lead,      \* the tab that holds the lock, or 0
  stream,    \* its stream: "off", "connecting", "up", or "dead"
  wire,      \* frames the hub has queued for it
  lost,      \* the hub dropped a frame
  inbox,     \* frames relayed to a tab
  timer,     \* a tab's delay of the listing
  cache,     \* what a tab holds of it, and the fetch under way
  behind,    \* a tab was not told of a change, or could not fetch it
  faults     \* faults so far

hubVars == <<hub, wire, lost>>
netVars == <<lead, stream, inbox>>
vars == <<thing, hubVars, netVars, tab, timer, cache, behind, faults>>

None == -1
Asked == -1
Kinds == {"change", "scope", "comments"}
Things == {"body", "tree", "comments"}

\* What a frame of each kind is about.
Touches(kind) ==
  IF kind = "comments" THEN {"comments"}
  ELSE IF kind = "resync" THEN Things ELSE {"body", "tree"}

Up == {t \in Tabs : tab[t] # "closed"}
Listening == {t \in Tabs : tab[t] = "open"}
Miss(who, what) == [t \in Tabs |-> behind[t] \/ (t \in who /\ thing \in what)]

-----------------------------------------------------------------------------
(* The cache (React Query, external) *)

\* Not what the code does, for contrast: any fetch under way is joined.
InvalidatedJoining(c) == IF c.fetch # <<>> THEN c ELSE [c EXCEPT !.fetch = <<Asked>>]

\* A fetch under way is started anew, unless it is the first: that is joined.
Invalidated(c) ==
  IF c.data = None /\ c.fetch # <<>> THEN c ELSE [c EXCEPT !.fetch = <<Asked>>]
Joined(c) == c.data = None /\ c.fetch # <<>> /\ c.fetch # <<Asked>>

Serve(t) ==
  /\ cache[t].fetch = <<Asked>>
  /\ cache' = [cache EXCEPT ![t].fetch = <<hub>>]
  /\ behind' = [behind EXCEPT ![t] = FALSE]
  /\ UNCHANGED <<thing, hubVars, netVars, tab, timer, faults>>

Arrive(t) ==
  /\ cache[t].fetch \notin {<<>>, <<Asked>>}
  /\ cache' = [cache EXCEPT ![t] = [data |-> @.fetch[1], fetch |-> <<>>]]
  /\ UNCHANGED <<thing, hubVars, netVars, tab, timer, behind, faults>>

Fault == faults < MaxFaults /\ faults' = faults + 1

FetchFails(t) ==
  /\ Fault
  /\ cache[t].fetch # <<>>
  /\ cache' = [cache EXCEPT ![t].fetch = <<>>]
  /\ behind' = [behind EXCEPT ![t] = TRUE]
  /\ UNCHANGED <<thing, hubVars, netVars, tab, timer>>

\* Not what the code does, for contrast: nothing is polled while a stream is up.
PollWhileDown(t) ==
  /\ stream # "up" /\ thing # "body" /\ t \in Listening /\ cache[t].fetch = <<>>
  /\ cache' = [cache EXCEPT ![t].fetch = <<Asked>>]
  /\ UNCHANGED <<thing, hubVars, netVars, tab, timer, behind, faults>>

\* The listing every five minutes, the comments every thirty seconds.
Poll(t) ==
  /\ thing # "body" /\ t \in Listening /\ cache[t].fetch = <<>>
  /\ cache' = [cache EXCEPT ![t].fetch = <<Asked>>]
  /\ UNCHANGED <<thing, hubVars, netVars, tab, timer, behind, faults>>

-----------------------------------------------------------------------------
(* A frame in a tab *)

\* What a frame makes stale at once; a change takes the listing, too, later.
AtOnce(f) ==
  CASE f = "comments" -> {"comments"}
    [] f = "scope" -> {"body", "tree"}
    [] OTHER -> {"body"}
Delays(f) == f \in {"change", "resync"}

handle(t, f) ==
  LET unheard == Touches(f) \ (AtOnce(f) \cup IF Delays(f) THEN {"tree"} ELSE {})
  IN /\ cache' = IF thing \in AtOnce(f)
                  THEN [cache EXCEPT ![t] = Invalidated(@)] ELSE cache
     /\ timer' = [timer EXCEPT ![t] = @ \/ (thing = "tree" /\ Delays(f))]
     /\ behind' = Miss({t}, unheard \cup IF Joined(cache[t]) THEN AtOnce(f) ELSE {})

\* The delay of two seconds is over.
invalidateProject(t) ==
  /\ timer[t]
  /\ timer' = [timer EXCEPT ![t] = FALSE]
  /\ cache' = [cache EXCEPT ![t] = Invalidated(@)]
  /\ behind' = Miss({t}, IF Joined(cache[t]) THEN {"tree"} ELSE {})
  /\ UNCHANGED <<thing, hubVars, netVars, tab, faults>>

-----------------------------------------------------------------------------
(* The stream *)

\* The hub publishes: to a stream that is up, in a queue of Buffer frames.
Publish(kind) ==
  /\ thing \in Touches(kind)
  /\ hub < MaxWrites /\ hub' = hub + 1
  /\ IF stream # "up" THEN UNCHANGED <<wire, lost>>
     ELSE IF Len(wire) < Buffer THEN wire' = Append(wire, kind) /\ UNCHANGED lost
     ELSE lost' = TRUE /\ UNCHANGED wire
  /\ behind' = Miss(IF stream = "up" THEN Up \ Listening ELSE Up, Touches(kind))
  /\ UNCHANGED <<thing, netVars, tab, timer, cache, faults>>

\* What is queued when a stream ends reaches nobody.
Pending ==
  (UNION {Touches(wire[i]) : i \in 1..Len(wire)}) \cup (IF lost THEN Things ELSE {})
Cut == wire' = <<>> /\ lost' = FALSE /\ UNCHANGED hub

\* A dropped frame becomes a resync, written before the next frame or with
\* the keepalive.
Written == IF lost THEN "resync" ELSE Head(wire)
onmessage ==
  /\ stream = "up" /\ (lost \/ wire # <<>>)
  /\ lost' = FALSE
  /\ wire' = IF lost THEN wire ELSE Tail(wire)
  /\ inbox' = [t \in Tabs |->
       IF t \in Listening \ {lead} THEN Append(inbox[t], Written) ELSE inbox[t]]
  /\ handle(lead, Written)
  /\ UNCHANGED <<thing, hub, lead, stream, tab, faults>>

Relayed(t) ==
  /\ inbox[t] # <<>>
  /\ inbox' = [inbox EXCEPT ![t] = Tail(@)]
  /\ handle(t, Head(inbox[t]))
  /\ UNCHANGED <<thing, hubVars, lead, stream, tab, faults>>

Connected ==
  /\ stream = "connecting" /\ stream' = "up"
  /\ UNCHANGED <<thing, hubVars, lead, inbox, tab, timer, cache, behind, faults>>

\* The connection is lost, or the hub ends it after an hour: EventSource
\* connects again.
Dropped ==
  /\ Fault
  /\ stream = "up" /\ stream' = "connecting"
  /\ Cut /\ behind' = Miss(Up, Pending)
  /\ UNCHANGED <<thing, lead, inbox, tab, timer, cache>>

\* The hub answers 503, which EventSource takes for final.
Refused ==
  /\ Fault
  /\ stream = "connecting" /\ stream' = "dead"
  /\ UNCHANGED <<thing, hubVars, lead, inbox, tab, timer, cache, behind>>

-----------------------------------------------------------------------------
(* Tabs *)

Nothing == [data |-> None, fetch |-> <<>>]

\* A page load asks for what it shows before anything is mounted.
prefetchForURL == [data |-> None, fetch |-> <<Asked>>]

\* The hook mounts: the tab joins the channel and waits for the lock.
useProjectEvents(t) ==
  /\ tab[t] = "loading"
  /\ tab' = [tab EXCEPT ![t] = "open"]
  /\ UNCHANGED <<thing, hubVars, netVars, timer, cache, behind, faults>>

Elected(t) ==
  /\ lead = 0 /\ t \in Listening
  /\ lead' = t /\ stream' = "connecting"
  /\ UNCHANGED <<thing, hubVars, inbox, tab, timer, cache, behind, faults>>

\* A tab closes or crashes: the browser frees its lock.
Close(t) ==
  /\ Fault
  /\ t \in Up /\ UNCHANGED thing
  /\ tab' = [tab EXCEPT ![t] = "closed"]
  /\ inbox' = [inbox EXCEPT ![t] = <<>>]
  /\ timer' = [timer EXCEPT ![t] = FALSE]
  /\ cache' = [cache EXCEPT ![t] = Nothing]
  /\ IF lead = t
       THEN /\ lead' = 0 /\ stream' = "off" /\ Cut
            /\ behind' = [Miss(Up, Pending) EXCEPT ![t] = FALSE]
       ELSE /\ behind' = [behind EXCEPT ![t] = FALSE]
            /\ UNCHANGED <<lead, stream, hubVars>>

-----------------------------------------------------------------------------
Init ==
  /\ thing \in Things /\ hub = 0 /\ wire = <<>> /\ lost = FALSE
  /\ tab = [t \in Tabs |-> "loading"] /\ lead = 0 /\ stream = "off"
  /\ inbox = [t \in Tabs |-> <<>>] /\ timer = [t \in Tabs |-> FALSE]
  /\ cache = [t \in Tabs |-> prefetchForURL]
  /\ behind = [t \in Tabs |-> FALSE]
  /\ faults = 0

TabSteps(t) ==
  \/ Relayed(t) \/ invalidateProject(t) \/ useProjectEvents(t) \/ Elected(t)
  \/ Serve(t) \/ Arrive(t)
Next ==
  \/ \E kind \in Kinds : Publish(kind)
  \/ onmessage \/ Connected \/ Dropped \/ Refused
  \/ \E t \in Tabs : TabSteps(t) \/ Poll(t) \/ FetchFails(t) \/ Close(t)

\* The browser runs its timers and delivers what arrives; the hub answers.
Fairness ==
  /\ WF_vars(onmessage) /\ WF_vars(Connected)
  /\ \A t \in Tabs : WF_vars(TabSteps(t)) /\ WF_vars(Poll(t))
Spec == Init /\ [][Next]_vars /\ Fairness

-----------------------------------------------------------------------------
(* Properties *)

Frames == Kinds \cup {"resync"}

\* The type invariant.
TypeOK ==
  /\ thing \in Things /\ hub \in 0..MaxWrites /\ lost \in BOOLEAN /\ Len(wire) <= Buffer
  /\ \A i \in 1..Len(wire) : wire[i] \in Kinds
  /\ tab \in [Tabs -> {"closed", "loading", "open"}] /\ lead \in Tabs \cup {0}
  /\ stream \in {"off", "connecting", "up", "dead"} /\ (stream = "off" <=> lead = 0)
  /\ \A t \in Tabs : \A i \in 1..Len(inbox[t]) : inbox[t][i] \in Frames
  /\ timer \in [Tabs -> BOOLEAN] /\ behind \in [Tabs -> BOOLEAN]
  /\ \A t \in Tabs :
       /\ cache[t].data \in None..MaxWrites
       /\ cache[t].fetch = <<>> \/ cache[t].fetch[1] \in Asked..MaxWrites
  /\ faults \in 0..MaxFaults

\* Nothing about a thing is on its way to the tab.
Quiet(t) ==
  /\ cache[t].fetch = <<>> /\ inbox[t] = <<>> /\ wire = <<>> /\ ~lost
  /\ ~timer[t]

\* An open tab shows what the hub has once everything on its way has come,
\* whoever leads, but for a change it was not told: published while no stream
\* was up or before the tab listened, joined to the first fetch, or followed by
\* a fetch that failed; and for comments when frames were dropped.
StaysCurrent ==
  \A t \in Listening : Quiet(t) /\ ~behind[t] => cache[t].data = hub

Shows(t) == tab[t] = "open" => cache[t].data = hub

\* When changes and faults have stopped, the listing of every open tab becomes
\* the hub's, whatever was missed: "insurance against a stream that died".
Lists(t) == thing # "body" => Shows(t)
Heals == \A t \in Tabs : <>[]Lists(t)

\* useProjectEvents.ts:32 and :199 say the same of all that was lost between
\* two leaders or two connections: "the poll covers the gap".
GapCovered == \A t \in Tabs : <>[]Shows(t)
=============================================================================
