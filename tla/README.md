# A verification project for BearDrive

BearDrive keeps a folder in sync between devices through a hub. Every device
journals what its user does, the hub stores one journal per device and the
files' contents by hash, and every device replays the union of all journals
into its folder. People also open the project in a browser: they read and edit
its files alone or together, comment, share, restore, and watch others' changes
arrive. This directory models both sides in TLA+, the sync engine with its
journals and the web application with the part of the hub it talks to, checks
them with TLC on small instances, and proves part of each with TLAPS for all of
them.

Paths below are relative to `src/`; `syncer.go` is
`internal/syncer/syncer.go`, and other files of `internal/` are given without
that prefix. `lib/`, `hooks/`, `components/`, `apps/` and the single files
`router.ts`, `nav.ts`, `inline-edit.ts`, `inline-comment.ts`, `modal.tsx` are
those of `internal/webapp/frontend/src/`.

## 1. The system

### Components

| component | code | state it keeps | operations |
|---|---|---|---|
| journal | `journal/journal.go` | – | `Op`, `Less`, `Replay`, `Parse`, `Append` |
| volume store | `store/store.go` | journals, blobs, state cache per mount, `sync.json`, lock | `AppendOps`, `AllOps`, `LoadCache`/`SaveCache`, `LoadSync`/`SaveSync`, blobs |
| sync cycle | `syncer/syncer.go` | only memory, between `Load…` and `Save…` | scan, commit, pull, adoption, conflict copies, re-assertion, backfill, materialize, prune, push, finish |
| three-way merge | `syncer/merge.go` | – | `tryMerge`, `commonAncestor`, `mergeText` |
| ignore rules, walk, drift | `syncer/ignore.go`, `walk.go`, `drift.go`, `explain.go` | accepted and pulled rule text in `sync.json` | load, skip, accept |
| chunked transfer | `syncer/chunks.go` | chunks and manifests on the remote | push, fetch with a basis |
| restore, post-sync, secrets | `syncer/restore.go`, `postsync.go`, `secrets.go` | – | – |
| backends | `remote/*.go` | objects | put, get, list, conditional put |
| daemon | `daemon/daemon.go` | watcher batches, hints, retry marks | supervise, watch, run cycles |
| spools | `store/reads.go`, `inbound.go` | two append-only files each | append, rotate, drain, clear |
| configuration | `config/*.go` | JSON files | – |
| hub: store door | `webapp/store.go` | objects of a project | list, get, put with append-only and folder checks |
| hub: browser writes | `webapp/upload.go`, `remove.go`, `moves.go`, `restore.go` | the hub's own journals | append with or without compare-and-swap |
| hub: live rooms | `webapp/ycollab.go`, `lease.go`, `collab_relay.go` | rooms, bases, leases | join, snapshot, hold, renew, release |
| hub: events | `webapp/events.go`, `relay*.go` | bounded subscriber channels | publish, fan out, resync |
| hub: reservations | `webapp/reserve.go`, `quota.go` | ledger of grants | book, claim, reconcile |
| hub: history, undo, indexes | `webapp/history.go`, `histindex.go`, `undorun.go`, `data*.go` | folds of the journals | – |
| hub: accounts, projects, permissions, shares | `webapp/auth.go`, `orgs.go`, `projects.go`, `perms.go`, … | records | – |
| hub: metadata stores, comments, pages, MCP, mail | `webapp/db*.go`, `comments.go`, `mcp.go`, … | records | – |
| browser: shared file editing | `lib/sharedfile.ts`, `lib/collab.ts`, `components/Editor.tsx`, `ShrinkDialog.tsx`, `EditRail.tsx` | what is saved, the If-Match base, timers, requests under way, the room's document | type, save, merge, reconcile a refused save, park a conflict copy, ask about a shrink, join, drop, rejoin, close |
| browser: file page | `components/FileView.tsx` | the cached text, the editor's code, own writes not yet announced | read, start and end an edit, seed the editor, raise the banner |
| browser: page editor | `components/VisualEdit.tsx`, `inline-edit.ts`, `webapp/htmledit.go` | stamped ranges, anchors in the document, armed, retries | stamp, hash, anchor, arm, patch, splice |
| browser: comments | `components/Comments.tsx`, `hooks/useComments.ts`, `inline-comment.ts`, `lib/anchor.ts` | the cached list, the composer, the frame's marks | create, reply, resolve, remove, pick, find a quote |
| browser: address bar and shell | `router.ts`, `nav.ts`, `apps/HubApp.tsx`, `VolumeApp.tsx`, `Browser.tsx`, `hooks/useHub.ts`, `useBrowse.ts` | history stack, lists of projects and files | parse, redirect, look up, create, join, delete, fullscreen |
| browser: live updates | `hooks/useProjectEvents.ts`, `useBlob.ts` | a lock and a stream per browser, a cache per tab | lead, relay, invalidate, poll |
| browser: activity feed | `components/HistoryView.tsx`, `HistoryRow.tsx`, `HistoryFilters.tsx`, `lib/runs.ts` | loaded pages, filter, selection | page, filter, restore, remove, undo a run |
| browser: dashboard | `components/Insights.tsx`, `lib/heat.ts` | two cached answers, lens, threshold, scope | join, sum, find what was emptied |
| browser: sharing | `components/ShareDialog.tsx`, `SharesTable.tsx`, `ShareBanner.tsx` | cached rules and links, the dialog's own link | set a level or an exception, mint, expire, revoke |
| browser: settings | `components/OrgAdmin.tsx`, `ProjectSettings.tsx`, `HubSettings.tsx`, `McpConnections.tsx`, `modal.tsx` | cached lists, forms, one modal | every write of a row or a field |
| browser: sidebar | `components/FileTree.tsx`, `lib/treeview.ts`, `lib/visits.ts`, `components/Pinned.tsx` | expansion, caps, visit markers, pins | fold, show more, search, mark seen, pin |
| browser: meeting notes | `lib/meeting.ts`, `lib/cm-meeting.ts`, `lib/cm-slash.ts` | sections of a note, whether its room answers | guard, carry open items over |
| browser: text diff | `lib/diff.ts`, `components/DiffView.tsx` | the two blobs a page has read | line diff, the one replacement of an editor, counts |
| browser: name search | `lib/fuzzy.ts`, `components/Palette.tsx` | the query and the rows | prepare, score, forgive a typo, order, mark |
| browser: rest | `components/Home.tsx`, `shell.tsx`, `ProjectNav.tsx`, `Setup.tsx`, … | – | – |
| CLI, desktop, installers | `cmd/`, `desktop/`, … | – | – |

### How they interact

* **Devices meet only at the hub.** A device puts its own journal whole and
  blobs by hash, and gets the journals that grew. There are no acknowledgements
  between devices and no server-side ordering: what makes them agree is that
  `Replay` is a fold over a set of operations under a total order.
* **User and engine share the folder.** Nothing locks it. The engine
  recognises a user's save by size and mtime against its state cache.
* **One cycle at a time per volume.** The volume lock serialises the daemon's
  and the command line's cycles of one device; everything else runs
  concurrently with them.
* **The daemon** starts a cycle on every scan interval and every wake-up from
  the watcher or the hub's event stream.
* **The hub's own writers** (browser uploads, live rooms) append to journals of
  the hub in the same format, from possibly several hub processes.

* **A browser tab and the hub.** Every page holds cached answers and writes
  through requests whose answers may be late, lost or refused. The hub's event
  stream tells one tab of each browser, and that tab the others, what to ask
  for again.
* **Editors of one file** share a document through the hub's room, and then only
  the hub writes the file; an editor that cannot reach the room saves by itself
  under `If-Match`. Agents, devices and restores write the same file.
* **An HTML page or a review** runs in a sandboxed frame that shares nothing
  with the application but messages, and reloads when the file changes.

### What is hard

1. A user's save can land between any two steps of a cycle.
2. Two devices' cycles interleave: each may read the hub before the other has
   written it.
3. A cycle may be killed anywhere. Its memory is lost; journals, blobs, the
   state cache and `sync.json` are as far as it got. `finish` saves the last
   two one after the other.
4. A call to the hub may fail, half succeed, or succeed and lose its answer.
5. An append may be cut short (full disk, power cut).
6. Clocks: a logical clock decides first, wall clocks of different machines
   break ties.
7. Two processes of the hub may work on one object.
8. In a tab, everything between two answers may have changed: what was read
   before an `await` or before another answer is used after it.
9. Answers, frames of the event stream and messages of a sandboxed page arrive
   in any order relative to each other and to the user.
10. A record is read, changed in one field and written whole, by several people.

### What makes each component correct

* *journal*: replay is independent of the order operations are met; replay
  order is total.
* *store and cycle*: journals only grow and only their author writes them;
  content is on the hub before the journal that names it; the push cursor never
  runs ahead; the cache never calls a file synced whose content was not
  captured; the engine never overwrites content it cannot give back; a user's
  save outranks what it replaced; the loser of a concurrent edit survives; the
  devices converge and fall silent.
* *merge*: both sides' changes relative to a version both had.
* *ignore rules*: a pulled rule never widens what a device uploads, and never
  causes an unlink.
* *chunks*: a published manifest can be reassembled.
* *hub journals*: an append is never lost or doubled; a stored operation stays.
* *rooms*: one writer per room; an outside write is never overwritten unseen.
* *events*: a subscriber that misses a frame learns that it did.
* *reservations*: bytes are charged once; what is granted fits.
* *spools*: every event is reported or still queued.
* *daemon*: a local change is picked up, at the latest by the safety scan.

* *shared editing*: no typed word is lost; what is believed saved is stored; one
  writer per room; a save removes only what its author knew.
* *pages and dialogs*: with nothing under way, what is shown is what the hub
  has; what is sent changes only what its user changed; what is offered is what
  the hub would do.
* *address bar*: it settles, on the subject it had.
* *live updates*: a listing heals whatever was missed.
* *meeting notes*: typing while the room is away stays in one's own section.
* *text diff, name search*: a dynamic program with shortcuts returns what its
  definition says.

The hazards behind these are listed with their lines under `hazards` in
`PROJECT.json`.

## 2. The modules

| module | what it is |
|---|---|
| `Journal` | operations, `Less`, `Replay`, and what an append does to a file with a torn last line |
| `SyncCycle` | the cycle of every device, the store, the folder, the hub's objects, the user, crashes and failures; the properties |
| `ReplicatedJournals` | the abstract promise: a log per device, appended by its owner, published whole, copied whole |
| `SyncConflict` | `SyncCycle` with history variables (what each operation was built on), for the promise about concurrent edits |
| `SyncCycle_proofs` | theorems about `SyncCycle`: types, journals, clocks, the order of a push, the state cache, the folder, the losers of a collision |
| `MCSyncCycle`, `MCSyncConflict` | instances for TLC |
| `SharedFile` | one text file open in browser editors: surfaces, saves, rooms, other writers |
| `SharedFile_proofs` | theorems about `SharedFile` |
| `FilePage`, `FilePage_proofs` | the page around it: reads, the editor's seed, the banner; theorems about it |
| `VisualEdit` | click-to-edit of an HTML page: stamps, anchors, patches |
| `Comments`, `Comments_proofs` | threads, their list, the frame that marks them; theorems about it |
| `TextAnchor` | finding a comment's quote again |
| `PageRouter` | URLs, history stack, redirects, lookups |
| `LiveTabs` | the tabs of one browser and the hub's event stream |
| `HistoryFeed` | the feed's pages, its cards, restore, removal, undo |
| `Dashboard` | the join of files and reads, and what it prints |
| `Sharing`, `Sharing_proofs` | who can open a file: the rule of a folder and the links of a file; theorems about them |
| `Settings` | pages that write the hub's records |
| `Sidebar` | which rows a tree shows; visits; pins |
| `MeetingNote` | the sections of a note, and what may be typed while its room is away |
| `TextDiff` | the line diff and the editors' replacement |
| `NameSearch` | the search behind the palette and the sidebar's filter |
| `MCSharedFile`, `MCSharing` | instances for TLC |
| `MCTab` | `PageRouter`, `VisualEdit` and `LiveTabs` in one run: what must get done |
| `Tab_proofs` | theorems about `LiveTabs`, and about the address bar as a part of that run |
| `Pages_proofs` | theorems about `Settings`, `HistoryFeed`, `Sidebar`, `MeetingNote`, `Dashboard`, `TextDiff` and `TextAnchor` |
| `MCSurfaces` | the twelve page modules in one run: what must be true |
| `Surfaces_proofs` | the theorems of the parts as theorems of that run |

`SyncConflict` extends `SyncCycle`; `SyncCycle` instantiates
`ReplicatedJournals` as `Log` with `own`, `pub`, `copy` mapped to the diagonal
of `jour`, `hubJ`, and the rest of `jour`.

### Sync engine: state

| variable | code |
|---|---|
| `file[d]` | the working folder, path → content |
| `text` | which names hold text (merging is refused for binaries) |
| `blobs[d]` | the blob store of the volume |
| `jour[d][e]` | `journal/<e>.jsonl` in d's volume, as `Parse` reads it |
| `torn[d]` | d's own journal file ends in a line that does not parse |
| `saved[d]` | the state cache (`cache`, and whether the file exists: `has`) and `sync.json` (`lam`, `pushed`) |
| `mem[d]` | the locals of `cycleLocked`: `cache`, `st.Lamport`, `st.PushedOps`, `myOps` (`mine`), `localOps` held back (`held`), `pulled`, `s.fetched` (`tried`), the journals the pull has yet to look at (`left`), `mountJoining` (`mount`), `blocked` |
| `hubJ[e]`, `hubB` | the hub's `journal/<e>.jsonl` and `blobs/` |
| `budget` | what is left of `MaxEdits` and `MaxFaults` |

A content is a sequence of lines, a line a number; `Absent` is the content
of a path that is not there and the blob of a delete. A path is a name plus the
chain of (device, second) marks `conflictName` has appended to it. A cache entry
holds the blob and a flag `fresh`: the recorded size and mtime are still those
of the file. Any write to the path by anybody clears it.

### Sync engine: actions

| action | code |
|---|---|
| `Scan` | `cycleLocked` up to the first `commitLocal` (`syncer.go` 461–717): load state, find out about joining, re-derive the clock, scan, put blobs, journal unless joining |
| `PullJournal` | one turn of the loop of `pull` (1559–1687) |
| `EndPull` | `fetchBlobs`, clock absorption, adoption, second `commitLocal` |
| `PullOffline`, `PullForbidden` | the two failing arms after `pull` (750–777) |
| `Resolve` | `conflictCopies`, `tryMerge`, and journaling what they return |
| `Write` | `backfillOps` and its fetch, `materialize`, `materializeFile` |
| `PushBlobs`, `PushJournal`, `PushFails` | the two halves of `push`, and its failures |
| `Finish` | `finish` |
| `Crash` | the process dies; in `finish` possibly between the two saves |
| `TornAppend` | `journal.Append` of a scan cut short, and the cycle ended by its error or the power cut |
| `Edit`, `Delete` | the user |

`Step(d)` is what the program does by itself; `Environment(d)` is what happens
to it. Every bound is on the environment: no step of the engine is ever
disabled by one.

### Sync engine: abstractions, and what they cost

* Modes are left out; mtime and size are the flag `fresh`. A save that leaves
  both unchanged is therefore not represented.
* Scan and the first commit are one step. A crash between them loses only
  memory, and a partly written append is `TornAppend`. A scan sees the folder at
  one instant, so a save during the walk is one before or after it.
* The listing of `pull` is folded into each `PullJournal`: a device may see a
  journal as new as the moment it fetches it.
* `materializeFile`'s look at the fingerprint and its rename are one step; the
  window between them is a hazard of its own that no module covers.
* A cycle without a backend is a `PullOffline` taken at once, and is paid for
  from the fault budget.
* A blob is atomic: its chunks and its manifest are below this grain.
* Logical clocks are naturals: the cap at 2^62 is not in the model.
* `Now(d, n)` is the wall clock at operation `n` of a device: it differs
  between devices by `Skew`, and all operations of a batch share it, as the
  code's batches nearly do. `Second` says how many readings share a second,
  which is what conflict names are cut to.
* A torn last line never happens to be a complete JSON line without its
  newline.
* Device display names, which conflict names use, are taken as distinct.
* Not in this module: ignore rules, folder scope and read-only reverts, prune,
  symlinks, journals rewritten by their authors and re-assertion, several
  mounts in one volume, scan hints (every scan is a full one), telemetry.
* `mergeText` is what `merge.go` does, splice by splice: one changed region per
  side between common prefix and suffix, refused when the regions overlap, both
  spliced in the order of where they start, mine first. A user's edit adds or
  removes lines in their natural order (`Retouched`), so the texts met have no
  line twice, but for what a merge puts out again, and none moved.

### Web application: state and actions

**`SharedFile`.** A text is the set of paragraphs it holds, in their one order; a
sha is the text it names, so an `If-Match` names a text.

| variable | code |
|---|---|
| `head`, `versions`, `copies` | the file on the hub, its history, its conflict copies |
| `room` | the hub's room (`ycollab.go`): its document, the base of its snapshots, its idle timer, and the versions whose text the document's history holds (`wrote`) |
| `surf[e]`, `live[e]`, `text[e]` | which surface `Editor` has mounted, whether its socket is synced, `current()` |
| `away[e]` | what an editor changed in the room's document while offline (Yjs's pending updates) |
| `saved[e]`, `base[e]`, `status[e]`, `idle[e]` | `saved`, `base`, the last `onState`, the idle timer of `sharedfile.ts` |
| `calls[e]` | requests under way: what they carry, and their answer once there is one |
| `ask[e]` | the shrink question |
| `opened[e]`, `prop[e]`, `frame[e]`, `wire[e]` | the bytes the editor was mounted with, the query's data, an invalidation, a refetch under way |
| `mine`, `had`, `yielded`, `blind` | history only: what was typed and is not stored, what was ever on the surface, what a copy gave way to, what was recorded unshown |

| action | code |
|---|---|
| `Join`, `GoSolo`, `Drop`, `Rejoin` | `collab.ts` connect and its give-up timer; mounting in `Editor.tsx` |
| `Type`, `IdleSave`, `WatchShrink`, `Confirm`, `Keep`, `Close` | `onDocChange`, the idle timers, `askShrink` and its two answers, `destroy` |
| `Answer`, `Lose` | the hub answers a request (`handleUploadContent` and the others), or the network loses it or its answer |
| `PutDone`, `HeadDone`, `ReputDone`, `CopyDone`, `ConfirmDone`, `KeepDone`, `RestoreDone` | what the code does after each `await` |
| `Refetch`, `Deliver` | the page reads the file again and offers it to the document (`merge`) |
| `Snapshot` inside `RoomPauses`, `RoomEmpties` | the room's writes of the file; a version whose text it has written or been seeded with is its own to build on, whoever put it back (`contains`) |
| `Outside`, `Restore` | an agent or device writes; a version is restored from the rail |

A request is three steps: sent, answered by the hub at that moment, handled.
Answers are handled in any order. The socket of a room delivers at once to the
members that are synced. Before an editor mounts, `text` is the seed it will
mount on, which fresher data of the query replaces (`Seeds`). Positions within
the text, and what CRDT merging does inside one paragraph, are left out; so is
that the conflict copy of a snapshot, whose failure `ycollab.go` 703 ignores, may
not be stored, and that the room's own record of its history may not be.

**`FilePage`.** `head`, `frames` (writes not announced yet) on the hub; `cached`,
`fresh`, `req` the query of the text; `code`, `failed` the lazy chunk of the
editor; `edit`, `asked`, `revalidated`, `seed` an edit and what it was built
from; `mine`, `banner` the account of own writes; `room` who writes the file:
an editor that saves for itself, whose writes `onWriting` counts, or the hub,
whose writes nobody counts. A file's text is its version number. One action per
handler: `EditView` (start), `Done`, `onWriting`, `onCollab`, `onPeers`,
`onDocChange`, `Frame`, `prefetchEditText`, `loadDone`, `loadFails`, `retry`;
`Rerender` is the page editor mounted anew; `Snapshot` is the hub's write of what
was typed in a live room, or its announcement of a file that says so already;
`Serve`, `Arrive`, `Fails`, `Ages` are the read. `Render` is part of every step, as
React renders after each.

**`VisualEdit`.** A page is a sequence of characters with one of markup before
each element. `doc` keeps deleted characters, as the CRDT does, since anchors
refer to them. `post` is the queue of messages of the frame; `source` the text
the ranges held were measured in; `hashing` the digests being computed, `own`
while the effect that started one is mounted. `FrameLoads`, `DocReady`,
`HashDone`, `ReadyArrives`, `PatchArrives`, `RetryTimer`, `Snapshot`, `Type`,
`PeerEdit`, `Outside`, `Close`. A paste, a list's structure and the keyboard
handling inside the frame are typing.

**`Comments`, `TextAnchor`.** `threads` on the hub; `list`, `read`, `calls` the
cached list; `draft`, `body`, `tab`, `focus`, `picking` the panel; `page`,
`pins`, `active`, `crosshair` what the frame shows, told only by `up` and `down`,
the two queues of messages. `TextAnchor` is `bestMatch` over sequences of
characters, spaces ignored, against a page that is edited before, after and
inside the quote.

**`PageRouter`.** A URL is a sequence of segments, whether it ends in a
separator, and the query parameters that are read. `entries`, `pos` are the
browser's history; `list`, `tree`, `resolves` the cached answers; `last` the
remembered project. What a page is, `PageOf`, is an operator of state, and
`Redirect` is enabled when it is a rewrite. Percent-encoding of one segment is
left out. `Segments` is what a segment can be; ids are segments that name no
screen (`ConstantsSound`), nobody types an id before the hub has minted it
(`IdsUnguessed`; `projects.go` mints UUIDs), and no file lies where a view's
address is (`FilesAddressed`; see `ReachableFromTree` below for those that do).

**`LiveTabs`.** One thing is followed, a file's body, a listing or comments:
`hub` counts its changes. `lead` holds the Web Lock; `wire` and `lost` are the
hub's queue for the stream; `inbox` the channel's frames to a tab; `cache` what a
tab holds and its fetch; `behind` (history) that it was not told.

**`HistoryFeed`, `Dashboard`.** `HistoryFeed` has the hub's operations with
clocks, wall times and runs; the feed is their order under `histLess`. Of the pages
read it keeps how many they are, their entries, and the cursor to the next. Undo's
plan is made when the hub serves it. The hub refuses a restore that changes
nothing or that no change of the file ever stored. `Dashboard` has the hub's
files and reads and the answers the tab holds of each; what it prints are
operators over the latter, translated one by one.

**`Sharing`, `Settings`, `Sidebar`.** Each follows one record, list or form at a
time (`follow`). A cached listing is `data`, a `read` in progress, whether it was
`asked` for and what it `got`; a write is sent, served, answered or lost, and
handled. Others change the same records at any moment. `Sidebar` computes rows
from a tree of paths; a name is a number.

**`MeetingNote`.** A note is a sequence of lines, each a heading of a person, the
title, a fence, an empty bullet or text; `sections` and `Own` are those of
`meeting.ts`. `NewLine`, `Retype`, `TypeAtHeading` and `Cut` are the user's
edits, each passed through the guard by `Dispatch`; `Carry` asks for the note
before this one and `Carried` puts its items in. `undo` and `redo` take back the
last change and make it again; the guard does not see them, because the editor's
history dispatches with `filter: false` (`history()`, `historyKeymap`,
`Editor.tsx` 217, 241) and yCollab's undo (289) carries no user event. `done` and
`undone` are that history, the others' changes included, which `history()`
records as well. `Drop` and `Reconnect` are the
room's, `Remote` what the others write while it answers. `held` and `loose` are
there for the properties: the lines that stood outside the user's own section
when the room was lost, and whether since then the section lost its shape or a
change from before was taken back or made again.

**`TextDiff`, `NameSearch`.** Algorithms, over sequences of characters. The
first has the trimming of common ends, the table, the fallback when the table
would be too large, and the walk over it, beside the panel that reads two blobs
which may be binary, too large, missing or not there yet. The second has folding,
separators, the score of a letter by where it stands, the alignment by rows that
reuse each other, the bounded list, the one letter forgiven and the walk back
for the marks; scores are in thousandths. Their references, `LineDiffTrue`,
`TextEditTrue` and `RowsTrue`, go over all alignments instead.

## 3. The properties and the runs

| property | what it says | goes wrong when |
|---|---|---|
| `TypeOK` | well-formed state | an operation is demoted below zero, a copy gets no real path |
| `BlobBeforeJournal` | a journal on the hub names only content the hub holds | the cursor and the list it cuts disagree |
| `JournalChain` | a peer's copy is a prefix of the hub's, the hub's of the author's | a fetch appends, a push sends a part |
| `CursorHonest` | `PushedOps` never exceeds what the hub has | a failed push moves the cursor |
| `ClockDominates` | a journaled edit orders after all its device had seen | the saved clock is trusted after a crash |
| `CacheHonest` | a cache entry that hides a file from the scan stands for captured content | held-back operations are dropped while the cache is saved |
| `HistoryKeepsAll` | the engine overwrites or unlinks only content it can give back | materialize does not look, or looks at the wrong thing |
| `LoserKept` | after step 3 no unpushed version has lost its path without a conflict copy, and no pulled one to an unpushed edit, unless its content is not at hand or is what a merge came to | only some collisions are looked at |
| `ReplicatesJournals` | the cycle refines `ReplicatedJournals` | a journal is pushed in part, or written by somebody else |
| `Converges` | all folders equal one replay for good, once edits and faults stop | a blob is never asked for again, an echo is journaled for ever |
| `NoSilentLoss` | end to end: every version wins, is merged, has a copy, or was replaced by somebody who had seen it | one of the two losers is not kept |
| `MergesFromShared` | a merge's base is a content both sides had | see finding 4 |
| `MergesAgree` | a merge is the same text whichever side is called one's own | see finding 3 |
| **shared editing** (`SharedFile`) | | |
| `WorkKept` | a typed paragraph no store holds is on its author's surface, or after closing in a save, the room, or a tab that was offline | another text is adopted over unsaved edits |
| `SavedIsStored` | the text an editor believes saved was stored | a save that got no answer counts as landed |
| `HubWritesAlone` | in a room only the hub saves | an idle timer saves in a room too |
| `ErasesOnlyKnown` | a save removes only paragraphs its author had, gave a copy way to, or recorded | a put is not conditional |
| `ErasesOnlySeen` | the same without "recorded" | see finding 5 |
| **what a tab gets done** (`MCTab`) | | |
| `AddressSettles` | redirects come to an end | a view's old name and its new one map to each other |
| `AddressKept` | a redirect keeps project, path, view, target, filters, version; leaving a fullscreen this page did not push stays on the file and only leaves it | the version is lost when a name becomes an id |
| `OwnFound` | who made or joined a project is not told it does not exist | the list's refetch is not awaited |
| `Arms` | a page editor in a room comes to answer clicks, or is closed | anchoring is tried on one of its three causes only |
| `StaysCurrent` | with nothing on its way, an open tab shows what the hub has, unless it was not told | an invalidation joins the read it should replace |
| `Heals` | every listing becomes the hub's after the last fault | the poll stops while a stream is up |
| **what a page shows, offers and sends** (`MCSurfaces`) | | |
| `SeedFresh` | an editor is not built from text older than the moment editing began, unless it joined a first read | the copy a failed read leaves is used |
| `BannerHasCause` | "changed by someone else" has a write behind it that this edit's editor did not save itself: somebody else's, an earlier edit's, or the hub's for a live room | own writes are a flag and not a count |
| `PatchesLand` | a patch takes out only characters of its element, if the document rests while it is hashed; with no message waiting, the document says what the frame shows in elements nobody else touched | "has the document moved" compares lengths; the new text goes in before the old is taken out |
| `QuoteFound` | a quote that still stands is found, and not at another occurrence that has less of its context | the first match is taken |
| `ListsTrue` | with every call answered, the comment list is the hub's, and a settings list is, unless others wrote since or, outside apps, keys and people, a write failed | a refused removal is not read again |
| `FrameFollows` | with no message under way, the sandboxed page marks and picks as the app says | a reloaded page is told its marks, not the pick mode |
| `InsightsTrue` | every surface prints one arithmetic, and with the hub's tree, reads and answer a file that was emptied and is still read is flagged, but for one whose content came after it was emptied | reads of paths that are gone are counted outside the scope |
| `FeedTrue` | pages are a prefix of the feed, in its order, each entry once; a card holds one run | the cursor names the first entry left out and a page starts past it |
| `OfferIsChange` | where clocks agree with the journal, a row offers restore exactly when the hub would change the file | the file's present content is offered |
| `UndoReverts` | undoing a run leaves in each of its files what was there before the run's first change, whatever came between the preview and the write | only the run's last change is undone |
| `FilesAccounted` | a file has a row, is counted in "Show N more" or its group, or stands behind a badge | the cap hides the way to the selected path |
| `LinkTrue` | with nothing under way, the dialog and banner show a link exactly when one is live, but for one minted here and ended by others or by an earlier dialog's revoke | what the mint said outlives the revocation |
| `OnlyChosenWritten` | a write of a rule differs from the rule the dialog had read only in what was chosen, and a saved form leaves fields its user did not touch | a level is written without its exceptions; the whole form is sent |
| `RuleKept` | the same of the rule the hub has | see finding 6 |
| `DiffTrue` | a diff's rows are the lines of both texts in order, as few taken out as can be within the budget; the editors' replacement is exact and the smallest | the common front is counted at the back again |
| `OthersKept` | while the room is away no edits of the user, taken back and made again in any order, change or enter what stood outside the own section, as long as they left its shape alone and took back nothing from before the loss | the guard looks at where an edit starts only |
| `SearchTrue` | a query gets the labels that hold its words, by the best alignment of each, in order, and the letters marked spell them | a cell of the table is not reset between words |

| run | instance | result |
|---|---|---|
| `cycle_faults` | 2 devices, 1 name, 2 lines, 2 edits, 1 fault; 959,200 states | eight properties hold |
| `cycle_live` | 2 devices, 1 line, first clock 3 ahead, 2 edits, 1 fault, torn appends; 303,992 states | `JournalChain` and `Converges` hold |
| `conflict_turns` | 2 devices, device 1's folder may hold the file before it joins, 3 lines, 3 edits, cycles in turn, no save into a running cycle; 563,608 states | `NoSilentLoss` holds |
| `cycle_torn` | 1 device, 4 edits, 1 torn append | `BlobBeforeJournal` violated |
| `conflict_cycles` | as `conflict_turns`, 2 edits, cycles overlap | `NoSilentLoss` violated |
| `conflict_order` | as `conflict_turns`, 2 lines of which the folder holds the second, 2 edits | `MergesAgree` violated |
| `conflict_ancestor` | as `conflict_turns` | `MergesFromShared` violated |
| `shared_editors` | one editor, 2 edits, 1 outside write, 1 lost answer, 1 drop; two in a room, 2 edits, 1 drop; one in a room beside one alone, 1 edit, 1 outside write; 3,011,636 states | five properties hold |
| `shared_erases` | one editor alone, 2 edits, 1 outside write | `ErasesOnlySeen` violated |
| `tab` | 3 projects, 2 paths, 11 typed URLs, 2 moves; a page of 2 elements, 1 co-editor's edit, 1 keystroke, 1 write; 2 tabs, 2 changes, 1 fault; 294,727 states | seven properties hold |
| `surfaces` | twelve parts, each on its own small instance (`MCSurfaces`); 1,207,645 states | seventeen properties hold |
| `share_rule` | 2 people, 2 writes, nobody else | `RuleKept` violated |

**Bounds.** Two devices are the smallest number with concurrency, and all the
cycle's decisions are between "mine" and "theirs". One name suffices because
the cycle treats paths one by one; a conflict copy is a second path of its own.
Two lines allow overlapping and separate changes to one file, three lines allow
a clean merge over a base, which `conflict_turns` and `conflict_ancestor` need.
Two edits make a collision, or an edit on top of another one; a fault in
addition may fall between any two phases. `MaxEdits` and `MaxFaults` are the
only bounds. No constant is symmetric: device ids order operations, lines have
positions. Deadlock is checked in every run: an idle device can always scan.

**Bounds of the web parts.** They are chosen part by part in `MCTab` and
`MCSurfaces`, so that the case each property is about happens: two paragraphs,
one of them most of the file, give every relation between two texts and a
shrink; two edits make an edit on top of an unanswered one, and with one outside
write and one lost answer a save can be refused, reconciled, and lost in the
same behaviour; a file page has three versions and two edits, enough for a write of
an edit that has ended to be announced in the next, and at most two
announcements on the way and two own writes counted; a feed has three or four
operations and pages of two, so a page boundary falls inside a run and an
offline device's operation falls before it; the tree has a cap of one, so it
hides the second file of a folder; two writes of a dialog overlap, and in all a
folder's rule and a settings page see two writes (`Bounded`). A page editor has
one keystroke beside one edit of somebody else. A meeting note has two edits in
all, at most one of them while the room answers, which is one that opens a fence or
cuts a heading and one that meets what came of it, or one made live, by the user or
another, and one after the loss; and as much taking back and making again as there
is to take back; texts of a diff have five characters of a letter and a line
end, so a table of four cells is too small for some of them and their common
ends overlap; labels of the search repeat letters before, at and after
separators. No bound is on what a program does by itself, only on users, others and faults. Constants
are not symmetric: projects are listed in an order, rows have values, and
paragraphs have sizes.

Several parts share a run because they share no state of their own: what they
have in common is the hub's records, which each part follows for itself. `part`
says which one a behaviour follows, and its variables are renamings of `s1` …
`s20` by `INSTANCE … WITH`. A run of their product would reach the same states
of each part and nothing more.

Deadlock is not checked in the runs of the web parts: people may do nothing,
and their budgets end.

**Fairness.** `Converges` is checked under `FairSpec`: weak fairness of
`Step(d)` for each device. The daemon starts cycles for as long as it runs, on a
timer as well as on wake-ups (`daemon/daemon.go` `runVolumeWorker`), a cycle
has no wait other than calls that end or time out, and the supervisor restarts
a worker that dies. No fairness is assumed of users, crashes or failures, and
the property is about what follows once their budget is spent or they stop.

The three liveness properties of `tab` use `TabFairness`, which is weak fairness
of what a browser does without being asked, action by action. *Router*: React
renders a `Redirect` it returned, the list and the tree of a query that is
mounted arrive (a query is answered, or retried and then shown as failed), and a
request somebody waits for ends. Clicks, history travel and other people's
changes are not fair. *Page editor*: the frame loads, the document of the room
opens, a digest is computed, a message posted is handled, and the hub's snapshot
timer fires for as long as the room differs from the file. Nobody has to type,
and `Arms` is for a room: an editor alone is observation V2 below. *Live tabs*:
a fetch under way is answered, relayed and queued frames are delivered, timers
fire, a stream that is not dead reconnects (`EventSource` does that by itself),
and the listing's poll goes on (`refetchInterval`). Faults are bounded and not
fair; `Heals` is about the time after the last.

### Where code and documentation disagree

1. **A torn append breaks the push order** (`cycle_torn`). The comment on `push`
   says peers never see an operation whose content is missing. After a torn
   line the next operation is swallowed by it; `PushedOps` counts it all the
   same, so the cursor is one too far, and a later operation's blob is skipped
   while the journal that names it goes up.
2. **Overlapping cycles lose a version without a copy** (`conflict_cycles`). A
   collision is looked for only between operations this cycle pulled and
   operations not pushed yet. If both devices pull before either pushes, no
   cycle ever sees it. The README promises a conflict copy.
3. **A merge depends on which side is called one's own** (`conflict_order`). An
   insertion right before a line that the other side deletes does not overlap
   the deletion and starts where it does. Merged as the other side's it comes
   second, and `mergeText` goes back before the deleted line, which is put out
   again; merged as one's own it comes first, and the line stays deleted. The
   comment on `mergeText` (`merge.go` 29–31) says that both orders agree, "or the
   fleet diverges", and that the result is the union either way.
4. **The merge base need not be shared** (`conflict_ancestor`). The newest put
   ordered before both edits may be an unpushed first save of one of the two
   devices; a line it added reads as removed by the other.

5. **A solo editor's lost race erases what it never showed** (`shared_erases`).
   `rebaseOnLostRace` asks whether the file holds all it tried to save by the
   shape of the difference alone; a deletion of its own against an addition of
   another passes. It records the file's text as saved without showing it, and
   its next save removes the addition without a copy, which the comment eight
   lines below says it must not.
6. **The share dialog drops a rule's exceptions** (`share_rule`). The exceptions
   it sends along come from a listing that may not have arrived, or not again
   since its last write.

`conflict_turns` is the counterpart of 2 and of the first observation below: when
neither cycles nor saves overlap the promise holds, so these two overlaps are the
whole of it on that instance. It is about versions, not about lines: a version
that was merged counts as one that somebody replaced who had it at hand, and what
a merge made of it is finding 3.

A file demoted when a folder joins a project is the exception the
documentation makes, and `NoSilentLoss` makes it too. `ClockDominates` exempts
the cycle that adopts, because adoption wants to lose.

### Further observations

Some modules state a stronger property than the one the runs check, which the
code does not have; the definition is in the module, next to the weaker one, with
the comment of the code it comes from. A run that checks it ends in a
counterexample. They are listed here so that the weaker wording is not read as
an oversight.

*Sync cycle.*
* A save into the folder during the pulling cycle replaces the version pulled: it
  is not written over (`syncer.go` 2245), is journaled one cycle later with a
  higher clock, when nothing is "pulled" any more, and the pulled version gets no
  copy. With `SavesOverlap` `NoSilentLoss` fails after two edits, with cycles in
  turn.
* Where an own unpushed edit and a pulled one both lose to a third device's, only
  the own one gets its copy here (`loser := mine`, `syncer.go` 1950); the pulled
  one's is its author's to make. An earlier form of `LoserKept` asked for both.
* A copy's name ends in the second of its loser's time, so a second loser of one
  device within that second is put over the first copy; the first content stays
  in the history, which is what `CopyKept` asks for.

*Shared editing.*
* `WordSurvivesClose`: closing a tab whose room socket is down writes nothing
  (`sharedfile.ts` 590–598); the words stay in the tab that is going away. The
  comment there: "Closing the tab mid-word must not lose the word."
* A late answer to an earlier save reports "clean" over the failure of a newer
  one, and the label "Not saved — still trying" (`FileView.tsx` 560) is shown
  although nothing tries before the next keystroke.
* A restore held back by unsaved words is recorded as the base without being
  shown (`FileView.tsx` 488–507), the same hole as finding 5 by another door.
* The parting save of a closed editor that is refused as a shrink (422) is
  dropped: there is nobody left to ask.

*File page.*
* `SeedRead`: the refetch at the start of an edit joins a first read still in
  flight, although `FileView.tsx` 410–411 says "A new request, not one already
  in flight."
* `BannerIsOthers`: the banner goes up on the reader's own words. In a live room
  nothing calls `onWriting`; when the hub's snapshot is announced
  (`ycollab.go` 680, 777–795) and nobody else is in the room, `FileView.tsx`
  526–545 has nothing to claim the event, though 508–512 says that alone it means
  somebody edited outside the room. The parting save of an edit raises it in the
  next one as well.
* `NeverCrashes`: a preview of text and an editor cache the same key in two
  shapes; the one who comes second draws the other's (`FileView.tsx` 393–395).
* After a failed first read a later success never ends the read-only preview.

*Page editor.*
* V1: an anchoring that came too late is retried after 300 ms, which does not
  help when the hash was the late one.
* V2: an editor alone reloads its frame over and over when its seed is older
  than the frame, as the seed is not read again; `VisualEdit.tsx` 94 says "one
  automatic retry, never a reload loop". With `"solo"` among `Joins`, `Arms` fails.
* V3: the ranges are compared with the document as it was before
  `await sha256Hex` (`VisualEdit.tsx` 249) and anchored in the document as it is
  after it. With `Disturbed` `SplicesInside` fails: a co-editor's word that
  arrives meanwhile shifts every range behind it. The runs take the document to
  rest while it is hashed, and let it move at every other moment.
* V4: a patch replaces an element's whole text, a co-editor's words in the same
  element included; `FrameIsFile` exempts elements others touched.

*Address bar.*
* `ReachableFromTree`: a file in the root named like a view opens the view:
  `openPath` goes by URL. `router.ts` 42–43 says such files "remain reachable
  via the tree".
* `PastedReplaced`: whether fullscreen's entry was pushed is a flag that a change
  of path clears (`Browser.tsx` 362–364) and the history's own travel does not.
  Open a link with `?full=1`, open the same file from the palette, press
  Fullscreen, go back twice: the flag still stands, over the entry that was
  pasted. Exit then goes back once more, out of the app or nowhere, where the
  comment (358–360) and `e2e/fullscreen.spec.ts` 84 say it is replaced in place.
  TLC finds it with that link as the one typed address and five moves.
* A trailing slash on a view's URL is not normalised; redirects drop `?comment`
  and `?connect`; when the list's refetch fails, a project just created is "not
  found".

*Live tabs.*
* `GapCovered`: what is published while no stream is up is lost for an open file,
  which has no poll, and the hub sends no resync on connecting;
  `useProjectEvents.ts` 32–35 says "That is the poll's job".
* A 503 makes `EventSource` give up while its tab keeps the lock; a resync does
  not read comments, rules or permissions again.

*Activity.*
* `OfferIsChange` needs devices' wall clocks to agree with the journals' order
  (`ClocksAgree`); the comment at `HistoryView.tsx` 213–216 takes this for
  granted. `SelectionStays`: the selection is an index, and a refetch moves
  another row under it. Under a filter the newest loaded entry of a path need
  not be its newest.
* Two devices' runs with the same note and no session share one "undo" card.

*Dashboard.* `EmptiedIsEmpty`: an answer about emptied files outlives a file that
was filled again. A folder and a file that had the same name in turn share reads.

*Sharing and settings.*
* `LinkOfPath`: the dialog keeps its state when its subject changes.
* Overlapping changes of an expiry can end on the older one, on screen; a link
  others revoked stays in the dialog that minted it until its listing is read.
* Overtaken revokes: a dialog sends a revoke, is closed and opened again while its
  listing shows no link yet, and mints; the hub answers with the link that is still
  there, and then serves the revoke. The dialog goes on showing a dead link after
  every answer is in. It takes three calls; `LinkTrue` allows for it (`ended`).
* `KeyShown`: a second new key replaces the first on screen ("shown until
  dismissed", `OrgAdmin.tsx` 257). `TypingKept`: what is typed during a save, or
  while new values of the project arrive, is discarded.

*Sidebar.* `FoldKept`, `NewShown`, `PinsKept`, `CopiesShown`: unfolding the path
on screen undoes a fold; leaving stores the present as seen; two tabs overwrite
each other's pins; a conflict copy of a conflict copy has no badge.

*Meeting notes.* `OthersAlwaysKept`: a fence left open in one's own section, or
typing at the end of one's own heading, makes what follows the user's own, and the
next offline edit there is let through, although `cm-meeting.ts` 36–38 says such
edits are refused. Taking back does the same in one keystroke: edit a teammate's
section while the room is live, lose the room, press Ctrl-Z, and the lines of the
others change unrefused, which `OthersKept` leaves out by `loose`.

*Name search.* `MarksBest`: the walk back asks the wrong one of its two tables
whether the alignment continues (`fuzzy.ts` 240–279), so the letters marked spell
the word but need not be the alignment that was scored: of "aab" in "aaab" the
first, third and fourth letters are marked and the last three were scored. The
comment at 192–194 calls them the positions of the best alignment.

*Comments.* A reply sent twice after a lost answer is stored twice; submitting
while another file is opened clears the draft there.

## 4. The proofs

### The sync cycle

`SyncCycle_proofs` assumes what `SyncCycle` assumes of its constants: device ids
are naturals and there is at least one, lines are naturals, `Skew` gives each
device a natural, `Second` is positive, no sequence of lines is `Absent`, bounds are
naturals. Nothing bounds the number of devices, names, lines, edits or faults.

| theorem | statement | argument |
|---|---|---|
| `TypeCorrect` | `Spec => []TypeOK` | `TypeOK` is inductive by itself once each operator's result is typed: a listing of a set is a sequence over it, a replay is a folder over real paths, a merge is made of lines |
| `JournalsChain` | `Spec => []JournalChain` | every step is one of four things to the journals (`JournalStep`: own file grows, a copy is replaced if the hub's is longer, the hub's is replaced by the author's, nothing); each keeps the chain, prefixes being transitive |
| `ImplementsReplicatedJournals` | `Spec => ReplicatesJournals` | each `JournalStep` maps to `Write`, `Fetch`, `Publish` or a stutter of `ReplicatedJournals`; that a fetched copy is the whole hub journal even when it was not longer needs `JournalChain` |
| `EditsDominate` | `Spec => ClockDominates` | strengthened by `ClockCovers`: while the pull runs the cycle's clock covers every operation in the volume but those listed as pulled, in step 3 it covers all; `ClockDominates` alone says nothing about memory and is not inductive |
| `PushOrderHolds` | `~MayTear` ⊢ `Spec => [](CursorHonest /\ BlobBeforeJournal)` | strengthened by `PushReady`: outside torn appends the list in memory is the journal file, and before the journal goes up what it names beyond the cursor is on the hub; operations up to the cursor are on the hub already (`CursorHonest` and `JournalChain`), with their blobs |
| `CursorIsHonest` | `~MayTear` ⊢ `Spec => []CursorHonest` | the half of the theorem before that a run checks by itself |
| `CachesAreHonest` | `~MayTear` ⊢ `Spec => []CacheHonest` | see below |
| `NoLoserIsDropped` | `~MayTear` ⊢ `Spec => []LoserKept` | see below |
| `HistoryIsKept` | `~MayTear` ⊢ `Spec => HistoryKeepsAll` | a step that is not the user's replaces or unlinks a file only if the cache in memory calls it unchanged; such an entry is backed |

`NoLoserIsDropped` is about one step and what follows it. Step 3 looks at every
version at risk once, against the replay of all it knows; `ResolveCommits` shows
that each gets a copy, a merge, or is left because its blob is not there, and
that no copy takes another's place in the replay before the journal is written.
Its invariant, `NothingLost`, has two parts. `Stored`: the content of
what the device itself journaled or holds back is in its own blob store, so the
exception for missing content is never made for an own edit, and what it pulled
was fetched or tried. `Settled`: from step 3 to the end
of the cycle every version at risk is kept, where what is at risk is still
measured by the same journals, because pushing and materializing write none.

`CachesAreHonest` and `HistoryIsKept` rest on `CachesBacked`: whatever an entry of a state cache
says, saved or in the memory of a cycle, fresh or stale, its blob is in the
device's store and an operation on its path names it, and a fresh entry of a file
that is there has the file's content (`Knows`). `CacheHonest` says so of a saved
fresh entry only, and is not inductive for two reasons. A scan makes a stale entry
fresh again without an operation when the file came back to what the cache has,
so stale entries must be backed too. And a folder that joins a project scans its
files into the cache of the cycle while their operations are held back from the
journal until the pull ends; until then the held list backs those entries
(`Accounted`), and what the end of the pull drops of it is in the project. Torn
appends are excluded by hypothesis because they take an operation out of a
journal after the cache was built on it.

The strengthenings were checked with TLC on the instances above before they were
proved: `CachesBacked` on the 959,200 states of `cycle_faults`, and on more than
five million with a folder that holds files before it joins and two faults. The
hypothesis `~MayTear` of `PushOrderHolds` is necessary: `cycle_torn` is its
counterexample.

### Shared editing

`SharedFile_proofs` assumes only that paragraphs are naturals, that the first
text is made of them, and that every instance explored is a `Budget`: open tabs
are editors and bounds are naturals. The number of editors, paragraphs, edits,
outside writes, lost answers and drops is arbitrary.

| theorem | statement | argument |
|---|---|---|
| `TypeCorrect` | `Spec => []TypeOK` | inductive by itself, once a merge, a splice and every answer are typed |
| `HubIsTheWriter` | `Spec => []HubWritesAlone` | strengthened by `NoOwnSave`, which says the same of an editor that is still opening: without it, joining a room with a save under way would be possible |
| `SavesAreStored` | `Spec => []SavedIsStored` | strengthened by `StoredInv`: the file's text is in its history, and what an answer under way says was stored, or a refetch brings, was stored; the history and the copies only grow |
| `WordsAreKept` | `Spec => []WorkKept` | strengthened by `Work`: what is not stored yet is in no stored text (`Unstored`, so an adopted text that holds the last saved one cannot hide it), an editor whose socket is up shows the room's document (`InStep`), what an editor in a room or closed owes is somewhere else by name (`Elsewhere`), and a shrink question has one answer at a time (`OneAnswer`) |
| `SavesEraseTheKnown` | `Spec => ErasesOnlyKnown` | the step is accepted only under an `If-Match` that names the text it replaces; `KnownInv` says that every base of a request, and what an editor believes saved, is known to it, and that what it sends was on its surface |

The history variables `mine`, `had`, `yielded` and `blind` restrict nothing: no
guard reads them. `WordsAreKept` needs `TypeCorrect` and the
invariant of `SavesAreStored`; the others need `TypeCorrect`. The two exceptions they allow are
stated in the properties: what a conflict copy took over counts as stored, and
`blind` is finding 5.

### The file page

`FilePage_proofs` assumes that its bounds are naturals and that one write may
happen. How many writes and edits there are is arbitrary.

| theorem | statement | argument |
|---|---|---|
| `TypeCorrect` | `Spec => []TypeOK` | inductive by itself |
| `SeedsAreFresh` | `Spec => []SeedFresh` | strengthened by `Current`: during an edit that did not join a first read, a read under way, the cached text once an answer came during the edit, and the seed are none of them older than the edit; `SeedFresh` speaks of the seed alone |
| `BannersHaveCause` | `Spec => []BannerHasCause` | strengthened by `Counted`: until a frame came that is not of this edit's own save, the frames on the way that are of one are at most its count of own writes, so each is claimed when it comes; frames may be merged, and a merged one claims one. A snapshot's frame is not of a save (`-e`): it may use up a count that a save would have claimed, and is the cause of the banner which that brings |

### Live updates

`Tab_proofs` assumes of `LiveTabs` that no tab is the number that stands for "none" and
that its bounds are naturals; tabs, buffer, changes and faults are arbitrary.

| theorem | statement | argument |
|---|---|---|
| `TypeCorrect` | `Spec => []TypeOK` | inductive by itself |
| `StaysCurrentHolds` | `Spec => []StaysCurrent` | strengthened by `Informed`: a tab that is up was not told (`behind`), or is asking, was answered with or shows what the hub has (`Fresh`), or the news is on its way: in its timer, its inbox, or, while its stream is open, in the stream's queue or overflow mark (`Coming`). A step that takes the news from one place puts it in the next |

`Informed` was checked on 409,007 states of two tabs with a buffer of one frame,
two changes and two faults.

### The address bar

The same module proves two properties of `PageRouter` as the part of `MCTab` it
is. Assumed are `ConstantsSound` and, where named, `IdsUnguessed` and
`FilesAddressed` (section 2); projects, names, organizations, files, typed
addresses, platforms and steps are arbitrary. TLC evaluates the assumptions on
the instance of `tab`.

| theorem | statement | argument |
|---|---|---|
| `OwnIsFound` | `ConstantsSound`, `IdsUnguessed` ⊢ `TabSpec => []OwnFound` | see below |
| `AddressIsKept` | the same and `FilesAddressed` ⊢ `TabSpec => AddressKept` | what a redirect goes to is one of four things (`RedirectCases`): the setup screen, the same page in its project, the same page of a volume, where the file went. An address the application makes reads back as what it was made of (`PathReadsBack`, `ViewReadsBack`), so each has the subject it had; a page that is shown is at its canonical address (`ShownIsCanonical`), so leaving fullscreen changes nothing else |

`OwnProjectFound` is not inductive: between the hub's making a project and the
list's coming, the page must not name it yet. `RouterInv` has three parts.
`RouterTyped`. `MadeListed`: unless a refresh failed, what this tab made or joined
is in the list it has, or is the project whose creation is still being
answered. `NamesKnown`: no address of the history, and no list, names a project
that the hub has not minted or whose creation is under way (`Unseen`); that every
address the application goes to keeps to this (`Admits`) is one lemma for each
kind of address. `IdsUnguessed` is necessary: who opens the address of an id that
the hub then mints for them is told, until the list comes, that there is none.
Both theorems need that every route the parser makes hangs together
(`RouteParsed`: a path or a view but not both, an editor only of a path, a path
that its address reads as).

### Comments

`Comments_proofs` assumes that there is at least one thread to be had and that
the number of acts is a natural.

| theorem | statement | argument |
|---|---|---|
| `ListComesTrue` | `Spec => []ListIsHub`, the half of `ListsTrue` about comments | strengthened by `Accounted`: if the list is not the hub's, then a change is known to have been missed, a read under way will bring the hub's, or a write under way is one whose end is followed by a read; a write that the hub took but whose answer was lost counts as missed |
| `FrameFollowsHolds` | `Spec => []FrameFollows` | strengthened by `Following`: while the frame has not announced itself nothing is claimed; afterwards what it *will* hold once it has heard the messages on their way (`WillMark`, `WillFocus`, `WillPick`, each by the last message of a kind) is what the panel shows, except that a reader who left the pick mode, and of whom the app has not heard, does not pick |

`Following` speaks of the last message of a kind in a queue of any length, which
`LastOf` names by its place; what appending to the queue and hearing its head do to
it are lemmas of their own. Both strengthenings were checked on 2,442,499 states
of three threads and three acts.

### Settings

`Pages_proofs` assumes that there is at least one row (`Bounds`). Rows, values,
the number of calls and the acts of others are arbitrary.

| theorem | statement | argument |
|---|---|---|
| `SettingsTyped` | `Spec => []TypeOK` | inductive by itself |
| `ListComesTrue` | `Spec => []ListTrue`, the half of `ListsTrue` about settings | strengthened by `Owed`: where the list is not the hub's, a read under way will bring the hub's, or none is asked and a change is known to have been missed, or a call is under way whose end asks for a read |
| `UntouchedIsKept` | `Spec => UntouchedKept`, the half of `OnlyChosenWritten` about forms | strengthened by `Narrow`: what a form's call under way sends has no field outside the ones its user touched, so a save changes no other, whatever others wrote since |

### Sharing

`Sharing_proofs` assumes only that the bound on links is a natural. People,
levels, calls and acts of others are arbitrary, and `EditIsChangeHolds` assumes
nothing.

| theorem | statement | argument |
|---|---|---|
| `EditIsChangeHolds` | `Spec => EditIsChange`, the half of `OnlyChosenWritten` about rules | strengthened by `Drafted`: a call under way that writes a rule carries what the dialog showed (`base`) with one level changed (`SameBut`); the two ways of making one are `LevelSameBut` and `GrantSameBut` |
| `LinkIsTrue` | `Spec => []LinkTrue` | see below |

`LinkTrue` speaks of a settled tab. What makes it so is an invariant of five
parts. `Current`: unless a change is known to have been missed, a listing that
asks for nothing is the hub's and a read under way will be. `Waiting`: the dialog
has at most one call of its own that it waits for, and a closed dialog has none
and holds nothing. `SeenHolds`: a link that a listing once held, and that the
banner or a table was asked to revoke, is in every later listing for as long as it
lives. `BannersGone`: while the dialog mints, or shows what it minted, no revoke
asked for outside it names a live link. A mint starts where the dialog shows no
link, so its listing is empty, so by `SeenHolds` such a link is dead. `Backed`:
then what a mint was answered with lives or was ended by others or by an earlier
dialog's revoke (`ended`). The
whole was checked on 3,903,188 states with three calls before it was proved.

The attempt found `LinkTrue` too strong as first stated: see the observation on
overtaken revokes in section 3.

### The pages together

`Surfaces_proofs` lifts these theorems to the run `surfaces`. A behaviour of
`MCSurfaces` follows one part from its first state on and takes that part's
steps (`FileFollowed`, `CommentsFollowed`, `SharingFollowed`,
`SettingsFollowed`), so what the parts promise holds of the whole:
`EditorsAreFresh`, `BannersAreTrue`, `FramesFollow`, `LinksAreTrue`,
`ListsComeTrue` and `ChosenIsWritten` state the run's own `SeedFresh`,
`BannerHasCause`, `FrameFollows`, `LinkTrue`, `ListsTrue` and
`OnlyChosenWritten`. The bounds of these four parts are constants; `PartBounds`
and `PagesSound` assume of them what the parts' proofs do.

Five more parts are proved like the settings in `Pages_proofs`, which
`MCSurfaces` extends: it holds the instances of the parts it proves about, with
their data as constants, and what it proves of an instance `Surfaces_proofs`
lifts to the run. The constants are the histories, page size and writes of the
activity feed, the paths, conflict copies, system names and cap of the sidebar,
the names, notes and bounds of a meeting note, the paths, files, scopes and
bounds of the dashboard, the letters, context and bounds of a commented page.
`PagesSound` assumes that a history is finite, that its
paths, times and clocks are naturals, that a device, which is not the hub, gives
no number twice, that a page holds something, that a path has a name, that a copy lies beside
its original, that a note is a sequence of lines within its bound, and that the
length of a context is a natural; of the dashboard nothing.

| theorem | statement | argument |
|---|---|---|
| `UndoneIsReverted` | `Spec => UndoReverts` | strengthened by `Undoing`: operations are finitely many, and at most one write of one run is asked for or under way. Then `Clock` is a number at or past every operation (`ClockIsLatest`), the writes of a plan get one place each in the append (`WritesInOrder`, by their ranks), so each path has at most one new operation, later than all it had (`Appended`), and the newest operation is what a file holds (`NewestHolds`). A path the plan leaves out held the right content already |
| `FeedIsTrue` | `Spec => []FeedTrue` | see below |
| `OffersAreChanges` | `Spec => []OfferIsChange` | of a top of the feed, loaded wholly or not, the first row of a path is the path's newest operation (`HeadIsNow`): one older than it in the feed's order is, where clocks agree, older in the journal's |
| `FilesAreAccounted` | `Spec => []FilesAccounted` | the tab's tree is one the hub served (`TreesRead`), and of such a tree it is a fact: siblings have different names, so newest-first with its tie break is a strict total order (`NewestFirst`) and the cap keeps exactly `Cap` of them (`CapCounts`, by `FirstOnes`); what lies in an unfolded folder has a row exactly if its own level shows it (`RowsOfLevel`); a copy's original is in the same folder (`CopyIsBeside`) |
| `OthersAreKept` | `Spec => []OthersKept` | see below |
| `QuoteIsFound` | `Spec => []QuoteFound` | see below |
| `EmptiedIsFound` | `Spec => []EmptiedFound`, the half of `InsightsTrue` about emptied files | strengthened by `AnswersHold`: an answer whose question names a file with the time it has at the hub says whether that file is emptied, and no question names a time still to come (`ChangesHold`: a change gives its file a time no question has, or makes its content late) |

The first four rest on lemmas about ranks: in a finite set with a strict total
order the numbers of smaller elements are 0, 1 and so on, each once (`Ranked`).

`FeedTrue` is about what is shown; a read that is half done, or an answer to a
question asked before others wrote, will be shown later. Its strengthening,
`FeedRead`, speaks of both (`Reads`). What was read lists operations the hub has,
strictly in the feed's order, and its cursor is the last of them (`Listed`); unless
something reached the hub since, it is the top of the feed as the hub has it now
(`Top`). That a page read past the last entry goes on there, without a gap or an
entry twice, is `RestOfFeed`: in a strict total order, what comes after the k-th is
the same sequence less its first k. The order is total only if no two operations
have one device and one number, and the hub writes for all its users under one
device: `Numbered` says that its numbers run up to as many as it wrote, and an undo
of many files gives the next ones (`NumbersGoOn`). Operations that arrive in
between may belong anywhere in the order; they leave what was read in order
(`ListedGrows`) but no longer the top, and the read is then known to be stale.

`OthersKept` says what a note away from its room still holds; it does not say
why the next edit leaves that alone. Its strengthening, `Around`, does. The
note is a frame: the lines held when the room was lost stand up to a line `p`
and after a line `q`, each once, and between them is nothing of theirs
(`Framed`); and `p` is the first heading that is the user's, and after `q`
comes a heading or the end (`Bounding`), or the note has no own section and
nothing may be typed. So the section that `meeting.ts` reads off the note is
never larger than the frame (`OwnSection`, `SectionStops`), and an edit the
guard lets through starts after `p` and ends by `q` (`EditsInside`). What keeps
it so is parity: a heading counts only outside fenced code, so the heading
after `q` goes on bounding the section as long as the fences before `p` and the
user's own are each even in number (`EvenTogether`, `Reframed`). That, or the
own heading, is what `loose` takes away. Each way of typing is then shown to
leave the frame (`InsertLeaves`, `ReplaceLeaves`, `CutLeaves`), and losing the
room to make one (`DropKeeps`). Undo and redo pass by the guard, so the frame has
to hold of the texts they go back to as well: `HistInv` says that, unless `loose`
is set, the text in every change made since the loss is framed. The note was when
the change was made, and taking back a change of before sets `loose`
(`AgainKeeps`). `Around` and `HistInv` were checked on the
114,991 states of notes of five lines with any two edits, and on the first 1.7
million with three, `AnswersHold` on 1,513,504 with three
changes.

`QuoteFound` is a fact about a page and an anchor that are sequences, with a quote
that is not all spaces and a marked span within the page (`AnchorRead`, which
every edit keeps): it is true of any text, not only of one near the text the
comment was written on. `locate` matches with the spaces squeezed out and counts
its way back. `squash` is a recursive function, and what it computes is reached by
the least place where a claim fails (`SquashAppend`, `Upward`): what is kept of a
slice is a slice of what is kept (`SquashOfSlice`), and the k-th kept character
stands where k are kept and k - 1 before it (`AtIs`). So a place where the
squeezed quote occurs is a span of the page that reads as the quote
(`PlacesStand`), and the marked span, if it still does, occurs (`SpanStands`). Two
texts agree for no longer than either is (`AgreeFrontIs`), so a place that agrees
for at least as long as one with all of the context has all of it too (`BestIs`).

`TextEditExact` is in `Pages_proofs` too. It has no hypothesis but two sequences over a
set: the replacement lies within the text, does not run backwards, turns one
text into the other, and no pair of a common front and a common back that do not
overlap leaves less to replace. It is what `TextEditTrue` says, of texts of any
length. That the line diff is least would need induction over the table.

### Only model-checked

Liveness (`Converges`, `AddressSettles`, `Arms`, `Heals`), which with `ENABLED`
is outside what the prover does.

`NoSilentLoss`. It is `LoserKept` end to end: across devices, and against what
each user had seen, so its invariant would have to say for every operation of
every journal who has seen it, at every point of a cycle of any device, and what
taking turns means for that.

The properties of `VisualEdit` (`PatchesLand`), the type invariants of the two
composed modules, and the other properties of
`surfaces`. Of these, `SearchTrue`, the line diff of `DiffTrue` and the
sums of `InsightsTrue` speak of what a search, a fold or a table computes,
and proving them would need induction over data. No module declares a
`RECURSIVE` operator.

## 5. What is not modelled, and why

Of the sync engine: ignore rules, chunks, read-only folders, prune, symlinks,
journals rewritten by their authors, several mounts of one volume, and the
window between materialize's look at a file and its rename, which needs one path
at the grain of system calls. Users' edits neither repeat nor move lines, so
merges of texts that do are outside it; clocks are naturals, so their cap at 2^62 is.

Of the hub: the append to its own journals with and without compare-and-swap,
leases between hub processes, reservations and quota, the store door's
append-only check, and who may do what. The web modules take the hub's answer to
a request as one step on the records the request is about, and one hub process.

Of the daemon: which paths a scan looks at. `SyncCycle` scans all, and takes from
the daemon that cycles are started again and again. The spools carry telemetry.

Of the web application: layout, drawing, geometry and CSS paths, guides and
menus, presence, uploads by drag and drop,
the Coverage tab of the dashboard, chains of moved paths in the history, and a
page's own scripts inside the sandboxed frame. They hold no state that a
property above relies on, or are pure drawing of it.

Not at all: configuration files, sign-in and sessions, mail, MCP, the metadata
stores, the command line, desktop shell, installers and templates. They keep
records or present them; none takes part in a protocol with the state modelled
here.

What would add most next: one path of the folder at the grain of system calls;
the hub's journal append, whose theorem would be that with compare-and-swap no
append is lost; a room's lease over two hub processes; `SyncConflict` with a
fault in its budget; a proof of `NoSilentLoss` for devices that take turns.
