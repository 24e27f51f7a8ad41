# A TLA+ model of ExcaliDash

ExcaliDash is a self-hosted collaborative whiteboard. People and foreign agent
runtimes work on the same drawings at the same time. This directory models the
parts in which a mistake is expensive and hard to test: who may publish into a
board Context and what an agent is given to read there, how one approved dispatch
becomes at most one foreign agent run, how commands reach a runtime daemon, how a
drawing and its files are stored and backed up, and how people in one room see the
same board.

File and line references are relative to `src/`; `agent/` stands for
`backend/src/agent/`, `dashboard/` for `backend/src/routes/dashboard/`, `runtime/`
for `backend/src/agent/runtime/`, `server/` for `backend/src/server/`, `assets/` for
`backend/src/assets/` and `editor/` for `frontend/src/pages/editor/`.

## Inventory

| Component | State | Operations | Modelled by |
|---|---|---|---|
| Context leases (`agent/contextLease.ts`, `dashboard/drawingLeaseRoutes.ts`) | one row per Context: generation, run, human, expiry, approval end, release | acquire, renew, transfer, release | `ContextLease`, `LeaseAuthority`, `LeaseRow` |
| Dispatch receipts, admission route, timers, outbox worker (`agent/dispatchReceipt.ts`, `dispatchWorker.ts`, `dashboard/drawingOrchestratorThreadRoutes.ts`) | receipt, bound generations, outbox row; requests, timers and workers in memory | accept, claim, start, acknowledge, observe, fail, reconcile, commit, restart scan | `DispatchReceipt` |
| Runtime daemon broker, sessions, routes, daemon (`runtime/runtimeDaemon*.ts`, `packages/runtime-daemon/src/daemon.ts`) | sessions, pending commands, listeners; device row; assignment journal | activate, revoke, poll, dispatch, complete, publish; claim, execute, report | `RuntimeDaemonBroker`, `CommandChannel` |
| Herdr adapter (`runtime/herdrAdapter.ts`, `herdrTransport.ts`) | one socket per request | a request and its deadline | one action of `DispatchReceipt` |
| Board mounts, Contexts, guest provenance (`agent/boardMount.ts`, `boardContexts.ts`, `elementGuestProvenance.ts`) | revisions, mounts, Contexts, provenance rows, policy | register, mount, tool call, confirm | `RunMount`; registration and provenance also in `DrawingSave` |
| Instruction approvals (`agent/instructionApprovals.ts`, `instructionClosure.ts`) | semantic relations, approval rows | relate, preview, approve, check against a revision | `RunMount` |
| Drawing saves and history (`dashboard/drawingCreateUpdateRoutes.ts`, `drawingHistoryRoutes.ts`, `snapshots/`, `routes/storage.ts`) | drawing row, snapshots, document links, widget pages | create, save, restore, replace Markdown, trim, clean up orphans, sweep unclaimed uploads | `DrawingSave` |
| Blobs (`assets/assetService.ts`, `linkPreviews/`) | blob rows and files, assets, owners' queues and usage | upload, attach, detach, archive, sweep, collect | `BlobStore` |
| Socket rooms and revocation (`server/socket.ts`, `socketRevocation.ts`, `socketAccessSweep.ts`) | connections, rooms, join queues, access cached at joining | handshake, join, leave, change and revoke access, sweep | `SocketRooms` |
| Follow, document locks and drafts, presenter, voting, timer (`server/socket*.ts`, registries) | process-local registries | follow, lock, patch, replace; present; vote; start, pause, extend | `RoomEvents` |
| Browser editor (`editor/`, `frontend/src/utils/sync.ts`) | open scene, shared baseline, queues, autosave state | edit, flush, relay, merge, save, rebase, reconnect | `EditorSync` |
| Backups (`backend/src/backups/`) | a directory of archives and unfinished files; one run per process | prune, copy, pack, enforce limits; tick, one-off command | `Backups` |
| Codex app-server executor, runtime gateway | child process; capability table | start, prompt; look up | no |
| Context and orchestrator threads | message log | append, read | no |
| Task queue and coalescer (`backend/src/utils/`) | waiting jobs, promises in flight | run, abort, drain | no |
| Login, comments, activity, inbox | rows | CRUD and I/O | no |

How they interact. A member mounts a board for a run; the mount pins a revision,
and the run reads through tool calls that filter it. The dispatch route reads a
clock, takes the leases of all target Contexts one by one, and accepts the receipt,
its bindings and its outbox row in one transaction; it then sets a timer and starts
the worker without waiting. The worker asks the adapter for one start, and the
adapter is a broker that hands the command to a polling daemon, or a Unix socket to
Herdr. Status comes back through a listener. The started agent publishes by writing
the board in a transaction that also commits the receipt's effect and releases its
leases. Meanwhile people edit: their browsers exchange element updates through the
room of the drawing, and every browser saves the whole scene by a `PUT` guarded by
the drawing's version. The save records history, links documents whose bytes the
blob store shares among all owners, and marks what guests touched; the mount reads
those marks. Sharing routes change access and tell the rooms, where a sweep catches
what an announcement missed. A scheduled job copies the database and the store's
files into an archive while all of this goes on.

What is hard here: almost every handler awaits a database between reading and
using; what the server keeps in memory is lost in a crash and what the database
keeps is not; access is decided once and used later; a runtime's silence proves
nothing; browsers drop packets, connections and saves and have to agree afterwards.
`PROJECT.json` lists these hazards with their lines and the properties that would
catch them.

What makes each component correct:

* leases: at most one live holder, changed only with the consent of the human
  behind it or of the board owner, never beyond the human-approved end, never
  blocked for ever;
* dispatches: at most one foreign start; "failed" means it never started;
  "succeeded" means the runtime said so; decided is final; effects are published
  only under leases still held and inside the approved window; everything accepted
  is settled by its deadlines; a settled dispatch holds nothing, and one that was turned
  down no more than what failed statements left it, no longer than was approved;
* broker: a command is handed over at most once and never after it was refused;
  only the newest session exists; every assignment is executed at most once;
* mounts and approvals: what an agent is told to do was reviewed by a person in
  full, as it is told; guests' words stay out until a member confirms them;
* drawings: no save under an old version or a withdrawn role; scene, documents and
  history agree; guests' marks survive; what history says happened, happened;
* blobs: an answered upload can be read; nobody exceeds the quota; what nothing
  refers to is collected; uploads end;
* rooms: nobody is in a room, presents or is followed there after leaving or losing
  access, nor keeps a lock taken while there; a round, its ballots and a timer end with the
  last one on the board; queued joins are worked off; follow, drafts and votes are what
  their people last asked for;
* backups: an archive can be restored (PostgreSQL's but for one race, see below); a backup
  that is alone keeps the directory within its limits, a good archive is removed only for a
  newer one, and no failure stops later backups;
* editor: what an editor counts as shared really is; editors that stay connected end
  with the same board, and no update steps back, as long as versions tell the copies of an
  element apart.

## Modules

**`LeaseRow`** is the row and the `WHERE`/`SET` parts of the SQL the lease
functions issue. A generation is a fresh number instead of a random UUID.

**`ContextLease`** drives one row per Context from `Requests` concurrent call
slots. A call reads its clock once (`NewCall`) and takes one step per statement:
`AcquireBegin`, `AcquireCreate` (insert or unique conflict), `AcquireCas`;
`RenewBegin`, `RenewRead`, `RenewCas`; likewise transfer; `ReleaseBegin`,
`ReleaseCas`. A caller may present any generation ever shown, and only the owner
obtains an override. The read of the previous state before the re-grant and the
read back after a successful write change nothing here; the read back matters to
the dispatch route and is a step there. A generation is drawn when the call begins,
before it is used; nobody can see it earlier.

**`LeaseAuthority`** is the abstract promise: an authority that is given, handed
over, continued or ended, with no call in sight. `ContextLease!KeepsPromise` is
the refinement: `authority[c]` is the row and its liveness now, `spent` the
generations no call in flight may still write.

**`DispatchReceipt`** composes the receipts with their route, worker, timers,
leases (`LeaseRow`) and the start command's channel. Variables come in three groups:
the database (`lease`, `receipt`, `outbox`), the process, lost in `Crash`
(`request`, `worker`, `timer`, `arriving`), and the world (`start`, `agent`,
`mayEdit`, clock). Sections follow the code: admission (`Post` ... `Cleanup`),
worker (`Claim` ... `FirstObserve`), events, reconciliation (`Reconcile`,
`ReconcileFails`, `Crash`, `Restart`, `RestartScanFails`), publishing (`Commit`), and
the surroundings. A clean-up is one step per release (`Undo`), each of which may fail by
itself. `Adapter` chooses what a late transport means: with "daemon" the
adapter is exactly a `CommandChannel`; with "herdr" it also has `HerdrTimesOut`.

**`CommandChannel`** is what a runtime adapter promises about one command:
refused means it was not and never will be handed over. `DispatchReceipt` relies
on it and `RuntimeDaemonBroker!KeepsChannel` shows that the broker implements it.

**`RuntimeDaemonBroker`** is the broker, the device row, the routes between them
and the daemon process, for one device: every map of the broker is keyed by the
daemon's id. A `handler` slot is one machine request in progress, so a request
the daemon has abandoned goes on being served beside the next one. The routes'
awaits are the boundaries between `OpenRead`, `OpenCas`, `Activate`, between
`Touch` and the broker call, and between `RevokeDevice` and `RevokeBroker`.

**`RunMount`** is a board on which members and guests draw, declare relations,
review and confirm while a run mounts it and makes a tool call. Each handler is cut
at its awaits: `RelateCheck`/`RelateWrite`, `Preview`/`ApproveCheck`/`ApproveWrite`,
`ReadPolicy`/`ReadProvenance`/`Answer`. A hash is what is hashed. `Reachable` is the
growing worklist of `compileInstructionClosure`; `Meaning` is the least set closed
under the relations, and `ClosureSound` says the two agree on every board reached. A
revision is found by the hash of its own content, so reusing one and making one are
the same here. `confirmed`, `guestly` and `cleared` are history.

**`DrawingSave`** is one drawing row, its snapshots, document links, widget pages and
provenance. A writer reads (`SaveBegin` and so on), plans on what was read, and writes in a
transaction that re-checks what the code re-checks: saves compare the version and the role
again, restores the role but not the version (they replace whatever the row has become),
Markdown replacement and the clean-ups neither. Whether guests may write inside a Context's
frame is the owner's to change at any time (`SetPolicy`). `Makes`
says which writer may do what. `SweepReads` and `SweepDeletes` are the part of the hourly job
that concerns the board's documents.

**`BlobStore`** is the shared store: rows and files of bytes keyed by hash, the assets
that name them, link cards, and uploads going through their owner's queue (one at a
time per owner), the check of usage, the reuse or writing of a blob and the row. Deleting
is the claim of the row, the removal of the file and the removal of the row. `StoreInit`
allows a store that has lived for a while: empty, or with one blob of any age and use.
The operators have names of their own (`StoreNext`, `AssetsOf`, `places` for the document
links) so that the module can be extended beside `DrawingSave`.

**`SocketRooms`** is the life of a connection: handshake, registration and its final
credential read (`Verify`), queued joins with their awaited reads, the level cached
for the socket, grants through links, changes of access and their announcements,
rechecks and the sweep. **`RoomEvents`** EXTENDS it with everything people do in a
room: follow, locks and drafts, replacement of a document, presenter, rounds and
ballots, the timer. Its leaving action is the rooms' one together with every
registry's clean-up.

**`EditorSync`** is any number of open editors, the relay between them and the stored row. A
copy of an element is its label: its version and the rank that stands for `(updated,
versionNonce)`. The label comes from the edit that made the copy, and with it the content,
with one exception: a flush shows a remote copy under the label the element had before when
the two have the same content signature (`Shown`, `preserveUnchangedElements`). `Signature`
says what that function sees of each copy; it is a constant about which nothing is
assumed, so an edit may be one of those it does not see (opacity, stroke width, groups, links,
locks). The editor's own maps are there: `scene`, `synced` (what the others are believed to have),
the throttle and the packet under way (`out`), what has `arrived` and waits for the
next frame, the debounced snapshot (`due`), and the queue of saves with its one retry
after a conflict.

**`Backups`** is the backup directory and the two processes that write it: the server's
scheduled job (`Tick`) and the operator's command (`RunOnce`). A run goes through
`createDatabaseBackup` one file-system call, or one group of calls of the same kind, at a
time: with SQLite `MakeSpace`, `Copy`, with PostgreSQL `Dump`, `List`, `MakeSpace`, then
`Stat`, `Open`, `Write`, `CheckSize`, `PruneAgain`, `Limit`, with `Trim` for each removal
and `End` for the catch and finally. `Fails` and `Killed` may come at any of them.

The theorems are in `ContextLeaseProofs`, `DispatchReceiptProofs`,
`RuntimeDaemonBrokerProofs`, `RunMountProofs`, `EditorSyncProofs`, `RoomEventsProofs` and
`BackupsProofs`, each of which EXTENDS its component, and in `StorageProofs`, which EXTENDS
`DrawingSave` and `BlobStore`. The `MC*` modules give model values, roles, starting
situations and symmetry sets.

### Choices worth knowing

General. A transaction, and the synchronous code after it up to the next await, is one
step. Wording, rendering, audits, rate limits and activity logs are left out: nothing
reads them back. History variables are marked as such where they are declared.

Dispatch and broker.

* The timer callback's delete, transaction and reschedule are one step (`Reconcile`),
  except when the transaction fails (`ReconcileFails`). Timers may fire late, never
  early.
* One worker per dispatch is enough: the call that does not claim does nothing.
* With `DbFaults`, any statement of an admission, its read back, each release of its
  clean-up, a reconciliation and the restart scan may fail. `missed` are the leases of a
  request whose own read back or release has failed; `RejectedLeavesNothing` asks of these
  only that they end with the approved window, which is all the code gives.
* `Reject` is possible at any admission: it stands for the threads, mount and
  Contexts that may not agree as well as for a lost lease.
* Renew and transfer appear inside `DispatchReceipt` as single steps; their
  internal races are `ContextLease`'s subject.
* Herdr's `agent.start` and the prompts that follow it are one command.
* Only one daemon process uses a journal file at a time. `Execute` counts as an
  execution even when it fails. Status reports may concern any run ever executed.

Mounts.

* An element is what it says and the frame it is in; the projection's other fields
  stand with the text. Context frames stay on the board (`DrawingSave!FrameKept`).
* Members' relations may be declared by anybody who may edit; an approval is by people.
* Two approvals may overlap; the later write stands even if it is about older text.
  That fails closed: the row no longer matches.
* A confirmation names an element, not its content. Confirming what the board says now
  also lets through what a mount pinned before (`cleared` exempts it).
* One tool call is followed to its answer: calls share no state.

Drawings and blobs.

* Trim and orphan clean-up read before their transaction and compare no version; what
  they overwrite is exempted by name (`overwritten`) and is a finding of its own.
* A create writes the row twice; a save may come between the two (`late`).
* The hourly sweep deletes the pending links it has read by their keys. A link that a save
  has claimed in between goes all the same; `swept` names its document, and `BoardWhole`
  leaves it out (see below). A replacement under way is never a day old.
* A member's restore of content a guest had touched keeps an existing clean row.
* Marking an orphan and deleting an expired one are atomic steps. Copies of a drawing
  and imports are not charged to the quota and stay outside `QuotaKept`, a part of `StoreSound`.
* `misled` is an upload that had looked a blob up before its file was removed, or had looked
  for another file than the row has by the time it relies on it. `pulled` are the rows whose
  file went for such an upload, or was claimed although an image shows it. A row left in
  DELETING by a failure is never collected (`OrphansGo`, a part of `StoreSettles`, exempts it).
* Documents and pictures are assumed never to have the same bytes.

Rooms.

* With the default in-memory adapter, Socket.IO's join and leave are synchronous, so
  room, roster and `drawingBySocket` change together (`board`).
* Known races are exempted by name in the properties, at the line where they are: the
  grant of a link that changed meanwhile (`socket.ts:594-654`), the fan-out of a former
  target (`socketFollow.ts:308`), a FOLLOW that ends one on another board
  (`socketFollow.ts:229`), and lock tokens whose holder had left when they were granted
  (`leaked`, see below).
* A ballot of one who leaves stays and counts while others are on the board: leaving clears
  a round with the last of them only (`socket.ts:269-272`).
* A join is "answered" when it leaves its queue: one that was superseded, or whose reads
  failed, gets no acknowledgement (`socket.ts:596, 611`).
* One fan-out per socket. The follower-access cache of one second, selections, cursors,
  invitations, presenter's notes and agents' presence are left out.

Backups.

* Files carry their age in days, capped, instead of a date, so that runs go on for ever in
  finitely many states. Days go by between backups and while an archive is written.
* `blobs` are originals by storage key as a backup sees them; how they come and go is the
  subject of `BlobStore`. `rows` loses an original that is claimed while the backup runs.
* A listing and its `stat` calls are one step; no two backups start in one millisecond; the
  side files of a SQLite copy stand with it, and archives of the old format with the new.
* A refused run (no room, no headroom) is one of the failures that `Fails` stands for. An
  estimate that turns out too small counts as a failure, too.
* An original that is gone when its stream is opened either fails the run or, as nobody
  listens to that stream, ends the process (`processGuards.ts`): both are possible.
* `alone`, `shaded` and `whole` are history.

Editor.

* All elements exist when the editors open; deleting is an edit. An update in flight is
  merged with what has arrived. The server's relay and its answer are one step, since
  a socket's packets come in order.
* A conflict's refusal and the reload that follows are one step: a read that comes
  later than the refusal is a refusal that comes later.
* `stray` collects the elements touched by losses the code has: a locally kept change
  booked as shared by a flush (`useEditorCollaboration.ts:553`), a remote copy refused
  because the element was being held, updates missed while away
  (`useEditorCollaboration.ts:372`), a save given up after its second conflict, one that
  failed, edits made between a snapshot and its rebase
  (`useEditorPersistence.ts:256`), and copies overtaken by older ones on their way to a
  third screen (`Overtaken`, `useEditorCollaboration.ts:676`, see below).
* `aged` collects the elements a flush has shown under an older label
  (`useEditorCollaboration.ts:493-498`, `frontend/src/utils/sync.ts:118-132`). From then on
  an element's version does not tell its content, and the screens really can stay different
  (see below). The claims of `editor` and the theorems are about the `Spared` elements,
  which are in neither set: for these a label stands for one content everywhere. TLC finds a
  counterexample as soon as any one of the exemptions is removed.

## Runs

| Run | Question | Result |
|---|---|---|
| `ctx_lease` | Do interleaved lease calls keep `LeaseAuthority`'s promise, stay within the approval, and does every grant end? | holds |
| `dispatch` | Is the whole life of a dispatch safe, and is every accepted one settled, with crashes, lost access and competing lease calls? | holds |
| `dispatch_targets` | With Herdr and a failing database, do settled dispatches hold nothing, and does a partial admission over two Contexts that is turned down leave nothing but what its own failed statements left, within the approved window? | holds |
| `broker` | Is the broker a `CommandChannel`, and is everything executed once, with fences, deadlines, parked polls, revocation and a crash of the daemon? | holds |
| `mount` | Was everything a run is handed as an instruction reviewed exactly so, and do unconfirmed guests' words stay out? | holds |
| `drawing_save` | Do saves, restores, replacements and clean-ups keep the board whole, the guests' marks and the history? | holds |
| `drawing_trim_overwrites` | Does a trim overwrite nothing it has not read? | violated |
| `blob_store` | Are answered uploads readable, the quota kept, uploads ended and orphans collected? | holds |
| `rooms` | Do rosters, locks taken on the board and what is set up there end with the stays they belong to, are joins worked off, and are follow, locks, ballots what was asked last? | holds |
| `backups` | Are archives whole (PostgreSQL's but for one race), limits kept by a backup alone, is the last archive removed only when expired or beside one over the budget, and does every failure pass? | holds |
| `editor` | On elements that no named loss and no kept label has touched, do two editors agree in the end, is the shared baseline really shared, and does no update step back? | holds |
| `editor_stored_overwrite` | Does stored work stay stored? | violated |

Each property is also checked to fail on a changed model: `PROJECT.json` names for each
the definition and the slip in the code it stands for (the operators commented
"Mutant of").

### Bounds, and why they are enough

*Leases.* Two request slots: the guarded updates involve the row and one call at
a time, so a race is a pair of calls, the second of which may be several calls
in sequence. One run and two users of whom one is the board owner: a transfer to the
same run changes the generation as any other. Two generations and five clock values:
a Context can be acquired, handed over, expire and be granted again while an old call is
pending. Every approval ends before `MaxTime`, so the bounded clock never cuts a lease
short.

*Dispatches.* One dispatch and one other run. Two dispatches meet only through a
lease row, and to a dispatch another run's acquire, transfer, renew and release
look the same whoever makes them. `dispatch_targets` has two Contexts so that the second
acquisition can fail after the first. The clock allows each deadline to pass
before, at and after the others, and every receipt's deadlines lie within
`MaxTime`. Three generations: a grant to another run before, the dispatch's own,
and one after. One crash (`MaxCrashes`): it leaves the database and the agents only, and
a worker called by the restart scan can claim nothing that was claimed before.

*Broker.* Two commands of one assignment, of which any may start it, two request slots,
two epochs, one crash of the daemon. Two slots are what a fence, a dismissed poll or
overlapping session requests need. All deadlines are one unit, so each can pass before
or after each other through late timers, and a session may go stale at the last one
(`Stale` is less than `MaxTime`).

*Mount.* Three boards to start from (`Starts`), each with the saves and declarations that
matter to it: a frame within a Context whose members depend on it, a relation that points
out of its Context, and an old frame that is yet to be registered. One reviewer, two
registrations, confirmations or policy changes (`MaxBeside`), one mount, one call.

*Drawings.* Two elements, one of them a Context's frame, two documents, one image file,
one shape, two writers. The owner saves, trims and cleans up; the other one, who may be a
guest, saves, restores and replaces Markdown (`Roles`): every pair of operations that
share a row meets. Three versions and one snapshot kept, so that a snapshot is pruned
under a restore. One change aside (`MaxAside`): a role, the first registration, a page.

*Blobs.* One document, one picture as large as the whole quota, one owner, two uploads
and an asset that was there before, one link card. Time passes only while no upload is
under way: deadlines of the store are days, uploads minutes.

*Rooms.* Sixteen starting situations (`MCScenes`), each with a budget of what may be
tried (`left`). Together they contain every operation; each contains those that touch
one another. Two boards, three sockets of which one has the API key or a guest's link.
`QueueCap` is 2 where the code's is 8: what matters is that it is reached.

*Backups.* Three sites. Two processes meet on a SQLite site where two archives fit, by
number and by size, and an archive may turn out larger than the budget; originals come and
go while a backup is made, with either provider. The steps that two processes can disturb
in each other, those on the directory, are the same with both. One failing call or killed process, one collected original,
one operator's command; scheduled backups and days without end. Retention of one day: an
archive is fresh, kept, and expired. Five names are enough for the archives on disk and the
runs that are under way.

*Editor.* Two editors, two elements, at most two of four edits (`Drafts`: both on one
element, one twice, one aside, with the tie going either way) and one mishap (drop,
failed save, a held element) that befalls `Unlucky`. One of the edits is one the content
signature does not see (`Signatures`); to which edits that may happen is general in the
theorems. The violated run takes three edits and no mishap. Instances with three edits and none of the mishaps were explored to ten
million states without a violation of the other properties. What only three editors can
do to one another is beyond the run; the theorems of `EditorSyncProofs` cover any number.

Deadlock is not checked where what people do is bounded (all but leases and dispatch):
they may simply stop. `DispatchReceipt` has `Ended` for that, and in it nothing else may
be stuck before.

### Fairness

* `ContextLease`: only that time passes; callers may stop between any two statements.
* `DispatchReceipt`: that time passes, a crashed server is started again (the compose
  files restart it) and a due Node timer fires. Nothing of workers, runtimes or agents.
* `BlobStore`: that the awaited calls of an upload and of a collection return, that the
  jobs and intervals of the server fire, and that time passes. Nobody has to upload.
* `RoomEvents`: that awaited reads return (`Verify`, `JoinStep`, `Recheck` and the checks)
  and that the sweep's interval fires. Nothing of people.
* `Backups`: that days pass, the schedule's second comes again (`Tick`), a killed server is
  restarted, the statements of a running backup return, and the sweep removes the row of a
  file it has removed. Days are counted when no call is in the air, hence the strong fairness
  of `Day`. Nothing of operators.
* `EditorSync`: that whatever an editor has under way goes on (frames, timers, packets,
  answers), as one weak fairness per editor; its work always runs out. Nothing of people.

## What the violated runs show

* **Trim overwrites** (`drawing_trim_overwrites`). `routes/storage.ts:124` writes the
  elements it read before its transaction and does not compare the version: a save in
  between is lost.
* **Stored work overwritten** (`editor_stored_overwrite`).
  `editor/useEditorPersistence.ts:252` raises the version for every later save, also for
  those whose snapshot was taken before the rebase: they are admitted and write the old
  state over what the other editor had stored.

Also seen while modelling, and checked by no run of its own:

* **Labels that are not cosmetic.** After a change of, say, the opacity arrives, the flush
  shows it under the element's old version (`frontend/src/utils/sync.ts:118-132`). The next
  edit made there takes the version the sender's copy already has, ties with it and may
  lose: the others drop it, or the editor's own rebase does, and at rest one screen differs
  from the other and from the stored drawing, although lines 110-113 say "never to lost
  content". On the constants of `editor` without mishaps TLC needs fourteen states for
  two screens that are at rest and look different with nothing in `stray`.
* **A lock without its holder.** The connection can leave while
  `server/socketDocumentEditLocks.ts:98` awaits; line 125 then takes the lock for a
  socket that will never give it back, although `server/documentEditLocks.ts:35-36` says a
  disconnect means nobody is still editing. `LocksConnected` leaves such tokens out; without
  that TLC needs five states.
* **Leases of a rejected admission.** The read back after a granted lease
  (`agent/contextLease.ts:261`) can fail before the route has put the lease on its list, and a
  release of the clean-up can fail without anybody noticing
  (`dashboard/drawingOrchestratorThreadRoutes.ts:380-391`). The Context then stays blocked
  until the approved window ends, although the comment above `logLeaseEvent`
  (`agent/contextLease.ts:120-128`) is at pains that a grant that was committed never looks
  failed to its caller.
* **A dump that knows more than its archive.** With PostgreSQL the originals are listed after
  the dump. An original that is claimed or removed in between is READY in the dump, possibly
  with a preview that shows it, and missing from the archive; the comment at
  `backend/src/backups/scheduler.ts:272-276` says this cannot be.
* **Dumps that stay.** The size of a PostgreSQL dump is checked when it has been written
  (`scheduler.ts:390-408`), outside the `try` that would remove it; no pattern of
  `pruneOldBackups` matches `.dump.part` (line 159). `docs/DEPLOYMENT.md:322` says that a
  backup which cannot fit is refused before its working copy is written.
* **An archive over the budget** is visible from the rename to the check of its size
  (`scheduler.ts:486-490`). A second process that enforces its limits in between removes
  every archive, its own included; with the size check's removal nothing is left.
* **Lost timer.** `dashboard/drawingOrchestratorThreadRoutes.ts:149` forgets the timer
  before the transaction and only logs its failure; the receipt then stays unresolved
  until the next restart. `Settles` is claimed without database faults only.
* **Herdr: started but "failed".** `runtime/herdrTransport.ts:82` reports its own
  deadline as `RUNTIME_NOT_CONNECTED`, which the worker takes as proof that nothing
  started; the failure recorded then sets an effect already committed to failed
  (`agent/dispatchReceipt.ts:449`). `OutcomesTruthful` is claimed with "daemon" only.
* **Cold start outlives its session.** Serving a parked poll does not refresh the
  session's activity clock (`runtime/runtimeDaemonBroker.ts:269`), so a command delivered
  20 s into a long poll can be answered into a stale session although the start stayed
  within the budget named at line 20.
* **The older copy wins on the third screen.** Two people change one element at once. Each
  of their packets reaches the third one before its next frame, and `element-update` keeps
  the copy that came last, whichever is newer (`useEditorCollaboration.ts:676`): when
  that is the loser, the third screen stays on it, although `utils/sync.ts:190-196` has every
  machine compute the same answer. It takes three editors. Found when
  `SharedIsShown` could not be proved; TLC then needs five steps with three editors. The
  loss is named `Overtaken`.
* **An old fan-out ends a new follow.** While a viewport is passed on, the check of the
  next follower's access is awaited; follower and target switch to another board and the
  follower follows anew; then `server/socketFollow.ts:308, 318` finds the drawing changed
  and clears the newer relationship. Found when `FollowKept` could not be proved; TLC shows
  it on the scene in which both switch boards. `FollowKept` leaves such a fan-out out.
* **A row with another file than it was found with.** An upload finds a row and then looks for
  the file the row had (`assets/assetService.ts:111-121`), while a second one adopts the same
  row with its own copy because a collection had claimed it; the upload that had looked relies
  on the old file and returns the row. When the collection's claim is followed by another one
  of the new file, as after one preview more is discarded, nothing is left to read, although
  the comment at `linkPreviews/cache.ts:17-20` says that the claim closes this gap. Found when
  `ReferencedKept` could not be proved; TLC then needs three uploads. Such an upload is
  `misled` from the start.
* **A link that a save has just claimed.** The hourly sweep deletes the pending links it has
  read by their keys (`assets/assetService.ts:487`), also when a save has made one ACTIVE
  since. The document is then in the scene and not on the board's list, although the comment
  at line 403 says that the two "can never disagree"; every later save that names it is refused, and
  a snapshot made then cannot be restored. Found when the sweep, so far in `BlobStore` only,
  was added to `DrawingSave`: without the exemption `swept` TLC needs five steps for the
  list and seven for the snapshot. In `BlobStore` the bytes stay for the grace period.
* **An asset's replacement** raises the version an editor saves under without merging the
  snapshots it has queued (`useEditorCollaboration.ts:649-655`).
* **A presenter's revision** starts again at 1 after a stop, below what the room has seen
  (`server/presenterRegistry.ts:90`).
* **What an instruction says** is hashed from `originalText`, but a tool's projection
  delivers `text` (`agent/instructionClosure.ts:90`, `agent/boardMount.ts:380`).

## Proofs

The theorems hold for every value of the constants that the component's named
assumption allows; the runs show the same properties on the instances above. The
assumptions say what kind of thing a constant is (`BoundsAssumption`,
`DispatchAssumption`, `BrokerAssumption`, `BoardAssumption`, `MountAssumption`,
`PlanAssumption`, `RoomsAssumption`, `EventsAssumption`, `BackupsAssumption`,
`StoreAssumption`) and, where one is needed, that a
set is not empty or that a value such as `None` is not one of the others. `RunMount`
assumes a finite board, `SocketRooms` finitely many sockets, `BlobStore` finitely many
uploads, each of them made once: without that the sum of an owner's bytes means nothing. `ScenesAssumption` says of
the situations the rooms may start from that whoever is on a board has access to it.

| Theorem | Property | Under |
|---|---|---|
| `ContextLeaseProofs!TypeCorrect` | `TypeOK` | |
| `HorizonSafe` | `WithinHorizon` | |
| `OvertakenHarmless` | `OvertakenCallsHarmless` | |
| `PromiseKept` | `KeepsPromise`: `ContextLease` implements `LeaseAuthority` | |
| `DispatchReceiptProofs!TypeCorrect` | `TypeOK` | |
| `OneStart` | `AtMostOneStart` | |
| `OutcomesTrue` | `OutcomesTruthful` | `Adapter = "daemon"` |
| `DecisionsFinal` | `DecidedIsFinal` | `Adapter = "daemon"` |
| `CommitsInTime` | `CommittedInTime` | |
| `LeavesNothing` | `LeasesGivenBack` | |
| `ReleasesOwn` | `ReleasesOwnOnly` | |
| `ReceiptsSound` | `ReceiptSound` | `DbFaults = FALSE`, `StartDeadline <= LivenessWindow` |
| `RuntimeDaemonBrokerProofs!SessionsSound` | `SessionSound` | |
| `OnceOnly` | `AtMostOnce` | |
| `ChannelKept` | `KeepsChannel`: the broker implements `CommandChannel` | |
| `StorageProofs!WholeBoard` | `BoardWhole` | |
| `MarksKept` | `MarksStay` | |
| `OnlyAdmitted` | `WritesAdmitted` | |
| `HistoryKept` | `HistoryTruthful` | |
| `FilesStay` | `FilesKept` | |
| `RowsSound` | `StoreSound` | |
| `UploadsRead` | `UploadsReadable` | |
| `RunMountProofs!MountsSound` | `MountSound` | |
| `MarkedReviewed` | `MarkedWasReviewed` | |
| `GuestsOut` | `GuestWordsStayOut` | |
| `EditorSyncProofs!SharedIsShown` | `EditorSound` | |
| `BoardsSettle` | `BoardsAgree` | |
| `NoStepBack` | `UpdatesNeverStepBack` | |
| `RoomEventsProofs!StayEnds` | `NothingOutlivesStay` | |
| `BallotsSound` | `BallotsCounted` | |
| `StaysProved` | `StaysLawful` | |
| `FollowProved` | `FollowStands` | |
| `LocksProved` | `LocksHold` | |
| `BackupsProofs!DirectoriesSound` | `DirectorySound` | |
| `NewestStays` | `NewestSurvives` | |

The hypotheses. With Herdr the two theorems are false: a late `agent.start` passes for
a refusal (`HerdrTimesOut`, above). `DbFaults = FALSE` excludes the lost timer, above.
The start deadline is 30 000 ms and the liveness window 60 000 ms
(`agent/dispatchReceipt.ts:5-6`); were it the other way round, the timer set at
acceptance would not be for the first deadline.

### How the arguments go

*Leases.* `WithinHorizon` is not inductive by itself. A renewal writes the earlier of a
new expiry and the approval end it *read*, so the proof needs that this value is
still the row's own when the guarded write succeeds (`ReadHorizonCurrent`), which in
turn holds because a row keeps its approval end as long as it keeps its generation, and
a generation that some call may yet write is nobody else's (`FreshGenerations`).
`LeaseInv` is the conjunction of these. `PromiseInv` adds `CallsOrderly`: what a call
under way has read and minted. With it every step is mapped to the step of
`LeaseAuthority` it is: a write to the row, or the passing of a row's end, to
the authority's; a read, or a failed update, to nothing.

*Dispatches.* Four invariants on top of `TypeOK`. `ClaimInv` follows one dispatch from its
request to its command: there is one claim, so one worker that may start, and nothing
has been started for what was not claimed. `HonestInv` adds what each late party (worker,
agent, channel, timer) still knows to be true when it speaks, with "daemon" only.
`HeldInv` relates the receipt's generations to the rows: a bound row is the
dispatch's own until it is released, no row outlives the approved window it was taken
for, and a live lease of a rejected admission is on the clean-up's list or among those whose
own statement failed (`Swept`). `TimerInv` says that a running server has
a timer no later than any deadline a receipt still has, which needs that the clocks that
requests and workers have read are not ahead of time.

*Broker.* `BrokerInv` says that the four tables are one table: a command is queued exactly
when it is pending and not delivered, bound exactly when its session is the current one,
a parked poll finds the queue empty (`Tables`, `WaiterIsParked`); whatever a request
carries was handed over, under an epoch that the device's row has given out (`Known`,
`Newest`); and whatever has been executed is in the journal before (`Journaled`). The
refinement maps `handed` and `outcome` to the channel's state. An expiring command is cut
out of the queue at its first position (`Spliced`); that there is a first one is the
least-number principle, from the library's `WFMin`.

*Drawings.* `BoardInv` adds to `BoardWhole`'s parts what a writer that has read still knows
when it writes (`Reads`): if the version is the one it read, so is the scene; a save's
files include the row's. Of the sweep it need know nothing but what it took (`swept`). The rest is case by case over who may write what.

*Blobs.* Two invariants. `StoreInv` says what each party still knows between its statements. An
upload's id is nowhere but on its own file until the upload has used it (`FreshId`), so no two
rows share a file (`KeysUnique`) and no collector removes a file that a row adopted after the
collector had read the key (`KeyRead`). Between a collector's count and its unlink, a row
that is referred to is known to be missed or somebody still relies on it (`CountedByGc`,
`CountedBySweep`). `Overtaken` is about the loser of the race to create a row: the winner's row is
too young for any collection until the loser is done, because no time passes meanwhile.
`AllowanceInv` is the quota. It is not inductive without the queue: while an upload of
an owner is at work (`AtWork`) nothing else adds to what that owner is charged, so what it read
is at least what is charged, and what it stores fits into the rest (`Allowed`). Uploads of the
same bytes, and rows that go, only lower the sum. That the sum over a finite set exists and
grows by one row's bytes is proved from the library's definition of `MapThenSumSet`, which
chooses a function: a smallest set without such a function would have a smaller one
(`WFMin`, since the induction rules cannot be used). TLC checked both invariants with two uploads
and, under symmetry, with three.

*Mounts.* The worklist of the compiler is a recursive function, applied as often as there are
elements. `MeaningReached` proves for every board that this is enough and that the result
is the least closed set. The library's induction rules take a predicate, which no prover
here can instantiate; the least-number principle (`LeastNat`, from `WFMin`) and the
finiteness of the board do instead: a set that grows within a finite one must stop.
`RunInv` follows what a person was shown to the approval, the approval to the mount, and
the mount to the tool's answer.

*Editors.* The copies of one element are totally ordered, and everything that waits
somewhere waits in the order it was made in. `LineInv` is this order, with the
bookkeeping it needs: only the last packet at the server can still be answered (`Answerable`);
nobody holds a version ahead of the row's, and what would be saved under the row's
version is not older than the row (`Versions`, `Current`). `SpreadInv` says that a
copy an editor has waiting, takes to be shared or need not report any more is shown, on its
way or overtaken at every other editor; `KeptInv` that the stored drawing has it or
will have it, and is never ahead of all screens. When the board is at rest nothing is
on its way, so all screens and the row are at least as new as each other. All of it is about
`Spared` elements: a flush that keeps a label takes its element out of the claim in the same
step, and of the others it shows what was merged (`ShownMerge`). All three were
checked by TLC on the instance of `editor` before they were proved.

*Rooms.* `Inv` has one part per registry. `RoomsInv` is what joins and rechecks still know
after their awaits: whoever is on a board was let on (`LetOn`), a job's findings are true or
its board was hit by a change since (`JobGood`), a recheck says no only of a board that
was hit (`Checked`). `Seated` says of every step that a socket stays, comes by the head of
its queue, or goes; with it the registries need not know how. Every other part is then kept
by three kinds of step: a stay that ends (`Cleared`), a step of the registry's own, and
one that leaves it alone (the frame lemmas). An edge is added only if the follower is not
in every set that contains the target and is closed under following
(`WouldCreateCycle`, the code's walk stated without recursion), so no cycle closes; and every
running timer has a timeout for its deadline (`TimerCovered`). TLC checked `Inv` on the instance of `rooms`
before the proof.

*Backups.* What a process holds across its unlinks is a list of names it took from the
directory earlier. `BackupsInv` says what such a list can still be relied on for. The newest
archive that is not shaded is on nobody's list (`NewestSpared`): room is made without the
last archive, the limits keep the last one unless it is over the budget by itself, and an
archive that comes later has a name nobody has listed (`NamesOwn`). So an unlink takes either
a shaded archive or one that is not the last. For the limits, a backup that is alone keeps
knowing that its own archive is last and fits, and that what it has listed are the first
archives, without which the rest fits (`OwnLast`, `Cutting`); each unlink shortens both by
one. That an archive over the budget shades all beside it and shades reach down in age is `Shades`.
Which archives go is the least number of them for which the rest fits (`ExcessIs`), again the
least-number principle. Archives are whole because the keys are listed from the copy, or
after it (`RowsReady`). TLC checked every part on the instance of `backups` first.

### What is only model-checked

Everything under fairness (`GrantEnds`, `Settles`, `StoreSettles`, `RoomsSettle`,
`Recovers`), which is out of the prover's reach: it knows neither ENABLED nor
fairness. And the two violated properties, of course. Every invariant and every action
property of the passing runs is stated by a theorem.

## Not modelled, and why

* The Codex app-server executor and the gateway's registry: pass-through of JSON-RPC and
  of a table; what a late or lost answer means is the channel's.
* Context and orchestrator threads: an append-only log; the functions that would order
  it against runs have no caller outside the tests yet.
* Agent operations: a guarded save like any other; how an operation edits a scene is
  computation over documents.
* Task queue and coalescer: promise plumbing. Every caller passes one constant limit per
  queue (`assets/pageCache.ts:203`, `linkPreviews/service.ts:273`), so no job can wait
  behind a smaller limit.
* Image files, element order, live drag frames, previews and the save at page close of
  the editor; rendered pages and PDF shrinking; fetching of link previews.
* Of backups: cron parsing, the clean-up of old sessions and audit rows, disk arithmetic, and
  the readiness probe, which reports what it finds in the directory.
* Login, sessions and passwords, comments, activity and inbox: one row per request.
* Hazards no property covers are listed with a note in `PROJECT.json`.

## Plan

Done: leases, dispatch, broker, drawings, blobs, backups, rooms and what happens in them,
editor, mounts and approvals; proofs of every invariant and action property of the
passing runs, with both refinements. No module declares a RECURSIVE operator.

If the model grows: the image-file lane of the editor beside `EditorSync`, and
threads once runs use them.
