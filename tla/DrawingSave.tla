----------------------------- MODULE DrawingSave -----------------------------
(***************************************************************************)
(* One board and everything that rewrites it: the scene save               *)
(* (drawingCreateUpdateRoutes.ts), the agent operations                    *)
(* (drawingAgentRoutes.ts), the restore of a snapshot                      *)
(* (drawingHistoryRoutes.ts), the replacement of a Markdown document       *)
(* (assetRoutes.ts), the owner's trim and orphan clean-up (storage.ts) and *)
(* the second half of a create.  With the row go its snapshots, the links  *)
(* to its documents, which the hourly job sweeps (assetService.ts), the     *)
(* page rows of its widgets and the guest provenance of its elements.      *)
(*                                                                         *)
(* A route reads first and writes in a transaction later; what it has read *)
(* travels in its request.  A transaction is one step: the database has a  *)
(* single writer.  The frame of a Context is a shape, every other element   *)
(* shows a document, and both may be absent.                               *)
(***************************************************************************)
EXTENDS Naturals, Sequences

CONSTANTS Ids,         \* element ids
          Frame,       \* the frame a Context may be registered for
          InFrame,     \* ids inside that frame, the frame among them
          Assets,      \* documents
          Shapes,      \* what a frame can look like
          Files,       \* embedded files
          Writers,     \* people with a connection to the board
          Owner,
          Makes,       \* [Writers -> kinds of request each of them makes], a bound
          None,
          MaxSnaps,    \* config.snapshotMaxCountPerDrawing
          MaxVersion,  \* bound on the version
          MaxAside     \* bound on what happens beside the writers

ASSUME BoardAssumption ==
    /\ Frame \in InFrame /\ InFrame \subseteq Ids
    /\ Owner \in Writers
    /\ None \notin Assets \cup Shapes /\ Assets \cap Shapes = {}
    /\ MaxSnaps \in Nat \ {0} /\ MaxVersion \in Nat /\ MaxAside \in Nat

VARIABLES
    row,         \* Drawing row: [version, elements, files]
    snaps,       \* DrawingSnapshot rows with their documents, oldest first
    links,       \* [Assets -> state of the DrawingAsset row]
    pages,       \* [Ids -> asset of the documentPageView row]
    prov,        \* [Ids -> guest provenance of the element]
    registered,  \* is there an AgentContext for Frame?
    creating,    \* the processed files that the create route has yet to write, if any
    role,        \* [Writers -> standing on the board]
    req,         \* [Writers -> the request being served]
    overwritten, \* history variable: a clean-up replaced a version it had not read
    late,        \* history variable: those files were written over somebody's read
    aside,       \* counts what has happened beside the writers
    touched,     \* history variable: ids a guest changed since they were confirmed
    policy,      \* agentContextContribute: guests may write inside a Context's frame
    stale,       \* pending links that the hourly job has read and will delete
    swept        \* history variable: documents whose link went although it was claimed

vars == <<row, snaps, links, pages, prov, registered, creating, role, req,
          overwritten, late, aside, touched, policy, stale, swept>>

apart == <<policy, stale, swept>>

Contents(e) == {None} \cup (IF e = Frame THEN Shapes ELSE Assets)
Scenes   == {s \in [Ids -> Assets \cup Shapes \cup {None}] :
                 \A e \in Ids : s[e] \in Contents(e)}
Row      == [version : Nat, elements : Scenes, files : SUBSET Files]
Snapshot == [version : Nat, elements : Scenes, files : SUBSET Files, assets : SUBSET Assets]
Kinds    == {"save", "restore", "markdown", "trim", "orphans"}
Request  == [kind : Kinds \cup {"none"}, base : Row, elements : Scenes,
             files : SUBSET Files, guest : BOOLEAN, snap : Nat,
             old : Assets \cup {None}, new : Assets \cup {None}]

Blank == [e \in Ids |-> None]

NoRequest == [kind |-> "none", base |-> [version |-> 0, elements |-> Blank, files |-> {}],
              elements |-> Blank, files |-> {}, guest |-> FALSE, snap |-> 0,
              old |-> None, new |-> None]

\* The documents a scene names, and the page rows of its document widgets.
Named(scene)   == {scene[e] : e \in Ids} \cap Assets
PagesOf(scene) == [e \in Ids |-> IF scene[e] \in Assets THEN scene[e] ELSE None]

\* Either the create route has inserted an empty board, whose files are still to
\* be processed, or the board is an older one, with or without a Context.
Init ==
    /\ \E f \in SUBSET Files, scene \in Scenes :
          /\ row = [version |-> 1, elements |-> scene, files |-> f]
          /\ creating \in {{}} \cup (IF scene = Blank THEN {{f}} ELSE {})
          /\ links = [a \in Assets |-> IF a \in Named(scene) THEN "ACTIVE" ELSE "none"]
          /\ pages = PagesOf(scene)
          /\ registered \in {FALSE, scene[Frame] \in Shapes}
          /\ prov = [e \in Ids |-> IF registered /\ e \in InFrame /\ scene[e] # None
                                  THEN "touched" ELSE "unknown"]
    /\ snaps = <<>>
    /\ role \in {r \in [Writers -> {"none", "guest", "member"}] : r[Owner] = "member"}
    /\ req = [w \in Writers |-> NoRequest]
    /\ overwritten = FALSE /\ late = FALSE /\ aside = 0 /\ touched = {}
    /\ policy \in BOOLEAN /\ stale = {} /\ swept = {}

-----------------------------------------------------------------------------
(* What the transactions are made of.                                      *)

Changed(old, new) == {e \in Ids : old[e] # new[e]}
Created(old, new) == {e \in Ids : old[e] = None /\ new[e] # None}

Idle(w)    == req[w].kind = "none"
Editor(w)  == role[w] # "none"
IsGuest(w) == role[w] = "guest"

\* assertDrawingStillEditable, inside the transaction.
StillEditable(w) == Editor(w)

\* Mutant of FramesOk: a scene is not looked at.
FramesUnchecked(scene) == TRUE

\* assertPersistedAgentContextFrames: a registered frame stays on the board.
FramesOk(scene) == registered => scene[Frame] \in Shapes

\* assertGuestElementWriteAllowed looks at the scene that results, unless the policy
\* lets guests contribute.
GuestMayWrite(guest, old, new) ==
    guest /\ registered /\ ~policy
        => \A e \in Changed(old, new) \cap InFrame : new[e] = None

\* pruneDrawingSnapshots keeps the newest.
Pruned(s) == IF Len(s) <= MaxSnaps THEN s ELSE SubSeq(s, Len(s) - MaxSnaps + 1, Len(s))

Active == {a \in Assets : links[a] = "ACTIVE"}

\* A snapshot of the board b with the documents that are active now
\* (captureSnapshotAssets).
SnapshotOf(b) == [version |-> b.version, elements |-> b.elements, files |-> b.files,
                  assets |-> Active]

\* syncDrawingAssets refuses a document the board does not have.
Known(lk, scene) == \A a \in Named(scene) : lk[a] # "none"

\* syncDrawingAssets: named documents become active, others are detached; an
\* upload that nobody claimed yet stays pending.
Synced(lk, scene) ==
    [a \in Assets |-> IF a \in Named(scene) THEN "ACTIVE"
                      ELSE IF lk[a] = "ACTIVE" THEN "none" ELSE lk[a]]

\* The row gets its next version, and the documents follow.
Write(lk, scene, files) ==
    /\ row.version < MaxVersion
    /\ Known(lk, scene)
    /\ row' = [version |-> row.version + 1, elements |-> scene, files |-> files]
    /\ links' = Synced(lk, scene)
    /\ pages' = PagesOf(scene)

\* Mutant of Recorded: a member who changes an element vouches for it.
RecordedWashes(guest, changed, created) ==
    [e \in Ids |-> IF guest /\ e \in changed THEN "touched"
                   ELSE IF ~guest /\ e \in changed THEN "clean" ELSE prov[e]]

\* recordSuccessfulElementMutation: a guest marks, a member only creates.
Recorded(guest, changed, created) ==
    [e \in Ids |-> IF guest /\ e \in changed THEN "touched"
                   ELSE IF ~guest /\ e \in created /\ prov[e] = "unknown" THEN "clean"
                   ELSE prov[e]]

Mark(guest, changed, created) ==
    /\ prov' = Recorded(guest, changed, created)
    /\ touched' = IF guest THEN touched \cup changed ELSE touched

Begin(w, r) ==
    /\ Idle(w) /\ r.kind \in Makes[w] /\ row.version < MaxVersion
    /\ req' = [req EXCEPT ![w] = r]
    /\ UNCHANGED <<row, snaps, links, pages, prov, registered, creating, role,
                   overwritten, late, aside, touched, apart>>

Done(w) == req' = [req EXCEPT ![w] = NoRequest]

-----------------------------------------------------------------------------
(* Scene saves and agent operations.                                       *)

\* Mutant of Merged: the payload's files replace the row's.
MergedReplaces(old, new) == new

\* The files of a save.
Merged(old, new) == old \cup new

\* The scene that w has computed from the row by changing one element.
Prepared(w, e, c, files) ==
    [NoRequest EXCEPT !.kind = "save", !.base = row,
                      !.elements = [row.elements EXCEPT ![e] = c],
                      !.files = files, !.guest = IsGuest(w)]

\* PUT /drawings/:id reads the row, compares its version with the client's and
\* prepares the new scene; its files are the union of the row's and the payload's.
SaveBegin(w) ==
    /\ Editor(w)
    /\ \E e \in Ids, f \in SUBSET Files : \E c \in Contents(e) :
          Begin(w, Prepared(w, e, c, Merged(row.files, f)))

\* POST agent/ops does the same and leaves the files alone.
OpsBegin(w) ==
    /\ Editor(w)
    /\ \E e \in Ids : \E c \in Contents(e) : Begin(w, Prepared(w, e, c, row.files))

\* Mutant of Unmoved: the update is not guarded by the version.
UnmovedAny(r) == TRUE

\* updateMany where version: the row is still the one that was read.
Unmoved(r) == row.version = r.base.version

\* The checks a save repeats in its transaction.
MaySave(w) ==
    LET r == req[w]
    IN  /\ FramesOk(r.elements)
        /\ StillEditable(w)
        /\ GuestMayWrite(r.guest \/ IsGuest(w), r.base.elements, r.elements)

SaveCommit(w) ==
    LET r     == req[w]
        guest == r.guest \/ IsGuest(w)
    IN  /\ r.kind = "save"
        /\ MaySave(w) /\ Unmoved(r)
        /\ snaps' = Pruned(Append(snaps, SnapshotOf(r.base)))
        /\ Write(links, r.elements, r.files)
        /\ Mark(guest, Changed(r.base.elements, r.elements), Created(r.base.elements, r.elements))
        /\ Done(w)
        /\ UNCHANGED <<registered, creating, role, overwritten, late, aside, apart>>

\* The second half of POST /drawings writes the processed files without looking
\* at the version.
CreateFiles ==
    /\ creating # {} /\ creating' = {}
    /\ \E f \in creating : row' = [row EXCEPT !.files = f]
    /\ late' = (row.version # 1 \/ \E w \in Writers : ~Idle(w))
    /\ UNCHANGED <<snaps, links, pages, prov, registered, role, req, overwritten,
                   aside, touched, apart>>

-----------------------------------------------------------------------------
(* Restores.                                                               *)

\* POST history/:snapshotId/restore keeps the snapshot it has read.
RestoreBegin(w) ==
    /\ Editor(w)
    /\ \E i \in DOMAIN snaps :
          Begin(w, [NoRequest EXCEPT !.kind = "restore", !.guest = IsGuest(w),
                                     !.elements = snaps[i].elements, !.files = snaps[i].files,
                                     !.snap = snaps[i].version])

\* The documents recorded for the snapshot, if it has not been pruned since.
Archived(v) == UNION {snaps[i].assets : i \in {j \in DOMAIN snaps : snaps[j].version = v}}

\* Mutant of Backup: the documents are captured after they were reattached.
BackupLate(lk) == [SnapshotOf(row) EXCEPT !.assets = {a \in Assets : lk[a] = "ACTIVE"}]

\* The state being replaced, with its documents.
Backup(lk) == SnapshotOf(row)

RestoreCommit(w) ==
    LET r     == req[w]
        guest == r.guest \/ IsGuest(w)
        lk    == [a \in Assets |-> IF a \in Named(r.elements) THEN "ACTIVE" ELSE links[a]]
    IN  /\ r.kind = "restore"
        /\ FramesOk(r.elements) /\ StillEditable(w)
        /\ GuestMayWrite(guest, row.elements, r.elements)
        /\ Named(r.elements) \subseteq Archived(r.snap)
        /\ snaps' = Pruned(Append(snaps, Backup(Synced(lk, r.elements))))
        /\ Write(lk, r.elements, r.files)
        /\ Mark(guest, Changed(row.elements, r.elements), {})
        /\ Done(w)
        /\ UNCHANGED <<registered, creating, role, overwritten, late, aside, apart>>

-----------------------------------------------------------------------------
(* Documents.                                                              *)

\* The id of a new upload is one that nothing mentions.
Fresh(a) ==
    /\ links[a] = "none" /\ a \notin Named(row.elements) \cup stale \cup swept
    /\ \A i \in DOMAIN snaps : a \notin snaps[i].assets
    /\ \A w \in Writers : a # req[w].new /\ a \notin Named(req[w].elements)

\* POST assets: an upload is pending on this board until a save names it.
Upload(w) ==
    /\ Editor(w)
    /\ \E a \in Assets :
          /\ Fresh(a)
          /\ links' = [links EXCEPT ![a] = "PENDING"]
    /\ UNCHANGED <<row, snaps, pages, prov, registered, creating, role, req,
                   overwritten, late, aside, touched, apart>>

\* PUT assets/:assetId/content: the caller may edit and holds the edit lock of
\* a document that is on the board; its bytes become a new, pending document.
MarkdownBegin(w) ==
    /\ Editor(w)
    /\ \E a \in Active, n \in Assets :
          /\ a \in Named(row.elements) /\ Fresh(n)
          /\ Idle(w) /\ "markdown" \in Makes[w] /\ row.version < MaxVersion
          /\ req' = [req EXCEPT ![w] = [NoRequest EXCEPT !.kind = "markdown",
                                                         !.old = a, !.new = n]]
          /\ links' = [links EXCEPT ![n] = "PENDING"]
    /\ UNCHANGED <<row, snaps, pages, prov, registered, creating, role, overwritten,
                   late, aside, touched, apart>>

\* Every widget that shows the old document shows the new one; a board that no
\* longer shows it is refused.  Neither access nor provenance is looked at again.
MarkdownCommit(w) ==
    LET r     == req[w]
        scene == [e \in Ids |-> IF row.elements[e] = r.old THEN r.new ELSE row.elements[e]]
    IN  /\ r.kind = "markdown" /\ r.old \in Named(row.elements)
        /\ snaps' = Pruned(Append(snaps, SnapshotOf(row)))
        /\ Write(links, scene, row.files)
        /\ Done(w)
        /\ UNCHANGED <<prov, registered, creating, role, overwritten, late, aside, touched, apart>>

-----------------------------------------------------------------------------
(* The owner's clean-ups.                                                  *)

Plan(w, kind, files) ==
    /\ w = Owner
    /\ Begin(w, [NoRequest EXCEPT !.kind = kind, !.base = row,
                                  !.elements = row.elements, !.files = files])

\* POST trim plans on a row that it reads before its transaction: it keeps the
\* files that live elements use.
TrimBegin(w) == \E f \in SUBSET row.files : Plan(w, "trim", f)

\* DELETE files/orphans does so too, for files its caller has chosen.
OrphansBegin(w) == \E f \in (SUBSET row.files) \ {{}} : Plan(w, "orphans", row.files \ f)

\* Mutant of CleanVersion: the clean-up leaves the version alone.
CleanVersionKept == row.version

\* Both bump the version.
CleanVersion == row.version + 1

\* They write what they planned, by id and without a snapshot.
CleanWrite(w) ==
    LET r == req[w]
    IN  /\ Known(links, r.elements)
        /\ row' = [version |-> CleanVersion, elements |-> r.elements, files |-> r.files]
        /\ links' = Synced(links, r.elements)
        /\ pages' = PagesOf(r.elements)
        /\ overwritten' = (overwritten \/ r.base.version # row.version)
        /\ Done(w)
        /\ UNCHANGED <<snaps, prov, registered, creating, role, late, aside, touched, apart>>

\* Only the trim checks the Context frames.
TrimCommit(w)    == req[w].kind = "trim" /\ FramesOk(req[w].elements) /\ CleanWrite(w)
OrphansCommit(w) == req[w].kind = "orphans" /\ CleanWrite(w)


-----------------------------------------------------------------------------
(* Beside the writers.                                                     *)

\* A request is refused by one of the checks of its transaction, or the
\* transaction fails: nothing of it is kept.
GiveUp(w) ==
    /\ ~Idle(w) /\ Done(w)
    /\ UNCHANGED <<row, snaps, links, pages, prov, registered, creating, role,
                   overwritten, late, aside, touched, apart>>

\* Sharing changes under the requests.
ChangeRole(w) ==
    /\ w # Owner
    /\ \E r \in {"none", "guest", "member"} \ {role[w]} : role' = [role EXCEPT ![w] = r]
    /\ UNCHANGED <<row, snaps, links, pages, prov, registered, creating, req,
                   overwritten, late, touched, apart>>

\* The owner of the board lets guests contribute to Contexts, or no longer.
SetPolicy ==
    /\ policy' = ~policy
    /\ UNCHANGED <<row, snaps, links, pages, prov, registered, creating, role, req,
                   overwritten, late, touched, stale, swept>>

\* registerAgentContext: what nobody vouches for counts as touched by a guest.
RegisterContext ==
    /\ ~registered /\ row.elements[Frame] \in Shapes
    /\ registered' = TRUE
    /\ prov' = [e \in Ids |-> IF /\ e \in InFrame /\ row.elements[e] # None
                                 /\ prov[e] = "unknown"
                              THEN "touched" ELSE prov[e]]
    /\ UNCHANGED <<row, snaps, links, pages, creating, role, req, overwritten, late,
                   touched, apart>>

\* confirm-clean: a member vouches for elements in a registered frame.
ConfirmClean(w) ==
    /\ role[w] = "member" /\ registered
    /\ \E e \in InFrame :
          /\ row.elements[e] # None /\ row.elements[Frame] # None
          /\ prov' = [prov EXCEPT ![e] = "clean"]
          /\ touched' = touched \ {e}
    /\ UNCHANGED <<row, snaps, links, pages, registered, creating, role, req,
                   overwritten, late, apart>>

\* A guest's live element update is recorded when it arrives, whoever saves it
\* later.  Without the policy the frame itself is refused; an element inside it may
\* slip through, for the event does not carry the frames around it.
GuestDraws(w) ==
    /\ IsGuest(w)
    /\ \E e \in Ids :
          /\ registered /\ ~policy => e # Frame
          /\ Mark(TRUE, {e}, {})
    /\ UNCHANGED <<row, snaps, links, pages, registered, creating, role, req,
                   overwritten, late, apart>>

\* The hourly job deletes the snapshots that are older than two days.
ExpireSnapshots ==
    /\ \E n \in 1 .. Len(snaps) : snaps' = SubSeq(snaps, n + 1, Len(snaps))
    /\ UNCHANGED <<row, links, pages, prov, registered, creating, role, req,
                   overwritten, late, touched, apart>>

\* The hourly job reads the pending links that are past their day, which the one of
\* a replacement under way is not ...
SweepReads ==
    /\ stale = {}
    /\ \E s \in (SUBSET {a \in Assets : links[a] = "PENDING"}) \ {{}} :
          /\ \A w \in Writers : req[w].new \notin s
          /\ stale' = s
    /\ UNCHANGED <<row, snaps, links, pages, prov, registered, creating, role, req,
                   overwritten, late, touched, policy, swept>>

\* ... and deletes them one by one, by key: also one that a save has claimed
\* meanwhile.  One that a save has detached ends the job.
SweepDeletes ==
    /\ \E a \in stale :
          \/ /\ links[a] # "none"
             /\ links' = [links EXCEPT ![a] = "none"]
             /\ swept' = IF links[a] = "ACTIVE" THEN swept \cup {a} ELSE swept
             /\ stale' = stale \ {a}
          \/ links[a] = "none" /\ stale' = {} /\ UNCHANGED <<links, swept>>
    /\ UNCHANGED <<row, snaps, pages, prov, registered, creating, role, req,
                   overwritten, late, aside, touched, policy>>

Saving(w)     == SaveBegin(w) \/ OpsBegin(w) \/ SaveCommit(w)
Restoring(w)  == RestoreBegin(w) \/ RestoreCommit(w)
Documents(w)  == Upload(w) \/ MarkdownBegin(w) \/ MarkdownCommit(w)
Cleaning(w)   == TrimBegin(w) \/ OrphansBegin(w) \/ TrimCommit(w) \/ OrphansCommit(w)

Beside ==
    /\ aside < MaxAside /\ aside' = aside + 1
    /\ \/ \E w \in Writers : ChangeRole(w) \/ ConfirmClean(w) \/ GuestDraws(w)
       \/ SetPolicy \/ RegisterContext \/ ExpireSnapshots \/ SweepReads

Next ==
    \/ \E w \in Writers : Saving(w) \/ Restoring(w) \/ Documents(w) \/ Cleaning(w)
                          \/ GiveUp(w)
    \/ CreateFiles
    \/ Beside
    \/ SweepDeletes

Spec == Init /\ [][Next]_vars

-----------------------------------------------------------------------------
(* Properties                                                              *)

TypeOK ==
    /\ row \in Row
    /\ snaps \in Seq(Snapshot) /\ Len(snaps) <= MaxSnaps
    /\ links \in [Assets -> {"none", "PENDING", "ACTIVE"}]
    /\ pages \in [Ids -> Assets \cup {None}]
    /\ prov \in [Ids -> {"unknown", "clean", "touched"}]
    /\ registered \in BOOLEAN /\ creating \in SUBSET SUBSET Files
    /\ role \in [Writers -> {"none", "guest", "member"}]
    /\ req \in [Writers -> Request]
    /\ overwritten \in BOOLEAN /\ late \in BOOLEAN /\ aside \in Nat /\ touched \subseteq Ids
    /\ policy \in BOOLEAN /\ stale \subseteq Assets /\ swept \subseteq Assets

\* The step in which w's request of one of these kinds writes the board.
Writes(w, kinds) ==
    row'.version > row.version /\ req[w].kind \in kinds /\ req'[w].kind = "none"

\* A save was computed from the very scene it replaces, whoever wrote in
\* between: the version conflicts leave no editor's work overwritten
\* (drawingCreateUpdateRoutes.ts:364-370).
NoLostUpdate ==
    [][\A w \in Writers : Writes(w, {"save"}) => req[w].base.elements = row.elements]_vars

\* The same of the owner's clean-ups: they bump the version so that concurrent
\* editors reload "instead of having their newer version silently overwritten"
\* (storage.ts:119-120).
NothingOverwritten == ~overwritten

\* Every replaced scene is in the history as it was, although saves write it
\* from a row that was read before the transaction
\* (drawingCreateUpdateRoutes.ts:350-359); only clean-ups keep none.
HistoryTruthful ==
    [][\A w \in Writers : Writes(w, {"save", "restore", "markdown"}) =>
           /\ snaps' # <<>>
           /\ snaps'[Len(snaps')].version = row.version
           /\ snaps'[Len(snaps')].elements = row.elements]_vars

\* A restore finds every document its snapshot names: they were recorded when
\* the snapshot was made (captureSnapshotAssets, assetService.ts:453-458), but for
\* those that the hourly job took from the board.
SnapshotsRestorable ==
    \A i \in DOMAIN snaps : Named(snaps[i].elements) \subseteq snaps[i].assets \cup swept

\* A board and its document list never disagree (assetService.ts:400-406), but for
\* documents whose claimed link the hourly job deleted, and each document widget
\* has the page row of its document.
DocumentsMatch ==
    /\ Active \subseteq Named(row.elements)
    /\ Named(row.elements) \subseteq Active \cup swept
    /\ pages = PagesOf(row.elements)

\* What passes for confirmed clean was not changed by a guest since: no save,
\* restore, replacement or clean-up of a member washes the mark
\* (elementGuestProvenance.ts:60-69).
MarksStay == \A e \in touched : prov[e] # "clean"

\* Nobody's save or restore is written after their access was revoked
\* (drawingTransactionAuthorization.ts:12-19).
RevokedWriteNothing ==
    [][\A w \in Writers : Writes(w, {"save", "restore"}) => Editor(w)]_vars

\* What was planned on an old row, or under a role since withdrawn, is not written
\* (drawingCreateUpdateRoutes.ts:286-370, drawingTransactionAuthorization.ts:12-19).
WritesAdmitted == NoLostUpdate /\ RevokedWriteNothing

\* The frame of a registered Context is on the board, whatever was planned
\* before the registration (boardContexts.ts:131-136); a clean-up of orphans
\* that overwrites a newer version can remove it.
FrameKept == registered /\ ~overwritten => row.elements[Frame] \in Shapes

\* A save never drops an embedded file that the board has, also when its
\* payload does not mention it (drawingCreateUpdateRoutes.ts:275-285).  The
\* second write of a create can come between a save's read and its transaction.
FilesKept ==
    [][\A w \in Writers : ~late /\ Writes(w, {"save", "markdown"})
                             => row.files \subseteq row'.files]_vars

\* Scene, documents, widget pages and history stay one whole in every order of
\* saves, restores, prunings and clean-ups: the board's documents are those it
\* names, those of each snapshot are still recorded, and the frame of a Context stays
\* (drawingHistoryRoutes.ts:187, assetService.ts:400-406, 453-458,
\* boardContexts.ts:131-136).
BoardWhole == TypeOK /\ DocumentsMatch /\ SnapshotsRestorable /\ FrameKept

=============================================================================
