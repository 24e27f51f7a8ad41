----------------------------- MODULE EditorSync -----------------------------
(***************************************************************************)
(* The open board in several browsers: what one person draws reaches the   *)
(* other screens through the socket and the stored drawing through         *)
(* debounced, versioned saves (pages/editor/useEditorBroadcast.ts,         *)
(* useEditorCollaboration.ts, useEditorPersistence.ts, utils/sync.ts).     *)
(*                                                                         *)
(* A copy of an element is its label: its version and a rank that stands   *)
(* for `updated` and versionNonce together; among equal versions the lower *)
(* rank wins.  A label comes from the edit that made the copy, except that *)
(* a flush shows a copy under the label shown before when both look alike  *)
(* (preserveUnchangedElements).  Every element exists when the board is    *)
(* opened; a deletion is an edit like any other.  Left out: element order, *)
(* image files, live frames that bump no version, refused packets, the     *)
(* blank-snapshot guards, previews, and the save sent while the page       *)
(* closes.                                                                 *)
(***************************************************************************)
EXTENDS FiniteSets, Integers, Sequences

CONSTANTS
    Editors,    \* the browser tabs that have the board open
    Ids,        \* the elements on it
    Unlucky,    \* the editors that meet mishaps
    Plan,       \* the edits people make, each once: who, which element, its rank
    Signature,  \* elementContentSignature of the copy with a rank; it covers position,
                \* size, text and colours, but not opacity, stroke width, groups, links
                \* or locks, so that an edit may leave it what it was
    MaxEdits,   \* how many of them they make
    Grips,      \* the sets of elements a person may be holding
    MaxMishaps, \* lost connections, late answers, failed saves and updates that
                \* meet a person holding the element
    None        \* no scene


VARIABLES
    scene,    \* latestElementsRef: what each editor shows
    synced,   \* elementVersionMap: what each editor takes to be shared
    echo,     \* the editors whose onChange for an applied scene is still to come
    out,      \* the throttle and the scene lane of useEditorBroadcast
    due,      \* the snapshot the save debounce holds
    saves,    \* saveQueueRef and the save at its head
    ver,      \* currentDrawingVersionRef
    joined,   \* roomJoinedRef
    atServer, \* packets the server has yet to handle, in order, per socket
    arrived,  \* pendingRemoteElementsRef, with the updates still on their way
    row,      \* the stored drawing
    made,     \* the edits made
    mishaps,  \* mishaps so far
    stray,    \* history: elements one of the losses named below has touched
    aged      \* history: elements a flush showed under the label they had before

vars == <<scene, synced, echo, out, due, saves, ver, joined, atServer, arrived,
          row, made, mishaps, stray, aged>>

Elem == [v : Nat, n : Nat]
Scene == [Ids -> Elem]
Row == [version : Nat, els : Scene]
IsUpdate(u) == DOMAIN u \subseteq Ids /\ \A i \in DOMAIN u : u[i] \in Elem

Ranks == {0} \union {p[3] : p \in Plan}

ASSUME PlanAssumption ==
    /\ Plan \subseteq Editors \X Ids \X (Nat \ {0})
    /\ \A p, q \in Plan : p[2] = q[2] /\ p[3] = q[3] => p = q
    /\ Signature \in [Ids -> [Ranks -> Ranks]]
    /\ MaxMishaps \in Nat
    /\ None \notin Scene \union Row

Nothing == [i \in {} |-> [v |-> 0, n |-> 0]]
Opened == [i \in Ids |-> [v |-> 1, n |-> 0]]
AtRest == [trail |-> None, pending |-> None, lane |-> "idle", packet |-> Nothing]
NoSave == [pc |-> "idle", els |-> None, base |-> 0, attempt |-> 0, got |-> None]

TypeOK ==
    /\ scene \in [Editors -> Scene] /\ synced \in [Editors -> Scene]
    /\ echo \subseteq Editors /\ joined \subseteq Editors
    /\ \A e \in Editors :
         /\ out[e].trail \in Scene \union {None}
         /\ out[e].pending \in Scene \union {None}
         /\ out[e].lane \in {"idle", "ready", "sent"}
         /\ IsUpdate(out[e].packet)
         /\ due[e] \in Scene \union {None}
         /\ \A k \in DOMAIN saves[e].queue : saves[e].queue[k] \in Scene
         /\ saves[e].job.pc \in {"idle", "put", "got"}
         /\ ver[e] \in Nat
         /\ IsUpdate(arrived[e])
    /\ row \in Row
    /\ made \subseteq Plan /\ mishaps \in 0..MaxMishaps
    /\ stray \subseteq Ids /\ aged \subseteq Ids

Init ==
    /\ scene = [e \in Editors |-> Opened]
    /\ synced = [e \in Editors |-> Opened]
    /\ echo = {}
    /\ out = [e \in Editors |-> AtRest]
    /\ due = [e \in Editors |-> None]
    /\ saves = [e \in Editors |-> [queue |-> <<>>, job |-> NoSave]]
    /\ ver = [e \in Editors |-> 1]
    /\ joined = Editors
    /\ atServer = [e \in Editors |-> <<>>]
    /\ arrived = [e \in Editors |-> Nothing]
    /\ row = [version |-> 1, els |-> Opened]
    /\ made = {} /\ mishaps = 0
    /\ stray = {} /\ aged = {}

-----------------------------------------------------------------------------
(* Merging *)

\* Does the remote copy of an element replace the local one?
Newer(remote, local) ==
    \/ remote.v > local.v
    \/ remote.v = local.v /\ remote.n < local.n

\* Mutant of Reconcile: at equal versions the remote copy is taken.
ReconcileTies(local, remote, protect) ==
    [i \in Ids |-> IF i \in (DOMAIN remote) \ protect /\ remote[i].v >= local[i].v
                   THEN remote[i] ELSE local[i]]

\* Mutant of Reconcile: what arrives is shown.
ReconcileBlind(local, remote, protect) ==
    [i \in Ids |-> IF i \in (DOMAIN remote) \ protect THEN remote[i] ELSE local[i]]

\* reconcileElements: whatever is held here stays; of the rest the newer copy.
Reconcile(local, remote, protect) ==
    [i \in Ids |-> IF /\ i \in (DOMAIN remote) \ protect
                      /\ Newer(remote[i], local[i])
                   THEN remote[i] ELSE local[i]]

\* The copies of `update` over what is held of the other elements.
Over(update, held) ==
    [i \in DOMAIN update \union DOMAIN held |->
        IF i \in DOMAIN update THEN update[i] ELSE held[i]]

Differing(a, b) == {i \in DOMAIN a : a[i] # b[i]}

-----------------------------------------------------------------------------
(* Mishaps *)

Slip(e) ==
    /\ e \in Unlucky /\ mishaps < MaxMishaps
    /\ mishaps' = mishaps + 1

\* heldElementIds: the elements the person is typing into, resizing or drawing.
Gripping(e, held) == IF held = {} THEN UNCHANGED mishaps ELSE Slip(e)

-----------------------------------------------------------------------------
(* Sending *)

\* drainSceneDelivery: one packet at a time, with the elements that differ from
\* what is known to be shared; the packet keeps what it sends.
Drained(o, known) ==
    IF o.lane # "idle" \/ o.pending = None THEN o
    ELSE LET changes == Differing(o.pending, known)
         IN  IF changes = {} THEN [o EXCEPT !.pending = None]
             ELSE [o EXCEPT !.pending = None, !.lane = "ready",
                            !.packet = [i \in changes |-> o.pending[i]]]

\* deliverPackets: a new packet goes to the server at once, behind `queue`, but
\* outside the room it waits.
Deliver(e, o, known, queue) ==
    LET next == Drained(o, known)
    IN  IF next.lane = "ready" /\ o.lane = "idle" /\ e \in joined
        THEN /\ out' = [out EXCEPT ![e] = [next EXCEPT !.lane = "sent"]]
             /\ atServer' = [atServer EXCEPT ![e] =
                               Append(queue, [els |-> next.packet, live |-> TRUE])]
        ELSE /\ out' = [out EXCEPT ![e] = next]
             /\ atServer' = [atServer EXCEPT ![e] = queue]

\* queueUpdate: the scene waits for the lane and, when it differs from what is
\* shared, restarts the save debounce with it.
QueueUpdate(e, els) ==
    /\ Deliver(e, [out[e] EXCEPT !.trail = None, !.pending = els], synced[e],
               atServer[e])
    /\ due' = [due EXCEPT ![e] = IF Differing(els, synced[e]) = {} THEN @ ELSE els]

\* broadcastChanges: a change is queued at once when 100 ms have passed since
\* the last, and otherwise when the throttle runs out.
Report(e, els) ==
    \/ QueueUpdate(e, els)
    \/ out' = [out EXCEPT ![e].trail = els] /\ UNCHANGED <<due, atServer>>

\* The person changes an element and onChange reports the scene.
Edit(e, i, n) ==
    LET next == [scene[e] EXCEPT ![i] = [v |-> @.v + 1, n |-> n]]
    IN  /\ <<e, i, n>> \in Plan \ made /\ Cardinality(made) < MaxEdits
        /\ made' = made \union {<<e, i, n>>}
        /\ scene' = [scene EXCEPT ![e] = next]
        /\ Report(e, next)
        /\ UNCHANGED <<synced, echo, saves, ver, joined, arrived,
                       row, mishaps, stray, aged>>

\* onChange for a scene a flush or a rebase applied.
Echo(e) ==
    /\ e \in echo
    /\ echo' = echo \ {e}
    /\ Report(e, scene[e])
    /\ UNCHANGED <<scene, synced, saves, ver, joined, arrived,
                   row, made, mishaps, stray, aged>>

ThrottleFires(e) ==
    /\ out[e].trail # None
    /\ QueueUpdate(e, out[e].trail)
    /\ UNCHANGED <<scene, synced, echo, saves, ver, joined,
                   arrived, row, made, mishaps, stray, aged>>

\* sendCurrent, tried again each second until the editor is in the room.
Resend(e) ==
    /\ out[e].lane = "ready" /\ e \in joined
    /\ out' = [out EXCEPT ![e].lane = "sent"]
    /\ atServer' = [atServer EXCEPT ![e] =
                      Append(@, [els |-> out[e].packet, live |-> TRUE])]
    /\ UNCHANGED <<scene, synced, echo, due, saves, ver, joined, arrived,
                   row, made, mishaps, stray, aged>>

\* Mutant of Known: books what the elements are by now (NIL-689).
KnownLater(e, packet) == Over([i \in DOMAIN packet.els |-> scene[e][i]], synced[e])

\* What is shared after a packet was answered: what it held when it was made.
Known(e, packet) == Over(packet.els, synced[e])

\* A copy that waits to be merged gives way to the one that comes after it,
\* whichever is newer (pendingRemoteElementsRef.set): the newer copy is lost when
\* two other people changed the element at once.
Overtaken(e, packet) ==
    {i \in DOMAIN packet.els :
        \E f \in joined \ {e} : /\ i \in DOMAIN arrived[f]
                                /\ Newer(arrived[f][i], packet.els[i])}

\* The server hands a packet to the others in the room and answers it: what it
\* held is shared, and the lane goes on.  Who is out of the room misses it for
\* good; an answer to an attempt that timed out changes nothing.
Relay(e) ==
    LET packet == Head(atServer[e])
        known == Known(e, packet)
    IN  /\ atServer[e] # <<>>
        /\ arrived' = [f \in Editors |-> IF f \in joined \ {e}
                                         THEN Over(packet.els, arrived[f])
                                         ELSE arrived[f]]
        /\ IF packet.live
           THEN /\ synced' = [synced EXCEPT ![e] = known]
                /\ Deliver(e, [out[e] EXCEPT !.lane = "idle", !.packet = Nothing],
                           known, Tail(atServer[e]))
           ELSE /\ atServer' = [atServer EXCEPT ![e] = Tail(@)]
                /\ UNCHANGED <<synced, out>>
        /\ stray' = stray \union Overtaken(e, packet)
                          \union (IF joined = Editors THEN {} ELSE DOMAIN packet.els)
        /\ UNCHANGED <<scene, echo, due, saves, ver, joined, row, made, mishaps,
                       aged>>

\* No answer within three seconds: the packet goes out again, and an answer to
\* the first attempt no longer counts.
Timeout(e) ==
    /\ out[e].lane = "sent"
    /\ Slip(e)
    /\ atServer' = [atServer EXCEPT ![e] =
         Append([k \in DOMAIN @ |-> [@[k] EXCEPT !.live = FALSE]],
                [els |-> out[e].packet, live |-> TRUE])]
    /\ UNCHANGED <<scene, synced, echo, out, due, saves, ver, joined,
                   arrived, row, made, stray, aged>>

-----------------------------------------------------------------------------
(* The connection *)

\* Mutant of Interrupted: the packet is waited for on the new connection.
InterruptedNot(o) == o

\* The packet under way is sent again: its answer runs into the time limit.
Interrupted(o) == [o EXCEPT !.lane = IF @ = "idle" THEN @ ELSE "ready"]

\* resetConnectionState: what had arrived and was not applied is forgotten.  The
\* server refuses what the lost socket still had queued.
Drop(e) ==
    /\ e \in joined
    /\ Slip(e)
    /\ joined' = joined \ {e}
    /\ atServer' = [atServer EXCEPT ![e] = <<>>]
    /\ arrived' = [arrived EXCEPT ![e] = Nothing]
    /\ out' = [out EXCEPT ![e] = Interrupted(@)]
    /\ stray' = stray \union DOMAIN arrived[e]
    /\ UNCHANGED <<scene, synced, echo, due, saves, ver, row, made, aged>>

\* onJoined: nothing is loaded again.
Rejoin(e) ==
    /\ e \notin joined
    /\ joined' = joined \union {e}
    /\ UNCHANGED <<scene, synced, echo, out, due, saves, ver, atServer,
                   arrived, row, made, mishaps, stray, aged>>

-----------------------------------------------------------------------------
(* Receiving *)

\* The local copies a flush keeps and books as shared although no packet
\* carries them: they are never sent.
KeptUnsent(e, merged) ==
    {i \in DOMAIN arrived[e] :
        /\ merged[i] = scene[e][i] /\ merged[i] # arrived[e][i]
        /\ merged[i] # synced[e][i]
        /\ ~(i \in DOMAIN out[e].packet /\ out[e].packet[i] = merged[i])}

\* The remote copies lost because the person held the element.
Refused(local, remote, protect) ==
    {i \in protect \intersect DOMAIN remote : Newer(remote[i], local[i])}

\* Two copies of an element have the same content signature.
Alike(i, copy, other) == Signature[i][copy.n] = Signature[i][other.n]

\* preserveUnchangedElements: a copy that looks as the one shown before does is
\* shown, and sent from here, under the label of the one before.
Relabelled(e, merged) ==
    {i \in Ids : merged[i] # scene[e][i] /\ Alike(i, merged[i], scene[e][i])}

Shown(e, merged) ==
    [i \in Ids |-> IF i \in Relabelled(e, merged) THEN scene[e][i] ELSE merged[i]]

\* flushRemoteUpdates: merge what arrived, book the copies as they are shown,
\* show the result; onChange follows only when something changed.
Flush(e, protect) ==
    LET merged == Reconcile(scene[e], arrived[e], protect)
        shown == Shown(e, merged)
    IN  /\ Gripping(e, protect)
        /\ DOMAIN arrived[e] # {}
        /\ scene' = [scene EXCEPT ![e] = shown]
        /\ synced' = [synced EXCEPT ![e] =
                        Over([i \in DOMAIN arrived[e] |-> shown[i]], @)]
        /\ echo' = IF merged = scene[e] THEN echo ELSE echo \union {e}
        /\ arrived' = [arrived EXCEPT ![e] = Nothing]
        /\ stray' = stray \union KeptUnsent(e, merged)
                          \union Refused(scene[e], arrived[e], protect)
        /\ aged' = aged \union Relabelled(e, merged)
        /\ UNCHANGED <<out, due, saves, ver, joined, atServer, row, made>>

-----------------------------------------------------------------------------
(* Saving *)

\* persistScene: the snapshot goes out with the version held now.
Job(els, version) ==
    [pc |-> "put", els |-> els, base |-> version, attempt |-> 0, got |-> None]

SetJob(e, job) == saves' = [saves EXCEPT ![e].job = job]

\* A save is over: the next of the queue starts.
Finish(e, version) ==
    LET queue == saves[e].queue
    IN  IF queue = <<>> THEN SetJob(e, NoSave)
        ELSE saves' = [saves EXCEPT
               ![e] = [queue |-> Tail(queue), job |-> Job(Head(queue), version)]]

\* debouncedSave fires: enqueueSceneSave, behind the saves before it.
DebounceFires(e) ==
    /\ due[e] # None
    /\ IF saves[e].job.pc = "idle" THEN SetJob(e, Job(due[e], ver[e]))
       ELSE saves' = [saves EXCEPT ![e].queue = Append(@, due[e])]
    /\ due' = [due EXCEPT ![e] = None]
    /\ UNCHANGED <<scene, synced, echo, out, ver, joined, atServer,
                   arrived, row, made, mishaps, stray, aged>>

\* The stored drawing takes a save based on the version it has.  Otherwise the
\* editor reads the stored drawing, and a second time gives the save up.  (A read
\* that comes later than the refusal is a refusal that comes later.)
Put(e) ==
    LET job == saves[e].job
    IN  /\ job.pc = "put"
        /\ \/ /\ job.base = row.version
              /\ row' = [version |-> row.version + 1, els |-> job.els]
              /\ ver' = [ver EXCEPT ![e] = row'.version]
              /\ Finish(e, row'.version)
              /\ UNCHANGED stray
           \/ /\ job.base # row.version /\ job.attempt = 0
              /\ SetJob(e, [job EXCEPT !.pc = "got", !.got = row])
              /\ UNCHANGED <<row, ver, stray>>
           \/ /\ job.base # row.version /\ job.attempt > 0
              /\ Finish(e, ver[e])
              /\ stray' = stray \union Differing(job.els, row.els)
              /\ UNCHANGED <<row, ver>>
        /\ UNCHANGED <<scene, synced, echo, out, due, joined, atServer, arrived,
                       made, mishaps, aged>>

\* The snapshots that were taken and are still to be saved.
Waiting(e) ==
    ({due[e], out[e].trail} \ {None})
        \union {saves[e].queue[k] : k \in DOMAIN saves[e].queue}

\* What a rebase loses: edits made since the snapshot was taken, stored elements
\* the person holds an older copy of, and stored elements that a snapshot taken
\* earlier will overwrite under the version the rebase brings.
LostByRebase(e, merged, stored, protect) ==
    {i \in Ids : Newer(scene[e][i], merged[i])}
        \union Refused(saves[e].job.els, stored, protect)
        \union {i \in Ids : \E s \in Waiting(e) : Newer(stored[i], s[i])}

\* rebaseOntoLatest: merge the snapshot with the stored drawing, show the result
\* and send it, based on the version just read.
Rebase(e, protect) ==
    LET job == saves[e].job
        merged == Reconcile(job.els, job.got.els, protect)
    IN  /\ Gripping(e, protect)
        /\ job.pc = "got"
        /\ ver' = [ver EXCEPT ![e] = job.got.version]
        /\ scene' = [scene EXCEPT ![e] = merged]
        /\ echo' = IF merged = scene[e] THEN echo ELSE echo \union {e}
        /\ SetJob(e, [Job(merged, job.got.version) EXCEPT !.attempt = 1])
        /\ stray' = stray \union LostByRebase(e, merged, job.got.els, protect)
        /\ UNCHANGED <<synced, out, due, joined, atServer, arrived, row,
                       made, aged>>

\* A request of a save or its answer is lost: this is reported and not tried
\* again.  The stored drawing may have taken the save.
SaveFails(e) ==
    LET job == saves[e].job
    IN  /\ job.pc # "idle"
        /\ Slip(e)
        /\ Finish(e, ver[e])
        /\ \/ /\ job.pc = "put" /\ job.base = row.version
              /\ row' = [version |-> row.version + 1, els |-> job.els]
           \/ UNCHANGED row
        /\ stray' = stray \union Differing(job.els, row'.els)
        /\ UNCHANGED <<scene, synced, echo, out, due, ver, joined, atServer,
                       arrived, made, aged>>

-----------------------------------------------------------------------------
Work(e) ==
    \/ Echo(e) \/ ThrottleFires(e) \/ Resend(e) \/ Relay(e) \/ Rejoin(e)
    \/ DebounceFires(e) \/ Put(e)
    \/ \E p \in Grips : Flush(e, p) \/ Rebase(e, p)

Mishap(e) == Timeout(e) \/ Drop(e) \/ SaveFails(e)

Next ==
    \/ \E e \in Editors : Work(e) \/ Mishap(e)
    \/ \E edit \in Plan : Edit(edit[1], edit[2], edit[3])

Spec == Init /\ [][Next]_vars

\* Timers fire, sockets reconnect and answers come back: while an editor has
\* something to do, something of it gets done.
Fairness == \A e \in Editors : WF_vars(Work(e))

FairSpec == Spec /\ Fairness

-----------------------------------------------------------------------------
Idle(e) ==
    /\ e \in joined /\ e \notin echo
    /\ out[e] = AtRest /\ due[e] = None
    /\ saves[e] = [queue |-> <<>>, job |-> NoSave]
    /\ atServer[e] = <<>> /\ arrived[e] = Nothing

Quiet == \A e \in Editors : Idle(e)

\* The elements the claims below are about: of the others a named loss has kept
\* a copy from a screen, or a screen shows a copy under an older label, so that
\* versions no longer tell which copy it is.
Spared == Ids \ (stray \union aged)

\* What an editor shows of an element, and the copies on their way to it.
Reaching(e, f, i) ==
    {scene[f][i]}
        \union {out[e].packet[j] : j \in {i} \intersect DOMAIN out[e].packet}
        \union {arrived[f][j] : j \in {i} \intersect DOMAIN arrived[f]}

\* What an editor takes to be shared of a spared element, every other editor
\* shows, or has on its way, or has already replaced by something newer (NIL-689:
\* a packet books what it sent, not what the element has become since).
SyncedIsShared ==
    \A e, f \in Editors : \A i \in Spared :
        \E copy \in Reaching(e, f, i) : ~Newer(synced[e][i], copy)

\* What each editor books as shared is (useEditorBroadcast.ts:506-531).
EditorSound == TypeOK /\ SyncedIsShared

\* Once all is sent, merged and saved, every screen and the stored drawing show
\* the same copy of each spared element: two machines that change one element at
\* once settle on one of the two copies (utils/sync.ts:149-211).
BoardsAgree ==
    Quiet => \A e \in Editors : \A i \in Spared : scene[e][i] = row.els[i]

\* What another screen sends never takes a copy off an editor's screen for an
\* older one, at whatever time it is merged, unless some flush has shown the
\* element under an older label (useEditorCollaboration.ts:421-600); only a
\* rebase can (LostByRebase).
UpdatesNeverStepBack ==
    [][\A e \in Editors : saves'[e] = saves[e] =>
         \A i \in Ids \ aged' : ~Newer(scene[e][i], scene'[e][i])]_vars

\* Changes do not chase each other for ever, and none waits for ever: the board
\* comes to rest with everything sent and saved, through timeouts, lost connections
\* and conflicts (useEditorBroadcast.ts:190-259, useEditorPersistence.ts:273-330).
Settles == <>[]Quiet

\* A save that met a conflict does not send the same elements under the new version,
\* which "overwrites whatever the other writer just saved"
\* (useEditorPersistence.ts:305-310); so the stored copy of an element is never
\* replaced by an older one.
StoredWorkKept == [][\A i \in Ids : ~Newer(row.els[i], row'.els[i])]_vars
=============================================================================
