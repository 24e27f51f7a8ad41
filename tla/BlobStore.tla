------------------------------ MODULE BlobStore ------------------------------
(***************************************************************************)
(* The content-addressed store behind uploaded documents, embedded images  *)
(* and link preview art (assets/assetService.ts, linkPreviews/cache.ts):   *)
(* files on disk, StoredBlob rows found by their hash, and the Asset,      *)
(* DrawingFile and LinkPreview rows that refer to them.                    *)
(*                                                                         *)
(* An upload looks a row up, looks whether its file is there, and refers to *)
(* it some statements later.  Meanwhile the hourly sweep and the requests   *)
(* that discard a preview count references and remove files.  Statements    *)
(* that another actor can come between are steps of their own.  Time passes *)
(* only while no upload is under way: the shortest grace period is an hour. *)
(***************************************************************************)
EXTENDS Integers, Sequences, FiniteSetsExt

CONSTANTS Papers,      \* the bytes of documents
          Pictures,    \* the bytes of embedded images and of preview art
          Size,        \* [Papers \cup Pictures -> bytes on disk]
          Owners,      \* board owners, each with one board with room for one image
          Cards,       \* cached link previews
          Uploads,     \* uploads, each made at most once: a bound
          Older,       \* an upload made before
          Sweep,       \* the hourly job
          Null,
          MaxPerUser   \* deps.maxPerUserBytes

Bytes == Papers \cup Pictures

\* An upload gives its id to the file it writes, to the row that it creates and to
\* its document: randomUUID never repeats one.
Keys     == Uploads \cup {Older}
AssetIds == Keys

ASSUME StoreAssumption ==
    /\ Size \in [Bytes -> Nat \ {0}]
    /\ Null \notin Keys \cup Owners \cup Cards \cup Bytes
    /\ Sweep \notin Uploads /\ Older \notin Uploads
    /\ MaxPerUser \in Nat /\ IsFiniteSet(Uploads)

VARIABLES
    files,     \* storage keys whose file is on disk
    blobs,     \* [Keys -> StoredBlob row]
    documents, \* [AssetIds -> Asset row]
    places,    \* [AssetIds -> DrawingAsset row; "stale" is PENDING past its time]
    archived,  \* documents that a snapshot holds
    images,    \* [Owners -> blob of the DrawingFile row]
    cards,     \* [Cards -> blob of the LinkPreview row]
    up,        \* [Uploads -> the upload]
    tails,     \* [Owners -> uploads in admission, the one at work first]
    sweep,     \* the hourly job
    gc,        \* [Collectors -> removal of preview art under way]
    pulled     \* history variable: rows whose file went while somebody counted on it
               \* (an upload that is misled counts on a file that went)

refs      == <<documents, places, archived, images, cards>>
work      == <<up, tails, sweep, gc>>
storeVars == <<files, blobs, refs, work, pulled>>

Due      == {"no", "grace", "past"}
BlobRow  == [sha : Bytes, key : Keys, state : {"READY", "DELETING"}, due : Due,
             art : BOOLEAN, old : BOOLEAN]
AssetRow == [blob : Keys, owner : Owners, due : Due]
NoBlob   == [sha |-> Null, key |-> Null, state |-> "none", due |-> "no",
             art |-> FALSE, old |-> FALSE]
NoAsset  == [blob |-> Null, owner |-> Null, due |-> "no"]
NoUpload == [pc |-> "new", kind |-> Null, owner |-> Null, sha |-> Null, used |-> 0,
             seen |-> Null, row |-> NoBlob, blob |-> Null, card |-> Null,
             misled |-> FALSE]
NoGc     == [pc |-> "idle", blob |-> Null, key |-> Null]
NoSweep  == [pc |-> "rest", stale |-> {}, blobs |-> {}, cur |-> Null]

Stored     == {b \in Keys : blobs[b] # NoBlob}
Collectors == Uploads \cup {Sweep}

\* What refers to a blob.
AssetsOf(b)   == {a \in AssetIds : documents[a].blob = b}
PreviewsOf(b) == {c \in Cards : cards[c] = b}
ImagesOf(b)   == {o \in Owners : images[o] = b}

\* No request and no job has run since the process started.
Started ==
    /\ archived = {}
    /\ up = [u \in Uploads |-> NoUpload] /\ tails = [o \in Owners |-> <<>>]
    /\ sweep = NoSweep /\ gc = [p \in Collectors |-> NoGc]
    /\ pulled = {}

\* A store that has lived for a while: nothing, or one blob with any references.
NoBlobs ==
    /\ files = {} /\ blobs = [b \in Keys |-> NoBlob]
    /\ documents = [a \in AssetIds |-> NoAsset]
    /\ places = [a \in AssetIds |-> "none"]
    /\ images = [o \in Owners |-> Null] /\ cards = [c \in Cards |-> Null]

OneBlob(c, art, doc, o, drawn, shown) ==
    /\ Size[c] <= MaxPerUser
    /\ doc => c \in Papers
    /\ art \/ drawn # {} => c \in Pictures
    /\ shown # {} => art
    /\ files = {Older}
    /\ blobs = [b \in Keys |->
                   IF b = Older THEN [sha |-> c, key |-> b, state |-> "READY", due |-> "no",
                                      art |-> art, old |-> TRUE]
                                ELSE NoBlob]
    /\ documents = [a \in AssetIds |->
                       IF doc /\ a = Older THEN [blob |-> a, owner |-> o, due |-> "no"]
                                           ELSE NoAsset]
    /\ places = [a \in AssetIds |-> IF doc /\ a = Older THEN "ACTIVE" ELSE "none"]
    /\ images = [p \in Owners |-> IF p \in drawn THEN Older ELSE Null]
    /\ cards  = [p \in Cards |-> IF p \in shown THEN Older ELSE Null]

StoreInit ==
    /\ \/ NoBlobs
       \/ \E c \in Bytes, art \in BOOLEAN, doc \in BOOLEAN, o \in Owners,
             drawn \in SUBSET Owners, shown \in SUBSET Cards :
                OneBlob(c, art, doc, o, drawn, shown)
    /\ Started

-----------------------------------------------------------------------------
(* Removing a file.                                                        *)

\* The uploads that rely on the file under a key: they have looked, or stored it,
\* and are about to refer to its row.
Relying(k) == {u \in Uploads : up[u].pc \in {"revive", "link"} /\ blobs[up[u].blob].key = k}

\* The file under k goes, maybe from under an upload that relies on it.  It is also
\* missed if its row was counted without the images.
Remove(k, counted) ==
    /\ files' = files \ {k}
    /\ up' = [u \in Uploads |-> IF u \in Relying(k) THEN [up[u] EXCEPT !.misled = TRUE]
                               ELSE up[u]]
    /\ pulled' = pulled \cup {b \in Stored : /\ blobs[b].key = k
                                             /\ \/ Relying(k) # {}
                                                \/ ~counted /\ ImagesOf(b) # {}}

-----------------------------------------------------------------------------
(* Uploads.                                                                *)

\* What blobs take on disk, as their rows describe them.
Weight(rows, S) == MapThenSumSet(LAMBDA b : Size[rows[b].sha], S)

\* The bytes an owner is charged for, each blob once (usedBytesFor).
Charged(o) == {b \in Stored : (\E a \in AssetsOf(b) : documents[a].owner = o) \/ images[o] = b}
Used(o)    == Weight(blobs, Charged(o))

Move(u, r)  == up' = [up EXCEPT ![u] = r]
Step(u, pc) == Move(u, [up[u] EXCEPT !.pc = pc])

\* The finally of the admission hands over to the next upload of the owner.
Left(u) == IF up[u].owner = Null THEN tails
           ELSE [tails EXCEPT ![up[u].owner] = Tail(@)]

\* The request is answered, with success or not.
Answer(u) == Move(u, [NoUpload EXCEPT !.pc = "done"]) /\ tails' = Left(u)

\* Mutant of First: uploads of an owner run side by side.
FirstAny(u) == TRUE

\* withOwnerUploadAdmission lets the uploads of an owner in one at a time.
First(u) == Head(tails[up[u].owner]) = u

\* POST assets, a background image upload or a board image of a save ask for
\* admission; the art of a preview is only stored.
Admit(u) ==
    /\ up[u].pc = "new"
    /\ \/ \E o \in Owners, kind \in {"document", "image"} :
             \E c \in IF kind = "document" THEN Papers ELSE Pictures :
                /\ Move(u, [NoUpload EXCEPT !.pc = "admitted", !.kind = kind,
                                            !.owner = o, !.sha = c])
                /\ tails' = [tails EXCEPT ![o] = Append(@, u)]
       \/ \E card \in Cards, c \in Pictures :
             /\ Move(u, [NoUpload EXCEPT !.pc = "write", !.kind = "art",
                                         !.card = card, !.sha = c])
             /\ UNCHANGED tails
    /\ UNCHANGED <<files, blobs, refs, sweep, gc, pulled>>

\* The usage is read, and an owner without room is turned away.
ReadUsage(u) ==
    /\ up[u].pc = "admitted" /\ First(u)
    /\ LET used == Used(up[u].owner)
       IN  \/ /\ used < MaxPerUser
              /\ Move(u, [up[u] EXCEPT !.pc = "write", !.used = used])
              /\ UNCHANGED tails
           \/ used >= MaxPerUser /\ Answer(u)
    /\ UNCHANGED <<files, blobs, refs, sweep, gc, pulled>>

\* The bytes are streamed to a file under the provisional id, as far as the rest
\* of the allowance goes.
WriteFile(u) ==
    /\ up[u].pc = "write" /\ gc[u] = NoGc
    /\ \/ /\ up[u].kind # "art" => Size[up[u].sha] <= MaxPerUser - up[u].used
          /\ files' = files \cup {u}
          /\ Step(u, "find")
          /\ UNCHANGED tails
       \/ /\ up[u].kind # "art" /\ Size[up[u].sha] > MaxPerUser - up[u].used
          /\ Answer(u) /\ UNCHANGED files
    /\ UNCHANGED <<blobs, refs, sweep, gc, pulled>>

WithSha(c) == {b \in Stored : blobs[b].sha = c}

\* storeBlob looks for a row with these bytes.
Find(u) ==
    /\ up[u].pc = "find"
    /\ \/ /\ WithSha(up[u].sha) = {}
          /\ Step(u, "create")
       \/ \E b \in WithSha(up[u].sha) :
             Move(u, [up[u] EXCEPT !.pc = "look", !.seen = b, !.row = blobs[b]])
    /\ UNCHANGED <<files, blobs, refs, tails, sweep, gc, pulled>>

\* Mutant of Reusable: a row is trusted to have its file.
ReusableAny(row) == row.state = "READY"

\* A row can be reused if nobody has claimed it and its file is there.
Reusable(row) == row.state = "READY" /\ row.key \in files

\* The own copy goes, and the row's file is relied on.  The file that was looked for
\* is the one the row had when it was found.
Reuse(u) ==
    /\ up[u].pc = "look" /\ Reusable(up[u].row)
    /\ files' = files \ {u}
    /\ Move(u, [up[u] EXCEPT
           !.blob = up[u].seen,
           !.misled = blobs[up[u].seen].key # up[u].row.key,
           !.pc = IF up[u].row.due # "no" \/ (up[u].kind = "art" /\ ~up[u].row.art)
                  THEN "revive" ELSE "link"])
    /\ UNCHANGED <<blobs, refs, tails, sweep, gc, pulled>>

\* A row that was to be collected is kept after all.
Revive(u) ==
    /\ up[u].pc = "revive"
    /\ LET b == up[u].blob
       IN  \/ /\ b \in Stored
              /\ blobs' = [blobs EXCEPT ![b].due = "no", ![b].state = "READY",
                                        ![b].art = @ \/ up[u].kind = "art"]
              /\ Step(u, "link") /\ UNCHANGED tails
           \/ b \notin Stored /\ Answer(u) /\ UNCHANGED blobs
    /\ UNCHANGED <<files, refs, sweep, gc, pulled>>

\* A row that cannot be reused adopts the copy just made.
Adopt(u) ==
    /\ up[u].pc = "look" /\ ~Reusable(up[u].row)
    /\ LET b == up[u].seen
       IN  \/ /\ b \in Stored
              /\ blobs' = [blobs EXCEPT ![b].key = u, ![b].state = "READY",
                                        ![b].due = "no", ![b].art = @ \/ up[u].kind = "art"]
              /\ Move(u, [up[u] EXCEPT !.pc = "link", !.blob = b])
              /\ pulled' = pulled \ {b} /\ UNCHANGED tails
           \/ b \notin Stored /\ Answer(u) /\ UNCHANGED <<blobs, pulled>>
    /\ UNCHANGED <<files, refs, sweep, gc>>

\* A new row, unless another upload of the same bytes was faster: then its row is
\* taken, and the own copy goes.
Create(u) ==
    /\ up[u].pc = "create"
    /\ \/ /\ WithSha(up[u].sha) = {}
          /\ blobs' = [blobs EXCEPT ![u] = [sha |-> up[u].sha, key |-> u, state |-> "READY",
                                            due |-> "no", art |-> up[u].kind = "art",
                                            old |-> FALSE]]
          /\ pulled' = pulled \ {u}
          /\ Move(u, [up[u] EXCEPT !.pc = "link", !.blob = u])
          /\ UNCHANGED files
       \/ \E b \in WithSha(up[u].sha) :
             /\ files' = files \ {u}
             /\ Move(u, [up[u] EXCEPT !.pc = "link", !.blob = b])
             /\ UNCHANGED <<blobs, pulled>>
    /\ UNCHANGED <<refs, tails, sweep, gc>>

\* A new reference to a row that a collector has already counted, or whose file an
\* upload did not look for.
Doomed(b) ==
    \/ sweep.pc = "remove" /\ sweep.cur = b
    \/ \E p \in Collectors : gc[p].pc = "unlink" /\ gc[p].blob = b
Missed(u) == up[u].misled /\ blobs[up[u].blob].key \notin files
Referred(u) ==
    LET b == up[u].blob
    IN  /\ b \in Stored
        /\ pulled' = IF Doomed(b) \/ Missed(u) THEN pulled \cup {b} ELSE pulled

\* The foreign key of the reference refuses a row that is gone.
LinkFails(u) ==
    /\ up[u].pc = "link" /\ up[u].blob \notin Stored
    /\ Answer(u)
    /\ UNCHANGED <<files, blobs, refs, sweep, gc, pulled>>

\* createAsset: the document, and in its next statement its pending link.
LinkDocument(u) ==
    /\ up[u].pc = "link" /\ up[u].kind = "document" /\ Referred(u)
    /\ documents' = [documents EXCEPT ![u] = [blob |-> up[u].blob, owner |-> up[u].owner,
                                              due |-> "no"]]
    /\ Step(u, "attach")
    /\ UNCHANGED <<files, blobs, places, archived, images, cards, tails, sweep, gc>>

Attach(u) ==
    /\ up[u].pc = "attach"
    /\ places' = [places EXCEPT ![u] = "fresh"]
    /\ Answer(u)
    /\ UNCHANGED <<files, blobs, documents, archived, images, cards, sweep, gc, pulled>>

\* storeDrawingFile points the image of the board at the blob.
LinkImage(u) ==
    /\ up[u].pc = "link" /\ up[u].kind = "image" /\ Referred(u)
    /\ images' = [images EXCEPT ![up[u].owner] = up[u].blob]
    /\ Answer(u)
    /\ UNCHANGED <<files, blobs, documents, places, archived, cards, sweep, gc>>

\* replaceCachedRow upserts the preview and then releases the art it had.
LinkArt(u) ==
    /\ up[u].pc = "link" /\ up[u].kind = "art" /\ Referred(u)
    /\ LET old == cards[up[u].card]
       IN  /\ cards' = [cards EXCEPT ![up[u].card] = up[u].blob]
           /\ gc' = [gc EXCEPT ![u] = IF old \in {Null, up[u].blob} THEN NoGc
                                      ELSE [NoGc EXCEPT !.pc = "weigh", !.blob = old]]
    /\ Answer(u)
    /\ UNCHANGED <<files, blobs, documents, places, archived, images, sweep>>

-----------------------------------------------------------------------------
(* What boards do with their references.                                   *)

Board ==
    /\ \E a \in AssetIds :
          \/ \* a save names the document
             /\ places[a] \in {"fresh", "stale"}
             /\ places' = [places EXCEPT ![a] = "ACTIVE"]
             /\ UNCHANGED <<archived, images>>
          \/ \* a save no longer names it, but its snapshot does
             /\ places[a] = "ACTIVE"
             /\ places' = [places EXCEPT ![a] = "none"] /\ archived' = archived \cup {a}
             /\ UNCHANGED images
          \/ \* that snapshot expires
             a \in archived /\ archived' = archived \ {a} /\ UNCHANGED <<places, images>>
          \/ \* the owner trims the board's files
             \E o \in Owners : /\ images[o] # Null /\ images' = [images EXCEPT ![o] = Null]
                               /\ UNCHANGED <<places, archived>>
    /\ UNCHANGED <<files, blobs, documents, cards, work, pulled>>

-----------------------------------------------------------------------------
(* The hourly job: sweepUnclaimed, collectExpired and then the previews.   *)

Goto(pc) == sweep' = [sweep EXCEPT !.pc = pc]
Abort    == sweep' = NoSweep

\* Uploads that no save claimed in time are read ...
SweepBegin ==
    /\ sweep.pc = "due"
    /\ sweep' = [NoSweep EXCEPT !.pc = "links",
                                !.stale = {a \in AssetIds : places[a] = "stale"}]
    /\ UNCHANGED <<files, blobs, refs, up, tails, gc, pulled>>

\* ... and their links deleted by key, whatever became of them; one that is gone
\* ends the job.
SweepLink ==
    /\ sweep.pc = "links"
    /\ \E a \in sweep.stale :
          \/ /\ places[a] # "none" /\ places' = [places EXCEPT ![a] = "none"]
             /\ sweep' = [sweep EXCEPT !.stale = @ \ {a}]
          \/ places[a] = "none" /\ Abort /\ UNCHANGED places
    /\ UNCHANGED <<files, blobs, documents, archived, images, cards, up, tails, gc, pulled>>

Unreached(a) == documents[a] # NoAsset /\ places[a] = "none" /\ a \notin archived
Unused(b)    == AssetsOf(b) = {} /\ PreviewsOf(b) = {} /\ ImagesOf(b) = {}

\* Mutant of Orphaned: a blob without a document is not looked for.
OrphanedNot(b) == FALSE

\* The blobs that nothing refers to.
Orphaned(b) == blobs[b].state = "READY" /\ Unused(b)

\* What nobody reaches gets its grace period.
MarkOrphans ==
    /\ sweep.pc = "links" /\ sweep.stale = {}
    /\ documents' = [a \in AssetIds |-> IF Unreached(a) /\ documents[a].due = "no"
                                         THEN [documents[a] EXCEPT !.due = "grace"]
                                         ELSE documents[a]]
    /\ blobs' = [b \in Keys |-> IF b \in Stored /\ Orphaned(b) /\ blobs[b].due = "no"
                                THEN [blobs[b] EXCEPT !.due = "grace"] ELSE blobs[b]]
    /\ Goto("expired")
    /\ UNCHANGED <<files, places, archived, images, cards, up, tails, gc, pulled>>

\* collectExpired: documents past their grace go, their blobs and those past
\* their own are looked at.
DeleteExpired ==
    /\ sweep.pc = "expired"
    /\ LET gone == {a \in AssetIds : Unreached(a) /\ documents[a].due = "past"}
       IN  /\ documents' = [a \in AssetIds |-> IF a \in gone THEN NoAsset ELSE documents[a]]
           /\ sweep' = [sweep EXCEPT
                  !.pc = "blobs",
                  !.blobs = {documents[a].blob : a \in gone}
                            \cup {b \in Stored : blobs[b].due = "past"}]
    /\ UNCHANGED <<files, blobs, places, archived, images, cards, up, tails, gc, pulled>>

\* The counts of collectExpired.
Counted(b) == Unused(b)

CountRefs ==
    /\ sweep.pc = "blobs"
    /\ \E b \in sweep.blobs :
          sweep' = [sweep EXCEPT !.blobs = @ \ {b},
                                 !.pc = IF Counted(b) THEN "remove" ELSE "blobs",
                                 !.cur = IF Counted(b) THEN b ELSE Null]
    /\ UNCHANGED <<files, blobs, refs, up, tails, gc, pulled>>

\* Disk first.
RemoveFile ==
    /\ sweep.pc = "remove"
    /\ \/ /\ sweep.cur \in Stored
          /\ Remove(blobs[sweep.cur].key, Counted(sweep.cur))
          /\ Goto("drop")
       \/ /\ sweep.cur \notin Stored
          /\ sweep' = [sweep EXCEPT !.pc = "blobs", !.cur = Null]
          /\ UNCHANGED <<files, up, pulled>>
    /\ UNCHANGED <<blobs, refs, tails, gc>>

\* Documents and images restrict the deletion of a row, previews let go of it.
Restricted(b) == AssetsOf(b) # {} \/ ImagesOf(b) # {}

Erase(b) ==
    /\ blobs' = [blobs EXCEPT ![b] = NoBlob]
    /\ cards' = [c \in Cards |-> IF cards[c] = b THEN Null ELSE cards[c]]

\* Row second; a reference made meanwhile ends the job.
DropRow ==
    /\ sweep.pc = "drop"
    /\ LET b == sweep.cur
       IN  \/ /\ b \in Stored /\ ~Restricted(b)
              /\ Erase(b)
              /\ sweep' = [sweep EXCEPT !.pc = "blobs", !.cur = Null]
           \/ (b \notin Stored \/ Restricted(b)) /\ Abort /\ UNCHANGED <<blobs, cards>>
    /\ UNCHANGED <<files, documents, places, archived, images, up, tails, gc, pulled>>

SweepPreviews ==
    /\ sweep.pc = "blobs" /\ sweep.blobs = {} /\ Goto("previews")
    /\ UNCHANGED <<files, blobs, refs, up, tails, gc, pulled>>

\* Preview art that nothing shows and whose time is over.
Stale(b) ==
    /\ blobs[b].art /\ blobs[b].state = "READY" /\ AssetsOf(b) = {} /\ PreviewsOf(b) = {}
    /\ blobs[b].due = "past" \/ (blobs[b].due = "no" /\ blobs[b].old)

SweepArt ==
    /\ sweep.pc = "previews" /\ gc[Sweep] = NoGc
    /\ \/ \E b \in Stored :
             /\ Stale(b)
             /\ gc' = [gc EXCEPT ![Sweep] = [pc |-> "claim", blob |-> b, key |-> blobs[b].key]]
             /\ UNCHANGED sweep
       \/ (\A b \in Stored : ~Stale(b)) /\ Abort /\ UNCHANGED gc
    /\ UNCHANGED <<files, blobs, refs, up, tails, pulled>>

-----------------------------------------------------------------------------
(* Removal of preview art, by a request or the job.                        *)

\* A collector is done; when the job put a blob back or failed, it ends.
Finish(p, ok) ==
    /\ gc' = [gc EXCEPT ![p] = NoGc]
    /\ sweep' = IF p = Sweep /\ ~ok THEN NoSweep ELSE sweep

\* discardRow: a preview that expired, or that the cache budget pushes out.
Discard(p) ==
    /\ gc[p] = NoGc
    /\ IF p = Sweep THEN sweep.pc = "previews" ELSE up[p].kind = "art" /\ up[p].pc = "write"
    /\ \E c \in Cards :
          /\ cards[c] # Null
          /\ gc' = [gc EXCEPT ![p] = [NoGc EXCEPT !.pc = "weigh", !.blob = cards[c]]]
          /\ cards' = [cards EXCEPT ![c] = Null]
    /\ UNCHANGED <<files, blobs, documents, places, archived, images, up, tails, sweep, pulled>>

\* releaseUnusedBlob: old art is claimed, young art gets an hour.
Weigh(p) ==
    /\ gc[p].pc = "weigh"
    /\ LET b == gc[p].blob
       IN  \/ /\ b \notin Stored \/ AssetsOf(b) # {} \/ PreviewsOf(b) # {}
              /\ Finish(p, TRUE) /\ UNCHANGED blobs
           \/ /\ b \in Stored /\ AssetsOf(b) = {} /\ PreviewsOf(b) = {} /\ blobs[b].old
              /\ gc' = [gc EXCEPT ![p] = [pc |-> "claim", blob |-> b, key |-> blobs[b].key]]
              /\ UNCHANGED <<blobs, sweep>>
           \/ /\ b \in Stored /\ AssetsOf(b) = {} /\ PreviewsOf(b) = {} /\ ~blobs[b].old
              /\ blobs' = [blobs EXCEPT ![b].state = "READY", ![b].due = "grace"]
              /\ Finish(p, TRUE)
    /\ UNCHANGED <<files, refs, up, tails, pulled>>

\* claimForDeletion takes the row out of circulation ...
Claim(p) ==
    /\ gc[p].pc = "claim"
    /\ LET b == gc[p].blob
       IN  \/ /\ blobs[b].state = "READY"
              /\ blobs' = [blobs EXCEPT ![b].state = "DELETING"]
              /\ gc' = [gc EXCEPT ![p].pc = "recount"] /\ UNCHANGED sweep
           \/ blobs[b].state # "READY" /\ Finish(p, FALSE) /\ UNCHANGED blobs
    /\ UNCHANGED <<files, refs, up, tails, pulled>>

\* Somebody referred to it after all.
Adopted(b) == AssetsOf(b) # {} \/ PreviewsOf(b) # {}

\* ... counts again, and puts it back or goes on.  Images are not counted.
Recount(p) ==
    /\ gc[p].pc = "recount"
    /\ LET b == gc[p].blob
       IN  \/ /\ Adopted(b)
              /\ blobs' = [blobs EXCEPT ![b].state = IF @ = "DELETING" THEN "READY" ELSE @]
              /\ Finish(p, FALSE)
           \/ /\ ~Adopted(b)
              /\ gc' = [gc EXCEPT ![p].pc = "unlink"]
              /\ UNCHANGED <<blobs, sweep>>
    /\ UNCHANGED <<files, refs, up, tails, pulled>>

Unlink(p) ==
    /\ gc[p].pc = "unlink"
    /\ Remove(gc[p].key, FALSE)
    /\ gc' = [gc EXCEPT ![p].pc = "erase"]
    /\ UNCHANGED <<blobs, refs, tails, sweep>>

\* The row is deleted by id, whatever it has become.
EraseRow(p) ==
    /\ gc[p].pc = "erase"
    /\ LET b == gc[p].blob
       IN  \/ ~Restricted(b) /\ Erase(b) /\ Finish(p, TRUE)
           \/ Restricted(b) /\ Finish(p, FALSE) /\ UNCHANGED <<blobs, cards>>
    /\ UNCHANGED <<files, documents, places, archived, images, up, tails, pulled>>

-----------------------------------------------------------------------------
\* No upload is between its bytes and its reference.
Quiet == \A u \in Uploads : up[u].pc \in {"new", "done"}

\* The job is due again.
Hour ==
    /\ Quiet /\ sweep.pc = "rest" /\ Goto("due")
    /\ UNCHANGED <<files, blobs, refs, up, tails, gc, pulled>>

\* A grace period or the life of a pending link ends.
Elapse ==
    /\ Quiet
    /\ \/ \E b \in Stored : /\ blobs[b].due = "grace" \/ ~blobs[b].old
                            /\ blobs' = [blobs EXCEPT ![b].old = TRUE,
                                             ![b].due = IF @ = "grace" THEN "past" ELSE @]
                            /\ UNCHANGED <<documents, places>>
       \/ \E a \in AssetIds :
             \/ /\ documents[a].due = "grace"
                /\ documents' = [documents EXCEPT ![a].due = "past"]
                /\ UNCHANGED <<blobs, places>>
             \/ /\ places[a] = "fresh" /\ places' = [places EXCEPT ![a] = "stale"]
                /\ UNCHANGED <<blobs, documents>>
    /\ UNCHANGED <<files, archived, images, cards, work, pulled>>

UploadStep(u) ==
    \/ Admit(u) \/ ReadUsage(u) \/ WriteFile(u) \/ Find(u) \/ Reuse(u) \/ Revive(u)
    \/ Adopt(u) \/ Create(u) \/ LinkFails(u) \/ LinkDocument(u) \/ Attach(u)
    \/ LinkImage(u) \/ LinkArt(u)

Job == \/ SweepBegin \/ SweepLink \/ MarkOrphans \/ DeleteExpired \/ CountRefs \/ RemoveFile
       \/ DropRow \/ SweepPreviews \/ SweepArt

Collect(p) == Weigh(p) \/ Claim(p) \/ Recount(p) \/ Unlink(p) \/ EraseRow(p)

StoreNext ==
    \/ \E u \in Uploads : UploadStep(u)
    \/ Job
    \/ \E p \in Collectors : Discard(p) \/ Collect(p)
    \/ Board \/ Hour \/ Elapse

StoreSpec == StoreInit /\ [][StoreNext]_storeVars

\* A request runs on once it is admitted, the job comes every hour, and time
\* passes.
StoreFairSpec ==
    /\ StoreSpec
    /\ WF_storeVars(\E u \in Uploads : up[u].pc # "new" /\ UploadStep(u))
    /\ WF_storeVars(\E p \in Collectors : Collect(p))
    /\ WF_storeVars(Job) /\ WF_storeVars(Hour) /\ WF_storeVars(Elapse)

-----------------------------------------------------------------------------
(* Properties                                                              *)

StoreTypeOK ==
    /\ files \subseteq Keys
    /\ blobs \in [Keys -> BlobRow \cup {NoBlob}]
    /\ documents \in [AssetIds -> AssetRow \cup {NoAsset}]
    /\ places \in [AssetIds -> {"none", "fresh", "stale", "ACTIVE"}]
    /\ archived \subseteq AssetIds
    /\ images \in [Owners -> Keys \cup {Null}] /\ cards \in [Cards -> Keys \cup {Null}]
    /\ tails \in [Owners -> Seq(Uploads)]
    /\ \A u \in Uploads : up[u].blob \in Keys \cup {Null}
    /\ sweep.stale \subseteq AssetIds /\ sweep.blobs \subseteq Keys
    /\ pulled \subseteq Keys

\* Uploads that arrive together do not share one allowance: no owner is charged
\* for more than the quota, in whatever order documents and images come
\* (assetService.ts:173-177).
QuotaKept == \A o \in Owners : Used(o) <= MaxPerUser

\* Collecting never takes the bytes of an established reference: a file of a row
\* that something refers to is missing only if an upload was about to refer to
\* it, had looked for another file than the row has by now, or preview art was
\* collected that an image shows (assetService.ts:559-564).
ReferencedKept ==
    \A b \in Stored : ~Unused(b) => blobs[b].key \in files \/ b \in pulled

\* An upload that succeeds can be read, even when the row with its bytes had lost
\* its file, unless the file went after the upload had looked, or the row has got
\* another one since it was found (assetService.ts:105-122).
UploadsReadable ==
    [][\A u \in Uploads :
           up[u].pc = "link" /\ up'[u].pc # "link" /\ up[u].blob \in Stored
               => up[u].misled \/ blobs[up[u].blob].key \in files]_storeVars

\* Every upload is answered: none waits for ever behind one that failed.
UploadsEnd == []<>(\A u \in Uploads : up[u].pc \in {"new", "done"})

\* What nothing refers to any more is collected in the end
\* (assetService.ts:503-508), unless it was claimed and left behind.
OrphansGo == []<>(\A b \in Stored : Unused(b) => blobs[b].state = "DELETING")

\* The rows of the store agree with its files and with the allowance of their
\* owners, however uploads and collections interleave (assetService.ts:173-177,
\* 559-564).
StoreSound == StoreTypeOK /\ ReferencedKept /\ QuotaKept

\* Nobody waits for ever and nothing stays for ever (assetService.ts:178-190,
\* 503-508).
StoreSettles == UploadsEnd /\ OrphansGo

=============================================================================
