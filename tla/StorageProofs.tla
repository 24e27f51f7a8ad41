----------------------------- MODULE StorageProofs -----------------------------
(***************************************************************************)
(* Proofs about what a board keeps.                                        *)
(*                                                                         *)
(* DrawingSave: scene, documents, widget pages and history stay one whole,  *)
(* no editor's work is overwritten, no file or mark is lost, and nothing is *)
(* written after access was revoked, for any number of elements, documents, *)
(* writers, versions and snapshots.                                        *)
(*                                                                         *)
(* BlobStore: every row that something refers to has its file, an owner     *)
(* keeps to the allowance, and what an upload refers to can be read, for    *)
(* any owners, uploads, previews, bytes and sizes.                          *)
(***************************************************************************)
EXTENDS DrawingSave, BlobStore, SequenceTheorems, FiniteSetTheorems,
        WellFoundedInduction, TLAPS

\* What a request has read is the row as it was, or as it still is: the version
\* tells.  A clean-up writes the scene it has read, and a save drops no file
\* that the row had then.
Read(r) ==
    /\ r.kind \in {"save", "trim", "orphans"} =>
          /\ r.base.version <= row.version
          /\ r.base.version = row.version => r.base.elements = row.elements
    /\ r.kind \in {"trim", "orphans"} => r.elements = r.base.elements
    /\ r.kind = "save" /\ ~late /\ r.base.version = row.version => row.files \subseteq r.files

Reads == req \in [Writers -> Request] /\ \A w \in Writers : Read(req[w])

\* A guest's mark stays until a member has confirmed the element.
Marked == \A e \in touched : prov[e] = "touched"

BoardInv ==
    /\ TypeOK /\ DocumentsMatch /\ SnapshotsRestorable /\ FrameKept /\ Marked
    /\ Reads

-----------------------------------------------------------------------------
(* Scenes, documents and snapshots.                                          *)

\* A scene, element by element.
LEMMA SceneParts ==
    ASSUME NEW s \in Scenes
    PROVE  /\ \A e \in Ids : s[e] \in Contents(e)
           /\ s \in [Ids -> Assets \cup Shapes \cup {None}]
           /\ s[Frame] \in Shapes \cup {None}
           /\ \A e \in Ids : \A c \in Contents(e) : [s EXCEPT ![e] = c] \in Scenes
<1>1. Frame \in Ids
  BY BoardAssumption
<1>2. ASSUME NEW e \in Ids, NEW c \in Contents(e)
      PROVE  [s EXCEPT ![e] = c] \in Scenes
  BY <1>2 DEF Scenes, Contents
<1>. QED
  BY <1>1, <1>2 DEF Scenes, Contents

\* The empty scene and the empty request have their types.
LEMMA BlankScene == Blank \in Scenes /\ NoRequest \in Request
BY DEF Blank, Scenes, Contents, NoRequest, Request, Row, Kinds

\* A frame shows no document, so every other element may show any.
LEMMA ShownScene ==
    ASSUME NEW s \in Scenes, NEW old \in Assets, NEW new \in Assets \cup {None}
    PROVE  /\ [e \in Ids |-> IF s[e] = old THEN new ELSE s[e]] \in Scenes
           /\ [e \in Ids |-> IF s[e] = old THEN new ELSE s[e]][Frame] = s[Frame]
<1>. DEFINE t == [e \in Ids |-> IF s[e] = old THEN new ELSE s[e]]
<1>1. Frame \in Ids /\ s[Frame] # old
  BY BoardAssumption, SceneParts
<1>2. ASSUME NEW e \in Ids
      PROVE  t[e] \in Contents(e) /\ t[e] \in Assets \cup Shapes \cup {None}
  BY <1>1, SceneParts DEF Contents
<1>3. t \in [Ids -> Assets \cup Shapes \cup {None}]
  BY <1>2
<1>. QED
  BY <1>1, <1>2, <1>3 DEF Scenes

\* The documents of a board after syncDrawingAssets are those its scene names.
LEMMA SyncedActive ==
    ASSUME NEW lk \in [Assets -> {"none", "PENDING", "ACTIVE"}], NEW scene \in Scenes
    PROVE  /\ Synced(lk, scene) \in [Assets -> {"none", "PENDING", "ACTIVE"}]
           /\ {a \in Assets : Synced(lk, scene)[a] = "ACTIVE"} = Named(scene)
           /\ PagesOf(scene) \in [Ids -> Assets \cup {None}]
BY DEF Synced, Named, PagesOf

\* A write of the row keeps the documents in step with it.
LEMMA WriteMatches ==
    ASSUME TypeOK, NEW scene \in Scenes, NEW kept \in SUBSET Files,
           NEW lk \in [Assets -> {"none", "PENDING", "ACTIVE"}],
           row' = [version |-> row.version + 1, elements |-> scene, files |-> kept],
           links' = Synced(lk, scene), pages' = PagesOf(scene)
    PROVE  /\ row' \in Row /\ row'.version = row.version + 1 /\ row'.elements = scene
           /\ row'.files = kept
           /\ links' \in [Assets -> {"none", "PENDING", "ACTIVE"}]
           /\ pages' \in [Ids -> Assets \cup {None}]
           /\ DocumentsMatch'
<1>1. row.version \in Nat
  BY DEF TypeOK, Row
<1>2. row' \in Row
  BY <1>1 DEF Row
<1>. QED
  BY <1>2, SyncedActive DEF DocumentsMatch, Active

\* A snapshot of a well-formed board.
LEMMA SnapshotParts ==
    ASSUME NEW b \in Row
    PROVE  /\ SnapshotOf(b) \in Snapshot
           /\ SnapshotOf(b).version = b.version /\ SnapshotOf(b).elements = b.elements
           /\ SnapshotOf(b).assets = Active
BY DEF SnapshotOf, Snapshot, Row, Active

\* Pruning keeps the newest of a sequence and no more than MaxSnaps.
LEMMA PrunedSeq ==
    ASSUME NEW S, NEW s \in Seq(S), s # <<>>
    PROVE  /\ Pruned(s) \in Seq(S) /\ Len(Pruned(s)) \in 1 .. MaxSnaps
           /\ Pruned(s)[Len(Pruned(s))] = s[Len(s)]
           /\ \A i \in 1 .. Len(Pruned(s)) : \E j \in 1 .. Len(s) : Pruned(s)[i] = s[j]
<1>0. MaxSnaps \in Nat \ {0} /\ Len(s) \in Nat \ {0} /\ \A i \in 1 .. Len(s) : s[i] \in S
  BY BoardAssumption, EmptySeq, LenProperties, ElementOfSeq
<1>1. CASE Len(s) <= MaxSnaps
  BY <1>0, <1>1 DEF Pruned
<1>2. CASE Len(s) > MaxSnaps
  <2>. DEFINE m == Len(s) - MaxSnaps + 1
              n == Len(s)
              t == SubSeq(s, m, n)
  <2>1. m \in Int /\ n \in Int /\ m <= n /\ 1 <= m /\ n - m + 1 = MaxSnaps
        /\ \A i \in m .. n : s[i] \in S
    BY <1>0, <1>2
  <2>2. Pruned(s) = t
    BY <1>0, <1>2 DEF Pruned
  <2>. HIDE DEF m, n
  <2>3. t \in Seq(S) /\ Len(t) = MaxSnaps /\ \A i \in 1 .. MaxSnaps : t[i] = s[m + i - 1]
    BY <2>1, SubSeqProperties
  <2>4. t[MaxSnaps] = s[n]
    BY <1>0, <2>1, <2>3
  <2>5. \A i \in 1 .. MaxSnaps : m + i - 1 \in 1 .. n
    BY <1>0, <2>1
  <2>. HIDE DEF t
  <2>. QED
    BY <1>0, <2>2, <2>3, <2>4, <2>5 DEF n
<1>. QED
  BY <1>0, <1>1, <1>2

\* A snapshot joins the history.
LEMMA HistoryGrows ==
    ASSUME TypeOK, SnapshotsRestorable, NEW x \in Snapshot,
           Named(x.elements) \subseteq x.assets \cup swept,
           snaps' = Pruned(Append(snaps, x)), swept' = swept
    PROVE  /\ snaps' \in Seq(Snapshot) /\ Len(snaps') <= MaxSnaps
           /\ SnapshotsRestorable'
           /\ snaps' # <<>> /\ snaps'[Len(snaps')] = x
<1>. DEFINE s == Append(snaps, x)
<1>1. /\ snaps \in Seq(Snapshot) /\ Len(snaps) \in Nat
      /\ s \in Seq(Snapshot) /\ Len(s) = Len(snaps) + 1 /\ s[Len(s)] = x
      /\ \A i \in 1 .. Len(snaps) : s[i] = snaps[i]
  <2>1. snaps \in Seq(Snapshot)
    BY DEF TypeOK
  <2>. QED
    BY <2>1, AppendProperties, LenProperties
<1>2. s # <<>>
  BY <1>1, EmptySeq
<1>. HIDE DEF s
<1>3. /\ Pruned(s) \in Seq(Snapshot) /\ Len(Pruned(s)) \in 1 .. MaxSnaps
      /\ Pruned(s)[Len(Pruned(s))] = s[Len(s)]
      /\ \A i \in 1 .. Len(Pruned(s)) : \E j \in 1 .. Len(s) : Pruned(s)[i] = s[j]
  BY <1>1, <1>2, PrunedSeq
<1>4. snaps' = Pruned(s)
  BY DEF s
<1>5. \A j \in 1 .. Len(s) : Named(s[j].elements) \subseteq s[j].assets \cup swept
  <2>1. ASSUME NEW j \in 1 .. Len(s)
        PROVE  Named(s[j].elements) \subseteq s[j].assets \cup swept
    <3>1. CASE j = Len(s)
      BY <1>1, <3>1
    <3>2. CASE j # Len(s)
      <4>1. j \in 1 .. Len(snaps) /\ DOMAIN snaps = 1 .. Len(snaps)
        BY <1>1, <3>2, LenProperties
      <4>2. s[j] = snaps[j]
        BY <1>1, <4>1
      <4>. QED
        BY <4>1, <4>2 DEF SnapshotsRestorable
    <3>. QED
      BY <3>1, <3>2
  <2>. QED
    BY <2>1
<1>6. DOMAIN snaps' = 1 .. Len(snaps')
  BY <1>3, <1>4, LenProperties
<1>7. SnapshotsRestorable'
  <2>1. ASSUME NEW i \in DOMAIN snaps'
        PROVE  Named(snaps'[i].elements) \subseteq snaps'[i].assets \cup swept
    BY <1>3, <1>4, <1>5, <1>6
  <2>. QED
    BY <2>1 DEF SnapshotsRestorable
<1>8. snaps' # <<>>
  BY <1>3, <1>4, <1>6
<1>. QED
  BY <1>1, <1>3, <1>4, <1>7, <1>8, BoardAssumption

-----------------------------------------------------------------------------
(* Requests.                                                               *)

\* What a request is made of.
LEMMA RequestParts ==
    ASSUME NEW r \in Request
    PROVE  /\ r.base \in Row /\ r.base.version \in Nat /\ r.base.elements \in Scenes
           /\ r.elements \in Scenes /\ r.files \in SUBSET Files
           /\ r.old \in Assets \cup {None} /\ r.new \in Assets \cup {None}
BY DEF Request, Row

\* The row is the record of its three parts.
LEMMA RowParts ==
    ASSUME TypeOK
    PROVE  /\ row.version \in Nat /\ row.elements \in Scenes /\ row.files \in SUBSET Files
           /\ row = [version |-> row.version, elements |-> row.elements, files |-> row.files]
BY DEF TypeOK, Row

\* A request that begins has read the row as it is.
LEMMA ReadsBegin ==
    ASSUME Reads, NEW w \in Writers, NEW r \in Request, Read(r),
           req' = [req EXCEPT ![w] = r], row' = row, late' = late
    PROVE  Reads'
<1>1. req' \in [Writers -> Request] /\ \A v \in Writers : req'[v] = IF v = w THEN r ELSE req[v]
  BY DEF Reads
<1>2. ASSUME NEW v \in Writers PROVE Read(req[v])'
  <2>1. CASE v = w
    BY <1>1, <2>1 DEF Read
  <2>2. CASE v # w
    <3>1. req'[v] = req[v] /\ Read(req[v])
      BY <1>1, <2>2 DEF Reads
    <3>. QED
      BY <3>1 DEF Read
  <2>. QED
    BY <2>1, <2>2
<1>. QED
  BY <1>1, <1>2 DEF Reads

\* The others have read a version that is gone when a request is written.
LEMMA ReadsPassed ==
    ASSUME TypeOK, Reads, NEW w \in Writers, Done(w), late' = late,
           row'.version = row.version + 1
    PROVE  Reads'
<1>1. req' \in [Writers -> Request]
      /\ \A v \in Writers : req'[v] = IF v = w THEN NoRequest ELSE req[v]
  BY BlankScene DEF Reads, Done
<1>2. row.version \in Nat
  BY RowParts
<1>3. ASSUME NEW v \in Writers PROVE Read(req[v])'
  <2>1. CASE v = w
    BY <1>1, <2>1 DEF Read, NoRequest
  <2>2. CASE v # w
    <3>1. req'[v] = req[v] /\ Read(req[v]) /\ req[v] \in Request
      BY <1>1, <2>2 DEF Reads
    <3>2. req[v].base.version \in Nat
      BY <3>1, RequestParts
    <3>. QED
      BY <1>2, <3>1, <3>2 DEF Read
  <2>. QED
    BY <2>1, <2>2
<1>. QED
  BY <1>1, <1>3 DEF Reads

-----------------------------------------------------------------------------
(* What a step may do to the board.                                        *)

\* What the steps of the writers promise: a save replaces the scene it was
\* computed from and drops no file, whoever writes may still edit, and what is
\* replaced is in the history.
Promised(w) ==
    /\ Writes(w, {"save"}) => req[w].base.elements = row.elements
    /\ Writes(w, {"save", "restore"}) => Editor(w)
    /\ Writes(w, {"save", "restore", "markdown"}) =>
          /\ snaps' # <<>>
          /\ snaps'[Len(snaps')].version = row.version
          /\ snaps'[Len(snaps')].elements = row.elements
    /\ ~late /\ Writes(w, {"save", "markdown"}) => row.files \subseteq row'.files

Sound == BoardInv' /\ \A w \in Writers : Promised(w)

\* A step that leaves the version alone writes nothing.
LEMMA NothingWritten ==
    ASSUME TypeOK, row'.version = row.version
    PROVE  \A w \in Writers : Promised(w)
<1>1. row.version \in Nat
  BY RowParts
<1>2. ~(row'.version > row.version)
  BY <1>1
<1>. QED
  BY <1>2 DEF Promised, Writes

\* Only the request that ends is written.
LEMMA OneWrites ==
    ASSUME TypeOK, NEW w \in Writers, Done(w), Promised(w)
    PROVE  \A v \in Writers : Promised(v)
<1>1. ASSUME NEW v \in Writers, v # w PROVE Promised(v)
  <2>1. req'[v] = req[v]
    BY <1>1 DEF TypeOK, Done
  <2>2. ASSUME NEW kinds, kinds \subseteq Kinds PROVE ~Writes(v, kinds)
    BY <2>1, <2>2 DEF Writes, Kinds
  <2>. QED
    BY <2>2 DEF Promised, Kinds
<1>. QED
  BY <1>1

\* A step beside the row, its documents and its snapshots.
LEMMA Aside ==
    ASSUME BoardInv, UNCHANGED <<row, snaps, pages, overwritten, swept>>, stale' \subseteq Assets,
           links' \in [Assets -> {"none", "PENDING", "ACTIVE"}], Active' = Active,
           registered' \in BOOLEAN, registered' => row.elements[Frame] \in Shapes \/ registered,
           role' \in [Writers -> {"none", "guest", "member"}],
           late' \in BOOLEAN, creating' \in SUBSET SUBSET Files, aside' \in Nat,
           prov' \in [Ids -> {"unknown", "clean", "touched"}], touched' \subseteq Ids,
           policy' \in BOOLEAN, Marked', Reads'
    PROVE  Sound
<1>1. TypeOK'
  BY DEF BoardInv, TypeOK, Reads
<1>2. DocumentsMatch'
  BY DEF BoardInv, DocumentsMatch
<1>3. SnapshotsRestorable'
  BY DEF BoardInv, SnapshotsRestorable
<1>4. FrameKept'
  BY DEF BoardInv, FrameKept
<1>5. \A w \in Writers : Promised(w)
  BY NothingWritten DEF BoardInv
<1>. QED
  BY <1>1, <1>2, <1>3, <1>4, <1>5 DEF BoardInv, Sound

-----------------------------------------------------------------------------
(* Requests begin.                                                         *)

\* Whatever a request is for, it begins with what it has read.
LEMMA Begins ==
    ASSUME BoardInv, NEW w \in Writers, NEW r, Begin(w, r), r \in Request, Read(r)
    PROVE  Sound
<1>1. Reads'
  BY ReadsBegin DEF BoardInv, Begin
<1>2. Marked' /\ Active' = Active
  BY DEF BoardInv, Marked, Active, Begin
<1>. QED
  BY <1>1, <1>2, Aside DEF BoardInv, TypeOK, Begin, apart

\* A save or an agent's operations read and plan: nothing is written.
LEMMA SaveBegins ==
    ASSUME BoardInv, NEW w \in Writers, SaveBegin(w) \/ OpsBegin(w)
    PROVE  Sound
<1>1. PICK e \in Ids : \E f \in SUBSET Files : \E c \in Contents(e) :
          row.files \subseteq f /\ Begin(w, Prepared(w, e, c, f))
  <2>1. CASE SaveBegin(w)
    <3>1. PICK e \in Ids, f \in SUBSET Files : \E c \in Contents(e) :
              Begin(w, Prepared(w, e, c, Merged(row.files, f)))
      BY <2>1 DEF SaveBegin
    <3>2. PICK g : g = Merged(row.files, f)
      OBVIOUS
    <3>3. g \in SUBSET Files /\ row.files \subseteq g
      BY <3>1, <3>2, RowParts DEF Merged, BoardInv
    <3>4. \E c \in Contents(e) : Begin(w, Prepared(w, e, c, g))
      BY <3>1, <3>2
    <3>. QED
      BY <3>1, <3>3, <3>4
  <2>2. CASE OpsBegin(w)
    <3>1. PICK e \in Ids : \E c \in Contents(e) : Begin(w, Prepared(w, e, c, row.files))
      BY <2>2 DEF OpsBegin
    <3>2. PICK g : g = row.files
      OBVIOUS
    <3>3. g \in SUBSET Files /\ row.files \subseteq g
      BY <3>2, RowParts DEF BoardInv
    <3>4. \E c \in Contents(e) : Begin(w, Prepared(w, e, c, g))
      BY <3>1, <3>2
    <3>. QED
      BY <3>1, <3>3, <3>4
  <2>. QED
    BY <2>1, <2>2
<1>2. PICK f \in SUBSET Files : \E c \in Contents(e) :
          row.files \subseteq f /\ Begin(w, Prepared(w, e, c, f))
  BY <1>1
<1>3. PICK c \in Contents(e) : row.files \subseteq f /\ Begin(w, Prepared(w, e, c, f))
  BY <1>2
<1>. DEFINE scene == [row.elements EXCEPT ![e] = c]
<1>4. scene \in Scenes
  BY <1>3, RowParts, SceneParts DEF BoardInv
<1>. HIDE DEF scene
<1>5. PICK r : r = Prepared(w, e, c, f)
  OBVIOUS
<1>6. r = [NoRequest EXCEPT !.kind = "save", !.base = row, !.elements = scene,
                            !.files = f, !.guest = IsGuest(w)]
  BY <1>5 DEF Prepared, scene
<1>7. row \in Row /\ IsGuest(w) \in BOOLEAN
  BY DEF BoardInv, TypeOK, IsGuest
<1>8. r \in Request
  BY <1>3, <1>4, <1>6, <1>7, BlankScene DEF NoRequest, Request, Kinds
<1>9. Read(r)
  BY <1>3, <1>6, <1>7 DEF Read, NoRequest, Row
<1>. QED
  BY <1>3, <1>5, <1>8, <1>9, Begins

\* A restore keeps the snapshot it has read: nothing is written.
LEMMA RestoreBegins ==
    ASSUME BoardInv, NEW w \in Writers, RestoreBegin(w)
    PROVE  Sound
<1>1. PICK i \in DOMAIN snaps :
          Begin(w, [NoRequest EXCEPT !.kind = "restore", !.guest = IsGuest(w),
                                     !.elements = snaps[i].elements, !.files = snaps[i].files,
                                     !.snap = snaps[i].version])
  BY DEF RestoreBegin
<1>2. snaps[i] \in Snapshot
  <2>1. snaps \in Seq(Snapshot)
    BY DEF BoardInv, TypeOK
  <2>. QED
    BY <2>1, ElementOfSeq, LenProperties
<1>3. PICK r : r = [NoRequest EXCEPT !.kind = "restore", !.guest = IsGuest(w),
                                     !.elements = snaps[i].elements, !.files = snaps[i].files,
                                     !.snap = snaps[i].version]
  OBVIOUS
<1>4. IsGuest(w) \in BOOLEAN
  BY DEF IsGuest
<1>5. r \in Request
  BY <1>2, <1>3, <1>4, BlankScene DEF NoRequest, Request, Kinds, Snapshot
<1>6. Read(r)
  BY <1>3 DEF Read, NoRequest
<1>. QED
  BY <1>1, <1>3, <1>5, <1>6, Begins

\* A clean-up reads the row and plans what to leave of it.
LEMMA PlanBegins ==
    ASSUME BoardInv, NEW w \in Writers, TrimBegin(w) \/ OrphansBegin(w)
    PROVE  Sound
<1>1. PICK kind \in {"trim", "orphans"}, f \in SUBSET row.files : Plan(w, kind, f)
  <2>1. CASE TrimBegin(w)
    BY <2>1 DEF TrimBegin
  <2>2. CASE OrphansBegin(w)
    <3>1. PICK f \in SUBSET row.files : Plan(w, "orphans", row.files \ f)
      BY <2>2 DEF OrphansBegin
    <3>2. row.files \ f \in SUBSET row.files
      OBVIOUS
    <3>. QED
      BY <3>1, <3>2
  <2>. QED
    BY <2>1, <2>2
<1>2. PICK r : r = [NoRequest EXCEPT !.kind = kind, !.base = row,
                                     !.elements = row.elements, !.files = f]
  OBVIOUS
<1>3. Begin(w, r)
  BY <1>1, <1>2 DEF Plan
<1>4. row \in Row /\ row.version \in Nat /\ row.elements \in Scenes /\ f \in SUBSET Files
  BY RowParts DEF BoardInv, TypeOK
<1>5. r \in Request
  BY <1>2, <1>4, BlankScene DEF NoRequest, Request, Kinds
<1>6. Read(r)
  BY <1>1, <1>2, <1>4 DEF Read, NoRequest
<1>. QED
  BY <1>3, <1>5, <1>6, Begins

\* A new upload is pending, and pending is not active.
LEMMA DocumentBegins ==
    ASSUME BoardInv, NEW w \in Writers, Upload(w) \/ MarkdownBegin(w)
    PROVE  Sound
<1>. SUFFICES ASSUME NEW n \in Assets, Fresh(n), links' = [links EXCEPT ![n] = "PENDING"],
                     UNCHANGED <<row, snaps, pages, prov, registered, creating, role,
                                 overwritten, late, aside, touched, apart>>, Reads'
              PROVE  Sound
  <2>1. CASE Upload(w)
    <3>1. Reads'
      BY <2>1 DEF Upload, BoardInv, Reads, Read
    <3>. QED
      BY <2>1, <3>1 DEF Upload
  <2>2. CASE MarkdownBegin(w)
    <3>1. PICK a \in Active, n \in Assets :
              /\ Fresh(n) /\ links' = [links EXCEPT ![n] = "PENDING"]
              /\ req' = [req EXCEPT ![w] = [NoRequest EXCEPT !.kind = "markdown",
                                                             !.old = a, !.new = n]]
      BY <2>2 DEF MarkdownBegin
    <3>2. PICK r : r = [NoRequest EXCEPT !.kind = "markdown", !.old = a, !.new = n]
      OBVIOUS
    <3>3. r \in Request
      BY <3>1, <3>2, BlankScene DEF NoRequest, Request, Kinds, Active
    <3>4. Read(r)
      BY <3>2 DEF Read, NoRequest
    <3>5. row' = row /\ late' = late
      BY <2>2 DEF MarkdownBegin
    <3>6. Reads'
      BY <3>1, <3>2, <3>3, <3>4, <3>5, ReadsBegin DEF BoardInv
    <3>. QED
      BY <2>2, <3>1, <3>6 DEF MarkdownBegin
  <2>. QED
    BY <2>1, <2>2
<1>1. links' \in [Assets -> {"none", "PENDING", "ACTIVE"}]
  BY DEF BoardInv, TypeOK
<1>2. Active' = Active
  <2>1. links[n] = "none"
    BY DEF Fresh
  <2>2. ASSUME NEW a \in Assets PROVE links'[a] = "ACTIVE" <=> links[a] = "ACTIVE"
    BY <2>1 DEF BoardInv, TypeOK
  <2>. QED
    BY <2>2 DEF Active
<1>3. Marked'
  BY DEF BoardInv, Marked
<1>. QED
  BY <1>1, <1>2, <1>3, Aside DEF BoardInv, TypeOK, apart

-----------------------------------------------------------------------------
(* Requests are written.                                                   *)

\* Marks and provenance move together.
LEMMA Marks ==
    ASSUME TypeOK, Marked, NEW guest \in BOOLEAN, NEW changed \in SUBSET Ids, NEW created,
           Mark(guest, changed, created)
    PROVE  /\ prov' \in [Ids -> {"unknown", "clean", "touched"}] /\ touched' \subseteq Ids
           /\ Marked'
BY DEF Mark, Recorded, Marked, TypeOK

\* A write with a snapshot of the row it replaces.
LEMMA Written ==
    ASSUME BoardInv, NEW w \in Writers, Done(w),
           NEW b \in Row, b.version = row.version, b.elements = row.elements,
           NEW scene \in Scenes, NEW kept \in SUBSET Files,
           NEW lk \in [Assets -> {"none", "PENDING", "ACTIVE"}],
           snaps' = Pruned(Append(snaps, SnapshotOf(b))), Write(lk, scene, kept),
           UNCHANGED <<registered, creating, role, overwritten, late, aside, apart>>,
           registered /\ ~overwritten => scene[Frame] \in Shapes,
           prov' \in [Ids -> {"unknown", "clean", "touched"}], touched' \subseteq Ids, Marked',
           req[w].kind = "save" => req[w].base.elements = row.elements,
           req[w].kind \in {"save", "restore"} => Editor(w),
           ~late /\ req[w].kind \in {"save", "markdown"} => row.files \subseteq kept
    PROVE  Sound
<1>1. row' = [version |-> row.version + 1, elements |-> scene, files |-> kept]
      /\ links' = Synced(lk, scene) /\ pages' = PagesOf(scene)
  BY DEF Write
<1>2. /\ row' \in Row /\ row'.version = row.version + 1 /\ row'.elements = scene
      /\ row'.files = kept
      /\ links' \in [Assets -> {"none", "PENDING", "ACTIVE"}]
      /\ pages' \in [Ids -> Assets \cup {None}]
      /\ DocumentsMatch'
  BY <1>1, WriteMatches DEF BoardInv
<1>3. Reads'
  BY <1>2, ReadsPassed DEF BoardInv
<1>4. PICK x : x = SnapshotOf(b)
  OBVIOUS
<1>5. /\ x \in Snapshot /\ x.version = row.version /\ x.elements = row.elements
      /\ x.assets = Active
  BY <1>4, SnapshotParts
<1>6. /\ snaps' \in Seq(Snapshot) /\ Len(snaps') <= MaxSnaps /\ SnapshotsRestorable'
      /\ snaps' # <<>> /\ snaps'[Len(snaps')] = x
  BY <1>4, <1>5, HistoryGrows DEF BoardInv, DocumentsMatch, apart
<1>7. TypeOK'
  BY <1>2, <1>3, <1>6 DEF BoardInv, TypeOK, Reads, apart
<1>8. FrameKept'
  BY <1>2 DEF FrameKept
<1>9. Promised(w)
  BY <1>2, <1>5, <1>6 DEF Promised, Writes
<1>. QED
  BY <1>2, <1>3, <1>6, <1>7, <1>8, <1>9, OneWrites DEF BoardInv, Sound

\* The transaction of a save, or of an agent's operations.
LEMMA SaveCommits ==
    ASSUME BoardInv, NEW w \in Writers, SaveCommit(w)
    PROVE  Sound
<1>1. PICK r : r = req[w]
  OBVIOUS
<1>2. PICK guest : guest = (r.guest \/ IsGuest(w))
  OBVIOUS
<1>3. /\ r.kind = "save" /\ MaySave(w) /\ Unmoved(r)
      /\ snaps' = Pruned(Append(snaps, SnapshotOf(r.base)))
      /\ Write(links, r.elements, r.files)
      /\ Mark(guest, Changed(r.base.elements, r.elements), Created(r.base.elements, r.elements))
      /\ Done(w)
      /\ UNCHANGED <<registered, creating, role, overwritten, late, aside, apart>>
  BY <1>1, <1>2 DEF SaveCommit
<1>4. r \in Request /\ Read(r)
  BY <1>1 DEF BoardInv, Reads
<1>5. /\ r.base \in Row /\ r.base.version = row.version /\ r.base.elements = row.elements
      /\ r.elements \in Scenes /\ r.files \in SUBSET Files
      /\ ~late => row.files \subseteq r.files
  BY <1>3, <1>4, RequestParts DEF Unmoved, Read
<1>6. guest \in BOOLEAN
  BY <1>2, <1>4 DEF Request, IsGuest
<1>7. /\ prov' \in [Ids -> {"unknown", "clean", "touched"}] /\ touched' \subseteq Ids
      /\ Marked'
  <2>1. Changed(r.base.elements, r.elements) \in SUBSET Ids
    BY DEF Changed
  <2>. QED
    BY <1>3, <1>6, <2>1, Marks DEF BoardInv
<1>8. Editor(w) /\ (registered => r.elements[Frame] \in Shapes)
  BY <1>1, <1>3 DEF MaySave, StillEditable, FramesOk
<1>. QED
  BY <1>1, <1>3, <1>5, <1>7, <1>8, Written DEF BoardInv, TypeOK

\* The transaction of a restore.
LEMMA RestoreCommits ==
    ASSUME BoardInv, NEW w \in Writers, RestoreCommit(w)
    PROVE  Sound
<1>1. PICK r : r = req[w]
  OBVIOUS
<1>2. PICK guest : guest = (r.guest \/ IsGuest(w))
  OBVIOUS
<1>3. PICK lk : lk = [a \in Assets |-> IF a \in Named(r.elements) THEN "ACTIVE" ELSE links[a]]
  OBVIOUS
<1>4. /\ r.kind = "restore" /\ FramesOk(r.elements) /\ StillEditable(w)
      /\ snaps' = Pruned(Append(snaps, SnapshotOf(row)))
      /\ Write(lk, r.elements, r.files)
      /\ Mark(guest, Changed(row.elements, r.elements), {})
      /\ Done(w)
      /\ UNCHANGED <<registered, creating, role, overwritten, late, aside, apart>>
  BY <1>1, <1>2, <1>3 DEF RestoreCommit, Backup
<1>5. r \in Request /\ r.elements \in Scenes /\ r.files \in SUBSET Files /\ row \in Row
  BY <1>1, RequestParts DEF BoardInv, TypeOK
<1>6. lk \in [Assets -> {"none", "PENDING", "ACTIVE"}]
  BY <1>3 DEF BoardInv, TypeOK
<1>7. guest \in BOOLEAN
  BY <1>2, <1>5 DEF Request, IsGuest
<1>8. /\ prov' \in [Ids -> {"unknown", "clean", "touched"}] /\ touched' \subseteq Ids
      /\ Marked'
  <2>1. Changed(row.elements, r.elements) \in SUBSET Ids
    BY DEF Changed
  <2>. QED
    BY <1>4, <1>7, <2>1, Marks DEF BoardInv
<1>9. Editor(w) /\ (registered => r.elements[Frame] \in Shapes)
  BY <1>4 DEF StillEditable, FramesOk
<1>. QED
  BY <1>1, <1>4, <1>5, <1>6, <1>8, <1>9, Written

\* The transaction that replaces a Markdown document.
LEMMA MarkdownCommits ==
    ASSUME BoardInv, NEW w \in Writers, MarkdownCommit(w)
    PROVE  Sound
<1>1. PICK r : r = req[w]
  OBVIOUS
<1>2. PICK scene :
          scene = [e \in Ids |-> IF row.elements[e] = r.old THEN r.new ELSE row.elements[e]]
  OBVIOUS
<1>3. /\ r.kind = "markdown" /\ r.old \in Named(row.elements)
      /\ snaps' = Pruned(Append(snaps, SnapshotOf(row)))
      /\ Write(links, scene, row.files)
      /\ Done(w)
      /\ UNCHANGED <<prov, registered, creating, role, overwritten, late, aside, touched, apart>>
  BY <1>1, <1>2 DEF MarkdownCommit
<1>4. /\ row \in Row /\ row.elements \in Scenes /\ row.files \in SUBSET Files
      /\ r.old \in Assets /\ r.new \in Assets \cup {None}
  BY <1>1, <1>3, RowParts, RequestParts DEF BoardInv, TypeOK, Named
<1>5. scene \in Scenes /\ scene[Frame] = row.elements[Frame]
  BY <1>2, <1>4, ShownScene
<1>6. registered /\ ~overwritten => scene[Frame] \in Shapes
  BY <1>5 DEF BoardInv, FrameKept
<1>7. Marked'
  BY <1>3 DEF BoardInv, Marked
<1>. QED
  BY <1>1, <1>3, <1>4, <1>5, <1>6, <1>7, Written DEF BoardInv, TypeOK

\* A clean-up that overwrites nothing writes the scene that is there.
LEMMA CleanCommits ==
    ASSUME BoardInv, NEW w \in Writers, TrimCommit(w) \/ OrphansCommit(w)
    PROVE  Sound
<1>1. PICK r : r = req[w]
  OBVIOUS
<1>2. /\ r.kind \in {"trim", "orphans"}
      /\ row' = [version |-> row.version + 1, elements |-> r.elements, files |-> r.files]
      /\ links' = Synced(links, r.elements)
      /\ pages' = PagesOf(r.elements)
      /\ overwritten' = (overwritten \/ r.base.version # row.version)
      /\ Done(w)
      /\ UNCHANGED <<snaps, prov, registered, creating, role, late, aside, touched, apart>>
  BY <1>1 DEF TrimCommit, OrphansCommit, CleanWrite, CleanVersion
<1>3. r \in Request /\ Read(r) /\ r.elements \in Scenes /\ r.files \in SUBSET Files
  BY <1>1, RequestParts DEF BoardInv, Reads
<1>4. /\ row' \in Row /\ row'.version = row.version + 1 /\ row'.elements = r.elements
      /\ links' \in [Assets -> {"none", "PENDING", "ACTIVE"}]
      /\ pages' \in [Ids -> Assets \cup {None}]
      /\ DocumentsMatch'
  BY <1>2, <1>3, WriteMatches DEF BoardInv, TypeOK
<1>5. Reads'
  BY <1>2, <1>4, ReadsPassed DEF BoardInv
<1>6. FrameKept'
  <2>1. CASE r.base.version = row.version /\ ~overwritten
    <3>1. r.elements = row.elements
      BY <1>2, <1>3, <2>1 DEF Read
    <3>. QED
      BY <1>2, <1>4, <2>1, <3>1 DEF BoardInv, FrameKept
  <2>2. CASE ~(r.base.version = row.version /\ ~overwritten)
    <3>1. overwritten'
      BY <1>2, <2>2, ZenonT(10)
    <3>. QED
      BY <3>1 DEF FrameKept
  <2>. QED
    BY <2>1, <2>2
<1>7. overwritten' \in BOOLEAN
  BY <1>2 DEF BoardInv, TypeOK
<1>8. TypeOK'
  BY <1>2, <1>4, <1>5, <1>7 DEF BoardInv, TypeOK, Reads, apart
<1>9. SnapshotsRestorable' /\ Marked'
  BY <1>2 DEF BoardInv, SnapshotsRestorable, Marked, apart
<1>10. Promised(w)
  BY <1>1, <1>2 DEF Promised, Writes
<1>. QED
  BY <1>2, <1>4, <1>5, <1>6, <1>8, <1>9, <1>10, OneWrites DEF BoardInv, Sound

-----------------------------------------------------------------------------
(* Beside the requests.                                                    *)

\* A request that is refused writes nothing.
LEMMA GivesUp ==
    ASSUME BoardInv, NEW w \in Writers, GiveUp(w)
    PROVE  Sound
<1>1. NoRequest \in Request /\ Read(NoRequest)
  BY BlankScene DEF Read, NoRequest
<1>2. Reads'
  BY <1>1, ReadsBegin DEF BoardInv, GiveUp, Done
<1>3. Marked' /\ Active' = Active
  BY DEF BoardInv, Marked, Active, GiveUp
<1>. QED
  BY <1>2, <1>3, Aside DEF BoardInv, TypeOK, GiveUp, apart

\* The files of a create are not late only when nobody has read the row.
LEMMA FilesCreated ==
    ASSUME BoardInv, CreateFiles
    PROVE  Sound
<1>1. PICK f \in creating : row' = [row EXCEPT !.files = f]
  BY DEF CreateFiles
<1>2. f \in SUBSET Files
  BY DEF BoardInv, TypeOK
<1>3. row' \in Row /\ row'.version = row.version /\ row'.elements = row.elements
  BY <1>1, <1>2 DEF BoardInv, TypeOK, Row
<1>4. late' = (row.version # 1 \/ \E w \in Writers : ~Idle(w))
  BY DEF CreateFiles
<1>5. late' \in BOOLEAN
  BY <1>4
<1>6. ~late' => \A w \in Writers : req[w].kind = "none"
  BY <1>4, Zenon DEF Idle
<1>7. UNCHANGED <<snaps, links, pages, prov, registered, role, req, overwritten, aside, touched,
                  apart>>
      /\ creating' \in SUBSET SUBSET Files
  BY DEF CreateFiles
<1>8. Reads'
  <2>1. ASSUME NEW w \in Writers PROVE Read(req[w])'
    <3>1. Read(req[w])
      BY DEF BoardInv, Reads
    <3>2. ~late' => req[w].kind = "none"
      BY <1>6
    <3>. QED
      BY <1>3, <1>7, <3>1, <3>2 DEF Read
  <2>. QED
    BY <1>7, <2>1 DEF BoardInv, Reads
<1>9. TypeOK'
  BY <1>3, <1>5, <1>7 DEF BoardInv, TypeOK, apart
<1>10. DocumentsMatch' /\ SnapshotsRestorable' /\ FrameKept' /\ Marked'
  BY <1>3, <1>7 DEF BoardInv, DocumentsMatch, Active, SnapshotsRestorable, FrameKept, Marked,
                     apart
<1>. QED
  BY <1>3, <1>8, <1>9, <1>10, NothingWritten DEF BoardInv, Sound

\* Sharing, registration, confirmation and live updates leave the board alone.
LEMMA Besides ==
    ASSUME BoardInv, Beside
    PROVE  Sound
<1>1. aside' \in Nat
  BY DEF Beside, BoardInv, TypeOK
<1>2. ASSUME NEW w \in Writers, ChangeRole(w) PROVE Sound
  <2>1. role' \in [Writers -> {"none", "guest", "member"}]
    BY <1>2 DEF ChangeRole, BoardInv, TypeOK
  <2>2. Reads' /\ Marked' /\ Active' = Active
    BY <1>2 DEF ChangeRole, BoardInv, Reads, Read, Marked, Active
  <2>. QED
    BY <1>1, <1>2, <2>1, <2>2, Aside DEF ChangeRole, BoardInv, TypeOK, apart
<1>8. ASSUME SetPolicy PROVE Sound
  <2>1. policy' \in BOOLEAN
    BY <1>8 DEF SetPolicy, BoardInv, TypeOK
  <2>2. Reads' /\ Marked' /\ Active' = Active
    BY <1>8 DEF SetPolicy, BoardInv, Reads, Read, Marked, Active
  <2>. QED
    BY <1>1, <1>8, <2>1, <2>2, Aside DEF SetPolicy, BoardInv, TypeOK
<1>3. ASSUME NEW w \in Writers, ConfirmClean(w) PROVE Sound
  <2>1. PICK e \in InFrame : prov' = [prov EXCEPT ![e] = "clean"] /\ touched' = touched \ {e}
    BY <1>3 DEF ConfirmClean
  <2>2. prov' \in [Ids -> {"unknown", "clean", "touched"}] /\ touched' \subseteq Ids /\ Marked'
    BY <2>1 DEF BoardInv, TypeOK, Marked
  <2>3. Reads' /\ Active' = Active
    BY <1>3 DEF ConfirmClean, BoardInv, Reads, Read, Active
  <2>. QED
    BY <1>1, <1>3, <2>2, <2>3, Aside DEF ConfirmClean, BoardInv, TypeOK, apart
<1>4. ASSUME NEW w \in Writers, GuestDraws(w) PROVE Sound
  <2>1. PICK e \in Ids : Mark(TRUE, {e}, {})
    BY <1>4 DEF GuestDraws
  <2>2. prov' \in [Ids -> {"unknown", "clean", "touched"}] /\ touched' \subseteq Ids /\ Marked'
    BY <2>1, Marks DEF BoardInv
  <2>3. Reads' /\ Active' = Active
    BY <1>4 DEF GuestDraws, BoardInv, Reads, Read, Active
  <2>. QED
    BY <1>1, <1>4, <2>2, <2>3, Aside DEF GuestDraws, BoardInv, TypeOK, apart
<1>5. ASSUME RegisterContext PROVE Sound
  <2>1. prov' \in [Ids -> {"unknown", "clean", "touched"}] /\ touched' \subseteq Ids /\ Marked'
    BY <1>5 DEF RegisterContext, BoardInv, TypeOK, Marked
  <2>2. Reads' /\ Active' = Active
    BY <1>5 DEF RegisterContext, BoardInv, Reads, Read, Active
  <2>. QED
    BY <1>1, <1>5, <2>1, <2>2, Aside DEF RegisterContext, BoardInv, TypeOK, apart
<1>6. ASSUME ExpireSnapshots PROVE Sound
  <2>1. PICK n \in 1 .. Len(snaps) : snaps' = SubSeq(snaps, n + 1, Len(snaps))
    BY <1>6 DEF ExpireSnapshots
  <2>2. snaps \in Seq(Snapshot) /\ Len(snaps) \in Nat /\ n \in Nat /\ Len(snaps) <= MaxSnaps
    BY <2>1, LenProperties DEF BoardInv, TypeOK
  <2>3. /\ snaps' \in Seq(Snapshot) /\ Len(snaps') \in Nat /\ Len(snaps') <= Len(snaps)
        /\ \A i \in 1 .. Len(snaps') : \E j \in 1 .. Len(snaps) : snaps'[i] = snaps[j]
    <3>1. CASE n + 1 <= Len(snaps)
      <4>1. \A i \in n + 1 .. Len(snaps) : snaps[i] \in Snapshot
        BY <2>2, ElementOfSeq
      <4>2. /\ snaps' \in Seq(Snapshot) /\ Len(snaps') = Len(snaps) - n
            /\ \A i \in 1 .. Len(snaps) - n : snaps'[i] = snaps[n + 1 + i - 1]
        BY <2>1, <2>2, <3>1, <4>1, SubSeqProperties
      <4>. QED
        BY <2>2, <3>1, <4>2
    <3>2. CASE ~(n + 1 <= Len(snaps))
      <4>1. n + 1 > Len(snaps)
        BY <2>2, <3>2
      <4>2. snaps' = <<>>
        BY <2>1, <2>2, <4>1, SubSeqProperties
      <4>. QED
        BY <2>2, <4>2, EmptySeq
    <3>. QED
      BY <3>1, <3>2
  <2>4. SnapshotsRestorable'
    BY <1>6, <2>2, <2>3, LenProperties DEF ExpireSnapshots, BoardInv, SnapshotsRestorable, apart
  <2>5. Reads' /\ Marked' /\ DocumentsMatch' /\ FrameKept'
    BY <1>6 DEF ExpireSnapshots, BoardInv, Reads, Read, Marked, DocumentsMatch, Active, FrameKept,
                  apart
  <2>6. TypeOK'
    BY <1>1, <1>6, <2>2, <2>3, BoardAssumption DEF ExpireSnapshots, BoardInv, TypeOK, apart
  <2>7. \A w \in Writers : Promised(w)
    BY <1>6, NothingWritten DEF ExpireSnapshots, BoardInv
  <2>. QED
    BY <2>4, <2>5, <2>6, <2>7 DEF BoardInv, Sound
<1>7. ASSUME SweepReads PROVE Sound
  <2>1. stale' \subseteq Assets
    BY <1>7 DEF SweepReads
  <2>2. Reads' /\ Marked' /\ Active' = Active
    BY <1>7 DEF SweepReads, BoardInv, Reads, Read, Marked, Active
  <2>. QED
    BY <1>1, <1>7, <2>1, <2>2, Aside DEF SweepReads, BoardInv, TypeOK
<1>. QED
  BY <1>2, <1>3, <1>4, <1>5, <1>6, <1>7, <1>8 DEF Beside

\* The link that the hourly job deletes is of no document, or of one it is known
\* to have taken.
LEMMA Sweeps ==
    ASSUME BoardInv, SweepDeletes
    PROVE  Sound
<1>1. UNCHANGED <<row, snaps, pages, prov, registered, creating, role, req, overwritten, late,
                  aside, touched, policy>>
  BY DEF SweepDeletes
<1>2. PICK a \in stale :
          \/ /\ links' = [links EXCEPT ![a] = "none"]
             /\ swept' = IF links[a] = "ACTIVE" THEN swept \cup {a} ELSE swept
             /\ stale' = stale \ {a}
          \/ stale' = {} /\ UNCHANGED <<links, swept>>
  BY DEF SweepDeletes
<1>3. /\ links' \in [Assets -> {"none", "PENDING", "ACTIVE"}]
      /\ stale' \subseteq Assets /\ swept' \subseteq Assets /\ swept \subseteq swept'
      /\ Active' \subseteq Active /\ Active \subseteq Active' \cup swept'
  BY <1>2 DEF BoardInv, TypeOK, Active
<1>4. TypeOK'
  BY <1>1, <1>3 DEF BoardInv, TypeOK
<1>5. DocumentsMatch' /\ SnapshotsRestorable'
  BY <1>1, <1>3 DEF BoardInv, DocumentsMatch, SnapshotsRestorable
<1>6. FrameKept' /\ Marked' /\ Reads'
  BY <1>1 DEF BoardInv, FrameKept, Marked, Reads, Read
<1>. QED
  BY <1>1, <1>4, <1>5, <1>6, NothingWritten DEF BoardInv, Sound

-----------------------------------------------------------------------------
(* The board.                                                              *)

\* The drawing as it is created.
LEMMA BoardBegins == Init => BoardInv
<1>. SUFFICES ASSUME Init PROVE BoardInv
  OBVIOUS
<1>1. PICK f \in SUBSET Files, scene \in Scenes :
          /\ row = [version |-> 1, elements |-> scene, files |-> f]
          /\ creating \in {{}} \cup (IF scene = Blank THEN {{f}} ELSE {})
          /\ links = [a \in Assets |-> IF a \in Named(scene) THEN "ACTIVE" ELSE "none"]
          /\ pages = PagesOf(scene)
          /\ registered \in {FALSE, scene[Frame] \in Shapes}
          /\ prov = [e \in Ids |-> IF registered /\ e \in InFrame /\ scene[e] # None
                                  THEN "touched" ELSE "unknown"]
  BY DEF Init
<1>2. row \in Row /\ row.elements = scene
  BY <1>1 DEF Row
<1>3. creating \in SUBSET SUBSET Files
  BY <1>1
<1>4. /\ links \in [Assets -> {"none", "PENDING", "ACTIVE"}]
      /\ pages \in [Ids -> Assets \cup {None}]
      /\ DocumentsMatch
  BY <1>1, <1>2 DEF Named, PagesOf, DocumentsMatch, Active
<1>5. registered \in BOOLEAN /\ FrameKept
  <2>1. registered = FALSE \/ registered = (scene[Frame] \in Shapes)
    BY <1>1, Zenon
  <2>2. registered => scene[Frame] \in Shapes
    BY <2>1, Zenon
  <2>3. registered \in BOOLEAN
    <3>1. (scene[Frame] \in Shapes) = TRUE \/ (scene[Frame] \in Shapes) = FALSE
      OBVIOUS
    <3>. QED
      BY <2>1, <3>1
  <2>. QED
    BY <1>2, <2>2, <2>3 DEF FrameKept
<1>6. prov \in [Ids -> {"unknown", "clean", "touched"}]
  BY <1>1
<1>7. /\ snaps = <<>> /\ overwritten = FALSE /\ late = FALSE /\ aside = 0 /\ touched = {}
      /\ role \in [Writers -> {"none", "guest", "member"}]
      /\ req = [w \in Writers |-> NoRequest] /\ stale = {} /\ swept = {}
      /\ policy \in BOOLEAN
  BY DEF Init
<1>8. Reads
  BY <1>7, BlankScene DEF Reads, Read, NoRequest
<1>9. snaps \in Seq(Snapshot) /\ Len(snaps) <= MaxSnaps /\ SnapshotsRestorable
  BY <1>7, EmptySeq, BoardAssumption DEF SnapshotsRestorable
<1>10. Marked
  BY <1>7 DEF Marked
<1>. QED
  BY <1>2, <1>3, <1>4, <1>5, <1>6, <1>7, <1>8, <1>9, <1>10 DEF BoardInv, TypeOK, Reads

\* Every step keeps the board sound.
LEMMA BoardSteps ==
    ASSUME BoardInv, [Next]_vars
    PROVE  Sound
<1>1. ASSUME NEW w \in Writers,
             Saving(w) \/ Restoring(w) \/ Documents(w) \/ Cleaning(w) \/ GiveUp(w)
      PROVE  Sound
  <2>1. CASE Saving(w)
    BY <2>1, SaveBegins, SaveCommits DEF Saving
  <2>2. CASE Restoring(w)
    BY <2>2, RestoreBegins, RestoreCommits DEF Restoring
  <2>3. CASE Documents(w)
    BY <2>3, DocumentBegins, MarkdownCommits DEF Documents
  <2>4. CASE Cleaning(w)
    BY <2>4, PlanBegins, CleanCommits DEF Cleaning
  <2>5. CASE GiveUp(w)
    BY <2>5, GivesUp
  <2>. QED
    BY <1>1, <2>1, <2>2, <2>3, <2>4, <2>5
<1>2. CASE UNCHANGED vars
  <2>1. Reads' /\ Marked' /\ Active' = Active
    BY <1>2 DEF vars, BoardInv, Reads, Read, Marked, Active
  <2>. QED
    BY <1>2, <2>1, Aside DEF vars, BoardInv, TypeOK
<1>. QED
  BY <1>1, <1>2, FilesCreated, Besides, Sweeps DEF Next

\* The board is sound in every reachable state.
LEMMA BoardStays == Spec => []BoardInv
<1>1. BoardInv /\ [Next]_vars => BoardInv'
  BY BoardSteps DEF Sound
<1>. QED
  BY <1>1, BoardBegins, PTL DEF Spec

\* Scene, documents, widget pages and history stay one whole in every order of
\* saves, restores, replacements, clean-ups, expiries and sharing changes
\* (drawingHistoryRoutes.ts:187, assetService.ts:400-406, 453-458,
\* boardContexts.ts:131-136).
THEOREM WholeBoard == Spec => []BoardWhole
<1>1. BoardInv => BoardWhole
  BY DEF BoardInv, BoardWhole
<1>. QED
  BY <1>1, BoardStays, PTL

\* No element that a guest has changed passes for confirmed clean
\* (elementGuestProvenance.ts:60-69).
THEOREM MarksKept == Spec => []MarksStay
<1>1. BoardInv => MarksStay
  BY DEF BoardInv, Marked, MarksStay
<1>. QED
  BY <1>1, BoardStays, PTL

\* No save replaces a scene it was not computed from, and nothing is written
\* for somebody who may no longer edit (drawingCreateUpdateRoutes.ts:286-370,
\* drawingTransactionAuthorization.ts:12-19).
THEOREM OnlyAdmitted == Spec => WritesAdmitted
<1>1. BoardInv /\ [Next]_vars =>
        /\ [\A w \in Writers : Writes(w, {"save"}) => req[w].base.elements = row.elements]_vars
        /\ [\A w \in Writers : Writes(w, {"save", "restore"}) => Editor(w)]_vars
  BY BoardSteps DEF Sound, Promised
<1>. QED
  BY <1>1, BoardStays, PTL DEF Spec, WritesAdmitted, NoLostUpdate, RevokedWriteNothing

\* What a save, a restore or a replacement overwrites is in the history as it was
\* (drawingCreateUpdateRoutes.ts:350-359).
THEOREM HistoryKept == Spec => HistoryTruthful
<1>1. BoardInv /\ [Next]_vars =>
        [\A w \in Writers : Writes(w, {"save", "restore", "markdown"}) =>
           /\ snaps' # <<>>
           /\ snaps'[Len(snaps')].version = row.version
           /\ snaps'[Len(snaps')].elements = row.elements]_vars
  BY BoardSteps DEF Sound, Promised
<1>. QED
  BY <1>1, BoardStays, PTL DEF Spec, HistoryTruthful

\* A save keeps the embedded files that the board has
\* (drawingCreateUpdateRoutes.ts:275-285).
THEOREM FilesStay == Spec => FilesKept
<1>1. BoardInv /\ [Next]_vars =>
        [\A w \in Writers : ~late /\ Writes(w, {"save", "markdown"})
                              => row.files \subseteq row'.files]_vars
  BY BoardSteps DEF Sound, Promised
<1>. QED
  BY <1>1, BoardStays, PTL DEF Spec, FilesKept

-----------------------------------------------------------------------------
(* Sums over finite sets.  MapThenSumSet chooses the function that sums, so  *)
(* there has to be one: a smallest set without one would have a smaller.     *)

\* A set of natural numbers that has a member has a least one.
LEMMA LeastNat ==
    ASSUME NEW T \in SUBSET Nat, T # {}
    PROVE  \E n \in T : \A m \in T : n <= m
<1>. DEFINE R == OpToRel(<, Nat)
<1>1. IsWellFoundedOn(R, Nat)
  BY NatLessThanWellFounded
<1>2. \A x, y \in Nat : x < y => <<x, y>> \in R
  BY DEF OpToRel
<1>. HIDE DEF R
<1>3. PICK n \in T : \A m \in T : ~(<<m, n>> \in R)
  BY <1>1, WFMin
<1>4. ASSUME NEW m \in T PROVE n <= m
  <2>1. n \in Nat /\ m \in Nat /\ ~(<<m, n>> \in R)
    BY <1>3
  <2>2. ~(m < n)
    BY <1>2, <2>1
  <2>. QED
    BY <2>1, <2>2
<1>. QED
  BY <1>4

\* A function that sums weights over every part of a set.
Sums(g, w, S) ==
    /\ g \in [SUBSET S -> Nat] /\ g[{}] = 0
    /\ \A T \in SUBSET S : \A x \in T : g[T] = w[x] + g[T \ {x}]

\* A nonempty family of finite sets has a smallest member.
LEMMA Smallest ==
    ASSUME NEW S, IsFiniteSet(S), NEW F \in SUBSET SUBSET S, F # {}
    PROVE  \E A \in F : \A x \in A : A \ {x} \notin F
<1>. DEFINE N == {Cardinality(A) : A \in F}
<1>1. \A A \in F : IsFiniteSet(A) /\ Cardinality(A) \in Nat
  BY FS_Subset, FS_CardinalityType
<1>2. PICK n \in N : \A m \in N : n <= m
  <2>1. N \in SUBSET Nat /\ N # {}
    BY <1>1
  <2>. HIDE DEF N
  <2>. QED
    BY <2>1, LeastNat
<1>3. PICK A \in F : Cardinality(A) = n
  BY <1>2
<1>4. ASSUME NEW x \in A, A \ {x} \in F PROVE FALSE
  <2>1. Cardinality(A \ {x}) = Cardinality(A) - 1
    BY <1>1, <1>3, FS_RemoveElement
  <2>2. n <= Cardinality(A \ {x})
    BY <1>2, <1>4
  <2>. QED
    BY <1>1, <1>3, <2>1, <2>2
<1>. QED
  BY <1>3, <1>4

\* Every finite set has such a function.
LEMMA SumsExist ==
    ASSUME NEW S, IsFiniteSet(S), NEW w \in [S -> Nat]
    PROVE  \E g : Sums(g, w, S)
<1>. DEFINE F == {A \in SUBSET S : ~\E g : Sums(g, w, A)}
<1>1. SUFFICES ASSUME F # {} PROVE FALSE
  BY DEF Sums
<1>2. PICK A \in F : \A x \in A : A \ {x} \notin F
  BY <1>1, Smallest
<1>3. A # {}
  <2>1. Sums([T \in SUBSET {} |-> 0], w, {})
    BY DEF Sums
  <2>. QED
    BY <1>2, <2>1
<1>4. PICK y \in A : TRUE
  BY <1>3
<1>5. PICK h : Sums(h, w, A \ {y})
  BY <1>2, <1>4
<1>. DEFINE g == [T \in SUBSET A |-> h[T \ {y}] + IF y \in T THEN w[y] ELSE 0]
<1>6. A \subseteq S /\ y \in S /\ w[y] \in Nat /\ \A x \in A : w[x] \in Nat
  BY <1>2, <1>4
<1>7. \A T \in SUBSET A : T \ {y} \in SUBSET (A \ {y}) /\ h[T \ {y}] \in Nat
  BY <1>5 DEF Sums
<1>8. g \in [SUBSET A -> Nat]
  BY <1>6, <1>7
<1>9. g[{}] = 0
  <2>1. {} \ {y} = {}
    OBVIOUS
  <2>. QED
    BY <1>5, <2>1 DEF Sums
<1>10. ASSUME NEW T \in SUBSET A, NEW x \in T PROVE g[T] = w[x] + g[T \ {x}]
  <2>1. g[T] = h[T \ {y}] + IF y \in T THEN w[y] ELSE 0
    OBVIOUS
  <2>2. g[T \ {x}] = h[(T \ {x}) \ {y}] + IF y \in T \ {x} THEN w[y] ELSE 0
    OBVIOUS
  <2>3. CASE x = y
    <3>1. (T \ {x}) \ {y} = T \ {y} /\ x \notin T \ {x}
      BY <2>3
    <3>2. g[T] = h[T \ {y}] + w[y] /\ g[T \ {x}] = h[T \ {y}] + 0
      BY <2>1, <2>2, <2>3, <3>1
    <3>3. h[T \ {y}] \in Nat /\ w[y] \in Nat
      BY <1>6, <1>7
    <3>4. g[T] = w[y] + g[T \ {x}]
      <4>. HIDE DEF g
      <4>. QED
        BY <3>2, <3>3
    <3>. QED
      BY <2>3, <3>4
  <2>4. CASE x # y
    <3>1. (T \ {x}) \ {y} = (T \ {y}) \ {x} /\ x \in T \ {y}
      BY <2>4
    <3>2. h[T \ {y}] = w[x] + h[(T \ {y}) \ {x}]
      BY <1>5, <1>7, <3>1 DEF Sums
    <3>3. h[(T \ {y}) \ {x}] \in Nat /\ w[x] \in Nat
      BY <1>6, <1>7, <3>1
    <3>. HIDE DEF g
    <3>. QED
      BY <1>6, <2>1, <2>2, <2>4, <3>1, <3>2, <3>3
  <2>. QED
    BY <2>3, <2>4
<1>11. Sums(g, w, A)
  BY <1>8, <1>9, <1>10 DEF Sums
<1>. QED
  BY <1>2, <1>11

\* The fold that a weight is defined by is that function's value.
LEMMA WeightIs ==
    ASSUME NEW S, IsFiniteSet(S), NEW rows, NEW g,
           Sums(g, [b \in S |-> Size[rows[b].sha]], S)
    PROVE  Weight(rows, S) = g[S]
<1>. DEFINE w == [b \in S |-> Size[rows[b].sha]]
            R(f) == f = [T \in SUBSET S |->
                           IF T = {} THEN 0
                           ELSE LET x == CHOOSE x \in T : TRUE
                                IN  Size[rows[x].sha] + f[T \ {x}]]
            it == CHOOSE f : R(f)
<1>1. Weight(rows, S) = it[S]
  BY DEF Weight, MapThenSumSet, MapThenFoldSet
<1>2. R(g)
  <2>1. g = [T \in SUBSET S |-> g[T]]
    BY DEF Sums
  <2>2. ASSUME NEW T \in SUBSET S, T # {}, NEW x, x = CHOOSE y \in T : TRUE
        PROVE  g[T] = Size[rows[x].sha] + g[T \ {x}]
    <3>1. x \in T
      BY <2>2
    <3>2. g[T] = w[x] + g[T \ {x}]
      BY <3>1 DEF Sums
    <3>. QED
      BY <3>1, <3>2
  <2>3. g[{}] = 0
    BY DEF Sums
  <2>4. \A T \in SUBSET S :
           g[T] = IF T = {} THEN 0
                  ELSE LET x == CHOOSE x \in T : TRUE
                       IN  Size[rows[x].sha] + g[T \ {x}]
    BY <2>2, <2>3
  <2>. QED
    BY <2>1, <2>4, Zenon
<1>3. R(it)
  <2>. HIDE DEF R
  <2>. QED
    BY <1>2
<1>. HIDE DEF it
<1>. DEFINE F == {T \in SUBSET S : it[T] # g[T]}
<1>4. SUFFICES ASSUME F # {} PROVE FALSE
  BY <1>1
<1>5. PICK T \in F : \A x \in T : T \ {x} \notin F
  <2>. HIDE DEF F
  <2>1. F \in SUBSET SUBSET S
    BY DEF F
  <2>. QED
    BY <1>4, <2>1, Smallest
<1>6. T # {}
  <2>1. it[{}] = 0 /\ g[{}] = 0
    BY <1>3 DEF Sums
  <2>. QED
    BY <1>5, <2>1
<1>. DEFINE x == CHOOSE y \in T : TRUE
<1>7. x \in T /\ T \in SUBSET S /\ T \ {x} \in SUBSET S
  BY <1>5, <1>6
<1>8. it[T] = Size[rows[x].sha] + it[T \ {x}]
  BY <1>3, <1>6, <1>7
<1>9. g[T] = Size[rows[x].sha] + g[T \ {x}]
  BY <1>7 DEF Sums
<1>. HIDE DEF x
<1>10. it[T \ {x}] = g[T \ {x}]
  BY <1>5, <1>7
<1>. QED
  BY <1>5, <1>8, <1>9, <1>10

\* Weights are natural numbers, and a part weighs no more than the whole.
LEMMA SumsGrow ==
    ASSUME NEW S, IsFiniteSet(S), NEW w \in [S -> Nat], NEW g, Sums(g, w, S),
           NEW A \in SUBSET S, NEW x \in S
    PROVE  /\ g[A] \in Nat /\ w[x] \in Nat /\ g[S] \in Nat
           /\ g[A] <= g[S]
           /\ A \cup {x} = S => g[S] <= g[A] + w[x]
<1>1. \A T \in SUBSET S : g[T] \in Nat
  BY DEF Sums
<1>2. g[A] <= g[S]
  <2>. DEFINE F == {T \in SUBSET S : A \subseteq T /\ ~(g[A] <= g[T])}
  <2>1. SUFFICES ASSUME F # {} PROVE FALSE
    OBVIOUS
  <2>2. PICK T \in F : \A y \in T : T \ {y} \notin F
    <3>. HIDE DEF F
    <3>1. F \in SUBSET SUBSET S
      BY DEF F
    <3>. QED
      BY <2>1, <3>1, Smallest
  <2>3. T # A
    BY <1>1, <2>2
  <2>4. PICK y \in T : y \notin A
    BY <2>2, <2>3
  <2>5. g[T] = w[y] + g[T \ {y}]
    BY <2>2, <2>4 DEF Sums
  <2>6. T \ {y} \in SUBSET S /\ A \subseteq T \ {y}
    BY <2>2, <2>4
  <2>7. g[A] <= g[T \ {y}]
    BY <2>2, <2>4, <2>6
  <2>8. w[y] \in Nat /\ g[T \ {y}] \in Nat /\ g[A] \in Nat
    BY <1>1, <2>2, <2>6
  <2>9. g[A] <= g[T]
    BY <2>5, <2>7, <2>8
  <2>. QED
    BY <2>2, <2>9
<1>3. A \cup {x} = S => g[S] <= g[A] + w[x]
  <2>1. CASE x \in A /\ A \cup {x} = S
    <3>1. A = S
      BY <2>1
    <3>2. g[A] \in Nat /\ w[x] \in Nat
      BY <1>1
    <3>3. g[A] <= g[A] + w[x]
      BY <3>2
    <3>. QED
      BY <3>1, <3>3
  <2>2. CASE x \notin A /\ A \cup {x} = S
    <3>1. S \ {x} = A
      BY <2>2
    <3>2. g[S] = w[x] + g[A]
      BY <3>1 DEF Sums
    <3>. QED
      BY <1>1, <3>2
  <2>. QED
    BY <2>1, <2>2
<1>. QED
  BY <1>1, <1>2, <1>3

\* Sizes of the rows of a set.
Sized(rows, S) == \A b \in S : Size[rows[b].sha] \in Nat

\* A set of blobs weighs no more than one that holds it, if the rows have the same
\* bytes, and one blob more adds no more than its own size.
LEMMA WeightGrows ==
    ASSUME NEW S, IsFiniteSet(S), NEW rows, NEW later, Sized(rows, S),
           NEW A \in SUBSET S, \A b \in A : later[b].sha = rows[b].sha
    PROVE  /\ Weight(later, A) \in Nat /\ Weight(rows, S) \in Nat
           /\ Weight(later, A) <= Weight(rows, S)
           /\ \A x \in S : A \cup {x} = S =>
                  Weight(rows, S) <= Weight(later, A) + Size[rows[x].sha]
<1>. DEFINE w == [b \in S |-> Size[rows[b].sha]]
<1>1. w \in [S -> Nat]
  BY DEF Sized
<1>2. PICK g : Sums(g, w, S)
  <2>. HIDE DEF w
  <2>. QED
    BY <1>1, SumsExist
<1>3. Weight(rows, S) = g[S]
  BY <1>2, WeightIs
<1>. DEFINE v == [b \in A |-> Size[later[b].sha]]
            f == [T \in SUBSET A |-> g[T]]
<1>4. IsFiniteSet(A)
  BY FS_Subset
<1>5. Sums(f, v, A)
  <2>1. f \in [SUBSET A -> Nat] /\ f[{}] = 0
    BY <1>2 DEF Sums
  <2>2. ASSUME NEW T \in SUBSET A, NEW x \in T PROVE f[T] = v[x] + f[T \ {x}]
    <3>1. g[T] = w[x] + g[T \ {x}]
      BY <1>2, <2>2 DEF Sums
    <3>. QED
      BY <3>1
  <2>. QED
    BY <2>1, <2>2 DEF Sums
<1>6. Weight(later, A) = g[A]
  <2>1. Weight(later, A) = f[A]
    BY <1>4, <1>5, WeightIs
  <2>. QED
    BY <2>1
<1>7. CASE S = {}
  <2>1. A = {} /\ g[{}] = 0
    BY <1>2, <1>7 DEF Sums
  <2>2. Weight(later, A) = 0 /\ Weight(rows, S) = 0
    BY <1>3, <1>6, <1>7, <2>1
  <2>. QED
    BY <1>7, <2>2
<1>8. CASE S # {}
  <2>. HIDE DEF w
  <2>1. \A x \in S : /\ g[A] \in Nat /\ g[S] \in Nat /\ g[A] <= g[S]
                     /\ A \cup {x} = S => g[S] <= g[A] + w[x]
    BY <1>1, <1>2, SumsGrow
  <2>. QED
    BY <1>3, <1>6, <1>8, <2>1 DEF w
<1>. QED
  BY <1>7, <1>8

-----------------------------------------------------------------------------
(* The blob store: what each upload, each collector and the job know.       *)

\* The stages of an upload before it has used its id for a row, and those in
\* which only the first upload of its owner can be.
Early  == {"new", "admitted", "write", "find", "look", "create"}
Stages == Early \cup {"revive", "link", "attach", "done"}
Busy   == Stages \ {"new", "admitted", "done"}

UploadRow == [pc : Stages, kind : {Null, "document", "image", "art"},
              owner : Owners \cup {Null}, sha : Bytes \cup {Null}, used : Nat,
              seen : Keys \cup {Null}, row : BlobRow \cup {NoBlob},
              blob : Keys \cup {Null}, card : Cards \cup {Null}, misled : BOOLEAN]
GcRow     == [pc : {"idle", "weigh", "claim", "recount", "unlink", "erase"},
              blob : Keys \cup {Null}, key : Keys \cup {Null}]
SweepRow  == [pc : {"rest", "due", "links", "expired", "blobs", "remove", "drop", "previews"},
              stale : SUBSET AssetIds, blobs : SUBSET Keys, cur : Keys \cup {Null}]

\* The types, with the records that StoreTypeOK leaves open.
RowsTyped ==
    /\ StoreTypeOK
    /\ up \in [Uploads -> UploadRow]
    /\ gc \in [Collectors -> GcRow]
    /\ sweep \in SweepRow

WithBytes(b, c) == b \in Stored => blobs[b].sha = c

\* What an upload knows at each of its stages.
UploadSound(u) ==
    /\ up[u].pc \notin {"new", "done"} =>
           /\ up[u].sha \in Bytes
           /\ up[u].kind \in {"document", "image", "art"}
           /\ IF up[u].kind = "art" THEN up[u].owner = Null /\ up[u].card # Null
                                    ELSE up[u].owner # Null
    /\ up[u].pc = "look" => up[u].seen # Null /\ WithBytes(up[u].seen, up[u].sha)
    /\ up[u].pc \in {"revive", "link"} => up[u].blob # Null /\ WithBytes(up[u].blob, up[u].sha)

\* A collector at work has a blob.
GcSound(p) == gc[p].pc # "idle" => gc[p].blob # Null
SweepSound == sweep.pc \in {"remove", "drop"} => sweep.cur # Null

\* Every reference is to a row: the foreign keys.
ReferencesStored ==
    /\ \A a \in AssetIds : documents[a] # NoAsset => documents[a].blob \in Stored
    /\ \A o \in Owners : images[o] # Null => images[o] \in Stored
    /\ \A c \in Cards : cards[c] # Null => cards[c] \in Stored

\* An upload's id is nowhere until it has used it, but for its own file.
FreshId(u) ==
    up[u].pc \in Early =>
        /\ u \notin Stored
        /\ \A b \in Keys : blobs[b].key # u
        /\ \A p \in Collectors : gc[p].blob # u /\ gc[p].key # u
        /\ u \notin sweep.blobs /\ sweep.cur # u
        /\ \A v \in Uploads : up[v].blob # u /\ up[v].seen # u
OwnFile(u) == up[u].pc \in {"find", "look", "create"} => u \in files

\* No two rows have one file.
KeysUnique == \A b, c \in Stored : blobs[b].key = blobs[c].key => b = c

\* A key that a collector has read is of its own row or of none.
KeyRead(p) ==
    gc[p].pc \in {"claim", "recount", "unlink"} =>
        \A c \in Stored : blobs[c].key = gc[p].key => c = gc[p].blob

\* Between its count and the removal, a row that is referred to is known to be
\* missed, or somebody relies on it still.
CountedByGc(p) ==
    gc[p].pc = "unlink" =>
        LET b == gc[p].blob
        IN  b \in Stored /\ blobs[b].key = gc[p].key
                => b \in pulled \/ (AssetsOf(b) = {} /\ PreviewsOf(b) = {})
CountedBySweep ==
    sweep.pc = "remove" /\ sweep.cur \in Stored
        => Unused(sweep.cur) \/ sweep.cur \in pulled \/ Relying(blobs[sweep.cur].key) # {}

\* An upload about to refer to a row has its file, or is known to be misled.
FileThere(u) ==
    up[u].pc \in {"revive", "link"} /\ up[u].blob \in Stored
        => up[u].misled \/ blobs[up[u].blob].key \in files

\* A row that no collector can be after.
Young(b) ==
    /\ ~blobs[b].old /\ blobs[b].due # "past"
    /\ blobs[b].key \in files
    /\ \A a \in AssetsOf(b) : documents[a].due # "past"
    /\ b \notin sweep.blobs /\ sweep.cur # b
    /\ \A p \in Collectors : gc[p].blob = b => gc[p].pc = "weigh"

\* A row that appears while an upload is under way is young till its end.
Overtaken(u) == up[u].pc = "create" => \A b \in WithSha(up[u].sha) : Young(b)

\* The queues of the owners, and the allowance of the upload that is first.
Queued(u) ==
    up[u].pc \notin {"new", "done"} /\ up[u].owner # Null
        => \E i \in 1..Len(tails[up[u].owner]) : tails[up[u].owner][i] = u
AtWork(u) == up[u].pc \in Busy /\ up[u].owner # Null => First(u)

\* The parts about one upload, and about one collector.
UploadInv(u) ==
    /\ UploadSound(u) /\ FreshId(u) /\ OwnFile(u) /\ FileThere(u) /\ Overtaken(u)
    /\ Queued(u) /\ AtWork(u)
GcInv(p) == GcSound(p) /\ KeyRead(p) /\ CountedByGc(p)

StoreInv ==
    /\ RowsTyped /\ ReferencesStored /\ KeysUnique /\ SweepSound
    /\ CountedBySweep /\ ReferencedKept
    /\ \A u \in Uploads : UploadInv(u)
    /\ \A p \in Collectors : GcInv(p)

\* While an upload of an owner is at work, nothing else adds to what is charged.
Allowed(u) ==
    /\ up[u].pc \in Busy \ {"attach"} /\ up[u].owner # Null
           => Used(up[u].owner) <= up[u].used /\ up[u].used <= MaxPerUser
    /\ up[u].pc \in Busy \ {"write", "attach"} /\ up[u].owner # Null
           => Size[up[u].sha] <= MaxPerUser - up[u].used

AllowanceInv == QuotaKept /\ \A u \in Uploads : Allowed(u)

-----------------------------------------------------------------------------
(* Steps of an upload.                                                     *)

\* An upload is rewritten and the others stay.
LEMMA Moved ==
    ASSUME RowsTyped, NEW u \in Uploads, NEW r \in UploadRow, Move(u, r)
    PROVE  /\ up' \in [Uploads -> UploadRow] /\ up'[u] = r
           /\ \A v \in Uploads : v # u => up'[v] = up[v]
           /\ \A v \in Uploads : up'[v].blob \in Keys \cup {Null}
  BY DEF Move, RowsTyped, UploadRow

LEMMA NoUploadTyped == NoUpload \in UploadRow
  BY DEF NoUpload, UploadRow, Stages, Early

\* The queue of an owner once its first upload is answered.
LEMMA AnswerKeeps ==
    ASSUME StoreInv, NEW u \in Uploads, Answer(u),
           up[u].pc \in Busy \/ (up[u].pc = "admitted" /\ First(u)), up[u].pc \in Stages
    PROVE  /\ up' \in [Uploads -> UploadRow] /\ tails' \in [Owners -> Seq(Uploads)]
           /\ up'[u] = [NoUpload EXCEPT !.pc = "done"]
           /\ \A v \in Uploads : v # u => up'[v] = up[v]
           /\ \A v \in Uploads : Queued(v)' /\ AtWork(v)'
<1>0. \A v \in Uploads : up[v].owner \in Owners \cup {Null}
  BY DEF StoreInv, RowsTyped, UploadRow
<1>1. [NoUpload EXCEPT !.pc = "done"] \in UploadRow
  BY NoUploadTyped DEF UploadRow, Stages, Early
<1>2. /\ up' \in [Uploads -> UploadRow] /\ up'[u] = [NoUpload EXCEPT !.pc = "done"]
      /\ \A v \in Uploads : v # u => up'[v] = up[v]
  BY <1>1, Moved DEF Answer, StoreInv
<1>3. up'[u].pc = "done"
  BY <1>2 DEF NoUpload
<1>4. CASE up[u].owner = Null
  <2>1. tails' = tails
    BY <1>4 DEF Answer, Left
  <2>2. ASSUME NEW v \in Uploads PROVE Queued(v)' /\ AtWork(v)'
    BY <1>2, <1>3, <2>1, ZenonT(60) DEF StoreInv, UploadInv, Queued, AtWork, First, Busy, Stages, Early
  <2>. QED
    BY <1>2, <2>1, <2>2 DEF StoreInv, RowsTyped, StoreTypeOK
<1>5. CASE up[u].owner # Null
  <2>. DEFINE o == up[u].owner
  <2>1. o \in Owners /\ tails[o] \in Seq(Uploads)
    BY <1>5 DEF StoreInv, RowsTyped, StoreTypeOK, UploadRow
  <2>2. up[u].pc \notin {"new", "done"}
    BY DEF Busy, Stages, Early
  <2>3. Len(tails[o]) > 0 /\ Head(tails[o]) = u
    BY <1>5, <2>1, <2>2 DEF StoreInv, UploadInv, Queued, AtWork, First
  <2>4. tails' = [tails EXCEPT ![o] = Tail(tails[o])]
    BY <1>5 DEF Answer, Left
  <2>5. /\ Tail(tails[o]) \in Seq(Uploads) /\ Len(Tail(tails[o])) = Len(tails[o]) - 1
        /\ \A i \in 1 .. Len(tails[o]) - 1 : Tail(tails[o])[i] = tails[o][i + 1]
    BY <2>1, <2>3
  <2>6. /\ tails' \in [Owners -> Seq(Uploads)] /\ tails'[o] = Tail(tails[o])
        /\ \A p \in Owners : p # o => tails'[p] = tails[p]
    BY <2>1, <2>4, <2>5 DEF StoreInv, RowsTyped, StoreTypeOK
  <2>7. ASSUME NEW v \in Uploads PROVE Queued(v)'
    <3>1. CASE v = u
      BY <1>3, <3>1 DEF Queued
    <3>2. CASE v # u /\ up[v].owner # o
      BY <1>0, <1>2, <2>6, <3>2 DEF StoreInv, UploadInv, Queued
    <3>3. CASE v # u /\ up[v].owner = o /\ up[v].pc \notin {"new", "done"}
      <4>1. PICK i \in 1 .. Len(tails[o]) : tails[o][i] = v
        BY <1>5, <3>3 DEF StoreInv, UploadInv, Queued
      <4>2. i # 1
        BY <2>1, <2>3, <3>3, <4>1
      <4>3. i - 1 \in 1 .. Len(tails[o]) - 1 /\ Tail(tails[o])[i - 1] = v
        BY <2>1, <2>5, <4>1, <4>2
      <4>. QED
        BY <1>2, <2>5, <2>6, <3>3, <4>3 DEF Queued
    <3>4. CASE v # u /\ up[v].pc \in {"new", "done"}
      BY <1>2, <3>4 DEF Queued
    <3>. QED
      BY <3>1, <3>2, <3>3, <3>4
  <2>8. ASSUME NEW v \in Uploads PROVE AtWork(v)'
    <3>1. CASE v = u
      BY <1>3, <3>1 DEF AtWork, Busy
    <3>2. CASE v # u /\ up[v].owner # o
      BY <1>0, <1>2, <2>6, <3>2 DEF StoreInv, UploadInv, AtWork, First
    <3>3. CASE v # u /\ up[v].owner = o
      BY <1>2, <1>5, <2>3, <3>3 DEF StoreInv, UploadInv, AtWork, First
    <3>. QED
      BY <3>1, <3>2, <3>3
  <2>. QED
    BY <1>2, <2>6, <2>7, <2>8
<1>. QED
  BY <1>4, <1>5

\* Queues stand still while an upload goes on without being answered.
LEMMA QueuesStay ==
    ASSUME StoreInv, NEW u \in Uploads, tails' = tails,
           \A v \in Uploads : v # u => up'[v] = up[v],
           up'[u].owner = up[u].owner, up'[u].pc \in Stages \ {"new", "done"},
           up[u].pc \notin {"new", "done"},
           up'[u].pc \in Busy => up[u].pc \in Busy \/ First(u)
    PROVE  \A v \in Uploads : Queued(v)' /\ AtWork(v)'
  BY DEF StoreInv, UploadInv, Queued, AtWork, First

\* Nor does it matter what an upload knows of the file that it counts on.
LEMMA QueuesKept ==
    ASSUME StoreInv, tails' = tails,
           \A v \in Uploads : up'[v].pc = up[v].pc /\ up'[v].owner = up[v].owner
    PROVE  \A v \in Uploads : Queued(v)' /\ AtWork(v)'
  BY DEF StoreInv, UploadInv, Queued, AtWork, First

\* An upload goes on and touches no row: what the others and the collectors know
\* stays true.
LEMMA UploadAlone ==
    ASSUME StoreInv, NEW u \in Uploads,
           up' \in [Uploads -> UploadRow], \A v \in Uploads : v # u => up'[v] = up[v],
           UNCHANGED <<blobs, documents, images, cards, sweep, gc, pulled>>,
           files \subseteq files', files' \subseteq Keys, archived' \subseteq AssetIds,
           places' \in [AssetIds -> {"none", "fresh", "stale", "ACTIVE"}],
           tails' \in [Owners -> Seq(Uploads)],
           \A v \in Uploads : Queued(v)' /\ AtWork(v)',
           up[u].pc \in {"revive", "link"} => up[u].blob \notin Stored,
           up'[u].pc \notin {"revive", "link"},
           up'[u].pc \in Early => up[u].pc \in Early,
           up'[u].blob \in {Null, up[u].blob},
           up'[u].seen \in {Null, up[u].seen} \cup Stored,
           up'[u].pc = "create" => WithSha(up'[u].sha) = {},
           UploadSound(u)', OwnFile(u)'
    PROVE  StoreInv'
<1>1. RowsTyped'
  BY DEF StoreInv, RowsTyped, StoreTypeOK, UploadRow
<1>2. Stored' = Stored
  BY DEF Stored
<1>3. ReferencesStored' /\ KeysUnique' /\ SweepSound' /\ ReferencedKept'
  BY <1>2 DEF StoreInv, ReferencesStored, KeysUnique, SweepSound, ReferencedKept, Unused,
              AssetsOf, PreviewsOf, ImagesOf
<1>4. CountedBySweep'
  <2>1. ASSUME sweep.pc = "remove", sweep.cur \in Stored
        PROVE  Relying(blobs[sweep.cur].key) \subseteq Relying(blobs[sweep.cur].key)'
    <3>1. blobs[sweep.cur].key \in Keys
      BY <2>1 DEF StoreInv, RowsTyped, StoreTypeOK, BlobRow, Stored
    <3>2. ASSUME up[u].pc \in {"revive", "link"} PROVE blobs[up[u].blob].key = Null
      <4>1. up[u].blob \in Keys \ Stored
        BY <3>2 DEF StoreInv, RowsTyped, StoreTypeOK, UploadInv, UploadSound
      <4>. QED
        BY <4>1 DEF Stored, NoBlob
    <3>3. u \notin Relying(blobs[sweep.cur].key)
      BY <3>1, <3>2, StoreAssumption DEF Relying
    <3>. QED
      BY <3>3 DEF Relying
  <2>. QED
    BY <1>2, <2>1 DEF StoreInv, CountedBySweep, Unused, AssetsOf, PreviewsOf, ImagesOf
<1>5. ASSUME NEW v \in Uploads PROVE FreshId(v)'
  <2>1. up'[v].pc \in Early => up[v].pc \in Early
    BY <1>5
  <2>2. up[v].pc \in Early => v # Null /\ v \notin Stored
    BY StoreAssumption DEF StoreInv, UploadInv, FreshId, Keys
  <2>. QED
    BY <1>2, <2>1, <2>2 DEF StoreInv, UploadInv, FreshId
<1>6. ASSUME NEW v \in Uploads PROVE UploadSound(v)' /\ OwnFile(v)' /\ FileThere(v)'
  BY <1>2, <1>6 DEF StoreInv, UploadInv, UploadSound, WithBytes, OwnFile, FileThere
<1>7. ASSUME NEW v \in Uploads PROVE Overtaken(v)'
  BY <1>2, <1>7 DEF StoreInv, UploadInv, Overtaken, WithSha, Young, AssetsOf
<1>8. ASSUME NEW p \in Collectors PROVE GcInv(p)'
  BY <1>2, <1>8 DEF StoreInv, GcInv, GcSound, KeyRead, CountedByGc, AssetsOf, PreviewsOf
<1>. QED
  BY <1>1, <1>3, <1>4, <1>5, <1>6, <1>7, <1>8 DEF StoreInv, UploadInv

LEMMA AdmitKeeps ==
    ASSUME StoreInv, NEW u \in Uploads, Admit(u) PROVE StoreInv'
<1>0. \A v \in Uploads : up[v].owner \in Owners \cup {Null}
  BY DEF StoreInv, RowsTyped, UploadRow
<1>1. PICK r : /\ Move(u, r)
               /\ \/ \E o \in Owners, kind \in {"document", "image"}, c \in Bytes :
                        /\ r = [NoUpload EXCEPT !.pc = "admitted", !.kind = kind,
                                                !.owner = o, !.sha = c]
                        /\ tails' = [tails EXCEPT ![o] = Append(@, u)]
                  \/ \E card \in Cards, c \in Bytes :
                        /\ r = [NoUpload EXCEPT !.pc = "write", !.kind = "art",
                                                !.card = card, !.sha = c]
                        /\ tails' = tails
  BY DEF Admit, Bytes
<1>. DEFINE Fields == /\ r \in UploadRow
                     /\ r.blob = Null /\ r.seen = Null /\ r.sha \in Bytes
                     /\ \/ r.kind \in {"document", "image"} /\ r.owner # Null /\ r.pc = "admitted"
                        \/ /\ r.kind = "art" /\ r.owner = Null /\ r.card # Null
                           /\ r.pc = "write" /\ tails' = tails
<1>2. Fields
  <2>1. ASSUME NEW o \in Owners, NEW kind \in {"document", "image"}, NEW c \in Bytes,
               r = [NoUpload EXCEPT !.pc = "admitted", !.kind = kind, !.owner = o, !.sha = c]
        PROVE  Fields
    <3>1. r = [pc |-> "admitted", kind |-> kind, owner |-> o, sha |-> c, used |-> 0,
               seen |-> Null, row |-> NoBlob, blob |-> Null, card |-> Null,
               misled |-> FALSE]
      BY <2>1 DEF NoUpload
    <3>. QED
      BY <3>1, StoreAssumption DEF UploadRow, Stages, Early
  <2>2. ASSUME NEW card \in Cards, NEW c \in Bytes, tails' = tails,
               r = [NoUpload EXCEPT !.pc = "write", !.kind = "art", !.card = card, !.sha = c]
        PROVE  Fields
    <3>1. r = [pc |-> "write", kind |-> "art", owner |-> Null, sha |-> c, used |-> 0,
               seen |-> Null, row |-> NoBlob, blob |-> Null, card |-> card,
               misled |-> FALSE]
      BY <2>2 DEF NoUpload
    <3>2. r \in UploadRow
      BY <3>1 DEF UploadRow, Stages, Early
    <3>3. tails' = tails /\ card # Null
      BY <2>2, StoreAssumption
    <3>. QED
      BY <3>1, <3>2, <3>3
  <2>. HIDE DEF Fields
  <2>. QED
    BY <1>1, <2>1, <2>2, Zenon
<1>3. /\ up' \in [Uploads -> UploadRow] /\ up'[u] = r
      /\ \A v \in Uploads : v # u => up'[v] = up[v]
  BY <1>1, <1>2, Moved DEF StoreInv
<1>4. /\ up[u].pc = "new"
      /\ UNCHANGED <<files, blobs, documents, places, archived, images, cards, sweep, gc, pulled>>
  BY DEF Admit, refs
<1>6. /\ tails' \in [Owners -> Seq(Uploads)]
      /\ \A v \in Uploads : Queued(v)' /\ AtWork(v)'
  <2>1. CASE r.owner = Null /\ tails' = tails
    <3>1. tails' \in [Owners -> Seq(Uploads)]
      BY <2>1 DEF StoreInv, RowsTyped, StoreTypeOK
    <3>2. ASSUME NEW v \in Uploads PROVE Queued(v)' /\ AtWork(v)'
      BY <1>3, <2>1, <3>2 DEF StoreInv, UploadInv, Queued, AtWork, First
    <3>. QED
      BY <3>1, <3>2
  <2>2. ASSUME NEW o \in Owners, r.owner = o, r.pc = "admitted",
               tails' = [tails EXCEPT ![o] = Append(@, u)]
        PROVE  /\ tails' \in [Owners -> Seq(Uploads)]
               /\ \A v \in Uploads : Queued(v)' /\ AtWork(v)'
    <3>1. /\ tails[o] \in Seq(Uploads) /\ Append(tails[o], u) \in Seq(Uploads)
          /\ Len(Append(tails[o], u)) = Len(tails[o]) + 1
          /\ Append(tails[o], u)[Len(tails[o]) + 1] = u
          /\ \A i \in 1 .. Len(tails[o]) : Append(tails[o], u)[i] = tails[o][i]
          /\ Len(tails[o]) > 0 => Head(Append(tails[o], u)) = Head(tails[o])
      BY DEF StoreInv, RowsTyped, StoreTypeOK
    <3>2. /\ tails' \in [Owners -> Seq(Uploads)] /\ tails'[o] = Append(tails[o], u)
          /\ \A p \in Owners : p # o => tails'[p] = tails[p]
      BY <2>2, <3>1 DEF StoreInv, RowsTyped, StoreTypeOK
    <3>3. ASSUME NEW v \in Uploads PROVE Queued(v)' /\ AtWork(v)'
      <4>1. CASE v = u
        BY <1>3, <2>2, <3>1, <3>2, <4>1 DEF Queued, AtWork, Busy
      <4>2. CASE v # u /\ up[v].owner = o
        <5>1. /\ up[v].pc \notin {"new", "done"} => \E i \in 1 .. Len(tails[o]) : tails[o][i] = v
              /\ up[v].pc \in Busy => Head(tails[o]) = v
          BY <2>2, <4>2, StoreAssumption DEF StoreInv, UploadInv, Queued, AtWork, First
        <5>2. up[v].pc \in Busy => Len(tails[o]) > 0
          BY <3>1, <5>1 DEF Busy, Stages, Early
        <5>3. Len(tails[o]) \in Nat /\ up'[v] = up[v]
          BY <1>3, <3>1, <4>2
        <5>4. Queued(v)'
          <6>1. SUFFICES ASSUME up[v].pc \notin {"new", "done"}
                         PROVE  \E i \in 1 .. Len(tails'[o]) : tails'[o][i] = v
            BY <4>2, <5>3 DEF Queued
          <6>2. PICK i \in 1 .. Len(tails[o]) : tails[o][i] = v
            BY <5>1, <6>1
          <6>3. i \in 1 .. Len(tails'[o]) /\ tails'[o][i] = v
            BY <3>1, <3>2, <5>3, <6>2
          <6>. QED
            BY <6>3
        <5>5. AtWork(v)'
          BY <3>1, <3>2, <4>2, <5>1, <5>2, <5>3 DEF AtWork, First
        <5>. QED
          BY <5>4, <5>5
      <4>3. CASE v # u /\ up[v].owner # o
        BY <1>0, <1>3, <3>2, <4>3 DEF StoreInv, UploadInv, Queued, AtWork, First
      <4>. QED
        BY <4>1, <4>2, <4>3
    <3>. QED
      BY <3>2, <3>3
  <2>. QED
    <3>1. CASE r.kind = "art"
      BY <1>2, <2>1, <3>1
    <3>2. ASSUME NEW o \in Owners, NEW kind \in {"document", "image"}, NEW c \in Bytes,
                 r = [NoUpload EXCEPT !.pc = "admitted", !.kind = kind, !.owner = o, !.sha = c],
                 tails' = [tails EXCEPT ![o] = Append(@, u)]
          PROVE  /\ tails' \in [Owners -> Seq(Uploads)]
                 /\ \A v \in Uploads : Queued(v)' /\ AtWork(v)'
      <4>1. r.owner = o /\ r.pc = "admitted"
        BY <3>2 DEF NoUpload
      <4>. QED
        BY <2>2, <3>2, <4>1
    <3>3. ASSUME NEW card \in Cards, NEW c \in Bytes,
                 r = [NoUpload EXCEPT !.pc = "write", !.kind = "art", !.card = card, !.sha = c]
          PROVE  r.kind = "art"
      BY <3>3 DEF NoUpload
    <3>. QED
      BY <1>1, <3>1, <3>2, <3>3, Zenon
<1>7. UploadSound(u)' /\ OwnFile(u)'
  BY <1>2, <1>3 DEF UploadSound, OwnFile
<1>. QED
  BY <1>2, <1>3, <1>4, <1>6, <1>7, UploadAlone
     DEF StoreInv, RowsTyped, StoreTypeOK, Early

\* An upload that is answered, with nothing done that a row shows.
LEMMA AnsweredAlone ==
    ASSUME StoreInv, NEW u \in Uploads, Answer(u),
           up[u].pc \in Busy \/ (up[u].pc = "admitted" /\ First(u)),
           up[u].pc \in {"revive", "link"} => up[u].blob \notin Stored,
           UNCHANGED <<files, blobs, documents, archived, images, cards, sweep, gc, pulled>>,
           places' \in [AssetIds -> {"none", "fresh", "stale", "ACTIVE"}]
    PROVE  StoreInv'
<1>1. up[u].pc \in Stages
  BY DEF Busy, Stages, Early
<1>2. /\ up' \in [Uploads -> UploadRow] /\ tails' \in [Owners -> Seq(Uploads)]
      /\ up'[u] = [NoUpload EXCEPT !.pc = "done"]
      /\ \A v \in Uploads : v # u => up'[v] = up[v]
      /\ \A v \in Uploads : Queued(v)' /\ AtWork(v)'
  BY <1>1, AnswerKeeps
<1>3. up'[u].pc = "done" /\ up'[u].blob = Null /\ up'[u].seen = Null
  BY <1>2 DEF NoUpload
<1>4. UploadSound(u)' /\ OwnFile(u)'
  BY <1>3 DEF UploadSound, OwnFile
<1>. QED
  BY <1>2, <1>3, <1>4, UploadAlone DEF StoreInv, RowsTyped, StoreTypeOK, Early

LEMMA ReadUsageKeeps ==
    ASSUME StoreInv, NEW u \in Uploads, ReadUsage(u), Used(up[u].owner) \in Nat
    PROVE  StoreInv'
<1>1. /\ up[u].pc = "admitted" /\ First(u)
      /\ UNCHANGED <<files, blobs, documents, places, archived, images, cards, sweep, gc, pulled>>
  BY DEF ReadUsage, refs
<1>2. CASE Answer(u)
  BY <1>1, <1>2, AnsweredAlone DEF StoreInv, RowsTyped, StoreTypeOK
<1>3. CASE Move(u, [up[u] EXCEPT !.pc = "write", !.used = Used(up[u].owner)]) /\ tails' = tails
  <2>. DEFINE r == [up[u] EXCEPT !.pc = "write", !.used = Used(up[u].owner)]
  <2>1. /\ r \in UploadRow /\ r.pc = "write" /\ r.blob = up[u].blob /\ r.seen = up[u].seen
        /\ r.owner = up[u].owner /\ r.kind = up[u].kind /\ r.sha = up[u].sha
        /\ r.card = up[u].card
    BY <1>1 DEF StoreInv, RowsTyped, UploadRow, Stages, Early
  <2>2. /\ up' \in [Uploads -> UploadRow] /\ up'[u] = r
        /\ \A v \in Uploads : v # u => up'[v] = up[v]
    <3>. HIDE DEF r
    <3>1. Move(u, r)
      BY <1>3 DEF r
    <3>. QED
      BY <2>1, <3>1, Moved DEF StoreInv
  <2>. HIDE DEF r
  <2>3. UploadSound(u)' /\ OwnFile(u)'
    BY <1>1, <2>1, <2>2 DEF UploadSound, OwnFile, StoreInv, UploadInv
  <2>4. \A v \in Uploads : Queued(v)' /\ AtWork(v)'
    BY <1>1, <1>3, <2>1, <2>2, QueuesStay DEF Stages, Early
  <2>. QED
    BY <1>1, <1>3, <2>1, <2>2, <2>3, <2>4, UploadAlone DEF StoreInv, RowsTyped, StoreTypeOK, Early
<1>. QED
  BY <1>2, <1>3 DEF ReadUsage

LEMMA WriteFileKeeps ==
    ASSUME StoreInv, NEW u \in Uploads, WriteFile(u)
    PROVE  StoreInv'
<1>1. /\ up[u].pc = "write"
      /\ UNCHANGED <<blobs, documents, places, archived, images, cards, sweep, gc, pulled>>
  BY DEF WriteFile, refs
<1>2. CASE Answer(u) /\ files' = files
  BY <1>1, <1>2, AnsweredAlone DEF StoreInv, RowsTyped, StoreTypeOK, Busy, Stages, Early
<1>3. CASE files' = files \cup {u} /\ Step(u, "find") /\ tails' = tails
  <2>. DEFINE r == [up[u] EXCEPT !.pc = "find"]
  <2>1. /\ r \in UploadRow /\ r.pc = "find" /\ r.blob = up[u].blob /\ r.seen = up[u].seen
        /\ r.owner = up[u].owner /\ r.kind = up[u].kind /\ r.sha = up[u].sha
        /\ r.card = up[u].card
    BY <1>1 DEF StoreInv, RowsTyped, UploadRow, Stages, Early
  <2>2. /\ up' \in [Uploads -> UploadRow] /\ up'[u] = r
        /\ \A v \in Uploads : v # u => up'[v] = up[v]
    <3>. HIDE DEF r
    <3>1. Move(u, r)
      BY <1>3 DEF r, Step
    <3>. QED
      BY <2>1, <3>1, Moved DEF StoreInv
  <2>. HIDE DEF r
  <2>3. UploadSound(u)' /\ OwnFile(u)'
    BY <1>1, <1>3, <2>1, <2>2 DEF UploadSound, OwnFile, StoreInv, UploadInv
  <2>4. \A v \in Uploads : Queued(v)' /\ AtWork(v)'
    BY <1>1, <1>3, <2>1, <2>2, QueuesStay DEF Busy, Stages, Early
  <2>5. files \subseteq files' /\ files' \subseteq Keys
    BY <1>3 DEF StoreInv, RowsTyped, StoreTypeOK, Keys
  <2>. QED
    BY <1>1, <1>3, <2>1, <2>2, <2>3, <2>4, <2>5, UploadAlone
       DEF StoreInv, RowsTyped, StoreTypeOK, Early
<1>. QED
  BY <1>2, <1>3 DEF WriteFile

LEMMA FindKeeps ==
    ASSUME StoreInv, NEW u \in Uploads, Find(u)
    PROVE  StoreInv'
<1>1. /\ up[u].pc = "find" /\ tails' = tails
      /\ UNCHANGED <<files, blobs, documents, places, archived, images, cards, sweep, gc, pulled>>
  BY DEF Find, refs
<1>2. ASSUME NEW r \in UploadRow, Move(u, r), r.pc \in {"create", "look"},
             r.pc = "create" => WithSha(up[u].sha) = {} /\ r.seen = up[u].seen,
             r.pc = "look" => r.seen \in WithSha(up[u].sha),
             r.blob = up[u].blob, r.owner = up[u].owner, r.kind = up[u].kind,
             r.sha = up[u].sha, r.card = up[u].card
      PROVE  StoreInv'
  <2>2. /\ up' \in [Uploads -> UploadRow] /\ up'[u] = r
        /\ \A v \in Uploads : v # u => up'[v] = up[v]
    BY <1>2, Moved DEF StoreInv
  <2>3. UploadSound(u)' /\ OwnFile(u)'
    <3>1. Stored' = Stored /\ Null \notin Keys
      BY <1>1, StoreAssumption DEF Stored
    <3>. QED
      BY <1>1, <1>2, <2>2, <3>1
         DEF UploadSound, WithBytes, WithSha, Stored, OwnFile, StoreInv, UploadInv
  <2>4. \A v \in Uploads : Queued(v)' /\ AtWork(v)'
    BY <1>1, <1>2, <2>2, QueuesStay DEF Busy, Stages, Early
  <2>. QED
    BY <1>1, <1>2, <2>2, <2>3, <2>4, UploadAlone
       DEF StoreInv, RowsTyped, StoreTypeOK, Early, WithSha
<1>3. CASE WithSha(up[u].sha) = {} /\ Step(u, "create")
  <2>. DEFINE r == [up[u] EXCEPT !.pc = "create"]
  <2>1. /\ r \in UploadRow /\ r.pc = "create" /\ r.blob = up[u].blob /\ r.seen = up[u].seen
        /\ r.owner = up[u].owner /\ r.kind = up[u].kind /\ r.sha = up[u].sha
        /\ r.card = up[u].card
    BY <1>1 DEF StoreInv, RowsTyped, UploadRow, Stages, Early
  <2>2. Move(u, r)
    BY <1>3 DEF Step
  <2>. HIDE DEF r
  <2>. QED
    BY <1>2, <1>3, <2>1, <2>2
<1>4. ASSUME NEW b \in WithSha(up[u].sha),
             Move(u, [up[u] EXCEPT !.pc = "look", !.seen = b, !.row = blobs[b]])
      PROVE  StoreInv'
  <2>. DEFINE r == [up[u] EXCEPT !.pc = "look", !.seen = b, !.row = blobs[b]]
  <2>1. /\ r \in UploadRow /\ r.pc = "look" /\ r.blob = up[u].blob /\ r.seen = b
        /\ r.owner = up[u].owner /\ r.kind = up[u].kind /\ r.sha = up[u].sha
        /\ r.card = up[u].card
    BY <1>1, ZenonT(60) DEF StoreInv, RowsTyped, StoreTypeOK, UploadRow, Stages, Early, WithSha, Stored
  <2>2. Move(u, r)
    BY <1>4
  <2>. HIDE DEF r
  <2>. QED
    BY <1>2, <2>1, <2>2
<1>. QED
  BY <1>3, <1>4 DEF Find

LEMMA LinkFailsKeeps ==
    ASSUME StoreInv, NEW u \in Uploads, LinkFails(u)
    PROVE  StoreInv'
  BY AnsweredAlone DEF LinkFails, refs, StoreInv, RowsTyped, StoreTypeOK, Busy, Stages, Early

LEMMA AttachKeeps ==
    ASSUME StoreInv, NEW u \in Uploads, Attach(u)
    PROVE  StoreInv'
<1>1. places' \in [AssetIds -> {"none", "fresh", "stale", "ACTIVE"}]
  BY DEF Attach, StoreInv, RowsTyped, StoreTypeOK
<1>. QED
  BY <1>1, AnsweredAlone DEF Attach, Busy, Stages, Early

\* An upload takes up a row and its own copy goes.
LEMMA SettlesKeeps ==
    ASSUME StoreInv, NEW u \in Uploads, NEW s \in Keys, NEW r \in UploadRow,
           up[u].pc \in {"look", "create"}, files' = files \ {u}, tails' = tails,
           UNCHANGED <<blobs, documents, places, archived, images, cards, sweep, gc, pulled>>,
           up' \in [Uploads -> UploadRow], up'[u] = r,
           \A v \in Uploads : v # u => up'[v] = up[v],
           r.pc \in {"revive", "link"}, r.blob = s, r.seen = up[u].seen,
           r.owner = up[u].owner, r.kind = up[u].kind, r.sha = up[u].sha, r.card = up[u].card,
           \A v \in Uploads : up[v].pc \in Early => s # v,
           WithBytes(s, up[u].sha), s \in Stored => r.misled \/ blobs[s].key \in files
    PROVE  StoreInv'
<1>1. Stored' = Stored
  BY DEF Stored
<1>2. /\ FreshId(u) /\ UploadSound(u)
      /\ \A b \in Keys : blobs[b].key # u
  BY DEF StoreInv, UploadInv, FreshId, Early
<1>3. RowsTyped'
  BY DEF StoreInv, RowsTyped, StoreTypeOK, UploadRow
<1>4. ReferencesStored' /\ KeysUnique' /\ SweepSound'
  BY <1>1 DEF StoreInv, ReferencesStored, KeysUnique, SweepSound
<1>5. ReferencedKept'
  BY <1>1, <1>2
     DEF StoreInv, ReferencedKept, Unused, AssetsOf, PreviewsOf, ImagesOf, Stored
<1>6. CountedBySweep'
  <2>1. Relying(blobs[sweep.cur].key) \subseteq Relying(blobs[sweep.cur].key)'
    BY DEF Relying
  <2>. QED
    BY <1>1, <2>1
       DEF StoreInv, CountedBySweep, Unused, AssetsOf, PreviewsOf, ImagesOf
<1>7. ASSUME NEW v \in Uploads PROVE FreshId(v)'
  <2>1. up'[v].pc \in Early => up[v].pc \in Early /\ v # u
    BY DEF Early
  <2>. QED
    BY <1>1, <2>1 DEF StoreInv, UploadInv, FreshId
<1>8. ASSUME NEW v \in Uploads PROVE UploadSound(v)'
  BY <1>1, <1>2, StoreAssumption
     DEF StoreInv, UploadInv, UploadSound, WithBytes
<1>9. ASSUME NEW v \in Uploads PROVE OwnFile(v)'
  BY DEF StoreInv, UploadInv, OwnFile
<1>10. ASSUME NEW v \in Uploads PROVE FileThere(v)'
  <2>1. CASE v = u
    BY <1>1, <1>2, <2>1 DEF FileThere
  <2>2. CASE v # u
    BY <1>1, <1>2, <2>2 DEF StoreInv, UploadInv, FileThere, Stored
  <2>. QED
    BY <2>1, <2>2
<1>11. ASSUME NEW v \in Uploads PROVE Overtaken(v)'
  BY <1>1, <1>2
     DEF StoreInv, UploadInv, Overtaken, WithSha, Young, AssetsOf, Stored
<1>12. \A v \in Uploads : Queued(v)' /\ AtWork(v)'
  BY QueuesStay DEF Busy, Stages, Early
<1>13. ASSUME NEW p \in Collectors PROVE GcInv(p)'
  BY <1>1 DEF StoreInv, GcInv, GcSound, KeyRead, CountedByGc, AssetsOf, PreviewsOf
<1>. QED
  BY <1>3, <1>4, <1>5, <1>6, <1>7, <1>8, <1>9, <1>10, <1>11, <1>12, <1>13
     DEF StoreInv, UploadInv

LEMMA ReuseKeeps ==
    ASSUME StoreInv, NEW u \in Uploads, Reuse(u)
    PROVE  StoreInv'
<1>. DEFINE s == up[u].seen
            r == [up[u] EXCEPT !.blob = s, !.misled = blobs[s].key # up[u].row.key,
                    !.pc = IF up[u].row.due # "no" \/ (up[u].kind = "art" /\ ~up[u].row.art)
                           THEN "revive" ELSE "link"]
<1>1. /\ up[u].pc = "look" /\ up[u].row.key \in files /\ files' = files \ {u} /\ tails' = tails
      /\ UNCHANGED <<blobs, documents, places, archived, images, cards, sweep, gc, pulled>>
  BY DEF Reuse, Reusable, refs
<1>2. s \in Keys
  BY <1>1 DEF StoreInv, RowsTyped, UploadRow, UploadInv, UploadSound
<1>3. /\ r \in UploadRow /\ r.pc \in {"revive", "link"} /\ r.blob = s /\ r.seen = up[u].seen
      /\ r.owner = up[u].owner /\ r.kind = up[u].kind /\ r.sha = up[u].sha
      /\ r.card = up[u].card /\ (r.misled = (blobs[s].key # up[u].row.key))
  <2>1. ASSUME NEW m \in BOOLEAN, NEW pc \in {"revive", "link"},
               r = [up[u] EXCEPT !.blob = s, !.misled = m, !.pc = pc]
        PROVE  /\ r \in UploadRow /\ r.pc = pc /\ r.blob = s /\ r.seen = up[u].seen
               /\ r.owner = up[u].owner /\ r.kind = up[u].kind /\ r.sha = up[u].sha
               /\ r.card = up[u].card /\ r.misled = m
    <3>1. up[u] \in UploadRow
      BY DEF StoreInv, RowsTyped
    <3>. HIDE DEF r
    <3>2. r \in UploadRow
      BY <1>2, <2>1, <3>1, ZenonT(60) DEF UploadRow, Stages, Early
    <3>3. /\ r.pc = pc /\ r.blob = s /\ r.seen = up[u].seen
          /\ r.owner = up[u].owner /\ r.kind = up[u].kind /\ r.sha = up[u].sha
          /\ r.card = up[u].card
      BY <2>1, <3>1 DEF UploadRow
    <3>4. r.misled = m
      BY <2>1, <3>1 DEF UploadRow
    <3>. QED
      BY <3>2, <3>3, <3>4
  <2>. DEFINE m  == blobs[s].key # up[u].row.key
              pc == IF up[u].row.due # "no" \/ (up[u].kind = "art" /\ ~up[u].row.art)
                    THEN "revive" ELSE "link"
  <2>2. m \in BOOLEAN /\ pc \in {"revive", "link"}
    OBVIOUS
  <2>3. r = [up[u] EXCEPT !.blob = s, !.misled = m, !.pc = pc]
    OBVIOUS
  <2>4. r.pc = pc /\ r.misled = m /\ r \in UploadRow /\ r.blob = s /\ r.seen = up[u].seen
        /\ r.owner = up[u].owner /\ r.kind = up[u].kind /\ r.sha = up[u].sha
        /\ r.card = up[u].card
    <3>. HIDE DEF r, m, pc
    <3>. QED
      BY <2>1, <2>2, <2>3
  <2>. HIDE DEF r
  <2>. QED
    BY <2>2, <2>4
<1>4. /\ up' \in [Uploads -> UploadRow] /\ up'[u] = r
      /\ \A v \in Uploads : v # u => up'[v] = up[v]
  <2>1. Move(u, r)
    BY DEF Reuse
  <2>. HIDE DEF r
  <2>. QED
    BY <1>3, <2>1, Moved DEF StoreInv
<1>5. /\ up[u].pc \in {"look", "create"} /\ WithBytes(s, up[u].sha)
      /\ \A v \in Uploads : up[v].pc \in Early => s # v
  BY <1>1 DEF StoreInv, UploadInv, UploadSound, FreshId
<1>. HIDE DEF r, s
<1>6. s \in Stored => r.misled \/ blobs[s].key \in files
  BY <1>1, <1>3
<1>. QED
  BY <1>1, <1>2, <1>3, <1>4, <1>5, <1>6, SettlesKeeps DEF s

\* No row comes or goes or gets another file, though other columns may change.
SameRows ==
    /\ Stored' = Stored
    /\ \A b \in Keys : blobs'[b].key = blobs[b].key /\ blobs'[b].sha = blobs[b].sha

\* No row is referred to that was not, and no file goes.
LEMMA RowsStay ==
    ASSUME StoreInv, SameRows, UNCHANGED <<files, pulled>>,
           \A a \in AssetIds :
               \/ documents'[a] = NoAsset
               \/ documents'[a].blob = documents[a].blob /\ documents[a] # NoAsset,
           \A o \in Owners : images'[o] \in {images[o], Null},
           \A c \in Cards : cards'[c] \in {cards[c], Null}
    PROVE  /\ ReferencesStored' /\ KeysUnique' /\ ReferencedKept'
           /\ \A b \in Keys : /\ AssetsOf(b)' \subseteq AssetsOf(b)
                              /\ PreviewsOf(b)' \subseteq PreviewsOf(b)
                              /\ Unused(b) => Unused(b)'
<1>1. \A b \in Keys : /\ AssetsOf(b)' \subseteq AssetsOf(b)
                      /\ PreviewsOf(b)' \subseteq PreviewsOf(b)
                      /\ ImagesOf(b)' \subseteq ImagesOf(b)
  BY StoreAssumption DEF AssetsOf, PreviewsOf, ImagesOf, NoAsset
<1>2. \A b \in Keys : Unused(b) => Unused(b)'
  BY <1>1 DEF Unused
<1>3. ReferencesStored' /\ KeysUnique'
  BY DEF StoreInv, SameRows, ReferencesStored, KeysUnique, Stored
<1>4. ReferencedKept'
  BY <1>2 DEF StoreInv, SameRows, ReferencedKept, Stored
<1>. QED
  BY <1>1, <1>2, <1>3, <1>4

LEMMA ReviveKeeps ==
    ASSUME StoreInv, NEW u \in Uploads, Revive(u)
    PROVE  StoreInv'
<1>. DEFINE b == up[u].blob
<1>1. /\ up[u].pc = "revive"
      /\ UNCHANGED <<files, documents, places, archived, images, cards, sweep, gc, pulled>>
  BY DEF Revive, refs
<1>2. CASE b \notin Stored /\ Answer(u) /\ blobs' = blobs
  BY <1>1, <1>2, AnsweredAlone DEF StoreInv, RowsTyped, StoreTypeOK, Busy, Stages, Early
<1>3. CASE /\ b \in Stored /\ Step(u, "link") /\ tails' = tails
           /\ blobs' = [blobs EXCEPT ![b].due = "no", ![b].state = "READY",
                                     ![b].art = @ \/ up[u].kind = "art"]
  <2>. DEFINE r == [up[u] EXCEPT !.pc = "link"]
  <2>1. /\ r \in UploadRow /\ r.pc = "link" /\ r.blob = b /\ r.seen = up[u].seen
        /\ r.owner = up[u].owner /\ r.kind = up[u].kind /\ r.sha = up[u].sha
        /\ r.card = up[u].card /\ r.misled = up[u].misled
    BY <1>1 DEF StoreInv, RowsTyped, UploadRow, Stages, Early
  <2>2. /\ up' \in [Uploads -> UploadRow] /\ up'[u] = r
        /\ \A v \in Uploads : v # u => up'[v] = up[v]
    <3>. HIDE DEF r
    <3>1. Move(u, r)
      BY <1>3 DEF r, Step
    <3>. QED
      BY <2>1, <3>1, Moved DEF StoreInv
  <2>. HIDE DEF r
  <2>3. b \in Keys /\ blobs[b] \in BlobRow
    BY <1>3 DEF Stored, StoreInv, RowsTyped, StoreTypeOK
  <2>4. /\ blobs'[b] \in BlobRow /\ blobs'[b].key = blobs[b].key
        /\ blobs'[b].sha = blobs[b].sha /\ blobs'[b].old = blobs[b].old
        /\ blobs'[b].due = "no"
        /\ \A c \in Keys : c # b => blobs'[c] = blobs[c]
    BY <1>3, <2>3 DEF BlobRow, Due, StoreInv, RowsTyped, StoreTypeOK
  <2>5. blobs' \in [Keys -> BlobRow \cup {NoBlob}]
    BY <1>3, <2>3, <2>4 DEF StoreInv, RowsTyped, StoreTypeOK
  <2>6. SameRows
    BY <2>3, <2>4, StoreAssumption DEF SameRows, Stored, NoBlob, BlobRow, Keys
  <2>7. RowsTyped'
    BY <1>1, <1>3, <2>2, <2>5 DEF StoreInv, RowsTyped, StoreTypeOK, UploadRow
  <2>8. /\ ReferencesStored' /\ KeysUnique' /\ ReferencedKept' /\ SweepSound'
        /\ \A c \in Keys : /\ AssetsOf(c)' \subseteq AssetsOf(c)
                           /\ PreviewsOf(c)' \subseteq PreviewsOf(c)
                           /\ Unused(c) => Unused(c)'
    BY <1>1, <2>6, RowsStay DEF StoreInv, SweepSound
  <2>9. CountedBySweep'
    <3>1. \A v \in Uploads : up'[v].blob = up[v].blob
                            /\ (up[v].pc \in {"revive", "link"} <=> up'[v].pc \in {"revive", "link"})
      BY <1>1, <2>1, <2>2
    <3>2. ASSUME sweep.pc = "remove", sweep.cur \in Stored
          PROVE  Relying(blobs[sweep.cur].key) \subseteq Relying(blobs[sweep.cur].key)'
      <4>1. \A v \in Uploads : up[v].pc \in {"revive", "link"} => up[v].blob \in Keys
        BY DEF StoreInv, UploadInv, UploadSound, RowsTyped, StoreTypeOK
      <4>. QED
        BY <1>1, <2>6, <3>1, <3>2, <4>1 DEF Relying, SameRows, Stored
    <3>. QED
      BY <1>1, <2>6, <2>8, <3>2 DEF StoreInv, CountedBySweep, SameRows, Stored
  <2>10. ASSUME NEW v \in Uploads PROVE FreshId(v)' /\ UploadSound(v)' /\ OwnFile(v)' /\ FileThere(v)'
    <3>1. FreshId(v)'
      BY <1>1, <2>1, <2>2, <2>6 DEF StoreInv, UploadInv, FreshId, SameRows, Early
    <3>2. UploadSound(v)'
      BY <1>1, <2>1, <2>2, <2>6 DEF StoreInv, UploadInv, UploadSound, WithBytes, SameRows, Stored
    <3>3. OwnFile(v)' /\ FileThere(v)'
      BY <1>1, <2>1, <2>2, <2>6 DEF StoreInv, UploadInv, OwnFile, FileThere, SameRows, Stored
    <3>. QED
      BY <3>1, <3>2, <3>3
  <2>11. ASSUME NEW v \in Uploads, up'[v].pc = "create", NEW c \in WithSha(up[v].sha)'
         PROVE  Young(c)'
    <3>1. up'[v] = up[v] /\ c \in WithSha(up[v].sha)
      BY <2>1, <2>2, <2>6, <2>11 DEF WithSha, SameRows, Stored
    <3>2. Young(c) /\ c \in Keys
      BY <2>11, <3>1 DEF StoreInv, UploadInv, Overtaken, WithSha, Stored
    <3>. QED
      BY <1>1, <2>4, <2>8, <3>2 DEF Young
  <2>12. \A v \in Uploads : Queued(v)' /\ AtWork(v)'
    BY <1>1, <1>3, <2>1, <2>2, QueuesStay DEF Busy, Stages, Early
  <2>13. ASSUME NEW p \in Collectors PROVE GcInv(p)'
    BY <1>1, <2>6, <2>8, SMTT(60) DEF StoreInv, GcInv, GcSound, KeyRead, CountedByGc, SameRows, Stored
  <2>. QED
    BY <2>7, <2>8, <2>9, <2>10, <2>11, <2>12, <2>13 DEF StoreInv, UploadInv, Overtaken
<1>. QED
  BY <1>2, <1>3 DEF Revive

\* A row, new or old, gets the file of an upload.
LEMMA FileGiven ==
    ASSUME StoreInv, NEW u \in Uploads, NEW b \in Keys, NEW r \in UploadRow,
           up[u].pc \in {"look", "create"}, b = u \/ b \in Stored,
           b \in Stored => blobs[b].sha = up[u].sha /\ blobs'[b].old = blobs[b].old,
           b \notin Stored => ~blobs'[b].old,
           blobs' \in [Keys -> BlobRow \cup {NoBlob}], blobs'[b] \in BlobRow,
           blobs'[b].key = u, blobs'[b].sha = up[u].sha, blobs'[b].due = "no",
           \A c \in Keys : c # b => blobs'[c] = blobs[c],
           pulled' = pulled \ {b},
           UNCHANGED <<files, documents, places, archived, images, cards, sweep, gc, tails>>,
           up' \in [Uploads -> UploadRow], up'[u] = r,
           \A v \in Uploads : v # u => up'[v] = up[v],
           r.pc = "link", r.blob = b, r.seen = up[u].seen,
           r.owner = up[u].owner, r.kind = up[u].kind, r.sha = up[u].sha, r.card = up[u].card
    PROVE  StoreInv'
<1>1. /\ u \in files /\ u \notin Stored /\ u \in Keys
      /\ \A c \in Keys : blobs[c].key # u
      /\ \A p \in Collectors : gc[p].blob # u /\ gc[p].key # u
      /\ u \notin sweep.blobs /\ sweep.cur # u
      /\ \A v \in Uploads : up[v].blob # u /\ up[v].seen # u
  BY DEF StoreInv, UploadInv, FreshId, OwnFile, Early, Keys
<1>2. /\ Stored' = Stored \cup {b}
      /\ \A c \in Keys : c # b => (c \in Stored' <=> c \in Stored) /\ blobs'[c] = blobs[c]
  <2>1. blobs'[b] # NoBlob
    BY StoreAssumption DEF BlobRow, NoBlob
  <2>. QED
    BY <2>1 DEF Stored
<1>3. RowsTyped'
  BY DEF StoreInv, RowsTyped, StoreTypeOK, UploadRow
<1>4. ReferencesStored' /\ SweepSound'
  BY <1>2 DEF StoreInv, ReferencesStored, SweepSound
<1>5. KeysUnique'
  BY <1>1, <1>2 DEF StoreInv, KeysUnique, Stored
<1>6. \A c \in Keys : /\ AssetsOf(c)' = AssetsOf(c) /\ PreviewsOf(c)' = PreviewsOf(c)
                      /\ Unused(c)' <=> Unused(c)
  BY DEF AssetsOf, PreviewsOf, ImagesOf, Unused
<1>7. ReferencedKept'
  BY <1>1, <1>2, <1>6 DEF StoreInv, ReferencedKept, Stored
<1>8. CountedBySweep'
  <2>1. SUFFICES ASSUME sweep.pc = "remove", sweep.cur \in Stored'
                 PROVE  \/ Unused(sweep.cur) \/ sweep.cur \in pulled'
                        \/ Relying(blobs[sweep.cur].key)' # {}
    BY <1>6 DEF CountedBySweep, Stored
  <2>2. CASE sweep.cur = b
    <3>1. u \in Relying(blobs[sweep.cur].key)'
      BY <2>2 DEF Relying
    <3>. QED
      BY <3>1
  <2>3. CASE sweep.cur # b
    <3>1. sweep.cur \in Stored /\ sweep.cur \in Keys
      BY <1>2, <2>1, <2>3 DEF Stored
    <3>2. \/ Unused(sweep.cur) \/ sweep.cur \in pulled
          \/ Relying(blobs[sweep.cur].key) # {}
      BY <2>1, <3>1 DEF StoreInv, CountedBySweep
    <3>3. ASSUME NEW v \in Relying(blobs[sweep.cur].key)
          PROVE  v \in Relying(blobs[sweep.cur].key)'
      <4>1. /\ v \in Uploads /\ up[v].pc \in {"revive", "link"} /\ up[v].blob \in Keys
            /\ blobs[up[v].blob].key = blobs[sweep.cur].key
        BY DEF Relying, StoreInv, UploadInv, UploadSound, RowsTyped, StoreTypeOK
      <4>2. blobs[sweep.cur].key \in Keys
        BY <3>1 DEF StoreInv, RowsTyped, StoreTypeOK, Stored, BlobRow
      <4>3. up[v].blob \in Stored
        BY <4>1, <4>2, StoreAssumption DEF Stored, NoBlob
      <4>4. up[v].blob = sweep.cur
        BY <3>1, <4>1, <4>3 DEF StoreInv, KeysUnique
      <4>5. v # u
        BY <4>1
      <4>. QED
        BY <2>3, <3>1, <4>1, <4>4, <4>5 DEF Relying
    <3>. QED
      BY <2>3, <3>2, <3>3
  <2>. QED
    BY <2>2, <2>3
<1>9. ASSUME NEW v \in Uploads PROVE FreshId(v)'
  <2>1. up'[v].pc \in Early => up[v].pc \in Early /\ v # u
    BY DEF Early
  <2>2. up[v].pc \in Early /\ v # u => v # b
    BY DEF StoreInv, UploadInv, FreshId
  <2>. QED
    BY <1>2, <2>1, <2>2 DEF StoreInv, UploadInv, FreshId
<1>10. ASSUME NEW v \in Uploads PROVE UploadSound(v)'
  <2>1. CASE v = u
    BY <1>1, <1>2, <2>1, StoreAssumption DEF StoreInv, UploadInv, UploadSound, WithBytes
  <2>2. CASE v # u
    BY <1>1, <1>2, <2>2 DEF StoreInv, UploadInv, UploadSound, WithBytes, Stored
  <2>. QED
    BY <2>1, <2>2
<1>11. ASSUME NEW v \in Uploads PROVE OwnFile(v)' /\ FileThere(v)'
  <2>1. OwnFile(v)'
    BY DEF StoreInv, UploadInv, OwnFile
  <2>2. CASE v = u
    <3>1. blobs'[up'[v].blob].key \in files'
      BY <1>1, <2>2
    <3>. QED
      BY <2>1, <3>1 DEF FileThere
  <2>3. CASE v # u
    <3>1. SUFFICES ASSUME up[v].pc \in {"revive", "link"}, up[v].blob \in Stored'
                   PROVE  up[v].misled \/ blobs'[up[v].blob].key \in files
      BY <2>1, <2>3 DEF FileThere
    <3>2. CASE up[v].blob = b
      BY <1>1, <3>2
    <3>3. CASE up[v].blob # b
      <4>1. up[v].blob \in Stored /\ blobs'[up[v].blob] = blobs[up[v].blob]
        BY <1>2, <3>1, <3>3 DEF Stored
      <4>. QED
        BY <3>1, <4>1 DEF StoreInv, UploadInv, FileThere
    <3>. QED
      BY <3>2, <3>3
  <2>. QED
    BY <2>1, <2>2, <2>3
<1>12. ASSUME NEW v \in Uploads, up'[v].pc = "create", NEW c \in WithSha(up[v].sha)'
       PROVE  Young(c)'
  <2>1. up'[v] = up[v] /\ v # u /\ c \in Keys
    BY <1>12 DEF WithSha, Stored
  <2>2. ASSUME c \in WithSha(up[v].sha) PROVE Young(c)
    BY <1>12, <2>1, <2>2 DEF StoreInv, UploadInv, Overtaken
  <2>3. CASE c # b
    <3>1. c \in WithSha(up[v].sha)
      BY <1>2, <1>12, <2>1, <2>3 DEF WithSha, Stored
    <3>2. Young(c) /\ blobs'[c] = blobs[c] /\ AssetsOf(c)' = AssetsOf(c)
      BY <1>6, <2>1, <2>2, <2>3, <3>1
    <3>. QED
      BY <3>2 DEF Young
  <2>4. CASE c = b /\ b \in Stored
    <3>1. c \in WithSha(up[v].sha)
      BY <1>12, <2>1, <2>4 DEF WithSha, Stored
    <3>. QED
      BY <1>1, <1>6, <2>1, <2>2, <2>4, <3>1 DEF Young
  <2>5. CASE c = b /\ b \notin Stored
    <3>1. b = u /\ AssetsOf(b) = {}
      BY <2>5, StoreAssumption DEF StoreInv, ReferencesStored, AssetsOf, NoAsset, Keys
    <3>. QED
      BY <1>1, <1>6, <2>1, <2>5, <3>1 DEF Young
  <2>. QED
    BY <2>3, <2>4, <2>5
<1>13. \A v \in Uploads : Queued(v)' /\ AtWork(v)'
  BY QueuesStay DEF Busy, Stages, Early
<1>14. ASSUME NEW p \in Collectors PROVE GcInv(p)'
  <2>1. GcSound(p)' /\ KeyRead(p)'
    BY <1>1, <1>2 DEF StoreInv, GcInv, GcSound, KeyRead, Stored
  <2>2. CountedByGc(p)'
    <3>1. SUFFICES ASSUME gc[p].pc = "unlink", gc[p].blob \in Stored',
                          blobs'[gc[p].blob].key = gc[p].key
                   PROVE  gc[p].blob \in pulled' \/ (AssetsOf(gc[p].blob) = {}
                                                      /\ PreviewsOf(gc[p].blob) = {})
      BY <1>6 DEF CountedByGc, Stored
    <3>2. gc[p].blob # b /\ gc[p].blob \in Keys
      BY <1>1, <3>1 DEF Stored
    <3>. QED
      BY <1>2, <3>1, <3>2 DEF StoreInv, GcInv, CountedByGc
  <2>. QED
    BY <2>1, <2>2 DEF GcInv
<1>. QED
  BY <1>3, <1>4, <1>5, <1>7, <1>8, <1>9, <1>10, <1>11, <1>12, <1>13, <1>14
     DEF StoreInv, UploadInv, Overtaken

LEMMA AdoptKeeps ==
    ASSUME StoreInv, NEW u \in Uploads, Adopt(u)
    PROVE  StoreInv'
<1>. DEFINE b == up[u].seen
<1>1. /\ up[u].pc = "look"
      /\ UNCHANGED <<files, documents, places, archived, images, cards, sweep, gc>>
  BY DEF Adopt, refs
<1>2. CASE b \notin Stored /\ Answer(u) /\ UNCHANGED <<blobs, pulled>>
  BY <1>1, <1>2, AnsweredAlone DEF StoreInv, RowsTyped, StoreTypeOK, Busy, Stages, Early
<1>3. CASE /\ b \in Stored /\ pulled' = pulled \ {b} /\ tails' = tails
           /\ blobs' = [blobs EXCEPT ![b].key = u, ![b].state = "READY",
                                     ![b].due = "no", ![b].art = @ \/ up[u].kind = "art"]
           /\ Move(u, [up[u] EXCEPT !.pc = "link", !.blob = b])
  <2>1. b \in Keys /\ blobs[b] \in BlobRow /\ blobs[b].sha = up[u].sha
    BY <1>1, <1>3 DEF Stored, StoreInv, RowsTyped, StoreTypeOK, UploadInv, UploadSound, WithBytes
  <2>. DEFINE r == [up[u] EXCEPT !.pc = "link", !.blob = b]
  <2>2. /\ r \in UploadRow /\ r.pc = "link" /\ r.blob = b /\ r.seen = up[u].seen
        /\ r.owner = up[u].owner /\ r.kind = up[u].kind /\ r.sha = up[u].sha
        /\ r.card = up[u].card
    BY <1>1, <2>1, ZenonT(60) DEF StoreInv, RowsTyped, UploadRow, Stages, Early
  <2>3. /\ up' \in [Uploads -> UploadRow] /\ up'[u] = r
        /\ \A v \in Uploads : v # u => up'[v] = up[v]
    <3>. HIDE DEF r
    <3>1. Move(u, r)
      BY <1>3 DEF r
    <3>. QED
      BY <2>2, <3>1, Moved DEF StoreInv
  <2>. HIDE DEF r
  <2>4. /\ blobs'[b] \in BlobRow /\ blobs'[b].key = u
        /\ blobs'[b].sha = blobs[b].sha /\ blobs'[b].old = blobs[b].old
        /\ blobs'[b].due = "no"
        /\ \A c \in Keys : c # b => blobs'[c] = blobs[c]
    BY <1>3, <2>1 DEF BlobRow, Due, Keys, StoreInv, RowsTyped, StoreTypeOK
  <2>5. blobs' \in [Keys -> BlobRow \cup {NoBlob}]
    BY <1>3, <2>1, <2>4 DEF StoreInv, RowsTyped, StoreTypeOK
  <2>. HIDE DEF b
  <2>. QED
    BY <1>1, <1>3, <2>1, <2>2, <2>3, <2>4, <2>5, FileGiven
<1>. QED
  BY <1>2, <1>3 DEF Adopt

LEMMA CreateKeeps ==
    ASSUME StoreInv, NEW u \in Uploads, Create(u)
    PROVE  StoreInv'
<1>1. /\ up[u].pc = "create" /\ tails' = tails
      /\ UNCHANGED <<documents, places, archived, images, cards, sweep, gc>>
  BY DEF Create, refs
<1>2. ASSUME NEW b \in Keys
      PROVE  LET r == [up[u] EXCEPT !.pc = "link", !.blob = b]
             IN  /\ r \in UploadRow /\ r.pc = "link" /\ r.blob = b /\ r.seen = up[u].seen
                 /\ r.owner = up[u].owner /\ r.kind = up[u].kind /\ r.sha = up[u].sha
                 /\ r.card = up[u].card
  BY ZenonT(60) DEF StoreInv, RowsTyped, UploadRow, Stages, Early
<1>3. ASSUME NEW b \in Keys, NEW r, r = [up[u] EXCEPT !.pc = "link", !.blob = b], Move(u, r)
      PROVE  /\ r \in UploadRow /\ r.pc = "link" /\ r.blob = b /\ r.seen = up[u].seen
             /\ r.owner = up[u].owner /\ r.kind = up[u].kind /\ r.sha = up[u].sha
             /\ r.card = up[u].card
             /\ up' \in [Uploads -> UploadRow] /\ up'[u] = r
             /\ \A v \in Uploads : v # u => up'[v] = up[v]
  <2>1. /\ r \in UploadRow /\ r.pc = "link" /\ r.blob = b /\ r.seen = up[u].seen
        /\ r.owner = up[u].owner /\ r.kind = up[u].kind /\ r.sha = up[u].sha
        /\ r.card = up[u].card
    BY <1>2, <1>3
  <2>. QED
    BY <1>3, <2>1, Moved DEF StoreInv
<1>4. /\ u \in Keys /\ u \notin Stored /\ up[u].sha \in Bytes
      /\ \A v \in Uploads : up[v].pc \in Early => \A b \in Stored : b # v
  BY <1>1 DEF StoreInv, UploadInv, FreshId, UploadSound, Early, Keys
<1>5. CASE /\ blobs' = [blobs EXCEPT ![u] = [sha |-> up[u].sha, key |-> u, state |-> "READY",
                                             due |-> "no", art |-> up[u].kind = "art",
                                             old |-> FALSE]]
           /\ pulled' = pulled \ {u} /\ files' = files
           /\ Move(u, [up[u] EXCEPT !.pc = "link", !.blob = u])
  <2>1. PICK r : r = [up[u] EXCEPT !.pc = "link", !.blob = u]
    OBVIOUS
  <2>2. /\ r \in UploadRow /\ r.pc = "link" /\ r.blob = u /\ r.seen = up[u].seen
        /\ r.owner = up[u].owner /\ r.kind = up[u].kind /\ r.sha = up[u].sha
        /\ r.card = up[u].card
        /\ up' \in [Uploads -> UploadRow] /\ up'[u] = r
        /\ \A v \in Uploads : v # u => up'[v] = up[v]
    <3>1. Move(u, r)
      BY <1>5, <2>1
    <3>2. u \in Keys
      BY <1>4
    <3>. QED
      BY <1>3, <2>1, <3>1, <3>2, ZenonT(60)
  <2>3. ASSUME NEW art \in BOOLEAN
        PROVE  [sha |-> up[u].sha, key |-> u, state |-> "READY", due |-> "no",
                art |-> art, old |-> FALSE] \in BlobRow
    BY <1>4 DEF BlobRow, Due
  <2>4. /\ blobs'[u] \in BlobRow /\ blobs'[u].key = u /\ blobs'[u].sha = up[u].sha
        /\ ~blobs'[u].old /\ blobs'[u].due = "no"
        /\ \A c \in Keys : c # u => blobs'[c] = blobs[c]
    BY <1>4, <1>5, <2>3 DEF StoreInv, RowsTyped, StoreTypeOK
  <2>5. blobs' \in [Keys -> BlobRow \cup {NoBlob}]
    BY <1>4, <1>5, <2>4 DEF StoreInv, RowsTyped, StoreTypeOK
  <2>. QED
    BY <1>1, <1>4, <1>5, <2>2, <2>4, <2>5, FileGiven
<1>6. ASSUME NEW b \in WithSha(up[u].sha), files' = files \ {u}, UNCHANGED <<blobs, pulled>>,
             Move(u, [up[u] EXCEPT !.pc = "link", !.blob = b])
      PROVE  StoreInv'
  <2>1. PICK r : r = [up[u] EXCEPT !.pc = "link", !.blob = b]
    OBVIOUS
  <2>2. b \in Keys /\ b \in Stored /\ WithBytes(b, up[u].sha)
    BY DEF WithSha, Stored, WithBytes
  <2>3. /\ r \in UploadRow /\ r.pc = "link" /\ r.blob = b /\ r.seen = up[u].seen
        /\ r.owner = up[u].owner /\ r.kind = up[u].kind /\ r.sha = up[u].sha
        /\ r.card = up[u].card
        /\ up' \in [Uploads -> UploadRow] /\ up'[u] = r
        /\ \A v \in Uploads : v # u => up'[v] = up[v]
    BY <1>3, <1>6, <2>1, <2>2, ZenonT(60)
  <2>4. blobs[b].key \in files
    BY <1>1 DEF StoreInv, UploadInv, Overtaken, Young
  <2>. QED
    BY <1>1, <1>4, <1>6, <2>2, <2>3, <2>4, SettlesKeeps
<1>. QED
  BY <1>5, <1>6 DEF Create

\* A document, an image or a preview refers to a row.
LEMMA ReferenceMade ==
    ASSUME StoreInv, NEW u \in Uploads, Referred(u), up[u].pc = "link",
           UNCHANGED <<files, blobs, sweep>>,
           documents' \in [AssetIds -> AssetRow \cup {NoAsset}],
           images' \in [Owners -> Keys \cup {Null}], cards' \in [Cards -> Keys \cup {Null}],
           places' = places, archived' = archived, tails' \in [Owners -> Seq(Uploads)],
           \A a \in AssetIds : \/ documents'[a] = documents[a]
                               \/ documents'[a].blob = up[u].blob /\ documents'[a].due = "no",
           \A o \in Owners : images'[o] \in {images[o], up[u].blob},
           \A c \in Cards : cards'[c] \in {cards[c], up[u].blob},
           gc' \in [Collectors -> GcRow],
           \A p \in Collectors :
               \/ gc'[p] = gc[p]
               \/ gc'[p] = NoGc
               \/ gc'[p].pc = "weigh" /\ gc'[p].blob \in Stored /\ gc'[p].key = Null,
           up' \in [Uploads -> UploadRow], \A v \in Uploads : v # u => up'[v] = up[v],
           up'[u].pc \in {"attach", "done"}, UploadSound(u)',
           up'[u].blob \in {up[u].blob, Null}, up'[u].seen \in {up[u].seen, Null},
           \A v \in Uploads : Queued(v)' /\ AtWork(v)'
    PROVE  StoreInv'
<1>. DEFINE b == up[u].blob
<1>1. /\ b \in Stored /\ b \in Keys
      /\ pulled' = IF Doomed(b) \/ Missed(u) THEN pulled \cup {b} ELSE pulled
  BY DEF Referred, Stored
<1>2. Stored' = Stored
  BY DEF Stored
<1>0. /\ \A p \in Collectors : /\ gc'[p].blob \in {gc[p].blob, Null} \cup Stored
                                /\ gc'[p].key \in {gc[p].key, Null}
                                /\ \/ gc'[p] = gc[p] \/ gc'[p].pc = "idle"
                                   \/ gc'[p].pc = "weigh" /\ gc'[p].blob \in Stored
      /\ Null \notin Stored
  BY StoreAssumption DEF NoGc, Stored
<1>3. RowsTyped'
  BY <1>1 DEF StoreInv, RowsTyped, StoreTypeOK, UploadRow
<1>4. ReferencesStored' /\ KeysUnique' /\ SweepSound'
  BY <1>1, <1>2 DEF StoreInv, ReferencesStored, KeysUnique, SweepSound
<1>5. ASSUME NEW c \in Keys, c # b
      PROVE  /\ AssetsOf(c)' \subseteq AssetsOf(c) /\ PreviewsOf(c)' \subseteq PreviewsOf(c)
             /\ ImagesOf(c)' \subseteq ImagesOf(c)
  BY <1>5 DEF AssetsOf, PreviewsOf, ImagesOf
<1>6. ReferencedKept'
  <2>1. SUFFICES ASSUME NEW c \in Stored, ~Unused(c)'
                 PROVE  blobs[c].key \in files \/ c \in pulled'
    BY <1>2 DEF ReferencedKept
  <2>2. CASE c = b
    <3>1. up[u].misled \/ blobs[b].key \in files
      BY <1>1 DEF StoreInv, UploadInv, FileThere
    <3>. QED
      BY <1>1, <2>2, <3>1 DEF Missed
  <2>3. CASE c # b
    <3>1. ~Unused(c)
      BY <1>5, <2>1, <2>3 DEF Unused, Stored
    <3>. QED
      BY <1>1, <3>1 DEF StoreInv, ReferencedKept
  <2>. QED
    BY <2>2, <2>3
<1>7. CountedBySweep'
  <2>1. SUFFICES ASSUME sweep.pc = "remove", sweep.cur \in Stored, ~Unused(sweep.cur)'
                 PROVE  sweep.cur \in pulled' \/ Relying(blobs[sweep.cur].key)' # {}
    BY <1>2 DEF CountedBySweep
  <2>2. CASE sweep.cur = b
    BY <1>1, <2>1, <2>2 DEF Doomed
  <2>3. CASE sweep.cur # b
    <3>1. ~Unused(sweep.cur)
      BY <1>5, <2>1, <2>3 DEF Unused, Stored
    <3>2. sweep.cur \in pulled \/ Relying(blobs[sweep.cur].key) # {}
      BY <2>1, <3>1 DEF StoreInv, CountedBySweep
    <3>3. u \notin Relying(blobs[sweep.cur].key)
      BY <1>1, <2>1, <2>3 DEF Relying, StoreInv, KeysUnique
    <3>4. Relying(blobs[sweep.cur].key) \subseteq Relying(blobs[sweep.cur].key)'
      BY <3>3 DEF Relying
    <3>. QED
      BY <1>1, <3>2, <3>4
  <2>. QED
    BY <2>2, <2>3
<1>8. ASSUME NEW v \in Uploads PROVE FreshId(v)'
  <2>1. up'[v].pc \in Early => up[v].pc \in Early /\ v # u
    BY DEF Early
  <2>2. up[v].pc \in Early => v # Null /\ v \notin Stored
    BY StoreAssumption DEF StoreInv, UploadInv, FreshId, Keys
  <2>3. up[v].pc \in Early => \A p \in Collectors : gc'[p].blob # v /\ gc'[p].key # v
    BY <1>0, <2>2 DEF StoreInv, UploadInv, FreshId
  <2>4. up[v].pc \in Early => \A w \in Uploads : up'[w].blob # v /\ up'[w].seen # v
    BY <2>2 DEF StoreInv, UploadInv, FreshId
  <2>. QED
    BY <1>2, <2>1, <2>2, <2>3, <2>4 DEF StoreInv, UploadInv, FreshId
<1>9. ASSUME NEW v \in Uploads PROVE UploadSound(v)' /\ OwnFile(v)' /\ FileThere(v)'
  <2>1. CASE v = u
    BY <2>1 DEF OwnFile, FileThere
  <2>2. CASE v # u
    BY <1>2, <2>2 DEF StoreInv, UploadInv, UploadSound, WithBytes, OwnFile, FileThere
  <2>. QED
    BY <2>1, <2>2
<1>10. ASSUME NEW v \in Uploads, up'[v].pc = "create", NEW c \in WithSha(up[v].sha)'
       PROVE  Young(c)'
  <2>1. up'[v] = up[v] /\ v # u
    BY <1>10
  <2>2. Young(c) /\ c \in Keys
    BY <1>2, <1>10, <2>1 DEF StoreInv, UploadInv, Overtaken, WithSha, Stored
  <2>3. \A a \in AssetsOf(c)' : documents'[a].due # "past"
    BY <2>2 DEF Young, AssetsOf
  <2>4. c # Null
    BY <2>2, StoreAssumption
  <2>. QED
    BY <1>0, <2>2, <2>3, <2>4 DEF Young, NoGc
<1>11. ASSUME NEW p \in Collectors PROVE GcInv(p)'
  <2>1. GcSound(p)' /\ KeyRead(p)'
    BY <1>0, <1>2 DEF StoreInv, GcInv, GcSound, KeyRead
  <2>2. CountedByGc(p)'
    <3>1. SUFFICES ASSUME gc'[p].pc = "unlink", gc'[p].blob \in Stored,
                          blobs[gc'[p].blob].key = gc'[p].key
                   PROVE  gc'[p].blob \in pulled' \/ (AssetsOf(gc[p].blob) = {}
                                                      /\ PreviewsOf(gc[p].blob) = {})'
      BY <1>2 DEF CountedByGc
    <3>2. gc'[p] = gc[p]
      BY <1>0, <3>1
    <3>3. CASE gc[p].blob = b
      BY <1>1, <3>1, <3>2, <3>3 DEF Doomed
    <3>4. CASE gc[p].blob # b
      <4>1. gc[p].blob \in pulled \/ (AssetsOf(gc[p].blob) = {} /\ PreviewsOf(gc[p].blob) = {})
        BY <3>1, <3>2 DEF StoreInv, GcInv, CountedByGc
      <4>. QED
        BY <1>1, <1>5, <3>1, <3>2, <3>4, <4>1 DEF Stored
    <3>. QED
      BY <3>3, <3>4
  <2>. QED
    BY <2>1, <2>2 DEF GcInv
<1>. QED
  BY <1>3, <1>4, <1>6, <1>7, <1>8, <1>9, <1>10, <1>11
     DEF StoreInv, UploadInv, Overtaken

\* An upload that is answered: what it was is forgotten.
LEMMA AnsweredIs ==
    ASSUME StoreInv, NEW u \in Uploads, Answer(u), up[u].pc \in Busy
    PROVE  /\ up' \in [Uploads -> UploadRow] /\ tails' \in [Owners -> Seq(Uploads)]
           /\ \A v \in Uploads : v # u => up'[v] = up[v]
           /\ up'[u].pc = "done" /\ up'[u].blob = Null /\ up'[u].seen = Null
           /\ UploadSound(u)'
           /\ \A v \in Uploads : Queued(v)' /\ AtWork(v)'
<1>1. up[u].pc \in Stages
  BY DEF Busy, Stages, Early
<1>2. /\ up' \in [Uploads -> UploadRow] /\ tails' \in [Owners -> Seq(Uploads)]
      /\ up'[u] = [NoUpload EXCEPT !.pc = "done"]
      /\ \A v \in Uploads : v # u => up'[v] = up[v]
      /\ \A v \in Uploads : Queued(v)' /\ AtWork(v)'
  BY <1>1, AnswerKeeps
<1>3. up'[u].pc = "done" /\ up'[u].blob = Null /\ up'[u].seen = Null
  BY <1>2 DEF NoUpload
<1>. QED
  BY <1>2, <1>3 DEF UploadSound

LEMMA LinkDocumentKeeps ==
    ASSUME StoreInv, NEW u \in Uploads, LinkDocument(u)
    PROVE  StoreInv'
<1>. DEFINE r == [up[u] EXCEPT !.pc = "attach"]
<1>1. /\ up[u].pc = "link" /\ up[u].kind = "document" /\ Referred(u) /\ tails' = tails
      /\ UNCHANGED <<files, blobs, places, archived, images, cards, sweep, gc>>
      /\ documents' = [documents EXCEPT ![u] = [blob |-> up[u].blob, owner |-> up[u].owner,
                                                due |-> "no"]]
  BY DEF LinkDocument
<1>2. /\ r \in UploadRow /\ r.pc = "attach" /\ r.blob = up[u].blob /\ r.seen = up[u].seen
      /\ r.owner = up[u].owner /\ r.kind = up[u].kind /\ r.sha = up[u].sha
      /\ r.card = up[u].card
  BY <1>1 DEF StoreInv, RowsTyped, UploadRow, Stages, Early
<1>3. /\ up' \in [Uploads -> UploadRow] /\ up'[u] = r
      /\ \A v \in Uploads : v # u => up'[v] = up[v]
  <2>. HIDE DEF r
  <2>1. Move(u, r)
    BY DEF r, LinkDocument, Step
  <2>. QED
    BY <1>2, <2>1, Moved DEF StoreInv
<1>. HIDE DEF r
<1>4. up[u].blob \in Keys /\ up[u].owner \in Owners /\ u \in AssetIds
  BY <1>1 DEF StoreInv, RowsTyped, UploadRow, UploadInv, UploadSound, AssetIds, Keys
<1>5. /\ documents' \in [AssetIds -> AssetRow \cup {NoAsset}]
      /\ \A a \in AssetIds : \/ documents'[a] = documents[a]
                             \/ documents'[a].blob = up[u].blob /\ documents'[a].due = "no"
  <2>1. [blob |-> up[u].blob, owner |-> up[u].owner, due |-> "no"] \in AssetRow
    BY <1>4 DEF AssetRow, Due
  <2>. QED
    BY <1>1, <2>1 DEF StoreInv, RowsTyped, StoreTypeOK
<1>6. UploadSound(u)'
  BY <1>1, <1>2, <1>3 DEF StoreInv, UploadInv, UploadSound
<1>7. \A v \in Uploads : Queued(v)' /\ AtWork(v)'
  BY <1>1, <1>2, <1>3, QueuesStay DEF Busy, Stages, Early
<1>. QED
  BY <1>1, <1>2, <1>3, <1>5, <1>6, <1>7, ReferenceMade DEF StoreInv, RowsTyped, StoreTypeOK

LEMMA LinkImageKeeps ==
    ASSUME StoreInv, NEW u \in Uploads, LinkImage(u)
    PROVE  StoreInv'
<1>1. /\ up[u].pc = "link" /\ up[u].kind = "image" /\ Referred(u) /\ Answer(u)
      /\ UNCHANGED <<files, blobs, documents, places, archived, cards, sweep, gc>>
      /\ images' = [images EXCEPT ![up[u].owner] = up[u].blob]
  BY DEF LinkImage
<1>2. up[u].blob \in Keys /\ up[u].owner \in Owners
  BY <1>1 DEF StoreInv, RowsTyped, UploadRow, UploadInv, UploadSound
<1>3. /\ images' \in [Owners -> Keys \cup {Null}]
      /\ \A o \in Owners : images'[o] \in {images[o], up[u].blob}
  BY <1>1, <1>2 DEF StoreInv, RowsTyped, StoreTypeOK
<1>4. up[u].pc \in Busy
  BY <1>1 DEF Busy, Stages, Early
<1>. QED
  BY <1>1, <1>3, <1>4, AnsweredIs, ReferenceMade DEF StoreInv, RowsTyped, StoreTypeOK

LEMMA LinkArtKeeps ==
    ASSUME StoreInv, NEW u \in Uploads, LinkArt(u)
    PROVE  StoreInv'
<1>. DEFINE old == cards[up[u].card]
<1>1. /\ up[u].pc = "link" /\ up[u].kind = "art" /\ Referred(u) /\ Answer(u)
      /\ UNCHANGED <<files, blobs, documents, places, archived, images, sweep>>
      /\ cards' = [cards EXCEPT ![up[u].card] = up[u].blob]
      /\ gc' = [gc EXCEPT ![u] = IF old \in {Null, up[u].blob} THEN NoGc
                                 ELSE [NoGc EXCEPT !.pc = "weigh", !.blob = old]]
  BY DEF LinkArt
<1>2. up[u].blob \in Keys /\ up[u].card \in Cards /\ u \in Collectors
  BY <1>1 DEF StoreInv, RowsTyped, UploadRow, UploadInv, UploadSound, Collectors
<1>3. /\ cards' \in [Cards -> Keys \cup {Null}]
      /\ \A c \in Cards : cards'[c] \in {cards[c], up[u].blob}
  BY <1>1, <1>2 DEF StoreInv, RowsTyped, StoreTypeOK
<1>4. up[u].pc \in Busy
  BY <1>1 DEF Busy, Stages, Early
<1>5. NoGc \in GcRow /\ NoGc.key = Null
  BY DEF NoGc, GcRow
<1>6. ASSUME NEW b \in Keys
      PROVE  /\ [NoGc EXCEPT !.pc = "weigh", !.blob = b] \in GcRow
             /\ [NoGc EXCEPT !.pc = "weigh", !.blob = b].pc = "weigh"
             /\ [NoGc EXCEPT !.pc = "weigh", !.blob = b].blob = b
             /\ [NoGc EXCEPT !.pc = "weigh", !.blob = b].key = Null
  BY DEF NoGc, GcRow
<1>7. old # Null => old \in Stored /\ old \in Keys
  BY <1>2 DEF StoreInv, ReferencesStored, Stored
<1>8. gc' \in [Collectors -> GcRow] /\ \A p \in Collectors : p # u => gc'[p] = gc[p]
  BY <1>1, <1>2, <1>5, <1>6, <1>7 DEF StoreInv, RowsTyped
<1>9. \/ gc'[u] = NoGc
      \/ gc'[u].pc = "weigh" /\ gc'[u].blob \in Stored /\ gc'[u].key = Null
  <2>1. gc \in [Collectors -> GcRow]
    BY DEF StoreInv, RowsTyped
  <2>. QED
    BY <1>1, <1>2, <1>6, <1>7, <2>1
<1>. QED
  BY <1>1, <1>3, <1>4, <1>8, <1>9, AnsweredIs, ReferenceMade DEF StoreInv, RowsTyped, StoreTypeOK

-----------------------------------------------------------------------------
(* Steps of boards, of the job and of collectors.                          *)

\* What uploads know stays true while rows keep their files and collectors look at
\* rows that are stored.
LEMMA UploadsStay ==
    ASSUME StoreInv, SameRows, UNCHANGED <<files, up, tails>>,
           \A p \in Collectors :
               /\ gc'[p].blob \in {gc[p].blob, Null} \cup Stored
               /\ gc'[p].key \in {gc[p].key, Null} \cup {blobs[b].key : b \in Stored},
           sweep'.blobs \subseteq sweep.blobs \cup Stored,
           sweep'.cur \in {sweep.cur, Null} \cup sweep.blobs,
           NEW v \in Uploads
    PROVE  /\ UploadSound(v)' /\ FreshId(v)' /\ OwnFile(v)' /\ FileThere(v)'
           /\ Queued(v)' /\ AtWork(v)'
<1>1. Queued(v)' /\ AtWork(v)'
  BY QueuesKept
<1>2. UploadSound(v)'
  BY DEF StoreInv, UploadInv, UploadSound, WithBytes, SameRows, Stored
<1>3. OwnFile(v)' /\ FileThere(v)'
  BY DEF StoreInv, UploadInv, OwnFile, FileThere, SameRows, Stored
<1>4. FreshId(v)'
  <2>1. SUFFICES ASSUME up[v].pc \in Early PROVE FreshId(v)'
    BY DEF FreshId
  <2>2. /\ v \notin Stored /\ v # Null /\ \A b \in Stored : blobs[b].key # v
        /\ \A p \in Collectors : gc[p].blob # v /\ gc[p].key # v
        /\ v \notin sweep.blobs /\ sweep.cur # v
    BY <2>1, StoreAssumption DEF StoreInv, UploadInv, FreshId, Keys, Stored
  <2>3. \A p \in Collectors : gc'[p].blob # v /\ gc'[p].key # v
    BY <2>2
  <2>4. v \notin sweep'.blobs /\ sweep'.cur # v
    BY <2>2
  <2>. QED
    BY <2>1, <2>2, <2>3, <2>4 DEF StoreInv, UploadInv, FreshId, SameRows
<1>. QED
  BY <1>1, <1>2, <1>3, <1>4

\* Young rows stay young, or no upload is under way that counts on it.
LEMMA OvertakenStays ==
    ASSUME StoreInv, SameRows, up' = up, Quiet \/ \A c \in Keys : Young(c) => Young(c)'
    PROVE  \A v \in Uploads : Overtaken(v)'
  BY DEF StoreInv, UploadInv, Overtaken, SameRows, Quiet, WithSha, Stored

\* A row stays young if nobody begins to look at it.
LEMMA YoungStays ==
    ASSUME StoreInv, NEW c \in Keys, Young(c), files' = files,
           blobs'[c].key = blobs[c].key, ~blobs'[c].old, blobs'[c].due # "past",
           AssetsOf(c)' \subseteq AssetsOf(c),
           \A a \in AssetsOf(c)' : documents'[a].due # "past",
           c \notin sweep'.blobs, sweep'.cur # c,
           \A p \in Collectors : gc'[p].blob = c => gc'[p].pc = "weigh"
    PROVE  Young(c)'
  BY DEF Young

\* The count of the job holds until it removes the file.
LEMMA SweepCountStays ==
    ASSUME StoreInv, SameRows, UNCHANGED <<up, pulled>>,
           \A b \in Keys : Unused(b) => Unused(b)',
           sweep'.pc = "remove" => sweep.pc = "remove" /\ sweep'.cur = sweep.cur
    PROVE  CountedBySweep'
<1>1. SUFFICES ASSUME sweep'.pc = "remove", sweep'.cur \in Stored'
               PROVE  \/ Unused(sweep.cur)' \/ sweep'.cur \in pulled'
                      \/ Relying(blobs[sweep.cur].key)' # {}
  BY DEF CountedBySweep
<1>2. /\ sweep.pc = "remove" /\ sweep'.cur = sweep.cur /\ sweep.cur \in Stored
      /\ sweep.cur \in Keys
  BY <1>1 DEF SameRows, Stored
<1>3. Unused(sweep.cur) => Unused(sweep.cur)'
  BY <1>2 DEF Unused, AssetsOf, PreviewsOf, ImagesOf
<1>4. Relying(blobs[sweep.cur].key)' = Relying(blobs[sweep.cur].key)
  <2>1. \A v \in Uploads : up[v].pc \in {"revive", "link"} => up[v].blob \in Keys
    BY DEF StoreInv, UploadInv, UploadSound, RowsTyped, StoreTypeOK
  <2>. QED
    BY <1>2, <2>1 DEF Relying, SameRows
<1>. QED
  BY <1>1, <1>2, <1>3, <1>4 DEF StoreInv, CountedBySweep

\* So does that of a collector that does nothing meanwhile.
LEMMA GcStays ==
    ASSUME StoreInv, SameRows, pulled' = pulled, NEW p \in Collectors, gc'[p] = gc[p],
           \A b \in Keys : /\ AssetsOf(b)' \subseteq AssetsOf(b)
                           /\ PreviewsOf(b)' \subseteq PreviewsOf(b)
    PROVE  GcInv(p)'
<1>1. GcSound(p)' /\ KeyRead(p)'
  BY DEF StoreInv, GcInv, GcSound, KeyRead, SameRows, Stored
<1>2. CountedByGc(p)'
  <2>1. SUFFICES ASSUME gc[p].pc = "unlink", gc[p].blob \in Stored,
                        blobs[gc[p].blob].key = gc[p].key
                 PROVE  gc[p].blob \in pulled \/ (AssetsOf(gc[p].blob) = {}
                                                  /\ PreviewsOf(gc[p].blob) = {})'
    BY DEF CountedByGc, SameRows, Stored
  <2>2. gc[p].blob \in Keys
    BY <2>1 DEF Stored
  <2>. QED
    BY <2>1, <2>2 DEF StoreInv, GcInv, CountedByGc
<1>. QED
  BY <1>1, <1>2 DEF GcInv

\* The job goes on and touches no row.
LEMMA SweepAlone ==
    ASSUME StoreInv,
           UNCHANGED <<files, blobs, documents, archived, images, cards, up, tails, gc, pulled>>,
           places' \in [AssetIds -> {"none", "fresh", "stale", "ACTIVE"}],
           sweep' \in SweepRow, sweep'.blobs \subseteq sweep.blobs,
           sweep'.cur \in {sweep.cur, Null} \cup sweep.blobs,
           sweep'.pc = "remove" => Unused(sweep'.cur), SweepSound'
    PROVE  StoreInv'
<1>1. SameRows
  BY DEF SameRows, Stored
<1>2. RowsTyped'
  BY DEF StoreInv, RowsTyped, StoreTypeOK, SweepRow
<1>3. /\ ReferencesStored' /\ KeysUnique' /\ ReferencedKept'
      /\ \A b \in Keys : /\ AssetsOf(b)' \subseteq AssetsOf(b)
                         /\ PreviewsOf(b)' \subseteq PreviewsOf(b)
                         /\ Unused(b) => Unused(b)'
  BY <1>1, RowsStay DEF StoreInv, ReferencesStored
<1>4. CountedBySweep'
  BY DEF CountedBySweep, Unused, AssetsOf, PreviewsOf, ImagesOf
<1>5. ASSUME NEW v \in Uploads
      PROVE  /\ UploadSound(v)' /\ FreshId(v)' /\ OwnFile(v)' /\ FileThere(v)'
             /\ Queued(v)' /\ AtWork(v)'
  BY <1>1, UploadsStay
<1>6. ASSUME NEW c \in Keys, Young(c) PROVE Young(c)'
  <2>1. c # Null
    BY StoreAssumption
  <2>. QED
    BY <1>6, <2>1 DEF Young, AssetsOf
<1>7. \A v \in Uploads : Overtaken(v)'
  BY <1>1, <1>6, OvertakenStays
<1>8. \A p \in Collectors : GcInv(p)'
  BY <1>1, <1>3, GcStays
<1>. QED
  BY <1>2, <1>3, <1>4, <1>5, <1>7, <1>8 DEF StoreInv, UploadInv

LEMMA NoSweepIs ==
    /\ NoSweep \in SweepRow /\ NoSweep.pc = "rest" /\ NoSweep.blobs = {} /\ NoSweep.cur = Null
  BY DEF NoSweep, SweepRow

LEMMA SweepBeginKeeps == StoreInv /\ SweepBegin => StoreInv'
<1>. SUFFICES ASSUME StoreInv, SweepBegin PROVE StoreInv'
  OBVIOUS
<1>1. /\ sweep' \in SweepRow /\ sweep'.pc = "links" /\ sweep'.blobs = {} /\ sweep'.cur = Null
  BY DEF SweepBegin, NoSweep, SweepRow
<1>. QED
  BY <1>1, SweepAlone DEF SweepBegin, refs, SweepSound, StoreInv, RowsTyped, StoreTypeOK

LEMMA SweepLinkKeeps == StoreInv /\ SweepLink => StoreInv'
<1>. SUFFICES ASSUME StoreInv, SweepLink PROVE StoreInv'
  OBVIOUS
<1>1. PICK a \in sweep.stale :
          \/ /\ places' = [places EXCEPT ![a] = "none"]
             /\ sweep' = [sweep EXCEPT !.stale = @ \ {a}]
          \/ sweep' = NoSweep /\ places' = places
  BY DEF SweepLink, Abort
<1>2. a \in AssetIds /\ sweep \in SweepRow /\ sweep.pc = "links"
  BY DEF StoreInv, RowsTyped, SweepRow, SweepLink
<1>3. /\ sweep' \in SweepRow /\ sweep'.pc \in {"links", "rest"}
      /\ sweep'.blobs \subseteq sweep.blobs /\ sweep'.cur \in {sweep.cur, Null}
  BY <1>1, <1>2, NoSweepIs DEF SweepRow
<1>4. places' \in [AssetIds -> {"none", "fresh", "stale", "ACTIVE"}]
  BY <1>1, <1>2 DEF StoreInv, RowsTyped, StoreTypeOK
<1>. QED
  BY <1>3, <1>4, SweepAlone DEF SweepLink, SweepSound

LEMMA SweepPreviewsKeeps == StoreInv /\ SweepPreviews => StoreInv'
<1>. SUFFICES ASSUME StoreInv, SweepPreviews PROVE StoreInv'
  OBVIOUS
<1>1. /\ sweep' \in SweepRow /\ sweep'.pc = "previews" /\ sweep'.blobs = sweep.blobs
      /\ sweep'.cur = sweep.cur
  BY DEF SweepPreviews, Goto, StoreInv, RowsTyped, SweepRow
<1>. QED
  BY <1>1, SweepAlone DEF SweepPreviews, refs, SweepSound, StoreInv, RowsTyped, StoreTypeOK

LEMMA HourKeeps == StoreInv /\ Hour => StoreInv'
<1>. SUFFICES ASSUME StoreInv, Hour PROVE StoreInv'
  OBVIOUS
<1>1. /\ sweep' \in SweepRow /\ sweep'.pc = "due" /\ sweep'.blobs = sweep.blobs
      /\ sweep'.cur = sweep.cur
  BY DEF Hour, Goto, StoreInv, RowsTyped, SweepRow
<1>. QED
  BY <1>1, SweepAlone DEF Hour, refs, SweepSound, StoreInv, RowsTyped, StoreTypeOK

LEMMA CountRefsKeeps == StoreInv /\ CountRefs => StoreInv'
<1>. SUFFICES ASSUME StoreInv, CountRefs PROVE StoreInv'
  OBVIOUS
<1>1. PICK b \in sweep.blobs :
          sweep' = [sweep EXCEPT !.blobs = @ \ {b},
                                 !.pc = IF Counted(b) THEN "remove" ELSE "blobs",
                                 !.cur = IF Counted(b) THEN b ELSE Null]
  BY DEF CountRefs
<1>2. b \in Keys /\ sweep \in SweepRow /\ b # Null
  BY StoreAssumption DEF StoreInv, RowsTyped, SweepRow
<1>3. /\ sweep' \in SweepRow /\ sweep'.blobs \subseteq sweep.blobs
      /\ sweep'.cur \in {b, Null}
      /\ sweep'.pc \in {"remove", "blobs"}
      /\ sweep'.pc = "remove" => sweep'.cur = b /\ Unused(b)
  BY <1>1, <1>2 DEF SweepRow, Counted
<1>. QED
  BY <1>2, <1>3, SweepAlone DEF CountRefs, refs, SweepSound, StoreInv, RowsTyped, StoreTypeOK

\* A collector goes on: it may rewrite a row's columns and let go of previews.
LEMMA CollectorAlone ==
    ASSUME StoreInv, NEW p \in Collectors, SameRows,
           UNCHANGED <<files, documents, places, archived, images, up, tails, pulled>>,
           blobs' \in [Keys -> BlobRow \cup {NoBlob}],
           cards' \in [Cards -> Keys \cup {Null}],
           \A c \in Cards : cards'[c] \in {cards[c], Null},
           gc' \in [Collectors -> GcRow], \A q \in Collectors : q # p => gc'[q] = gc[q],
           sweep' \in SweepRow, sweep'.blobs \subseteq sweep.blobs,
           sweep'.cur \in {sweep.cur, Null}, SweepSound',
           sweep'.pc = "remove" => sweep.pc = "remove" /\ sweep'.cur = sweep.cur,
           gc'[p].blob \in {gc[p].blob, Null} \cup Stored,
           gc'[p].key \in {gc[p].key, Null} \cup {blobs[b].key : b \in Stored},
           GcInv(p)',
           \A c \in Stored : Young(c) => /\ ~blobs'[c].old /\ blobs'[c].due # "past"
                                         /\ gc'[p].blob = c => gc'[p].pc = "weigh"
    PROVE  StoreInv'
<1>1. RowsTyped'
  BY DEF StoreInv, RowsTyped, StoreTypeOK, SweepRow
<1>2. /\ ReferencesStored' /\ KeysUnique' /\ ReferencedKept'
      /\ \A b \in Keys : /\ AssetsOf(b)' \subseteq AssetsOf(b)
                         /\ PreviewsOf(b)' \subseteq PreviewsOf(b)
                         /\ Unused(b) => Unused(b)'
  BY RowsStay DEF StoreInv, ReferencesStored
<1>3. CountedBySweep'
  BY <1>2, SweepCountStays
<1>4. \A q \in Collectors : /\ gc'[q].blob \in {gc[q].blob, Null} \cup Stored
                            /\ gc'[q].key \in {gc[q].key, Null} \cup {blobs[b].key : b \in Stored}
  OBVIOUS
<1>5. ASSUME NEW v \in Uploads
      PROVE  /\ UploadSound(v)' /\ FreshId(v)' /\ OwnFile(v)' /\ FileThere(v)'
             /\ Queued(v)' /\ AtWork(v)'
  BY <1>4, UploadsStay
<1>6. ASSUME NEW c \in Stored, Young(c) PROVE Young(c)'
  <2>1. c \in Keys /\ c # Null
    BY StoreAssumption DEF Stored
  <2>2. AssetsOf(c)' = AssetsOf(c)
    BY DEF AssetsOf
  <2>3. blobs'[c].key = blobs[c].key
    BY <2>1 DEF SameRows
  <2>4. \A q \in Collectors : gc'[q].blob = c => gc'[q].pc = "weigh"
    BY <1>6 DEF Young
  <2>. QED
    BY <1>6, <2>1, <2>2, <2>3, <2>4 DEF Young
<1>7. ASSUME NEW v \in Uploads PROVE Overtaken(v)'
  <2>1. ASSUME up[v].pc = "create", NEW c \in WithSha(up[v].sha)' PROVE Young(c)'
    <3>1. c \in WithSha(up[v].sha) /\ c \in Stored
      BY <2>1 DEF SameRows, WithSha, Stored
    <3>2. Young(c)
      BY <2>1, <3>1 DEF StoreInv, UploadInv, Overtaken
    <3>. QED
      BY <1>6, <3>1, <3>2
  <2>. QED
    BY <2>1 DEF Overtaken
<1>8. ASSUME NEW q \in Collectors PROVE GcInv(q)'
  <2>1. CASE q = p
    BY <2>1
  <2>2. CASE q # p
    BY <1>2, <2>2, GcStays
  <2>. QED
    BY <2>1, <2>2
<1>. QED
  BY <1>1, <1>2, <1>3, <1>5, <1>7, <1>8 DEF StoreInv, UploadInv

\* What a collector's record becomes.
LEMMA NoGcIs == NoGc \in GcRow /\ NoGc.pc = "idle" /\ NoGc.blob = Null /\ NoGc.key = Null
  BY DEF NoGc, GcRow

LEMMA GcRows ==
    \A b \in Keys : LET g == [NoGc EXCEPT !.pc = "weigh", !.blob = b]
                    IN  g \in GcRow /\ g.pc = "weigh" /\ g.blob = b /\ g.key = Null
  BY DEF NoGc, GcRow

LEMMA SweepArtKeeps == StoreInv /\ SweepArt => StoreInv'
<1>. SUFFICES ASSUME StoreInv, SweepArt PROVE StoreInv'
  OBVIOUS
<1>1. /\ sweep.pc = "previews"
      /\ UNCHANGED <<files, blobs, documents, places, archived, images, cards, up, tails, pulled>>
  BY DEF SweepArt, refs
<1>2. CASE sweep' = NoSweep /\ gc' = gc
  BY <1>1, <1>2, NoSweepIs, SweepAlone DEF SweepSound, StoreInv, RowsTyped, StoreTypeOK
<1>3. ASSUME NEW b \in Stored, Stale(b), sweep' = sweep,
             gc' = [gc EXCEPT ![Sweep] = [pc |-> "claim", blob |-> b, key |-> blobs[b].key]]
      PROVE  StoreInv'
  <2>1. b \in Keys /\ blobs[b] \in BlobRow /\ Sweep \in Collectors
    BY <1>3 DEF Stored, StoreInv, RowsTyped, StoreTypeOK, Collectors
  <2>2. [pc |-> "claim", blob |-> b, key |-> blobs[b].key] \in GcRow
    BY <2>1 DEF GcRow, BlobRow
  <2>3. /\ gc' \in [Collectors -> GcRow] /\ \A q \in Collectors : q # Sweep => gc'[q] = gc[q]
        /\ gc'[Sweep] = [pc |-> "claim", blob |-> b, key |-> blobs[b].key]
    BY <1>3, <2>1, <2>2 DEF StoreInv, RowsTyped
  <2>4. SameRows /\ Stored' = Stored
    BY <1>1 DEF SameRows, Stored
  <2>5. GcInv(Sweep)'
    <3>1. GcSound(Sweep)' /\ CountedByGc(Sweep)'
      BY <2>1, <2>3, StoreAssumption DEF GcSound, CountedByGc
    <3>2. KeyRead(Sweep)'
      BY <1>1, <2>3, <2>4 DEF KeyRead, StoreInv, KeysUnique
    <3>. QED
      BY <3>1, <3>2 DEF GcInv
  <2>6. ~Young(b)
    BY <1>3 DEF Young, Stale
  <2>7. \A c \in Stored : Young(c) => /\ ~blobs'[c].old /\ blobs'[c].due # "past"
                                      /\ gc'[Sweep].blob = c => gc'[Sweep].pc = "weigh"
    BY <1>1, <2>3, <2>6 DEF Young
  <2>8. SweepSound' /\ sweep' \in SweepRow
    BY <1>3 DEF StoreInv, SweepSound, RowsTyped
  <2>. QED
    BY <1>1, <1>3, <2>1, <2>3, <2>4, <2>5, <2>7, <2>8, CollectorAlone
       DEF StoreInv, RowsTyped, StoreTypeOK
<1>. QED
  BY <1>1, <1>2, <1>3 DEF SweepArt, Abort

LEMMA DiscardKeeps ==
    ASSUME StoreInv, NEW p \in Collectors, Discard(p)
    PROVE  StoreInv'
<1>1. /\ UNCHANGED <<files, blobs, documents, places, archived, images, up, tails, sweep, pulled>>
  BY DEF Discard
<1>2. PICK c \in Cards : /\ cards[c] # Null /\ cards' = [cards EXCEPT ![c] = Null]
                         /\ gc' = [gc EXCEPT ![p] = [NoGc EXCEPT !.pc = "weigh",
                                                                 !.blob = cards[c]]]
  BY DEF Discard
<1>3. cards[c] \in Stored /\ cards[c] \in Keys
  BY <1>2 DEF StoreInv, ReferencesStored, Stored
<1>4. PICK g \in GcRow : /\ g = [NoGc EXCEPT !.pc = "weigh", !.blob = cards[c]]
                         /\ g.pc = "weigh" /\ g.blob = cards[c] /\ g.key = Null
  BY <1>3, GcRows
<1>5. /\ gc' \in [Collectors -> GcRow] /\ \A q \in Collectors : q # p => gc'[q] = gc[q]
      /\ gc'[p] = g
  BY <1>2, <1>4 DEF StoreInv, RowsTyped
<1>6. /\ cards' \in [Cards -> Keys \cup {Null}]
      /\ \A d \in Cards : cards'[d] \in {cards[d], Null}
  BY <1>2 DEF StoreInv, RowsTyped, StoreTypeOK
<1>7. SameRows
  BY <1>1 DEF SameRows, Stored
<1>8. GcInv(p)'
  BY <1>3, <1>4, <1>5, StoreAssumption DEF GcInv, GcSound, KeyRead, CountedByGc
<1>9. SweepSound' /\ sweep' \in SweepRow
  BY <1>1 DEF StoreInv, SweepSound, RowsTyped
<1>10. \A b \in Stored : Young(b) => /\ ~blobs'[b].old /\ blobs'[b].due # "past"
                                     /\ gc'[p].blob = b => gc'[p].pc = "weigh"
  BY <1>1, <1>4, <1>5 DEF Young
<1>. QED
  BY <1>1, <1>3, <1>4, <1>5, <1>6, <1>7, <1>8, <1>9, <1>10, CollectorAlone
     DEF StoreInv, RowsTyped, StoreTypeOK

\* The ends of a collector's work.
LEMMA Finished ==
    ASSUME StoreInv, NEW p \in Collectors, NEW ok, Finish(p, ok)
    PROVE  /\ gc' \in [Collectors -> GcRow] /\ \A q \in Collectors : q # p => gc'[q] = gc[q]
           /\ gc'[p].pc = "idle" /\ gc'[p].blob = Null /\ gc'[p].key = Null /\ GcInv(p)'
           /\ sweep' \in SweepRow /\ SweepSound' /\ sweep'.blobs \subseteq sweep.blobs
           /\ sweep'.cur \in {sweep.cur, Null}
           /\ sweep'.pc = "remove" => sweep.pc = "remove" /\ sweep'.cur = sweep.cur
<1>1. gc' = [gc EXCEPT ![p] = NoGc] /\ (sweep' = sweep \/ sweep' = NoSweep)
  BY DEF Finish
<1>2. /\ gc' \in [Collectors -> GcRow] /\ \A q \in Collectors : q # p => gc'[q] = gc[q]
      /\ gc'[p].pc = "idle" /\ gc'[p].blob = Null /\ gc'[p].key = Null
  BY <1>1, NoGcIs DEF StoreInv, RowsTyped
<1>3. GcInv(p)'
  BY <1>2 DEF GcInv, GcSound, KeyRead, CountedByGc
<1>. QED
  BY <1>1, <1>2, <1>3, NoSweepIs DEF StoreInv, SweepSound, RowsTyped

\* A row's columns change, but not its bytes and its file.
LEMMA RowRewritten ==
    ASSUME StoreInv, NEW b \in Stored, NEW r \in BlobRow,
           r.key = blobs[b].key, r.sha = blobs[b].sha, blobs' = [blobs EXCEPT ![b] = r]
    PROVE  /\ blobs' \in [Keys -> BlobRow \cup {NoBlob}] /\ SameRows
           /\ blobs'[b] = r /\ \A c \in Keys : c # b => blobs'[c] = blobs[c]
<1>1. b \in Keys
  BY DEF Stored
<1>2. /\ blobs' \in [Keys -> BlobRow \cup {NoBlob}]
      /\ blobs'[b] = r /\ \A c \in Keys : c # b => blobs'[c] = blobs[c]
  BY <1>1 DEF StoreInv, RowsTyped, StoreTypeOK
<1>3. r # NoBlob
  BY StoreAssumption DEF BlobRow, NoBlob
<1>. QED
  BY <1>1, <1>2, <1>3 DEF SameRows, Stored

LEMMA WeighKeeps ==
    ASSUME StoreInv, NEW p \in Collectors, Weigh(p)
    PROVE  StoreInv'
<1>. DEFINE b == gc[p].blob
<1>1. /\ gc[p].pc = "weigh"
      /\ UNCHANGED <<files, documents, places, archived, images, cards, up, tails, pulled>>
  BY DEF Weigh, refs
<1>2. CASE Finish(p, TRUE) /\ blobs' = blobs
  <2>1. SameRows /\ blobs' \in [Keys -> BlobRow \cup {NoBlob}]
    BY <1>2 DEF SameRows, Stored, StoreInv, RowsTyped, StoreTypeOK
  <2>2. \A c \in Stored : Young(c) => /\ ~blobs'[c].old /\ blobs'[c].due # "past"
                                      /\ gc'[p].blob = c => gc'[p].pc = "weigh"
    <3>1. gc'[p].blob = Null
      BY <1>2, Finished
    <3>. QED
      BY <1>2, <3>1, StoreAssumption DEF Young, Stored
  <2>. QED
    BY <1>1, <1>2, <2>1, <2>2, Finished, CollectorAlone DEF StoreInv, RowsTyped, StoreTypeOK
<1>3. CASE /\ b \in Stored /\ blobs[b].old /\ blobs' = blobs /\ sweep' = sweep
           /\ gc' = [gc EXCEPT ![p] = [pc |-> "claim", blob |-> b, key |-> blobs[b].key]]
  <2>1. b \in Keys /\ blobs[b] \in BlobRow
    BY <1>3 DEF Stored, StoreInv, RowsTyped, StoreTypeOK
  <2>2. [pc |-> "claim", blob |-> b, key |-> blobs[b].key] \in GcRow
    BY <2>1 DEF GcRow, BlobRow
  <2>3. /\ gc' \in [Collectors -> GcRow] /\ \A q \in Collectors : q # p => gc'[q] = gc[q]
        /\ gc'[p] = [pc |-> "claim", blob |-> b, key |-> blobs[b].key]
    BY <1>3, <2>1, <2>2 DEF StoreInv, RowsTyped
  <2>4. SameRows /\ Stored' = Stored
    BY <1>3 DEF SameRows, Stored
  <2>5. GcInv(p)'
    <3>1. GcSound(p)' /\ CountedByGc(p)'
      BY <2>1, <2>3, StoreAssumption DEF GcSound, CountedByGc
    <3>2. KeyRead(p)'
      BY <1>3, <2>3, <2>4 DEF KeyRead, StoreInv, KeysUnique
    <3>. QED
      BY <3>1, <3>2 DEF GcInv
  <2>6. \A c \in Stored : Young(c) => /\ ~blobs'[c].old /\ blobs'[c].due # "past"
                                      /\ gc'[p].blob = c => gc'[p].pc = "weigh"
    BY <1>3, <2>3 DEF Young
  <2>7. SweepSound' /\ sweep' \in SweepRow
    BY <1>3 DEF StoreInv, SweepSound, RowsTyped
  <2>. QED
    BY <1>1, <1>3, <2>1, <2>3, <2>4, <2>5, <2>6, <2>7, CollectorAlone
       DEF StoreInv, RowsTyped, StoreTypeOK
<1>4. CASE /\ b \in Stored /\ ~blobs[b].old /\ Finish(p, TRUE)
           /\ blobs' = [blobs EXCEPT ![b].state = "READY", ![b].due = "grace"]
  <2>. DEFINE r == [blobs[b] EXCEPT !.state = "READY", !.due = "grace"]
  <2>1. blobs[b] \in BlobRow /\ b \in Keys
    BY <1>4 DEF Stored, StoreInv, RowsTyped, StoreTypeOK
  <2>2. /\ r \in BlobRow /\ r.key = blobs[b].key /\ r.sha = blobs[b].sha
        /\ r.old = blobs[b].old /\ r.due = "grace"
    BY <2>1 DEF BlobRow, Due
  <2>3. blobs' = [blobs EXCEPT ![b] = r]
    BY <1>4, <2>1 DEF StoreInv, RowsTyped, StoreTypeOK
  <2>. HIDE DEF r
  <2>4. /\ blobs' \in [Keys -> BlobRow \cup {NoBlob}] /\ SameRows
        /\ blobs'[b] = r /\ \A c \in Keys : c # b => blobs'[c] = blobs[c]
    BY <1>4, <2>2, <2>3, RowRewritten
  <2>5. \A c \in Stored : Young(c) => /\ ~blobs'[c].old /\ blobs'[c].due # "past"
                                      /\ gc'[p].blob = c => gc'[p].pc = "weigh"
    <3>1. gc'[p].blob = Null
      BY <1>4, Finished
    <3>. QED
      BY <1>4, <2>2, <2>4, <3>1, StoreAssumption DEF Young, Stored
  <2>. QED
    BY <1>1, <1>4, <2>4, <2>5, Finished, CollectorAlone DEF StoreInv, RowsTyped, StoreTypeOK
<1>. QED
  BY <1>2, <1>3, <1>4 DEF Weigh

LEMMA ClaimKeeps ==
    ASSUME StoreInv, NEW p \in Collectors, Claim(p)
    PROVE  StoreInv'
<1>. DEFINE b == gc[p].blob
<1>1. /\ gc[p].pc = "claim"
      /\ UNCHANGED <<files, documents, places, archived, images, cards, up, tails, pulled>>
  BY DEF Claim, refs
<1>2. CASE Finish(p, FALSE) /\ blobs' = blobs
  <2>1. SameRows /\ blobs' \in [Keys -> BlobRow \cup {NoBlob}]
    BY <1>2 DEF SameRows, Stored, StoreInv, RowsTyped, StoreTypeOK
  <2>2. \A c \in Stored : Young(c) => /\ ~blobs'[c].old /\ blobs'[c].due # "past"
                                      /\ gc'[p].blob = c => gc'[p].pc = "weigh"
    <3>1. gc'[p].blob = Null
      BY <1>2, Finished
    <3>. QED
      BY <1>2, <3>1, StoreAssumption DEF Young, Stored
  <2>. QED
    BY <1>1, <1>2, <2>1, <2>2, Finished, CollectorAlone DEF StoreInv, RowsTyped, StoreTypeOK
<1>3. CASE /\ blobs[b].state = "READY" /\ sweep' = sweep
           /\ blobs' = [blobs EXCEPT ![b].state = "DELETING"]
           /\ gc' = [gc EXCEPT ![p].pc = "recount"]
  <2>. DEFINE r == [blobs[b] EXCEPT !.state = "DELETING"]
              g == [gc[p] EXCEPT !.pc = "recount"]
  <2>1. b \in Keys /\ b \in Stored /\ blobs[b] \in BlobRow
    BY <1>1, <1>3 DEF Stored, StoreInv, RowsTyped, StoreTypeOK, GcInv, GcSound, GcRow, NoBlob
  <2>2. /\ r \in BlobRow /\ r.key = blobs[b].key /\ r.sha = blobs[b].sha
        /\ r.old = blobs[b].old /\ r.due = blobs[b].due
    BY <2>1 DEF BlobRow, Due
  <2>3. blobs' = [blobs EXCEPT ![b] = r]
    BY <1>3, <2>1 DEF StoreInv, RowsTyped, StoreTypeOK
  <2>4. g \in GcRow /\ g.pc = "recount" /\ g.blob = gc[p].blob /\ g.key = gc[p].key
    BY DEF StoreInv, RowsTyped, GcRow
  <2>5. gc' = [gc EXCEPT ![p] = g]
    BY <1>3 DEF StoreInv, RowsTyped
  <2>. HIDE DEF r, g
  <2>6. /\ blobs' \in [Keys -> BlobRow \cup {NoBlob}] /\ SameRows
        /\ blobs'[b] = r /\ \A c \in Keys : c # b => blobs'[c] = blobs[c]
    BY <2>1, <2>2, <2>3, RowRewritten
  <2>7. /\ gc' \in [Collectors -> GcRow] /\ \A q \in Collectors : q # p => gc'[q] = gc[q]
        /\ gc'[p] = g
    BY <2>4, <2>5 DEF StoreInv, RowsTyped
  <2>8. GcInv(p)'
    BY <1>1, <2>4, <2>6, <2>7
       DEF StoreInv, GcInv, GcSound, KeyRead, CountedByGc, SameRows, Stored
  <2>9. \A c \in Stored : Young(c) => /\ ~blobs'[c].old /\ blobs'[c].due # "past"
                                      /\ gc'[p].blob = c => gc'[p].pc = "weigh"
    BY <1>1, <2>1, <2>2, <2>4, <2>6, <2>7 DEF Young, Stored
  <2>10. SweepSound' /\ sweep' \in SweepRow
    BY <1>3 DEF StoreInv, SweepSound, RowsTyped
  <2>. QED
    BY <1>1, <1>3, <2>4, <2>6, <2>7, <2>8, <2>9, <2>10, CollectorAlone
       DEF StoreInv, RowsTyped, StoreTypeOK
<1>. QED
  BY <1>2, <1>3 DEF Claim

LEMMA RecountKeeps ==
    ASSUME StoreInv, NEW p \in Collectors, Recount(p)
    PROVE  StoreInv'
<1>. DEFINE b == gc[p].blob
<1>1. /\ gc[p].pc = "recount"
      /\ UNCHANGED <<files, documents, places, archived, images, cards, up, tails, pulled>>
  BY DEF Recount, refs
<1>2. b \in Keys
  BY <1>1 DEF StoreInv, RowsTyped, GcRow, GcInv, GcSound
<1>3. CASE /\ Finish(p, FALSE) /\ Adopted(b)
           /\ blobs' = [blobs EXCEPT ![b].state = IF @ = "DELETING" THEN "READY" ELSE @]
  <2>. DEFINE r == [blobs[b] EXCEPT !.state = IF @ = "DELETING" THEN "READY" ELSE @]
  <2>1. b \in Stored /\ blobs[b] \in BlobRow
    BY <1>2, <1>3, StoreAssumption
       DEF Adopted, AssetsOf, PreviewsOf, ReferencesStored, NoAsset, Stored, StoreInv,
           RowsTyped, StoreTypeOK
  <2>2. /\ r \in BlobRow /\ r.key = blobs[b].key /\ r.sha = blobs[b].sha
        /\ r.old = blobs[b].old /\ r.due = blobs[b].due
    BY <2>1 DEF BlobRow, Due
  <2>3. blobs' = [blobs EXCEPT ![b] = r]
    BY <1>3, <1>2 DEF StoreInv, RowsTyped, StoreTypeOK
  <2>. HIDE DEF r
  <2>4. /\ blobs' \in [Keys -> BlobRow \cup {NoBlob}] /\ SameRows
        /\ blobs'[b] = r /\ \A c \in Keys : c # b => blobs'[c] = blobs[c]
    BY <2>1, <2>2, <2>3, RowRewritten
  <2>5. \A c \in Stored : Young(c) => /\ ~blobs'[c].old /\ blobs'[c].due # "past"
                                      /\ gc'[p].blob = c => gc'[p].pc = "weigh"
    <3>1. gc'[p].blob = Null
      BY <1>3, Finished
    <3>. QED
      BY <2>2, <2>4, <3>1, StoreAssumption DEF Young, Stored
  <2>. QED
    BY <1>1, <1>3, <2>4, <2>5, Finished, CollectorAlone DEF StoreInv, RowsTyped, StoreTypeOK
<1>4. CASE /\ ~Adopted(b) /\ blobs' = blobs /\ sweep' = sweep
           /\ gc' = [gc EXCEPT ![p].pc = "unlink"]
  <2>. DEFINE g == [gc[p] EXCEPT !.pc = "unlink"]
  <2>4. g \in GcRow /\ g.pc = "unlink" /\ g.blob = gc[p].blob /\ g.key = gc[p].key
    BY DEF StoreInv, RowsTyped, GcRow
  <2>5. gc' = [gc EXCEPT ![p] = g]
    BY <1>4 DEF StoreInv, RowsTyped
  <2>. HIDE DEF g
  <2>6. SameRows /\ Stored' = Stored
    BY <1>4 DEF SameRows, Stored
  <2>7. /\ gc' \in [Collectors -> GcRow] /\ \A q \in Collectors : q # p => gc'[q] = gc[q]
        /\ gc'[p] = g
    BY <2>4, <2>5 DEF StoreInv, RowsTyped
  <2>8. GcInv(p)'
    BY <1>1, <1>4, <2>4, <2>6, <2>7
       DEF StoreInv, GcInv, GcSound, KeyRead, CountedByGc, Adopted, AssetsOf, PreviewsOf
  <2>9. \A c \in Stored : Young(c) => /\ ~blobs'[c].old /\ blobs'[c].due # "past"
                                      /\ gc'[p].blob = c => gc'[p].pc = "weigh"
    BY <1>1, <1>4, <2>4, <2>7 DEF Young, Stored
  <2>10. SweepSound' /\ sweep' \in SweepRow
    BY <1>4 DEF StoreInv, SweepSound, RowsTyped
  <2>. QED
    BY <1>1, <1>4, <2>4, <2>6, <2>7, <2>8, <2>9, <2>10, CollectorAlone
       DEF StoreInv, RowsTyped, StoreTypeOK
<1>. QED
  BY <1>3, <1>4 DEF Recount

\* References go, and rows come nearer to their end.
LEMMA ReferencesGo ==
    ASSUME StoreInv, SameRows, UNCHANGED <<files, cards, up, tails, gc, pulled>>,
           blobs' \in [Keys -> BlobRow \cup {NoBlob}],
           documents' \in [AssetIds -> AssetRow \cup {NoAsset}],
           places' \in [AssetIds -> {"none", "fresh", "stale", "ACTIVE"}],
           archived' \subseteq AssetIds, images' \in [Owners -> Keys \cup {Null}],
           \A a \in AssetIds :
               \/ documents'[a] = NoAsset
               \/ documents'[a].blob = documents[a].blob /\ documents[a] # NoAsset,
           \A o \in Owners : images'[o] \in {images[o], Null},
           sweep' \in SweepRow, sweep'.blobs \subseteq sweep.blobs \cup Stored,
           sweep'.cur \in {sweep.cur, Null}, SweepSound',
           sweep'.pc = "remove" => sweep.pc = "remove" /\ sweep'.cur = sweep.cur,
           Quiet \/ \A c \in Stored : Young(c) => /\ ~blobs'[c].old /\ blobs'[c].due # "past"
                                                  /\ c \notin sweep'.blobs
                                                  /\ \A a \in AssetsOf(c)' :
                                                         documents'[a].due # "past"
    PROVE  StoreInv'
<1>1. RowsTyped'
  BY DEF StoreInv, RowsTyped, StoreTypeOK, SweepRow
<1>2. /\ ReferencesStored' /\ KeysUnique' /\ ReferencedKept'
      /\ \A b \in Keys : /\ AssetsOf(b)' \subseteq AssetsOf(b)
                         /\ PreviewsOf(b)' \subseteq PreviewsOf(b)
                         /\ Unused(b) => Unused(b)'
  BY RowsStay
<1>3. CountedBySweep'
  BY <1>2, SweepCountStays
<1>4. ASSUME NEW v \in Uploads
      PROVE  /\ UploadSound(v)' /\ FreshId(v)' /\ OwnFile(v)' /\ FileThere(v)'
             /\ Queued(v)' /\ AtWork(v)'
  BY UploadsStay
<1>5. \A v \in Uploads : Overtaken(v)'
  <2>1. CASE Quiet
    BY <2>1, OvertakenStays
  <2>2. CASE \A c \in Stored : Young(c) => /\ ~blobs'[c].old /\ blobs'[c].due # "past"
                                           /\ c \notin sweep'.blobs
                                           /\ \A a \in AssetsOf(c)' : documents'[a].due # "past"
    <3>1. ASSUME NEW c \in Keys, Young(c) PROVE Young(c)'
      <4>1. c \in Stored /\ c # Null
        BY <3>1, StoreAssumption DEF Young, Stored, NoBlob, StoreInv, RowsTyped, StoreTypeOK
      <4>2. /\ ~blobs'[c].old /\ blobs'[c].due # "past" /\ c \notin sweep'.blobs
            /\ \A a \in AssetsOf(c)' : documents'[a].due # "past"
        BY <2>2, <3>1, <4>1
      <4>3. sweep'.cur # c /\ \A p \in Collectors : gc'[p].blob = c => gc'[p].pc = "weigh"
        BY <3>1, <4>1 DEF Young
      <4>. QED
        BY <1>2, <3>1, <4>2, <4>3, YoungStays DEF SameRows
    <3>. QED
      BY <3>1, OvertakenStays
  <2>. QED
    BY <2>1, <2>2
<1>6. \A q \in Collectors : GcInv(q)'
  BY <1>2, GcStays
<1>. QED
  BY <1>1, <1>2, <1>3, <1>4, <1>5, <1>6 DEF StoreInv, UploadInv

LEMMA BoardKeeps == StoreInv /\ Board => StoreInv'
<1>. SUFFICES ASSUME StoreInv, Board PROVE StoreInv'
  OBVIOUS
<1>1. UNCHANGED <<files, blobs, documents, cards, up, tails, sweep, gc, pulled>>
  BY DEF Board, work
<1>2. /\ places' \in [AssetIds -> {"none", "fresh", "stale", "ACTIVE"}]
      /\ archived' \subseteq AssetIds /\ images' \in [Owners -> Keys \cup {Null}]
      /\ \A o \in Owners : images'[o] \in {images[o], Null}
  <2>1. PICK a \in AssetIds :
          \/ places' = [places EXCEPT ![a] = "ACTIVE"] /\ UNCHANGED <<archived, images>>
          \/ /\ places' = [places EXCEPT ![a] = "none"] /\ archived' = archived \cup {a}
             /\ UNCHANGED images
          \/ archived' = archived \ {a} /\ UNCHANGED <<places, images>>
          \/ \E o \in Owners : /\ images' = [images EXCEPT ![o] = Null]
                               /\ UNCHANGED <<places, archived>>
    BY DEF Board
  <2>. QED
    BY <2>1 DEF StoreInv, RowsTyped, StoreTypeOK
<1>3. SameRows
  BY <1>1 DEF SameRows, Stored
<1>4. \A c \in Stored : Young(c) => /\ ~blobs'[c].old /\ blobs'[c].due # "past"
                                    /\ c \notin sweep'.blobs
                                    /\ \A a \in AssetsOf(c)' : documents'[a].due # "past"
  BY <1>1 DEF Young, AssetsOf
<1>5. SweepSound' /\ sweep' \in SweepRow
  BY <1>1 DEF StoreInv, SweepSound, RowsTyped
<1>. QED
  BY <1>1, <1>2, <1>3, <1>4, <1>5, ReferencesGo
     DEF StoreInv, ReferencesStored, RowsTyped, StoreTypeOK

LEMMA ElapseKeeps == StoreInv /\ Elapse => StoreInv'
<1>. SUFFICES ASSUME StoreInv, Elapse PROVE StoreInv'
  OBVIOUS
<1>1. Quiet /\ UNCHANGED <<files, archived, images, cards, up, tails, sweep, gc, pulled>>
  BY DEF Elapse, work
<1>2. SweepSound' /\ sweep' \in SweepRow
  BY <1>1 DEF StoreInv, SweepSound, RowsTyped
<1>3. ASSUME NEW b \in Stored, UNCHANGED <<documents, places>>,
             blobs' = [blobs EXCEPT ![b].old = TRUE,
                                    ![b].due = IF @ = "grace" THEN "past" ELSE @]
      PROVE  StoreInv'
  <2>. DEFINE r == [blobs[b] EXCEPT !.old = TRUE, !.due = IF @ = "grace" THEN "past" ELSE @]
  <2>1. b \in Keys /\ blobs[b] \in BlobRow
    BY DEF Stored, StoreInv, RowsTyped, StoreTypeOK
  <2>2. r \in BlobRow /\ r.key = blobs[b].key /\ r.sha = blobs[b].sha
    BY <2>1 DEF BlobRow, Due
  <2>3. blobs' = [blobs EXCEPT ![b] = r]
    BY <1>3, <2>1 DEF StoreInv, RowsTyped, StoreTypeOK
  <2>. HIDE DEF r
  <2>4. blobs' \in [Keys -> BlobRow \cup {NoBlob}] /\ SameRows
    BY <2>2, <2>3, RowRewritten
  <2>. QED
    BY <1>1, <1>2, <1>3, <2>4, ReferencesGo
       DEF StoreInv, ReferencesStored, RowsTyped, StoreTypeOK
<1>4. ASSUME NEW a \in AssetIds, documents[a].due = "grace", UNCHANGED <<blobs, places>>,
             documents' = [documents EXCEPT ![a].due = "past"]
      PROVE  StoreInv'
  <2>. DEFINE r == [documents[a] EXCEPT !.due = "past"]
  <2>1. documents[a] \in AssetRow /\ documents[a] # NoAsset
    BY <1>4 DEF NoAsset, StoreInv, RowsTyped, StoreTypeOK
  <2>2. r \in AssetRow /\ r.blob = documents[a].blob
    BY <2>1 DEF AssetRow, Due
  <2>3. documents' = [documents EXCEPT ![a] = r]
    BY <1>4 DEF StoreInv, RowsTyped, StoreTypeOK
  <2>. HIDE DEF r
  <2>4. /\ documents' \in [AssetIds -> AssetRow \cup {NoAsset}]
        /\ \A c \in AssetIds : \/ documents'[c] = documents[c]
                               \/ documents'[c].blob = documents[c].blob /\ documents[c] # NoAsset
    BY <2>1, <2>2, <2>3 DEF StoreInv, RowsTyped, StoreTypeOK
  <2>5. SameRows
    BY <1>4 DEF SameRows, Stored
  <2>. QED
    BY <1>1, <1>2, <1>4, <2>4, <2>5, ReferencesGo
       DEF StoreInv, ReferencesStored, RowsTyped, StoreTypeOK
<1>5. ASSUME NEW a \in AssetIds, UNCHANGED <<blobs, documents>>,
             places' = [places EXCEPT ![a] = "stale"]
      PROVE  StoreInv'
  <2>1. SameRows
    BY <1>5 DEF SameRows, Stored
  <2>2. places' \in [AssetIds -> {"none", "fresh", "stale", "ACTIVE"}]
    BY <1>5 DEF StoreInv, RowsTyped, StoreTypeOK
  <2>. QED
    BY <1>1, <1>2, <1>5, <2>1, <2>2, ReferencesGo
       DEF StoreInv, ReferencesStored, RowsTyped, StoreTypeOK
<1>. QED
  BY <1>3, <1>4, <1>5 DEF Elapse

LEMMA MarkOrphansKeeps == StoreInv /\ MarkOrphans => StoreInv'
<1>. SUFFICES ASSUME StoreInv, MarkOrphans PROVE StoreInv'
  OBVIOUS
<1>1. /\ UNCHANGED <<files, places, archived, images, cards, up, tails, gc, pulled>>
      /\ sweep.pc = "links"
  BY DEF MarkOrphans
<1>2. /\ sweep' \in SweepRow /\ sweep'.pc = "expired" /\ sweep'.blobs = sweep.blobs
      /\ sweep'.cur = sweep.cur /\ SweepSound'
  BY DEF MarkOrphans, Goto, SweepSound, StoreInv, RowsTyped, SweepRow
<1>3. ASSUME NEW a \in AssetIds
      PROVE  \/ documents'[a] = documents[a]
             \/ /\ documents'[a] \in AssetRow /\ documents[a] # NoAsset
                /\ documents'[a].blob = documents[a].blob /\ documents'[a].due = "grace"
  <2>1. \/ documents'[a] = documents[a]
        \/ /\ documents'[a] = [documents[a] EXCEPT !.due = "grace"]
           /\ documents[a] # NoAsset
    BY DEF MarkOrphans, Unreached
  <2>2. documents[a] \in AssetRow \cup {NoAsset}
    BY DEF StoreInv, RowsTyped, StoreTypeOK
  <2>. QED
    BY <2>1, <2>2 DEF AssetRow, Due
<1>4. documents' \in [AssetIds -> AssetRow \cup {NoAsset}]
  <2>1. documents' = [a \in AssetIds |-> documents'[a]]
    BY DEF MarkOrphans
  <2>2. \A a \in AssetIds : documents'[a] \in AssetRow \cup {NoAsset}
    BY <1>3 DEF StoreInv, RowsTyped, StoreTypeOK
  <2>. QED
    BY <2>1, <2>2, Zenon
<1>5. ASSUME NEW b \in Keys
      PROVE  \/ blobs'[b] = blobs[b]
             \/ /\ b \in Stored /\ blobs'[b] \in BlobRow
                /\ blobs'[b].key = blobs[b].key /\ blobs'[b].sha = blobs[b].sha
                /\ blobs'[b].old = blobs[b].old /\ blobs'[b].due = "grace"
  <2>1. \/ blobs'[b] = blobs[b]
        \/ blobs'[b] = [blobs[b] EXCEPT !.due = "grace"] /\ b \in Stored
    BY DEF MarkOrphans
  <2>2. b \in Stored => blobs[b] \in BlobRow
    BY DEF StoreInv, RowsTyped, StoreTypeOK, Stored
  <2>. QED
    BY <2>1, <2>2 DEF BlobRow, Due
<1>6. blobs' \in [Keys -> BlobRow \cup {NoBlob}]
  <2>1. blobs' = [b \in Keys |-> blobs'[b]]
    BY DEF MarkOrphans
  <2>2. \A b \in Keys : blobs'[b] \in BlobRow \cup {NoBlob}
    BY <1>5 DEF StoreInv, RowsTyped, StoreTypeOK
  <2>. QED
    BY <2>1, <2>2, Zenon
<1>7. SameRows
  <2>1. NoBlob \notin BlobRow
    BY StoreAssumption DEF BlobRow, NoBlob
  <2>. QED
    BY <1>5, <2>1 DEF SameRows, Stored
<1>8. ASSUME NEW c \in Stored, Young(c)
      PROVE  /\ ~blobs'[c].old /\ blobs'[c].due # "past" /\ c \notin sweep'.blobs
             /\ \A a \in AssetsOf(c)' : documents'[a].due # "past"
  <2>1. c \in Keys /\ c # Null
    BY StoreAssumption DEF Stored
  <2>2. /\ ~blobs'[c].old /\ blobs'[c].due # "past" /\ c \notin sweep'.blobs
    BY <1>2, <1>5, <1>8, <2>1 DEF Young
  <2>3. \A a \in AssetsOf(c)' : documents'[a].due # "past"
    BY <1>3, <1>8, <2>1 DEF Young, AssetsOf
  <2>. QED
    BY <2>2, <2>3
<1>. QED
  BY <1>1, <1>2, <1>3, <1>4, <1>6, <1>7, <1>8, ReferencesGo
     DEF StoreInv, ReferencesStored, RowsTyped, StoreTypeOK

LEMMA DeleteExpiredKeeps == StoreInv /\ DeleteExpired => StoreInv'
<1>. SUFFICES ASSUME StoreInv, DeleteExpired PROVE StoreInv'
  OBVIOUS
<1>. DEFINE gone == {a \in AssetIds : Unreached(a) /\ documents[a].due = "past"}
            look == {documents[a].blob : a \in gone} \cup {b \in Stored : blobs[b].due = "past"}
<1>1. /\ UNCHANGED <<files, blobs, places, archived, images, cards, up, tails, gc, pulled>>
      /\ documents' = [a \in AssetIds |-> IF a \in gone THEN NoAsset ELSE documents[a]]
      /\ sweep' = [sweep EXCEPT !.pc = "blobs", !.blobs = look]
  BY DEF DeleteExpired
<1>2. look \subseteq Stored /\ Stored \subseteq Keys
  BY DEF Unreached, StoreInv, ReferencesStored, Stored
<1>3. /\ sweep' \in SweepRow /\ sweep'.pc = "blobs" /\ sweep'.blobs = look
      /\ sweep'.cur = sweep.cur /\ SweepSound'
  <2>. HIDE DEF look
  <2>. QED
    BY <1>1, <1>2 DEF SweepSound, StoreInv, RowsTyped, SweepRow
<1>4. SameRows
  BY <1>1 DEF SameRows, Stored
<1>5. \A a \in AssetIds : \/ documents'[a] = NoAsset
                          \/ documents'[a] = documents[a] /\ documents[a] # NoAsset
  BY <1>1
<1>6. documents' \in [AssetIds -> AssetRow \cup {NoAsset}]
  BY <1>1 DEF StoreInv, RowsTyped, StoreTypeOK
<1>7. ASSUME NEW c \in Stored, Young(c)
      PROVE  /\ ~blobs'[c].old /\ blobs'[c].due # "past" /\ c \notin sweep'.blobs
             /\ \A a \in AssetsOf(c)' : documents'[a].due # "past"
  <2>1. c # Null
    BY StoreAssumption DEF Stored
  <2>2. c \notin look
    BY <1>7 DEF Young, AssetsOf
  <2>3. \A a \in AssetsOf(c)' : documents'[a].due # "past"
    BY <1>5, <1>7, <2>1 DEF Young, AssetsOf, NoAsset
  <2>. QED
    BY <1>1, <1>3, <1>7, <2>2, <2>3 DEF Young
<1>. QED
  BY <1>1, <1>2, <1>3, <1>4, <1>5, <1>6, <1>7, ReferencesGo
     DEF StoreInv, RowsTyped, StoreTypeOK

\* A file goes whose row nobody is known to count on.
LEMMA RemoveKeeps ==
    ASSUME StoreInv, NEW k, NEW counted \in BOOLEAN, Remove(k, counted),
           UNCHANGED <<blobs, documents, places, archived, images, cards, tails>>,
           \A v \in Uploads : up[v].pc \in Early => k # v,
           \A b \in Stored : blobs[b].key = k =>
               /\ ~Young(b)
               /\ \/ b \in pulled \/ Unused(b) \/ Relying(k) # {}
                  \/ ~counted /\ ImagesOf(b) # {},
           gc' \in [Collectors -> GcRow],
           \A q \in Collectors :
               \/ gc'[q] = gc[q]
               \/ /\ gc[q].pc = "unlink" /\ gc'[q].pc = "erase"
                  /\ gc'[q].blob = gc[q].blob /\ gc'[q].key = gc[q].key,
           sweep' \in SweepRow, sweep'.blobs = sweep.blobs, sweep'.cur = sweep.cur, SweepSound',
           sweep'.pc = "remove" => sweep.pc = "remove"
    PROVE  StoreInv'
<1>1. /\ files' = files \ {k}
      /\ up' = [u \in Uploads |-> IF u \in Relying(k) THEN [up[u] EXCEPT !.misled = TRUE]
                                  ELSE up[u]]
      /\ pulled' = pulled \cup {b \in Stored : /\ blobs[b].key = k
                                               /\ \/ Relying(k) # {}
                                                  \/ ~counted /\ ImagesOf(b) # {}}
  BY DEF Remove
<1>2. ASSUME NEW v \in Uploads
      PROVE  /\ up'[v] \in UploadRow
             /\ up'[v].pc = up[v].pc /\ up'[v].kind = up[v].kind /\ up'[v].owner = up[v].owner
             /\ up'[v].sha = up[v].sha /\ up'[v].seen = up[v].seen /\ up'[v].blob = up[v].blob
             /\ up'[v].card = up[v].card
             /\ up[v].misled => up'[v].misled
             /\ v \in Relying(k) => up'[v].misled
  <2>1. up[v] \in UploadRow
    BY DEF StoreInv, RowsTyped
  <2>2. CASE v \in Relying(k)
    <3>1. up'[v] = [up[v] EXCEPT !.misled = TRUE]
      BY <1>1, <2>2
    <3>. QED
      BY <2>1, <3>1 DEF UploadRow
  <2>3. CASE v \notin Relying(k)
    <3>1. up'[v] = up[v]
      BY <1>1, <2>3
    <3>. QED
      BY <2>1, <2>3, <3>1
  <2>. QED
    BY <2>2, <2>3
<1>3. up' \in [Uploads -> UploadRow]
  <2>1. up' = [v \in Uploads |-> up'[v]]
    BY <1>1
  <2>. QED
    BY <1>2, <2>1, Zenon
<1>4. /\ Stored' = Stored /\ Stored \subseteq Keys
      /\ \A b \in Keys : /\ AssetsOf(b)' = AssetsOf(b) /\ PreviewsOf(b)' = PreviewsOf(b)
                         /\ Unused(b)' <=> Unused(b)
      /\ pulled \subseteq pulled' /\ pulled' \subseteq Keys
  BY <1>1 DEF Stored, AssetsOf, PreviewsOf, ImagesOf, Unused, StoreInv, RowsTyped, StoreTypeOK
<1>5. \A j : Relying(j)' = Relying(j)
  BY <1>2 DEF Relying
<1>6. RowsTyped'
  <2>1. \A v \in Uploads : up'[v].blob \in Keys \cup {Null}
    BY <1>2 DEF StoreInv, RowsTyped, StoreTypeOK
  <2>2. files' \subseteq Keys
    BY <1>1 DEF StoreInv, RowsTyped, StoreTypeOK
  <2>. QED
    BY <1>3, <1>4, <2>1, <2>2 DEF StoreInv, RowsTyped, StoreTypeOK, SweepRow
<1>7. ReferencesStored' /\ KeysUnique'
  BY <1>4 DEF StoreInv, ReferencesStored, KeysUnique
<1>8. ReferencedKept'
  <2>1. ASSUME NEW b \in Stored, ~Unused(b) PROVE blobs[b].key \in files' \/ b \in pulled'
    <3>1. CASE blobs[b].key = k
      BY <1>1, <2>1, <3>1
    <3>2. CASE blobs[b].key # k
      BY <1>1, <2>1, <3>2 DEF StoreInv, ReferencedKept
    <3>. QED
      BY <3>1, <3>2
  <2>. QED
    BY <1>4, <2>1 DEF ReferencedKept
<1>9. CountedBySweep'
  BY <1>4, <1>5 DEF StoreInv, CountedBySweep
<1>10. ASSUME NEW v \in Uploads PROVE UploadSound(v)' /\ OwnFile(v)' /\ FileThere(v)'
  <2>1. UploadSound(v)'
    BY <1>2, <1>4 DEF StoreInv, UploadInv, UploadSound, WithBytes
  <2>2. OwnFile(v)'
    BY <1>1, <1>2 DEF StoreInv, UploadInv, OwnFile, Early
  <2>3. FileThere(v)'
    BY <1>1, <1>2, <1>4 DEF StoreInv, UploadInv, FileThere, Relying
  <2>. QED
    BY <2>1, <2>2, <2>3
<1>11. ASSUME NEW v \in Uploads PROVE FreshId(v)'
  BY <1>2, <1>4 DEF StoreInv, UploadInv, FreshId
<1>12. ASSUME NEW v \in Uploads PROVE Overtaken(v)'
  <2>1. ASSUME up[v].pc = "create", NEW c \in WithSha(up[v].sha) PROVE Young(c)'
    <3>1. Young(c) /\ c \in Stored /\ c \in Keys
      BY <1>4, <2>1 DEF StoreInv, UploadInv, Overtaken, WithSha
    <3>2. blobs[c].key \in files'
      BY <1>1, <3>1 DEF Young
    <3>3. \A q \in Collectors : gc'[q].blob = c => gc'[q].pc = "weigh"
      BY <3>1 DEF Young
    <3>. QED
      BY <1>4, <3>1, <3>2, <3>3 DEF Young
  <2>2. WithSha(up[v].sha)' = WithSha(up[v].sha)
    BY <1>2, <1>4 DEF WithSha
  <2>. QED
    BY <1>2, <2>1, <2>2 DEF Overtaken
<1>13. \A v \in Uploads : Queued(v)' /\ AtWork(v)'
  BY <1>2, QueuesKept
<1>14. ASSUME NEW q \in Collectors PROVE GcInv(q)'
  <2>1. GcSound(q)' /\ KeyRead(q)'
    BY <1>4 DEF StoreInv, GcInv, GcSound, KeyRead
  <2>2. CountedByGc(q)'
    BY <1>4 DEF StoreInv, GcInv, CountedByGc
  <2>. QED
    BY <2>1, <2>2 DEF GcInv
<1>. QED
  BY <1>6, <1>7, <1>8, <1>9, <1>10, <1>11, <1>12, <1>13, <1>14 DEF StoreInv, UploadInv

LEMMA UnlinkKeeps ==
    ASSUME StoreInv, NEW p \in Collectors, Unlink(p)
    PROVE  StoreInv'
<1>. DEFINE g == [gc[p] EXCEPT !.pc = "erase"]
<1>1. /\ gc[p].pc = "unlink" /\ Remove(gc[p].key, FALSE) /\ gc' = [gc EXCEPT ![p].pc = "erase"]
      /\ UNCHANGED <<blobs, documents, places, archived, images, cards, tails, sweep>>
  BY DEF Unlink, refs
<1>2. g \in GcRow /\ g.pc = "erase" /\ g.blob = gc[p].blob /\ g.key = gc[p].key
  BY DEF StoreInv, RowsTyped, GcRow
<1>3. gc' = [gc EXCEPT ![p] = g]
  BY <1>1 DEF StoreInv, RowsTyped
<1>. HIDE DEF g
<1>4. /\ gc' \in [Collectors -> GcRow]
      /\ \A q \in Collectors :
             \/ gc'[q] = gc[q]
             \/ /\ gc[q].pc = "unlink" /\ gc'[q].pc = "erase"
                /\ gc'[q].blob = gc[q].blob /\ gc'[q].key = gc[q].key
  BY <1>1, <1>2, <1>3 DEF StoreInv, RowsTyped
<1>5. \A v \in Uploads : up[v].pc \in Early => gc[p].key # v
  BY DEF StoreInv, UploadInv, FreshId
<1>6. ASSUME NEW b \in Stored, blobs[b].key = gc[p].key
      PROVE  ~Young(b) /\ (b \in pulled \/ Unused(b) \/ ImagesOf(b) # {})
  <2>1. b = gc[p].blob
    BY <1>1, <1>6 DEF StoreInv, GcInv, KeyRead
  <2>2. b \in pulled \/ (AssetsOf(b) = {} /\ PreviewsOf(b) = {})
    BY <1>1, <1>6, <2>1 DEF StoreInv, GcInv, CountedByGc
  <2>. QED
    BY <1>1, <2>1, <2>2 DEF Unused, Young
<1>7. SweepSound' /\ sweep' \in SweepRow
  BY <1>1 DEF StoreInv, SweepSound, RowsTyped
<1>. QED
  BY <1>1, <1>4, <1>5, <1>6, <1>7, RemoveKeeps

LEMMA RemoveFileKeeps == StoreInv /\ RemoveFile => StoreInv'
<1>. SUFFICES ASSUME StoreInv, RemoveFile PROVE StoreInv'
  OBVIOUS
<1>1. /\ sweep.pc = "remove"
      /\ UNCHANGED <<blobs, documents, places, archived, images, cards, tails, gc>>
  BY DEF RemoveFile, refs
<1>2. CASE /\ sweep' = [sweep EXCEPT !.pc = "blobs", !.cur = Null]
           /\ UNCHANGED <<files, up, pulled>>
  <2>1. /\ sweep' \in SweepRow /\ sweep'.pc = "blobs" /\ sweep'.blobs = sweep.blobs
        /\ sweep'.cur = Null /\ SweepSound'
    BY <1>2 DEF SweepSound, StoreInv, RowsTyped, SweepRow
  <2>. QED
    BY <1>1, <1>2, <2>1, SweepAlone DEF StoreInv, RowsTyped, StoreTypeOK
<1>3. CASE /\ sweep.cur \in Stored /\ Remove(blobs[sweep.cur].key, Counted(sweep.cur))
           /\ Goto("drop")
  <2>1. /\ sweep' \in SweepRow /\ sweep'.pc = "drop" /\ sweep'.blobs = sweep.blobs
        /\ sweep'.cur = sweep.cur /\ SweepSound'
    BY <1>1, <1>3 DEF Goto, SweepSound, StoreInv, RowsTyped, SweepRow
  <2>2. \A v \in Uploads : up[v].pc \in Early => blobs[sweep.cur].key # v
    BY <1>3 DEF StoreInv, UploadInv, FreshId, Stored
  <2>3. ASSUME NEW b \in Stored, blobs[b].key = blobs[sweep.cur].key
        PROVE  /\ ~Young(b)
               /\ b \in pulled \/ Unused(b) \/ Relying(blobs[sweep.cur].key) # {}
    <3>1. b = sweep.cur
      BY <1>3, <2>3 DEF StoreInv, KeysUnique
    <3>. QED
      BY <1>1, <1>3, <3>1 DEF Young, StoreInv, CountedBySweep
  <2>4. Counted(sweep.cur) \in BOOLEAN
    BY DEF Counted, Unused
  <2>5. gc' \in [Collectors -> GcRow]
    BY <1>1 DEF StoreInv, RowsTyped
  <2>. QED
    BY <1>1, <1>3, <2>1, <2>2, <2>3, <2>4, <2>5, RemoveKeeps
<1>. QED
  BY <1>2, <1>3 DEF RemoveFile

\* A row goes to which no document and no image refers; previews let go of it.
LEMMA EraseKeeps ==
    ASSUME StoreInv, NEW b \in Keys, ~Restricted(b), Erase(b),
           UNCHANGED <<files, documents, places, archived, images, up, tails, pulled>>,
           gc' \in [Collectors -> GcRow],
           \A q \in Collectors :
               \/ gc'[q] = gc[q]
               \/ gc'[q].pc = "idle" /\ gc'[q].blob = Null /\ gc'[q].key = Null,
           sweep' \in SweepRow, sweep'.blobs \subseteq sweep.blobs,
           sweep'.cur \in {sweep.cur, Null}, SweepSound',
           sweep'.pc = "remove" => sweep.pc = "remove" /\ sweep'.cur = sweep.cur
    PROVE  StoreInv'
<1>1. /\ blobs' = [blobs EXCEPT ![b] = NoBlob]
      /\ cards' = [c \in Cards |-> IF cards[c] = b THEN Null ELSE cards[c]]
      /\ AssetsOf(b) = {} /\ ImagesOf(b) = {}
  BY DEF Erase, Restricted
<1>2. /\ blobs' \in [Keys -> BlobRow \cup {NoBlob}] /\ blobs'[b] = NoBlob
      /\ \A c \in Keys : c # b => blobs'[c] = blobs[c]
      /\ cards' \in [Cards -> Keys \cup {Null}]
  BY <1>1 DEF StoreInv, RowsTyped, StoreTypeOK
<1>3. /\ Stored' = Stored \ {b} /\ Stored \subseteq Keys /\ Null \notin Keys
  BY <1>2, StoreAssumption DEF Stored
<1>4. \A c \in Stored : blobs[c].key \in Keys
  BY DEF StoreInv, RowsTyped, StoreTypeOK, Stored, BlobRow
<1>5. RowsTyped'
  BY <1>2 DEF StoreInv, RowsTyped, StoreTypeOK, SweepRow
<1>6. \A c \in Keys : c # b => /\ AssetsOf(c)' = AssetsOf(c) /\ PreviewsOf(c)' = PreviewsOf(c)
                               /\ ImagesOf(c)' = ImagesOf(c) /\ (Unused(c)' <=> Unused(c))
  BY <1>1, <1>3 DEF AssetsOf, PreviewsOf, ImagesOf, Unused
<1>7. ReferencesStored'
  BY <1>1, <1>3 DEF StoreInv, ReferencesStored, AssetsOf, ImagesOf
<1>8. KeysUnique'
  BY <1>2, <1>3 DEF StoreInv, KeysUnique
<1>9. ReferencedKept'
  BY <1>2, <1>3, <1>6 DEF StoreInv, ReferencedKept
<1>10. CountedBySweep'
  <2>1. SUFFICES ASSUME sweep'.pc = "remove", sweep'.cur \in Stored'
                 PROVE  \/ Unused(sweep.cur)' \/ sweep'.cur \in pulled'
                        \/ Relying(blobs[sweep.cur].key)' # {}
    BY DEF CountedBySweep
  <2>2. PICK s \in Stored : /\ sweep.pc = "remove" /\ sweep.cur = s /\ sweep'.cur = s
                            /\ s # b /\ s \in Keys /\ blobs'[s] = blobs[s]
    BY <1>2, <1>3, <2>1
  <2>3. ASSUME NEW v \in Relying(blobs[s].key)
        PROVE  up[v].pc \in {"revive", "link"} /\ blobs'[up[v].blob].key = blobs[s].key
    <3>1. /\ v \in Uploads /\ up[v].pc \in {"revive", "link"} /\ up[v].blob \in Keys
          /\ blobs[up[v].blob].key = blobs[s].key
      BY DEF Relying, StoreInv, UploadInv, UploadSound, RowsTyped, StoreTypeOK
    <3>2. up[v].blob \in Stored
      BY <1>3, <1>4, <2>2, <3>1 DEF Stored, NoBlob
    <3>3. up[v].blob = s
      BY <2>2, <3>1, <3>2 DEF StoreInv, KeysUnique
    <3>. QED
      BY <2>2, <3>1, <3>3
  <2>4. Relying(blobs[s].key) \subseteq Uploads
    BY DEF Relying
  <2>5. s \in pulled \/ Unused(s) \/ Relying(blobs[s].key) # {}
    BY <2>2 DEF StoreInv, CountedBySweep
  <2>6. Relying(blobs[s].key) # {} => Relying(blobs[s].key)' # {}
    BY <2>2, <2>3, <2>4 DEF Relying
  <2>7. Unused(s) => Unused(s)'
    BY <1>6, <2>2
  <2>. QED
    BY <2>2, <2>5, <2>6, <2>7
<1>11. ASSUME NEW v \in Uploads
       PROVE  UploadSound(v)' /\ OwnFile(v)' /\ FileThere(v)' /\ Overtaken(v)'
  <2>1. UploadSound(v)' /\ OwnFile(v)'
    BY <1>2, <1>3 DEF StoreInv, UploadInv, UploadSound, WithBytes, OwnFile
  <2>2. FileThere(v)'
    BY <1>2, <1>3 DEF StoreInv, UploadInv, FileThere
  <2>3. ASSUME up[v].pc = "create", NEW c \in WithSha(up[v].sha)' PROVE Young(c)'
    <3>1. c \in Keys /\ c # b /\ c \in WithSha(up[v].sha) /\ c # Null
      BY <1>2, <1>3 DEF WithSha
    <3>2. Young(c)
      BY <2>3, <3>1 DEF StoreInv, UploadInv, Overtaken
    <3>. QED
      BY <1>2, <1>6, <3>1, <3>2 DEF Young
  <2>4. Overtaken(v)'
    BY <2>3 DEF Overtaken
  <2>. QED
    BY <2>1, <2>2, <2>4
<1>12. ASSUME NEW v \in Uploads PROVE FreshId(v)'
  <2>1. SUFFICES ASSUME up[v].pc \in Early PROVE FreshId(v)'
    BY DEF FreshId
  <2>2. v # Null /\ v \in Keys
    BY <1>3 DEF Keys
  <2>3. \A c \in Keys : blobs'[c].key # v
    BY <1>2, <2>1, <2>2 DEF StoreInv, UploadInv, FreshId, NoBlob
  <2>4. \A p \in Collectors : gc'[p].blob # v /\ gc'[p].key # v
    BY <2>1, <2>2 DEF StoreInv, UploadInv, FreshId
  <2>5. v \notin Stored' /\ v \notin sweep'.blobs /\ sweep'.cur # v
    BY <1>3, <2>1, <2>2 DEF StoreInv, UploadInv, FreshId
  <2>. QED
    BY <2>1, <2>3, <2>4, <2>5 DEF StoreInv, UploadInv, FreshId
<1>13. \A v \in Uploads : Queued(v)' /\ AtWork(v)'
  BY QueuesKept
<1>14. ASSUME NEW q \in Collectors PROVE GcInv(q)'
  <2>1. GcSound(q)'
    BY DEF StoreInv, GcInv, GcSound
  <2>2. KeyRead(q)'
    BY <1>2, <1>3 DEF StoreInv, GcInv, KeyRead
  <2>3. CountedByGc(q)'
    <3>1. SUFFICES ASSUME gc[q].pc = "unlink", gc[q].blob \in Stored',
                          blobs'[gc[q].blob].key = gc[q].key, gc'[q] = gc[q]
                   PROVE  gc[q].blob \in pulled \/ (AssetsOf(gc[q].blob) = {}
                                                    /\ PreviewsOf(gc[q].blob) = {})'
      BY DEF CountedByGc
    <3>2. gc[q].blob \in Stored /\ gc[q].blob \in Keys /\ gc[q].blob # b
      BY <1>3, <3>1
    <3>3. blobs[gc[q].blob].key = gc[q].key
      BY <1>2, <3>1, <3>2
    <3>. QED
      BY <1>6, <3>1, <3>2, <3>3 DEF StoreInv, GcInv, CountedByGc
  <2>. QED
    BY <2>1, <2>2, <2>3 DEF GcInv
<1>. QED
  BY <1>5, <1>7, <1>8, <1>9, <1>10, <1>11, <1>12, <1>13, <1>14
     DEF StoreInv, UploadInv, SweepSound

LEMMA DropRowKeeps == StoreInv /\ DropRow => StoreInv'
<1>. SUFFICES ASSUME StoreInv, DropRow PROVE StoreInv'
  OBVIOUS
<1>1. /\ sweep.pc = "drop"
      /\ UNCHANGED <<files, documents, places, archived, images, up, tails, gc, pulled>>
  BY DEF DropRow
<1>2. CASE Abort /\ UNCHANGED <<blobs, cards>>
  BY <1>1, <1>2, NoSweepIs, SweepAlone DEF Abort, SweepSound, StoreInv, RowsTyped, StoreTypeOK
<1>3. CASE /\ sweep.cur \in Stored /\ ~Restricted(sweep.cur) /\ Erase(sweep.cur)
           /\ sweep' = [sweep EXCEPT !.pc = "blobs", !.cur = Null]
  <2>1. /\ sweep' \in SweepRow /\ sweep'.pc = "blobs" /\ sweep'.blobs = sweep.blobs
        /\ sweep'.cur = Null /\ SweepSound'
    BY <1>3 DEF SweepSound, StoreInv, RowsTyped, SweepRow
  <2>2. sweep.cur \in Keys /\ gc' \in [Collectors -> GcRow]
    BY <1>1, <1>3 DEF Stored, StoreInv, RowsTyped
  <2>. QED
    BY <1>1, <1>3, <2>1, <2>2, EraseKeeps
<1>. QED
  BY <1>2, <1>3 DEF DropRow

LEMMA EraseRowKeeps ==
    ASSUME StoreInv, NEW p \in Collectors, EraseRow(p)
    PROVE  StoreInv'
<1>. DEFINE b == gc[p].blob
<1>1. /\ gc[p].pc = "erase"
      /\ UNCHANGED <<files, documents, places, archived, images, up, tails, pulled>>
  BY DEF EraseRow
<1>2. CASE Finish(p, FALSE) /\ UNCHANGED <<blobs, cards>>
  <2>1. SameRows /\ blobs' \in [Keys -> BlobRow \cup {NoBlob}]
    BY <1>2 DEF SameRows, Stored, StoreInv, RowsTyped, StoreTypeOK
  <2>2. \A c \in Stored : Young(c) => /\ ~blobs'[c].old /\ blobs'[c].due # "past"
                                      /\ gc'[p].blob = c => gc'[p].pc = "weigh"
    <3>1. gc'[p].blob = Null
      BY <1>2, Finished
    <3>. QED
      BY <1>2, <3>1, StoreAssumption DEF Young, Stored
  <2>. QED
    BY <1>1, <1>2, <2>1, <2>2, Finished, CollectorAlone DEF StoreInv, RowsTyped, StoreTypeOK
<1>3. CASE ~Restricted(b) /\ Erase(b) /\ Finish(p, TRUE)
  <2>1. b \in Keys
    BY <1>1 DEF StoreInv, RowsTyped, GcRow, GcInv, GcSound
  <2>2. /\ gc' \in [Collectors -> GcRow] /\ \A q \in Collectors : q # p => gc'[q] = gc[q]
        /\ gc'[p].pc = "idle" /\ gc'[p].blob = Null /\ gc'[p].key = Null
        /\ sweep' \in SweepRow /\ SweepSound' /\ sweep'.blobs \subseteq sweep.blobs
        /\ sweep'.cur \in {sweep.cur, Null}
        /\ sweep'.pc = "remove" => sweep.pc = "remove" /\ sweep'.cur = sweep.cur
    BY <1>3, Finished
  <2>. HIDE DEF b
  <2>. QED
    BY <1>1, <1>3, <2>1, <2>2, EraseKeeps
<1>. QED
  BY <1>2, <1>3 DEF EraseRow

-----------------------------------------------------------------------------
(* The invariant of the store.                                             *)

\* The rows at the start, with the foreign keys.
Starting ==
    /\ files \subseteq {Older} /\ Stored \subseteq {Older}
    /\ blobs \in [Keys -> BlobRow \cup {NoBlob}]
    /\ documents \in [AssetIds -> AssetRow \cup {NoAsset}]
    /\ places \in [AssetIds -> {"none", "fresh", "stale", "ACTIVE"}]
    /\ images \in [Owners -> Keys \cup {Null}] /\ cards \in [Cards -> Keys \cup {Null}]
    /\ \A b \in Keys : blobs[b].key \in {Null, Older}
    /\ Stored = {Older} => files = {Older} /\ blobs[Older].key = Older
    /\ ReferencesStored

LEMMA StoreStarts == StoreInit => StoreInv
<1>. SUFFICES ASSUME StoreInit PROVE StoreInv
  OBVIOUS
<1>1. /\ archived = {} /\ pulled = {}
      /\ \A u \in Uploads : up[u] = NoUpload
      /\ \A p \in Collectors : gc[p] = NoGc
      /\ up \in [Uploads -> UploadRow] /\ gc \in [Collectors -> GcRow]
      /\ tails \in [Owners -> Seq(Uploads)]
      /\ sweep = NoSweep
  <2>1. Started
    BY DEF StoreInit
  <2>2. << >> \in Seq(Uploads)
    OBVIOUS
  <2>3. up = [u \in Uploads |-> NoUpload] /\ gc = [p \in Collectors |-> NoGc]
    BY <2>1 DEF Started
  <2>4. up \in [Uploads -> UploadRow] /\ \A u \in Uploads : up[u] = NoUpload
    BY <2>3, NoUploadTyped
  <2>5. gc \in [Collectors -> GcRow] /\ \A p \in Collectors : gc[p] = NoGc
    BY <2>3, NoGcIs
  <2>6. tails \in [Owners -> Seq(Uploads)]
    BY <2>1, <2>2 DEF Started
  <2>. QED
    BY <2>1, <2>4, <2>5, <2>6 DEF Started
<1>2. /\ \A u \in Uploads : up[u].pc = "new" /\ up[u].blob = Null /\ up[u].seen = Null
      /\ \A p \in Collectors : gc[p].pc = "idle" /\ gc[p].blob = Null /\ gc[p].key = Null
  <2>1. NoUpload.pc = "new" /\ NoUpload.blob = Null /\ NoUpload.seen = Null
    BY DEF NoUpload
  <2>. QED
    BY <1>1, <2>1, NoGcIs
<1>3. Starting
  <2>1. CASE NoBlobs
    <3>1. Stored = {} /\ \A b \in Keys : blobs[b].key = Null
      BY <2>1 DEF NoBlobs, Stored, NoBlob
    <3>. QED
      BY <2>1, <3>1 DEF NoBlobs, Starting, ReferencesStored
  <2>2. ASSUME NEW c \in Bytes, NEW art \in BOOLEAN, NEW doc \in BOOLEAN, NEW o \in Owners,
               NEW drawn \in SUBSET Owners, NEW shown \in SUBSET Cards,
               OneBlob(c, art, doc, o, drawn, shown)
        PROVE  Starting
    <3>. DEFINE r == [sha |-> c, key |-> Older, state |-> "READY", due |-> "no",
                      art |-> art, old |-> TRUE]
                d == [blob |-> Older, owner |-> o, due |-> "no"]
    <3>1. Older \in Keys /\ Older \in AssetIds
      BY DEF Keys, AssetIds
    <3>2. r \in BlobRow /\ r.key = Older /\ r # NoBlob
      BY <3>1, StoreAssumption DEF BlobRow, Due, NoBlob
    <3>3. d \in AssetRow /\ d.blob = Older
      BY <3>1 DEF AssetRow, Due
    <3>4. /\ blobs[Older] = r /\ \A b \in Keys : b # Older => blobs[b] = NoBlob
          /\ blobs \in [Keys -> BlobRow \cup {NoBlob}]
      <4>1. \A b \in Keys : blobs[b] = IF b = Older THEN r ELSE NoBlob
        BY <2>2 DEF OneBlob
      <4>2. blobs = [b \in Keys |-> blobs[b]]
        BY <2>2 DEF OneBlob
      <4>. HIDE DEF r
      <4>3. \A b \in Keys : blobs[b] \in BlobRow \cup {NoBlob}
        BY <3>2, <4>1
      <4>. QED
        BY <3>1, <4>1, <4>2, <4>3, Zenon
    <3>5. /\ \A a \in AssetIds : documents[a] \in {d, NoAsset}
          /\ documents \in [AssetIds -> AssetRow \cup {NoAsset}]
      <4>1. \A a \in AssetIds : documents[a] \in {d, NoAsset}
        BY <2>2 DEF OneBlob
      <4>2. documents = [a \in AssetIds |-> documents[a]]
        BY <2>2 DEF OneBlob
      <4>. HIDE DEF d
      <4>3. \A a \in AssetIds : documents[a] \in AssetRow \cup {NoAsset}
        BY <3>3, <4>1
      <4>. QED
        BY <4>1, <4>2, <4>3, Zenon
    <3>. HIDE DEF r, d
    <3>6. Stored = {Older}
      BY <3>1, <3>2, <3>4 DEF Stored
    <3>7. \A b \in Keys : blobs[b].key \in {Null, Older}
      BY <3>2, <3>4 DEF NoBlob
    <3>8. /\ images \in [Owners -> Keys \cup {Null}] /\ cards \in [Cards -> Keys \cup {Null}]
          /\ places \in [AssetIds -> {"none", "fresh", "stale", "ACTIVE"}]
          /\ \A p \in Owners : images[p] \in {Older, Null}
          /\ \A p \in Cards : cards[p] \in {Older, Null}
      BY <2>2, <3>1 DEF OneBlob
    <3>9. ReferencesStored
      BY <3>3, <3>5, <3>6, <3>8 DEF ReferencesStored
    <3>. QED
      BY <2>2, <3>2, <3>4, <3>5, <3>6, <3>7, <3>8, <3>9 DEF OneBlob, Starting
  <2>. QED
    BY <2>1, <2>2 DEF StoreInit
<1>4. RowsTyped
  BY <1>1, <1>2, <1>3, NoSweepIs DEF Starting, RowsTyped, StoreTypeOK, SweepRow, Keys
<1>5. KeysUnique /\ SweepSound /\ CountedBySweep
  BY <1>1, <1>3, NoSweepIs DEF Starting, KeysUnique, SweepSound, CountedBySweep
<1>6. ReferencedKept
  BY <1>3 DEF Starting, ReferencedKept
<1>7. ASSUME NEW u \in Uploads PROVE UploadInv(u)
  <2>1. UploadSound(u) /\ OwnFile(u) /\ FileThere(u) /\ Overtaken(u) /\ Queued(u) /\ AtWork(u)
    BY <1>2 DEF UploadSound, OwnFile, FileThere, Overtaken, Queued, AtWork, Busy, Stages, Early
  <2>2. FreshId(u)
    <3>1. u # Null /\ u # Older
      BY StoreAssumption DEF Keys
    <3>2. u \notin sweep.blobs /\ sweep.cur # u
      BY <1>1, <3>1, NoSweepIs
    <3>3. u \notin Stored /\ \A b \in Keys : blobs[b].key # u
      BY <1>3, <3>1 DEF Starting
    <3>. QED
      BY <1>2, <3>1, <3>2, <3>3 DEF FreshId
  <2>. QED
    BY <2>1, <2>2 DEF UploadInv
<1>8. \A p \in Collectors : GcInv(p)
  BY <1>2 DEF GcInv, GcSound, KeyRead, CountedByGc
<1>. QED
  BY <1>3, <1>4, <1>5, <1>6, <1>7, <1>8 DEF StoreInv, Starting

\* What an owner is charged for is a sum over a finite set of rows.
LEMMA ChargedIs ==
    ASSUME RowsTyped, NEW o
    PROVE  /\ Used(o) = Weight(blobs, Charged(o)) /\ IsFiniteSet(Charged(o))
           /\ Charged(o) \subseteq Stored /\ Sized(blobs, Stored)
           /\ Used(o) \in Nat
<1>1. Used(o) = Weight(blobs, Charged(o)) /\ Charged(o) \subseteq Stored
  BY DEF Used, Charged
<1>2. Sized(blobs, Stored)
  BY StoreAssumption DEF Sized, Stored, BlobRow, RowsTyped, StoreTypeOK
<1>3. IsFiniteSet(Keys)
  BY StoreAssumption, FS_AddElement DEF Keys
<1>4. IsFiniteSet(Charged(o))
  BY <1>1, <1>3, FS_Subset DEF Stored
<1>5. Weight(blobs, Charged(o)) \in Nat
  <2>1. Sized(blobs, Charged(o))
    BY <1>1, <1>2 DEF Sized
  <2>. QED
    BY <1>4, <2>1, WeightGrows
<1>. QED
  BY <1>1, <1>2, <1>4, <1>5

\* No step adds to what an owner is charged for, but for those that refer to a blob.
ChargesLess ==
    /\ \A a \in AssetIds :
           \/ documents'[a] = NoAsset
           \/ documents'[a].blob = documents[a].blob /\ documents'[a].owner = documents[a].owner
    /\ \A o \in Owners : images'[o] \in {images[o], Null}
    /\ \A b \in Stored : blobs'[b] = NoBlob \/ blobs'[b].sha = blobs[b].sha

LEMMA UsedLess ==
    ASSUME StoreInv, RowsTyped', ChargesLess, NEW o \in Owners
    PROVE  Used(o)' \in Nat /\ Used(o) \in Nat /\ Used(o)' <= Used(o)
<1>1. Null \notin Keys
  BY StoreAssumption
<1>2. ASSUME NEW b \in Charged(o)'
      PROVE  b \in Charged(o) /\ blobs'[b].sha = blobs[b].sha
  <2>1. b \in Stored' /\ b \in Keys /\ blobs'[b] # NoBlob
    BY DEF Charged, Stored
  <2>2. CASE images'[o] = b
    <3>1. images[o] = b /\ b \in Stored
      BY <1>1, <2>1, <2>2 DEF ChargesLess, StoreInv, ReferencesStored
    <3>. QED
      BY <2>1, <3>1 DEF ChargesLess, Charged
  <2>3. ASSUME NEW a \in AssetIds, documents'[a].blob = b, documents'[a].owner = o
        PROVE  b \in Charged(o) /\ blobs'[b].sha = blobs[b].sha
    <3>1. documents'[a] # NoAsset
      BY <1>1, <2>1, <2>3 DEF NoAsset
    <3>2. documents[a].blob = b /\ documents[a].owner = o
      BY <2>3, <3>1 DEF ChargesLess
    <3>3. b \in Stored
      BY <1>1, <2>1, <3>2 DEF NoAsset, StoreInv, ReferencesStored
    <3>. QED
      BY <2>1, <3>2, <3>3 DEF ChargesLess, Charged, AssetsOf
  <2>. QED
    BY <1>2, <2>2, <2>3 DEF Charged, AssetsOf
<1>3. Used(o)' = Weight(blobs', Charged(o)')
  BY DEF Used
<1>4. /\ Used(o) = Weight(blobs, Charged(o)) /\ IsFiniteSet(Charged(o))
      /\ Charged(o) \subseteq Stored /\ Sized(blobs, Stored)
  BY ChargedIs DEF StoreInv
<1>5. Sized(blobs, Charged(o))
  BY <1>4 DEF Sized
<1>. QED
  BY <1>2, <1>3, <1>4, <1>5, WeightGrows

\* A reference adds no more than the size of its blob.
LEMMA UsedMore ==
    ASSUME StoreInv, NEW o \in Owners, NEW b \in Stored, blobs' = blobs,
           Charged(o)' \subseteq Charged(o) \cup {b}
    PROVE  /\ Used(o)' \in Nat /\ Used(o) \in Nat /\ Size[blobs[b].sha] \in Nat
           /\ Used(o)' <= Used(o) + Size[blobs[b].sha]
<1>. DEFINE T == Charged(o) \cup {b}
<1>1. Used(o)' = Weight(blobs', Charged(o)')
  BY DEF Used
<1>2. /\ Used(o) = Weight(blobs, Charged(o)) /\ IsFiniteSet(Charged(o))
      /\ Charged(o) \subseteq Stored /\ Sized(blobs, Stored) /\ Used(o) \in Nat
  BY ChargedIs DEF StoreInv
<1>3. IsFiniteSet(T) /\ Sized(blobs, T) /\ b \in T
  BY <1>2, FS_AddElement DEF Sized
<1>4. PICK A \in SUBSET T : A = Charged(o)'
  OBVIOUS
<1>5. Weight(blobs', A) \in Nat /\ Weight(blobs', A) <= Weight(blobs, T)
      /\ Weight(blobs, T) \in Nat
  BY <1>3, WeightGrows
<1>6. Weight(blobs, T) <= Weight(blobs, Charged(o)) + Size[blobs[b].sha]
  BY <1>3, WeightGrows
<1>7. Size[blobs[b].sha] \in Nat
  BY <1>2 DEF Sized
<1>. QED
  BY <1>1, <1>2, <1>4, <1>5, <1>6, <1>7

\* What an upload was allowed it is still, if it goes on.
Continues(v) ==
    /\ up'[v].owner = up[v].owner /\ up'[v].used = up[v].used /\ up'[v].sha = up[v].sha
    /\ up'[v].pc \in Busy \ {"attach"} => up[v].pc \in Busy \ {"attach"}
    /\ up'[v].pc \in Busy \ {"write", "attach"} => up[v].pc \in Busy \ {"write", "attach"}

LEMMA AllowanceStays ==
    ASSUME StoreInv, RowsTyped', AllowanceInv, ChargesLess,
           \A v \in Uploads : Continues(v) \/ Allowed(v)'
    PROVE  AllowanceInv'
<1>1. \A o \in Owners : Used(o)' \in Nat /\ Used(o) \in Nat /\ Used(o)' <= Used(o)
  BY UsedLess
<1>2. MaxPerUser \in Nat
  BY StoreAssumption
<1>3. QuotaKept'
  BY <1>1, <1>2 DEF AllowanceInv, QuotaKept
<1>4. ASSUME NEW v \in Uploads, Continues(v) PROVE Allowed(v)'
  <2>1. PICK o \in Owners \cup {Null} : o = up[v].owner /\ o = up'[v].owner
    BY <1>4 DEF Continues, StoreInv, RowsTyped, UploadRow
  <2>2. CASE o = Null
    BY <2>1, <2>2 DEF Allowed
  <2>3. CASE o # Null
    <3>1. /\ up[v].pc \in Busy \ {"attach"} => Used(o) <= up[v].used /\ up[v].used <= MaxPerUser
          /\ up[v].pc \in Busy \ {"write", "attach"} => Size[up[v].sha] <= MaxPerUser - up[v].used
      BY <2>1, <2>3 DEF AllowanceInv, Allowed
    <3>2. Used(o)' \in Nat /\ Used(o) \in Nat /\ Used(o)' <= Used(o) /\ up[v].used \in Nat
      BY <1>1, <2>1, <2>3 DEF StoreInv, RowsTyped, UploadRow
    <3>3. up'[v].pc \in Busy \ {"attach"} => Used(o)' <= up'[v].used /\ up'[v].used <= MaxPerUser
      BY <1>2, <1>4, <3>1, <3>2 DEF Continues
    <3>4. up'[v].pc \in Busy \ {"write", "attach"} => Size[up'[v].sha] <= MaxPerUser - up'[v].used
      BY <1>4, <3>1 DEF Continues
    <3>. QED
      BY <2>1, <3>3, <3>4 DEF Allowed
  <2>. QED
    BY <2>1, <2>2, <2>3
<1>. QED
  BY <1>3, <1>4 DEF AllowanceInv

LEMMA OthersContinue ==
    ASSUME StoreInv, NEW u \in Uploads, NEW r, Move(u, r)
    PROVE  up'[u] = r /\ \A v \in Uploads : v # u => up'[v] = up[v] /\ Continues(v)
<1>1. up'[u] = r /\ \A v \in Uploads : v # u => up'[v] = up[v]
  BY DEF Move, StoreInv, RowsTyped
<1>. QED
  BY <1>1 DEF Continues

\* An upload that is answered has no allowance.
LEMMA AnsweredAllowed ==
    ASSUME StoreInv, NEW u \in Uploads, Answer(u)
    PROVE  \A v \in Uploads : Continues(v) \/ Allowed(v)'
<1>. DEFINE r == [NoUpload EXCEPT !.pc = "done"]
<1>1. Move(u, r)
  BY DEF Answer
<1>2. r.owner = Null
  BY DEF NoUpload
<1>. HIDE DEF r
<1>3. Allowed(u)'
  BY <1>1, <1>2, OthersContinue DEF Allowed
<1>. QED
  BY <1>1, <1>3, OthersContinue

\* The columns that no step rewrites.
Columns(r) == <<r.owner, r.sha, r.used>>

\* The steps of an upload that refer to nothing.
LEMMA UploadAllowance ==
    ASSUME StoreInv, RowsTyped', AllowanceInv, NEW u \in Uploads,
           \/ Admit(u) \/ ReadUsage(u) \/ WriteFile(u) \/ Find(u) \/ Reuse(u) \/ Revive(u)
           \/ Adopt(u) \/ Create(u) \/ LinkFails(u) \/ Attach(u) \/ LinkArt(u)
    PROVE  AllowanceInv'
<1>1. ASSUME UNCHANGED <<blobs, documents, images>> PROVE ChargesLess
  BY <1>1 DEF ChargesLess
<1>2. ASSUME Answer(u), ChargesLess PROVE AllowanceInv'
  BY <1>2, AnsweredAllowed, AllowanceStays
<1>3. ASSUME NEW r, Move(u, r), ChargesLess, Columns(r) = Columns(up[u]),
             up[u].pc \in Busy \ {"write", "attach"}
      PROVE  AllowanceInv'
  <2>1. Continues(u)
    BY <1>3, OthersContinue DEF Continues, Columns
  <2>. QED
    BY <1>3, <2>1, OthersContinue, AllowanceStays
<1>4. up[u] \in UploadRow
  BY DEF StoreInv, RowsTyped
<1>5. ASSUME Admit(u) PROVE AllowanceInv'
  <2>1. ASSUME NEW r, Move(u, r), r.owner = Null \/ r.pc = "admitted" PROVE AllowanceInv'
    <3>1. Allowed(u)'
      BY <2>1, OthersContinue DEF Allowed, Busy
    <3>2. UNCHANGED <<blobs, documents, images>>
      BY <1>5 DEF Admit, refs
    <3>. QED
      BY <1>1, <2>1, <3>1, <3>2, OthersContinue, AllowanceStays
  <2>2. ASSUME NEW o \in Owners, NEW kind, NEW c,
               Move(u, [NoUpload EXCEPT !.pc = "admitted", !.kind = kind, !.owner = o, !.sha = c])
        PROVE  AllowanceInv'
    <3>. DEFINE r == [NoUpload EXCEPT !.pc = "admitted", !.kind = kind, !.owner = o, !.sha = c]
    <3>1. r.pc = "admitted"
      BY DEF NoUpload
    <3>. HIDE DEF r
    <3>. QED
      BY <2>1, <2>2, <3>1 DEF r
  <2>3. ASSUME NEW card, NEW c,
               Move(u, [NoUpload EXCEPT !.pc = "write", !.kind = "art", !.card = card, !.sha = c])
        PROVE  AllowanceInv'
    <3>. DEFINE r == [NoUpload EXCEPT !.pc = "write", !.kind = "art", !.card = card, !.sha = c]
    <3>1. r.owner = Null
      BY DEF NoUpload
    <3>. HIDE DEF r
    <3>. QED
      BY <2>1, <2>3, <3>1 DEF r
  <2>. QED
    BY <1>5, <2>2, <2>3, Zenon DEF Admit
<1>6. ASSUME ReadUsage(u) PROVE AllowanceInv'
  <2>. DEFINE used == Used(up[u].owner)
              r == [up[u] EXCEPT !.pc = "write", !.used = used]
  <2>1. CASE used < MaxPerUser /\ Move(u, r)
    <3>1. r.pc = "write" /\ r.used = used /\ r.owner = up[u].owner
      BY <1>4 DEF UploadRow
    <3>2. up[u].owner \in Owners \cup {Null}
      BY <1>4 DEF UploadRow
    <3>3. used \in Nat /\ MaxPerUser \in Nat
      BY ChargedIs, StoreAssumption DEF StoreInv
    <3>5. UNCHANGED <<blobs, documents, images>>
      BY <1>6 DEF ReadUsage, refs
    <3>6. Move(u, r) /\ used < MaxPerUser
      BY <2>1
    <3>. HIDE DEF r
    <3>7. up'[u] = r
      BY <3>6, OthersContinue
    <3>8. up[u].owner # Null => Used(up[u].owner) <= r.used /\ r.used <= MaxPerUser
      BY <3>1, <3>3, <3>6
    <3>9. Allowed(u)'
      <4>1. PICK o : o = up[u].owner /\ o = up'[u].owner
        BY <3>1, <3>7
      <4>2. Used(o)' = Used(o)
        BY <3>5 DEF Used, Charged, Stored, AssetsOf
      <4>. QED
        BY <3>1, <3>7, <3>8, <4>1, <4>2 DEF Allowed
    <3>. QED
      BY <1>1, <3>5, <3>6, <3>9, OthersContinue, AllowanceStays
  <2>. QED
    BY <1>1, <1>2, <1>6, <2>1 DEF ReadUsage, refs
<1>7. ASSUME WriteFile(u) PROVE AllowanceInv'
  <2>. DEFINE r == [up[u] EXCEPT !.pc = "find"]
  <2>1. CASE (up[u].kind # "art" => Size[up[u].sha] <= MaxPerUser - up[u].used) /\ Step(u, "find")
    <3>1. /\ r.pc = "find" /\ r.used = up[u].used /\ r.owner = up[u].owner /\ r.sha = up[u].sha
      BY <1>4 DEF UploadRow
    <3>2. up[u].pc = "write" /\ UNCHANGED <<blobs, documents, images>>
      BY <1>7 DEF WriteFile, refs
    <3>3. Move(u, r)
      BY <2>1 DEF Step
    <3>. HIDE DEF r
    <3>4. up'[u] = r
      BY <3>3, OthersContinue
    <3>5. up[u].owner # Null => Size[up[u].sha] <= MaxPerUser - up[u].used
      BY <2>1, <3>2 DEF StoreInv, UploadInv, UploadSound
    <3>6. Allowed(u)'
      <4>1. PICK o : o = up[u].owner /\ o = up'[u].owner
        BY <3>1, <3>4
      <4>2. Used(o)' = Used(o)
        BY <3>2 DEF Used, Charged, Stored, AssetsOf
      <4>3. o # Null => Used(o) <= up[u].used /\ up[u].used <= MaxPerUser
        BY <3>2, <4>1 DEF AllowanceInv, Allowed, Busy, Stages, Early
      <4>. QED
        BY <3>1, <3>4, <3>5, <4>1, <4>2, <4>3 DEF Allowed
    <3>. QED
      BY <1>1, <3>2, <3>3, <3>6, OthersContinue, AllowanceStays
  <2>. QED
    BY <1>1, <1>2, <1>7, <2>1 DEF WriteFile, refs
<1>8. ASSUME Find(u) PROVE AllowanceInv'
  <2>1. up[u].pc = "find" /\ UNCHANGED <<blobs, documents, images>>
    BY <1>8 DEF Find, refs
  <2>2. \/ Move(u, [up[u] EXCEPT !.pc = "create"])
        \/ \E b : Move(u, [up[u] EXCEPT !.pc = "look", !.seen = b, !.row = blobs[b]])
    BY <1>8 DEF Find, Step
  <2>3. ASSUME Move(u, [up[u] EXCEPT !.pc = "create"]) PROVE AllowanceInv'
    <3>. DEFINE r == [up[u] EXCEPT !.pc = "create"]
    <3>1. Move(u, r) /\ Columns(r) = Columns(up[u])
      BY <1>4, <2>3 DEF UploadRow, Columns
    <3>. HIDE DEF r
    <3>. QED
      BY <1>1, <1>3, <2>1, <3>1 DEF Busy, Stages, Early
  <2>4. ASSUME NEW b, Move(u, [up[u] EXCEPT !.pc = "look", !.seen = b, !.row = blobs[b]])
        PROVE  AllowanceInv'
    <3>. DEFINE r == [up[u] EXCEPT !.pc = "look", !.seen = b, !.row = blobs[b]]
    <3>1. Move(u, r) /\ Columns(r) = Columns(up[u])
      BY <1>4, <2>4 DEF UploadRow, Columns
    <3>. HIDE DEF r
    <3>. QED
      BY <1>1, <1>3, <2>1, <3>1 DEF Busy, Stages, Early
  <2>. QED
    BY <2>2, <2>3, <2>4
<1>9. ASSUME Reuse(u) PROVE AllowanceInv'
  <2>1. up[u].pc = "look" /\ UNCHANGED <<blobs, documents, images>>
    BY <1>9 DEF Reuse, refs
  <2>2. \E r : Move(u, r) /\ Columns(r) = Columns(up[u])
    <3>. DEFINE m  == blobs[up[u].seen].key # up[u].row.key
                pc == IF up[u].row.due # "no" \/ (up[u].kind = "art" /\ ~up[u].row.art)
                      THEN "revive" ELSE "link"
    <3>1. Move(u, [up[u] EXCEPT !.blob = up[u].seen, !.misled = m, !.pc = pc])
      BY <1>9 DEF Reuse
    <3>. HIDE DEF m, pc
    <3>. DEFINE r == [up[u] EXCEPT !.blob = up[u].seen, !.misled = m, !.pc = pc]
    <3>2. Move(u, r) /\ Columns(r) = Columns(up[u])
      BY <1>4, <3>1 DEF UploadRow, Columns
    <3>. HIDE DEF r
    <3>. QED
      BY <3>2
  <2>. QED
    BY <1>1, <1>3, <2>1, <2>2 DEF Busy, Stages, Early
<1>10. ASSUME Revive(u) PROVE AllowanceInv'
  <2>1. up[u].pc = "revive" /\ UNCHANGED <<documents, images>>
    BY <1>10 DEF Revive, refs
  <2>2. \A b \in Stored : blobs'[b].sha = blobs[b].sha
    <3>. DEFINE b == up[u].blob
    <3>1. CASE /\ b \in Stored
               /\ blobs' = [blobs EXCEPT ![b].due = "no", ![b].state = "READY",
                                         ![b].art = @ \/ up[u].kind = "art"]
      <4>1. blobs[b] \in BlobRow /\ b \in Keys
        BY <3>1 DEF StoreInv, RowsTyped, StoreTypeOK, Stored
      <4>2. blobs'[b].sha = blobs[b].sha /\ \A c \in Keys : c # b => blobs'[c] = blobs[c]
        BY <3>1, <4>1 DEF BlobRow, StoreInv, RowsTyped, StoreTypeOK
      <4>. QED
        BY <4>2 DEF Stored
    <3>. QED
      BY <1>10, <3>1 DEF Revive
  <2>3. ChargesLess
    BY <2>1, <2>2 DEF ChargesLess
  <2>4. ASSUME Move(u, [up[u] EXCEPT !.pc = "link"]) PROVE AllowanceInv'
    <3>. DEFINE r == [up[u] EXCEPT !.pc = "link"]
    <3>1. Move(u, r) /\ Columns(r) = Columns(up[u])
      BY <1>4, <2>4 DEF UploadRow, Columns
    <3>. HIDE DEF r
    <3>. QED
      BY <1>3, <2>1, <2>3, <3>1 DEF Busy, Stages, Early
  <2>. QED
    BY <1>2, <1>10, <2>3, <2>4 DEF Revive, Step
<1>11. ASSUME Adopt(u) PROVE AllowanceInv'
  <2>1. up[u].pc = "look" /\ UNCHANGED <<documents, images>>
    BY <1>11 DEF Adopt, refs
  <2>2. \A b \in Stored : blobs'[b].sha = blobs[b].sha
    <3>. DEFINE b == up[u].seen
    <3>1. CASE /\ b \in Stored
               /\ blobs' = [blobs EXCEPT ![b].key = u, ![b].state = "READY",
                                         ![b].due = "no", ![b].art = @ \/ up[u].kind = "art"]
      <4>1. blobs[b] \in BlobRow /\ b \in Keys
        BY <3>1 DEF StoreInv, RowsTyped, StoreTypeOK, Stored
      <4>2. blobs'[b].sha = blobs[b].sha /\ \A c \in Keys : c # b => blobs'[c] = blobs[c]
        BY <3>1, <4>1 DEF BlobRow, StoreInv, RowsTyped, StoreTypeOK
      <4>. QED
        BY <4>2 DEF Stored
    <3>. QED
      BY <1>11, <3>1 DEF Adopt
  <2>3. ChargesLess
    BY <2>1, <2>2 DEF ChargesLess
  <2>4. ASSUME NEW b, Move(u, [up[u] EXCEPT !.pc = "link", !.blob = b]) PROVE AllowanceInv'
    <3>. DEFINE r == [up[u] EXCEPT !.pc = "link", !.blob = b]
    <3>1. Move(u, r) /\ Columns(r) = Columns(up[u])
      BY <1>4, <2>4 DEF UploadRow, Columns
    <3>. HIDE DEF r
    <3>. QED
      BY <1>3, <2>1, <2>3, <3>1 DEF Busy, Stages, Early
  <2>. QED
    BY <1>2, <1>11, <2>3, <2>4 DEF Adopt
<1>12. ASSUME Create(u) PROVE AllowanceInv'
  <2>1. up[u].pc = "create" /\ UNCHANGED <<documents, images>>
    BY <1>12 DEF Create, refs
  <2>2. \A b \in Stored : blobs'[b].sha = blobs[b].sha
    <3>1. u \notin Stored
      BY <2>1 DEF StoreInv, UploadInv, FreshId, Early
    <3>2. \/ blobs' = blobs
          \/ blobs' = [blobs EXCEPT ![u] = [sha |-> up[u].sha, key |-> u, state |-> "READY",
                                           due |-> "no", art |-> up[u].kind = "art",
                                           old |-> FALSE]]
      BY <1>12 DEF Create
    <3>3. \A b \in Keys : b # u => blobs'[b] = blobs[b]
      BY <3>2 DEF StoreInv, RowsTyped, StoreTypeOK
    <3>. QED
      BY <3>1, <3>3 DEF Stored
  <2>3. ChargesLess
    BY <2>1, <2>2 DEF ChargesLess
  <2>4. PICK b : Move(u, [up[u] EXCEPT !.pc = "link", !.blob = b])
    BY <1>12 DEF Create
  <2>. DEFINE r == [up[u] EXCEPT !.pc = "link", !.blob = b]
  <2>5. Move(u, r) /\ Columns(r) = Columns(up[u])
    BY <1>4, <2>4 DEF UploadRow, Columns
  <2>. HIDE DEF r
  <2>. QED
    BY <1>3, <2>1, <2>3, <2>5 DEF Busy, Stages, Early
<1>13. ASSUME LinkFails(u) \/ Attach(u) \/ LinkArt(u) PROVE AllowanceInv'
  BY <1>1, <1>2, <1>13 DEF LinkFails, Attach, LinkArt, refs
<1>. QED
  BY <1>5, <1>6, <1>7, <1>8, <1>9, <1>10, <1>11, <1>12, <1>13

LEMMA UsedWithin ==
    ASSUME StoreInv, NEW o \in Owners, blobs' = blobs, Charged(o)' \subseteq Charged(o)
    PROVE  Used(o)' \in Nat /\ Used(o) \in Nat /\ Used(o)' <= Used(o)
<1>1. Used(o)' = Weight(blobs', Charged(o)')
  BY DEF Used
<1>2. /\ Used(o) = Weight(blobs, Charged(o)) /\ IsFiniteSet(Charged(o))
      /\ Charged(o) \subseteq Stored /\ Sized(blobs, Stored)
  BY ChargedIs DEF StoreInv
<1>3. Sized(blobs, Charged(o))
  BY <1>2 DEF Sized
<1>. QED
  BY <1>1, <1>2, <1>3, WeightGrows

\* The reference that an upload was let in for.
LEMMA ReferenceAllowed ==
    ASSUME StoreInv, AllowanceInv, NEW u \in Uploads, NEW o \in Owners, NEW b \in Stored,
           up[u].pc = "link", up[u].owner = o, up[u].blob = b, blobs' = blobs,
           Charged(o)' \subseteq Charged(o) \cup {b},
           \A p \in Owners : p # o => Charged(p)' \subseteq Charged(p),
           up'[u].pc \in {"attach", "done"}, \A v \in Uploads : v # u => up'[v] = up[v]
    PROVE  AllowanceInv'
<1>1. /\ Used(o)' \in Nat /\ Used(o) \in Nat /\ Size[blobs[b].sha] \in Nat
      /\ Used(o)' <= Used(o) + Size[blobs[b].sha]
  BY UsedMore
<1>2. \A p \in Owners : p # o => Used(p)' \in Nat /\ Used(p) \in Nat /\ Used(p)' <= Used(p)
  BY UsedWithin
<1>3. /\ Used(o) <= up[u].used /\ up[u].used <= MaxPerUser
      /\ Size[up[u].sha] <= MaxPerUser - up[u].used
  <2>1. o # Null
    BY StoreAssumption
  <2>. QED
    BY <2>1 DEF AllowanceInv, Allowed, Busy, Stages, Early
<1>4. blobs[b].sha = up[u].sha
  BY DEF StoreInv, UploadInv, UploadSound, WithBytes
<1>5. MaxPerUser \in Nat /\ up[u].used \in Nat
  BY StoreAssumption DEF StoreInv, RowsTyped, UploadRow
<1>6. Used(o)' <= MaxPerUser
  BY <1>1, <1>3, <1>4, <1>5
<1>7. QuotaKept'
  BY <1>2, <1>5, <1>6 DEF AllowanceInv, QuotaKept
<1>8. ASSUME NEW v \in Uploads PROVE Allowed(v)'
  <2>1. CASE v = u
    BY <2>1 DEF Allowed, Busy
  <2>2. CASE v # u /\ up[v].owner = o
    <3>1. up[v].pc \notin Busy
      <4>1. up[u].pc \in Busy /\ o # Null
        BY StoreAssumption DEF Busy, Stages, Early
      <4>. QED
        BY <2>2, <4>1 DEF StoreInv, UploadInv, AtWork, First
    <3>. QED
      BY <2>2, <3>1 DEF Allowed
  <2>3. CASE v # u /\ up[v].owner # o
    <3>1. PICK p \in Owners \cup {Null} : p = up[v].owner /\ up'[v] = up[v]
      BY <2>3 DEF StoreInv, RowsTyped, UploadRow
    <3>2. CASE p = Null
      BY <3>1, <3>2 DEF Allowed
    <3>3. CASE p # Null
      <4>1. Used(p)' \in Nat /\ Used(p) \in Nat /\ Used(p)' <= Used(p)
        BY <1>2, <2>3, <3>1, <3>3
      <4>2. up[v].pc \in Busy \ {"attach"} => Used(p) <= up[v].used /\ up[v].used <= MaxPerUser
        BY <3>1, <3>3 DEF AllowanceInv, Allowed
      <4>3. up[v].pc \in Busy \ {"write", "attach"} => Size[up[v].sha] <= MaxPerUser - up[v].used
        BY <3>1, <3>3 DEF AllowanceInv, Allowed
      <4>4. up[v].used \in Nat
        BY DEF StoreInv, RowsTyped, UploadRow
      <4>5. up[v].pc \in Busy \ {"attach"} => Used(p)' <= up[v].used
        BY <4>1, <4>2, <4>4
      <4>. QED
        BY <3>1, <3>3, <4>2, <4>3, <4>5 DEF Allowed
    <3>. QED
      BY <3>1, <3>2, <3>3
  <2>. QED
    BY <2>1, <2>2, <2>3
<1>. QED
  BY <1>7, <1>8 DEF AllowanceInv

LEMMA DocumentAllowed ==
    ASSUME StoreInv, AllowanceInv, NEW u \in Uploads, LinkDocument(u)
    PROVE  AllowanceInv'
<1>1. /\ up[u].pc = "link" /\ up[u].kind = "document" /\ up[u].blob \in Stored
      /\ UNCHANGED <<blobs, images>> /\ Step(u, "attach")
      /\ documents' = [documents EXCEPT ![u] = [blob |-> up[u].blob, owner |-> up[u].owner,
                                                due |-> "no"]]
  BY DEF LinkDocument, Referred
<1>2. PICK o \in Owners, b \in Stored : o = up[u].owner /\ b = up[u].blob
  BY <1>1 DEF StoreInv, RowsTyped, UploadRow, UploadInv, UploadSound
<1>3. /\ documents'[u].blob = b /\ documents'[u].owner = o
      /\ \A a \in AssetIds : a # u => documents'[a] = documents[a]
  <2>1. u \in AssetIds
    BY DEF AssetIds, Keys
  <2>. QED
    BY <1>1, <1>2, <2>1 DEF StoreInv, RowsTyped, StoreTypeOK
<1>4. Charged(o)' \subseteq Charged(o) \cup {b}
  BY <1>1, <1>3 DEF Charged, AssetsOf, Stored
<1>5. \A p \in Owners : p # o => Charged(p)' \subseteq Charged(p)
  BY <1>1, <1>3 DEF Charged, AssetsOf, Stored
<1>6. up'[u].pc = "attach" /\ \A v \in Uploads : v # u => up'[v] = up[v]
  <2>. DEFINE r == [up[u] EXCEPT !.pc = "attach"]
  <2>1. r.pc = "attach" /\ Move(u, r)
    BY <1>1 DEF Step, StoreInv, RowsTyped, UploadRow
  <2>. HIDE DEF r
  <2>. QED
    BY <2>1, OthersContinue
<1>. QED
  BY <1>1, <1>2, <1>4, <1>5, <1>6, ReferenceAllowed

LEMMA ImageAllowed ==
    ASSUME StoreInv, AllowanceInv, NEW u \in Uploads, LinkImage(u)
    PROVE  AllowanceInv'
<1>1. /\ up[u].pc = "link" /\ up[u].kind = "image" /\ up[u].blob \in Stored
      /\ UNCHANGED <<blobs, documents>> /\ Answer(u)
      /\ images' = [images EXCEPT ![up[u].owner] = up[u].blob]
  BY DEF LinkImage, Referred
<1>2. PICK o \in Owners, b \in Stored : o = up[u].owner /\ b = up[u].blob
  BY <1>1 DEF StoreInv, RowsTyped, UploadRow, UploadInv, UploadSound
<1>3. images'[o] = b /\ \A p \in Owners : p # o => images'[p] = images[p]
  BY <1>1, <1>2 DEF StoreInv, RowsTyped, StoreTypeOK
<1>4. Charged(o)' \subseteq Charged(o) \cup {b}
  BY <1>1, <1>3 DEF Charged, AssetsOf, Stored
<1>5. \A p \in Owners : p # o => Charged(p)' \subseteq Charged(p)
  BY <1>1, <1>3 DEF Charged, AssetsOf, Stored
<1>6. up[u].pc \in Busy
  BY <1>1 DEF Busy, Stages, Early
<1>7. up'[u].pc = "done" /\ \A v \in Uploads : v # u => up'[v] = up[v]
  BY <1>1, <1>6, AnsweredIs
<1>. QED
  BY <1>1, <1>2, <1>4, <1>5, <1>7, ReferenceAllowed

\* What collectors and boards do charges nobody.
LEMMA OthersAllowance ==
    ASSUME StoreInv, RowsTyped', AllowanceInv
    PROVE  /\ Job \/ Board \/ Hour \/ Elapse => AllowanceInv'
           /\ \A p \in Collectors : Discard(p) \/ Collect(p) => AllowanceInv'
<1>1. ASSUME UNCHANGED <<blobs, documents, images>> PROVE ChargesLess
  BY <1>1 DEF ChargesLess
<1>2. ASSUME up' = up, ChargesLess PROVE AllowanceInv'
  BY <1>2, AllowanceStays DEF Continues
<1>3. ASSUME NEW k, NEW counted, Remove(k, counted), UNCHANGED <<blobs, documents, images>>
      PROVE  AllowanceInv'
  <2>1. ASSUME NEW v \in Uploads PROVE Continues(v)
    <3>1. up[v] \in UploadRow
      BY DEF StoreInv, RowsTyped
    <3>2. CASE v \in Relying(k)
      <4>. DEFINE r == [up[v] EXCEPT !.misled = TRUE]
      <4>1. r.owner = up[v].owner /\ r.used = up[v].used /\ r.sha = up[v].sha /\ r.pc = up[v].pc
        BY <3>1 DEF UploadRow
      <4>2. up'[v] = r
        BY <1>3, <3>2 DEF Remove
      <4>. HIDE DEF r
      <4>. QED
        BY <4>1, <4>2 DEF Continues
    <3>3. CASE v \notin Relying(k)
      <4>1. up'[v] = up[v]
        BY <1>3, <3>3 DEF Remove
      <4>. QED
        BY <4>1 DEF Continues
    <3>. QED
      BY <3>2, <3>3
  <2>. QED
    BY <1>1, <1>3, <2>1, AllowanceStays
<1>4. ASSUME NEW b, Erase(b), UNCHANGED <<documents, images>> PROVE ChargesLess
  <2>1. \A c \in Stored : blobs'[c] \in {blobs[c], NoBlob}
    BY <1>4 DEF Erase, StoreInv, RowsTyped, StoreTypeOK, Stored
  <2>. QED
    BY <1>4, <2>1 DEF ChargesLess
<1>5. ASSUME NEW b \in Stored, NEW r, r.sha = blobs[b].sha, blobs' = [blobs EXCEPT ![b] = r],
             UNCHANGED <<documents, images>>
      PROVE  ChargesLess
  <2>1. \A c \in Stored : blobs'[c].sha = blobs[c].sha
    BY <1>5 DEF StoreInv, RowsTyped, StoreTypeOK, Stored
  <2>. QED
    BY <1>5, <2>1 DEF ChargesLess
<1>6. \A b \in Stored : b \in Keys /\ blobs[b] \in BlobRow
  BY DEF StoreInv, RowsTyped, StoreTypeOK, Stored
<1>7. ASSUME Job PROVE AllowanceInv'
  <2>1. CASE SweepBegin \/ SweepLink \/ CountRefs \/ SweepPreviews \/ SweepArt
    BY <1>1, <1>2, <2>1 DEF SweepBegin, SweepLink, CountRefs, SweepPreviews, SweepArt, refs
  <2>2. ASSUME MarkOrphans PROVE AllowanceInv'
    <3>1. up' = up /\ images' = images
      BY <2>2 DEF MarkOrphans
    <3>2. ASSUME NEW a \in AssetIds
          PROVE  documents'[a].blob = documents[a].blob /\ documents'[a].owner = documents[a].owner
      <4>1. \/ documents'[a] = documents[a]
            \/ documents'[a] = [documents[a] EXCEPT !.due = "grace"] /\ documents[a] # NoAsset
        BY <2>2 DEF MarkOrphans, Unreached
      <4>2. documents[a] \in AssetRow \cup {NoAsset}
        BY DEF StoreInv, RowsTyped, StoreTypeOK
      <4>. QED
        BY <4>1, <4>2 DEF AssetRow
    <3>3. ASSUME NEW b \in Stored PROVE blobs'[b].sha = blobs[b].sha
      <4>1. blobs'[b] \in {blobs[b], [blobs[b] EXCEPT !.due = "grace"]}
        BY <1>6, <2>2 DEF MarkOrphans
      <4>. QED
        BY <1>6, <4>1 DEF BlobRow
    <3>4. ChargesLess
      BY <3>1, <3>2, <3>3 DEF ChargesLess
    <3>. QED
      BY <1>2, <3>1, <3>4
  <2>3. ASSUME DeleteExpired PROVE AllowanceInv'
    <3>1. UNCHANGED <<up, blobs, images>>
      BY <2>3 DEF DeleteExpired
    <3>2. \A a \in AssetIds : documents'[a] \in {documents[a], NoAsset}
      BY <2>3 DEF DeleteExpired
    <3>3. ChargesLess
      BY <3>1, <3>2 DEF ChargesLess
    <3>. QED
      BY <1>2, <3>1, <3>3
  <2>4. ASSUME RemoveFile PROVE AllowanceInv'
    <3>1. UNCHANGED <<blobs, documents, images>>
      BY <2>4 DEF RemoveFile, refs
    <3>2. up' = up \/ Remove(blobs[sweep.cur].key, Counted(sweep.cur))
      BY <2>4 DEF RemoveFile
    <3>. QED
      BY <1>1, <1>2, <1>3, <3>1, <3>2
  <2>5. ASSUME DropRow PROVE AllowanceInv'
    <3>1. UNCHANGED <<up, documents, images>> /\ (blobs' = blobs \/ Erase(sweep.cur))
      BY <2>5 DEF DropRow
    <3>. QED
      BY <1>1, <1>2, <1>4, <3>1
  <2>. QED
    BY <1>7, <2>1, <2>2, <2>3, <2>4, <2>5 DEF Job
<1>8. ASSUME Board PROVE AllowanceInv'
  <2>1. UNCHANGED <<blobs, documents, up>>
    BY <1>8 DEF Board, work
  <2>2. \A o \in Owners : images'[o] \in {images[o], Null}
    <3>1. images' = images \/ \E o \in Owners : images' = [images EXCEPT ![o] = Null]
      BY <1>8 DEF Board
    <3>. QED
      BY <3>1 DEF StoreInv, RowsTyped, StoreTypeOK
  <2>3. ChargesLess
    BY <2>1, <2>2 DEF ChargesLess
  <2>. QED
    BY <1>2, <2>1, <2>3
<1>9. ASSUME Hour PROVE AllowanceInv'
  BY <1>1, <1>2, <1>9 DEF Hour, refs
<1>10. ASSUME Elapse PROVE AllowanceInv'
  <2>1. up' = up /\ images' = images
    BY <1>10 DEF Elapse, work
  <2>2. ASSUME NEW b \in Stored, documents' = documents,
               blobs' = [blobs EXCEPT ![b].old = TRUE,
                                      ![b].due = IF @ = "grace" THEN "past" ELSE @]
        PROVE  ChargesLess
    <3>. DEFINE r == [blobs[b] EXCEPT !.old = TRUE, !.due = IF @ = "grace" THEN "past" ELSE @]
    <3>1. r.sha = blobs[b].sha
      BY <1>6 DEF BlobRow
    <3>2. blobs' = [blobs EXCEPT ![b] = r]
      BY <1>6, <2>2 DEF StoreInv, RowsTyped, StoreTypeOK
    <3>. HIDE DEF r
    <3>. QED
      BY <1>5, <2>1, <2>2, <3>1, <3>2
  <2>3. ASSUME NEW a \in AssetIds, blobs' = blobs, documents[a].due = "grace",
               documents' = [documents EXCEPT ![a].due = "past"]
        PROVE  ChargesLess
    <3>1. documents[a] \in AssetRow
      BY <2>3 DEF NoAsset, StoreInv, RowsTyped, StoreTypeOK
    <3>2. \A c \in AssetIds : /\ documents'[c].blob = documents[c].blob
                              /\ documents'[c].owner = documents[c].owner
      BY <2>3, <3>1 DEF AssetRow, StoreInv, RowsTyped, StoreTypeOK
    <3>. QED
      BY <2>1, <2>3, <3>2 DEF ChargesLess
  <2>4. ChargesLess
    BY <1>1, <1>10, <2>1, <2>2, <2>3 DEF Elapse
  <2>. QED
    BY <1>2, <2>1, <2>4
<1>11. ASSUME NEW p \in Collectors, Discard(p) PROVE AllowanceInv'
  BY <1>1, <1>2, <1>11 DEF Discard
<1>12. ASSUME NEW p \in Collectors, Collect(p) PROVE AllowanceInv'
  <2>. DEFINE b == gc[p].blob
  <2>1. ASSUME Unlink(p) PROVE AllowanceInv'
    BY <1>3, <2>1 DEF Unlink, refs
  <2>2. ASSUME EraseRow(p) PROVE AllowanceInv'
    <3>1. UNCHANGED <<up, documents, images>> /\ (blobs' = blobs \/ Erase(b))
      BY <2>2 DEF EraseRow
    <3>. QED
      BY <1>1, <1>2, <1>4, <3>1
  <2>3. ASSUME Weigh(p) \/ Claim(p) \/ Recount(p) PROVE AllowanceInv'
    <3>1. UNCHANGED <<up, documents, images>>
      BY <2>3 DEF Weigh, Claim, Recount, refs
    <3>2. \/ blobs' = blobs
          \/ b \in Stored /\ blobs' = [blobs EXCEPT ![b].state = "READY", ![b].due = "grace"]
          \/ blobs[b].state = "READY" /\ blobs' = [blobs EXCEPT ![b].state = "DELETING"]
          \/ /\ Adopted(b)
             /\ blobs' = [blobs EXCEPT ![b].state = IF @ = "DELETING" THEN "READY" ELSE @]
      BY <2>3 DEF Weigh, Claim, Recount
    <3>3. \A c \in Stored : blobs'[c].sha = blobs[c].sha
      <4>1. ASSUME blobs' = [blobs EXCEPT ![b].state = "DELETING"]
            PROVE  \A c \in Stored : blobs'[c].sha = blobs[c].sha
        BY <1>6, <4>1 DEF BlobRow, StoreInv, RowsTyped, StoreTypeOK
      <4>2. ASSUME blobs' = [blobs EXCEPT ![b].state = IF @ = "DELETING" THEN "READY" ELSE @]
            PROVE  \A c \in Stored : blobs'[c].sha = blobs[c].sha
        BY <1>6, <4>2 DEF BlobRow, StoreInv, RowsTyped, StoreTypeOK
      <4>3. ASSUME b \in Stored,
                   blobs' = [blobs EXCEPT ![b].state = "READY", ![b].due = "grace"]
            PROVE  \A c \in Stored : blobs'[c].sha = blobs[c].sha
        BY <1>6, <4>3 DEF BlobRow, StoreInv, RowsTyped, StoreTypeOK
      <4>. QED
        BY <3>2, <4>1, <4>2, <4>3
    <3>4. ChargesLess
      BY <3>1, <3>3 DEF ChargesLess
    <3>. QED
      BY <1>2, <3>1, <3>4
  <2>. QED
    BY <1>12, <2>1, <2>2, <2>3 DEF Collect
<1>. QED
  BY <1>7, <1>8, <1>9, <1>10, <1>11, <1>12

-----------------------------------------------------------------------------
(* What the store promises.                                                *)

LEMMA StoreStep == StoreInv /\ [StoreNext]_storeVars => StoreInv'
<1>. SUFFICES ASSUME StoreInv, [StoreNext]_storeVars PROVE StoreInv'
  OBVIOUS
<1>1. ASSUME NEW u \in Uploads, UploadStep(u) PROVE StoreInv'
  <2>1. Used(up[u].owner) \in Nat
    BY ChargedIs DEF StoreInv
  <2>. QED
    BY <1>1, <2>1, AdmitKeeps, ReadUsageKeeps, WriteFileKeeps, FindKeeps, ReuseKeeps,
       ReviveKeeps, AdoptKeeps, CreateKeeps, LinkFailsKeeps, LinkDocumentKeeps, AttachKeeps,
       LinkImageKeeps, LinkArtKeeps DEF UploadStep
<1>2. ASSUME Job PROVE StoreInv'
  BY <1>2, SweepBeginKeeps, SweepLinkKeeps, MarkOrphansKeeps, DeleteExpiredKeeps,
     CountRefsKeeps, RemoveFileKeeps, DropRowKeeps, SweepPreviewsKeeps, SweepArtKeeps DEF Job
<1>3. ASSUME NEW p \in Collectors, Discard(p) \/ Collect(p) PROVE StoreInv'
  BY <1>3, DiscardKeeps, WeighKeeps, ClaimKeeps, RecountKeeps, UnlinkKeeps, EraseRowKeeps
     DEF Collect
<1>4. ASSUME Board \/ Hour \/ Elapse PROVE StoreInv'
  BY <1>4, BoardKeeps, HourKeeps, ElapseKeeps
<1>5. CASE UNCHANGED storeVars
  <2>1. /\ UNCHANGED <<files, blobs, documents, places, archived, images, cards>>
        /\ UNCHANGED <<up, tails, sweep, gc, pulled>>
    BY <1>5 DEF storeVars, refs, work
  <2>2. /\ places' \in [AssetIds -> {"none", "fresh", "stale", "ACTIVE"}]
        /\ sweep' \in SweepRow /\ sweep'.blobs \subseteq sweep.blobs /\ sweep'.cur = sweep.cur
        /\ SweepSound'
    BY <2>1 DEF StoreInv, SweepSound, RowsTyped, StoreTypeOK
  <2>3. SameRows
    BY <2>1 DEF SameRows, Stored
  <2>4. images' \in [Owners -> Keys \cup {Null}] /\ archived' \subseteq AssetIds
        /\ documents' \in [AssetIds -> AssetRow \cup {NoAsset}]
        /\ blobs' \in [Keys -> BlobRow \cup {NoBlob}]
    BY <2>1 DEF StoreInv, RowsTyped, StoreTypeOK
  <2>5. \A c \in Stored : Young(c) => /\ ~blobs'[c].old /\ blobs'[c].due # "past"
                                      /\ c \notin sweep'.blobs
                                      /\ \A a \in AssetsOf(c)' : documents'[a].due # "past"
    BY <2>1 DEF Young, AssetsOf
  <2>6. \A a \in AssetIds : \/ documents'[a] = NoAsset
                            \/ documents'[a].blob = documents[a].blob /\ documents[a] # NoAsset
    BY <2>1
  <2>. QED
    BY <2>1, <2>2, <2>3, <2>4, <2>5, <2>6, ReferencesGo
<1>. QED
  BY <1>1, <1>2, <1>3, <1>4, <1>5 DEF StoreNext

\* Only the older blob is there at the start, and it is within every allowance.
LEMMA StoreStartsWith ==
    ASSUME StoreInit
    PROVE  Stored \subseteq {Older} /\ (Older \in Stored => Size[blobs[Older].sha] <= MaxPerUser)
<1>1. CASE NoBlobs
  BY <1>1 DEF NoBlobs, Stored
<1>2. ASSUME NEW c, NEW art, NEW doc, NEW o, NEW drawn, NEW shown,
             OneBlob(c, art, doc, o, drawn, shown)
      PROVE  Stored \subseteq {Older} /\ (Older \in Stored => Size[blobs[Older].sha] <= MaxPerUser)
  <2>1. \A b \in Keys : b # Older => blobs[b] = NoBlob
    BY <1>2 DEF OneBlob
  <2>2. Older \in Keys => blobs[Older].sha = c
    BY <1>2 DEF OneBlob
  <2>3. Size[c] <= MaxPerUser
    BY <1>2 DEF OneBlob
  <2>. QED
    BY <2>1, <2>2, <2>3 DEF Stored
<1>. QED
  BY <1>1, <1>2 DEF StoreInit

LEMMA AllowanceStarts == StoreInit => AllowanceInv
<1>. SUFFICES ASSUME StoreInit PROVE AllowanceInv
  OBVIOUS
<1>0. StoreInv
  BY StoreStarts
<1>1. \A u \in Uploads : up[u].pc = "new"
  BY DEF StoreInit, Started, NoUpload
<1>2. ASSUME NEW o \in Owners PROVE Used(o) <= MaxPerUser
  <2>1. /\ Used(o) = Weight(blobs, Charged(o)) /\ IsFiniteSet(Charged(o))
        /\ Charged(o) \subseteq Stored /\ Sized(blobs, Stored)
    BY <1>0, ChargedIs DEF StoreInv
  <2>2. Weight(blobs, {}) = 0
    <3>. DEFINE g == [T \in SUBSET {} |-> 0]
    <3>1. Sums(g, [b \in {} |-> Size[blobs[b].sha]], {})
      BY DEF Sums
    <3>2. g[{}] = 0
      OBVIOUS
    <3>. HIDE DEF g
    <3>. QED
      BY <3>1, <3>2, WeightIs, FS_EmptySet
  <2>3. MaxPerUser \in Nat
    BY StoreAssumption
  <2>4. CASE Charged(o) = {}
    BY <2>1, <2>2, <2>3, <2>4
  <2>5. CASE Charged(o) # {}
    <3>1. Charged(o) = {Older} /\ Older \in Stored
      BY <2>1, <2>5, StoreStartsWith
    <3>2. Size[blobs[Older].sha] <= MaxPerUser /\ Size[blobs[Older].sha] \in Nat
      BY <2>1, <3>1, StoreStartsWith DEF Sized
    <3>3. Weight(blobs, {Older}) <= Weight(blobs, {}) + Size[blobs[Older].sha]
      <4>1. IsFiniteSet({Older}) /\ Sized(blobs, {Older})
        BY <2>1, <3>1 DEF Sized
      <4>2. {} \cup {Older} = {Older} /\ {} \in SUBSET {Older} /\ Older \in {Older}
        OBVIOUS
      <4>. QED
        BY <4>1, <4>2, WeightGrows
    <3>4. Used(o) \in Nat
      BY <1>0, ChargedIs DEF StoreInv
    <3>. QED
      BY <2>1, <2>2, <2>3, <3>1, <3>2, <3>3, <3>4
  <2>. QED
    BY <2>4, <2>5
<1>. QED
  BY <1>1, <1>2 DEF AllowanceInv, QuotaKept, Allowed, Busy

LEMMA AllowanceStep ==
    StoreInv /\ AllowanceInv /\ [StoreNext]_storeVars => AllowanceInv'
<1>. SUFFICES ASSUME StoreInv, AllowanceInv, [StoreNext]_storeVars PROVE AllowanceInv'
  OBVIOUS
<1>1. RowsTyped'
  BY StoreStep DEF StoreInv
<1>2. ASSUME NEW u \in Uploads, UploadStep(u) PROVE AllowanceInv'
  <2>1. CASE LinkDocument(u)
    BY <1>1, <2>1, DocumentAllowed
  <2>2. CASE LinkImage(u)
    BY <1>1, <2>2, ImageAllowed
  <2>3. CASE \/ Admit(u) \/ ReadUsage(u) \/ WriteFile(u) \/ Find(u) \/ Reuse(u) \/ Revive(u)
             \/ Adopt(u) \/ Create(u) \/ LinkFails(u) \/ Attach(u) \/ LinkArt(u)
    BY <1>1, <2>3, UploadAllowance
  <2>. QED
    BY <1>2, <2>1, <2>2, <2>3 DEF UploadStep
<1>3. CASE UNCHANGED storeVars
  <2>1. UNCHANGED <<blobs, documents, images, up>>
    BY <1>3 DEF storeVars, refs, work
  <2>2. ChargesLess /\ \A v \in Uploads : Continues(v)
    BY <2>1 DEF ChargesLess, Continues
  <2>. QED
    BY <1>1, <2>2, AllowanceStays
<1>. QED
  BY <1>1, <1>2, <1>3, OthersAllowance DEF StoreNext

\* The inductive invariant: what each upload, each collector and the job know, and
\* what each upload is allowed (assetService.ts:173-190, 559-564).
LEMMA StoreInvariant == StoreSpec => [](StoreInv /\ AllowanceInv)
<1>1. StoreInit => StoreInv /\ AllowanceInv
  BY StoreStarts, AllowanceStarts
<1>2. StoreInv /\ AllowanceInv /\ [StoreNext]_storeVars => StoreInv' /\ AllowanceInv'
  BY StoreStep, AllowanceStep
<1>. QED
  BY <1>1, <1>2, PTL DEF StoreSpec

\* The rows agree with the files and with the allowance of their owners, for any
\* owners, uploads and previews (assetService.ts:173-177, 559-564).
THEOREM RowsSound == StoreSpec => []StoreSound
<1>1. StoreInv /\ AllowanceInv => StoreSound
  BY DEF StoreInv, RowsTyped, AllowanceInv, StoreSound
<1>. QED
  BY <1>1, StoreInvariant, PTL

\* What an upload refers to can be read, unless the file went after the upload had
\* looked, or the row has got another one since it was found
\* (assetService.ts:105-122).
THEOREM UploadsRead == StoreSpec => UploadsReadable
<1>. DEFINE Readable == \A u \in Uploads :
                           up[u].pc = "link" /\ up'[u].pc # "link" /\ up[u].blob \in Stored
                               => up[u].misled \/ blobs[up[u].blob].key \in files
<1>1. StoreInv => Readable
  BY DEF StoreInv, UploadInv, FileThere
<1>. QED
  BY <1>1, StoreInvariant, PTL DEF StoreSpec, UploadsReadable

=============================================================================
