--------------------------- MODULE EditorSyncProofs ---------------------------
(***************************************************************************)
(* Proofs about EditorSync, for any number of editors, elements, edits and *)
(* mishaps: what an editor takes to be shared is shown everywhere or is    *)
(* on its way there; a board at rest is the same on every screen and in    *)
(* the stored drawing; and another editor's update never takes an element  *)
(* back.                                                                   *)
(*                                                                         *)
(* The copies of one element form a total order, and everything that waits *)
(* somewhere waits in the order it was made in: saved, queued, due,        *)
(* pending, trailing, shown.  LineInv says so.  SpreadInv follows a copy   *)
(* to the other screens, KeptInv to the stored drawing.  All three speak   *)
(* of the spared elements: no named loss has touched them, and no flush    *)
(* has shown them under an older label.                                    *)
(***************************************************************************)
EXTENDS EditorSync, SequenceTheorems, TLAPS

USE DEF Spared

-----------------------------------------------------------------------------
(* The inductive invariant *)

\* The values that travel and wait.
Update == UNION {[D -> Elem] : D \in SUBSET Ids}
Packet == [els : Update, live : BOOLEAN]
Packets == Seq(Packet)
Outgoing == [trail : Scene \union {None}, pending : Scene \union {None},
             lane : {"idle", "ready", "sent"}, packet : Update]
SaveJob == [pc : {"idle", "put", "got"}, els : Scene \union {None}, base : Nat,
            attempt : 0..1, got : Row \union {None}]

\* Every variable in full: TypeOK leaves open what packets, lanes and saves hold.
Typed ==
    /\ scene \in [Editors -> Scene] /\ synced \in [Editors -> Scene]
    /\ echo \subseteq Editors /\ joined \subseteq Editors
    /\ out \in [Editors -> Outgoing]
    /\ due \in [Editors -> Scene \union {None}]
    /\ saves \in [Editors -> [queue : Seq(Scene), job : SaveJob]]
    /\ \A e \in Editors : /\ saves[e].job.pc # "idle" => saves[e].job.els # None
                          /\ saves[e].job.pc = "got" => saves[e].job.got # None
    /\ ver \in [Editors -> Nat]
    /\ atServer \in [Editors -> Packets]
    /\ arrived \in [Editors -> Update]
    /\ row \in Row
    /\ made \subseteq Plan /\ mishaps \in 0..MaxMishaps
    /\ stray \subseteq Ids /\ aged \subseteq Ids

\* x is y or newer.
AtLeast(x, y) == ~Newer(y, x)

\* A save of the editor's is under way.
Active(e) == saves[e].job.pc # "idle"

\* Nothing of an editor's that is on its way, or taken to be shared, is newer than
\* what the editor shows.
Sent(e, i) ==
    /\ AtLeast(scene[e][i], synced[e][i])
    /\ i \in DOMAIN out[e].packet => AtLeast(scene[e][i], out[e].packet[i])
    /\ \A k \in DOMAIN atServer[e] :
         i \in DOMAIN atServer[e][k].els => AtLeast(scene[e][i], atServer[e][k].els[i])

\* Only the last packet at the server can still be answered; it is the one sent.
Answerable(e) ==
    /\ out[e].lane = "idle" => DOMAIN out[e].packet = {}
    /\ \A k \in DOMAIN atServer[e] : atServer[e][k].live =>
         /\ k = Len(atServer[e]) /\ out[e].lane = "sent"
         /\ atServer[e][k].els = out[e].packet

\* Of the element i, x is no older than any snapshot e is saving or has queued, ...
SavesBehind(e, i, x) ==
    /\ \A k \in DOMAIN saves[e].queue : AtLeast(x, saves[e].queue[k][i])
    /\ Active(e) => AtLeast(x, saves[e].job.els[i])

\* ... nor than those the debounce and the lane hold.
Behind(e, i, x) ==
    /\ SavesBehind(e, i, x)
    /\ due[e] # None => AtLeast(x, due[e][i])
    /\ out[e].pending # None => AtLeast(x, out[e].pending[i])

\* Snapshots wait in the order they were taken in.
Ordered(e, i) ==
    /\ Behind(e, i, scene[e][i])
    /\ out[e].trail # None =>
         AtLeast(scene[e][i], out[e].trail[i]) /\ Behind(e, i, out[e].trail[i])
    /\ due[e] # None => SavesBehind(e, i, due[e][i])
    /\ \A k, l \in DOMAIN saves[e].queue :
         k < l => AtLeast(saves[e].queue[l][i], saves[e].queue[k][i])
    /\ Active(e) => \A k \in DOMAIN saves[e].queue :
         AtLeast(saves[e].queue[k][i], saves[e].job.els[i])

\* No version is ahead of the row's, and a version tells the elements.
Versions(e) ==
    /\ ~Active(e) => saves[e].queue = << >>
    /\ ver[e] <= row.version
    /\ Active(e) => saves[e].job.base <= row.version
    /\ saves[e].job.got # None =>
         /\ saves[e].job.got.version <= row.version
         /\ saves[e].job.got.version = row.version => saves[e].job.got = row

\* What would be saved under the row's version is not older than the row.
Current(e, i) ==
    /\ ver[e] = row.version =>
         /\ AtLeast(scene[e][i], row.els[i])
         /\ out[e].trail # None => AtLeast(out[e].trail[i], row.els[i])
         /\ due[e] # None => AtLeast(due[e][i], row.els[i])
         /\ \A k \in DOMAIN saves[e].queue : AtLeast(saves[e].queue[k][i], row.els[i])
    /\ Active(e) /\ saves[e].job.base = row.version =>
         AtLeast(saves[e].job.els[i], row.els[i])

\* f shows the copy x of i, or has it on its way, or something newer.
Has(f, i, x) ==
    \/ AtLeast(scene[f][i], x)
    \/ i \in DOMAIN arrived[f] /\ AtLeast(arrived[f][i], x)

\* The same, or e is still sending it.
Reaches(e, f, i, x) ==
    \/ Has(f, i, x)
    \/ i \in DOMAIN out[e].packet /\ AtLeast(out[e].packet[i], x)

\* What e has waiting for it, takes to be shared, or shows and need not report
\* any more, reaches f.
Spread(e, f, i) ==
    /\ i \in DOMAIN arrived[e] => Has(f, i, arrived[e][i])
    /\ Reaches(e, f, i, synced[e][i])
    /\ \/ e \in echo
       \/ out[e].trail # None /\ out[e].trail[i] = scene[e][i]
       \/ out[e].pending # None /\ out[e].pending[i] = scene[e][i]
       \/ Reaches(e, f, i, scene[e][i])

\* The stored drawing has the copy x of i or something newer, or will have.
SavesIt(g, i, x) ==
    \/ due[g] # None /\ AtLeast(due[g][i], x)
    \/ \E k \in DOMAIN saves[g].queue : AtLeast(saves[g].queue[k][i], x)
    \/ Active(g) /\ AtLeast(saves[g].job.els[i], x)

\* Some editor saves it, or it is stored.
Saved(i, x) ==
    \/ AtLeast(row.els[i], x)
    \/ \E g \in Editors : SavesIt(g, i, x)

\* Whatever e takes to be shared, sends, waits for, or shows and need not report any
\* more, the stored drawing has or will have.
Kept(e, i) ==
    /\ Saved(i, synced[e][i])
    /\ i \in DOMAIN out[e].packet => Saved(i, out[e].packet[i])
    /\ out[e].pending # None => Saved(i, out[e].pending[i])
    /\ \A k \in DOMAIN atServer[e] :
         i \in DOMAIN atServer[e][k].els => Saved(i, atServer[e][k].els[i])
    /\ i \in DOMAIN arrived[e] => Saved(i, arrived[e][i])
    /\ \/ e \in echo
       \/ out[e].trail # None /\ out[e].trail[i] = scene[e][i]
       \/ Saved(i, scene[e][i])

\* The stored drawing is ahead of some screen, but never of all.
RowShown(i) == Editors # {} => \E g \in Editors : AtLeast(scene[g][i], row.els[i])

\* Everything an editor holds is in the order it was made in, and up to date with
\* the version it is held under.
LineInv == \A e \in Editors :
    /\ Answerable(e) /\ Versions(e)
    /\ \A i \in Spared : Sent(e, i) /\ Ordered(e, i) /\ Current(e, i)

\* Copies reach the other screens.
SpreadInv == \A e, f \in Editors : \A i \in Spared : Spread(e, f, i)

\* Copies reach the stored drawing, and only those that were shown.
KeptInv == \A i \in Spared : RowShown(i) /\ \A e \in Editors : Kept(e, i)

-----------------------------------------------------------------------------
(* Copies of one element, and the operators on scenes and updates *)

\* Copies are totally ordered: by version and, among equal versions, by rank.
LEMMA Order ==
    /\ \A x \in Elem : AtLeast(x, x)
    /\ \A x, y \in Elem : AtLeast(x, y) \/ AtLeast(y, x)
    /\ \A x, y \in Elem : AtLeast(x, y) /\ AtLeast(y, x) => x = y
    /\ \A x, y, z \in Elem : AtLeast(x, y) /\ AtLeast(y, z) => AtLeast(x, z)
    /\ \A x, y \in Elem : Newer(x, y) => AtLeast(x, y)
BY DEF AtLeast, Newer, Elem

\* Updates are closed under Over, and an update over a scene is a scene.
LEMMA Updates ==
    /\ \A u \in Update : DOMAIN u \subseteq Ids /\ \A i \in DOMAIN u : u[i] \in Elem
    /\ \A D \in SUBSET Ids : [D -> Elem] \subseteq Update
    /\ Nothing \in Update /\ DOMAIN Nothing = {}
    /\ \A u, w \in Update : Over(u, w) \in Update
    /\ \A u \in Update : \A s \in Scene : Over(u, s) \in Scene
<1>1. \A u \in Update : DOMAIN u \subseteq Ids /\ \A i \in DOMAIN u : u[i] \in Elem
  BY DEF Update
<1>2. \A D \in SUBSET Ids : [D -> Elem] \subseteq Update
  BY DEF Update
<1>3. Nothing \in [{} -> Elem] /\ DOMAIN Nothing = {}
  BY DEF Nothing
<1>4. ASSUME NEW u \in Update, NEW w \in Update
      PROVE  Over(u, w) \in [DOMAIN u \union DOMAIN w -> Elem]
  BY <1>1, <1>4 DEF Over
<1>5. ASSUME NEW u \in Update, NEW s \in Scene
      PROVE  Over(u, s) \in Scene
  BY <1>1 DEF Over, Scene
<1>. QED
  BY <1>1, <1>2, <1>3, <1>4, <1>5

\* A merge is a scene; each element is the copy held or the one that came.
LEMMA Merged ==
    ASSUME NEW local \in Scene, NEW remote \in Update, NEW protect
    PROVE  LET merged == Reconcile(local, remote, protect)
           IN  /\ merged \in Scene
               /\ \A i \in Ids :
                    /\ AtLeast(merged[i], local[i])
                    /\ \/ merged[i] = local[i]
                       \/ i \in DOMAIN remote /\ merged[i] = remote[i]
                    /\ i \in DOMAIN remote =>
                         \/ AtLeast(merged[i], remote[i])
                         \/ i \in Refused(local, remote, protect)
BY Order, Updates DEF Reconcile, Refused, Scene, AtLeast

\* What a flush shows is the merge, but for the labels kept.
LEMMA ShownMerge ==
    ASSUME Typed, NEW e \in Editors, NEW merged \in Scene
    PROVE  LET shown == Shown(e, merged)
           IN  /\ shown \in Scene /\ Relabelled(e, merged) \subseteq Ids
               /\ \A i \in Ids :
                    /\ shown[i] = merged[i] \/ shown[i] = scene[e][i]
                    /\ i \notin Relabelled(e, merged) => shown[i] = merged[i]
                    /\ merged[i] = scene[e][i] => shown[i] = merged[i]
               /\ merged = scene[e] => shown = merged
BY DEF Shown, Relabelled, Typed, Scene

-----------------------------------------------------------------------------
(* What the lane does with a scene *)

\* What Deliver leaves in the lane of the editor, and at the server.
LEMMA Delivers ==
    ASSUME Typed, NEW e \in Editors, NEW o \in Outgoing, NEW known \in Scene,
           NEW queue \in Packets, Deliver(e, o, known, queue)
    PROVE  \E p \in Outgoing :
             /\ out' = [out EXCEPT ![e] = p]
             /\ p.trail = o.trail
             /\ p.pending \in {o.pending, None}
             /\ \/ p.pending = o.pending
                \/ \A i \in Ids : \/ i \in DOMAIN p.packet /\ p.packet[i] = o.pending[i]
                                  \/ o.pending[i] = known[i]
             /\ \/ p.packet = o.packet /\ p.lane = o.lane
                \/ o.lane = "idle" /\ p.lane \in {"ready", "sent"} /\ o.pending # None
                   /\ \A i \in DOMAIN p.packet : p.packet[i] = o.pending[i]
             /\ \/ atServer' = [atServer EXCEPT ![e] = queue]
                \/ /\ o.lane = "idle" /\ p.lane = "sent"
                   /\ atServer' = [atServer EXCEPT ![e] =
                                     Append(queue, [els |-> p.packet, live |-> TRUE])]
<1>. DEFINE changes == Differing(o.pending, known)
            next == Drained(o, known)
<1>1. CASE o.lane # "idle" \/ o.pending = None
  <2>1. next = o
    BY <1>1 DEF Drained
  <2>2. out' = [out EXCEPT ![e] = o] /\ atServer' = [atServer EXCEPT ![e] = queue]
    BY <2>1 DEF Deliver
  <2>. QED
    BY <2>2
<1>2. CASE o.lane = "idle" /\ o.pending # None /\ changes = {}
  <2>1. next = [o EXCEPT !.pending = None]
    BY <1>2 DEF Drained
  <2>2. /\ next \in Outgoing /\ next.trail = o.trail /\ next.pending = None
        /\ next.packet = o.packet /\ next.lane = "idle"
    BY <1>2, <2>1 DEF Outgoing
  <2>3. out' = [out EXCEPT ![e] = next] /\ atServer' = [atServer EXCEPT ![e] = queue]
    BY <2>2 DEF Deliver
  <2>4. \A i \in Ids : o.pending[i] = known[i]
    BY <1>2 DEF Differing, Outgoing, Scene
  <2>. QED
    BY <1>2, <2>2, <2>3, <2>4
<1>3. CASE o.lane = "idle" /\ o.pending # None /\ changes # {}
  <2>. DEFINE sends == [i \in changes |-> o.pending[i]]
  <2>0. o.pending \in Scene /\ changes \subseteq Ids
    BY <1>3 DEF Differing, Outgoing, Scene
  <2>1. sends \in Update
    BY <2>0, Updates DEF Scene
  <2>2. next = [o EXCEPT !.pending = None, !.lane = "ready", !.packet = sends]
    BY <1>3 DEF Drained
  <2>3. /\ next \in Outgoing /\ next.trail = o.trail /\ next.pending = None
        /\ next.packet = sends /\ next.lane = "ready"
    BY <2>1, <2>2 DEF Outgoing
  <2>4. \A i \in Ids : i \in changes \/ o.pending[i] = known[i]
    BY <2>0 DEF Differing, Scene
  <2>5. DOMAIN sends = changes /\ \A i \in changes : sends[i] = o.pending[i]
    OBVIOUS
  <2>6. CASE e \in joined
    <3>. DEFINE p == [next EXCEPT !.lane = "sent"]
    <3>1. /\ p \in Outgoing /\ p.trail = o.trail /\ p.pending = None
          /\ p.packet = sends /\ p.lane = "sent"
      BY <2>3 DEF Outgoing
    <3>2. /\ out' = [out EXCEPT ![e] = p]
          /\ atServer' = [atServer EXCEPT ![e] =
                            Append(queue, [els |-> sends, live |-> TRUE])]
      BY <1>3, <2>3, <2>6 DEF Deliver
    <3>. HIDE DEF p, next, sends, changes
    <3>. QED
      BY <1>3, <2>4, <2>5, <3>1, <3>2
  <2>7. CASE e \notin joined
    <3>1. out' = [out EXCEPT ![e] = next] /\ atServer' = [atServer EXCEPT ![e] = queue]
      BY <2>7 DEF Deliver
    <3>. HIDE DEF next, sends, changes
    <3>. QED
      BY <1>3, <2>3, <2>4, <2>5, <3>1
  <2>. QED
    BY <2>6, <2>7
<1>. QED
  BY <1>1, <1>2, <1>3

\* What QueueUpdate leaves in the lane, at the server and in the debounce.
LEMMA Queued ==
    ASSUME Typed, NEW e \in Editors, NEW els \in Scene, QueueUpdate(e, els)
    PROVE  /\ \E p \in Outgoing :
                /\ out' = [out EXCEPT ![e] = p]
                /\ p.trail = None
                /\ p.pending \in {els, None}
                /\ \/ p.pending = els
                   \/ \A i \in Ids : \/ i \in DOMAIN p.packet /\ p.packet[i] = els[i]
                                     \/ els[i] = synced[e][i]
                /\ \/ p.packet = out[e].packet /\ p.lane = out[e].lane
                   \/ out[e].lane = "idle" /\ p.lane \in {"ready", "sent"}
                      /\ \A i \in DOMAIN p.packet : p.packet[i] = els[i]
                /\ \/ atServer' = atServer
                   \/ /\ out[e].lane = "idle" /\ p.lane = "sent"
                      /\ atServer' = [atServer EXCEPT ![e] =
                                        Append(@, [els |-> p.packet, live |-> TRUE])]
           /\ \/ due' = [due EXCEPT ![e] = els]
              \/ due' = due /\ \A i \in Ids : els[i] = synced[e][i]
<1>. DEFINE o == [out[e] EXCEPT !.trail = None, !.pending = els]
<1>1. /\ o \in Outgoing /\ o.trail = None /\ o.pending = els
      /\ o.packet = out[e].packet /\ o.lane = out[e].lane
  BY DEF Typed, Outgoing
<1>2. /\ synced[e] \in Scene /\ atServer[e] \in Packets
      /\ [atServer EXCEPT ![e] = atServer[e]] = atServer
  BY DEF Typed, Packets
<1>3. Deliver(e, o, synced[e], atServer[e])
  BY DEF QueueUpdate
<1>4. \/ due' = [due EXCEPT ![e] = els]
      \/ due' = due /\ \A i \in Ids : els[i] = synced[e][i]
  <2>1. CASE Differing(els, synced[e]) = {}
    BY <2>1 DEF QueueUpdate, Differing, Scene, Typed
  <2>2. CASE Differing(els, synced[e]) # {}
    BY <2>2 DEF QueueUpdate
  <2>. QED
    BY <2>1, <2>2
<1>. HIDE DEF o
<1>6. PICK oo \in Outgoing, known \in Scene, queue \in Packets :
           oo = o /\ known = synced[e] /\ queue = atServer[e]
  BY <1>1, <1>2
<1>7. Deliver(e, oo, known, queue)
  BY <1>3, <1>6
<1>8. PICK p \in Outgoing :
             /\ out' = [out EXCEPT ![e] = p]
             /\ p.trail = oo.trail
             /\ p.pending \in {oo.pending, None}
             /\ \/ p.pending = oo.pending
                \/ \A i \in Ids : \/ i \in DOMAIN p.packet /\ p.packet[i] = oo.pending[i]
                                  \/ oo.pending[i] = known[i]
             /\ \/ p.packet = oo.packet /\ p.lane = oo.lane
                \/ oo.lane = "idle" /\ p.lane \in {"ready", "sent"} /\ oo.pending # None
                   /\ \A i \in DOMAIN p.packet : p.packet[i] = oo.pending[i]
             /\ \/ atServer' = [atServer EXCEPT ![e] = queue]
                \/ /\ oo.lane = "idle" /\ p.lane = "sent"
                   /\ atServer' = [atServer EXCEPT ![e] =
                        Append(queue, [els |-> p.packet, live |-> TRUE])]
  BY <1>7, Delivers
<1>. QED
  BY <1>1, <1>2, <1>4, <1>6, <1>8

\* The same, read off the editor's own lane.
LEMMA QueuedLane ==
    ASSUME Typed, NEW e \in Editors, NEW els \in Scene, QueueUpdate(e, els)
    PROVE  /\ out'[e].trail = None
           /\ out'[e].pending \in {els, None}
           /\ \/ out'[e].pending = els
              \/ \A i \in Ids :
                   \/ i \in DOMAIN out'[e].packet /\ out'[e].packet[i] = els[i]
                   \/ els[i] = synced[e][i]
           /\ \/ out'[e].packet = out[e].packet
              \/ /\ out[e].lane = "idle"
                 /\ \A i \in DOMAIN out'[e].packet : out'[e].packet[i] = els[i]
           /\ \/ due'[e] = els
              \/ due'[e] = due[e] /\ \A i \in Ids : els[i] = synced[e][i]
<1>1. PICK p \in Outgoing :
             /\ out' = [out EXCEPT ![e] = p]
             /\ p.trail = None
             /\ p.pending \in {els, None}
             /\ \/ p.pending = els
                \/ \A i \in Ids : \/ i \in DOMAIN p.packet /\ p.packet[i] = els[i]
                                  \/ els[i] = synced[e][i]
             /\ \/ p.packet = out[e].packet /\ p.lane = out[e].lane
                \/ out[e].lane = "idle" /\ p.lane \in {"ready", "sent"}
                   /\ \A i \in DOMAIN p.packet : p.packet[i] = els[i]
             /\ \/ atServer' = atServer
                \/ /\ out[e].lane = "idle" /\ p.lane = "sent"
                   /\ atServer' = [atServer EXCEPT ![e] =
                                     Append(@, [els |-> p.packet, live |-> TRUE])]
  BY Queued
<1>2. out'[e] = p
  BY <1>1 DEF Typed
<1>3. \/ due' = [due EXCEPT ![e] = els]
      \/ due' = due /\ \A i \in Ids : els[i] = synced[e][i]
  BY Queued
<1>4. \/ due'[e] = els
      \/ due'[e] = due[e] /\ \A i \in Ids : els[i] = synced[e][i]
  BY <1>3 DEF Typed
<1>. QED
  BY <1>1, <1>2, <1>4

\* QueueUpdate keeps the lanes, the packets and the debounce typed.
LEMMA QueuedTypes ==
    ASSUME Typed, NEW e \in Editors, NEW els \in Scene, QueueUpdate(e, els)
    PROVE  /\ out' \in [Editors -> Outgoing] /\ atServer' \in [Editors -> Packets]
           /\ due' \in [Editors -> Scene \union {None}]
<1>1. PICK p \in Outgoing :
        /\ out' = [out EXCEPT ![e] = p]
        /\ \/ atServer' = atServer
           \/ atServer' = [atServer EXCEPT ![e] =
                             Append(@, [els |-> p.packet, live |-> TRUE])]
  BY Queued
<1>0. \/ due' = [due EXCEPT ![e] = els] \/ due' = due
  BY Queued
<1>2. out' \in [Editors -> Outgoing]
  BY <1>1 DEF Typed
<1>3. p.packet \in Update
  BY <1>1 DEF Outgoing
<1>4. atServer' \in [Editors -> Packets]
  <2>. DEFINE packet == [els |-> p.packet, live |-> TRUE]
  <2>1. atServer \in [Editors -> Packets] /\ packet \in Packet
    BY <1>3 DEF Typed, Packet
  <2>. HIDE DEF packet
  <2>2. Append(atServer[e], packet) \in Packets
    BY <2>1 DEF Packets
  <2>. QED
    BY <1>1, <2>1, <2>2 DEF packet
<1>5. due' \in [Editors -> Scene \union {None}]
  BY <1>0 DEF Typed
<1>. QED
  BY <1>2, <1>4, <1>5

\* So does a report, at once or by the throttle.
LEMMA ReportedTypes ==
    ASSUME Typed, NEW e \in Editors, NEW els \in Scene, Report(e, els)
    PROVE  /\ out' \in [Editors -> Outgoing] /\ atServer' \in [Editors -> Packets]
           /\ due' \in [Editors -> Scene \union {None}]
<1>1. CASE QueueUpdate(e, els)
  BY <1>1, QueuedTypes
<1>2. CASE out' = [out EXCEPT ![e].trail = els] /\ UNCHANGED <<due, atServer>>
  BY <1>2 DEF Typed, Packets, Outgoing
<1>. QED
  BY <1>1, <1>2 DEF Report

-----------------------------------------------------------------------------
(* Types *)

\* The board as it is opened is typed.
LEMMA InitTyped == Init => Typed
<1>. SUFFICES ASSUME Init PROVE Typed
  OBVIOUS
<1>1. Opened \in Scene /\ None \notin Scene /\ Nothing \in Update
  BY Updates, PlanAssumption DEF Opened, Scene, Elem
<1>2. AtRest \in Outgoing /\ NoSave \in SaveJob
  BY <1>1 DEF AtRest, NoSave, Outgoing, SaveJob
<1>3. << >> \in Packets /\ << >> \in Seq(Scene)
  BY DEF Packets
<1>4. saves \in [Editors -> [queue : Seq(Scene), job : SaveJob]]
  BY <1>2, <1>3 DEF Init
<1>5. \A e \in Editors : saves[e].job.pc = "idle" 
  BY DEF Init, NoSave
<1>6. row \in Row
  BY <1>1 DEF Init, Row
<1>. QED
  BY <1>1, <1>2, <1>3, <1>4, <1>5, <1>6, PlanAssumption DEF Init, Typed

\* What a save is after it is over, or after it took another step.
LEMMA SavesTyped ==
    ASSUME Typed, NEW e \in Editors, NEW version \in Nat
    PROVE  /\ Finish(e, version) =>
                /\ saves' \in [Editors -> [queue : Seq(Scene), job : SaveJob]]
                /\ \A f \in Editors : /\ saves'[f].job.pc # "idle" => saves'[f].job.els # None
                                      /\ saves'[f].job.pc = "got" => saves'[f].job.got # None
           /\ \A els \in Scene : /\ Job(els, version) \in SaveJob
                                 /\ Job(els, version).pc = "put"
                                 /\ Job(els, version).els = els
                                 /\ Job(els, version).base = version
                                 /\ Job(els, version).attempt = 0
                                 /\ Job(els, version).got = None
<1>1. NoSave \in SaveJob /\ NoSave.pc = "idle" /\ None \notin Scene
  BY PlanAssumption DEF NoSave, SaveJob
<1>2. ASSUME NEW els \in Scene
      PROVE  /\ Job(els, version) \in SaveJob
             /\ Job(els, version).pc = "put"
             /\ Job(els, version).els = els
             /\ Job(els, version).base = version
             /\ Job(els, version).attempt = 0
             /\ Job(els, version).got = None
  BY DEF Job, SaveJob
<1>3. CASE Finish(e, version) /\ saves[e].queue = << >>
  <2>1. saves' = [saves EXCEPT ![e].job = NoSave]
    BY <1>3 DEF Finish, SetJob
  <2>2. [saves[e] EXCEPT !.job = NoSave] \in [queue : Seq(Scene), job : SaveJob]
        /\ [saves[e] EXCEPT !.job = NoSave].job = NoSave
    BY <1>1 DEF Typed
  <2>. QED
    BY <1>1, <1>2, <1>3, <2>1, <2>2 DEF Typed
<1>4. CASE Finish(e, version) /\ saves[e].queue # << >>
  <2>. DEFINE queue == saves[e].queue
  <2>1. queue \in Seq(Scene) /\ queue # << >>
    BY <1>4 DEF Typed
  <2>2. Head(queue) \in Scene /\ Tail(queue) \in Seq(Scene)
    BY <2>1
  <2>3. saves' = [saves EXCEPT ![e] = [queue |-> Tail(queue), job |-> Job(Head(queue), version)]]
    BY <1>4 DEF Finish
  <2>. HIDE DEF queue
  <2>. QED
    BY <1>1, <1>2, <2>2, <2>3 DEF Typed
<1>. QED
  BY <1>2, <1>3, <1>4

\* Types survive every step.
LEMMA StepTyped == Typed /\ [Next]_vars => Typed'
<1>. SUFFICES ASSUME Typed, [Next]_vars PROVE Typed'
  OBVIOUS
<1>1. ASSUME NEW edit \in Plan, Edit(edit[1], edit[2], edit[3]) PROVE Typed'
  <2>. DEFINE e == edit[1]
              next == [scene[e] EXCEPT ![edit[2]] = [v |-> @.v + 1, n |-> edit[3]]]
  <2>1. e \in Editors /\ edit[2] \in Ids /\ edit[3] \in Nat /\ edit = <<edit[1], edit[2], edit[3]>>
    BY PlanAssumption
  <2>2. next \in Scene
    BY <2>1 DEF Typed, Scene, Elem
  <2>3. scene' = [scene EXCEPT ![e] = next] /\ Report(e, next)
    BY <1>1 DEF Edit
  <2>4. made' \subseteq Plan
    BY <1>1, <2>1 DEF Edit, Typed
  <2>. HIDE DEF e, next
  <2>5. /\ out' \in [Editors -> Outgoing] /\ atServer' \in [Editors -> Packets]
        /\ due' \in [Editors -> Scene \union {None}]
    BY <2>1, <2>2, <2>3, ReportedTypes
  <2>6. scene' \in [Editors -> Scene]
    BY <2>2, <2>3 DEF Typed
  <2>. QED
    BY <1>1, <2>4, <2>5, <2>6 DEF Edit, Typed
<1>2. ASSUME NEW e \in Editors, Echo(e) PROVE Typed'
  <2>1. scene[e] \in Scene /\ Report(e, scene[e])
    BY <1>2 DEF Echo, Typed
  <2>2. /\ out' \in [Editors -> Outgoing] /\ atServer' \in [Editors -> Packets]
        /\ due' \in [Editors -> Scene \union {None}]
    BY <2>1, ReportedTypes
  <2>. QED
    BY <1>2, <2>2 DEF Echo, Typed
<1>3. ASSUME NEW e \in Editors, ThrottleFires(e) PROVE Typed'
  <2>1. out[e].trail \in Scene /\ QueueUpdate(e, out[e].trail)
    BY <1>3 DEF ThrottleFires, Typed, Outgoing
  <2>2. /\ out' \in [Editors -> Outgoing] /\ atServer' \in [Editors -> Packets]
        /\ due' \in [Editors -> Scene \union {None}]
    BY <2>1, QueuedTypes
  <2>. QED
    BY <1>3, <2>2 DEF ThrottleFires, Typed
<1>4. ASSUME NEW e \in Editors, Resend(e) PROVE Typed'
  <2>1. out[e] \in Outgoing /\ out[e].packet \in Update /\ atServer[e] \in Packets
    BY DEF Typed, Outgoing
  <2>2. [out[e] EXCEPT !.lane = "sent"] \in Outgoing
    BY <2>1 DEF Outgoing
  <2>3. [els |-> out[e].packet, live |-> TRUE] \in Packet
    BY <2>1 DEF Packet
  <2>4. Append(atServer[e], [els |-> out[e].packet, live |-> TRUE]) \in Packets
    BY <2>1, <2>3 DEF Packets
  <2>. QED
    BY <1>4, <2>2, <2>4 DEF Resend, Typed
<1>5. ASSUME NEW e \in Editors, Relay(e) PROVE Typed'
  <2>. DEFINE packet == Head(atServer[e])
              known == Known(e, packet)
              o == [out[e] EXCEPT !.lane = "idle", !.packet = Nothing]
  <2>1. atServer[e] \in Packets /\ atServer[e] # << >>
    BY <1>5 DEF Relay, Typed
  <2>2. packet \in Packet /\ packet.els \in Update /\ Tail(atServer[e]) \in Packets
    <3>1. packet \in Packet /\ Tail(atServer[e]) \in Packets
      BY <2>1 DEF Packets
    <3>. QED
      BY <3>1 DEF Packet
  <2>3. known \in Scene /\ DOMAIN packet.els \subseteq Ids
    BY <2>2, Updates DEF Known, Typed
  <2>4. o \in Outgoing
    BY Updates DEF Typed, Outgoing
  <2>5. arrived' \in [Editors -> Update]
    BY <1>5, <2>2, Updates DEF Relay, Typed
  <2>6. stray' \subseteq Ids
    BY <1>5, <2>3 DEF Relay, Overtaken, Typed
  <2>7. synced' \in [Editors -> Scene]
    BY <1>5, <2>3 DEF Relay, Typed
  <2>8. out' \in [Editors -> Outgoing] /\ atServer' \in [Editors -> Packets]
    <3>1. CASE packet.live
      <4>1. Deliver(e, o, known, Tail(atServer[e]))
        BY <1>5, <3>1 DEF Relay
      <4>2. PICK oo \in Outgoing, kk \in Scene, queue \in Packets :
                 oo = o /\ kk = known /\ queue = Tail(atServer[e])
        BY <2>2, <2>3, <2>4
      <4>3. Deliver(e, oo, kk, queue)
        BY <4>1, <4>2
      <4>4. PICK p \in Outgoing :
              /\ out' = [out EXCEPT ![e] = p]
              /\ \/ atServer' = [atServer EXCEPT ![e] = queue]
                 \/ atServer' = [atServer EXCEPT ![e] =
                                   Append(queue, [els |-> p.packet, live |-> TRUE])]
        BY <4>3, Delivers
      <4>5. [els |-> p.packet, live |-> TRUE] \in Packet
        BY DEF Outgoing, Packet
      <4>6. Append(queue, [els |-> p.packet, live |-> TRUE]) \in Packets
        BY <4>5 DEF Packets
      <4>. QED
        BY <4>4, <4>6 DEF Typed
    <3>2. CASE ~packet.live
      BY <1>5, <2>2, <3>2 DEF Relay, Typed
    <3>. QED
      BY <3>1, <3>2
  <2>. QED
    BY <1>5, <2>5, <2>6, <2>7, <2>8 DEF Relay, Typed
<1>6. ASSUME NEW e \in Editors, Timeout(e) PROVE Typed'
  <2>. DEFINE older == [k \in DOMAIN atServer[e] |-> [atServer[e][k] EXCEPT !.live = FALSE]]
  <2>1. atServer[e] \in Seq(Packet) /\ out[e].packet \in Update
    BY DEF Typed, Outgoing, Packets
  <2>2. older \in Seq(Packet)
    <3>1. ASSUME NEW k \in DOMAIN atServer[e]
          PROVE  [atServer[e][k] EXCEPT !.live = FALSE] \in Packet
      <4>1. atServer[e][k] \in Packet
        BY <2>1
      <4>. QED
        BY <4>1 DEF Packet
    <3>2. DOMAIN atServer[e] = 1..Len(atServer[e]) /\ Len(atServer[e]) \in Nat
      BY <2>1
    <3>. QED
      BY <3>1, <3>2
  <2>3. [els |-> out[e].packet, live |-> TRUE] \in Packet
    BY <2>1 DEF Packet
  <2>4. Append(older, [els |-> out[e].packet, live |-> TRUE]) \in Packets
    BY <2>2, <2>3 DEF Packets
  <2>5. atServer' = [atServer EXCEPT ![e] =
                       Append(older, [els |-> out[e].packet, live |-> TRUE])]
    BY <1>6 DEF Timeout, Typed
  <2>6. atServer' \in [Editors -> Packets] /\ mishaps' \in 0..MaxMishaps
    BY <1>6, <2>4, <2>5, PlanAssumption DEF Timeout, Slip, Typed
  <2>. QED
    BY <1>6, <2>6 DEF Timeout, Typed
<1>7. ASSUME NEW e \in Editors, Drop(e) PROVE Typed'
  <2>1. Interrupted(out[e]) \in Outgoing
    BY DEF Interrupted, Typed, Outgoing
  <2>2. << >> \in Packets /\ Nothing \in Update /\ DOMAIN arrived[e] \subseteq Ids
    BY Updates DEF Typed, Packets
  <2>3. mishaps' \in 0..MaxMishaps
    BY <1>7, PlanAssumption DEF Drop, Slip, Typed
  <2>. QED
    BY <1>7, <2>1, <2>2, <2>3 DEF Drop, Typed
<1>8. ASSUME NEW e \in Editors, Rejoin(e) PROVE Typed'
  BY <1>8 DEF Rejoin, Typed
<1>9. ASSUME NEW e \in Editors, NEW protect \in Grips, Flush(e, protect) PROVE Typed'
  <2>. DEFINE merged == Reconcile(scene[e], arrived[e], protect)
              shown == Shown(e, merged)
              booked == Over([i \in DOMAIN arrived[e] |-> shown[i]], synced[e])
  <2>0. merged \in Scene
    BY Merged DEF Typed
  <2>1. /\ shown \in Scene /\ DOMAIN arrived[e] \subseteq Ids
        /\ Relabelled(e, merged) \subseteq Ids
    BY <2>0, ShownMerge, Updates DEF Typed
  <2>2. booked \in Scene
    BY <2>1, Updates DEF Scene, Typed
  <2>3. stray' \subseteq Ids /\ aged' \subseteq Ids
    BY <1>9, <2>1 DEF Flush, KeptUnsent, Refused, Typed
  <2>4. mishaps' \in 0..MaxMishaps
    BY <1>9, PlanAssumption DEF Flush, Gripping, Slip, Typed
  <2>5. scene' = [scene EXCEPT ![e] = shown] /\ synced' = [synced EXCEPT ![e] = booked]
    BY <1>9 DEF Flush
  <2>. HIDE DEF merged, shown, booked
  <2>6. scene' \in [Editors -> Scene] /\ synced' \in [Editors -> Scene]
    BY <2>1, <2>2, <2>5 DEF Typed
  <2>. QED
    BY <1>9, <2>3, <2>4, <2>6, Updates DEF Flush, Typed
<1>10. ASSUME NEW e \in Editors, DebounceFires(e) PROVE Typed'
  <2>1. due[e] \in Scene /\ ver[e] \in Nat /\ saves[e].queue \in Seq(Scene)
    BY <1>10 DEF DebounceFires, Typed
  <2>2. /\ Job(due[e], ver[e]) \in SaveJob /\ Job(due[e], ver[e]).els = due[e]
        /\ Job(due[e], ver[e]).pc = "put"
    BY <2>1, SavesTyped
  <2>3. Append(saves[e].queue, due[e]) \in Seq(Scene)
    BY <2>1
  <2>4. CASE saves[e].job.pc = "idle"
    <3>1. saves' = [saves EXCEPT ![e].job = Job(due[e], ver[e])]
      BY <1>10, <2>4 DEF DebounceFires, SetJob
    <3>2. /\ saves' \in [Editors -> [queue : Seq(Scene), job : SaveJob]]
          /\ \A f \in Editors : /\ saves'[f].job.pc # "idle" => saves'[f].job.els # None
                                /\ saves'[f].job.pc = "got" => saves'[f].job.got # None
      BY <2>1, <2>2, <3>1, PlanAssumption DEF Typed
    <3>. QED
      BY <1>10, <3>2 DEF DebounceFires, Typed
  <2>5. CASE saves[e].job.pc # "idle"
    <3>1. saves' = [saves EXCEPT ![e].queue = Append(@, due[e])]
      BY <1>10, <2>5 DEF DebounceFires
    <3>2. /\ saves' \in [Editors -> [queue : Seq(Scene), job : SaveJob]]
          /\ \A f \in Editors : /\ saves'[f].job.pc # "idle" => saves'[f].job.els # None
                                /\ saves'[f].job.pc = "got" => saves'[f].job.got # None
      BY <2>3, <3>1 DEF Typed
    <3>. QED
      BY <1>10, <3>2 DEF DebounceFires, Typed
  <2>. QED
    BY <2>4, <2>5
<1>11. ASSUME NEW e \in Editors, Put(e) PROVE Typed'
  <2>. DEFINE job == saves[e].job
  <2>1. job \in SaveJob /\ job.els \in Scene /\ row.els \in Scene /\ row.version \in Nat
        /\ ver[e] \in Nat
    BY <1>11 DEF Put, Typed, SaveJob, Row
  <2>2. CASE job.base = row.version
    <3>1. /\ row' = [version |-> row.version + 1, els |-> job.els]
          /\ ver' = [ver EXCEPT ![e] = row'.version]
          /\ Finish(e, row'.version) /\ UNCHANGED stray
      BY <1>11, <2>2 DEF Put
    <3>2. row' \in Row /\ row'.version \in Nat
      BY <2>1, <3>1 DEF Row
    <3>3. PICK n \in Nat : n = row'.version
      BY <3>2
    <3>4. Finish(e, n)
      BY <3>1, <3>3
    <3>. HIDE DEF job
    <3>5. ver' \in [Editors -> Nat]
      BY <3>1, <3>2 DEF Typed
    <3>6. /\ saves' \in [Editors -> [queue : Seq(Scene), job : SaveJob]]
          /\ \A f \in Editors : /\ saves'[f].job.pc # "idle" => saves'[f].job.els # None
                                /\ saves'[f].job.pc = "got" => saves'[f].job.got # None
      BY <3>4, SavesTyped
    <3>. QED
      BY <1>11, <3>1, <3>2, <3>5, <3>6 DEF Put, Typed
  <2>3. CASE job.base # row.version /\ job.attempt = 0
    <3>. DEFINE got == [job EXCEPT !.pc = "got", !.got = row]
    <3>1. got \in SaveJob /\ got.els = job.els /\ got.got = row
      BY <2>1 DEF Typed, SaveJob
    <3>2. saves' = [saves EXCEPT ![e].job = got] /\ UNCHANGED <<row, ver, stray>>
      BY <1>11, <2>3 DEF Put, SetJob
    <3>3. job.els # None /\ row # None
      BY <2>1, PlanAssumption DEF Typed
    <3>. HIDE DEF job, got
    <3>4. /\ saves' \in [Editors -> [queue : Seq(Scene), job : SaveJob]]
          /\ \A f \in Editors : /\ saves'[f].job.pc # "idle" => saves'[f].job.els # None
                                /\ saves'[f].job.pc = "got" => saves'[f].job.got # None
      BY <3>1, <3>2, <3>3 DEF Typed
    <3>. QED
      BY <1>11, <3>2, <3>4 DEF Put, Typed
  <2>4. CASE job.base # row.version /\ job.attempt > 0
    <3>1. /\ Finish(e, ver[e]) /\ stray' = stray \union Differing(job.els, row.els)
          /\ UNCHANGED <<row, ver>>
      BY <1>11, <2>1, <2>4 DEF Put, SaveJob
    <3>2. stray' \subseteq Ids
      BY <2>1, <3>1 DEF Differing, Scene, Typed
    <3>3. /\ saves' \in [Editors -> [queue : Seq(Scene), job : SaveJob]]
          /\ \A f \in Editors : /\ saves'[f].job.pc # "idle" => saves'[f].job.els # None
                                /\ saves'[f].job.pc = "got" => saves'[f].job.got # None
      BY <2>1, <3>1, SavesTyped
    <3>. QED
      BY <1>11, <3>1, <3>2, <3>3 DEF Put, Typed
  <2>. QED
    <3>1. job.base = row.version \/ job.attempt = 0 \/ job.attempt > 0
      BY <2>1 DEF SaveJob
    <3>. QED
      BY <2>2, <2>3, <2>4, <3>1
<1>12. ASSUME NEW e \in Editors, NEW protect \in Grips, Rebase(e, protect) PROVE Typed'
  <2>. DEFINE job == saves[e].job
              merged == Reconcile(job.els, job.got.els, protect)
  <2>1. /\ job \in SaveJob /\ job.els \in Scene /\ job.got \in Row
        /\ job.got.els \in Scene /\ job.got.version \in Nat
    BY <1>12 DEF Rebase, Typed, SaveJob, Row
  <2>2. merged \in Scene
    BY <2>1 DEF Reconcile, Scene
  <2>3. /\ [Job(merged, job.got.version) EXCEPT !.attempt = 1] \in SaveJob
        /\ [Job(merged, job.got.version) EXCEPT !.attempt = 1].els = merged
        /\ [Job(merged, job.got.version) EXCEPT !.attempt = 1].pc = "put"
    BY <2>1, <2>2, SavesTyped DEF SaveJob
  <2>4. mishaps' \in 0..MaxMishaps
    BY <1>12, PlanAssumption DEF Rebase, Gripping, Slip, Typed
  <2>5. /\ ver' = [ver EXCEPT ![e] = job.got.version]
        /\ scene' = [scene EXCEPT ![e] = merged]
        /\ saves' = [saves EXCEPT ![e].job = [Job(merged, job.got.version) EXCEPT !.attempt = 1]]
        /\ echo' \subseteq Editors
    BY <1>12 DEF Rebase, SetJob, Typed
  <2>6. stray' \subseteq Ids
    BY <1>12, <2>1 DEF Rebase, LostByRebase, Refused, Scene, Typed
  <2>7. scene' \in [Editors -> Scene] /\ ver' \in [Editors -> Nat]
    BY <2>1, <2>2, <2>5 DEF Typed
  <2>. HIDE DEF job, merged
  <2>8. /\ saves' \in [Editors -> [queue : Seq(Scene), job : SaveJob]]
        /\ \A f \in Editors : /\ saves'[f].job.pc # "idle" => saves'[f].job.els # None
                              /\ saves'[f].job.pc = "got" => saves'[f].job.got # None
    BY <2>2, <2>3, <2>5, PlanAssumption DEF Typed
  <2>. QED
    BY <1>12, <2>4, <2>5, <2>6, <2>7, <2>8 DEF Rebase, Typed
<1>13. ASSUME NEW e \in Editors, SaveFails(e) PROVE Typed'
  <2>. DEFINE job == saves[e].job
  <2>1. job \in SaveJob /\ job.els \in Scene /\ row.version \in Nat /\ ver[e] \in Nat
    BY <1>13 DEF SaveFails, Typed, SaveJob, Row
  <2>2. row' \in Row
    BY <1>13, <2>1 DEF SaveFails, Typed, Row
  <2>3. stray' \subseteq Ids
    BY <1>13, <2>1 DEF SaveFails, Differing, Scene, Typed
  <2>4. mishaps' \in 0..MaxMishaps
    BY <1>13, PlanAssumption DEF SaveFails, Slip, Typed
  <2>. QED
    BY <1>13, <2>1, <2>2, <2>3, <2>4, SavesTyped DEF SaveFails, Typed
<1>14. CASE UNCHANGED vars
  BY <1>14 DEF vars, Typed
<1>. QED
  BY <1>1, <1>2, <1>3, <1>4, <1>5, <1>6, <1>7, <1>8, <1>9, <1>10, <1>11, <1>12, <1>13,
     <1>14 DEF Next, Work, Mishap

-----------------------------------------------------------------------------
(* Who does what *)

\* A step of editor e: everything e does, and what happens to it.
Acts(e) == Work(e) \/ Mishap(e) \/ \E i \in Ids, n \in Nat : Edit(e, i, n)

\* Every step is some editor's.
LEMMA Actors ==
    ASSUME Next
    PROVE  \E e \in Editors : Acts(e)
<1>1. CASE \E e \in Editors : Work(e) \/ Mishap(e)
  BY <1>1 DEF Acts
<1>2. CASE \E edit \in Plan : Edit(edit[1], edit[2], edit[3])
  <2>1. PICK edit \in Plan : Edit(edit[1], edit[2], edit[3])
    BY <1>2
  <2>2. edit[1] \in Editors /\ edit[2] \in Ids /\ edit[3] \in Nat
    BY PlanAssumption
  <2>. QED
    BY <2>1, <2>2 DEF Acts
<1>. QED
  BY <1>1, <1>2 DEF Next

\* What an editor does leaves the others' work alone; only updates reach them.
LEMMA OthersSame ==
    ASSUME Typed, NEW e \in Editors, Acts(e), NEW f \in Editors, f # e
    PROVE  /\ scene'[f] = scene[f] /\ synced'[f] = synced[f]
           /\ out'[f] = out[f] /\ due'[f] = due[f] /\ saves'[f] = saves[f]
           /\ ver'[f] = ver[f] /\ atServer'[f] = atServer[f]
           /\ (f \in echo') = (f \in echo)
<1>1. ASSUME NEW i, NEW n, Edit(e, i, n) PROVE
        /\ scene'[f] = scene[f] /\ UNCHANGED <<synced, saves, ver, echo>>
        /\ \E els : Report(e, els)
  BY <1>1 DEF Edit, Typed
<1>2. ASSUME NEW els, Report(e, els)
      PROVE  out'[f] = out[f] /\ due'[f] = due[f] /\ atServer'[f] = atServer[f]
  BY <1>2 DEF Report, QueueUpdate, Deliver, Typed
<1>3. CASE \E i \in Ids, n \in Nat : Edit(e, i, n)
  BY <1>1, <1>2, <1>3
<1>4. CASE Echo(e)
  BY <1>2, <1>4 DEF Echo, Typed
<1>5. CASE ThrottleFires(e)
  BY <1>2, <1>5 DEF ThrottleFires, Report
<1>6. CASE Resend(e) \/ Timeout(e) \/ Drop(e) \/ Rejoin(e) \/ DebounceFires(e)
  BY <1>6 DEF Resend, Timeout, Drop, Rejoin, DebounceFires, SetJob, Typed
<1>7. CASE Relay(e)
  BY <1>7 DEF Relay, Deliver, Typed
<1>8. CASE Put(e) \/ SaveFails(e)
  BY <1>8 DEF Put, SaveFails, Finish, SetJob, Typed
<1>9. CASE \E p \in Grips : Flush(e, p) \/ Rebase(e, p)
  BY <1>9 DEF Flush, Rebase, SetJob, Typed
<1>. QED
  BY <1>3, <1>4, <1>5, <1>6, <1>7, <1>8, <1>9 DEF Acts, Work, Mishap

\* Only a named loss takes an editor's element back to an older copy.
LEMMA ScenesGrow ==
    ASSUME Typed, NEW e \in Editors, Acts(e)
    PROVE  /\ Spared' \subseteq Spared
           /\ \A f \in Editors : \A i \in Spared' : AtLeast(scene'[f][i], scene[f][i])
<1>0. ASSUME UNCHANGED scene, NEW f \in Editors, NEW i \in Ids
      PROVE  AtLeast(scene'[f][i], scene[f][i])
  <2>1. scene[f][i] \in Elem
    BY DEF Typed, Scene
  <2>. QED
    BY <1>0, <2>1, Order
<1>1. ASSUME NEW j \in Ids, NEW n \in Nat, Edit(e, j, n), NEW f \in Editors, NEW i \in Ids
      PROVE  AtLeast(scene'[f][i], scene[f][i])
  <2>1. scene[f][i] \in Elem /\ scene[e][j] \in Elem
    BY DEF Typed, Scene
  <2>2. scene'[f][i] = scene[f][i] \/ scene'[f][i] = [v |-> scene[f][i].v + 1, n |-> n]
    BY <1>1 DEF Edit, Typed, Scene
  <2>. QED
    BY <2>1, <2>2 DEF AtLeast, Newer, Elem
<1>2. ASSUME NEW p, Flush(e, p), NEW f \in Editors, NEW i \in Ids
      PROVE  AtLeast(scene'[f][i], scene[f][i])
  <2>. DEFINE merged == Reconcile(scene[e], arrived[e], p)
  <2>1. scene[e] \in Scene /\ arrived[e] \in Update /\ scene[f][i] \in Elem
    BY DEF Typed, Scene
  <2>2. merged \in Scene /\ AtLeast(merged[i], scene[e][i])
    BY <2>1, Merged
  <2>3. scene' = [scene EXCEPT ![e] = Shown(e, merged)]
    BY <1>2 DEF Flush
  <2>. HIDE DEF merged
  <2>4. Shown(e, merged)[i] = merged[i] \/ Shown(e, merged)[i] = scene[e][i]
    BY <2>2, ShownMerge
  <2>5. scene[e][i] \in Elem
    BY <2>1 DEF Scene
  <2>. QED
    BY <2>1, <2>2, <2>3, <2>4, <2>5, Order DEF Typed
<1>3. ASSUME NEW p, Rebase(e, p), NEW f \in Editors, NEW i \in Spared'
      PROVE  AtLeast(scene'[f][i], scene[f][i])
  <2>. DEFINE merged == Reconcile(saves[e].job.els, saves[e].job.got.els, p)
  <2>1. scene' = [scene EXCEPT ![e] = merged] /\ scene[f][i] \in Elem
    BY <1>3 DEF Rebase, Typed, Scene
  <2>2. ~Newer(scene[e][i], merged[i])
    BY <1>3 DEF Rebase, LostByRebase
  <2>. HIDE DEF merged
  <2>. QED
    BY <2>1, <2>2, Order DEF Typed, AtLeast
<1>4. Spared' \subseteq Spared
  <2>1. CASE \E p \in Grips : Flush(e, p) \/ Rebase(e, p)
    BY <2>1 DEF Flush, Rebase
  <2>2. CASE Drop(e) \/ Put(e) \/ SaveFails(e) \/ Relay(e)
    BY <2>2 DEF Drop, Put, SaveFails, Relay
  <2>. QED
    BY <2>1, <2>2 DEF Acts, Work, Mishap, Edit, Echo, ThrottleFires, Resend, Rejoin,
       DebounceFires, Timeout
<1>. QED
  BY <1>0, <1>1, <1>2, <1>3, <1>4 DEF Acts, Work, Mishap, Echo, ThrottleFires, Resend,
     Relay, Rejoin, DebounceFires, Put, Timeout, Drop, SaveFails

-----------------------------------------------------------------------------
(* Packets *)

\* What a report of the scene `els` puts on its way.
LEMMA Carried ==
    ASSUME Typed, NEW e \in Editors, NEW els \in Scene, Answerable(e), Report(e, els)
    PROVE  /\ Answerable(e)'
           /\ \A i \in DOMAIN out'[e].packet :
                \/ out'[e].packet[i] = els[i]
                \/ i \in DOMAIN out[e].packet /\ out'[e].packet[i] = out[e].packet[i]
           /\ \A k \in DOMAIN atServer'[e] :
                \/ k \in DOMAIN atServer[e] /\ atServer'[e][k] = atServer[e][k]
                \/ atServer'[e][k].els = out'[e].packet
<1>1. CASE QueueUpdate(e, els)
  <2>1. PICK p \in Outgoing :
          /\ out' = [out EXCEPT ![e] = p]
          /\ p.trail = None
          /\ p.pending \in {els, None}
          /\ \/ p.pending = els
             \/ \A i \in Ids : \/ i \in DOMAIN p.packet /\ p.packet[i] = els[i]
                               \/ els[i] = synced[e][i]
          /\ \/ p.packet = out[e].packet /\ p.lane = out[e].lane
             \/ out[e].lane = "idle" /\ p.lane \in {"ready", "sent"}
                /\ \A i \in DOMAIN p.packet : p.packet[i] = els[i]
          /\ \/ atServer' = atServer
             \/ /\ out[e].lane = "idle" /\ p.lane = "sent"
                /\ atServer' = [atServer EXCEPT ![e] =
                                  Append(@, [els |-> p.packet, live |-> TRUE])]
    BY <1>1, Queued
  <2>2. out'[e] = p /\ atServer[e] \in Seq(Packet)
    BY <2>1 DEF Typed, Packets
  <2>3. CASE atServer' = atServer
    BY <2>1, <2>2, <2>3 DEF Answerable
  <2>4. CASE atServer' # atServer
    <3>. DEFINE new == [els |-> p.packet, live |-> TRUE]
    <3>1. out[e].lane = "idle" /\ p.lane = "sent" /\ atServer'[e] = Append(atServer[e], new)
      BY <2>1, <2>4 DEF Typed
    <3>2. \A k \in DOMAIN atServer[e] : ~atServer[e][k].live
      BY <3>1 DEF Answerable
    <3>3. new \in Packet /\ new.els = p.packet /\ new.live
      BY DEF Outgoing, Packet
    <3>. HIDE DEF new
    <3>4. /\ Len(atServer'[e]) = Len(atServer[e]) + 1
          /\ \A k \in DOMAIN atServer'[e] :
               \/ k \in DOMAIN atServer[e] /\ atServer'[e][k] = atServer[e][k]
               \/ k = Len(atServer'[e]) /\ atServer'[e][k] = new
      BY <2>2, <3>1, <3>3
    <3>. QED
      BY <2>1, <2>2, <3>1, <3>2, <3>3, <3>4 DEF Answerable
  <2>. QED
    BY <2>3, <2>4
<1>2. CASE out' = [out EXCEPT ![e].trail = els] /\ UNCHANGED <<due, atServer>>
  BY <1>2 DEF Typed, Outgoing, Answerable
<1>. QED
  BY <1>1, <1>2 DEF Report

\* What is on its way stays no newer than the scene.
LEMMA CarriedOlder ==
    ASSUME Typed, Typed', NEW e \in Editors, NEW els \in Scene, Answerable(e),
           Report(e, els), NEW i \in Ids, Sent(e, i), synced' = synced,
           AtLeast(scene'[e][i], scene[e][i]), AtLeast(scene'[e][i], els[i])
    PROVE  Sent(e, i)'
<1>1. /\ scene'[e][i] \in Elem /\ scene[e][i] \in Elem /\ synced[e][i] \in Elem
      /\ out[e].packet \in Update /\ atServer[e] \in Seq(Packet)
      /\ out'[e].packet \in Update /\ atServer'[e] \in Seq(Packet)
  BY DEF Typed, Scene, Outgoing, Packets
<1>2. AtLeast(scene'[e][i], synced'[e][i])
  BY <1>1, Order DEF Sent
<1>3. ASSUME i \in DOMAIN out'[e].packet
      PROVE  AtLeast(scene'[e][i], out'[e].packet[i])
  <2>1. CASE out'[e].packet[i] = els[i]
    BY <2>1
  <2>2. CASE i \in DOMAIN out[e].packet /\ out'[e].packet[i] = out[e].packet[i]
    <3>1. out[e].packet[i] \in Elem
      BY <1>1, <2>2, Updates
    <3>. QED
      BY <1>1, <2>2, <3>1, Order DEF Sent
  <2>. QED
    BY <1>3, <2>1, <2>2, Carried
<1>4. ASSUME NEW k \in DOMAIN atServer'[e], i \in DOMAIN atServer'[e][k].els
      PROVE  AtLeast(scene'[e][i], atServer'[e][k].els[i])
  <2>1. CASE atServer'[e][k].els = out'[e].packet
    BY <1>3, <1>4, <2>1
  <2>2. CASE k \in DOMAIN atServer[e] /\ atServer'[e][k] = atServer[e][k]
    <3>1. atServer[e][k] \in Packet
      BY <1>1, <2>2
    <3>2. atServer[e][k].els[i] \in Elem
      BY <1>4, <2>2, <3>1, Updates DEF Packet
    <3>. QED
      BY <1>1, <1>4, <2>2, <3>2, Order DEF Sent
  <2>. QED
    BY <2>1, <2>2, Carried
<1>. QED
  BY <1>2, <1>3, <1>4 DEF Sent

\* When nothing but the scene changes, and it grows, what is on its way stays older.
LEMMA GrownOlder ==
    ASSUME Typed, Typed', NEW e \in Editors, Answerable(e), NEW i \in Ids, Sent(e, i),
           out'[e].packet = out[e].packet, atServer'[e] = atServer[e],
           AtLeast(scene'[e][i], scene[e][i]), AtLeast(scene'[e][i], synced'[e][i])
    PROVE  Sent(e, i)'
<1>1. /\ scene'[e][i] \in Elem /\ scene[e][i] \in Elem
      /\ out[e].packet \in Update /\ atServer[e] \in Seq(Packet)
  BY DEF Typed, Scene, Outgoing, Packets
<1>2. ASSUME i \in DOMAIN out[e].packet
      PROVE  AtLeast(scene'[e][i], out[e].packet[i])
  <2>1. out[e].packet[i] \in Elem
    BY <1>1, <1>2, Updates
  <2>. QED
    BY <1>1, <1>2, <2>1, Order DEF Sent
<1>3. ASSUME NEW k \in DOMAIN atServer[e], i \in DOMAIN atServer[e][k].els
      PROVE  AtLeast(scene'[e][i], atServer[e][k].els[i])
  <2>1. atServer[e][k] \in Packet
    BY <1>1
  <2>2. atServer[e][k].els[i] \in Elem
    BY <1>3, <2>1, Updates DEF Packet
  <2>. QED
    BY <1>1, <1>3, <2>2, Order DEF Sent
<1>. QED
  BY <1>2, <1>3 DEF Sent

\* The server handles a packet of e.
LEMMA Relayed ==
    ASSUME Typed, NEW e \in Editors, Relay(e), Answerable(e)
    PROVE  LET packet == Head(atServer[e])
           IN  /\ Answerable(e)'
               /\ 1 \in DOMAIN atServer[e] /\ packet = atServer[e][1] /\ packet \in Packet
               /\ \A i \in DOMAIN out'[e].packet :
                    \/ i \in DOMAIN out[e].packet /\ out'[e].packet[i] = out[e].packet[i]
                    \/ /\ out[e].pending # None /\ out'[e].packet[i] = out[e].pending[i]
               /\ \A k \in DOMAIN atServer'[e] :
                    \/ k + 1 \in DOMAIN atServer[e] /\ atServer'[e][k] = atServer[e][k + 1]
                    \/ atServer'[e][k].els = out'[e].packet
               /\ out'[e].trail = out[e].trail
               /\ \/ out'[e].pending = out[e].pending
                  \/ out'[e].pending = None
               /\ out[e].pending # None /\ out'[e].pending = None =>
                    \A i \in Ids : \/ i \in DOMAIN out'[e].packet
                                      /\ out'[e].packet[i] = out[e].pending[i]
                                   \/ out[e].pending[i] = synced'[e][i]
               /\ \A i \in Ids :
                    synced'[e][i] = IF packet.live /\ i \in DOMAIN packet.els
                                    THEN packet.els[i] ELSE synced[e][i]
               /\ \A i \in DOMAIN out[e].packet :
                    \/ i \in DOMAIN out'[e].packet /\ out'[e].packet[i] = out[e].packet[i]
                    \/ /\ packet.live /\ i \in DOMAIN packet.els
                       /\ packet.els[i] = out[e].packet[i]
<1>. DEFINE packet == Head(atServer[e])
            known == Known(e, packet)
            o == [out[e] EXCEPT !.lane = "idle", !.packet = Nothing]
<1>1. /\ atServer[e] \in Seq(Packet) /\ atServer[e] # << >> /\ 1 \in DOMAIN atServer[e]
      /\ packet = atServer[e][1] /\ packet \in Packet
  BY DEF Relay, Typed, Packets
<1>2. /\ Tail(atServer[e]) \in Seq(Packet) /\ Len(Tail(atServer[e])) = Len(atServer[e]) - 1
      /\ \A k \in DOMAIN Tail(atServer[e]) :
           k + 1 \in DOMAIN atServer[e] /\ Tail(atServer[e])[k] = atServer[e][k + 1]
  BY <1>1
<1>3. /\ o \in Outgoing /\ o.trail = out[e].trail /\ o.pending = out[e].pending
      /\ o.packet = Nothing /\ o.lane = "idle"
  BY Updates DEF Typed, Outgoing
<1>4. /\ packet.els \in Update /\ known \in Scene
      /\ \A i \in Ids : known[i] = IF i \in DOMAIN packet.els THEN packet.els[i]
                                   ELSE synced[e][i]
  <2>1. packet.els \in Update /\ synced[e] \in Scene /\ DOMAIN synced[e] = Ids
    BY <1>1 DEF Packet, Typed, Scene
  <2>. QED
    BY <2>1, Updates DEF Known, Over
<1>5. CASE packet.live
  <2>1. 1 = Len(atServer[e]) /\ packet.els = out[e].packet
    BY <1>1, <1>5 DEF Answerable
  <2>2. Tail(atServer[e]) = << >>
    BY <1>1, <1>2, <2>1, EmptySeq
  <2>3. Deliver(e, o, known, << >>) /\ synced' = [synced EXCEPT ![e] = known]
    BY <1>5, <2>2 DEF Relay
  <2>4. << >> \in Packets
    BY DEF Packets
  <2>. HIDE DEF o, known
  <2>5. PICK oo \in Outgoing, kk \in Scene, queue \in Packets :
             oo = o /\ kk = known /\ queue = << >>
    BY <1>3, <1>4, <2>4
  <2>6. Deliver(e, oo, kk, queue)
    BY <2>3, <2>5
  <2>7. PICK p \in Outgoing :
             /\ out' = [out EXCEPT ![e] = p]
             /\ p.trail = oo.trail
             /\ p.pending \in {oo.pending, None}
             /\ \/ p.pending = oo.pending
                \/ \A i \in Ids : \/ i \in DOMAIN p.packet /\ p.packet[i] = oo.pending[i]
                                  \/ oo.pending[i] = kk[i]
             /\ \/ p.packet = oo.packet /\ p.lane = oo.lane
                \/ oo.lane = "idle" /\ p.lane \in {"ready", "sent"} /\ oo.pending # None
                   /\ \A i \in DOMAIN p.packet : p.packet[i] = oo.pending[i]
             /\ \/ atServer' = [atServer EXCEPT ![e] = queue]
                \/ /\ oo.lane = "idle" /\ p.lane = "sent"
                   /\ atServer' = [atServer EXCEPT ![e] =
                        Append(queue, [els |-> p.packet, live |-> TRUE])]
    BY <2>6, Delivers
  <2>8. out'[e] = p /\ synced'[e] = known
    BY <2>3, <2>7 DEF Typed
  <2>9. CASE atServer'[e] = << >>
    <3>1. DOMAIN atServer'[e] = {}
      BY <2>9
    <3>2. Answerable(e)'
      BY <1>3, <2>5, <2>7, <2>8, <3>1, Updates DEF Answerable
    <3>. QED
      BY <1>1, <1>3, <1>4, <1>5, <2>1, <2>5, <2>7, <2>8, <3>1, <3>2, Updates
  <2>10. CASE atServer'[e] # << >>
    <3>. DEFINE new == [els |-> p.packet, live |-> TRUE]
    <3>1. p.lane = "sent" /\ atServer'[e] = Append(<< >>, new)
      BY <2>5, <2>7, <2>10 DEF Typed
    <3>2. new.els = p.packet /\ new \in Packet
      BY DEF Outgoing, Packet
    <3>. HIDE DEF new
    <3>3. /\ Len(atServer'[e]) = 1
          /\ \A k \in DOMAIN atServer'[e] : k = 1 /\ atServer'[e][k] = new
      BY <3>1, <3>2
    <3>4. Answerable(e)'
      BY <2>8, <3>1, <3>2, <3>3 DEF Answerable
    <3>. QED
      BY <1>1, <1>3, <1>4, <1>5, <2>1, <2>5, <2>7, <2>8, <3>2, <3>3, <3>4, Updates
  <2>. QED
    BY <2>9, <2>10
<1>6. CASE ~packet.live
  <2>1. UNCHANGED <<synced, out>> /\ atServer'[e] = Tail(atServer[e])
    BY <1>6 DEF Relay, Typed
  <2>2. Answerable(e)'
    BY <1>1, <1>2, <2>1 DEF Answerable
  <2>. QED
    BY <1>1, <1>2, <1>6, <2>1, <2>2
<1>. QED
  BY <1>5, <1>6

\* Packets stay in order, and older than the scene, in every step.
LEMMA PacketsStep ==
    ASSUME Typed, Typed', LineInv, NEW e \in Editors, Acts(e)
    PROVE  \A f \in Editors : /\ Answerable(f)'
                              /\ \A i \in Spared' : Sent(f, i)'
<1>1. ASSUME NEW f \in Editors, f # e
      PROVE  Answerable(f)' /\ \A i \in Spared' : Sent(f, i)'
  <2>1. /\ scene'[f] = scene[f] /\ synced'[f] = synced[f] /\ out'[f] = out[f]
        /\ atServer'[f] = atServer[f] /\ Spared' \subseteq Spared
    BY <1>1, OthersSame, ScenesGrow
  <2>. QED
    BY <2>1 DEF LineInv, Answerable, Sent
<1>. SUFFICES Answerable(e)' /\ \A i \in Spared' : Sent(e, i)'
  BY <1>1
<1>2. /\ Answerable(e) /\ Spared' \subseteq Spared
      /\ \A i \in Spared' : Sent(e, i) /\ Ordered(e, i)
  BY ScenesGrow DEF LineInv
<1>3. \A i \in Ids : /\ scene[e][i] \in Elem /\ scene'[e][i] \in Elem
                     /\ synced[e][i] \in Elem /\ AtLeast(scene'[e][i], scene'[e][i])
  BY Order DEF Typed, Scene
<1>4. \A i \in Spared' : AtLeast(scene'[e][i], scene[e][i])
  BY ScenesGrow
<1>5. \A i \in Spared' : AtLeast(scene'[e][i], synced[e][i])
  BY <1>2, <1>3, <1>4, Order DEF Sent
<1>6. CASE \E j \in Ids, n \in Nat : Edit(e, j, n)
  <2>1. PICK j \in Ids, n \in Nat : Edit(e, j, n)
    BY <1>6
  <2>2. PICK els \in Scene : els = scene'[e]
    BY DEF Typed
  <2>3. Report(e, els) /\ synced' = synced
    BY <2>1, <2>2 DEF Edit, Typed
  <2>. QED
    BY <1>2, <1>3, <1>4, <2>2, <2>3, Carried, CarriedOlder
<1>7. CASE Echo(e)
  <2>1. PICK els \in Scene : els = scene[e]
    BY DEF Typed
  <2>2. Report(e, els) /\ synced' = synced /\ scene' = scene
    BY <1>7, <2>1 DEF Echo
  <2>. QED
    BY <1>2, <1>3, <1>4, <2>1, <2>2, Carried, CarriedOlder
<1>8. CASE ThrottleFires(e)
  <2>1. PICK els \in Scene : els = out[e].trail
    BY <1>8 DEF ThrottleFires, Typed, Outgoing
  <2>2. Report(e, els) /\ synced' = synced /\ scene' = scene /\ out[e].trail # None
    BY <1>8, <2>1 DEF ThrottleFires, Report
  <2>3. \A i \in Spared' : AtLeast(scene'[e][i], els[i])
    BY <1>2, <2>1, <2>2 DEF Ordered
  <2>. QED
    BY <1>2, <1>4, <2>2, <2>3, Carried, CarriedOlder
<1>9. CASE Resend(e)
  <2>. DEFINE new == [els |-> out[e].packet, live |-> TRUE]
  <2>1. /\ out'[e].packet = out[e].packet /\ out'[e].lane = "sent" /\ out[e].lane = "ready"
        /\ atServer'[e] = Append(atServer[e], new) /\ atServer[e] \in Seq(Packet)
        /\ synced' = synced /\ scene' = scene
    BY <1>9 DEF Resend, Typed, Outgoing, Packets
  <2>2. new \in Packet /\ new.els = out[e].packet
    BY DEF Packet, Typed, Outgoing
  <2>. HIDE DEF new
  <2>3. /\ Len(atServer'[e]) = Len(atServer[e]) + 1
        /\ \A k \in DOMAIN atServer'[e] :
             \/ k \in DOMAIN atServer[e] /\ atServer'[e][k] = atServer[e][k]
             \/ k = Len(atServer'[e]) /\ atServer'[e][k] = new
    BY <2>1, <2>2
  <2>. QED
    BY <1>2, <2>1, <2>2, <2>3 DEF Answerable, Sent
<1>10. CASE Relay(e)
  <2>. DEFINE packet == Head(atServer[e])
  <2>0. packet \in Packet /\ packet.els \in Update /\ out[e].packet \in Update
    BY <1>2, <1>10, Relayed DEF Packet, Typed, Outgoing
  <2>1. Answerable(e)'
    BY <1>2, <1>10, Relayed
  <2>2. ASSUME NEW i \in Spared' PROVE Sent(e, i)'
    <3>1. scene' = scene /\ Sent(e, i) /\ Ordered(e, i)
      BY <1>2, <1>10 DEF Relay
    <3>2. AtLeast(scene[e][i], synced'[e][i])
      BY <1>2, <1>10, <3>1, Relayed DEF Sent
    <3>3. ASSUME i \in DOMAIN out'[e].packet
          PROVE  AtLeast(scene[e][i], out'[e].packet[i])
      BY <1>2, <1>10, <3>1, <3>3, Relayed DEF Sent, Ordered, Behind
    <3>4. ASSUME NEW k \in DOMAIN atServer'[e], i \in DOMAIN atServer'[e][k].els
          PROVE  AtLeast(scene[e][i], atServer'[e][k].els[i])
      BY <1>2, <1>10, <3>1, <3>3, <3>4, Relayed DEF Sent
    <3>. QED
      BY <3>1, <3>2, <3>3, <3>4 DEF Sent
  <2>. QED
    BY <2>1, <2>2
<1>11. CASE Timeout(e)
  <2>. DEFINE new == [els |-> out[e].packet, live |-> TRUE]
              older == [k \in DOMAIN atServer[e] |-> [atServer[e][k] EXCEPT !.live = FALSE]]
  <2>1. /\ UNCHANGED <<out, synced, scene>> /\ out[e].lane = "sent"
        /\ atServer'[e] = Append(older, new) /\ atServer[e] \in Seq(Packet)
    BY <1>11 DEF Timeout, Typed, Packets
  <2>2. new \in Packet /\ new.els = out[e].packet
    BY DEF Packet, Typed, Outgoing
  <2>3. /\ older \in Seq(Packet) /\ Len(older) = Len(atServer[e])
        /\ \A k \in DOMAIN older : /\ k \in DOMAIN atServer[e] /\ ~older[k].live
                                   /\ older[k].els = atServer[e][k].els
    <3>1. ASSUME NEW k \in DOMAIN atServer[e]
          PROVE  /\ [atServer[e][k] EXCEPT !.live = FALSE] \in Packet
                 /\ ~[atServer[e][k] EXCEPT !.live = FALSE].live
                 /\ [atServer[e][k] EXCEPT !.live = FALSE].els = atServer[e][k].els
      <4>1. atServer[e][k] \in Packet
        BY <2>1
      <4>. QED
        BY <4>1 DEF Packet
    <3>2. DOMAIN atServer[e] = 1..Len(atServer[e]) /\ Len(atServer[e]) \in Nat
      BY <2>1
    <3>. QED
      BY <3>1, <3>2
  <2>. HIDE DEF new, older
  <2>4. /\ Len(atServer'[e]) = Len(older) + 1
        /\ \A k \in DOMAIN atServer'[e] :
             \/ k \in DOMAIN older /\ atServer'[e][k] = older[k]
             \/ k = Len(atServer'[e]) /\ atServer'[e][k] = new
    BY <2>1, <2>2, <2>3
  <2>. QED
    BY <1>2, <2>1, <2>2, <2>3, <2>4 DEF Answerable, Sent
<1>12. CASE Drop(e)
  <2>1. /\ UNCHANGED <<synced, scene>> /\ atServer'[e] = << >>
        /\ out'[e].packet = out[e].packet
        /\ out'[e].lane = "idle" => out[e].lane = "idle"
    BY <1>12 DEF Drop, Interrupted, Typed, Outgoing
  <2>2. DOMAIN atServer'[e] = {}
    BY <2>1
  <2>. QED
    BY <1>2, <2>1, <2>2 DEF Answerable, Sent
<1>13. CASE Rejoin(e) \/ DebounceFires(e) \/ Put(e) \/ SaveFails(e)
  <2>1. UNCHANGED <<scene, synced, out, atServer>>
    BY <1>13 DEF Rejoin, DebounceFires, Put, SaveFails
  <2>. QED
    BY <1>2, <2>1 DEF Answerable, Sent
<1>14. CASE \E p \in Grips : Flush(e, p)
  <2>1. PICK p \in Grips : Flush(e, p)
    BY <1>14
  <2>. DEFINE shown == Shown(e, Reconcile(scene[e], arrived[e], p))
  <2>2. shown \in Scene /\ DOMAIN shown = Ids /\ DOMAIN arrived[e] \subseteq Ids
    <3>1. scene[e] \in Scene /\ arrived[e] \in Update
      BY DEF Typed
    <3>2. Reconcile(scene[e], arrived[e], p) \in Scene
      BY <3>1, Merged
    <3>3. shown \in Scene
      BY <3>2, ShownMerge
    <3>. QED
      BY <3>1, <3>3, Updates DEF Scene
  <2>3. /\ UNCHANGED <<out, atServer>> /\ scene'[e] = shown
        /\ synced'[e] = Over([j \in DOMAIN arrived[e] |-> shown[j]], synced[e])
    BY <2>1 DEF Flush, Typed
  <2>. HIDE DEF shown
  <2>4. \A i \in Ids : synced'[e][i] = scene'[e][i] \/ synced'[e][i] = synced[e][i]
    BY <2>2, <2>3 DEF Over, Typed, Scene
  <2>5. Answerable(e)'
    BY <1>2, <2>3 DEF Answerable
  <2>. QED
    BY <1>2, <1>3, <1>4, <1>5, <2>3, <2>4, <2>5, GrownOlder
<1>15. CASE \E p \in Grips : Rebase(e, p)
  <2>1. UNCHANGED <<synced, out, atServer>>
    BY <1>15 DEF Rebase
  <2>2. Answerable(e)'
    BY <1>2, <2>1 DEF Answerable
  <2>. QED
    BY <1>2, <1>4, <1>5, <2>1, <2>2, GrownOlder
<1>. QED
  BY <1>6, <1>7, <1>8, <1>9, <1>10, <1>11, <1>12, <1>13, <1>14, <1>15 DEF Acts, Work, Mishap

-----------------------------------------------------------------------------
(* The order of what waits *)

\* What Finish leaves of a queue.
LEMMA Finished ==
    ASSUME Typed, NEW e \in Editors, NEW version \in Nat, Finish(e, version)
    PROVE  \/ /\ saves[e].queue = << >> /\ saves'[e].queue = << >>
              /\ saves'[e].job = NoSave /\ ~Active(e)'
           \/ /\ 1 \in DOMAIN saves[e].queue /\ Active(e)'
              /\ saves'[e].job = Job(saves[e].queue[1], version)
              /\ saves'[e].job.els = saves[e].queue[1]
              /\ saves'[e].job.base = version /\ saves'[e].job.got = None
              /\ \A k \in DOMAIN saves'[e].queue :
                   k + 1 \in DOMAIN saves[e].queue /\ saves'[e].queue[k] = saves[e].queue[k + 1]
              /\ \A k \in DOMAIN saves[e].queue :
                   \/ k = 1
                   \/ k - 1 \in DOMAIN saves'[e].queue /\ saves'[e].queue[k - 1] = saves[e].queue[k]
<1>1. CASE saves[e].queue = << >>
  <2>1. saves' = [saves EXCEPT ![e].job = NoSave]
    BY <1>1 DEF Finish, SetJob
  <2>2. saves'[e].queue = << >> /\ saves'[e].job = NoSave
    BY <1>1, <2>1 DEF Typed
  <2>. QED
    BY <1>1, <2>2 DEF Active, NoSave
<1>2. CASE saves[e].queue # << >>
  <2>. DEFINE queue == saves[e].queue
  <2>1. queue \in Seq(Scene) /\ queue # << >>
    BY <1>2 DEF Typed
  <2>2. /\ 1 \in DOMAIN queue /\ Head(queue) = queue[1] /\ queue[1] \in Scene
        /\ \A k \in DOMAIN Tail(queue) : k + 1 \in DOMAIN queue /\ Tail(queue)[k] = queue[k + 1]
        /\ \A k \in DOMAIN queue :
             k = 1 \/ (k - 1 \in DOMAIN Tail(queue) /\ Tail(queue)[k - 1] = queue[k])
    BY <2>1
  <2>3. /\ saves'[e].queue = Tail(queue) /\ saves'[e].job = Job(queue[1], version)
    BY <1>2, <2>2 DEF Finish, Typed
  <2>. HIDE DEF queue
  <2>4. /\ Job(queue[1], version).pc = "put" /\ Job(queue[1], version).els = queue[1]
        /\ Job(queue[1], version).base = version /\ Job(queue[1], version).got = None
    BY <2>2, SavesTyped
  <2>. QED
    BY <2>2, <2>3, <2>4 DEF queue, Active
<1>. QED
  BY <1>1, <1>2

\* The copies of an element that an editor holds.
LEMMA Copies ==
    ASSUME Typed, NEW e \in Editors, NEW i \in Ids
    PROVE  /\ scene[e][i] \in Elem /\ synced[e][i] \in Elem /\ row.els[i] \in Elem
           /\ out[e].trail # None => out[e].trail \in Scene /\ out[e].trail[i] \in Elem
           /\ out[e].pending # None => out[e].pending \in Scene /\ out[e].pending[i] \in Elem
           /\ due[e] # None => due[e] \in Scene /\ due[e][i] \in Elem
           /\ \A k \in DOMAIN saves[e].queue :
                saves[e].queue[k] \in Scene /\ saves[e].queue[k][i] \in Elem
           /\ Active(e) => saves[e].job.els \in Scene /\ saves[e].job.els[i] \in Elem
<1>1. /\ scene[e] \in Scene /\ synced[e] \in Scene /\ row.els \in Scene
      /\ out[e].trail \in Scene \union {None} /\ out[e].pending \in Scene \union {None}
      /\ due[e] \in Scene \union {None}
  BY DEF Typed, Outgoing, Row
<1>2. Active(e) => saves[e].job.els \in Scene
  BY DEF Typed, SaveJob, Active
<1>3. \A k \in DOMAIN saves[e].queue : saves[e].queue[k] \in Scene
  <2>1. saves[e].queue \in Seq(Scene)
    BY DEF Typed
  <2>. QED
    BY <2>1
<1>. QED
  BY <1>1, <1>2, <1>3 DEF Scene

\* What is no older than the snapshots taken stays so.
LEMMA BehindNewer ==
    ASSUME Typed, NEW e \in Editors, NEW i \in Ids, NEW x \in Elem, NEW y \in Elem,
           AtLeast(y, x)
    PROVE  /\ SavesBehind(e, i, x) => SavesBehind(e, i, y)
           /\ Behind(e, i, x) => Behind(e, i, y)
BY Copies, Order DEF SavesBehind, Behind

\* A report of a scene no older than the snapshots keeps them in order.
LEMMA ReportedOrder ==
    ASSUME Typed, Typed', NEW e \in Editors, NEW els \in Scene, Report(e, els),
           saves' = saves, NEW i \in Ids, Ordered(e, i), Behind(e, i, els[i]),
           AtLeast(scene'[e][i], els[i]), AtLeast(scene'[e][i], scene[e][i])
    PROVE  Ordered(e, i)'
<1>1. PICK y \in Elem : y = scene'[e][i]
  BY DEF Typed, Scene
<1>2. Behind(e, i, y) /\ AtLeast(y, els[i]) /\ els[i] \in Elem /\ els # None
  BY <1>1, BehindNewer, Copies, PlanAssumption DEF Ordered, Scene
<1>3. ASSUME NEW x \in Elem, SavesBehind(e, i, x)
      PROVE  SavesBehind(e, i, x)'
  BY <1>3 DEF SavesBehind, Active
<1>4. SavesBehind(e, i, els[i])' /\ SavesBehind(e, i, y)'
  BY <1>2, <1>3 DEF Behind
<1>5. CASE QueueUpdate(e, els)
  <2>1. out'[e].trail = None /\ out'[e].pending \in {els, None}
    BY <1>5, QueuedLane
  <2>2. \/ due'[e] = els
        \/ due'[e] = due[e]
    BY <1>5, QueuedLane
  <2>3. Behind(e, i, y)'
    BY <1>2, <1>4, <2>1, <2>2 DEF Behind
  <2>4. due'[e] # None => SavesBehind(e, i, due[e][i])'
    <3>1. CASE due'[e] = els
      BY <1>4, <3>1
    <3>2. CASE due'[e] = due[e]
      BY <3>2 DEF Ordered, SavesBehind, Active
    <3>. QED
      BY <2>2, <3>1, <3>2
  <2>. QED
    BY <1>1, <2>1, <2>3, <2>4 DEF Ordered, Active
<1>6. CASE out' = [out EXCEPT ![e].trail = els] /\ UNCHANGED <<due, atServer>>
  <2>1. out'[e].trail = els /\ out'[e].pending = out[e].pending /\ due'[e] = due[e]
    BY <1>6 DEF Typed, Outgoing
  <2>2. Behind(e, i, y)' /\ Behind(e, i, els[i])'
    BY <1>2, <1>4, <2>1 DEF Behind
  <2>3. due'[e] # None => SavesBehind(e, i, due[e][i])'
    BY <2>1 DEF Ordered, SavesBehind, Active
  <2>. QED
    BY <1>1, <1>2, <2>1, <2>2, <2>3 DEF Ordered, Active
<1>. QED
  BY <1>5, <1>6 DEF Report

\* So does a step that takes no snapshot and saves none.
LEMMA GrownOrder ==
    ASSUME Typed, Typed', NEW e \in Editors, NEW i \in Ids, Ordered(e, i),
           AtLeast(scene'[e][i], scene[e][i]), saves'[e] = saves[e], due'[e] = due[e],
           out'[e].trail = out[e].trail,
           out'[e].pending = out[e].pending \/ out'[e].pending = None
    PROVE  Ordered(e, i)'
<1>1. PICK y \in Elem : y = scene'[e][i]
  BY DEF Typed, Scene
<1>2. scene[e][i] \in Elem /\ Behind(e, i, y)
  BY <1>1, BehindNewer, Copies DEF Ordered
<1>3. Behind(e, i, y)'
  BY <1>2 DEF Behind, SavesBehind, Active
<1>4. out'[e].trail # None => AtLeast(y, out'[e].trail[i]) /\ Behind(e, i, out[e].trail[i])'
  <2>1. SUFFICES ASSUME out[e].trail # None
                 PROVE  AtLeast(y, out[e].trail[i]) /\ Behind(e, i, out[e].trail[i])'
    OBVIOUS
  <2>2. AtLeast(y, out[e].trail[i])
    BY <1>1, <1>2, <2>1, Copies, Order DEF Ordered
  <2>3. Behind(e, i, out[e].trail[i])'
    BY <2>1 DEF Ordered, Behind, SavesBehind, Active
  <2>. QED
    BY <2>2, <2>3
<1>. QED
  BY <1>1, <1>3, <1>4 DEF Ordered, SavesBehind, Active

\* And a save that is over, or goes on.
LEMMA FinishedOrder ==
    ASSUME Typed, Typed', NEW e \in Editors, NEW version \in Nat, Finish(e, version),
           scene' = scene, due' = due, out' = out, NEW i \in Ids, Ordered(e, i)
    PROVE  Ordered(e, i)'
<1>1. ASSUME NEW x, SavesBehind(e, i, x)
      PROVE  SavesBehind(e, i, x)'
  BY <1>1, Finished DEF SavesBehind
<1>2. ASSUME NEW x, Behind(e, i, x)
      PROVE  Behind(e, i, x)'
  BY <1>1, <1>2 DEF Behind
<1>3. Behind(e, i, scene[e][i])'
  BY <1>2 DEF Ordered
<1>4. out'[e].trail # None => AtLeast(scene'[e][i], out'[e].trail[i]) /\ Behind(e, i, out[e].trail[i])'
  BY <1>2 DEF Ordered
<1>5. due'[e] # None => SavesBehind(e, i, due[e][i])'
  BY <1>1 DEF Ordered
<1>6. \A k, l \in DOMAIN saves'[e].queue :
        k < l => AtLeast(saves'[e].queue[l][i], saves'[e].queue[k][i])
  <2>. TAKE k, l \in DOMAIN saves'[e].queue
  <2>1. CASE saves'[e].queue = << >>
    BY <2>1
  <2>2. CASE saves'[e].queue # << >>
    <3>1. /\ k + 1 \in DOMAIN saves[e].queue /\ saves'[e].queue[k] = saves[e].queue[k + 1]
          /\ l + 1 \in DOMAIN saves[e].queue /\ saves'[e].queue[l] = saves[e].queue[l + 1]
      BY <2>2, Finished
    <3>2. saves'[e].queue \in Seq(Scene)
      BY DEF Typed
    <3>3. k \in Nat /\ l \in Nat
      BY <3>2
    <3>. QED
      BY <3>1, <3>3 DEF Ordered
  <2>. QED
    BY <2>1, <2>2
<1>7. Active(e)' => \A k \in DOMAIN saves'[e].queue :
        AtLeast(saves'[e].queue[k][i], saves'[e].job.els[i])
  <2>. SUFFICES ASSUME Active(e)', NEW k \in DOMAIN saves'[e].queue
                PROVE  AtLeast(saves'[e].queue[k][i], saves'[e].job.els[i])
    OBVIOUS
  <2>1. /\ 1 \in DOMAIN saves[e].queue /\ saves'[e].job.els = saves[e].queue[1]
        /\ k + 1 \in DOMAIN saves[e].queue /\ saves'[e].queue[k] = saves[e].queue[k + 1]
    BY Finished
  <2>2. saves'[e].queue \in Seq(Scene)
    BY DEF Typed
  <2>3. k \in Nat /\ 1 < k + 1
    BY <2>2
  <2>. QED
    BY <2>1, <2>3 DEF Ordered
<1>. QED
  BY <1>3, <1>4, <1>5, <1>6, <1>7 DEF Ordered

\* A snapshot that joins the saves is the last taken.
LEMMA DebouncedOrder ==
    ASSUME Typed, Typed', NEW e \in Editors, DebounceFires(e), Versions(e),
           NEW i \in Ids, Ordered(e, i)
    PROVE  Ordered(e, i)'
<1>1. /\ due[e] # None /\ due'[e] = None /\ scene' = scene /\ out' = out
      /\ due[e] \in Scene /\ ver[e] \in Nat
  BY DEF DebounceFires, Typed
<1>2. SavesBehind(e, i, due[e][i])
  BY <1>1 DEF Ordered
<1>3. CASE ~Active(e)
  <2>1. saves'[e].job = Job(due[e], ver[e]) /\ saves'[e].queue = << >>
    BY <1>3 DEF DebounceFires, SetJob, Active, Typed, Versions
  <2>2. saves'[e].job.els = due[e] /\ DOMAIN saves'[e].queue = {}
    BY <1>1, <2>1, SavesTyped
  <2>3. ASSUME NEW x, Behind(e, i, x)
        PROVE  Behind(e, i, x)'
    BY <1>1, <2>2, <2>3 DEF Behind, SavesBehind
  <2>4. /\ Behind(e, i, scene[e][i])'
        /\ out'[e].trail # None => /\ AtLeast(scene'[e][i], out'[e].trail[i])
                                   /\ Behind(e, i, out[e].trail[i])'
    BY <1>1, <2>3 DEF Ordered
  <2>. QED
    BY <1>1, <2>2, <2>4 DEF Ordered
<1>4. CASE Active(e)
  <2>1. /\ saves'[e].job = saves[e].job /\ saves'[e].queue = Append(saves[e].queue, due[e])
        /\ saves[e].queue \in Seq(Scene)
    BY <1>4 DEF DebounceFires, Active, Typed
  <2>2. \A k \in DOMAIN saves'[e].queue :
          \/ k \in DOMAIN saves[e].queue /\ saves'[e].queue[k] = saves[e].queue[k]
          \/ k = Len(saves[e].queue) + 1 /\ saves'[e].queue[k] = due[e]
    BY <1>1, <2>1
  <2>3. ASSUME NEW x, Behind(e, i, x)
        PROVE  Behind(e, i, x)'
    BY <1>1, <2>1, <2>2, <2>3 DEF Behind, SavesBehind, Active
  <2>4. /\ Behind(e, i, scene[e][i])'
        /\ out'[e].trail # None => /\ AtLeast(scene'[e][i], out'[e].trail[i])
                                   /\ Behind(e, i, out[e].trail[i])'
    BY <1>1, <2>3 DEF Ordered
  <2>5. ASSUME NEW k \in DOMAIN saves'[e].queue, NEW l \in DOMAIN saves'[e].queue, k < l
        PROVE  AtLeast(saves'[e].queue[l][i], saves'[e].queue[k][i])
    <3>1. k \in DOMAIN saves[e].queue /\ saves'[e].queue[k] = saves[e].queue[k]
      BY <2>1, <2>2, <2>5
    <3>2. CASE l \in DOMAIN saves[e].queue /\ saves'[e].queue[l] = saves[e].queue[l]
      BY <2>5, <3>1, <3>2 DEF Ordered
    <3>3. CASE saves'[e].queue[l] = due[e]
      BY <1>2, <3>1, <3>3 DEF SavesBehind
    <3>. QED
      BY <2>2, <3>2, <3>3
  <2>6. \A k \in DOMAIN saves'[e].queue :
          AtLeast(saves'[e].queue[k][i], saves'[e].job.els[i])
    BY <1>2, <1>4, <2>1, <2>2 DEF Ordered, SavesBehind
  <2>. QED
    BY <1>1, <2>4, <2>5, <2>6 DEF Ordered
<1>. QED
  BY <1>3, <1>4

\* The parts of a rebase that the order and the versions rest on.
LEMMA Rebased ==
    ASSUME Typed, NEW e \in Editors, NEW p, Rebase(e, p), NEW i \in Spared'
    PROVE  LET job == saves[e].job
               merged == Reconcile(job.els, job.got.els, p)
           IN  /\ Active(e) /\ Active(e)' /\ job.got \in Row /\ job.got # None
               /\ scene'[e] = merged /\ saves'[e].job.els = merged
               /\ saves'[e].queue = saves[e].queue
               /\ saves'[e].job.base = job.got.version /\ saves'[e].job.got = None
               /\ ver'[e] = job.got.version
               /\ merged \in Scene /\ merged[i] \in Elem
               /\ job.els[i] \in Elem /\ job.got.els[i] \in Elem
               /\ AtLeast(merged[i], job.els[i])
               /\ merged[i] = job.els[i] \/ merged[i] = job.got.els[i]
               /\ AtLeast(merged[i], job.got.els[i])
               /\ AtLeast(merged[i], scene[e][i])
               /\ out[e].trail # None => AtLeast(out[e].trail[i], job.got.els[i])
               /\ due[e] # None => AtLeast(due[e][i], job.got.els[i])
               /\ \A k \in DOMAIN saves[e].queue :
                    AtLeast(saves[e].queue[k][i], job.got.els[i])
<1>. DEFINE job == saves[e].job
            merged == Reconcile(job.els, job.got.els, p)
<1>1. /\ job \in SaveJob /\ job.els \in Scene /\ job.got \in Row /\ job.got # None
      /\ job.got.els \in Scene /\ job.got.version \in Nat /\ job.pc = "got"
  BY DEF Rebase, Typed, SaveJob, Row
<1>2. job.got.els \in Update
  BY <1>1, Updates DEF Scene
<1>3. /\ merged \in Scene /\ AtLeast(merged[i], job.els[i])
      /\ merged[i] = job.els[i] \/ merged[i] = job.got.els[i]
      /\ AtLeast(merged[i], job.got.els[i]) \/ i \in Refused(job.els, job.got.els, p)
  BY <1>1, <1>2, Merged DEF Scene
<1>4. i \notin LostByRebase(e, merged, job.got.els, p)
  BY DEF Rebase
<1>5. /\ i \notin Refused(job.els, job.got.els, p) /\ AtLeast(merged[i], scene[e][i])
      /\ \A s \in Waiting(e) : AtLeast(s[i], job.got.els[i])
  BY <1>4 DEF LostByRebase, AtLeast
<1>6. /\ out[e].trail # None => out[e].trail \in Waiting(e)
      /\ due[e] # None => due[e] \in Waiting(e)
      /\ \A k \in DOMAIN saves[e].queue : saves[e].queue[k] \in Waiting(e)
  BY DEF Waiting
<1>7. /\ ver' = [ver EXCEPT ![e] = job.got.version]
      /\ scene' = [scene EXCEPT ![e] = merged]
      /\ saves' = [saves EXCEPT ![e].job = [Job(merged, job.got.version) EXCEPT !.attempt = 1]]
  BY DEF Rebase, SetJob
<1>8. LET next == [Job(merged, job.got.version) EXCEPT !.attempt = 1]
      IN  /\ next.pc = "put" /\ next.els = merged
          /\ next.base = job.got.version /\ next.got = None
  BY <1>1, <1>3, SavesTyped DEF SaveJob
<1>9. /\ ver'[e] = job.got.version /\ scene'[e] = merged
      /\ saves'[e].job = [Job(merged, job.got.version) EXCEPT !.attempt = 1]
      /\ saves'[e].queue = saves[e].queue
  BY <1>7 DEF Typed
<1>10. merged[i] \in Elem /\ job.els[i] \in Elem /\ job.got.els[i] \in Elem
  BY <1>1, <1>3 DEF Scene
<1>. HIDE DEF merged, job
<1>11. Active(e) /\ Active(e)'
  BY <1>1, <1>8, <1>9 DEF Active, job
<1>. QED
  BY <1>1, <1>3, <1>5, <1>6, <1>8, <1>9, <1>10, <1>11 DEF merged, job

\* A rebase puts the merged snapshot before those that wait.
LEMMA RebasedOrder ==
    ASSUME Typed, Typed', NEW e \in Editors, NEW p, Rebase(e, p), NEW i \in Spared',
           Ordered(e, i)
    PROVE  Ordered(e, i)'
<1>. DEFINE job == saves[e].job
            merged == Reconcile(job.els, job.got.els, p)
<1>1. due'[e] = due[e] /\ out'[e] = out[e]
  BY DEF Rebase
<1>2. PICK y \in Elem : /\ y = merged[i] /\ y = scene'[e][i] /\ y = saves'[e].job.els[i]
                        /\ AtLeast(y, scene[e][i]) /\ AtLeast(y, y)
                        /\ y = job.els[i] \/ y = job.got.els[i]
  BY Rebased, Order
<1>3. Active(e) /\ Active(e)' /\ saves'[e].queue = saves[e].queue
  BY Rebased
<1>4. ASSUME NEW x, SavesBehind(e, i, x), AtLeast(x, job.got.els[i]) \/ AtLeast(x, y)
      PROVE  SavesBehind(e, i, x)'
  BY <1>2, <1>3, <1>4 DEF SavesBehind
<1>5. Behind(e, i, y)
  BY <1>2, BehindNewer, Copies DEF Ordered
<1>6. Behind(e, i, y)'
  BY <1>1, <1>2, <1>4, <1>5 DEF Behind
<1>7. ASSUME out[e].trail # None
      PROVE  AtLeast(y, out[e].trail[i]) /\ Behind(e, i, out[e].trail[i])'
  <2>1. AtLeast(y, out[e].trail[i])
    BY <1>2, <1>7, Copies, Order DEF Ordered
  <2>2. AtLeast(out[e].trail[i], job.got.els[i]) /\ Behind(e, i, out[e].trail[i])
    BY <1>7, Rebased DEF Ordered
  <2>3. SavesBehind(e, i, out[e].trail[i])'
    BY <1>1, <1>4, <2>2 DEF Behind
  <2>. QED
    BY <1>1, <2>1, <2>2, <2>3 DEF Behind
<1>8. ASSUME due[e] # None
      PROVE  SavesBehind(e, i, due[e][i])'
  <2>1. AtLeast(due[e][i], job.got.els[i]) /\ SavesBehind(e, i, due[e][i])
    BY <1>8, Rebased DEF Ordered
  <2>. QED
    BY <1>1, <1>4, <2>1
<1>9. ASSUME NEW k \in DOMAIN saves[e].queue
      PROVE  AtLeast(saves[e].queue[k][i], y)
  <2>1. AtLeast(saves[e].queue[k][i], job.got.els[i])
    BY Rebased
  <2>2. AtLeast(saves[e].queue[k][i], job.els[i])
    BY <1>3 DEF Ordered
  <2>. QED
    BY <1>2, <2>1, <2>2
<1>. QED
  BY <1>1, <1>2, <1>3, <1>6, <1>7, <1>8, <1>9 DEF Ordered

\* A save that met a conflict keeps its snapshot.
LEMMA Conflicted ==
    ASSUME Typed, NEW e \in Editors, Put(e)
    PROVE  /\ Active(e) /\ saves[e].job.els \in Scene /\ row.version \in Nat /\ ver[e] \in Nat
           /\ \/ /\ saves[e].job.base = row.version
                 /\ row' = [version |-> row.version + 1, els |-> saves[e].job.els]
                 /\ ver'[e] = row.version + 1 /\ row.version + 1 \in Nat
                 /\ Finish(e, row.version + 1)
              \/ /\ saves[e].job.base # row.version /\ UNCHANGED <<row, ver>>
                 /\ Active(e)' /\ saves'[e].job.els = saves[e].job.els
                 /\ saves'[e].job.base = saves[e].job.base
                 /\ saves'[e].job.got = row /\ saves'[e].queue = saves[e].queue
              \/ /\ saves[e].job.base # row.version /\ UNCHANGED <<row, ver>>
                 /\ Finish(e, ver[e])
                 /\ \A i \in Spared' : saves[e].job.els[i] = row.els[i]
<1>. DEFINE job == saves[e].job
<1>1. /\ job \in SaveJob /\ job.els \in Scene /\ row.version \in Nat /\ ver[e] \in Nat
      /\ job.pc = "put"
  BY DEF Put, Typed, SaveJob, Row
<1>2. CASE job.base = row.version
  BY <1>1, <1>2 DEF Put, Typed, Active
<1>3. CASE job.base # row.version /\ job.attempt = 0
  <2>1. saves' = [saves EXCEPT ![e].job = [job EXCEPT !.pc = "got", !.got = row]]
        /\ UNCHANGED <<row, ver>>
    BY <1>3 DEF Put, SetJob
  <2>2. LET next == [job EXCEPT !.pc = "got", !.got = row]
        IN  next.pc = "got" /\ next.els = job.els /\ next.base = job.base /\ next.got = row
    BY <1>1 DEF SaveJob
  <2>3. saves'[e].job = [job EXCEPT !.pc = "got", !.got = row]
        /\ saves'[e].queue = saves[e].queue
    BY <2>1 DEF Typed
  <2>. QED
    BY <1>1, <1>3, <2>1, <2>2, <2>3 DEF Active
<1>4. CASE job.base # row.version /\ job.attempt > 0
  <2>1. Finish(e, ver[e]) /\ UNCHANGED <<row, ver>> /\ stray' = stray \union Differing(job.els, row.els)
    BY <1>1, <1>4 DEF Put, SaveJob
  <2>. QED
    BY <1>1, <1>4, <2>1 DEF Active, Differing, Scene
<1>5. job.attempt = 0 \/ job.attempt > 0
  BY <1>1 DEF SaveJob
<1>. QED
  BY <1>2, <1>3, <1>4, <1>5

\* Snapshots wait in the order they were taken in, after every step.
LEMMA OrderStep ==
    ASSUME Typed, Typed', LineInv, NEW e \in Editors, Acts(e)
    PROVE  \A f \in Editors : \A i \in Spared' : Ordered(f, i)'
<1>. SUFFICES ASSUME NEW f \in Editors, NEW i \in Spared' PROVE Ordered(f, i)'
  OBVIOUS
<1>1. /\ Ordered(f, i) /\ Ordered(e, i) /\ Versions(e)
      /\ AtLeast(scene'[e][i], scene[e][i])
  BY ScenesGrow DEF LineInv
<1>2. CASE f # e
  BY <1>1, <1>2, OthersSame DEF Ordered, Behind, SavesBehind, Active
<1>. SUFFICES Ordered(e, i)'
  BY <1>2
<1>3. /\ scene[e][i] \in Elem /\ scene'[e][i] \in Elem /\ scene'[e] \in Scene
      /\ AtLeast(scene'[e][i], scene'[e][i]) /\ scene[e] \in Scene
  BY Order DEF Typed, Scene
<1>4. CASE \E j \in Ids, n \in Nat : Edit(e, j, n)
  <2>1. PICK els \in Scene : els = scene'[e]
    BY <1>3
  <2>2. Report(e, els) /\ saves' = saves
    BY <1>4, <2>1 DEF Edit, Typed
  <2>3. Behind(e, i, els[i]) /\ AtLeast(scene'[e][i], els[i])
    BY <1>1, <1>3, <2>1, BehindNewer DEF Ordered
  <2>. QED
    BY <1>1, <2>2, <2>3, ReportedOrder
<1>5. CASE Echo(e)
  <2>1. PICK els \in Scene : els = scene[e]
    BY <1>3
  <2>2. Report(e, els) /\ saves' = saves
    BY <1>5, <2>1 DEF Echo
  <2>3. Behind(e, i, els[i]) /\ AtLeast(scene'[e][i], els[i])
    BY <1>1, <2>1 DEF Ordered
  <2>. QED
    BY <1>1, <2>2, <2>3, ReportedOrder
<1>6. CASE ThrottleFires(e)
  <2>1. PICK els \in Scene : els = out[e].trail
    BY <1>6 DEF ThrottleFires, Typed, Outgoing
  <2>2. Report(e, els) /\ saves' = saves /\ scene' = scene /\ out[e].trail # None
    BY <1>6, <2>1 DEF ThrottleFires, Report
  <2>3. Behind(e, i, els[i]) /\ AtLeast(scene'[e][i], els[i])
    BY <1>1, <2>1, <2>2 DEF Ordered
  <2>. QED
    BY <1>1, <2>2, <2>3, ReportedOrder
<1>7. CASE Resend(e) \/ Timeout(e) \/ Drop(e) \/ Rejoin(e) \/ \E p \in Grips : Flush(e, p)
  <2>1. /\ saves' = saves /\ due' = due
        /\ out'[e].trail = out[e].trail /\ out'[e].pending = out[e].pending
    <3>1. CASE Drop(e)
      BY <3>1 DEF Drop, Interrupted, Typed, Outgoing
    <3>2. CASE Resend(e) \/ Timeout(e) \/ Rejoin(e)
      BY <3>2 DEF Resend, Timeout, Rejoin, Typed, Outgoing
    <3>3. CASE \E p \in Grips : Flush(e, p)
      BY <3>3 DEF Flush
    <3>. QED
      BY <1>7, <3>1, <3>2, <3>3
  <2>. QED
    BY <1>1, <2>1, GrownOrder
<1>8. CASE Relay(e)
  <2>1. saves' = saves /\ due' = due
    BY <1>8 DEF Relay
  <2>2. /\ out'[e].trail = out[e].trail
        /\ out'[e].pending = out[e].pending \/ out'[e].pending = None
    BY <1>8, Relayed DEF LineInv
  <2>. QED
    BY <1>1, <2>1, <2>2, GrownOrder
<1>9. CASE DebounceFires(e)
  BY <1>1, <1>9, DebouncedOrder
<1>10. CASE Put(e)
  <2>1. scene' = scene /\ due' = due /\ out' = out
    BY <1>10 DEF Put
  <2>2. CASE \E n \in Nat : Finish(e, n)
    BY <1>1, <2>1, <2>2, FinishedOrder
  <2>3. CASE /\ Active(e)' /\ saves'[e].job.els = saves[e].job.els
             /\ saves'[e].queue = saves[e].queue
    <3>1. Active(e)
      BY <1>10, Conflicted
    <3>. QED
      BY <1>1, <2>1, <2>3, <3>1 DEF Ordered, Behind, SavesBehind
  <2>. QED
    BY <1>10, <2>2, <2>3, Conflicted
<1>11. CASE SaveFails(e)
  <2>1. /\ scene' = scene /\ due' = due /\ out' = out /\ Finish(e, ver[e]) /\ ver[e] \in Nat
    BY <1>11 DEF SaveFails, Typed
  <2>. QED
    BY <1>1, <2>1, FinishedOrder
<1>12. CASE \E p \in Grips : Rebase(e, p)
  BY <1>1, <1>12, RebasedOrder
<1>. QED
  BY <1>4, <1>5, <1>6, <1>7, <1>8, <1>9, <1>10, <1>11, <1>12 DEF Acts, Work, Mishap

\* The row is written by a save based on the version it has, or not at all.
LEMMA RowMoves ==
    ASSUME Typed, NEW e \in Editors, Acts(e)
    PROVE  /\ row.version \in Nat
           /\ \/ row' = row
              \/ /\ Active(e) /\ saves[e].job.base = row.version
                 /\ row'.version = row.version + 1 /\ row'.els = saves[e].job.els
                 /\ Put(e) \/ SaveFails(e)
<1>1. row.version \in Nat
  BY DEF Typed, Row
<1>2. CASE Put(e) \/ SaveFails(e)
  BY <1>1, <1>2 DEF Put, SaveFails, Active
<1>3. CASE \E p \in Grips : Flush(e, p) \/ Rebase(e, p)
  BY <1>1, <1>3 DEF Flush, Rebase
<1>. QED
  BY <1>1, <1>2, <1>3 DEF Acts, Work, Mishap, Edit, Echo, ThrottleFires, Resend, Relay,
     Rejoin, DebounceFires, Timeout, Drop

\* What a step leaves of an editor's saves.
LEMMA SavesMove ==
    ASSUME Typed, NEW e \in Editors, Acts(e)
    PROVE  \/ saves' = saves /\ ver' = ver /\ row' = row /\ ~DebounceFires(e)
           \/ DebounceFires(e) \/ Put(e) \/ SaveFails(e) \/ \E p \in Grips : Rebase(e, p)
BY DEF Acts, Work, Mishap, Edit, Echo, ThrottleFires, Resend, Relay, Rejoin, Timeout,
   Drop, Flush

\* No version is ahead of the row's, and a version tells the elements, after every step.
LEMMA VersionsStep ==
    ASSUME Typed, Typed', LineInv, NEW e \in Editors, Acts(e)
    PROVE  \A f \in Editors : Versions(f)'
<1>1. ASSUME NEW f \in Editors, f # e
      PROVE  Versions(f)'
  <2>1. Versions(f) /\ ver'[f] = ver[f] /\ saves'[f] = saves[f]
    BY <1>1, OthersSame DEF LineInv
  <2>2. /\ ver[f] \in Nat /\ saves[f].job.base \in Nat
        /\ saves[f].job.got # None => saves[f].job.got.version \in Nat
    BY DEF Typed, SaveJob, Row
  <2>. QED
    BY <2>1, <2>2, RowMoves DEF Versions, Active
<1>. SUFFICES Versions(e)'
  BY <1>1
<1>2. /\ Versions(e) /\ ver[e] \in Nat /\ row.version \in Nat /\ saves[e].job.base \in Nat
      /\ NoSave.got = None /\ NoSave.pc = "idle"
  BY DEF LineInv, Typed, SaveJob, Row, NoSave
<1>3. CASE saves' = saves /\ ver' = ver /\ row' = row
  BY <1>2, <1>3 DEF Versions, Active
<1>4. CASE DebounceFires(e)
  <2>1. row' = row /\ ver' = ver /\ due[e] \in Scene
    BY <1>4 DEF DebounceFires, Typed
  <2>2. CASE ~Active(e)
    <3>1. saves'[e].job = Job(due[e], ver[e])
      BY <1>4, <2>2 DEF DebounceFires, SetJob, Active, Typed
    <3>2. /\ saves'[e].job.pc = "put" /\ saves'[e].job.base = ver[e]
          /\ saves'[e].job.got = None
      BY <1>2, <2>1, <3>1, SavesTyped
    <3>. QED
      BY <1>2, <2>1, <3>2 DEF Versions, Active
  <2>3. CASE Active(e)
    <3>1. saves'[e].job = saves[e].job
      BY <1>4, <2>3 DEF DebounceFires, Active, Typed
    <3>. QED
      BY <1>2, <2>1, <2>3, <3>1 DEF Versions, Active
  <2>. QED
    BY <2>2, <2>3
<1>5. ASSUME NEW n \in Nat, Finish(e, n), n <= row'.version, ver'[e] <= row'.version
      PROVE  Versions(e)'
  BY <1>2, <1>5, Finished DEF Versions
<1>6. CASE Put(e)
  <2>1. CASE ver'[e] = row.version + 1 /\ row'.version = row.version + 1
             /\ Finish(e, row.version + 1)
    BY <1>2, <1>5, <2>1
  <2>2. CASE Finish(e, ver[e]) /\ UNCHANGED <<row, ver>>
    BY <1>2, <1>5, <2>2 DEF Versions
  <2>3. CASE /\ UNCHANGED <<row, ver>> /\ Active(e)'
             /\ saves'[e].job.base = saves[e].job.base /\ saves'[e].job.got = row
    <3>1. Active(e)
      BY <1>6, Conflicted
    <3>. QED
      BY <1>2, <2>3, <3>1 DEF Versions
  <2>. QED
    BY <1>6, <2>1, <2>2, <2>3, Conflicted
<1>7. CASE SaveFails(e)
  <2>1. Finish(e, ver[e]) /\ ver' = ver
    BY <1>7 DEF SaveFails
  <2>2. row'.version = row.version \/ row'.version = row.version + 1
    BY RowMoves
  <2>. QED
    BY <1>2, <1>5, <2>1, <2>2 DEF Versions
<1>8. CASE \E p \in Grips : Rebase(e, p)
  <2>1. row' = row
    BY <1>8 DEF Rebase
  <2>2. /\ Active(e)' /\ ver'[e] = saves[e].job.got.version
        /\ saves'[e].job.base = saves[e].job.got.version
        /\ saves[e].job.got # None /\ saves'[e].job.got = None
    <3>1. PICK p \in Grips : Rebase(e, p)
      BY <1>8
    <3>2. /\ saves[e].job.got # None /\ saves[e].job.got.version \in Nat
          /\ Reconcile(saves[e].job.els, saves[e].job.got.els, p) \in Scene
      BY <3>1 DEF Rebase, Typed, SaveJob, Row, Reconcile, Scene
    <3>3. PICK version \in Nat, merged \in Scene :
            /\ version = saves[e].job.got.version
            /\ merged = Reconcile(saves[e].job.els, saves[e].job.got.els, p)
      BY <3>2
    <3>4. /\ ver' = [ver EXCEPT ![e] = version]
          /\ saves' = [saves EXCEPT ![e].job = [Job(merged, version) EXCEPT !.attempt = 1]]
      BY <3>1, <3>3 DEF Rebase, SetJob
    <3>5. LET next == [Job(merged, version) EXCEPT !.attempt = 1]
          IN  next.pc = "put" /\ next.base = version /\ next.got = None
      BY SavesTyped DEF SaveJob
    <3>6. ver'[e] = version /\ saves'[e].job = [Job(merged, version) EXCEPT !.attempt = 1]
      BY <3>4 DEF Typed
    <3>. QED
      BY <3>2, <3>3, <3>5, <3>6 DEF Active
  <2>. QED
    BY <1>2, <2>1, <2>2 DEF Versions
<1>. QED
  BY <1>3, <1>4, <1>6, <1>7, <1>8, SavesMove

\* What a report of a scene no older than the row leaves to save is no older either.
LEMMA ReportedCurrent ==
    ASSUME Typed, Typed', NEW e \in Editors, NEW els \in Scene, Report(e, els),
           saves' = saves, ver' = ver, row' = row, NEW i \in Ids, Current(e, i),
           ver[e] = row.version => AtLeast(els[i], row.els[i]),
           ver[e] = row.version => AtLeast(scene'[e][i], row.els[i])
    PROVE  Current(e, i)'
<1>1. /\ out'[e].trail \in {None, els}
      /\ due'[e] = els \/ due'[e] = due[e]
  <2>1. CASE QueueUpdate(e, els)
    BY <2>1, QueuedLane
  <2>2. CASE out' = [out EXCEPT ![e].trail = els] /\ UNCHANGED <<due, atServer>>
    BY <2>2 DEF Typed, Outgoing
  <2>. QED
    BY <2>1, <2>2 DEF Report
<1>. QED
  BY <1>1 DEF Current, Active

\* What would be saved under the row's version stays no older than the row.
LEMMA CurrentStep ==
    ASSUME Typed, Typed', LineInv, NEW e \in Editors, Acts(e)
    PROVE  \A f \in Editors : \A i \in Spared' : Current(f, i)'
<1>. SUFFICES ASSUME NEW f \in Editors, NEW i \in Spared' PROVE Current(f, i)'
  OBVIOUS
<1>1. /\ Current(f, i) /\ Current(e, i) /\ Ordered(e, i) /\ Versions(e) /\ Versions(f)
      /\ AtLeast(scene'[e][i], scene[e][i]) /\ i \in Ids
  BY ScenesGrow DEF LineInv
<1>2. /\ row.version \in Nat /\ ver[e] \in Nat /\ ver[f] \in Nat
      /\ saves[e].job.base \in Nat /\ saves[f].job.base \in Nat
  BY DEF Typed, Row, SaveJob
<1>3. CASE f # e
  <2>1. /\ scene'[f] = scene[f] /\ out'[f] = out[f] /\ due'[f] = due[f]
        /\ saves'[f] = saves[f] /\ ver'[f] = ver[f]
    BY <1>3, OthersSame
  <2>2. row' = row \/ row'.version = row.version + 1
    BY RowMoves
  <2>. QED
    BY <1>1, <1>2, <2>1, <2>2 DEF Current, Versions, Active
<1>. SUFFICES Current(e, i)'
  BY <1>3
<1>4. /\ scene[e][i] \in Elem /\ scene'[e][i] \in Elem /\ row.els[i] \in Elem
      /\ scene'[e] \in Scene /\ scene[e] \in Scene
  BY DEF Typed, Scene, Row
<1>5. ver[e] = row.version => AtLeast(scene'[e][i], row.els[i])
  BY <1>1, <1>4, Order DEF Current
<1>6. CASE \E j \in Ids, n \in Nat : Edit(e, j, n)
  <2>1. PICK els \in Scene : els = scene'[e]
    BY <1>4
  <2>2. Report(e, els) /\ saves' = saves /\ ver' = ver /\ row' = row
    BY <1>6, <2>1 DEF Edit, Typed
  <2>. QED
    BY <1>1, <1>5, <2>1, <2>2, ReportedCurrent
<1>7. CASE Echo(e)
  <2>1. PICK els \in Scene : els = scene[e]
    BY <1>4
  <2>2. Report(e, els) /\ saves' = saves /\ ver' = ver /\ row' = row /\ scene' = scene
    BY <1>7, <2>1 DEF Echo
  <2>. QED
    BY <1>1, <1>5, <2>1, <2>2, ReportedCurrent
<1>8. CASE ThrottleFires(e)
  <2>1. PICK els \in Scene : els = out[e].trail
    BY <1>8 DEF ThrottleFires, Typed, Outgoing
  <2>2. /\ Report(e, els) /\ saves' = saves /\ ver' = ver /\ row' = row
        /\ out[e].trail # None
    BY <1>8, <2>1 DEF ThrottleFires, Report
  <2>3. ver[e] = row.version => AtLeast(els[i], row.els[i])
    BY <1>1, <2>1, <2>2 DEF Current
  <2>. QED
    BY <1>1, <1>5, <2>2, <2>3, ReportedCurrent
<1>9. CASE /\ saves' = saves /\ ver' = ver /\ row' = row /\ due' = due
           /\ out'[e].trail = out[e].trail
  BY <1>1, <1>5, <1>9 DEF Current, Active
<1>10. CASE Resend(e) \/ Timeout(e) \/ Drop(e) \/ Rejoin(e) \/ \E p \in Grips : Flush(e, p)
  <2>1. saves' = saves /\ ver' = ver /\ row' = row /\ due' = due
    BY <1>10 DEF Resend, Timeout, Drop, Rejoin, Flush
  <2>2. out'[e].trail = out[e].trail
    <3>1. CASE Drop(e)
      BY <3>1 DEF Drop, Interrupted, Typed, Outgoing
    <3>2. CASE Resend(e) \/ Timeout(e) \/ Rejoin(e)
      BY <3>2 DEF Resend, Timeout, Rejoin, Typed, Outgoing
    <3>3. CASE \E p \in Grips : Flush(e, p)
      BY <3>3 DEF Flush
    <3>. QED
      BY <1>10, <3>1, <3>2, <3>3
  <2>. QED
    BY <1>9, <2>1, <2>2
<1>11. CASE Relay(e)
  <2>1. saves' = saves /\ ver' = ver /\ row' = row /\ due' = due
    BY <1>11 DEF Relay
  <2>2. out'[e].trail = out[e].trail
    BY <1>11, Relayed DEF LineInv
  <2>. QED
    BY <1>9, <2>1, <2>2
<1>12. CASE DebounceFires(e)
  <2>1. /\ row' = row /\ ver' = ver /\ scene' = scene /\ out' = out
        /\ due[e] \in Scene /\ due[e] # None /\ due'[e] = None
    BY <1>12 DEF DebounceFires, Typed
  <2>2. CASE ~Active(e)
    <3>1. saves'[e].job = Job(due[e], ver[e]) /\ saves'[e].queue = saves[e].queue
      BY <1>12, <2>2 DEF DebounceFires, SetJob, Active, Typed
    <3>2. saves'[e].job.base = ver[e] /\ saves'[e].job.els = due[e]
      BY <1>2, <2>1, <3>1, SavesTyped
    <3>. QED
      BY <1>1, <2>1, <3>1, <3>2 DEF Current
  <2>3. CASE Active(e)
    <3>1. /\ saves'[e].job = saves[e].job /\ saves'[e].queue = Append(saves[e].queue, due[e])
          /\ saves[e].queue \in Seq(Scene)
      BY <1>12, <2>3 DEF DebounceFires, Active, Typed
    <3>2. \A k \in DOMAIN saves'[e].queue :
            \/ k \in DOMAIN saves[e].queue /\ saves'[e].queue[k] = saves[e].queue[k]
            \/ saves'[e].queue[k] = due[e]
      BY <2>1, <3>1
    <3>. QED
      BY <1>1, <2>1, <3>1, <3>2 DEF Current, Active
  <2>. QED
    BY <2>2, <2>3
<1>13. CASE Put(e)
  <2>1. scene' = scene /\ due' = due /\ out' = out
    BY <1>13 DEF Put
  <2>2. CASE /\ Active(e) /\ ver'[e] = row.version + 1 /\ Finish(e, row.version + 1)
             /\ row' = [version |-> row.version + 1, els |-> saves[e].job.els]
    <3>1. row'.els = saves[e].job.els /\ row'.version = row.version + 1
      BY <2>2
    <3>2. /\ AtLeast(scene[e][i], row'.els[i])
          /\ out[e].trail # None => AtLeast(out[e].trail[i], row'.els[i])
          /\ due[e] # None => AtLeast(due[e][i], row'.els[i])
          /\ \A k \in DOMAIN saves[e].queue : AtLeast(saves[e].queue[k][i], row'.els[i])
      BY <1>1, <2>2, <3>1 DEF Ordered, Behind, SavesBehind
    <3>. QED
      BY <1>2, <2>1, <2>2, <3>2, Finished DEF Current
  <2>3. CASE Finish(e, ver[e]) /\ UNCHANGED <<row, ver>>
    BY <1>1, <1>2, <2>1, <2>3, Finished DEF Current
  <2>4. CASE /\ UNCHANGED <<row, ver>> /\ saves'[e].job.els = saves[e].job.els
             /\ saves'[e].job.base = saves[e].job.base /\ saves'[e].queue = saves[e].queue
    <3>1. Active(e)
      BY <1>13, Conflicted
    <3>. QED
      BY <1>1, <2>1, <2>4, <3>1 DEF Current
  <2>. QED
    BY <1>13, <2>2, <2>3, <2>4, Conflicted
<1>14. CASE SaveFails(e)
  <2>1. scene' = scene /\ due' = due /\ out' = out /\ Finish(e, ver[e]) /\ ver' = ver
    BY <1>14 DEF SaveFails
  <2>2. CASE row' = row
    BY <1>1, <1>2, <2>1, <2>2, Finished DEF Current
  <2>3. CASE row'.version = row.version + 1
    BY <1>1, <1>2, <2>1, <2>3, Finished DEF Current, Versions
  <2>. QED
    BY <2>2, <2>3, RowMoves
<1>15. CASE \E p \in Grips : Rebase(e, p)
  <2>1. PICK p \in Grips : Rebase(e, p)
    BY <1>15
  <2>2. row' = row /\ due' = due /\ out' = out
    BY <2>1 DEF Rebase
  <2>3. saves[e].job.got.version = row.version => saves[e].job.got.els = row.els
    BY <1>1, <2>1, Rebased DEF Versions
  <2>4. scene'[e] = saves'[e].job.els
    BY <2>1, Rebased
  <2>. QED
    BY <2>1, <2>2, <2>3, <2>4, Rebased DEF Current
<1>. QED
  BY <1>6, <1>7, <1>8, <1>10, <1>11, <1>12, <1>13, <1>14, <1>15 DEF Acts, Work, Mishap

\* The order of what waits survives every step.
LEMMA LineStep ==
    ASSUME Typed, Typed', LineInv, NEW e \in Editors, Acts(e)
    PROVE  LineInv'
BY PacketsStep, OrderStep, VersionsStep, CurrentStep DEF LineInv

-----------------------------------------------------------------------------
(* Where copies go *)

\* The packet of e that the server hands out, element by element.
LEMMA HandedOut ==
    ASSUME Typed, LineInv, NEW e \in Editors, Relay(e), NEW i \in Spared'
    PROVE  LET els == Head(atServer[e]).els
           IN  /\ scene' = scene /\ els \in Update
               /\ i \in DOMAIN els =>
                    /\ els[i] \in Elem /\ AtLeast(scene[e][i], els[i])
                    /\ \A f \in Editors \ {e} :
                         /\ i \in DOMAIN arrived'[f] /\ arrived'[f][i] = els[i]
                         /\ i \in DOMAIN arrived[f] => AtLeast(els[i], arrived[f][i])
               /\ \A f \in Editors : i \notin DOMAIN els \/ f = e =>
                    /\ i \in DOMAIN arrived'[f] <=> i \in DOMAIN arrived[f]
                    /\ i \in DOMAIN arrived[f] => arrived'[f][i] = arrived[f][i]
<1>. DEFINE packet == Head(atServer[e])
<1>1. /\ packet \in Packet /\ 1 \in DOMAIN atServer[e] /\ packet = atServer[e][1]
      /\ i \in Spared /\ Sent(e, i)
  BY Relayed, ScenesGrow DEF LineInv, Acts, Work
<1>2. scene' = scene /\ packet.els \in Update
  BY <1>1 DEF Relay, Packet
<1>3. /\ i \notin Overtaken(e, packet)
      /\ i \in DOMAIN packet.els => joined = Editors
  BY DEF Relay
<1>4. \A f \in Editors : arrived'[f] = IF f \in joined \ {e}
                                      THEN Over(packet.els, arrived[f]) ELSE arrived[f]
  BY DEF Relay
<1>5. i \in DOMAIN packet.els => packet.els[i] \in Elem /\ AtLeast(scene[e][i], packet.els[i])
  BY <1>1, <1>2, Updates DEF Sent
<1>6. ASSUME i \in DOMAIN packet.els, NEW f \in Editors \ {e}
      PROVE  /\ i \in DOMAIN arrived'[f] /\ arrived'[f][i] = packet.els[i]
             /\ i \in DOMAIN arrived[f] => AtLeast(packet.els[i], arrived[f][i])
  <2>1. f \in joined \ {e} /\ arrived'[f] = Over(packet.els, arrived[f])
    BY <1>3, <1>4, <1>6
  <2>2. i \in DOMAIN arrived'[f] /\ arrived'[f][i] = packet.els[i]
    BY <1>6, <2>1 DEF Over
  <2>3. i \in DOMAIN arrived[f] => AtLeast(packet.els[i], arrived[f][i])
    BY <1>3, <1>6, <2>1 DEF Overtaken, AtLeast
  <2>. QED
    BY <2>2, <2>3
<1>7. ASSUME NEW f \in Editors, i \notin DOMAIN packet.els \/ f = e
      PROVE  /\ i \in DOMAIN arrived'[f] <=> i \in DOMAIN arrived[f]
             /\ i \in DOMAIN arrived[f] => arrived'[f][i] = arrived[f][i]
  <2>1. CASE f \notin joined \ {e}
    BY <1>4, <2>1
  <2>2. CASE f \in joined \ {e}
    <3>1. i \notin DOMAIN packet.els /\ arrived'[f] = Over(packet.els, arrived[f])
      BY <1>4, <1>7, <2>2
    <3>. QED
      BY <3>1 DEF Over
  <2>. QED
    BY <2>1, <2>2
<1>. QED
  BY <1>2, <1>5, <1>6, <1>7

\* The flush of e, element by element.
LEMMA Flushed ==
    ASSUME Typed, NEW e \in Editors, NEW p, Flush(e, p), NEW i \in Spared'
    PROVE  /\ out' = out /\ \A f \in Editors \ {e} : arrived'[f] = arrived[f]
           /\ DOMAIN arrived'[e] = {}
           /\ e \in echo' \/ (scene' = scene /\ e \notin echo)
           /\ i \notin DOMAIN arrived[e] =>
                synced'[e][i] = synced[e][i] /\ scene'[e][i] = scene[e][i]
           /\ i \in DOMAIN arrived[e] =>
                /\ synced'[e][i] = scene'[e][i]
                /\ AtLeast(scene'[e][i], arrived[e][i])
                /\ \/ scene'[e][i] = arrived[e][i]
                   \/ scene'[e][i] = synced[e][i]
                   \/ /\ i \in DOMAIN out[e].packet
                      /\ out[e].packet[i] = scene'[e][i]
<1>. DEFINE merged == Reconcile(scene[e], arrived[e], p)
<1>1. scene[e] \in Scene /\ synced[e] \in Scene /\ arrived[e] \in Update
  BY DEF Typed
<1>2. /\ merged \in Scene
      /\ merged[i] = scene[e][i] \/ merged[i] = arrived[e][i]
      /\ i \notin DOMAIN arrived[e] => merged[i] = scene[e][i]
      /\ i \in DOMAIN arrived[e] =>
           AtLeast(merged[i], arrived[e][i]) \/ i \in Refused(scene[e], arrived[e], p)
  BY <1>1, Merged
<1>. DEFINE shown == Shown(e, merged)
<1>3. /\ scene' = [scene EXCEPT ![e] = shown]
      /\ synced' = [synced EXCEPT
                      ![e] = Over([j \in DOMAIN arrived[e] |-> shown[j]], synced[e])]
      /\ echo' = IF merged = scene[e] THEN echo ELSE echo \union {e}
      /\ arrived' = [arrived EXCEPT ![e] = Nothing] /\ out' = out
      /\ i \notin KeptUnsent(e, merged) /\ i \notin Refused(scene[e], arrived[e], p)
      /\ i \notin Relabelled(e, merged)
  BY DEF Flush
<1>. HIDE DEF merged
<1>4. shown[i] = merged[i] /\ (merged = scene[e] => shown = scene[e])
  BY <1>2, <1>3, ShownMerge
<1>. HIDE DEF shown
<1>5. /\ scene'[e] = shown
      /\ synced'[e] = Over([j \in DOMAIN arrived[e] |-> shown[j]], synced[e])
      /\ arrived'[e] = Nothing /\ \A f \in Editors \ {e} : arrived'[f] = arrived[f]
      /\ merged = scene[e] => scene' = scene
  BY <1>3, <1>4 DEF Typed
<1>6. synced'[e][i] = IF i \in DOMAIN arrived[e] THEN merged[i] ELSE synced[e][i]
  BY <1>1, <1>4, <1>5 DEF Over, Scene
<1>7. i \in DOMAIN arrived[e] => \/ merged[i] = arrived[e][i]
                                 \/ merged[i] = synced[e][i]
                                 \/ /\ i \in DOMAIN out[e].packet
                                    /\ out[e].packet[i] = merged[i]
  BY <1>2, <1>3 DEF KeptUnsent
<1>. QED
  BY <1>2, <1>3, <1>4, <1>5, <1>6, <1>7, Updates

\* What an editor shows or has on its way, it shows or has on its way afterwards,
\* or something newer.
LEMMA HasStays ==
    ASSUME Typed, Typed', LineInv, NEW e \in Editors, Acts(e), NEW f \in Editors,
           NEW i \in Spared', NEW x \in Elem, Has(f, i, x)
    PROVE  Has(f, i, x)'
<1>1. scene[f][i] \in Elem /\ scene'[f][i] \in Elem /\ AtLeast(scene'[f][i], scene[f][i])
  BY ScenesGrow DEF Typed, Scene
<1>2. CASE AtLeast(scene[f][i], x)
  BY <1>1, <1>2, Order DEF Has
<1>3. CASE i \in DOMAIN arrived[f] /\ AtLeast(arrived[f][i], x)
  <2>1. arrived[f][i] \in Elem
    BY <1>3, Updates DEF Typed
  <2>2. CASE Relay(e)
    <3>1. i \in DOMAIN arrived'[f] /\ AtLeast(arrived'[f][i], arrived[f][i])
      BY <1>3, <2>1, <2>2, HandedOut, Order
    <3>2. arrived'[f][i] \in Elem
      BY <3>1, Updates DEF Typed
    <3>. QED
      BY <1>3, <2>1, <3>1, <3>2, Order DEF Has
  <2>3. CASE Drop(e)
    <3>1. f # e
      BY <1>3, <2>3 DEF Drop
    <3>. QED
      BY <1>3, <2>3, <3>1 DEF Drop, Has, Typed
  <2>4. CASE \E p \in Grips : Flush(e, p)
    <3>1. PICK p \in Grips : Flush(e, p)
      BY <2>4
    <3>2. f = e => AtLeast(scene'[f][i], arrived[f][i])
      BY <1>3, <3>1, Flushed
    <3>3. f # e => arrived'[f] = arrived[f]
      BY <3>1, Flushed
    <3>. QED
      BY <1>1, <1>3, <2>1, <3>2, <3>3, Order DEF Has
  <2>5. CASE arrived' = arrived
    BY <1>3, <2>5 DEF Has
  <2>. QED
    BY <2>2, <2>3, <2>4, <2>5 DEF Acts, Work, Mishap, Edit, Echo, ThrottleFires, Resend,
       Rejoin, DebounceFires, Put, Rebase, Timeout, SaveFails
<1>. QED
  BY <1>2, <1>3 DEF Has

\* The packet an editor is sending, after a step of its own.
LEMMA PacketStays ==
    ASSUME Typed, LineInv, NEW e \in Editors, Acts(e), NEW i \in DOMAIN out[e].packet
    PROVE  \/ i \in DOMAIN out'[e].packet /\ out'[e].packet[i] = out[e].packet[i]
           \/ Relay(e) /\ i \in DOMAIN Head(atServer[e]).els
              /\ Head(atServer[e]).els[i] = out[e].packet[i]
<1>1. Answerable(e)
  BY DEF LineInv
<1>2. ASSUME NEW els \in Scene, Report(e, els)
      PROVE  out'[e].packet = out[e].packet
  <2>1. CASE QueueUpdate(e, els)
    BY <1>1, <2>1, QueuedLane DEF Answerable
  <2>2. CASE out' = [out EXCEPT ![e].trail = els] /\ UNCHANGED <<due, atServer>>
    BY <2>2 DEF Typed, Outgoing
  <2>. QED
    BY <1>2, <2>1, <2>2 DEF Report
<1>3. CASE \E j \in Ids, n \in Nat : Edit(e, j, n)
  <2>1. PICK j \in Ids, n \in Nat : Edit(e, j, n)
    BY <1>3
  <2>. DEFINE els == [scene[e] EXCEPT ![j] = [v |-> @.v + 1, n |-> n]]
  <2>2. els \in Scene
    BY DEF Typed, Scene, Elem
  <2>3. Report(e, els)
    BY <2>1 DEF Edit
  <2>. HIDE DEF els
  <2>. QED
    BY <1>2, <2>2, <2>3
<1>4. CASE Echo(e)
  BY <1>2, <1>4 DEF Echo, Typed
<1>5. CASE ThrottleFires(e)
  BY <1>2, <1>5 DEF ThrottleFires, Report, Typed, Outgoing
<1>6. CASE Relay(e)
  BY <1>1, <1>6, Relayed
<1>7. CASE Resend(e)
  <2>1. out[e] \in Outgoing /\ out' = [out EXCEPT ![e].lane = "sent"]
    BY <1>7 DEF Resend, Typed
  <2>. QED
    BY <2>1 DEF Typed, Outgoing
<1>8. CASE Drop(e)
  BY <1>8 DEF Drop, Interrupted, Typed, Outgoing
<1>9. CASE UNCHANGED out
  BY <1>9
<1>. QED
  BY <1>3, <1>4, <1>5, <1>6, <1>7, <1>8, <1>9 DEF Acts, Work, Mishap, Timeout, Rejoin,
     DebounceFires, Put, Flush, Rebase, SaveFails

\* The same for what an editor is sending to it.
LEMMA ReachesStays ==
    ASSUME Typed, Typed', LineInv, NEW e \in Editors, Acts(e), NEW f \in Editors,
           NEW g \in Editors, NEW i \in Spared', NEW x \in Elem, Reaches(g, f, i, x)
    PROVE  Reaches(g, f, i, x)'
<1>1. CASE Has(f, i, x)
  BY <1>1, HasStays DEF Reaches
<1>2. CASE i \in DOMAIN out[g].packet /\ AtLeast(out[g].packet[i], x)
  <2>1. CASE g # e
    BY <1>2, <2>1, OthersSame DEF Reaches
  <2>2. CASE i \in DOMAIN out'[g].packet /\ out'[g].packet[i] = out[g].packet[i]
    BY <1>2, <2>2 DEF Reaches
  <2>3. CASE /\ g = e /\ f \in Editors /\ Relay(e) /\ i \in DOMAIN Head(atServer[e]).els
             /\ Head(atServer[e]).els[i] = out[e].packet[i]
    <3>0. scene[e][i] \in Elem /\ Relay(e)
      BY <2>3 DEF Typed, Scene
    <3>1. /\ scene' = scene /\ out[e].packet[i] \in Elem
          /\ AtLeast(scene[e][i], out[e].packet[i])
          /\ f # e => i \in DOMAIN arrived'[f] /\ arrived'[f][i] = out[e].packet[i]
      BY <2>3, <3>0, HandedOut
    <3>. QED
      BY <1>2, <2>3, <3>0, <3>1, Order DEF Reaches, Has
  <2>. QED
    BY <1>2, <2>1, <2>2, <2>3, PacketStays
<1>. QED
  BY <1>1, <1>2 DEF Reaches

\* What the stored drawing has of an element, or will have, it has or will have
\* afterwards, or something newer.
LEMMA SavedStays ==
    ASSUME Typed, Typed', LineInv, NEW e \in Editors, Acts(e), NEW i \in Spared',
           NEW x \in Elem, Saved(i, x)
    PROVE  Saved(i, x)'
<1>1. /\ i \in Ids /\ Ordered(e, i) /\ Current(e, i) /\ Versions(e)
      /\ row.els[i] \in Elem /\ row'.els[i] \in Elem
  BY ScenesGrow DEF LineInv, Typed, Row, Scene
<1>2. CASE AtLeast(row.els[i], x)
  <2>1. CASE row' = row
    BY <1>2, <2>1 DEF Saved
  <2>2. CASE /\ Active(e) /\ saves[e].job.base = row.version
             /\ row'.els = saves[e].job.els
    <3>1. AtLeast(row'.els[i], row.els[i])
      BY <1>1, <2>2 DEF Current
    <3>. QED
      BY <1>1, <1>2, <3>1, Order DEF Saved
  <2>. QED
    BY <2>1, <2>2, RowMoves
<1>3. ASSUME NEW g \in Editors, g # e, SavesIt(g, i, x)
      PROVE  Saved(i, x)'
  <2>1. SavesIt(g, i, x)'
    BY <1>3, OthersSame DEF SavesIt, Active
  <2>. QED
    BY <2>1 DEF Saved
<1>4. ASSUME Active(e), AtLeast(saves[e].job.els[i], x) PROVE Saved(i, x)'
  <2>1. saves[e].job.els[i] \in Elem
    BY <1>1, <1>4, Copies
  <2>2. CASE Active(e)' /\ saves'[e].job.els = saves[e].job.els
    BY <1>4, <2>2 DEF Saved, SavesIt
  <2>3. CASE row'.els[i] = saves[e].job.els[i]
    BY <1>4, <2>3 DEF Saved
  <2>4. CASE DebounceFires(e)
    <3>1. saves'[e].job = saves[e].job
      BY <1>4, <2>4 DEF DebounceFires, Active, Typed
    <3>. QED
      BY <1>4, <2>2, <3>1 DEF Active
  <2>5. CASE Put(e)
    <3>1. CASE row' = [version |-> row.version + 1, els |-> saves[e].job.els]
      BY <2>3, <3>1
    <3>2. CASE row' = row /\ saves[e].job.els[i] = row.els[i]
      BY <2>3, <3>2
    <3>. QED
      BY <2>2, <2>5, <3>1, <3>2, Conflicted
  <2>6. CASE SaveFails(e)
    <3>1. i \notin Differing(saves[e].job.els, row'.els) /\ saves[e].job.els \in Scene
      BY <1>1, <1>4, <2>6, Copies DEF SaveFails
    <3>2. saves[e].job.els[i] = row'.els[i]
      BY <3>1 DEF Differing, Scene
    <3>. QED
      BY <2>3, <3>2
  <2>7. CASE \E p \in Grips : Rebase(e, p)
    <3>1. PICK p \in Grips : Rebase(e, p)
      BY <2>7
    <3>2. /\ Active(e)' /\ saves'[e].job.els[i] \in Elem
          /\ AtLeast(saves'[e].job.els[i], saves[e].job.els[i])
      BY <3>1, Rebased
    <3>3. AtLeast(saves'[e].job.els[i], x)
      BY <1>4, <2>1, <3>2, Order
    <3>. QED
      BY <3>2, <3>3 DEF Saved, SavesIt
  <2>8. CASE saves' = saves
    BY <1>4, <2>2, <2>8 DEF Active
  <2>. QED
    BY <2>4, <2>5, <2>6, <2>7, <2>8, SavesMove
<1>5. ASSUME NEW k \in DOMAIN saves[e].queue, AtLeast(saves[e].queue[k][i], x)
      PROVE  Saved(i, x)'
  <2>1. CASE k \in DOMAIN saves'[e].queue /\ saves'[e].queue[k] = saves[e].queue[k]
    BY <1>5, <2>1 DEF Saved, SavesIt
  <2>2. CASE \E n \in Nat : Finish(e, n)
    <3>1. CASE k = 1
      <4>1. saves[e].queue # << >>
        BY <1>5
      <4>2. Active(e)' /\ saves'[e].job.els = saves[e].queue[1]
        BY <2>2, <4>1, Finished
      <4>. QED
        BY <1>5, <3>1, <4>2 DEF Saved, SavesIt
    <3>2. CASE k # 1
      <4>1. saves[e].queue # << >>
        BY <1>5
      <4>2. k - 1 \in DOMAIN saves'[e].queue /\ saves'[e].queue[k - 1] = saves[e].queue[k]
        BY <2>2, <3>2, <4>1, Finished
      <4>. QED
        BY <1>5, <4>2 DEF Saved, SavesIt
    <3>. QED
      BY <3>1, <3>2
  <2>3. CASE DebounceFires(e)
    <3>1. /\ saves[e].queue \in Seq(Scene) /\ due[e] \in Scene
          /\ saves'[e].queue = Append(saves[e].queue, due[e])
      BY <1>1, <1>5, <2>3 DEF DebounceFires, Typed, Versions, Active
    <3>. QED
      BY <2>1, <3>1
  <2>4. CASE Put(e)
    <3>1. row.version \in Nat /\ ver[e] \in Nat /\ row.version + 1 \in Nat
      BY DEF Typed, Row
    <3>2. \/ Finish(e, row.version + 1) \/ Finish(e, ver[e])
          \/ saves'[e].queue = saves[e].queue
      BY <2>4, Conflicted
    <3>. QED
      BY <1>5, <2>1, <2>2, <3>1, <3>2
  <2>5. CASE SaveFails(e)
    BY <2>2, <2>5 DEF SaveFails, Typed
  <2>6. CASE \E p \in Grips : Rebase(e, p)
    BY <1>5, <2>1, <2>6, Rebased
  <2>7. CASE saves' = saves
    BY <1>5, <2>1, <2>7
  <2>. QED
    BY <2>3, <2>4, <2>5, <2>6, <2>7, SavesMove
<1>6. ASSUME due[e] # None, AtLeast(due[e][i], x) PROVE Saved(i, x)'
  <2>0. due[e] \in Scene /\ due[e][i] \in Elem /\ due'[e] \in Scene \union {None}
    BY <1>1, <1>6, Copies DEF Typed
  <2>1. CASE due'[e] # None /\ AtLeast(due'[e][i], due[e][i])
    <3>1. due'[e][i] \in Elem
      BY <1>1, <2>0, <2>1 DEF Scene
    <3>. QED
      BY <1>6, <2>0, <2>1, <3>1, Order DEF Saved, SavesIt
  <2>2. CASE due'[e] = due[e]
    BY <1>6, <2>0, <2>1, <2>2, Order
  <2>3. ASSUME NEW els \in Scene, Report(e, els), Behind(e, i, els[i])
        PROVE  Saved(i, x)'
    <3>1. els # None /\ AtLeast(els[i], due[e][i])
      BY <1>6, <2>3, PlanAssumption DEF Behind
    <3>2. due'[e] = els \/ due'[e] = due[e]
      <4>1. CASE QueueUpdate(e, els)
        BY <4>1, QueuedLane
      <4>2. CASE UNCHANGED due
        BY <4>2
      <4>. QED
        BY <2>3, <4>1, <4>2 DEF Report
    <3>. QED
      BY <2>1, <2>2, <3>1, <3>2
  <2>4. CASE \E j \in Ids, n \in Nat : Edit(e, j, n)
    <3>1. PICK els \in Scene : els = scene'[e]
      BY DEF Typed
    <3>2. Report(e, els)
      BY <2>4, <3>1 DEF Edit, Typed
    <3>3. scene[e][i] \in Elem /\ els[i] \in Elem /\ AtLeast(els[i], scene[e][i])
      BY <1>1, <3>1, ScenesGrow DEF Typed, Scene
    <3>4. Behind(e, i, els[i])
      BY <1>1, <3>3, BehindNewer DEF Ordered
    <3>. QED
      BY <2>3, <3>2, <3>4
  <2>5. CASE Echo(e)
    BY <1>1, <2>3, <2>5 DEF Echo, Ordered, Typed
  <2>6. CASE ThrottleFires(e)
    BY <1>1, <2>3, <2>6 DEF ThrottleFires, Report, Ordered, Typed, Outgoing
  <2>7. CASE DebounceFires(e)
    <3>1. CASE ~Active(e)
      <4>1. saves'[e].job = Job(due[e], ver[e]) /\ ver[e] \in Nat
        BY <2>7, <3>1 DEF DebounceFires, SetJob, Active, Typed
      <4>2. Active(e)' /\ saves'[e].job.els = due[e]
        BY <2>0, <4>1, SavesTyped DEF Active
      <4>. QED
        BY <1>6, <4>2 DEF Saved, SavesIt
    <3>2. CASE Active(e)
      <4>1. saves'[e].queue = Append(saves[e].queue, due[e]) /\ saves[e].queue \in Seq(Scene)
        BY <2>7, <3>2 DEF DebounceFires, Active, Typed
      <4>2. \E k \in DOMAIN saves'[e].queue : saves'[e].queue[k] = due[e]
        <5>1. /\ Len(saves[e].queue) + 1 \in DOMAIN Append(saves[e].queue, due[e])
              /\ Append(saves[e].queue, due[e])[Len(saves[e].queue) + 1] = due[e]
          BY <2>0, <4>1
        <5>. QED
          BY <4>1, <5>1
      <4>. QED
        BY <1>6, <4>2 DEF Saved, SavesIt
    <3>. QED
      BY <3>1, <3>2
  <2>8. CASE UNCHANGED due
    BY <2>2, <2>8
  <2>. QED
    BY <2>4, <2>5, <2>6, <2>7, <2>8 DEF Acts, Work, Mishap, Resend, Relay, Rejoin, Put,
       Flush, Rebase, Timeout, Drop, SaveFails
<1>. QED
  BY <1>2, <1>3, <1>4, <1>5, <1>6 DEF Saved, SavesIt

\* What a step of e does to the copies that arrived.
LEMMA ArrivedMove ==
    ASSUME Typed, LineInv, NEW e \in Editors, Acts(e), NEW g \in Editors,
           NEW i \in Spared', i \in DOMAIN arrived'[g]
    PROVE  \/ i \in DOMAIN arrived[g] /\ arrived'[g][i] = arrived[g][i]
           \/ /\ Relay(e) /\ g # e /\ i \in DOMAIN Head(atServer[e]).els
              /\ arrived'[g][i] = Head(atServer[e]).els[i]
<1>1. CASE Relay(e)
  BY <1>1, HandedOut
<1>2. CASE Drop(e)
  BY <1>2, Updates DEF Drop, Typed
<1>3. CASE \E p \in Grips : Flush(e, p)
  BY <1>3, Flushed
<1>4. CASE UNCHANGED arrived
  BY <1>4
<1>. QED
  BY <1>1, <1>2, <1>3, <1>4 DEF Acts, Work, Mishap, Edit, Echo, ThrottleFires, Resend,
     Rejoin, DebounceFires, Put, Rebase, Timeout, SaveFails

\* What e takes to be shared after a step of its own.
LEMMA SyncedMove ==
    ASSUME Typed, LineInv, NEW e \in Editors, Acts(e), NEW i \in Spared'
    PROVE  \/ synced'[e][i] = synced[e][i]
           \/ /\ Relay(e) /\ i \in DOMAIN Head(atServer[e]).els
              /\ synced'[e][i] = Head(atServer[e]).els[i]
           \/ i \in DOMAIN arrived[e] /\ synced'[e][i] = arrived[e][i]
           \/ /\ \E p \in Grips : Flush(e, p)
              /\ i \in DOMAIN out[e].packet /\ synced'[e][i] = out[e].packet[i]
<1>1. CASE Relay(e)
  <2>1. Answerable(e) /\ i \in Ids
    BY DEF LineInv
  <2>. QED
    BY <1>1, <2>1, Relayed
<1>2. CASE \E p \in Grips : Flush(e, p)
  BY <1>2, Flushed
<1>3. CASE UNCHANGED synced
  BY <1>3
<1>. QED
  BY <1>1, <1>2, <1>3 DEF Acts, Work, Mishap, Edit, Echo, ThrottleFires, Resend,
     Rejoin, DebounceFires, Put, Rebase, Timeout, Drop, SaveFails

\* What e has still to report or to send of the element i, after a step of its own:
\* a step that reports a scene, one that drains the lane, and any other.
LEMMA ReportMove ==
    ASSUME Typed, Typed', LineInv, NEW e \in Editors, Acts(e), NEW i \in Spared'
    PROVE  \/ e \in echo'
           \/ /\ scene'[e] = scene[e] /\ out'[e].trail = out[e].trail
              /\ e \notin echo
              /\ \/ out'[e].pending = out[e].pending
                 \/ out[e].pending = None /\ out'[e].pending = None
                 \/ i \in DOMAIN out'[e].packet /\ out'[e].packet[i] = out[e].pending[i]
                 \/ out[e].pending[i] = synced'[e][i]
           \/ \E els \in Scene :
                /\ Report(e, els)
                /\ \/ els[i] = scene'[e][i]
                   \/ /\ out[e].trail = els /\ scene'[e] = scene[e] /\ e \notin echo
                      /\ out'[e].trail = None
<1>1. CASE \E j \in Ids, n \in Nat : Edit(e, j, n)
  <2>1. PICK els \in Scene : els = scene'[e]
    BY DEF Typed
  <2>2. Report(e, els)
    BY <1>1, <2>1 DEF Edit, Typed
  <2>. QED
    BY <2>1, <2>2
<1>2. CASE Echo(e)
  <2>1. PICK els \in Scene : els = scene'[e]
    BY DEF Typed
  <2>2. Report(e, els)
    BY <1>2, <2>1 DEF Echo
  <2>. QED
    BY <2>1, <2>2
<1>3. CASE ThrottleFires(e)
  <2>1. PICK els \in Scene : els = out[e].trail
    BY <1>3 DEF ThrottleFires, Typed, Outgoing
  <2>2. /\ QueueUpdate(e, els) /\ Report(e, els) /\ scene' = scene /\ echo' = echo
    BY <1>3, <2>1 DEF ThrottleFires, Report
  <2>3. out'[e].trail = None
    BY <2>2, QueuedLane
  <2>. QED
    BY <2>1, <2>2, <2>3
<1>4. CASE Relay(e)
  <2>1. scene' = scene /\ echo' = echo /\ Answerable(e) /\ i \in Ids
    BY <1>4 DEF Relay, LineInv
  <2>2. /\ out'[e].trail = out[e].trail
        /\ out'[e].pending = out[e].pending \/ out'[e].pending = None
        /\ out[e].pending # None /\ out'[e].pending = None =>
             \/ i \in DOMAIN out'[e].packet /\ out'[e].packet[i] = out[e].pending[i]
             \/ out[e].pending[i] = synced'[e][i]
    BY <1>4, <2>1, Relayed
  <2>. QED
    BY <2>1, <2>2
<1>5. CASE \E p \in Grips : Flush(e, p)
  BY <1>5, Flushed
<1>6. CASE \E p \in Grips : Rebase(e, p)
  <2>1. out' = out
    BY <1>6 DEF Rebase
  <2>2. e \in echo' \/ (scene'[e] = scene[e] /\ e \notin echo)
    BY <1>6 DEF Rebase, Typed
  <2>. QED
    BY <2>1, <2>2
<1>7. CASE Drop(e)
  BY <1>7 DEF Drop, Interrupted, Typed, Outgoing
<1>8. CASE Resend(e) \/ Timeout(e) \/ Rejoin(e) \/ DebounceFires(e) \/ Put(e) \/ SaveFails(e)
  BY <1>8 DEF Resend, Timeout, Rejoin, DebounceFires, Put, SaveFails, Typed, Outgoing
<1>. QED
  BY <1>1, <1>2, <1>3, <1>4, <1>5, <1>6, <1>7, <1>8 DEF Acts, Work, Mishap

\* What an editor shows, or was sent, or takes to be shared reaches every screen,
\* after every step.
LEMMA SpreadStep ==
    ASSUME Typed, Typed', LineInv, SpreadInv, NEW e \in Editors, Acts(e)
    PROVE  SpreadInv'
<1>. SUFFICES ASSUME NEW g \in Editors, NEW f \in Editors, NEW i \in Spared'
              PROVE  Spread(g, f, i)'
  BY DEF SpreadInv
<1>1. /\ i \in Ids /\ i \in Spared /\ Spread(g, f, i) /\ Ordered(g, i)
      /\ Spread(e, f, i) /\ Ordered(e, i)
  BY ScenesGrow DEF SpreadInv, LineInv
<1>2. /\ scene[g][i] \in Elem /\ synced[g][i] \in Elem /\ scene'[g][i] \in Elem
      /\ scene[e][i] \in Elem /\ synced[e][i] \in Elem
      /\ synced'[e][i] \in Elem /\ scene'[e][i] \in Elem
  BY <1>1 DEF Typed, Scene
\* What the server hands out, every other editor now has on its way.
<1>3. ASSUME NEW x \in Elem, Relay(e), i \in DOMAIN Head(atServer[e]).els,
             x = Head(atServer[e]).els[i]
      PROVE  Has(f, i, x)'
  <2>1. /\ scene' = scene /\ AtLeast(scene[e][i], x) /\ AtLeast(x, x)
        /\ f # e => i \in DOMAIN arrived'[f] /\ arrived'[f][i] = x
    BY <1>3, HandedOut, Order
  <2>2. AtLeast(scene'[f][i], x) \/ (i \in DOMAIN arrived'[f] /\ AtLeast(arrived'[f][i], x))
    BY <2>1
  <2>. QED
    BY <2>2 DEF Has
<1>4. ASSUME i \in DOMAIN arrived'[g]
      PROVE  Has(f, i, arrived[g][i])'
  <2>1. CASE i \in DOMAIN arrived[g] /\ arrived'[g][i] = arrived[g][i]
    <3>1. PICK x \in Elem : x = arrived[g][i]
      BY <2>1, Updates DEF Typed
    <3>2. Has(f, i, x)'
      BY <1>1, <2>1, <3>1, HasStays DEF Spread
    <3>. QED
      BY <2>1, <3>1, <3>2 DEF Has
  <2>2. CASE /\ Relay(e) /\ i \in DOMAIN Head(atServer[e]).els
             /\ arrived'[g][i] = Head(atServer[e]).els[i]
    <3>1. PICK x \in Elem : x = Head(atServer[e]).els[i]
      BY <2>2, HandedOut
    <3>2. Has(f, i, x)'
      BY <1>3, <2>2, <3>1
    <3>. QED
      BY <2>2, <3>1, <3>2 DEF Has
  <2>. QED
    BY <1>4, <2>1, <2>2, ArrivedMove
<1>5. Reaches(g, f, i, synced[g][i])'
  <2>1. CASE synced'[g][i] = synced[g][i]
    <3>1. PICK x \in Elem : x = synced[g][i]
      BY <1>2
    <3>2. Reaches(g, f, i, x)'
      BY <1>1, <3>1, ReachesStays DEF Spread
    <3>. QED
      BY <2>1, <3>1, <3>2 DEF Reaches, Has
  <2>2. CASE g = e
    <3>1. PICK x \in Elem : x = synced'[e][i]
      BY <1>2
    <3>2. CASE Relay(e) /\ i \in DOMAIN Head(atServer[e]).els /\ x = Head(atServer[e]).els[i]
      <4>1. Has(f, i, x)'
        BY <1>3, <3>2
      <4>. QED
        BY <2>2, <3>1, <4>1 DEF Reaches, Has
    <3>3. CASE i \in DOMAIN arrived[e] /\ x = arrived[e][i]
      <4>1. Has(f, i, x)'
        BY <1>1, <3>3, HasStays DEF Spread
      <4>. QED
        BY <2>2, <3>1, <4>1 DEF Reaches, Has
    <3>4. CASE /\ \E p \in Grips : Flush(e, p)
               /\ i \in DOMAIN out[e].packet /\ x = out[e].packet[i]
      <4>1. out' = out
        BY <3>4 DEF Flush
      <4>2. i \in DOMAIN out'[e].packet /\ AtLeast(out'[e].packet[i], x)
        BY <3>4, <4>1, Order
      <4>. QED
        BY <2>2, <3>1, <4>2 DEF Reaches
    <3>. QED
      BY <2>1, <2>2, <3>1, <3>2, <3>3, <3>4, SyncedMove
  <2>3. CASE g # e
    BY <2>1, <2>3, OthersSame
  <2>. QED
    BY <2>2, <2>3
\* An element that is in the packet, or shared, reaches f.
<1>6. ASSUME \/ i \in DOMAIN out'[g].packet /\ out'[g].packet[i] = scene'[g][i]
             \/ scene'[g][i] = synced'[g][i]
      PROVE  Reaches(g, f, i, scene[g][i])'
  <2>1. AtLeast(scene'[g][i], scene'[g][i])
    BY <1>2, Order
  <2>. QED
    BY <1>5, <1>6, <2>1 DEF Reaches, Has
<1>7. ASSUME scene'[g][i] = scene[g][i], Reaches(g, f, i, scene[g][i])
      PROVE  Reaches(g, f, i, scene[g][i])'
  <2>1. PICK x \in Elem : x = scene[g][i]
    BY <1>2
  <2>2. Reaches(g, f, i, x)'
    BY <1>7, <2>1, ReachesStays
  <2>. QED
    BY <1>7, <2>1, <2>2 DEF Reaches, Has
<1>8. \/ g \in echo'
      \/ out'[g].trail # None /\ out'[g].trail[i] = scene'[g][i]
      \/ out'[g].pending # None /\ out'[g].pending[i] = scene'[g][i]
      \/ Reaches(g, f, i, scene[g][i])'
  <2>1. CASE g # e
    <3>1. scene'[g] = scene[g] /\ out'[g] = out[g] /\ (g \in echo') = (g \in echo)
      BY <2>1, OthersSame
    <3>. QED
      BY <1>1, <1>7, <3>1 DEF Spread
  <2>. SUFFICES ASSUME g = e, e \notin echo'
                PROVE  \/ out'[e].trail # None /\ out'[e].trail[i] = scene'[e][i]
                       \/ out'[e].pending # None /\ out'[e].pending[i] = scene'[e][i]
                       \/ Reaches(g, f, i, scene[g][i])'
    BY <2>1
  <2>2. CASE /\ scene'[e] = scene[e] /\ out'[e].trail = out[e].trail
             /\ e \notin echo
             /\ \/ out'[e].pending = out[e].pending
                \/ out[e].pending = None /\ out'[e].pending = None
                \/ i \in DOMAIN out'[e].packet /\ out'[e].packet[i] = out[e].pending[i]
                \/ out[e].pending[i] = synced'[e][i]
    BY <1>1, <1>6, <1>7, <2>2 DEF Spread
  <2>3. CASE \E els \in Scene :
                /\ Report(e, els)
                /\ \/ els[i] = scene'[e][i]
                   \/ /\ out[e].trail = els /\ scene'[e] = scene[e] /\ e \notin echo
                      /\ out'[e].trail = None
    <3>1. PICK els \in Scene :
                /\ Report(e, els)
                /\ \/ els[i] = scene'[e][i]
                   \/ /\ out[e].trail = els /\ scene'[e] = scene[e] /\ e \notin echo
                      /\ out'[e].trail = None
      BY <2>3
    <3>2. els # None /\ els[i] \in Elem
      BY <1>1, PlanAssumption DEF Scene
    <3>3. CASE els[i] = scene'[e][i]
      <4>1. CASE QueueUpdate(e, els)
        <5>1. \/ out'[e].pending = els
              \/ i \in DOMAIN out'[e].packet /\ out'[e].packet[i] = els[i]
              \/ els[i] = synced[e][i]
          BY <1>1, <4>1, QueuedLane
        <5>2. CASE els[i] = synced[e][i]
          <6>1. PICK x \in Elem : x = synced[e][i]
            BY <1>2
          <6>2. Reaches(e, f, i, x)'
            BY <1>1, <6>1, ReachesStays DEF Spread
          <6>. QED
            BY <3>3, <5>2, <6>1, <6>2 DEF Reaches, Has
        <5>. QED
          BY <1>6, <3>2, <3>3, <5>1, <5>2
      <4>2. CASE out' = [out EXCEPT ![e].trail = els]
        <5>1. out'[e].trail = els
          BY <4>2 DEF Typed, Outgoing
        <5>. QED
          BY <3>2, <3>3, <5>1
      <4>. QED
        BY <3>1, <4>1, <4>2 DEF Report
    <3>4. CASE /\ out[e].trail = els /\ scene'[e] = scene[e] /\ e \notin echo
      <4>1. CASE out[e].trail[i] = scene[e][i]
        BY <3>3, <3>4, <4>1
      <4>2. CASE out[e].pending # None /\ out[e].pending[i] = scene[e][i]
        <5>1. AtLeast(els[i], scene[e][i]) /\ AtLeast(scene[e][i], els[i])
          BY <1>1, <3>2, <3>4, <4>2 DEF Ordered, Behind
        <5>2. els[i] = scene[e][i]
          BY <1>2, <3>2, <5>1, Order
        <5>. QED
          BY <3>3, <3>4, <5>2
      <4>3. CASE Reaches(e, f, i, scene[e][i])
        BY <1>7, <3>4, <4>3
      <4>. QED
        BY <1>1, <3>4, <4>1, <4>2, <4>3 DEF Spread
    <3>. QED
      BY <3>1, <3>3, <3>4
  <2>. QED
    BY <2>2, <2>3, ReportMove
<1>. QED
  BY <1>4, <1>5, <1>8 DEF Spread

\* What e holds in its lane after a step of its own: a step queues a scene, or moves
\* on what the lane held.
LEMMA LaneMove ==
    ASSUME Typed, LineInv, NEW e \in Editors, Acts(e)
    PROVE  \/ \E els \in Scene : QueueUpdate(e, els)
           \/ /\ out'[e].pending \in {out[e].pending, None}
              /\ \A j \in DOMAIN out'[e].packet :
                   \/ j \in DOMAIN out[e].packet /\ out'[e].packet[j] = out[e].packet[j]
                   \/ out[e].pending # None /\ out'[e].packet[j] = out[e].pending[j]
              /\ \A k \in DOMAIN atServer'[e] :
                   \/ \E l \in DOMAIN atServer[e] : atServer'[e][k].els = atServer[e][l].els
                   \/ atServer'[e][k].els = out'[e].packet
<1>1. ASSUME NEW els, out' = [out EXCEPT ![e].trail = els], atServer' = atServer
      PROVE  /\ out'[e].pending = out[e].pending /\ out'[e].packet = out[e].packet
             /\ atServer'[e] = atServer[e]
  BY <1>1 DEF Typed, Outgoing
<1>2. ASSUME NEW els \in Scene, Report(e, els), ~QueueUpdate(e, els)
      PROVE  /\ out'[e].pending = out[e].pending /\ out'[e].packet = out[e].packet
             /\ atServer'[e] = atServer[e]
  BY <1>1, <1>2 DEF Report
<1>3. CASE \E j \in Ids, n \in Nat : Edit(e, j, n)
  <2>1. PICK els \in Scene : els = scene'[e]
    <3>1. PICK j \in Ids, n \in Nat : Edit(e, j, n)
      BY <1>3
    <3>. DEFINE els == [scene[e] EXCEPT ![j] = [v |-> @.v + 1, n |-> n]]
    <3>2. els \in Scene
      BY DEF Typed, Scene, Elem
    <3>3. scene' = [scene EXCEPT ![e] = els]
      BY <3>1 DEF Edit
    <3>. HIDE DEF els
    <3>. QED
      BY <3>2, <3>3 DEF Typed
  <2>2. Report(e, els)
    BY <1>3, <2>1 DEF Edit, Typed
  <2>. QED
    BY <1>2, <2>1, <2>2
<1>4. CASE Echo(e)
  <2>1. PICK els \in Scene : els = scene[e]
    BY DEF Typed
  <2>2. Report(e, els)
    BY <1>4, <2>1 DEF Echo
  <2>. QED
    BY <1>2, <2>1, <2>2
<1>5. CASE ThrottleFires(e)
  BY <1>5 DEF ThrottleFires, Typed, Outgoing
<1>6. CASE Relay(e)
  <2>1. Answerable(e)
    BY DEF LineInv
  <2>. QED
    BY <1>6, <2>1, Relayed
<1>7. CASE Resend(e)
  <2>1. out'[e].pending = out[e].pending /\ out'[e].packet = out[e].packet
    BY <1>7 DEF Resend, Typed, Outgoing
  <2>2. /\ atServer[e] \in Packets /\ [els |-> out[e].packet, live |-> TRUE] \in Packet
        /\ atServer'[e] = Append(atServer[e], [els |-> out[e].packet, live |-> TRUE])
    BY <1>7 DEF Resend, Typed, Outgoing, Packet
  <2>3. ASSUME NEW k \in DOMAIN atServer'[e]
        PROVE  \/ k \in DOMAIN atServer[e] /\ atServer'[e][k].els = atServer[e][k].els
               \/ atServer'[e][k].els = out'[e].packet
    BY <2>1, <2>2, <2>3 DEF Packets
  <2>. QED
    BY <2>1, <2>3
<1>8. CASE Timeout(e)
  <2>. DEFINE stale == [k \in DOMAIN atServer[e] |-> [atServer[e][k] EXCEPT !.live = FALSE]]
  <2>1. out' = out
    BY <1>8 DEF Timeout
  <2>2. /\ atServer[e] \in Packets /\ [els |-> out[e].packet, live |-> TRUE] \in Packet
        /\ atServer'[e] = Append(stale, [els |-> out[e].packet, live |-> TRUE])
    BY <1>8 DEF Timeout, Typed, Outgoing, Packet
  <2>3. /\ stale \in Seq(Packet) /\ DOMAIN stale = DOMAIN atServer[e]
        /\ \A k \in DOMAIN atServer[e] : stale[k].els = atServer[e][k].els
    <3>1. ASSUME NEW k \in DOMAIN atServer[e]
          PROVE  /\ [atServer[e][k] EXCEPT !.live = FALSE] \in Packet
                 /\ [atServer[e][k] EXCEPT !.live = FALSE].els = atServer[e][k].els
      <4>1. atServer[e][k] \in Packet
        BY <2>2 DEF Packets
      <4>. QED
        BY <4>1 DEF Packet
    <3>2. DOMAIN atServer[e] = 1..Len(atServer[e]) /\ Len(atServer[e]) \in Nat
      BY <2>2 DEF Packets
    <3>. QED
      BY <3>1, <3>2
  <2>. HIDE DEF stale
  <2>4. ASSUME NEW k \in DOMAIN atServer'[e]
        PROVE  \/ k \in DOMAIN atServer[e] /\ atServer'[e][k].els = atServer[e][k].els
               \/ atServer'[e][k].els = out'[e].packet
    BY <2>1, <2>2, <2>3, <2>4
  <2>. QED
    BY <2>1, <2>4
<1>9. CASE Drop(e)
  BY <1>9 DEF Drop, Interrupted, Typed, Outgoing
<1>10. CASE UNCHANGED <<out, atServer>>
  BY <1>10
<1>. QED
  BY <1>3, <1>4, <1>5, <1>6, <1>7, <1>8, <1>9, <1>10 DEF Acts, Work, Mishap, Rejoin,
     DebounceFires, Put, Flush, Rebase, SaveFails

\* A stored element some editor shows, or showed before it went on from there.
LEMMA RowShownStep ==
    ASSUME Typed, Typed', LineInv, KeptInv, NEW e \in Editors, Acts(e), NEW i \in Spared'
    PROVE  RowShown(i)'
<1>1. i \in Ids /\ i \in Spared /\ Ordered(e, i) /\ RowShown(i)
  BY ScenesGrow DEF LineInv, KeptInv
<1>2. row.els[i] \in Elem /\ row'.els[i] \in Elem
  BY <1>1 DEF Typed, Row, Scene
<1>3. \A f \in Editors : /\ scene[f][i] \in Elem /\ scene'[f][i] \in Elem
                         /\ AtLeast(scene'[f][i], scene[f][i])
  BY <1>1, ScenesGrow DEF Typed, Scene
<1>4. CASE row' = row
  <2>1. PICK f \in Editors : AtLeast(scene[f][i], row.els[i])
    BY <1>1 DEF RowShown
  <2>2. AtLeast(scene'[f][i], row'.els[i])
    BY <1>2, <1>3, <1>4, <2>1, Order
  <2>. QED
    BY <2>2 DEF RowShown
<1>5. CASE Active(e) /\ row'.els = saves[e].job.els
  <2>1. AtLeast(scene[e][i], row'.els[i])
    BY <1>1, <1>5 DEF Ordered, Behind, SavesBehind
  <2>2. AtLeast(scene'[e][i], row'.els[i])
    BY <1>2, <1>3, <2>1, Order
  <2>. QED
    BY <2>2 DEF RowShown
<1>. QED
  BY <1>4, <1>5, RowMoves

\* A scene that was queued is saved or shared already.
LEMMA QueuedSaved ==
    ASSUME Typed, Typed', LineInv, KeptInv, NEW e \in Editors, Acts(e),
           NEW els \in Scene, QueueUpdate(e, els), NEW i \in Spared'
    PROVE  Saved(i, els[i])'
<1>1. PICK x \in Elem : x = els[i]
  BY DEF Scene
<1>2. AtLeast(x, x) /\ els # None
  BY PlanAssumption, Order
<1>3. CASE due'[e] = els
  <2>1. Saved(i, x)'
    BY <1>1, <1>2, <1>3 DEF Saved, SavesIt
  <2>. QED
    BY <1>1, <2>1 DEF Saved, SavesIt
<1>4. CASE x = synced[e][i]
  <2>1. Saved(i, x)
    BY <1>4, ScenesGrow DEF KeptInv, Kept
  <2>2. Saved(i, x)'
    BY <2>1, SavedStays
  <2>. QED
    BY <1>1, <2>2 DEF Saved, SavesIt
<1>. QED
  BY <1>1, <1>3, <1>4, QueuedLane

\* Whatever the editors show, send or take to be shared, the stored drawing has or
\* will have.
LEMMA KeptStep ==
    ASSUME Typed, Typed', LineInv, KeptInv, NEW e \in Editors, Acts(e)
    PROVE  KeptInv'
<1>. SUFFICES ASSUME NEW i \in Spared', NEW g \in Editors
              PROVE  Kept(g, i)'
  BY RowShownStep DEF KeptInv
<1>1. /\ i \in Ids /\ i \in Spared /\ Kept(g, i) /\ Kept(e, i) /\ Answerable(e)
  BY ScenesGrow DEF KeptInv, LineInv
<1>2. /\ scene[g][i] \in Elem /\ synced[g][i] \in Elem
      /\ scene[e][i] \in Elem /\ synced[e][i] \in Elem
      /\ synced'[e][i] \in Elem /\ scene'[e][i] \in Elem
      /\ out[e].pending # None => out[e].pending[i] \in Elem
      /\ out[g].pending # None => out[g].pending[i] \in Elem
  BY <1>1, Copies DEF Typed, Scene
<1>3. /\ out[e].packet \in Update /\ out[g].packet \in Update
      /\ arrived[e] \in Update /\ arrived[g] \in Update
      /\ \A f \in Editors : \A k \in DOMAIN atServer[f] : atServer[f][k].els \in Update
  <2>1. ASSUME NEW f \in Editors, NEW k \in DOMAIN atServer[f]
        PROVE  atServer[f][k].els \in Update
    <3>1. atServer[f] \in Seq(Packet)
      BY DEF Typed, Packets
    <3>2. atServer[f][k] \in Packet
      BY <3>1
    <3>. QED
      BY <3>2 DEF Packet
  <2>. QED
    BY <2>1 DEF Typed, Outgoing
\* What was saved, or to be, still is.
<1>4. ASSUME NEW x \in Elem, Saved(i, x)
      PROVE  Saved(i, x)'
  BY <1>4, SavedStays
<1>5. ASSUME Relay(e), i \in DOMAIN Head(atServer[e]).els
      PROVE  /\ Head(atServer[e]).els[i] \in Elem
             /\ Saved(i, Head(atServer[e]).els[i])
  <2>1. 1 \in DOMAIN atServer[e] /\ Head(atServer[e]) = atServer[e][1]
    BY <1>1, <1>5, Relayed
  <2>. QED
    BY <1>1, <1>3, <1>5, <2>1, Updates DEF Kept
<1>6. PICK x \in Elem : x = synced'[g][i]
  BY <1>1 DEF Typed, Scene
<1>7. Saved(i, x)'
  <2>1. CASE x = synced[g][i]
    BY <1>1, <1>4, <2>1 DEF Kept
  <2>2. CASE g = e
    <3>1. CASE Relay(e) /\ i \in DOMAIN Head(atServer[e]).els /\ x = Head(atServer[e]).els[i]
      BY <1>4, <1>5, <3>1
    <3>2. CASE i \in DOMAIN arrived[e] /\ x = arrived[e][i]
      BY <1>1, <1>4, <3>2 DEF Kept
    <3>3. CASE i \in DOMAIN out[e].packet /\ x = out[e].packet[i]
      BY <1>1, <1>4, <3>3 DEF Kept
    <3>. QED
      BY <1>6, <2>1, <2>2, <3>1, <3>2, <3>3, SyncedMove
  <2>3. CASE g # e
    BY <1>6, <2>1, <2>3, OthersSame
  <2>. QED
    BY <2>2, <2>3
<1>8. ASSUME NEW y \in Elem, i \in DOMAIN arrived'[g], y = arrived'[g][i]
      PROVE  Saved(i, y)'
  <2>1. CASE i \in DOMAIN arrived[g] /\ y = arrived[g][i]
    BY <1>1, <1>4, <2>1 DEF Kept
  <2>2. CASE Relay(e) /\ i \in DOMAIN Head(atServer[e]).els /\ y = Head(atServer[e]).els[i]
    BY <1>4, <1>5, <2>2
  <2>. QED
    BY <1>8, <2>1, <2>2, ArrivedMove
\* The lane.
<1>9. /\ \A y \in Elem : i \in DOMAIN out'[g].packet /\ y = out'[g].packet[i] => Saved(i, y)'
      /\ \A y \in Elem : out'[g].pending # None /\ y = out'[g].pending[i] => Saved(i, y)'
      /\ \A y \in Elem : \A k \in DOMAIN atServer'[g] :
           i \in DOMAIN atServer'[g][k].els /\ y = atServer'[g][k].els[i] => Saved(i, y)'
  <2>1. CASE g # e
    <3>1. out'[g] = out[g] /\ atServer'[g] = atServer[g]
      BY <2>1, OthersSame
    <3>. QED
      BY <1>1, <1>4, <3>1 DEF Kept
  <2>2. CASE g = e /\ \E els \in Scene : QueueUpdate(e, els)
    <3>1. PICK els \in Scene : QueueUpdate(e, els)
      BY <2>2
    <3>2. Saved(i, els[i])'
      BY <3>1, QueuedSaved
    <3>3. Report(e, els)
      BY <3>1 DEF Report
    <3>4. ASSUME NEW y \in Elem, i \in DOMAIN out'[e].packet, y = out'[e].packet[i]
          PROVE  Saved(i, y)'
      <4>1. CASE y = els[i]
        BY <3>2, <4>1 DEF Saved, SavesIt
      <4>2. CASE i \in DOMAIN out[e].packet /\ y = out[e].packet[i]
        BY <1>1, <1>4, <4>2 DEF Kept
      <4>. QED
        BY <1>1, <3>3, <3>4, <4>1, <4>2, Carried
    <3>5. ASSUME NEW y \in Elem, out'[e].pending # None, y = out'[e].pending[i]
          PROVE  Saved(i, y)'
      <4>1. y = els[i]
        BY <3>1, <3>5, QueuedLane
      <4>. QED
        BY <3>2, <4>1 DEF Saved, SavesIt
    <3>6. ASSUME NEW y \in Elem, NEW k \in DOMAIN atServer'[e],
                 i \in DOMAIN atServer'[e][k].els, y = atServer'[e][k].els[i]
          PROVE  Saved(i, y)'
      <4>1. CASE k \in DOMAIN atServer[e] /\ atServer'[e][k] = atServer[e][k]
        BY <1>1, <1>4, <3>6, <4>1 DEF Kept
      <4>2. CASE atServer'[e][k].els = out'[e].packet
        BY <3>4, <3>6, <4>2
      <4>. QED
        BY <1>1, <3>3, <4>1, <4>2, Carried
    <3>. QED
      BY <2>2, <3>4, <3>5, <3>6
  <2>3. CASE /\ g = e
             /\ out'[e].pending \in {out[e].pending, None}
             /\ \A j \in DOMAIN out'[e].packet :
                   \/ j \in DOMAIN out[e].packet /\ out'[e].packet[j] = out[e].packet[j]
                   \/ out[e].pending # None /\ out'[e].packet[j] = out[e].pending[j]
             /\ \A k \in DOMAIN atServer'[e] :
                   \/ \E l \in DOMAIN atServer[e] : atServer'[e][k].els = atServer[e][l].els
                   \/ atServer'[e][k].els = out'[e].packet
    <3>4. ASSUME NEW y \in Elem, i \in DOMAIN out'[e].packet, y = out'[e].packet[i]
          PROVE  Saved(i, y)'
      BY <1>1, <1>4, <2>3, <3>4 DEF Kept
    <3>5. ASSUME NEW y \in Elem, out'[e].pending # None, y = out'[e].pending[i]
          PROVE  Saved(i, y)'
      BY <1>1, <1>4, <2>3, <3>5 DEF Kept
    <3>6. ASSUME NEW y \in Elem, NEW k \in DOMAIN atServer'[e],
                 i \in DOMAIN atServer'[e][k].els, y = atServer'[e][k].els[i]
          PROVE  Saved(i, y)'
      <4>1. CASE \E l \in DOMAIN atServer[e] : atServer'[e][k].els = atServer[e][l].els
        BY <1>1, <1>4, <3>6, <4>1 DEF Kept
      <4>2. CASE atServer'[e][k].els = out'[e].packet
        BY <3>4, <3>6, <4>2
      <4>. QED
        BY <2>3, <4>1, <4>2
    <3>. QED
      BY <2>3, <3>4, <3>5, <3>6
  <2>. QED
    BY <2>1, <2>2, <2>3, LaneMove
\* The scene.
<1>10. PICK z \in Elem : z = scene'[g][i]
  BY <1>1 DEF Typed, Scene
<1>11. ASSUME z = scene[g][i], Saved(i, scene[g][i])
       PROVE  Saved(i, z)'
  BY <1>4, <1>11
<1>12. \/ g \in echo'
       \/ out'[g].trail # None /\ out'[g].trail[i] = z
       \/ Saved(i, z)'
  <2>1. CASE g # e
    <3>1. scene'[g] = scene[g] /\ out'[g] = out[g] /\ (g \in echo') = (g \in echo)
      BY <2>1, OthersSame
    <3>. QED
      BY <1>1, <1>10, <1>11, <3>1 DEF Kept
  <2>. SUFFICES ASSUME g = e, e \notin echo'
                PROVE  \/ out'[e].trail # None /\ out'[e].trail[i] = z
                       \/ Saved(i, z)'
    BY <2>1
  <2>2. CASE scene'[e] = scene[e] /\ out'[e].trail = out[e].trail /\ e \notin echo
    BY <1>1, <1>10, <1>11, <2>2 DEF Kept
  <2>3. CASE \E els \in Scene :
                /\ Report(e, els)
                /\ \/ els[i] = scene'[e][i]
                   \/ /\ out[e].trail = els /\ scene'[e] = scene[e] /\ e \notin echo
                      /\ out'[e].trail = None
    <3>1. PICK els \in Scene :
                /\ Report(e, els)
                /\ \/ els[i] = scene'[e][i]
                   \/ /\ out[e].trail = els /\ scene'[e] = scene[e] /\ e \notin echo
                      /\ out'[e].trail = None
      BY <2>3
    <3>2. els # None /\ els[i] \in Elem
      BY <1>1, PlanAssumption DEF Scene
    <3>3. CASE els[i] = scene'[e][i]
      <4>1. CASE QueueUpdate(e, els)
        <5>1. Saved(i, els[i])'
          BY <4>1, QueuedSaved
        <5>. QED
          BY <1>10, <3>3, <5>1 DEF Saved, SavesIt
      <4>2. CASE out' = [out EXCEPT ![e].trail = els]
        <5>1. out'[e].trail = els
          BY <4>2 DEF Typed, Outgoing
        <5>. QED
          BY <1>10, <3>2, <3>3, <5>1
      <4>. QED
        BY <3>1, <4>1, <4>2 DEF Report
    <3>4. CASE out[e].trail = els /\ scene'[e] = scene[e] /\ e \notin echo
      <4>1. CASE els[i] = scene[e][i]
        BY <3>3, <3>4, <4>1
      <4>2. CASE Saved(i, scene[e][i])
        BY <1>10, <1>11, <3>4, <4>2
      <4>. QED
        BY <1>1, <3>4, <4>1, <4>2 DEF Kept
    <3>. QED
      BY <3>1, <3>3, <3>4
  <2>. QED
    BY <2>2, <2>3, ReportMove
<1>13. /\ out'[g].packet \in Update /\ arrived'[g] \in Update
       /\ out'[g].pending \in Scene \union {None}
       /\ \A k \in DOMAIN atServer'[g] : atServer'[g][k].els \in Update
  <2>1. ASSUME NEW k \in DOMAIN atServer'[g]
        PROVE  atServer'[g][k].els \in Update
    <3>1. atServer'[g] \in Seq(Packet)
      BY DEF Typed, Packets
    <3>2. atServer'[g][k] \in Packet
      BY <3>1
    <3>. QED
      BY <3>2 DEF Packet
  <2>. QED
    BY <2>1 DEF Typed, Outgoing
<1>14. Saved(i, synced[g][i])'
  BY <1>6, <1>7 DEF Saved, SavesIt
<1>15. ASSUME i \in DOMAIN out'[g].packet PROVE Saved(i, out[g].packet[i])'
  <2>1. PICK y \in Elem : y = out'[g].packet[i]
    BY <1>13, <1>15, Updates
  <2>2. Saved(i, y)'
    BY <1>9, <1>15, <2>1
  <2>. QED
    BY <2>1, <2>2 DEF Saved, SavesIt
<1>16. ASSUME out'[g].pending # None PROVE Saved(i, out[g].pending[i])'
  <2>1. PICK y \in Elem : y = out'[g].pending[i]
    BY <1>1, <1>13, <1>16 DEF Scene
  <2>2. Saved(i, y)'
    BY <1>9, <1>16, <2>1
  <2>. QED
    BY <2>1, <2>2 DEF Saved, SavesIt
<1>17. ASSUME NEW k \in DOMAIN atServer'[g], i \in DOMAIN atServer'[g][k].els
       PROVE  Saved(i, atServer[g][k].els[i])'
  <2>1. PICK y \in Elem : y = atServer'[g][k].els[i]
    BY <1>13, <1>17, Updates
  <2>2. Saved(i, y)'
    BY <1>9, <1>17, <2>1
  <2>. QED
    BY <2>1, <2>2 DEF Saved, SavesIt
<1>18. ASSUME i \in DOMAIN arrived'[g] PROVE Saved(i, arrived[g][i])'
  <2>1. PICK y \in Elem : y = arrived'[g][i]
    BY <1>13, <1>18, Updates
  <2>2. Saved(i, y)'
    BY <1>8, <1>18, <2>1
  <2>. QED
    BY <2>1, <2>2 DEF Saved, SavesIt
<1>19. \/ g \in echo'
       \/ out'[g].trail # None /\ out'[g].trail[i] = scene'[g][i]
       \/ Saved(i, scene[g][i])'
  BY <1>10, <1>12 DEF Saved, SavesIt
<1>. QED
  BY <1>14, <1>15, <1>16, <1>17, <1>18, <1>19 DEF Kept

-----------------------------------------------------------------------------
(* The theorems *)

\* The inductive invariant.
SyncInv == Typed /\ LineInv /\ SpreadInv /\ KeptInv

\* When the board is opened every copy is the stored one.
LEMMA InitSync == Init => SyncInv
<1>. SUFFICES ASSUME Init PROVE SyncInv
  OBVIOUS
<1>1. Typed
  BY InitTyped
<1>2. /\ stray = {} /\ aged = {} /\ Opened \in Scene /\ NoSave.pc = "idle" /\ NoSave.got = None
      /\ DOMAIN Nothing = {} /\ row.els = Opened /\ row.version = 1
  BY DEF Init, Opened, Scene, Elem, NoSave, Nothing
<1>3. \A e \in Editors :
        /\ scene[e] = Opened /\ synced[e] = Opened /\ e \notin echo
        /\ out[e].trail = None /\ out[e].pending = None /\ out[e].lane = "idle"
        /\ out[e].packet = Nothing /\ due[e] = None
        /\ saves[e].queue = << >> /\ saves[e].job = NoSave /\ ~Active(e)
        /\ ver[e] = 1 /\ atServer[e] = << >> /\ arrived[e] = Nothing
  BY <1>2 DEF Init, AtRest, Active
<1>4. \A i \in Ids : Opened[i] \in Elem /\ AtLeast(Opened[i], Opened[i])
  BY <1>2, Order DEF Scene
<1>5. LineInv
  <2>1. ASSUME NEW e \in Editors PROVE Answerable(e) /\ Versions(e)
    BY <1>2, <1>3 DEF Answerable, Versions
  <2>2. ASSUME NEW e \in Editors, NEW i \in Ids
        PROVE  Sent(e, i) /\ Ordered(e, i) /\ Current(e, i)
    BY <1>2, <1>3, <1>4 DEF Sent, Ordered, Behind, SavesBehind, Current
  <2>. QED
    BY <2>1, <2>2 DEF LineInv
<1>6. SpreadInv
  BY <1>2, <1>3, <1>4 DEF SpreadInv, Spread, Reaches, Has
<1>7. KeptInv
  BY <1>2, <1>3, <1>4 DEF KeptInv, RowShown, Kept, Saved
<1>. QED
  BY <1>1, <1>5, <1>6, <1>7 DEF SyncInv

\* Every step keeps the invariant.
LEMMA SyncStep == SyncInv /\ [Next]_vars => SyncInv'
<1>1. ASSUME SyncInv, Next
      PROVE  SyncInv'
  <2>1. PICK e \in Editors : Acts(e)
    BY <1>1, Actors
  <2>2. Typed /\ Typed' /\ LineInv /\ SpreadInv /\ KeptInv
    BY <1>1, StepTyped DEF SyncInv
  <2>. QED
    BY <2>1, <2>2, LineStep, SpreadStep, KeptStep DEF SyncInv
<1>2. ASSUME SyncInv, UNCHANGED vars
      PROVE  SyncInv'
  <2>1. Typed'
    BY <1>2, StepTyped DEF SyncInv
  <2>2. LineInv'
    BY <1>2 DEF SyncInv, LineInv, vars, Answerable, Versions, Sent, Ordered, Behind,
       SavesBehind, Current, Active
  <2>3. SpreadInv'
    BY <1>2 DEF SyncInv, SpreadInv, vars, Spread, Reaches, Has
  <2>4. KeptInv'
    BY <1>2 DEF SyncInv, KeptInv, vars, RowShown, Kept, Saved, SavesIt, Active
  <2>. QED
    BY <2>1, <2>2, <2>3, <2>4 DEF SyncInv
<1>. QED
  BY <1>1, <1>2

\* What an editor takes to be shared of a spared element every other editor shows, or
\* has on its way, or has replaced by something newer, whatever was lost, late or sent
\* twice: an answered packet books what it held, not what the element has become
\* (useEditorBroadcast.ts:506-531).
THEOREM SharedIsShown == Spec => []EditorSound
<1>1. SyncInv => EditorSound
  <2>. SUFFICES ASSUME SyncInv PROVE EditorSound
    OBVIOUS
  <2>1. TypeOK
    <3>1. ASSUME NEW e \in Editors
          PROVE  /\ out[e].trail \in Scene \union {None}
                 /\ out[e].pending \in Scene \union {None}
                 /\ out[e].lane \in {"idle", "ready", "sent"}
                 /\ IsUpdate(out[e].packet)
                 /\ due[e] \in Scene \union {None}
                 /\ \A k \in DOMAIN saves[e].queue : saves[e].queue[k] \in Scene
                 /\ saves[e].job.pc \in {"idle", "put", "got"}
                 /\ ver[e] \in Nat
                 /\ IsUpdate(arrived[e])
      BY Updates DEF SyncInv, Typed, Outgoing, IsUpdate, SaveJob
    <3>. QED
      BY <3>1 DEF TypeOK, SyncInv, Typed
  <2>2. ASSUME NEW e \in Editors, NEW f \in Editors, NEW i \in Spared
        PROVE  \E copy \in Reaching(e, f, i) : ~Newer(synced[e][i], copy)
    BY DEF SyncInv, SpreadInv, Spread, Reaches, Has, Reaching, AtLeast
  <2>. QED
    BY <2>1, <2>2 DEF EditorSound, SyncedIsShared
<1>. QED
  BY <1>1, InitSync, SyncStep, PTL DEF Spec

\* Once everything is sent, merged and saved, every screen and the stored drawing show
\* the same copy of each spared element, for any number of editors: reconcileElements
\* picks the same winner everywhere (utils/sync.ts:149-211).
THEOREM BoardsSettle == Spec => []BoardsAgree
<1>1. SyncInv => BoardsAgree
  <2>. SUFFICES ASSUME SyncInv, Quiet, NEW e \in Editors, NEW i \in Spared
                PROVE  scene[e][i] = row.els[i]
    BY DEF BoardsAgree
  <2>0. DOMAIN Nothing = {} /\ Typed
    BY Updates DEF SyncInv
  <2>1. \A f \in Editors : 
          /\ f \notin echo /\ out[f].trail = None /\ out[f].pending = None
          /\ DOMAIN out[f].packet = {} /\ DOMAIN arrived[f] = {}
          /\ due[f] = None /\ saves[f].queue = << >> /\ ~Active(f)
    BY <2>0 DEF Quiet, Idle, AtRest, NoSave, Active
  <2>2. \A f \in Editors : scene[f][i] \in Elem /\ row.els[i] \in Elem
    BY <2>0 DEF Typed, Row, Scene
\* Every screen shows what every other shows, ...
  <2>3. \A f, g \in Editors : AtLeast(scene[f][i], scene[g][i])
    <3>. TAKE f, g \in Editors
    <3>1. Spread(g, f, i)
      BY DEF SyncInv, SpreadInv
    <3>. QED
      BY <2>1, <3>1 DEF Spread, Reaches, Has
\* ... the stored drawing has it, ...
  <2>4. AtLeast(row.els[i], scene[e][i])
    <3>1. Kept(e, i)
      BY DEF SyncInv, KeptInv
    <3>. QED
      BY <2>1, <3>1 DEF Kept, Saved, SavesIt
\* ... and has nothing that no screen shows.
  <2>5. AtLeast(scene[e][i], row.els[i])
    <3>1. PICK g \in Editors : AtLeast(scene[g][i], row.els[i])
      BY DEF SyncInv, KeptInv, RowShown
    <3>. QED
      BY <2>2, <2>3, <3>1, Order
  <2>. QED
    BY <2>2, <2>4, <2>5, Order
<1>. QED
  BY <1>1, InitSync, SyncStep, PTL DEF Spec

\* A merge of what others sent never takes a copy off a screen for an older one, at
\* whatever time it comes, until a flush shows the element under an older label
\* (useEditorCollaboration.ts:421-600).
THEOREM NoStepBack == Spec => UpdatesNeverStepBack
<1>. DEFINE Grows == \A e \in Editors : saves'[e] = saves[e] =>
                       \A i \in Ids \ aged' : ~Newer(scene[e][i], scene'[e][i])
<1>1. ASSUME Typed, [Next]_vars
      PROVE  [Grows]_vars
  <2>. SUFFICES ASSUME Next, NEW f \in Editors, saves'[f] = saves[f], NEW i \in Ids
                PROVE  AtLeast(scene'[f][i], scene[f][i])
    BY <1>1 DEF AtLeast
  <2>1. PICK e \in Editors : Acts(e)
    BY Actors
  <2>2. scene[f][i] \in Elem /\ scene[f] \in Scene
    BY <1>1 DEF Typed, Scene
  <2>3. CASE scene'[f] = scene[f]
    BY <2>2, <2>3, Order
  <2>4. CASE f = e
    <3>1. CASE \E j \in Ids, n \in Nat : Edit(e, j, n)
      <4>1. PICK j \in Ids, n \in Nat : Edit(e, j, n)
        BY <3>1
      <4>2. scene'[e][i] = IF i = j THEN [v |-> scene[e][j].v + 1, n |-> n] ELSE scene[e][i]
        BY <2>2, <2>4, <4>1, <1>1 DEF Edit, Typed, Scene
      <4>. QED
        BY <2>2, <2>4, <4>2, Order DEF AtLeast, Newer, Elem
    <3>2. CASE \E p \in Grips : Flush(e, p)
      <4>1. PICK p \in Grips : Flush(e, p)
        BY <3>2
      <4>. DEFINE merged == Reconcile(scene[e], arrived[e], p)
      <4>2. /\ scene'[e] = Shown(e, merged)
            /\ scene[e] \in Scene /\ arrived[e] \in Update
        BY <1>1, <4>1 DEF Flush, Typed
      <4>3. merged \in Scene /\ AtLeast(merged[i], scene[e][i])
        BY <4>2, Merged
      <4>. HIDE DEF merged
      <4>4. Shown(e, merged)[i] = merged[i] \/ Shown(e, merged)[i] = scene[e][i]
        BY <1>1, <4>3, ShownMerge
      <4>. QED
        BY <2>2, <2>4, <4>2, <4>3, <4>4, Order
    <3>3. CASE \E p \in Grips : Rebase(e, p)
      <4>1. PICK p \in Grips : Rebase(e, p)
        BY <3>3
      <4>2. saves[e].job.pc = "got"
        BY <4>1 DEF Rebase
      <4>3. saves'[e].job.pc = "put"
        BY <1>1, <4>1 DEF Rebase, SetJob, Job, Typed, SaveJob
      <4>. QED
        BY <2>4, <4>2, <4>3
    <3>4. CASE UNCHANGED scene
      BY <2>3, <3>4
    <3>. QED
      BY <2>1, <3>1, <3>2, <3>3, <3>4 DEF Acts, Work, Mishap, Echo, ThrottleFires, Resend,
         Relay, Rejoin, DebounceFires, Put, Timeout, Drop, SaveFails
  <2>5. CASE f # e
    BY <1>1, <2>1, <2>3, <2>5, OthersSame
  <2>. QED
    BY <2>4, <2>5
<1>2. Init => Typed
  BY InitTyped
<1>3. Typed /\ [Next]_vars => Typed'
  BY StepTyped
<1>. QED
  BY <1>1, <1>2, <1>3, PTL DEF Spec, UpdatesNeverStepBack

=============================================================================
