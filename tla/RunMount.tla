------------------------------ MODULE RunMount ------------------------------
(***************************************************************************)
(* What an agent run is given to read.  A mount pins an immutable revision *)
(* of the board (agent/boardMount.ts); a text element of it counts as an   *)
(* instruction only if a person approved the text together with everything *)
(* it is declared to depend on (instructionApprovals.ts,                   *)
(* instructionClosure.ts); and an element a guest has touched is withheld  *)
(* until a member confirms it (elementGuestProvenance.ts).                 *)
(*                                                                         *)
(* Meanwhile people go on drawing, declaring relations, approving and      *)
(* confirming: all of it is read live, or pinned, at different moments.    *)
(*                                                                         *)
(* A hash stands for what is hashed.  An element is what it says and the   *)
(* frame it is in.  Context frames stay on the board                       *)
(* (DrawingSave!FrameKept) and are in no other frame.  A save is one step. *)
(* A guest who loses the right to write in between is DrawingSave's.       *)
(* Left out: assets, rendering, search, capabilities other than the        *)
(* Contexts, audits, focus events.                                         *)
(***************************************************************************)
EXTENDS FiniteSets, Naturals

CONSTANTS
    Ids,          \* element ids
    Frames,       \* those that are frames
    Contexts,     \* those frames that are or may become Contexts
    Instructions, \* text elements somebody may want to approve
    Words,        \* what a text can say
    None,
    People,       \* members who review instructions
    MaxBeside,    \* bound on registrations, confirmations and policy changes
    Situations    \* what a run may start from: [board, registered, relations, known],
                  \* and the saves and the declarations people are going to make

Element  == [says : Words \union {None}, in : Frames \union {None}]
Scene    == [Ids -> Element \union {None}]
Relation == [context : Contexts, from : Ids, to : Ids, whole : BOOLEAN]
Revision == [scene : Scene, contexts : SUBSET Contexts, relations : SUBSET Relation]
Closure  == [context : Contexts, root : Instructions,
             nodes : SUBSET (Ids \X (Words \union {None})), edges : SUBSET Relation]
Stroke   == [guest : BOOLEAN, id : Ids, to : Element \union {None}]

ASSUME MountAssumption ==
    /\ IsFiniteSet(Ids)
    /\ Contexts \subseteq Frames /\ Frames \subseteq Ids
    /\ Instructions \subseteq Ids \ Frames
    /\ None \notin Ids \union Words /\ None \notin Closure
    /\ MaxBeside \in Nat
    /\ \A s \in Situations :
          /\ s.board \in Scene /\ s.registered \subseteq Contexts
          /\ s.relations \subseteq Relation /\ s.known \in {"unknown", "clean"}
          /\ s.saves \subseteq Stroke /\ s.declared \subseteq Relation

VARIABLES
    scene,      \* the stored elements
    registered, \* the AgentContext rows, by their frames
    relations,  \* the AgentSemanticRelation rows
    approval,   \* the AgentInstructionApproval rows
    prov,       \* guest provenance of the elements
    policy,     \* may guests contribute to Contexts?
    review,     \* what each person is being shown or has just had confirmed
    relating,   \* the relation that was checked and is about to be written
    mount,      \* the run's mount
    call,       \* the tool call being served and its answer
    due,        \* the saves and declarations people have yet to make
    beside,     \* counts what MaxBeside bounds
    confirmed,  \* history: the closures people asked to approve
    guestly,    \* history: elements a guest touched since they were confirmed
    cleared     \* history: elements confirmed since the run was mounted

vars == <<scene, registered, relations, approval, prov, policy,
          review, relating, mount, call, due, beside, confirmed, guestly, cleared>>

Present(s)   == {e \in Ids : s[e] # None}
Inside(s, f) == {e \in Present(s) : s[e].in = f}

\* contextIndex: the nearest Context frame above an element, itself included.
HomeOf(rev, e) ==
    LET above[k \in 0..Cardinality(Ids)] ==
            IF k = 0 THEN e
            ELSE LET f == above[k - 1] IN
                 IF f \in rev.contexts \union {None} THEN f
                 ELSE IF rev.scene[f] = None THEN None ELSE rev.scene[f].in
        top == above[Cardinality(Ids)]
    IN  IF top \in rev.contexts THEN top ELSE None

-----------------------------------------------------------------------------
(* The closure of an instruction *)

Of(rev, c) == {r \in rev.relations : r.context = c}
From(rels, reached) == {r \in rels : r.from \in reached}

\* visit: everything the relations lead to.
Visit(rels, start) ==
    LET seen[k \in 0..Cardinality(Ids)] ==
            IF k = 0 THEN start
            ELSE LET s == seen[k - 1] IN s \union {r.to : r \in From(rels, s)}
    IN  seen[Cardinality(Ids)]

\* What the whole_frame relations from these elements bring in.
Members(rev, c, reached) ==
    UNION {{e \in Inside(rev.scene, r.to) : HomeOf(rev, e) = c} :
               r \in {q \in From(Of(rev, c), reached) : q.whole}}

\* Mutant of Reachable: members of a frame bring in no frame of their own.
ReachableOnce(rev, c, i) ==
    LET first == Visit(Of(rev, c), {i})
    IN  Visit(Of(rev, c), first \union Members(rev, c, first))

\* The growing worklist of whole_frame relations.
Reachable(rev, c, i) ==
    LET grown[k \in 0..Cardinality(Ids)] ==
            IF k = 0 THEN Visit(Of(rev, c), {i})
            ELSE LET s == grown[k - 1] IN Visit(Of(rev, c), s \union Members(rev, c, s))
    IN  grown[Cardinality(Ids)]

\* assertRelation, and what a whole_frame relation has to lead to.
Stands(rev, c, r) ==
    /\ {r.from, r.to} \subseteq Present(rev.scene)
    /\ HomeOf(rev, r.from) = c /\ HomeOf(rev, r.to) = c
    /\ r.whole => r.to \in Frames

\* compileInstructionClosureFromRevision; None when it throws.
Compile(rev, c, i) ==
    LET reached == Reachable(rev, c, i)
        edges   == From(Of(rev, c), reached)
    IN  IF /\ c \in rev.contexts
           /\ i \in Present(rev.scene) /\ HomeOf(rev, i) = c
           /\ \A r \in edges : Stands(rev, c, r)
        THEN [context |-> c, root |-> i,
              nodes |-> {<<e, rev.scene[e].says>> : e \in reached}, edges |-> edges]
        ELSE None

\* materializeAgentBoardRevision.  A revision is found by a hash of all of this, so
\* one that is found says what the board says.
Now == [scene |-> scene, contexts |-> registered, relations |-> relations]

-----------------------------------------------------------------------------
(* Drawing, confirming, registering *)

Board  == <<scene, registered, relations, prov, policy>>
Beside == beside < MaxBeside /\ beside' = beside + 1
Agent  == <<mount, call>>

\* Mutant of Recorded: creating an element again makes it clean.
RecordedAfresh(guest, e) ==
    [prov EXCEPT ![e] = IF guest THEN "touched"
                        ELSE IF scene[e] = None THEN "clean" ELSE @]

\* recordSuccessfulElementMutation: a guest marks, a member only creates.
Recorded(guest, e) ==
    [prov EXCEPT ![e] = IF guest THEN "touched"
                        ELSE IF scene[e] = None /\ @ = "unknown" THEN "clean" ELSE @]

\* assertGuestElementWriteAllowed looks at the scene that results.
GuestMayWrite(s, e) ==
    policy \/ s[e] = None \/ HomeOf([Now EXCEPT !.scene = s], e) = None

\* A planned save is made: [guest, id, to].
Save(p) ==
    /\ p \in due.saves
    /\ scene[p.id] # p.to
    /\ LET s == [scene EXCEPT ![p.id] = p.to] IN
          /\ p.guest => GuestMayWrite(s, p.id)
          /\ scene' = s
    /\ prov' = Recorded(p.guest, p.id)
    /\ guestly' = IF p.guest THEN guestly \union {p.id} ELSE guestly
    /\ due' = [due EXCEPT !.saves = @ \ {p}]
    /\ UNCHANGED <<registered, relations, approval, policy, review,
                   relating, Agent, beside, confirmed, cleared>>

\* registerAgentContext: legacy elements inside count as touched from here on.
Register(c) ==
    /\ c \in Contexts \ registered /\ Beside
    /\ registered' = registered \union {c}
    /\ prov' = [e \in Ids |-> IF /\ e \in Present(scene) /\ prov[e] = "unknown"
                                 /\ HomeOf([Now EXCEPT !.contexts = {c}], e) = c
                              THEN "touched" ELSE prov[e]]
    /\ UNCHANGED <<scene, relations, approval, policy, review,
                   relating, Agent, due, confirmed, guestly, cleared>>

\* confirm-clean: a member vouches for an element inside a Context.
ConfirmClean(e) ==
    /\ e \in Present(scene) /\ HomeOf(Now, e) # None
    /\ prov[e] # "clean" /\ Beside
    /\ prov' = [prov EXCEPT ![e] = "clean"]
    /\ guestly' = guestly \ {e}
    /\ cleared' = IF mount = None THEN cleared ELSE cleared \union {e}
    /\ UNCHANGED <<scene, registered, relations, approval, policy,
                   review, relating, Agent, due, confirmed>>

\* PUT guest-capabilities by the owner.
SetPolicy ==
    /\ Beside
    /\ policy' = ~policy
    /\ UNCHANGED <<scene, registered, relations, approval, prov, review,
                   relating, Agent, due, confirmed, guestly, cleared>>

-----------------------------------------------------------------------------
(* Declaring and approving *)

\* upsertInstructionSemanticRelation checks against a revision and then writes.
RelateCheck(r) ==
    /\ relating = None /\ r \in due.relations
    /\ LET rev == Now IN
          /\ r.from \in Present(rev.scene) /\ r.to \in Present(rev.scene)
          /\ HomeOf(rev, r.from) = r.context /\ HomeOf(rev, r.to) = r.context
    /\ relating' = r
    /\ due' = [due EXCEPT !.relations = @ \ {r}]
    /\ UNCHANGED <<Board, approval, review, Agent, beside, confirmed, guestly, cleared>>

RelateWrite ==
    /\ relating # None
    /\ relations' = relations \union {relating}
    /\ relating' = None
    /\ UNCHANGED <<scene, registered, approval, prov, policy, review,
                   Agent, due, beside, confirmed, guestly, cleared>>

Idle == [pc |-> "idle", closure |-> None]

\* previewInstructionApproval.
Preview(h, c, i) ==
    /\ review[h].pc = "idle"
    /\ LET closure == Compile(Now, c, i) IN
          /\ closure # None
          /\ review' = [review EXCEPT ![h] = [pc |-> "shown", closure |-> closure]]
    /\ UNCHANGED <<Board, approval, relating, Agent, due, beside, confirmed, guestly, cleared>>

\* Mutant of SameAsShown: only the instruction itself is compared.
SameRoot(shown, closure) ==
    /\ closure # None
    /\ {n \in closure.nodes : n[1] = closure.root} = {n \in shown.nodes : n[1] = shown.root}

\* expectedClosureHash names what the person was shown.
SameAsShown(shown, closure) == shown = closure

\* approveInstruction up to its write: APPROVAL_PREVIEW_STALE sends the person back.
ApproveCheck(h) ==
    /\ review[h].pc = "shown"
    /\ confirmed' = confirmed \union {review[h].closure}
    /\ LET shown   == review[h].closure
           closure == Compile(Now, shown.context, shown.root)
       IN  review' = [review EXCEPT ![h] =
               IF SameAsShown(shown, closure)
               THEN [pc |-> "matched", closure |-> closure] ELSE Idle]
    /\ UNCHANGED <<Board, approval, relating, Agent, due, beside, guestly, cleared>>

\* The upsert, whatever has been approved in the meantime.
ApproveWrite(h) ==
    /\ review[h].pc = "matched"
    /\ LET closure == review[h].closure IN
          approval' = [approval EXCEPT ![closure.context][closure.root] = closure]
    /\ review' = [review EXCEPT ![h] = Idle]
    /\ UNCHANGED <<Board, relating, Agent, due, beside, confirmed, guestly, cleared>>

-----------------------------------------------------------------------------
(* The run *)

NoCall == [pc |-> "idle", policy |-> FALSE, clean |-> {}, given |-> {}, marked |-> {}]

\* createAgentRunMount: the Contexts asked for have to be in the revision.  The
\* row is inserted a moment later; nothing it says can change by then.
Mount ==
    /\ mount = None
    /\ \E allowed \in (SUBSET registered) \ {{}} :
          mount' = [pin |-> Now, allowed |-> allowed, guestly |-> guestly]
    /\ cleared' = {}
    /\ UNCHANGED <<Board, approval, review, relating, call, due, beside, confirmed, guestly>>

\* executeAgentBoardTool: the policy is read,
ReadPolicy ==
    /\ mount # None /\ call.pc = "idle"
    /\ call' = [NoCall EXCEPT !.pc = "policy", !.policy = policy]
    /\ UNCHANGED <<Board, approval, review, relating, mount, due, beside,
                   confirmed, guestly, cleared>>

\* then the provenance as it is now,
ReadProvenance ==
    /\ call.pc = "policy"
    /\ call' = [call EXCEPT !.pc = "provenance", !.clean = {e \in Ids : prov[e] = "clean"}]
    /\ UNCHANGED <<Board, approval, review, relating, mount, due, beside,
                   confirmed, guestly, cleared>>

\* isEligibleForAgentContribution; the frame of a Context is always addressable.
Eligible(e) == e \in mount.pin.contexts \/ call.policy \/ e \in call.clean

\* What the pinned revision lets this mount read.
Readable == {e \in Present(mount.pin.scene) :
                HomeOf(mount.pin, e) \in mount.allowed /\ Eligible(e)}

\* Mutant of Current: the approved text is enough.
CurrentText(a, closure) == a # None /\ SameRoot(a, closure)

\* requireCurrentInstructionApproval against the pinned revision.
Current(a, closure) == a # None /\ a = closure

\* then the approvals, and the answer is put together.
Answer ==
    /\ call.pc = "provenance"
    /\ LET pinned(e)  == Compile(mount.pin, HomeOf(mount.pin, e), e)
           row(e)     == approval[HomeOf(mount.pin, e)][e]
           marked     == {e \in Readable \intersect Instructions : Current(row(e), pinned(e))}
       IN  call' = [call EXCEPT !.pc = "answered", !.given = Readable,
                                !.marked = {pinned(e) : e \in marked}]
    /\ UNCHANGED <<Board, approval, review, relating, mount, due, beside,
                   confirmed, guestly, cleared>>

-----------------------------------------------------------------------------

Init ==
    /\ \E s \in Situations :
          /\ scene = s.board /\ registered = s.registered /\ relations = s.relations
          /\ prov = [e \in Ids |-> IF e \in Present(s.board) THEN s.known ELSE "unknown"]
          /\ due = [saves |-> s.saves, relations |-> s.declared]
    /\ policy = FALSE
    /\ approval = [c \in Contexts |-> [i \in Instructions |-> None]]
    /\ review = [h \in People |-> Idle]
    /\ relating = None /\ mount = None /\ call = NoCall
    /\ beside = 0
    /\ confirmed = {} /\ guestly = {} /\ cleared = {}

Work ==
    \/ \E p \in due.saves : Save(p)
    \/ \E c \in Contexts : Register(c)
    \/ \E e \in Ids : ConfirmClean(e)
    \/ SetPolicy
    \/ \E r \in due.relations : RelateCheck(r)
    \/ RelateWrite
    \/ \E h \in People :
          \/ \E c \in Contexts, i \in Instructions : Preview(h, c, i)
          \/ ApproveCheck(h) \/ ApproveWrite(h)
    \/ Mount \/ ReadPolicy \/ ReadProvenance \/ Answer

\* An answer shares nothing with the next one: to follow one is enough.
Next == call.pc # "answered" /\ Work

Spec == Init /\ [][Next]_vars

-----------------------------------------------------------------------------
(* Properties *)

TypeOK ==
    /\ scene \in Scene /\ registered \subseteq Contexts /\ relations \subseteq Relation
    /\ \A c \in Contexts, i \in Instructions :
          approval[c][i] \in Closure \union {None}
    /\ prov \in [Ids -> {"unknown", "touched", "clean"}] /\ policy \in BOOLEAN
    /\ \A h \in People : /\ review[h].pc \in {"idle", "shown", "matched"}
                         /\ review[h].pc # "idle" => review[h].closure \in Closure
    /\ relating \in Relation \union {None}
    /\ mount # None =>
          mount.pin \in Revision /\ mount.allowed \subseteq mount.pin.contexts
    /\ call.pc \in {"idle", "policy", "provenance", "answered"} /\ call.given \subseteq Ids
    /\ due.relations \subseteq Relation /\ beside \in 0..MaxBeside

\* Whatever an agent is handed as an instruction, a person has approved after
\* seeing exactly this: the text, everything it is declared to depend on, and how.
\* Board, relations and approvals change between the preview, the approval, the
\* pinning of the revision and the reading of the approval
\* (instructionApprovals.ts:151-156, 300-303, boardMount.ts:567-594).
MarkedWasReviewed == call.marked \subseteq confirmed

\* The words a guest put on the pinned board reach the agent only if the policy
\* lets guests contribute or a member has confirmed the element since, even if
\* members moved it into a Context, deleted it and brought it back
\* (elementGuestProvenance.ts:61-105, boardMount.ts:481-520).
GuestWordsStayOut ==
    call.pc = "answered" /\ ~call.policy
        => call.given \intersect mount.guestly \subseteq mount.pin.contexts \union cleared

\* What an instruction means, defined apart from the worklist: the smallest set
\* that holds it and is closed under its relations, members of whole frames
\* included.
Closed(rev, c, S) ==
    \A r \in From(Of(rev, c), S) :
       /\ r.to \in S
       /\ r.whole => \A e \in Inside(rev.scene, r.to) : HomeOf(rev, e) = c => e \in S

Meaning(rev, c, i) ==
    {e \in Ids : \A S \in SUBSET Ids : i \in S /\ Closed(rev, c, S) => e \in S}

\* The closure a person approves is the whole meaning of the instruction, never
\* leaves its Context, and cannot be compiled only if a relation it depends on no
\* longer stands: stale relations of unrelated work do not block it
\* (instructionClosure.ts:178-232).
ClosureSound ==
    \A c \in registered, i \in Instructions :
       i \in Present(scene) /\ HomeOf(Now, i) = c =>
          LET meant   == Meaning(Now, c, i)
              closure == Compile(Now, c, i)
          IN  /\ closure = None <=> \E r \in From(Of(Now, c), meant) : ~Stands(Now, c, r)
              /\ closure # None =>
                    /\ {n[1] : n \in closure.nodes} = meant
                    /\ \A e \in meant : HomeOf(Now, e) = c

\* Everything has its shape, and what an instruction means is compiled in full.
MountSound == TypeOK /\ ClosureSound

=============================================================================
