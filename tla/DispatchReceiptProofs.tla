----------------------- MODULE DispatchReceiptProofs -----------------------
(***************************************************************************)
(* Proofs about DispatchReceipt: one foreign start per dispatch, truthful  *)
(* and final outcomes, effects committed within the approved window, and   *)
(* leases that are released by their own run and never left behind.        *)
(***************************************************************************)
EXTENDS DispatchReceipt, WellFoundedInduction, TLAPS

\* A set of naturals that is not empty has a least element.
LEMMA Least ==
    ASSUME NEW T, T \subseteq Nat, T # {}
    PROVE  \E x \in T : \A y \in T : x <= y
<1>. DEFINE R == OpToRel(<, Nat)
<1>1. IsWellFoundedOn(R, Nat)
  BY NatLessThanWellFounded
<1>2. \A x, y \in Nat : y < x => <<y, x>> \in R
  BY DEF OpToRel
<1>. HIDE DEF R
<1>3. PICK x \in T : \A y \in T : ~(<<y, x>> \in R)
  BY <1>1, WFMin
<1>4. \A y \in T : ~(y < x)
  BY <1>2, <1>3
<1>. QED
  BY <1>4

\* The next target is one of the targets that still await a lease.
LEMMA NextTargetAwaits ==
    ASSUME TypeOK, NEW d \in Dispatches, Awaiting(d) # {}
    PROVE  NextTarget(d) \in Awaiting(d) /\ NextTarget(d) \in Contexts
<1>1. Awaiting(d) \subseteq Contexts /\ Contexts \subseteq Nat
  BY DispatchAssumption DEF Awaiting, Contexts, TypeOK, Request
<1>2. PICK c \in Awaiting(d) : \A e \in Awaiting(d) : c <= e
  BY <1>1, Least
<1>3. \E x \in request[d].targets :
         /\ request[d].admitted[x] = 0
         /\ \A e \in request[d].targets : request[d].admitted[e] = 0 => x <= e
  BY <1>2 DEF Awaiting
<1>4. NextTarget(d) \in request[d].targets /\ request[d].admitted[NextTarget(d)] = 0
  BY <1>3 DEF NextTarget
<1>. QED
  BY <1>1, <1>4 DEF Awaiting

\* The values a record starts with are records of its type.
LEMMA BlankTypes ==
    /\ NoRow \in Row /\ NoReceipt \in Receipt
    /\ NoRequest \in Request /\ NoWorker \in Worker
    /\ Nothing \in [Contexts -> Nat]
<1>1. Nothing \in [Contexts -> Nat]
  BY DEF Nothing
<1>. QED
  BY <1>1 DEF NoRow, Row, NoReceipt, Receipt, Execution, Effect, NoRequest, Request,
              NoWorker, Worker, Status

\* The earlier of two instants is an instant, and is not after either.
LEMMA EarlierBound ==
    ASSUME NEW a \in Nat, NEW b \in Nat
    PROVE  Earlier(a, b) \in Nat /\ Earlier(a, b) <= a /\ Earlier(a, b) <= b
BY DEF Earlier

\* What a grant writes is a row, under the approval asked for.
LEMMA GrantTyped ==
    ASSUME NEW g \in Nat, NEW r \in Runs, NEW u \in Users,
           NEW now \in Nat, NEW ttl, now + ttl \in Nat, NEW h \in Nat
    PROVE  /\ Grant(g, r, u, now, ttl, h) \in Row
           /\ Grant(g, r, u, now, ttl, h).expiresAt <= h
BY EarlierBound DEF Grant, Row

\* Releasing what a receipt holds changes nothing but the released mark of its
\* own leases.
LEMMA ReleaseBoundRows ==
    ASSUME lease \in [Contexts -> Row], NEW r
    PROVE  /\ ReleaseBound(r) \in [Contexts -> Row]
           /\ \A c \in Contexts :
                 /\ ReleaseBound(r)[c].gen = lease[c].gen
                 /\ ReleaseBound(r)[c].run = lease[c].run
                 /\ ReleaseBound(r)[c].user = lease[c].user
                 /\ ReleaseBound(r)[c].expiresAt = lease[c].expiresAt
                 /\ ReleaseBound(r)[c].endHorizonAt = lease[c].endHorizonAt
                 /\ lease[c].released => ReleaseBound(r)[c].released
                 /\ ReleaseBound(r)[c].released /\ ~lease[c].released
                       => r.bound[c] # 0 /\ lease[c].gen = r.bound[c]
                 /\ r.bound[c] # 0 /\ lease[c].gen = r.bound[c]
                       => ReleaseBound(r)[c].released
BY DEF ReleaseBound, Release, Row

\* So does the release of one lease of an admission that was turned down.
LEMMA UndoneRow ==
    ASSUME lease \in [Contexts -> Row], NEW d, NEW c \in Contexts
    PROVE  /\ Undone(d, c) \in Row
           /\ Undone(d, c).gen = lease[c].gen
           /\ Undone(d, c).run = lease[c].run
           /\ Undone(d, c).user = lease[c].user
           /\ Undone(d, c).expiresAt = lease[c].expiresAt
           /\ Undone(d, c).endHorizonAt = lease[c].endHorizonAt
           /\ lease[c].released => Undone(d, c).released
           /\ Undone(d, c).released /\ ~lease[c].released => lease[c].run = d
           /\ lease[c].gen = request[d].admitted[c] /\ lease[c].run = d
              /\ lease[c].user = Initiator => Undone(d, c).released
BY DEF Undone, Release, Row

\* The timer of a receipt that has deadlines is set for the earliest of them.
LEMMA ScheduledEarliest ==
    ASSUME NEW d, NEW r \in Receipt, timer[d] \in Nat
    PROVE  /\ Scheduled(d, r) \in Nat
           /\ Deadlines(r) \subseteq Nat
           /\ Deadlines(r) # {} => Scheduled(d, r) \in Deadlines(r)
           /\ \A t \in Deadlines(r) : Scheduled(d, r) <= t
<1>1. Deadlines(r) \subseteq Nat
  BY DEF Deadlines, Receipt
<1>2. CASE Deadlines(r) = {}
  BY <1>1, <1>2 DEF Scheduled
<1>3. CASE Deadlines(r) # {}
  <2>1. \E t \in Deadlines(r) : \A u \in Deadlines(r) : t <= u
    BY <1>1, <1>3, Least
  <2>. QED
    BY <1>1, <1>3, <2>1 DEF Scheduled
<1>. QED
  BY <1>2, <1>3

\* What reconciliation makes of a receipt is a receipt.
LEMMA ReconciledTyped ==
    ASSUME NEW r \in Receipt, NEW now \in Nat
    PROVE  Reconciled(r, now) \in Receipt
BY DEF Reconciled, Receipt, Execution, Effect, Terminal, Live

\* The parts of the state that a step of one dispatch is about have their types.
LEMMA Parts ==
    ASSUME TypeOK, NEW d \in Dispatches
    PROVE  /\ receipt[d] \in Receipt /\ request[d] \in Request /\ worker[d] \in Worker
           /\ timer[d] \in Nat /\ outbox[d] \in Outbox /\ clock \in Nat
           /\ d \in Runs /\ Initiator \in Users
BY DispatchAssumption DEF TypeOK

\* A request, a worker or a receipt that moves on stays one.
LEMMA Moved ==
    /\ \A q \in Request, pc \in {"idle", "acquire", "readback", "accept", "cleanup", "done"} :
          [q EXCEPT !.pc = pc] \in Request
    /\ \A w \in Worker, pc \in {"idle", "claim", "check", "start", "await", "fail", "ack",
                                "observe", "stream"} :
          [w EXCEPT !.pc = pc] \in Worker
    /\ \A w \in Worker, s \in Status :
          [w EXCEPT !.pc = "ack", !.status = s] \in Worker
    /\ \A n \in Nat : [NoWorker EXCEPT !.pc = "check", !.now = n] \in Worker
<1>1. \A w \in Worker, s \in Status : [w EXCEPT !.pc = "ack", !.status = s] \in Worker
  BY DEF Worker
<1>2. \A q \in Request, pc \in {"idle", "acquire", "readback", "accept", "cleanup", "done"} :
         [q EXCEPT !.pc = pc] \in Request
  BY DEF Request
<1>3. \A w \in Worker, pc \in {"idle", "claim", "check", "start", "await", "fail", "ack",
                               "observe", "stream"} :
         [w EXCEPT !.pc = pc] \in Worker
  BY DEF Worker
<1>4. \A n \in Nat : [NoWorker EXCEPT !.pc = "check", !.now = n] \in Worker
  BY BlankTypes DEF Worker
<1>. QED
  BY <1>1, <1>2, <1>3, <1>4

\* A function changed at one argument is the old one with the new value there.
LEMMA OneSlot ==
    ASSUME NEW S, NEW T, NEW f \in [S -> T], NEW d \in S, NEW e
    PROVE  [f EXCEPT ![d] = e] = [f EXCEPT ![d] = [f EXCEPT ![d] = e][d]]
<1>1. [f EXCEPT ![d] = e][d] = e
  OBVIOUS
<1>. QED
  BY <1>1

\* What a read back does: the generation is admitted, or the admission fails.
LEMMA ReadBackWrites ==
    ASSUME TypeOK, NEW d \in Dispatches, ReadBack(d)
    PROVE  /\ request[d].pc = "readback"
           /\ request'[d] \in Request /\ request' = [request EXCEPT ![d] = request'[d]]
           /\ request'[d].now = request[d].now /\ request'[d].horizon = request[d].horizon
           /\ request'[d].targets = request[d].targets
           /\ \/ /\ request'[d].pc = "acquire"
                 /\ request'[d].admitted = [request[d].admitted EXCEPT
                                              ![NextTarget(d)] = lease[NextTarget(d)].gen]
              \/ /\ DbFaults /\ request'[d].pc = "cleanup"
                 /\ request'[d].admitted = request[d].admitted
                 /\ NextTarget(d) \in request'[d].missed
           /\ UNCHANGED <<database, up, worker, timer, arriving, world>>
<1>. DEFINE q == request[d]
            c == NextTarget(d)
            ok == [q EXCEPT !.pc = "acquire", !.admitted[c] = lease[c].gen]
            bad == [q EXCEPT !.pc = "cleanup", !.missed = q.missed \cup {c}]
<1>0. q \in Request /\ request \in [Dispatches -> Request]
  BY Parts DEF TypeOK
<1>1. q.pc = "readback" /\ UNCHANGED <<database, up, worker, timer, arriving, world>>
  BY DEF ReadBack
<1>2. c \in Contexts
  BY NextTargetAwaits DEF ReadBack
<1>3. lease[c].gen \in Nat
  BY <1>2 DEF TypeOK, Row
<1>4. \/ request' = [request EXCEPT ![d] = ok]
      \/ DbFaults /\ request' = [request EXCEPT ![d] = bad]
  BY DEF ReadBack
<1>. HIDE DEF c, q
<1>5. /\ ok \in Request /\ ok.pc = "acquire" /\ ok.now = q.now /\ ok.horizon = q.horizon
      /\ ok.targets = q.targets /\ ok.admitted = [q.admitted EXCEPT ![c] = lease[c].gen]
  BY <1>0, <1>2, <1>3 DEF Request
<1>6. /\ bad \in Request /\ bad.pc = "cleanup" /\ bad.now = q.now /\ bad.horizon = q.horizon
      /\ bad.targets = q.targets /\ bad.admitted = q.admitted /\ c \in bad.missed
  BY <1>0, <1>2 DEF Request
<1>. HIDE DEF ok, bad
<1>7. request'[d] = ok \/ (DbFaults /\ request'[d] = bad)
  <2>1. CASE request' = [request EXCEPT ![d] = ok]
    BY <1>0, <2>1
  <2>2. CASE DbFaults /\ request' = [request EXCEPT ![d] = bad]
    BY <1>0, <2>2
  <2>. QED
    BY <1>4, <2>1, <2>2
<1>8. request' = [request EXCEPT ![d] = request'[d]]
  <2>1. CASE request' = [request EXCEPT ![d] = ok]
    BY <1>0, <2>1, OneSlot
  <2>2. CASE request' = [request EXCEPT ![d] = bad]
    BY <1>0, <2>2, OneSlot
  <2>. QED
    BY <1>4, <2>1, <2>2
<1>. QED
  BY <1>1, <1>5, <1>6, <1>7, <1>8 DEF c, q

\* What one release of a clean-up does.
LEMMA UndoWrites ==
    ASSUME TypeOK, NEW d \in Dispatches, NEW c \in Contexts, Undo(d, c)
    PROVE  /\ request'[d] \in Request /\ request' = [request EXCEPT ![d] = request'[d]]
           /\ request[d].admitted[c] # 0
           /\ request'[d].pc = request[d].pc /\ request'[d].now = request[d].now
           /\ request'[d].horizon = request[d].horizon
           /\ request'[d].targets = request[d].targets
           /\ request'[d].admitted = [request[d].admitted EXCEPT ![c] = 0]
           /\ request[d].missed \subseteq request'[d].missed
           /\ \/ lease' = [lease EXCEPT ![c] = Undone(d, c)]
              \/ lease' = lease /\ DbFaults /\ c \in request'[d].missed
<1>. DEFINE q == request[d]
            ok == [q EXCEPT !.admitted[c] = 0]
            bad == [q EXCEPT !.admitted[c] = 0, !.missed = q.missed \cup {c}]
<1>0. q \in Request /\ request \in [Dispatches -> Request]
  BY Parts DEF TypeOK
<1>1. /\ q.admitted[c] # 0
      /\ \/ request' = [request EXCEPT ![d] = ok] /\ lease' = [lease EXCEPT ![c] = Undone(d, c)]
         \/ request' = [request EXCEPT ![d] = bad] /\ lease' = lease /\ DbFaults
  BY DEF Undo
<1>. HIDE DEF q
<1>2. /\ ok \in Request /\ ok.pc = q.pc /\ ok.now = q.now /\ ok.horizon = q.horizon
      /\ ok.targets = q.targets /\ ok.admitted = [q.admitted EXCEPT ![c] = 0]
      /\ ok.missed = q.missed
  BY <1>0 DEF Request
<1>3. /\ bad \in Request /\ bad.pc = q.pc /\ bad.now = q.now /\ bad.horizon = q.horizon
      /\ bad.targets = q.targets /\ bad.admitted = [q.admitted EXCEPT ![c] = 0]
      /\ bad.missed = q.missed \cup {c}
  BY <1>0 DEF Request
<1>. HIDE DEF ok, bad
<1>4. \/ request'[d] = ok /\ lease' = [lease EXCEPT ![c] = Undone(d, c)]
      \/ request'[d] = bad /\ lease' = lease /\ DbFaults
  BY <1>0, <1>1
<1>5. request' = [request EXCEPT ![d] = request'[d]]
  <2>1. CASE request' = [request EXCEPT ![d] = ok]
    BY <1>0, <2>1, OneSlot
  <2>2. CASE request' = [request EXCEPT ![d] = bad]
    BY <1>0, <2>2, OneSlot
  <2>. QED
    BY <1>1, <2>1, <2>2
<1>. QED
  BY <1>1, <1>2, <1>3, <1>4, <1>5 DEF q

\* What it makes of the rows.
LEMMA UndoRows ==
    ASSUME TypeOK, NEW d \in Dispatches, NEW c \in Contexts, Undo(d, c), NEW e \in Contexts
    PROVE  /\ lease' \in [Contexts -> Row]
           /\ lease'[e] = lease[e] \/ lease'[e] = Undone(d, e)
<1>0. lease \in [Contexts -> Row]
  BY DEF TypeOK
<1>1. Undone(d, c) \in Row
  BY <1>0, UndoneRow
<1>2. lease' = [lease EXCEPT ![c] = Undone(d, c)] \/ lease' = lease
  BY UndoWrites
<1>3. CASE lease' = [lease EXCEPT ![c] = Undone(d, c)]
  <2>1. lease'[e] = IF e = c THEN Undone(d, c) ELSE lease[e]
    BY <1>0, <1>3
  <2>. QED
    BY <1>0, <1>1, <1>3, <2>1
<1>. QED
  BY <1>0, <1>2, <1>3

\* A clean-up makes one release, or answers when none is left to make.
LEMMA CleanupWrites ==
    ASSUME TypeOK, NEW d \in Dispatches, Cleanup(d)
    PROVE  /\ request[d].pc = "cleanup" /\ request'[d].pc \in {"cleanup", "done"}
           /\ request'[d] \in Request /\ request' = [request EXCEPT ![d] = request'[d]]
           /\ request'[d] # request[d]
           /\ request'[d].pc = "cleanup" =>
                 /\ request'[d].now = request[d].now /\ request'[d].horizon = request[d].horizon
           /\ \/ request'[d].pc = "cleanup" /\ \E c \in Contexts : Undo(d, c)
              \/ /\ request[d].admitted = Nothing /\ lease' = lease
                 /\ request'[d].pc = "done" /\ request'[d].admitted = Nothing
                 /\ request'[d].horizon = request[d].horizon
                 /\ request'[d].missed = request[d].missed
           /\ UNCHANGED <<receipt, outbox, up, worker, timer, arriving, world>>
<1>. DEFINE answer == [NoRequest EXCEPT !.pc = "done", !.horizon = request[d].horizon,
                                        !.missed = request[d].missed]
<1>0. request[d] \in Request /\ request \in [Dispatches -> Request]
  BY Parts DEF TypeOK
<1>1. request[d].pc = "cleanup"
      /\ UNCHANGED <<receipt, outbox, up, worker, timer, arriving, world>>
  BY DEF Cleanup
<1>2. CASE \E c \in Contexts : Undo(d, c)
  <2>1. PICK c \in Contexts : Undo(d, c)
    BY <1>2
  <2>2. /\ request'[d].admitted = [request[d].admitted EXCEPT ![c] = 0]
        /\ request[d].admitted[c] # 0
    BY <2>1, UndoWrites
  <2>3. request'[d].admitted # request[d].admitted
    <3>1. request[d].admitted \in [Contexts -> Nat]
      BY <1>0 DEF Request
    <3>2. request'[d].admitted[c] = 0
      BY <2>2, <3>1
    <3>. QED
      BY <2>2, <3>2
  <2>4. /\ request'[d] \in Request /\ request' = [request EXCEPT ![d] = request'[d]]
        /\ request'[d].pc = request[d].pc /\ request'[d].now = request[d].now
        /\ request'[d].horizon = request[d].horizon
    BY <2>1, UndoWrites
  <2>. QED
    BY <1>1, <2>1, <2>3, <2>4
<1>3. CASE /\ request[d].admitted = Nothing /\ lease' = lease
           /\ request' = [request EXCEPT ![d] = answer]
  <2>1. /\ answer \in Request /\ answer.pc = "done" /\ answer.admitted = Nothing
        /\ answer.horizon = request[d].horizon /\ answer.missed = request[d].missed
    BY <1>0, BlankTypes DEF NoRequest, Request
  <2>. HIDE DEF answer
  <2>2. request'[d] = answer
    BY <1>0, <1>3
  <2>. QED
    BY <1>0, <1>1, <1>3, <2>1, <2>2
<1>. QED
  BY <1>2, <1>3 DEF Cleanup

\* Admission keeps the types.
LEMMA AdmissionTyped ==
    ASSUME TypeOK, NEW d \in Dispatches, Admission(d)
    PROVE  TypeOK'
<1>. USE DEF database, process, world
<1>0. /\ request[d] \in Request /\ clock \in Nat /\ nextGen \in Nat \ {0}
      /\ request[d].now \in Nat /\ request[d].horizon \in Nat
      /\ request[d].targets \in SUBSET Contexts
      /\ request[d].admitted \in [Contexts -> Nat]
      /\ StartDeadline \in Nat /\ LivenessWindow \in Nat
  BY DispatchAssumption DEF TypeOK, Request
<1>1. CASE Post(d)
  <2>1. PICK b \in Budgets, T \in (SUBSET Contexts) \ {{}} :
          request' = [request EXCEPT ![d] =
                [NoRequest EXCEPT !.pc = "acquire", !.now = clock,
                                  !.horizon = clock + b, !.targets = T]]
    BY <1>1 DEF Post
  <2>2. clock + b \in Nat
    BY <1>0, DispatchAssumption
  <2>3. [NoRequest EXCEPT !.pc = "acquire", !.now = clock,
                          !.horizon = clock + b, !.targets = T] \in Request
    BY <1>0, <2>2, BlankTypes DEF NoRequest, Request
  <2>. QED
    BY <1>1, <2>1, <2>3 DEF Post, TypeOK
<1>2. CASE AcquireTarget(d)
  <2>. DEFINE q == request[d]
              c == NextTarget(d)
              g == Grant(nextGen, d, Initiator, q.now, q.horizon - q.now, q.horizon)
  <2>1. c \in Contexts
    BY <1>2, NextTargetAwaits DEF AcquireTarget
  <2>2. q.now + (q.horizon - q.now) \in Nat
    BY <1>0
  <2>3. g \in Row
    BY <1>0, <2>2, GrantTyped, Parts
  <2>4. [q EXCEPT !.admitted[c] = nextGen] \in Request
    BY <1>0 DEF Request
  <2>5. [q EXCEPT !.pc = "readback"] \in Request /\ [q EXCEPT !.pc = "cleanup"] \in Request
    BY <1>0, Moved
  <2>6. nextGen + 1 \in Nat \ {0}
    BY <1>0
  <2>7. /\ lease' = [lease EXCEPT ![c] = g] \/ lease' = lease
        /\ \/ request' = [request EXCEPT ![d] = [q EXCEPT !.admitted[c] = nextGen]]
           \/ request' = [request EXCEPT ![d] = [q EXCEPT !.pc = "readback"]]
           \/ request' = [request EXCEPT ![d] = [q EXCEPT !.pc = "cleanup"]]
        /\ nextGen' \in {nextGen, nextGen + 1}
        /\ UNCHANGED <<receipt, outbox, up, worker, timer, arriving,
                       start, attempts, agent, mayEdit, clock, crashes>>
    BY <1>2 DEF AcquireTarget, TypeOK
  <2>. HIDE DEF q, c, g
  <2>8. lease' \in [Contexts -> Row]
    BY <2>3, <2>7 DEF TypeOK
  <2>9. request' \in [Dispatches -> Request]
    BY <2>4, <2>5, <2>7 DEF TypeOK
  <2>. QED
    BY <2>6, <2>7, <2>8, <2>9 DEF TypeOK
<1>3. CASE ReadBack(d)
  BY <1>3, ReadBackWrites DEF TypeOK
<1>4. CASE Accept(d)
  <2>. DEFINE q == request[d]
              r == [exec |-> "queued", effect |-> "pending",
              startDeadline |-> q.now + StartDeadline,
              livenessDeadline |-> q.now + StartDeadline + LivenessWindow,
              effectDeadline |-> q.horizon, effectAt |-> 0, bound |-> q.admitted]
  <2>1. r \in Receipt
    BY <1>0 DEF Receipt, Execution, Effect
  <2>2. [NoRequest EXCEPT !.pc = "done"] \in Request
    BY BlankTypes, Moved
  <2>3. [worker[d] EXCEPT !.pc = "claim"] \in Worker
    BY Parts, Moved
  <2>4. /\ receipt' = [receipt EXCEPT ![d] = r]
        /\ outbox' = [outbox EXCEPT ![d] = "pending"]
        /\ request' = [request EXCEPT ![d] = [NoRequest EXCEPT !.pc = "done"]]
        /\ worker' = [worker EXCEPT ![d] = [worker[d] EXCEPT !.pc = "claim"]]
        /\ timer' = [timer EXCEPT ![d] = Scheduled(d, r)]
        /\ UNCHANGED <<lease, up, arriving, world>>
    BY <1>4 DEF Accept, TypeOK
  <2>5. Scheduled(d, r) \in Nat
    BY <2>1, Parts, ScheduledEarliest
  <2>. HIDE DEF r
  <2>. QED
    BY <2>1, <2>2, <2>3, <2>4, <2>5 DEF TypeOK, Outbox
<1>5. CASE Reject(d)
  <2>1. [request[d] EXCEPT !.pc = "cleanup"] \in Request
    BY <1>0, Moved
  <2>. QED
    BY <1>5, <2>1 DEF Reject, TypeOK
<1>6. CASE Cleanup(d)
  <2>1. lease' \in [Contexts -> Row]
    <3>1. ASSUME NEW c \in Contexts, Undo(d, c)
          PROVE  lease' \in [Contexts -> Row]
      BY <3>1, UndoRows
    <3>. QED
      BY <1>6, <3>1, CleanupWrites DEF TypeOK
  <2>. QED
    BY <1>6, <2>1, CleanupWrites DEF TypeOK
<1>. QED
  BY <1>1, <1>2, <1>3, <1>4, <1>5, <1>6 DEF Admission

\* The receipt an acknowledgement or an observation writes.
LEMMA AdvancedTyped ==
    ASSUME NEW r \in Receipt, NEW s \in Status, NEW n \in Nat
    PROVE  /\ [r EXCEPT !.exec = Acknowledged(s), !.livenessDeadline = n + LivenessWindow]
                 \in Receipt
           /\ [r EXCEPT !.exec = Observed(s), !.livenessDeadline = n + LivenessWindow]
                 \in Receipt
           /\ [r EXCEPT !.exec = "runtime_acknowledged"] \in Receipt
<1>1. n + LivenessWindow \in Nat
  BY DispatchAssumption
<1>2. Acknowledged(s) \in Execution /\ Observed(s) \in Execution
      /\ "runtime_acknowledged" \in Execution
  BY DEF Acknowledged, Observed, Execution, Live, Terminal
<1>. QED
  BY <1>1, <1>2 DEF Receipt

\* One transaction of an observation keeps the types.
LEMMA ObserveTyped ==
    ASSUME TypeOK, NEW d \in Dispatches, NEW s \in Status, NEW now \in Nat, Observe(d, s, now)
    PROVE  /\ receipt' \in [Dispatches -> Receipt]
           /\ lease' \in [Contexts -> Row]
           /\ timer' \in [Dispatches -> Nat]
           /\ outbox' = outbox
<1>. DEFINE r == [receipt[d] EXCEPT !.exec = Observed(s),
                                    !.livenessDeadline = now + LivenessWindow]
<1>1. r \in Receipt
  BY Parts, AdvancedTyped
<1>2. Scheduled(d, r) \in Nat
  BY <1>1, Parts, ScheduledEarliest
<1>3. ReleaseBound(r) \in [Contexts -> Row]
  BY ReleaseBoundRows DEF TypeOK
<1>4. /\ receipt' = [receipt EXCEPT ![d] = r]
      /\ lease' \in {lease, ReleaseBound(r)}
      /\ timer' = [timer EXCEPT ![d] = Scheduled(d, r)]
      /\ outbox' = outbox
  BY DEF Observe
<1>. HIDE DEF r
<1>. QED
  BY <1>1, <1>2, <1>3, <1>4 DEF TypeOK

\* The worker's steps keep the types.
LEMMA WorkingTyped ==
    ASSUME TypeOK, NEW d \in Dispatches, Working(d)
    PROVE  TypeOK'
<1>. USE DEF database, process, world
<1>0. /\ receipt[d] \in Receipt /\ worker[d] \in Worker /\ clock \in Nat
      /\ worker[d].now \in Nat /\ worker[d].status \in Status
      /\ NoWorker \in Worker
  BY Parts, BlankTypes DEF Worker
<1>1. ASSUME NEW w \in Worker, Step(d, w)
      PROVE  worker' \in [Dispatches -> Worker]
  BY <1>1 DEF Step, TypeOK
<1>2. CASE Claim(d)
  <2>1. [NoWorker EXCEPT !.pc = "check", !.now = clock] \in Worker
    BY <1>0, Moved
  <2>2. worker' \in [Dispatches -> Worker]
    BY <1>0, <1>1, <1>2, <2>1 DEF Claim
  <2>. QED
    BY <1>2, <2>2 DEF Claim, TypeOK, Outbox
<1>3. CASE Check(d)
  <2>1. [worker[d] EXCEPT !.pc = IF outbox[d] = "sending" /\ mayEdit THEN "start" ELSE "fail"]
          \in Worker
    BY <1>0, Moved
  <2>2. worker' \in [Dispatches -> Worker]
    BY <1>1, <1>3, <2>1 DEF Check
  <2>. QED
    BY <1>3, <2>2 DEF Check, TypeOK
<1>4. CASE Start(d)
  <2>1. [worker[d] EXCEPT !.pc = "await"] \in Worker /\ [worker[d] EXCEPT !.pc = "fail"] \in Worker
    BY <1>0, Moved
  <2>2. worker' \in [Dispatches -> Worker]
    BY <1>0, <1>1, <1>4, <2>1 DEF Start
  <2>. QED
    BY <1>4, <2>2 DEF Start, TypeOK, Channel!States
<1>5. CASE Reply(d)
  <2>1. \A s \in Reported(d) : [worker[d] EXCEPT !.pc = "ack", !.status = s] \in Worker
    BY <1>0, Moved DEF Reported
  <2>2. [worker[d] EXCEPT !.pc = "fail"] \in Worker
    BY <1>0, Moved
  <2>3. worker' \in [Dispatches -> Worker]
    BY <1>0, <1>1, <1>5, <2>1, <2>2 DEF Reply
  <2>. QED
    BY <1>5, <2>3 DEF Reply, TypeOK
<1>6. CASE Fail(d)
  <2>1. [receipt[d] EXCEPT !.exec = "failed", !.effect = "failed", !.effectAt = worker[d].now]
          \in Receipt
    BY <1>0 DEF Receipt, Execution, Terminal, Effect
  <2>2. worker' \in [Dispatches -> Worker]
    BY <1>0, <1>1, <1>6 DEF Fail
  <2>3. ReleaseBound(receipt[d]) \in [Contexts -> Row]
    BY ReleaseBoundRows DEF TypeOK
  <2>. QED
    BY <1>6, <2>1, <2>2, <2>3 DEF Fail, TypeOK, Outbox
<1>7. CASE Acknowledge(d)
  <2>. DEFINE r == [receipt[d] EXCEPT !.exec = Acknowledged(worker[d].status),
                                      !.livenessDeadline = worker[d].now + LivenessWindow]
  <2>1. r \in Receipt
    BY <1>0, AdvancedTyped
  <2>2. Scheduled(d, r) \in Nat
    BY <2>1, Parts, ScheduledEarliest
  <2>3. ReleaseBound(r) \in [Contexts -> Row]
    BY ReleaseBoundRows DEF TypeOK
  <2>4. [worker[d] EXCEPT !.pc = "observe"] \in Worker
    BY <1>0, Moved
  <2>5. /\ receipt' \in {receipt, [receipt EXCEPT ![d] = r]}
        /\ outbox' \in {outbox, [outbox EXCEPT ![d] = "completed"]}
        /\ lease' \in {lease, ReleaseBound(r)}
        /\ timer' \in {timer, [timer EXCEPT ![d] = Scheduled(d, r)]}
        /\ Step(d, NoWorker) \/ Step(d, [worker[d] EXCEPT !.pc = "observe"])
        /\ UNCHANGED <<up, request, arriving, world>>
    BY <1>7 DEF Acknowledge
  <2>6. worker' \in [Dispatches -> Worker]
    BY <1>0, <1>1, <2>4, <2>5
  <2>. HIDE DEF r
  <2>. QED
    BY <2>1, <2>2, <2>3, <2>5, <2>6 DEF TypeOK, Outbox
<1>8. CASE FirstObserve(d)
  <2>. DEFINE r == [receipt[d] EXCEPT !.exec = "runtime_acknowledged"]
  <2>1. r \in Receipt
    BY <1>0, AdvancedTyped
  <2>2. Scheduled(d, r) \in Nat
    BY <2>1, Parts, ScheduledEarliest
  <2>3. [NoWorker EXCEPT !.pc = "stream"] \in Worker
    BY <1>0, Moved
  <2>4. worker' \in [Dispatches -> Worker]
    BY <1>1, <1>8, <2>3 DEF FirstObserve
  <2>5. CASE Observe(d, worker[d].status, worker[d].now)
    BY <1>0, <1>8, <2>4, <2>5, ObserveTyped DEF FirstObserve, TypeOK
  <2>6. CASE timer' = [timer EXCEPT ![d] = Scheduled(d, r)] /\ UNCHANGED database
    BY <1>8, <2>2, <2>4, <2>6 DEF FirstObserve, TypeOK
  <2>. QED
    BY <1>8, <2>5, <2>6 DEF FirstObserve
<1>9. CASE WorkerThrows(d)
  BY <1>0, <1>1, <1>9 DEF WorkerThrows, TypeOK
<1>. QED
  BY <1>2, <1>3, <1>4, <1>5, <1>6, <1>7, <1>8, <1>9 DEF Working

\* So do the steps of an observed stream.
LEMMA ObservingTyped ==
    ASSUME TypeOK, NEW d \in Dispatches, Observing(d)
    PROVE  TypeOK'
<1>. USE DEF database, process, world
<1>1. CASE EventArrives(d)
  BY <1>1 DEF EventArrives, TypeOK
<1>2. ASSUME NEW s \in Status, ApplyEvent(d, s)
      PROVE  TypeOK'
  <2>1. arriving' \in [Dispatches -> SUBSET Status]
    BY <1>2 DEF ApplyEvent, TypeOK
  <2>2. CASE Observe(d, s, clock)
    BY <1>2, <2>1, <2>2, ObserveTyped, Parts DEF ApplyEvent, TypeOK
  <2>3. CASE UNCHANGED <<database, timer>>
    BY <1>2, <2>1, <2>3 DEF ApplyEvent, TypeOK
  <2>. QED
    BY <1>2, <2>2, <2>3 DEF ApplyEvent
<1>3. CASE StreamCloses(d)
  <2>1. arriving' \in [Dispatches -> SUBSET Status]
    BY <1>3 DEF StreamCloses, TypeOK, Status
  <2>2. worker' \in [Dispatches -> Worker]
    BY <1>3, BlankTypes DEF StreamCloses, Step, TypeOK
  <2>. QED
    BY <1>3, <2>1, <2>2 DEF StreamCloses, TypeOK
<1>. QED
  BY <1>1, <1>2, <1>3 DEF Observing

\* So do the steps of the channel and the agent.
LEMMA RuntimeTyped ==
    ASSUME TypeOK, NEW d \in Dispatches, Runtime(d)
    PROVE  TypeOK'
<1>. USE DEF database, process, Outside
<1>1. CASE Deliver(d) \/ Refuse(d) \/ Lose(d) \/ Answer(d)
  BY <1>1 DEF Deliver, Refuse, Lose, Answer, Channel!Deliver, Channel!Refuse, Channel!Lose,
              Channel!Answer, Channel!Move, Channel!States, TypeOK
<1>2. CASE HerdrTimesOut(d)
  <2>1. [worker[d] EXCEPT !.pc = "fail"] \in Worker
    BY Parts, Moved
  <2>2. worker' \in [Dispatches -> Worker]
    BY <1>2, <2>1 DEF HerdrTimesOut, Step, TypeOK
  <2>3. agent' \in [Dispatches -> AgentState]
    BY <1>2 DEF HerdrTimesOut, TypeOK, AgentState
  <2>. QED
    BY <1>2, <2>2, <2>3 DEF HerdrTimesOut, Channel!Lose, Channel!Move, Channel!States, TypeOK
<1>3. CASE AgentStarts(d) \/ AgentMoves(d)
  BY <1>3, DispatchAssumption DEF AgentStarts, AgentMoves, AgentState, TypeOK
<1>. QED
  BY <1>1, <1>2, <1>3 DEF Runtime

\* So do reconciliation, the publishing write, crash and restart.
LEMMA RecoveryTyped ==
    ASSUME TypeOK,
           \/ \E d \in Dispatches : Reconcile(d) \/ ReconcileFails(d) \/ Commit(d)
           \/ Crash \/ Restart \/ RestartScanFails
    PROVE  TypeOK'
<1>. USE DEF database, process, world
<1>1. ASSUME NEW d \in Dispatches, Reconcile(d)
      PROVE  TypeOK'
  <2>. DEFINE r == Reconciled(receipt[d], clock)
  <2>1. r \in Receipt
    BY Parts, ReconciledTyped
  <2>2. Scheduled(d, r) \in Nat
    BY <2>1, Parts, ScheduledEarliest
  <2>3. ReleaseBound(r) \in [Contexts -> Row]
    BY ReleaseBoundRows DEF TypeOK
  <2>4. /\ receipt' = [receipt EXCEPT ![d] = r]
        /\ outbox' \in {outbox, [outbox EXCEPT ![d] = "outcome_unknown"]}
        /\ lease' \in {lease, ReleaseBound(r)}
        /\ timer' = [timer EXCEPT ![d] = IF Deadlines(r) = {} THEN 0 ELSE Scheduled(d, r)]
        /\ UNCHANGED <<up, request, worker, arriving, world>>
    BY <1>1 DEF Reconcile
  <2>. HIDE DEF r
  <2>. QED
    BY <2>1, <2>2, <2>3, <2>4 DEF TypeOK, Outbox
<1>2. ASSUME NEW d \in Dispatches, ReconcileFails(d)
      PROVE  TypeOK'
  BY <1>2 DEF ReconcileFails, TypeOK
<1>3. ASSUME NEW d \in Dispatches, Commit(d)
      PROVE  TypeOK'
  <2>1. [receipt[d] EXCEPT !.effect = "committed", !.effectAt = clock] \in Receipt
    BY Parts DEF Receipt, Effect
  <2>2. ReleaseBound(receipt[d]) \in [Contexts -> Row]
    BY ReleaseBoundRows DEF TypeOK
  <2>3. receipt' = [receipt EXCEPT ![d] =
                      [receipt[d] EXCEPT !.effect = "committed", !.effectAt = clock]]
    BY <1>3 DEF Commit, TypeOK
  <2>. QED
    BY <1>3, <2>1, <2>2, <2>3 DEF Commit, TypeOK
<1>4. CASE Crash
  <2>1. \A d \in Dispatches :
           (IF request[d].pc = "idle" THEN NoRequest ELSE [NoRequest EXCEPT !.pc = "done"])
               \in Request
    BY BlankTypes, Moved
  <2>2. \A d \in Dispatches : Channel!Fallen(start[d]) \in Channel!States
    BY DEF Channel!Fallen, Channel!States, TypeOK
  <2>3. start' \in [Dispatches -> Channel!States]
    BY <1>4, <2>2 DEF Crash, Channel!Drop, TypeOK
  <2>4. request' \in [Dispatches -> Request]
    BY <1>4, <2>1 DEF Crash
  <2>5. /\ worker' \in [Dispatches -> Worker]
        /\ timer' \in [Dispatches -> Nat]
        /\ arriving' \in [Dispatches -> SUBSET Status]
    BY <1>4, BlankTypes DEF Crash
  <2>6. /\ crashes' = crashes + 1 /\ up' = FALSE
        /\ UNCHANGED <<database, attempts, agent, mayEdit, nextGen, clock>>
    BY <1>4 DEF Crash
  <2>7. up' \in BOOLEAN
    BY <2>6, Zenon
  <2>. QED
    BY <2>3, <2>4, <2>5, <2>6, <2>7 DEF TypeOK
<1>5. CASE Restart
  <2>1. \A d \in Dispatches : Scheduled(d, receipt[d]) \in Nat
    BY Parts, ScheduledEarliest
  <2>2. [NoWorker EXCEPT !.pc = "claim"] \in Worker
    BY BlankTypes, Moved
  <2>. QED
    BY <1>5, <2>1, <2>2, BlankTypes DEF Restart, TypeOK
<1>6. CASE RestartScanFails
  BY <1>6 DEF RestartScanFails, TypeOK
<1>. QED
  BY <1>1, <1>2, <1>3, <1>4, <1>5, <1>6

\* So do the lease routes, access and time.
LEMMA WorldTyped ==
    ASSUME TypeOK,
           \/ \E c \in Contexts : OtherAcquires(c) \/ Transfer(c) \/ Renew(c) \/ ReleaseByUser(c)
           \/ AccessLost \/ Tick \/ Ended \/ UNCHANGED vars
    PROVE  TypeOK'
<1>. USE DEF database, process, world, LeaseRoute
<1>0. nextGen \in Nat \ {0} /\ clock \in Nat /\ Other \in Runs /\ Initiator \in Users
      /\ \A b \in Budgets : clock + b \in Nat
  BY DispatchAssumption DEF TypeOK
<1>1. ASSUME NEW c \in Contexts, OtherAcquires(c)
      PROVE  TypeOK'
  BY <1>0, <1>1, GrantTyped DEF OtherAcquires, TypeOK
<1>2. ASSUME NEW c \in Contexts
      PROVE  /\ lease[c] \in Row
             /\ \A b \in Budgets : Earlier(clock + b, lease[c].endHorizonAt) \in Nat
  BY <1>0, EarlierBound DEF TypeOK, Row
<1>3. ASSUME NEW c \in Contexts, Transfer(c)
      PROVE  TypeOK'
  <2>1. PICK b \in Budgets :
          lease' = [lease EXCEPT ![c].gen = nextGen, ![c].run = Other,
                      ![c].expiresAt = Earlier(clock + b, lease[c].endHorizonAt)]
    BY <1>3 DEF Transfer
  <2>2. [lease[c] EXCEPT !.gen = nextGen, !.run = Other,
                         !.expiresAt = Earlier(clock + b, lease[c].endHorizonAt)] \in Row
    BY <1>0, <1>2 DEF Row
  <2>3. lease' \in [Contexts -> Row]
    BY <2>1, <2>2 DEF TypeOK
  <2>4. nextGen' = nextGen + 1 /\ UNCHANGED LeaseRoute
    BY <1>3 DEF Transfer
  <2>. QED
    BY <1>0, <2>3, <2>4 DEF TypeOK
<1>4. ASSUME NEW c \in Contexts, Renew(c)
      PROVE  TypeOK'
  <2>1. PICK b \in Budgets :
          lease' = [lease EXCEPT ![c].expiresAt = Earlier(clock + b, lease[c].endHorizonAt)]
    BY <1>4 DEF Renew
  <2>2. [lease[c] EXCEPT !.expiresAt = Earlier(clock + b, lease[c].endHorizonAt)] \in Row
    BY <1>0, <1>2 DEF Row
  <2>3. lease' \in [Contexts -> Row]
    BY <2>1, <2>2 DEF TypeOK
  <2>. QED
    BY <1>4, <2>3 DEF Renew, TypeOK
<1>5. ASSUME NEW c \in Contexts, ReleaseByUser(c)
      PROVE  TypeOK'
  <2>1. Release(lease[c]) \in Row
    BY <1>2 DEF Release, Row
  <2>. QED
    BY <1>5, <2>1 DEF ReleaseByUser, TypeOK
<1>6. CASE AccessLost
  BY <1>6 DEF AccessLost, TypeOK
<1>7. CASE Tick
  BY <1>0, <1>7 DEF Tick, TypeOK
<1>8. CASE UNCHANGED vars
  BY <1>8 DEF vars, TypeOK
<1>. QED
  BY <1>1, <1>3, <1>4, <1>5, <1>6, <1>7, <1>8 DEF Ended

\* Every step keeps the types.
LEMMA TypeStep == TypeOK /\ [Next]_vars => TypeOK'
BY AdmissionTyped, WorkingTyped, ObservingTyped, RuntimeTyped, RecoveryTyped, WorldTyped DEF Next

\* The first state has its types.
LEMMA TypeInit == Init => TypeOK
BY BlankTypes DEF Init, TypeOK, Outbox, AgentState, Channel!Init, Channel!States

\* Every reachable state is well typed.
THEOREM TypeCorrect == Spec => []TypeOK
BY TypeInit, TypeStep, PTL DEF Spec

-----------------------------------------------------------------------------
(* One dispatch at a time: what its request, worker, receipt, start command  *)
(* and agent have to do with each other.  A step of one dispatch leaves the   *)
(* others alone, so an invariant about one dispatch is proved by looking at   *)
(* the steps of that dispatch, and at crash and restart, which are about all. *)

StepOf(d) == \/ Admission(d) \/ Working(d) \/ Observing(d) \/ Runtime(d)
             \/ Reconcile(d) \/ ReconcileFails(d) \/ Commit(d)

LeaseStep == \/ \E c \in Contexts : OtherAcquires(c) \/ Transfer(c) \/ Renew(c) \/ ReleaseByUser(c)
             \/ AccessLost \/ Tick \/ UNCHANGED vars

\* All that belongs to one dispatch.
State(d) == <<receipt[d], outbox[d], request[d], worker[d], timer[d], arriving[d],
              start[d], attempts[d], agent[d]>>

\* The three kinds of steps.
LEMMA StepKinds == [Next]_vars =>
    \/ \E d \in Dispatches : StepOf(d)
    \/ Crash \/ Restart \/ RestartScanFails
    \/ LeaseStep
BY DEF Next, StepOf, LeaseStep, Ended

\* A step of one dispatch, or of the lease routes, leaves the others alone.
LEMMA OthersUntouched ==
    ASSUME TypeOK, NEW d \in Dispatches, NEW e \in Dispatches,
           \/ StepOf(d) /\ e # d
           \/ LeaseStep
           \/ RestartScanFails
    PROVE  State(e)' = State(e)
<1>. USE DEF State, database, process, world, TypeOK
<1>1. CASE Admission(d) /\ e # d
  <2>1. CASE ReadBack(d)
    BY <1>1, <2>1, ReadBackWrites
  <2>2. CASE Cleanup(d)
    <3>1. /\ request' = [request EXCEPT ![d] = request'[d]]
          /\ UNCHANGED <<receipt, outbox, up, worker, timer, arriving, world>>
      BY <2>2, CleanupWrites
    <3>. QED
      BY <1>1, <3>1
  <2>3. CASE Post(d) \/ AcquireTarget(d) \/ Accept(d) \/ Reject(d)
    BY <1>1, <2>3 DEF Post, AcquireTarget, Accept, Reject
  <2>. QED
    BY <1>1, <2>1, <2>2, <2>3 DEF Admission
<1>2. CASE Working(d) /\ e # d
  BY <1>2 DEF Working, Claim, Check, Start, Reply, Fail, Acknowledge, FirstObserve,
              WorkerThrows, Step, Observe
<1>3. CASE Observing(d) /\ e # d
  BY <1>3 DEF Observing, EventArrives, ApplyEvent, StreamCloses, Step, Observe
<1>4. CASE Runtime(d) /\ e # d
  BY <1>4 DEF Runtime, Deliver, Refuse, Lose, Answer, HerdrTimesOut, AgentStarts, AgentMoves,
              Outside, Step, Channel!Deliver, Channel!Refuse, Channel!Lose, Channel!Answer,
              Channel!Move
<1>5. CASE (Reconcile(d) \/ ReconcileFails(d) \/ Commit(d)) /\ e # d
  BY <1>5 DEF Reconcile, ReconcileFails, Commit
<1>6. CASE LeaseStep
  BY <1>6 DEF LeaseStep, OtherAcquires, Transfer, Renew, ReleaseByUser, AccessLost, Tick,
              LeaseRoute, vars
<1>7. CASE RestartScanFails
  BY <1>7 DEF RestartScanFails
<1>. QED
  BY <1>1, <1>2, <1>3, <1>4, <1>5, <1>6, <1>7 DEF StepOf

\* What an observation writes.
LEMMA ObserveWrites ==
    ASSUME TypeOK, NEW d \in Dispatches, NEW s \in Status, NEW now, Observe(d, s, now)
    PROVE  /\ receipt[d].exec \in Live
           /\ receipt'[d].exec = Observed(s)
           /\ receipt'[d].exec \in {"running", "blocked", "succeeded", "outcome_unknown"}
           /\ receipt'[d].exec = "succeeded" => s = "done"
           /\ receipt'[d].effect = receipt[d].effect
           /\ receipt'[d].effectAt = receipt[d].effectAt
           /\ receipt'[d].bound = receipt[d].bound
           /\ receipt'[d].startDeadline = receipt[d].startDeadline
           /\ receipt'[d].effectDeadline = receipt[d].effectDeadline
           /\ receipt'[d].livenessDeadline = now + LivenessWindow
           /\ lease' = IF receipt'[d].exec = "outcome_unknown" THEN ReleaseBound(receipt'[d])
                       ELSE lease
           /\ timer'[d] = Scheduled(d, receipt'[d])
           /\ outbox' = outbox
<1>1. /\ receipt'[d] = [receipt[d] EXCEPT !.exec = Observed(s),
                                          !.livenessDeadline = now + LivenessWindow]
      /\ receipt[d] \in Receipt
      /\ receipt[d].exec \in Live
  BY Parts DEF Observe, Observable, TypeOK
<1>2. /\ receipt'[d].exec = Observed(s)
      /\ receipt'[d].effect = receipt[d].effect
      /\ receipt'[d].effectAt = receipt[d].effectAt
      /\ receipt'[d].bound = receipt[d].bound
      /\ receipt'[d].startDeadline = receipt[d].startDeadline
      /\ receipt'[d].effectDeadline = receipt[d].effectDeadline
      /\ receipt'[d].livenessDeadline = now + LivenessWindow
  BY <1>1 DEF Receipt
<1>3. /\ Observed(s) \in {"running", "blocked", "succeeded", "outcome_unknown"}
      /\ Observed(s) = "succeeded" => s = "done"
  BY DEF Observed, Status
<1>4. /\ lease' = IF receipt'[d].exec = "outcome_unknown" THEN ReleaseBound(receipt'[d])
                  ELSE lease
      /\ timer'[d] = Scheduled(d, receipt'[d])
      /\ outbox' = outbox
  BY <1>1, <1>2 DEF Observe, TypeOK
<1>. QED
  BY <1>1, <1>2, <1>3, <1>4

\* What an acknowledgement writes, if the receipt is still queued.
LEMMA AcknowledgeWrites ==
    ASSUME TypeOK, NEW d \in Dispatches, Acknowledge(d)
    PROVE  /\ worker[d].pc = "ack"
           /\ \/ /\ receipt[d].exec = "queued"
                 /\ receipt'[d].exec \in {"runtime_acknowledged", "succeeded", "outcome_unknown"}
                 /\ receipt'[d].exec = "succeeded" => worker[d].status = "done"
                 /\ receipt'[d].effect = receipt[d].effect
                 /\ receipt'[d].effectAt = receipt[d].effectAt
                 /\ receipt'[d].bound = receipt[d].bound
                 /\ receipt'[d].startDeadline = receipt[d].startDeadline
                 /\ receipt'[d].effectDeadline = receipt[d].effectDeadline
                 /\ receipt'[d].livenessDeadline = worker[d].now + LivenessWindow
                 /\ lease' = IF receipt'[d].exec = "outcome_unknown"
                             THEN ReleaseBound(receipt'[d]) ELSE lease
                 /\ outbox'[d] = IF outbox[d] = "sending" THEN "completed" ELSE outbox[d]
                 /\ \/ /\ receipt'[d].exec = "runtime_acknowledged"
                       /\ worker'[d] = [worker[d] EXCEPT !.pc = "observe"]
                       /\ timer'[d] = timer[d]
                    \/ /\ worker'[d] = NoWorker
                       /\ timer'[d] = Scheduled(d, receipt'[d])
              \/ /\ worker'[d] = NoWorker
                 /\ UNCHANGED <<database, timer>>
           /\ UNCHANGED <<up, request, arriving, world>>
<1>. DEFINE to == Acknowledged(worker[d].status)
            r  == [receipt[d] EXCEPT !.exec = to,
                                     !.livenessDeadline = worker[d].now + LivenessWindow]
<1>1. /\ to \in {"runtime_acknowledged", "succeeded", "outcome_unknown"}
      /\ to = "succeeded" => worker[d].status = "done"
  BY Parts DEF Acknowledged, Worker, Status
<1>2. /\ r.exec = to
      /\ r.effect = receipt[d].effect
      /\ r.effectAt = receipt[d].effectAt
      /\ r.bound = receipt[d].bound
      /\ r.startDeadline = receipt[d].startDeadline
      /\ r.effectDeadline = receipt[d].effectDeadline
      /\ r.livenessDeadline = worker[d].now + LivenessWindow
  BY Parts DEF Receipt
<1>3. CASE receipt[d].exec = "queued"
  <2>1. /\ receipt'[d] = r
        /\ outbox'[d] = IF outbox[d] = "sending" THEN "completed" ELSE outbox[d]
        /\ lease' = IF to = "outcome_unknown" THEN ReleaseBound(r) ELSE lease
        /\ worker[d].pc = "ack"
        /\ UNCHANGED <<up, request, arriving, world>>
    BY <1>3 DEF Acknowledge, TypeOK
  <2>2. \/ /\ to \notin Terminal
           /\ worker'[d] = [worker[d] EXCEPT !.pc = "observe"]
           /\ timer'[d] = timer[d]
        \/ /\ worker'[d] = NoWorker
           /\ timer'[d] = Scheduled(d, r)
    BY <1>3 DEF Acknowledge, TypeOK, Step
  <2>. HIDE DEF to, r
  <2>. QED
    BY <1>1, <1>2, <1>3, <2>1, <2>2 DEF Terminal
<1>4. CASE receipt[d].exec # "queued"
  BY <1>4 DEF Acknowledge, TypeOK, Step
<1>. QED
  BY <1>3, <1>4

\* What a worker makes of the answer to its start.
LEMMA ReplyWrites ==
    ASSUME TypeOK, NEW d \in Dispatches, Reply(d)
    PROVE  /\ worker[d].pc = "await"
           /\ \/ /\ start[d] = "answered" /\ worker'[d].pc = "ack"
                 /\ worker'[d].status \in {agent[d], "unknown"}
                 /\ worker'[d].now = worker[d].now
              \/ start[d] = "refused" /\ worker'[d].pc = "fail" /\ worker'[d].now = worker[d].now
              \/ worker'[d] = NoWorker
<1>1. worker[d] \in Worker
  BY Parts
<1>2. ASSUME start[d] = "answered", NEW s \in Reported(d),
             Step(d, [worker[d] EXCEPT !.pc = "ack", !.status = s])
      PROVE  /\ worker'[d].pc = "ack" /\ worker'[d].status = s
             /\ worker'[d].now = worker[d].now
             /\ s \in {agent[d], "unknown"}
  BY <1>1, <1>2 DEF Step, TypeOK, Worker, Reported
<1>3. ASSUME Step(d, [worker[d] EXCEPT !.pc = "fail"])
      PROVE  worker'[d].pc = "fail" /\ worker'[d].now = worker[d].now
  BY <1>1, <1>3 DEF Step, TypeOK, Worker
<1>4. ASSUME Step(d, NoWorker)
      PROVE  worker'[d] = NoWorker
  BY <1>4 DEF Step, TypeOK
<1>. QED
  BY <1>2, <1>3, <1>4 DEF Reply, Unavailable

\* A dispatch that was not accepted has left no trace outside its request.
Untouched(d) ==
    receipt[d].exec = "none" =>
        /\ receipt[d] = NoReceipt /\ outbox[d] = "none" /\ worker[d].pc = "idle"
        /\ timer[d] = 0 /\ arriving[d] = {}

\* Nothing was started for an outbox row that nobody claimed, nor by a worker
\* on its way to the start; no agent runs for a command nobody was handed.
Claimed(d) ==
    /\ request[d].pc # "done" => receipt[d].exec = "none"
    /\ outbox[d] \in {"none", "pending"} => attempts[d] = 0 /\ worker[d].pc \in {"idle", "claim"}
    /\ worker[d].pc \in {"check", "start"} => attempts[d] = 0
    /\ attempts[d] <= 1
    /\ attempts[d] = 0 => start[d] = "none"
    /\ start[d] \in {"none", "queued", "refused"} => agent[d] = "absent"

OneClaim(d) == Untouched(d) /\ Claimed(d)

\* Where the records start.
LEMMA BlankParts ==
    /\ NoReceipt.exec = "none" /\ NoReceipt.effect = "pending" /\ NoReceipt.bound = Nothing
    /\ NoRequest.pc = "idle" /\ NoRequest.admitted = Nothing /\ NoRequest.targets = {}
    /\ NoRequest.horizon = 0 /\ NoRequest.now = 0
    /\ NoWorker.pc = "idle"
    /\ [NoRequest EXCEPT !.pc = "done"].pc = "done"
    /\ [NoRequest EXCEPT !.pc = "done"].admitted = Nothing
    /\ [NoRequest EXCEPT !.pc = "done"].horizon = 0
    /\ [NoWorker EXCEPT !.pc = "claim"].pc = "claim"
    /\ [NoWorker EXCEPT !.pc = "stream"].pc = "stream"
BY DEF NoReceipt, NoRequest, NoWorker

\* Every step of a dispatch keeps it claimed by one worker at most, once.
LEMMA OneClaimOwn ==
    ASSUME TypeOK, NEW d \in Dispatches, OneClaim(d), StepOf(d)
    PROVE  OneClaim(d)'
<1>. USE BlankParts DEF OneClaim, Untouched, Claimed, database, process, world, Outside, Step
<1>0. /\ receipt[d] \in Receipt /\ request[d] \in Request /\ worker[d] \in Worker
      /\ attempts[d] \in Nat
  BY Parts DEF TypeOK
<1>1. CASE Admission(d)
  <2>1. CASE Post(d)
    BY <1>0, <2>1 DEF Post, TypeOK
  <2>2. CASE AcquireTarget(d)
    BY <1>0, <2>2 DEF AcquireTarget, TypeOK
  <2>3. CASE ReadBack(d)
    BY <1>0, <2>3, ReadBackWrites
  <2>4. CASE Accept(d)
    BY <1>0, <2>4 DEF Accept, TypeOK, Worker
  <2>5. CASE Reject(d)
    BY <1>0, <2>5 DEF Reject, TypeOK
  <2>6. CASE Cleanup(d)
    BY <1>0, <2>6, CleanupWrites
  <2>. QED
    BY <1>1, <2>1, <2>2, <2>3, <2>4, <2>5, <2>6 DEF Admission
<1>2. CASE Working(d)
  <2>1. CASE Claim(d)
    BY <1>0, <2>1 DEF Claim, Claimable, TypeOK, NoWorker
  <2>2. CASE Check(d)
    BY <1>0, <2>2 DEF Check, TypeOK, Worker
  <2>3. CASE Start(d)
    BY <1>0, <2>3 DEF Start, TypeOK, Worker
  <2>4. CASE Reply(d)
    BY <1>0, <2>4, ReplyWrites DEF Reply
  <2>5. CASE Fail(d)
    BY <1>0, <2>5 DEF Fail, TypeOK, Receipt
  <2>6. CASE Acknowledge(d)
    BY <1>0, <2>6, AcknowledgeWrites DEF Worker
  <2>7. CASE FirstObserve(d)
    <3>1. /\ worker'[d].pc = "stream" /\ receipt[d].exec # "none"
          /\ UNCHANGED <<up, request, arriving, world>>
      BY <2>7 DEF FirstObserve, TypeOK
    <3>2. CASE Observe(d, worker[d].status, worker[d].now)
      BY <1>0, <2>7, <3>1, <3>2, ObserveWrites DEF FirstObserve, Worker
    <3>3. CASE UNCHANGED database
      BY <2>7, <3>1, <3>3 DEF FirstObserve
    <3>. QED
      BY <2>7, <3>2, <3>3 DEF FirstObserve
  <2>8. CASE WorkerThrows(d)
    BY <1>0, <2>8 DEF WorkerThrows, TypeOK
  <2>. QED
    BY <1>2, <2>1, <2>2, <2>3, <2>4, <2>5, <2>6, <2>7, <2>8 DEF Working
<1>3. CASE Observing(d)
  <2>1. CASE EventArrives(d)
    BY <1>0, <2>1 DEF EventArrives, TypeOK
  <2>2. ASSUME NEW s \in Status, ApplyEvent(d, s)
        PROVE  OneClaim(d)'
    <3>1. worker' = worker /\ request' = request /\ start' = start /\ attempts' = attempts
          /\ agent' = agent /\ receipt[d].exec # "none"
      BY <2>2 DEF ApplyEvent, TypeOK
    <3>2. CASE Observe(d, s, clock)
      BY <3>1, <3>2, ObserveWrites
    <3>3. CASE UNCHANGED <<database, timer>>
      BY <3>1, <3>3
    <3>. QED
      BY <2>2, <3>2, <3>3 DEF ApplyEvent
  <2>3. CASE StreamCloses(d)
    BY <1>0, <2>3 DEF StreamCloses, TypeOK
  <2>. QED
    BY <1>3, <2>1, <2>2, <2>3 DEF Observing
<1>4. CASE Runtime(d)
  BY <1>0, <1>4 DEF Runtime, Deliver, Refuse, Lose, Answer, HerdrTimesOut, AgentStarts,
                    AgentMoves, Channel!Deliver, Channel!Refuse, Channel!Lose, Channel!Answer,
                    Channel!Move, TypeOK, Worker
<1>5. CASE Reconcile(d)
  BY <1>0, <1>5 DEF Reconcile, Reconciled, TypeOK, Receipt, Live
<1>6. CASE ReconcileFails(d)
  BY <1>0, <1>6 DEF ReconcileFails, TypeOK
<1>7. CASE Commit(d)
  BY <1>0, <1>7 DEF Commit, TypeOK, Receipt
<1>. QED
  BY <1>1, <1>2, <1>3, <1>4, <1>5, <1>6, <1>7 DEF StepOf

ClaimInv == TypeOK /\ \A d \in Dispatches : OneClaim(d)

\* What a crash leaves of a dispatch: its database rows and its agent.
LEMMA CrashWrites ==
    ASSUME TypeOK, Crash, NEW d \in Dispatches
    PROVE  /\ worker'[d] = NoWorker /\ timer'[d] = 0 /\ arriving'[d] = {} /\ ~up'
           /\ \/ request[d].pc = "idle" /\ request'[d] = NoRequest
              \/ request[d].pc # "idle" /\ request'[d] = [NoRequest EXCEPT !.pc = "done"]
           /\ start'[d] = Channel!Fallen(start[d])
           /\ start'[d] \in {start[d], "refused", "lost"}
           /\ start'[d] = "refused" => start[d] \in {"queued", "refused"}
           /\ start'[d] = "queued" => FALSE
           /\ start[d] = "none" <=> start'[d] = "none"
           /\ UNCHANGED <<lease, receipt, outbox, attempts, agent, mayEdit, nextGen, clock>>
<1>1. start'[d] = Channel!Fallen(start[d]) /\ start[d] \in Channel!States
  BY DEF Crash, Channel!Drop, TypeOK
<1>2. /\ start'[d] \in {start[d], "refused", "lost"}
      /\ start'[d] = "refused" => start[d] \in {"queued", "refused"}
      /\ start'[d] = "queued" => FALSE
      /\ start[d] = "none" <=> start'[d] = "none"
  BY <1>1 DEF Channel!Fallen, Channel!States
<1>3. \/ request[d].pc = "idle" /\ request'[d] = NoRequest
      \/ request[d].pc # "idle" /\ request'[d] = [NoRequest EXCEPT !.pc = "done"]
  BY DEF Crash
<1>. QED
  BY <1>1, <1>2, <1>3 DEF Crash, database

\* What a restart does for a dispatch: it rebuilds its timer and calls the worker.
LEMMA RestartWrites ==
    ASSUME TypeOK, Restart, NEW d \in Dispatches
    PROVE  /\ \/ /\ Unresolved(receipt[d])
                 /\ timer'[d] = Scheduled(d, receipt[d])
                 /\ worker'[d] = [NoWorker EXCEPT !.pc = "claim"]
              \/ ~Unresolved(receipt[d]) /\ timer'[d] = 0 /\ worker'[d] = NoWorker
           /\ UNCHANGED <<database, request, arriving, world>>
BY DEF Restart

\* No step lets a second worker claim a dispatch.
LEMMA ClaimInvStep == ClaimInv /\ [Next]_vars => ClaimInv'
<1> SUFFICES ASSUME ClaimInv, [Next]_vars
             PROVE  ClaimInv'
  OBVIOUS
<1>0. TypeOK /\ TypeOK'
  BY TypeStep DEF ClaimInv
<1> SUFFICES ASSUME NEW d \in Dispatches
             PROVE  OneClaim(d)'
  BY <1>0 DEF ClaimInv
<1>1. OneClaim(d)
  BY DEF ClaimInv
<1>2. ASSUME NEW e \in Dispatches, StepOf(e)
      PROVE  OneClaim(d)'
  <2>1. CASE e = d
    BY <1>0, <1>1, <1>2, <2>1, OneClaimOwn
  <2>2. CASE e # d
    BY <1>0, <1>1, <1>2, <2>2, OthersUntouched DEF State, OneClaim, Untouched, Claimed
  <2>. QED
    BY <2>1, <2>2
<1>3. CASE LeaseStep \/ RestartScanFails
  BY <1>0, <1>1, <1>3, OthersUntouched DEF State, OneClaim, Untouched, Claimed
<1>4. CASE Crash
  <2>1. /\ worker'[d].pc = "idle" /\ timer'[d] = 0 /\ arriving'[d] = {}
        /\ request'[d].pc = "idle" \/ request'[d].pc = "done"
        /\ request'[d].pc = "done" \/ request[d].pc = "idle"
        /\ start'[d] = "none" <=> start[d] = "none"
        /\ start'[d] = "refused" => start[d] \in {"queued", "refused"}
        /\ start'[d] # "queued"
        /\ UNCHANGED <<receipt, outbox, attempts, agent>>
    BY <1>0, <1>4, CrashWrites, BlankParts
  <2>2. Untouched(d)'
    BY <1>1, <2>1 DEF OneClaim, Untouched
  <2>3. Claimed(d)'
    BY <1>1, <2>1 DEF OneClaim, Claimed
  <2>. QED
    BY <2>2, <2>3 DEF OneClaim
<1>5. CASE Restart
  <2>1. /\ \/ receipt[d].exec # "none" /\ worker'[d].pc \in {"idle", "claim"}
           \/ worker'[d].pc = "idle" /\ timer'[d] = 0
        /\ UNCHANGED <<receipt, outbox, request, arriving, start, attempts, agent>>
    BY <1>0, <1>5, RestartWrites, BlankParts DEF Unresolved, Live, database, world
  <2>2. Untouched(d)'
    BY <1>1, <2>1 DEF OneClaim, Untouched
  <2>3. Claimed(d)'
    BY <1>1, <2>1 DEF OneClaim, Claimed
  <2>. QED
    BY <2>2, <2>3 DEF OneClaim
<1>. QED
  BY <1>2, <1>3, <1>4, <1>5, StepKinds

\* Nothing was claimed before the first step.
LEMMA ClaimInvInit == Init => ClaimInv
BY TypeInit, BlankParts
DEF Init, ClaimInv, OneClaim, Untouched, Claimed, Channel!Init

\* For any number of dispatches and Contexts, any deadlines and either adapter,
\* and however many crashes and restarts fall between claim, start and
\* acknowledgement, a dispatch makes at most one foreign start
\* (dispatchWorker.ts:74-79).
THEOREM OneStart == Spec => []AtMostOneStart
<1>1. ClaimInv => AtMostOneStart
  BY DEF ClaimInv, OneClaim, Claimed, AtMostOneStart
<1>. QED
  BY <1>1, ClaimInvInit, ClaimInvStep, PTL DEF Spec

-----------------------------------------------------------------------------
(* What receipts say is true, and final.  This is about the daemon adapter:  *)
(* Herdr's reports a timeout after the request was written as if the runtime *)
(* had not been reached (HerdrTimesOut), and with it both are false.         *)

\* A worker that is about to write "failed" knows that nothing was started;
\* "succeeded", and whatever may become it, was reported by the agent; an
\* effect was committed by an agent that is, or was, there.
Honest(d) ==
    /\ worker[d].pc = "fail" => start[d] \in {"none", "refused"}
    /\ receipt[d].exec = "failed" =>
          /\ start[d] \in {"none", "refused"}
          /\ worker[d].pc \in {"idle", "claim"}
          /\ outbox[d] \notin {"none", "pending"}
    /\ receipt[d].effect = "committed" => agent[d] # "absent"
    /\ receipt[d].exec = "succeeded" => agent[d] = "done"
    /\ worker[d].pc \in {"ack", "observe"} /\ worker[d].status = "done" => agent[d] = "done"
    /\ "done" \in arriving[d] => agent[d] = "done"

\* Every step of a dispatch that runs through the daemon stays honest.
LEMMA HonestOwn ==
    ASSUME Adapter = "daemon", TypeOK, NEW d \in Dispatches, OneClaim(d), Honest(d), StepOf(d)
    PROVE  Honest(d)'
<1>. USE BlankParts DEF Honest, database, process, world, Outside, Step
<1>0. /\ receipt[d] \in Receipt /\ request[d] \in Request /\ worker[d] \in Worker
      /\ Untouched(d) /\ Claimed(d)
  BY Parts DEF OneClaim
<1>1. CASE Admission(d)
  <2>1. CASE Post(d)
    BY <1>0, <2>1 DEF Post, TypeOK
  <2>2. CASE AcquireTarget(d)
    BY <1>0, <2>2 DEF AcquireTarget, TypeOK
  <2>3. CASE ReadBack(d)
    BY <1>0, <2>3, ReadBackWrites
  <2>4. CASE Accept(d)
    <3>1. /\ receipt'[d].exec = "queued" /\ receipt'[d].effect = "pending"
          /\ worker'[d].pc = "claim"
          /\ UNCHANGED <<arriving, start, agent>>
      BY <1>0, <2>4 DEF Accept, TypeOK, Worker
    <3>. QED
      BY <1>0, <3>1
  <2>5. CASE Reject(d)
    BY <1>0, <2>5 DEF Reject, TypeOK
  <2>6. CASE Cleanup(d)
    BY <1>0, <2>6, CleanupWrites
  <2>. QED
    BY <1>1, <2>1, <2>2, <2>3, <2>4, <2>5, <2>6 DEF Admission
<1>2. CASE Working(d)
  <2>1. CASE Claim(d)
    <3>1. CASE outbox[d] = "pending"
      <4>1. [NoWorker EXCEPT !.pc = "check", !.now = clock].pc = "check"
        BY DEF NoWorker
      <4>2. /\ worker'[d].pc = "check"
            /\ UNCHANGED <<receipt, arriving, start, agent>>
        BY <2>1, <3>1, <4>1 DEF Claim, Claimable, TypeOK
      <4>3. receipt[d].exec # "failed"
        BY <3>1
      <4>. QED
        BY <4>2, <4>3
    <3>2. CASE outbox[d] # "pending"
      BY <2>1, <3>2 DEF Claim, Claimable, TypeOK
    <3>. QED
      BY <3>1, <3>2
  <2>2. CASE Check(d)
    BY <1>0, <2>2 DEF Check, TypeOK, Worker, Claimed
  <2>3. CASE Start(d)
    BY <1>0, <2>3 DEF Start, TypeOK, Worker, Claimed
  <2>4. CASE Reply(d)
    BY <1>0, <2>4, ReplyWrites DEF Reply
  <2>5. CASE Fail(d)
    <3>1. /\ worker[d].pc = "fail" /\ worker'[d] = NoWorker
          /\ UNCHANGED <<arriving, start, agent>>
      BY <2>5 DEF Fail, TypeOK
    <3>2. CASE receipt[d].exec = "queued"
      <4>1. /\ receipt'[d].exec = "failed" /\ receipt'[d].effect = "failed"
            /\ outbox'[d] \in {"failed", outbox[d]}
        BY <1>0, <2>5, <3>2 DEF Fail, TypeOK, Receipt
      <4>2. outbox[d] \notin {"none", "pending"}
        BY <1>0, <3>1 DEF Claimed
      <4>. QED
        BY <3>1, <4>1, <4>2
    <3>3. CASE receipt[d].exec # "queued"
      BY <2>5, <3>1, <3>3 DEF Fail
    <3>. QED
      BY <3>2, <3>3
  <2>6. CASE Acknowledge(d)
    BY <1>0, <2>6, AcknowledgeWrites DEF Worker
  <2>7. CASE FirstObserve(d)
    <3>1. /\ worker'[d].pc = "stream" /\ worker[d].pc = "observe"
          /\ UNCHANGED <<up, request, arriving, world>>
      BY <2>7 DEF FirstObserve, TypeOK
    <3>2. CASE Observe(d, worker[d].status, worker[d].now)
      <4>1. worker[d].status \in Status
        BY <1>0 DEF Worker
      <4>. QED
        BY <3>1, <3>2, <4>1, ObserveWrites
    <3>3. CASE UNCHANGED database
      BY <3>1, <3>3
    <3>. QED
      BY <2>7, <3>2, <3>3 DEF FirstObserve
  <2>8. CASE WorkerThrows(d)
    BY <1>0, <2>8 DEF WorkerThrows, TypeOK
  <2>. QED
    BY <1>2, <2>1, <2>2, <2>3, <2>4, <2>5, <2>6, <2>7, <2>8 DEF Working
<1>3. CASE Observing(d)
  <2>1. CASE EventArrives(d)
    BY <1>0, <2>1 DEF EventArrives, TypeOK
  <2>2. ASSUME NEW s \in Status, ApplyEvent(d, s)
        PROVE  Honest(d)'
    <3>1. /\ s \in arriving[d] /\ arriving'[d] \subseteq arriving[d]
          /\ UNCHANGED <<worker, start, agent>>
      BY <2>2 DEF ApplyEvent, TypeOK
    <3>2. CASE Observe(d, s, clock)
      BY <3>1, <3>2, ObserveWrites
    <3>3. CASE UNCHANGED <<database, timer>>
      BY <3>1, <3>3
    <3>. QED
      BY <2>2, <3>2, <3>3 DEF ApplyEvent
  <2>3. CASE StreamCloses(d)
    BY <1>0, <2>3 DEF StreamCloses, TypeOK
  <2>. QED
    BY <1>3, <2>1, <2>2, <2>3 DEF Observing
<1>4. CASE Runtime(d)
  <2>1. ASSUME NEW to, Channel!Move(d, {"queued"}, to) \/ Channel!Move(d, {"delivered"}, to),
               UNCHANGED <<agent, Outside>>
        PROVE  Honest(d)'
    BY <2>1 DEF Channel!Move
  <2>2. CASE Deliver(d) \/ Refuse(d) \/ Lose(d) \/ Answer(d)
    BY <2>1, <2>2 DEF Deliver, Refuse, Lose, Answer, Channel!Deliver, Channel!Refuse,
                      Channel!Lose, Channel!Answer, Channel!Move
  <2>3. CASE HerdrTimesOut(d)
    BY <2>3 DEF HerdrTimesOut
  <2>4. CASE AgentStarts(d)
    BY <1>0, <2>4 DEF AgentStarts, TypeOK, Claimed
  <2>5. CASE AgentMoves(d)
    BY <1>0, <2>5, DispatchAssumption DEF AgentMoves, TypeOK
  <2>. QED
    BY <1>4, <2>2, <2>3, <2>4, <2>5 DEF Runtime
<1>5. CASE Reconcile(d)
  <2>1. /\ receipt'[d].exec \in {receipt[d].exec, "outcome_unknown"}
        /\ receipt'[d].effect \in {receipt[d].effect, "failed"}
        /\ outbox'[d] \in {outbox[d], "outcome_unknown"}
        /\ UNCHANGED <<worker, arriving, start, agent>>
    BY <1>0, <1>5 DEF Reconcile, Reconciled, TypeOK, Receipt
  <2>. QED
    BY <2>1
<1>6. CASE ReconcileFails(d)
  BY <1>0, <1>6 DEF ReconcileFails, TypeOK
<1>7. CASE Commit(d)
  BY <1>0, <1>7 DEF Commit, TypeOK, Receipt
<1>. QED
  BY <1>1, <1>2, <1>3, <1>4, <1>5, <1>6, <1>7 DEF StepOf

HonestInv == ClaimInv /\ \A d \in Dispatches : Honest(d)

\* No step of any dispatch, no crash and no restart, makes a receipt lie.
LEMMA HonestInvStep ==
    ASSUME Adapter = "daemon"
    PROVE  HonestInv /\ [Next]_vars => HonestInv'
<1> SUFFICES ASSUME HonestInv, [Next]_vars
             PROVE  HonestInv'
  OBVIOUS
<1>0. ClaimInv' /\ TypeOK
  BY ClaimInvStep DEF HonestInv, ClaimInv
<1> SUFFICES ASSUME NEW d \in Dispatches
             PROVE  Honest(d)'
  BY <1>0 DEF HonestInv
<1>1. OneClaim(d) /\ Honest(d)
  BY DEF HonestInv, ClaimInv
<1>2. ASSUME NEW e \in Dispatches, StepOf(e)
      PROVE  Honest(d)'
  <2>1. CASE e = d
    BY <1>0, <1>1, <1>2, <2>1, HonestOwn
  <2>2. CASE e # d
    BY <1>0, <1>1, <1>2, <2>2, OthersUntouched DEF State, Honest
  <2>. QED
    BY <2>1, <2>2
<1>3. CASE LeaseStep \/ RestartScanFails
  BY <1>0, <1>1, <1>3, OthersUntouched DEF State, Honest
<1>4. CASE Crash
  <2>1. /\ worker'[d].pc = "idle" /\ arriving'[d] = {}
        /\ start[d] = "none" => start'[d] = "none"
        /\ start[d] = "refused" => start'[d] = "refused"
        /\ UNCHANGED <<receipt, outbox, agent>>
    BY <1>0, <1>4, CrashWrites, BlankParts DEF Channel!Fallen
  <2>. QED
    BY <1>1, <2>1 DEF Honest
<1>5. CASE Restart
  <2>1. /\ worker'[d].pc \in {"idle", "claim"}
        /\ UNCHANGED <<receipt, outbox, arriving, start, agent>>
    BY <1>0, <1>5, RestartWrites, BlankParts DEF database, world
  <2>. QED
    BY <1>1, <2>1 DEF Honest
<1>. QED
  BY <1>2, <1>3, <1>4, <1>5, StepKinds

\* Nothing was said before the first step.
LEMMA HonestInvInit == Init => HonestInv
BY ClaimInvInit, BlankParts DEF Init, HonestInv, Honest

\* Through the daemon, a receipt that says "failed" was never handed to a
\* runtime and one that says "succeeded" was reported done by its agent, for any
\* number of dispatches and any order of late answers, events, reconciliations,
\* crashes and restarts (dispatchWorker.ts:185-187, 227-239).
THEOREM OutcomesTrue ==
    ASSUME Adapter = "daemon"
    PROVE  Spec => []OutcomesTruthful
<1>1. HonestInv => OutcomesTruthful
  BY DEF HonestInv, Honest, OutcomesTruthful, FailedNeverStarted, SuccessWasReported
<1>2. HonestInv /\ [Next]_vars => HonestInv'
  BY HonestInvStep
<1>. QED
  BY <1>1, <1>2, HonestInvInit, PTL DEF Spec

\* Through the daemon, a terminal execution status and a decided effect are
\* final: late acknowledgements, late events, late failures and late timers
\* leave them alone (schema.prisma:481).
THEOREM DecisionsFinal ==
    ASSUME Adapter = "daemon"
    PROVE  Spec => DecidedIsFinal
<1>. DEFINE Keeps(d) ==
        /\ receipt[d].exec \in Terminal => receipt'[d].exec = receipt[d].exec
        /\ receipt[d].effect # "pending" => receipt'[d].effect = receipt[d].effect
<1>1. ASSUME HonestInv, NEW d \in Dispatches, StepOf(d)
      PROVE  Keeps(d)
  <2>0. /\ receipt[d] \in Receipt /\ worker[d] \in Worker /\ clock \in Nat
        /\ TypeOK /\ Untouched(d) /\ Claimed(d) /\ Honest(d)
    BY <1>1, Parts DEF HonestInv, ClaimInv, OneClaim
  <2>1. CASE receipt' = receipt
    BY <2>1
  <2>2. CASE Accept(d)
    <3>1. receipt[d].exec = "none" /\ receipt[d].effect = "pending"
      BY <2>0, <2>2, BlankParts DEF Accept, Claimed, Untouched
    <3>. QED
      BY <3>1 DEF Terminal
  <2>3. CASE Fail(d)
    <3>1. receipt[d].effect # "committed"
      BY <2>0, <2>3 DEF Fail, Honest, Claimed
    <3>2. receipt[d].exec = "queued" => receipt'[d].effect = "failed"
      BY <2>0, <2>3 DEF Fail, TypeOK, Receipt
    <3>3. receipt[d].exec # "queued" => receipt' = receipt
      BY <2>3 DEF Fail, database
    <3>. QED
      BY <2>0, <3>1, <3>2, <3>3 DEF Terminal, Receipt, Effect
  <2>4. CASE Acknowledge(d)
    BY <2>0, <2>4, AcknowledgeWrites DEF Terminal, database
  <2>5. ASSUME NEW s \in Status, NEW now, Observe(d, s, now)
        PROVE  Keeps(d)
    BY <2>0, <2>5, ObserveWrites DEF Terminal, Live
  <2>6. CASE Reconcile(d)
    BY <2>0, <2>6 DEF Reconcile, Reconciled, TypeOK, Receipt, Terminal, Live
  <2>7. CASE Commit(d)
    BY <2>0, <2>7 DEF Commit, TypeOK, Receipt
  <2>8. worker[d].status \in Status
    BY <2>0 DEF Worker
  <2>9. StepOf(d) => \/ receipt' = receipt
                     \/ Accept(d) \/ Fail(d) \/ Acknowledge(d)
                     \/ Observe(d, worker[d].status, worker[d].now)
                     \/ \E s \in Status : Observe(d, s, clock)
                     \/ Reconcile(d) \/ Commit(d)
    BY DEF StepOf, Admission, Working, Observing, Runtime, Post, AcquireTarget, ReadBack, Reject,
           Cleanup, Claim, Check, Start, Reply, FirstObserve, WorkerThrows, EventArrives,
           ApplyEvent, StreamCloses, Deliver, Refuse, Lose, Answer, HerdrTimesOut, AgentStarts,
           AgentMoves, ReconcileFails, database, Outside
  <2>. QED
    BY <1>1, <2>1, <2>2, <2>3, <2>4, <2>5, <2>6, <2>7, <2>8, <2>9
<1>2. HonestInv /\ [Next]_vars => \A d \in Dispatches : Keeps(d)
  <2> SUFFICES ASSUME HonestInv, [Next]_vars, NEW d \in Dispatches
               PROVE  Keeps(d)
    OBVIOUS
  <2>0. TypeOK
    BY DEF HonestInv, ClaimInv
  <2>1. ASSUME NEW e \in Dispatches, StepOf(e), e # d
        PROVE  receipt'[d] = receipt[d]
    BY <2>0, <2>1, OthersUntouched DEF State
  <2>2. CASE LeaseStep \/ RestartScanFails
    BY <2>0, <2>2, OthersUntouched DEF State
  <2>3. CASE Crash
    BY <2>3 DEF Crash, database
  <2>4. CASE Restart
    BY <2>4 DEF Restart, database
  <2>. QED
    BY <1>1, <2>1, <2>2, <2>3, <2>4, StepKinds
<1>3. HonestInv /\ [Next]_vars => HonestInv'
  BY HonestInvStep
<1>. QED
  BY <1>2, <1>3, HonestInvInit, PTL DEF Spec, DecidedIsFinal

-----------------------------------------------------------------------------
(* Leases.  What a step does to a row, and what it does to a receipt, is all  *)
(* the invariants about leases need to know of it.                            *)

\* A dispatch that has nothing more to publish, or nobody to publish it.
Settled(r) == r.exec \in {"failed", "outcome_unknown"} \/ r.effect # "pending"

\* An accepted receipt moves on: it keeps its bindings, and when it is settled
\* its leases are released in the same transaction.
Moves(d) ==
    /\ receipt[d].exec # "none" /\ receipt'[d].exec # "none"
    /\ receipt'[d].bound = receipt[d].bound
    /\ receipt'[d].effectDeadline = receipt[d].effectDeadline
    /\ \/ lease' = ReleaseBound(receipt[d]) /\ receipt'[d] # receipt[d]
       \/ lease' = lease /\ (Settled(receipt'[d]) => Settled(receipt[d]))
    /\ receipt'[d].effect = "committed" =>
          \/ receipt[d].effect = "committed" /\ receipt'[d].effectAt = receipt[d].effectAt
          \/ Publishable(d) /\ receipt'[d].effectAt = clock
    /\ UNCHANGED <<request, nextGen, clock>>

\* What releasing does depends on the bindings alone.
LEMMA SameBindings ==
    ASSUME NEW r, NEW s, r.bound = s.bound
    PROVE  ReleaseBound(r) = ReleaseBound(s)
BY DEF ReleaseBound

\* A step of one dispatch is a step of its admission, or moves its receipt on,
\* or touches neither lease nor receipt nor request.
LEMMA OwnKinds ==
    ASSUME ClaimInv, NEW d \in Dispatches, StepOf(d)
    PROVE  \/ Post(d) \/ AcquireTarget(d) \/ ReadBack(d) \/ Accept(d) \/ Reject(d) \/ Cleanup(d)
           \/ Moves(d)
           \/ UNCHANGED <<lease, receipt, request, nextGen, clock>>
<1>0. /\ TypeOK /\ OneClaim(d) /\ receipt[d] \in Receipt /\ worker[d] \in Worker
      /\ worker[d].status \in Status
  BY Parts DEF ClaimInv, Worker
<1>1. ASSUME receipt'[d].exec # "none", receipt[d].exec # "none",
             receipt'[d].bound = receipt[d].bound,
             receipt'[d].effectDeadline = receipt[d].effectDeadline,
             receipt'[d].effect = receipt[d].effect,
             receipt'[d].effectAt = receipt[d].effectAt,
             receipt'[d].exec # "failed", receipt[d].exec # "outcome_unknown",
             lease' = IF receipt'[d].exec = "outcome_unknown"
                      THEN ReleaseBound(receipt'[d]) ELSE lease,
             UNCHANGED <<request, nextGen, clock>>
      PROVE  Moves(d)
  <2>1. ReleaseBound(receipt'[d]) = ReleaseBound(receipt[d])
    BY <1>1, SameBindings
  <2>. QED
    BY <1>1, <2>1 DEF Moves, Settled
<1>2. ASSUME NEW s \in Status, NEW now, Observe(d, s, now), UNCHANGED <<request, nextGen, clock>>
      PROVE  Moves(d)
  BY <1>0, <1>1, <1>2, ObserveWrites DEF Live
<1>3. CASE Acknowledge(d)
  BY <1>0, <1>1, <1>3, AcknowledgeWrites DEF database, world
<1>4. CASE Fail(d)
  <2>1. CASE receipt[d].exec = "queued"
    <3>1. /\ receipt'[d].exec = "failed" /\ receipt'[d].effect = "failed"
          /\ receipt'[d].bound = receipt[d].bound
          /\ receipt'[d].effectDeadline = receipt[d].effectDeadline
          /\ lease' = ReleaseBound(receipt[d])
          /\ UNCHANGED <<request, nextGen, clock>>
      BY <1>0, <1>4, <2>1 DEF Fail, TypeOK, Receipt, world
    <3>. QED
      BY <2>1, <3>1 DEF Moves
  <2>2. CASE receipt[d].exec # "queued"
    BY <1>4, <2>2 DEF Fail, database, world
  <2>. QED
    BY <2>1, <2>2
<1>5. CASE Reconcile(d)
  <2>. DEFINE r == Reconciled(receipt[d], clock)
  <2>1. receipt[d].exec # "none"
    BY <1>0, <1>5 DEF Reconcile, OneClaim, Untouched
  <2>2. /\ r.bound = receipt[d].bound /\ r.effectDeadline = receipt[d].effectDeadline
        /\ r.exec # "none"
        /\ r.effect = "committed" => receipt[d].effect = "committed"
                                     /\ r.effectAt = receipt[d].effectAt
    BY <1>0, <2>1 DEF Reconciled, Receipt, Effect
  <2>3. /\ receipt'[d] = r /\ UNCHANGED <<request, nextGen, clock>>
        /\ lease' = IF r # receipt[d] THEN ReleaseBound(r) ELSE lease
    BY <1>0, <1>5 DEF Reconcile, TypeOK, world
  <2>4. ReleaseBound(r) = ReleaseBound(receipt[d])
    BY <2>2, SameBindings
  <2>. HIDE DEF r
  <2>. QED
    BY <2>1, <2>2, <2>3, <2>4 DEF Moves
<1>6. CASE Commit(d)
  <2>1. /\ receipt'[d].effect = "committed" /\ receipt'[d].effectAt = clock
        /\ receipt[d].effect = "pending" /\ receipt[d].exec # "none"
        /\ receipt'[d].bound = receipt[d].bound /\ receipt'[d].exec = receipt[d].exec
        /\ receipt'[d].effectDeadline = receipt[d].effectDeadline
        /\ lease' = ReleaseBound(receipt[d]) /\ Publishable(d)
        /\ UNCHANGED <<request, nextGen, clock>>
    BY <1>0, <1>6 DEF Commit, TypeOK, Receipt, process, world
  <2>. QED
    BY <2>1 DEF Moves
<1>7. \/ Admission(d) \/ Acknowledge(d) \/ Fail(d) \/ Reconcile(d) \/ Commit(d)
      \/ \E s \in Status, now \in {clock, worker[d].now} :
            Observe(d, s, now) /\ UNCHANGED <<request, nextGen, clock>>
      \/ UNCHANGED <<lease, receipt, request, nextGen, clock>>
  <2>1. Working(d) => \/ Acknowledge(d) \/ Fail(d)
                      \/ Observe(d, worker[d].status, worker[d].now)
                         /\ UNCHANGED <<request, nextGen, clock>>
                      \/ UNCHANGED <<lease, receipt, request, nextGen, clock>>
    BY DEF Working, Claim, Check, Start, Reply, FirstObserve, WorkerThrows, database, world
  <2>2. Observing(d) => \/ \E s \in Status : Observe(d, s, clock)
                                             /\ UNCHANGED <<request, nextGen, clock>>
                        \/ UNCHANGED <<lease, receipt, request, nextGen, clock>>
    BY DEF Observing, EventArrives, ApplyEvent, StreamCloses, database, world
  <2>3. Runtime(d) \/ ReconcileFails(d) => UNCHANGED <<lease, receipt, request, nextGen, clock>>
    BY DEF Runtime, Deliver, Refuse, Lose, Answer, HerdrTimesOut, AgentStarts, AgentMoves,
           ReconcileFails, Outside, database, process, world
  <2>. QED
    BY <1>0, <2>1, <2>2, <2>3 DEF StepOf
<1>. QED
  BY <1>2, <1>3, <1>4, <1>5, <1>6, <1>7 DEF Admission

\* A row keeps its grant: it may be released, or a live one renewed.
Kept(c) ==
    /\ lease'[c].gen = lease[c].gen /\ lease'[c].run = lease[c].run
    /\ lease'[c].user = lease[c].user /\ lease'[c].endHorizonAt = lease[c].endHorizonAt
    /\ lease[c].released => lease'[c].released
    /\ \/ lease'[c].expiresAt = lease[c].expiresAt
       \/ IsLive(lease[c], clock) /\ lease'[c].expiresAt <= lease'[c].endHorizonAt

\* The Context is given to a run that is nobody's dispatch.
Elsewhere(c) ==
    /\ lease'[c].gen = nextGen /\ nextGen' = nextGen + 1
    /\ lease'[c].run = Other /\ lease'[c].expiresAt <= lease'[c].endHorizonAt
    /\ UNCHANGED <<receipt, request>>

\* The Context is given to a dispatch that is being admitted.
Given(c, d) ==
    /\ AcquireTarget(d) /\ c = NextTarget(d)
    /\ lease'[c].gen = nextGen /\ nextGen' = nextGen + 1
    /\ lease'[c].run = d /\ lease'[c].user = Initiator /\ ~lease'[c].released
    /\ lease'[c].endHorizonAt = request[d].horizon
    /\ lease'[c].expiresAt <= lease'[c].endHorizonAt
    /\ \/ lease[c] = NoRow /\ request'[d] = [request[d] EXCEPT !.admitted[c] = nextGen]
       \/ request'[d] = [request[d] EXCEPT !.pc = "readback"]

\* What an admission does when it takes its next target.
LEMMA AcquireWrites ==
    ASSUME TypeOK, NEW d \in Dispatches, AcquireTarget(d)
    PROVE  /\ NextTarget(d) \in Contexts /\ NextTarget(d) \in Awaiting(d)
           /\ request[d].pc = "acquire" /\ Awaiting(d) # {}
           /\ \A c \in Contexts \ {NextTarget(d)} : lease'[c] = lease[c]
           /\ \/ Given(NextTarget(d), d)
              \/ /\ request'[d] = [request[d] EXCEPT !.pc = "cleanup"]
                 /\ UNCHANGED <<lease, nextGen>>
           /\ \A e \in Dispatches \ {d} : request'[e] = request[e]
           /\ UNCHANGED <<receipt, clock>>
<1>. DEFINE q == request[d]
            c == NextTarget(d)
            g == Grant(nextGen, d, Initiator, q.now, q.horizon - q.now, q.horizon)
<1>1. c \in Contexts /\ c \in Awaiting(d) /\ q.pc = "acquire" /\ Awaiting(d) # {}
  BY NextTargetAwaits DEF AcquireTarget
<1>2. /\ g.gen = nextGen /\ g.run = d /\ g.user = Initiator /\ g.endHorizonAt = q.horizon
      /\ g.expiresAt <= g.endHorizonAt /\ ~g.released
  <2>1. q.now \in Nat /\ q.horizon \in Nat /\ q.now + (q.horizon - q.now) \in Nat
    BY Parts DEF Request
  <2>. QED
    BY <2>1, EarlierBound DEF Grant
<1>3. /\ \A e \in Dispatches \ {d} : request'[e] = request[e]
      /\ UNCHANGED <<receipt, clock>>
  BY DEF AcquireTarget, TypeOK
<1>4. \/ /\ lease' = [lease EXCEPT ![c] = g] /\ nextGen' = nextGen + 1
         /\ \/ lease[c] = NoRow /\ request'[d] = [q EXCEPT !.admitted[c] = nextGen]
            \/ request'[d] = [q EXCEPT !.pc = "readback"]
      \/ /\ request'[d] = [q EXCEPT !.pc = "cleanup"]
         /\ UNCHANGED <<lease, nextGen>>
  BY DEF AcquireTarget, TypeOK
<1>. HIDE DEF g, c, q
<1>5. lease' = [lease EXCEPT ![c] = g] => lease'[c] = g
  BY <1>1 DEF TypeOK
<1>6. \A e \in Contexts \ {c} : lease'[e] = lease[e]
  BY <1>4 DEF TypeOK
<1>. QED
  BY <1>1, <1>2, <1>3, <1>4, <1>5, <1>6 DEF Given, c, q

\* What a step does to a row.
LEMMA RowKinds ==
    ASSUME ClaimInv, [Next]_vars, NEW c \in Contexts
    PROVE  Kept(c) \/ Elsewhere(c) \/ \E d \in Dispatches : Given(c, d)
<1>0. TypeOK /\ lease \in [Contexts -> Row] /\ lease[c] \in Row
  BY DEF ClaimInv, TypeOK
<1>1. lease'[c] = lease[c] => Kept(c)
  BY DEF Kept
<1>2. ASSUME NEW r, lease' = ReleaseBound(r)
      PROVE  Kept(c)
  <2>1. lease'[c] = ReleaseBound(r)[c]
    BY <1>2
  <2>. QED
    BY <1>0, <2>1, ReleaseBoundRows DEF Kept
<1>3. ASSUME NEW d \in Dispatches, StepOf(d)
      PROVE  Kept(c) \/ Given(c, d)
  <2>1. CASE AcquireTarget(d)
    BY <1>0, <1>1, <2>1, AcquireWrites
  <2>2. CASE Cleanup(d)
    <3>1. ASSUME NEW e \in Contexts, Undo(d, e)
          PROVE  Kept(c)
      <4>1. lease'[c] = lease[c] \/ lease'[c] = Undone(d, c)
        BY <1>0, <3>1, UndoRows
      <4>. QED
        BY <1>0, <1>1, <4>1, UndoneRow DEF Kept
    <3>. QED
      BY <1>0, <1>1, <2>2, <3>1, CleanupWrites
  <2>3. CASE Moves(d)
    BY <1>1, <1>2, <2>3 DEF Moves
  <2>4. CASE UNCHANGED lease
    BY <1>1, <2>4
  <2>5. CASE Post(d) \/ ReadBack(d) \/ Accept(d) \/ Reject(d)
    BY <1>1, <2>5 DEF Post, ReadBack, Accept, Reject, database
  <2>. QED
    BY <1>3, <2>1, <2>2, <2>3, <2>4, <2>5, OwnKinds
<1>4. \A b \in Budgets : clock + b \in Nat
  BY <1>0, DispatchAssumption DEF TypeOK
<1>5. ASSUME NEW e \in Contexts, OtherAcquires(e)
      PROVE  Kept(c) \/ Elsewhere(c)
  <2>1. PICK b \in Budgets : lease' = [lease EXCEPT ![e] =
                                Grant(nextGen, Other, Initiator, clock, b, clock + b)]
    BY <1>5 DEF OtherAcquires
  <2>2. nextGen' = nextGen + 1 /\ UNCHANGED <<receipt, request>>
    BY <1>5 DEF OtherAcquires, LeaseRoute, process
  <2>3. CASE c = e
    <3>1. lease'[c] = Grant(nextGen, Other, Initiator, clock, b, clock + b)
      BY <1>0, <2>1, <2>3
    <3>. QED
      BY <1>4, <2>2, <3>1, EarlierBound DEF Elsewhere, Grant
  <2>4. CASE c # e
    BY <1>0, <1>1, <2>1, <2>4
  <2>. QED
    BY <2>3, <2>4
<1>6. ASSUME NEW e \in Contexts, Transfer(e)
      PROVE  Kept(c) \/ Elsewhere(c)
  <2>1. PICK b \in Budgets :
          lease' = [lease EXCEPT ![e].gen = nextGen, ![e].run = Other,
                                 ![e].expiresAt = Earlier(clock + b, lease[e].endHorizonAt)]
    BY <1>6 DEF Transfer
  <2>2. nextGen' = nextGen + 1 /\ UNCHANGED <<receipt, request>>
    BY <1>6 DEF Transfer, LeaseRoute, process
  <2>3. CASE c = e
    <3>1. /\ lease'[c].gen = nextGen /\ lease'[c].run = Other
          /\ lease'[c].expiresAt = Earlier(clock + b, lease[c].endHorizonAt)
          /\ lease'[c].endHorizonAt = lease[c].endHorizonAt
      BY <1>0, <2>1, <2>3 DEF Row
    <3>2. lease[c].endHorizonAt \in Nat
      BY <1>0 DEF Row
    <3>. QED
      BY <1>4, <2>2, <3>1, <3>2, EarlierBound DEF Elsewhere
  <2>4. CASE c # e
    BY <1>0, <1>1, <2>1, <2>4
  <2>. QED
    BY <2>3, <2>4
<1>7. ASSUME NEW e \in Contexts, Renew(e)
      PROVE  Kept(c)
  <2>1. PICK b \in Budgets :
          lease' = [lease EXCEPT ![e].expiresAt = Earlier(clock + b, lease[e].endHorizonAt)]
    BY <1>7 DEF Renew
  <2>2. CASE c = e
    <3>1. /\ lease'[c].gen = lease[c].gen /\ lease'[c].run = lease[c].run
          /\ lease'[c].user = lease[c].user /\ lease'[c].endHorizonAt = lease[c].endHorizonAt
          /\ lease'[c].released = lease[c].released
          /\ lease'[c].expiresAt = Earlier(clock + b, lease[c].endHorizonAt)
      BY <1>0, <2>1, <2>2 DEF Row
    <3>2. lease[c].endHorizonAt \in Nat /\ IsLive(lease[c], clock)
      BY <1>0, <1>7, <2>2 DEF Row, Renew
    <3>. QED
      BY <1>4, <3>1, <3>2, EarlierBound DEF Kept
  <2>3. CASE c # e
    BY <1>0, <1>1, <2>1, <2>3
  <2>. QED
    BY <2>2, <2>3
<1>8. ASSUME NEW e \in Contexts, ReleaseByUser(e)
      PROVE  Kept(c)
  BY <1>0, <1>8 DEF ReleaseByUser, Release, Row, Kept
<1>9. CASE Crash \/ Restart \/ RestartScanFails \/ AccessLost \/ Tick \/ UNCHANGED vars
  BY <1>1, <1>9 DEF Crash, Restart, RestartScanFails, AccessLost, Tick, vars, database
<1>. QED
  BY <1>3, <1>5, <1>6, <1>7, <1>8, <1>9, StepKinds DEF LeaseStep


\* A row changes hands, to anybody but d, under a generation nobody has seen.
Lost(c, d) ==
    /\ lease'[c].gen = nextGen /\ nextGen' = nextGen + 1
    /\ lease'[c].run # d /\ lease'[c].run # None
    /\ lease'[c].expiresAt <= lease'[c].endHorizonAt

\* A step of somebody else, as a dispatch sees it.
Foreign(d) ==
    /\ receipt'[d] = receipt[d] /\ request'[d] = request[d]
    /\ \A c \in Contexts : Kept(c) \/ Lost(c, d)

\* Time, generations and crashes only grow.
LEMMA OnlyGrow ==
    ASSUME TypeOK, [Next]_vars
    PROVE  clock' >= clock /\ nextGen' >= nextGen /\ crashes' >= crashes
<1>0. clock \in Nat /\ nextGen \in Nat /\ crashes \in Nat
  BY DEF TypeOK
<1>1. ASSUME NEW d \in Dispatches, StepOf(d)
      PROVE  nextGen' \in {nextGen, nextGen + 1} /\ UNCHANGED <<clock, crashes>>
  BY <1>1 DEF StepOf, Admission, Working, Observing, Runtime, Post, AcquireTarget, ReadBack,
              Accept, Reject, Cleanup, Claim, Check, Start, Reply, Fail, Acknowledge,
              FirstObserve, WorkerThrows, EventArrives, ApplyEvent, StreamCloses, Deliver,
              Refuse, Lose, Answer, HerdrTimesOut, AgentStarts, AgentMoves, Reconcile,
              ReconcileFails, Commit, Outside, world
<1>2. CASE LeaseStep
  <2>1. LeaseStep => /\ nextGen' \in {nextGen, nextGen + 1} /\ clock' \in {clock, clock + 1}
                     /\ crashes' = crashes
    BY DEF LeaseStep, OtherAcquires, Transfer, Renew, ReleaseByUser, AccessLost, Tick,
           LeaseRoute, vars, world
  <2>. QED
    BY <1>0, <1>2, <2>1
<1>3. CASE Crash \/ Restart \/ RestartScanFails
  BY <1>0, <1>3 DEF Crash, Restart, RestartScanFails, world
<1>. QED
  BY <1>0, <1>1, <1>2, <1>3, StepKinds

\* Taking a target, or failing to, is written into the request.
LEMMA AcquireChanges ==
    ASSUME TypeOK, NEW d \in Dispatches, AcquireTarget(d)
    PROVE  request'[d] # request[d]
<1>1. /\ request[d] \in Request /\ request[d].pc = "acquire"
      /\ NextTarget(d) \in Contexts /\ request[d].admitted[NextTarget(d)] = 0
      /\ nextGen \in Nat \ {0}
  BY Parts, AcquireWrites DEF TypeOK, Awaiting
<1>2. [request[d] EXCEPT !.pc = "cleanup"].pc = "cleanup"
      /\ [request[d] EXCEPT !.pc = "readback"].pc = "readback"
      /\ [request[d] EXCEPT !.admitted[NextTarget(d)] = nextGen].admitted[NextTarget(d)] = nextGen
  BY <1>1 DEF Request
<1>. QED
  BY <1>1, <1>2, AcquireWrites DEF Given

\* What a step is to a dispatch.
LEMMA NextKinds ==
    ASSUME ClaimInv, [Next]_vars, NEW d \in Dispatches
    PROVE  \/ Foreign(d) \/ Crash
           \/ Post(d) \/ AcquireTarget(d) \/ ReadBack(d) \/ Accept(d) \/ Reject(d) \/ Cleanup(d)
           \/ Moves(d)
<1>0. TypeOK /\ \A e \in Dispatches : e # Other /\ e # None
  BY DispatchAssumption, NoneAssumption DEF ClaimInv
<1>1. ASSUME receipt'[d] = receipt[d], request'[d] = request[d]
      PROVE  Foreign(d)
  <2>1. ASSUME NEW c \in Contexts, NEW e \in Dispatches, Given(c, e)
        PROVE  Lost(c, d)
    BY <1>0, <1>1, <2>1, AcquireChanges DEF Given, Lost
  <2>2. ASSUME NEW c \in Contexts, Elsewhere(c)
        PROVE  Lost(c, d)
    BY <1>0, <2>2, NoneAssumption, DispatchAssumption DEF Elsewhere, Lost
  <2>. QED
    BY <1>1, <2>1, <2>2, RowKinds DEF Foreign
<1>2. ASSUME NEW e \in Dispatches, StepOf(e), e # d
      PROVE  Foreign(d)
  BY <1>0, <1>1, <1>2, OthersUntouched DEF State
<1>3. CASE LeaseStep \/ Restart \/ RestartScanFails
  BY <1>1, <1>3 DEF LeaseStep, Restart, RestartScanFails, OtherAcquires, Transfer, Renew,
                    ReleaseByUser, AccessLost, Tick, LeaseRoute, vars, database, process
<1>. QED
  BY <1>1, <1>2, <1>3, StepKinds, OwnKinds

-----------------------------------------------------------------------------
(* What a dispatch knows of the leases it took.                              *)

\* The next target depends on the targets and on what was admitted so far.
First(T, a) == CHOOSE c \in T : a[c] = 0 /\ \A e \in T : a[e] = 0 => c <= e

\* The next target depends on the targets and on which of them are admitted.
LEMMA SameTarget ==
    ASSUME NEW d, request'[d].targets = request[d].targets,
           request'[d].admitted = request[d].admitted
    PROVE  NextTarget(d)' = NextTarget(d)
<1>1. NextTarget(d) = First(request[d].targets, request[d].admitted)
  BY DEF NextTarget, First
<1>2. NextTarget(d)' = First(request'[d].targets, request'[d].admitted)
  BY DEF NextTarget, First
<1>. QED
  BY <1>1, <1>2

\* Every generation anybody remembers was issued, and no lease outlives its
\* horizon.
RowSound(c) ==
    /\ lease[c].gen < nextGen
    /\ lease[c].gen = 0 => lease[c].run = None
    /\ lease[c].expiresAt <= lease[c].endHorizonAt

Numbered(d) ==
    \A c \in Contexts : request[d].admitted[c] < nextGen /\ receipt[d].bound[c] < nextGen

\* An admission has targets, and takes leases of those alone; what it binds in
\* the end is not nothing.
Aimed(d) ==
    /\ request[d].pc \notin {"idle", "done"} => request[d].targets # {}
    /\ request[d].pc = "readback" => Awaiting(d) # {}
    /\ \A c \in Contexts : request[d].admitted[c] # 0 => c \in request[d].targets
    /\ receipt[d].exec # "none" => \E c \in Contexts : receipt[d].bound[c] # 0

\* A lease the run holds was taken by its admission, for the window the human
\* approved.
Owns(d) ==
    \A c \in Contexts : lease[c].run = d =>
        /\ lease[c].user = Initiator
        /\ request[d].pc # "idle"
        /\ request[d].pc # "done" => lease[c].endHorizonAt = request[d].horizon
        /\ receipt[d].exec # "none" => lease[c].endHorizonAt = receipt[d].effectDeadline

\* A lease the receipt is bound to is its own, and gone once it is settled.
Binds(d) ==
    \A c \in Contexts : receipt[d].bound[c] # 0 /\ lease[c].gen = receipt[d].bound[c] =>
        /\ lease[c].run = d
        /\ Settled(receipt[d]) => lease[c].released

InTime(d) ==
    receipt[d].effect = "committed" => receipt[d].effectAt <= receipt[d].effectDeadline

\* A lease that the clean-up does not have to find any more, or never will.
Gone(d, c) == ~IsLive(lease[c], clock) \/ (DbFaults /\ c \in request[d].missed)

\* The clean-up of an admission that no crash cut short finds every lease it
\* took, except the one whose generation is still being read back and those whose
\* read back or release failed.
Swept(d) ==
    crashes = 0 => \A c \in Contexts : lease[c].run = d =>
        /\ request[d].pc = "acquire" => request[d].admitted[c] = lease[c].gen
        /\ request[d].pc = "readback" =>
              c = NextTarget(d) \/ request[d].admitted[c] = lease[c].gen
        /\ request[d].pc = "cleanup" => request[d].admitted[c] = lease[c].gen \/ Gone(d, c)
        /\ request[d].pc = "done" /\ receipt[d].exec = "none" =>
              Gone(d, c) /\ lease[c].endHorizonAt = request[d].horizon

Held(d) == Numbered(d) /\ Aimed(d) /\ Owns(d) /\ Binds(d) /\ InTime(d) /\ Swept(d)

HeldInv == ClaimInv /\ (\A c \in Contexts : RowSound(c)) /\ \A d \in Dispatches : Held(d)

\* A step somewhere else does not disturb it.
LEMMA HeldForeign ==
    ASSUME HeldInv, [Next]_vars, TypeOK', NEW d \in Dispatches, Foreign(d)
    PROVE  Held(d)'
<1>0. /\ TypeOK /\ Held(d) /\ clock' >= clock /\ nextGen' >= nextGen /\ crashes' >= crashes
      /\ clock \in Nat /\ nextGen \in Nat /\ crashes \in Nat
      /\ clock' \in Nat /\ nextGen' \in Nat /\ crashes' \in Nat
      /\ receipt[d] \in Receipt /\ request[d] \in Request
      /\ \A c \in Contexts : RowSound(c)
      /\ lease \in [Contexts -> Row] /\ lease' \in [Contexts -> Row]
  BY OnlyGrow, Parts DEF HeldInv, ClaimInv, TypeOK
<1>1. receipt'[d] = receipt[d] /\ request'[d] = request[d]
      /\ \A c \in Contexts : Kept(c) \/ Lost(c, d)
  BY DEF Foreign
<1>2. Numbered(d)'
  BY <1>0, <1>1 DEF Numbered, Held, Receipt, Request
<1>3. Aimed(d)'
  BY <1>0, <1>1 DEF Aimed, Held, Awaiting
<1>4. Owns(d)'
  BY <1>0, <1>1 DEF Owns, Held, Kept, Lost
<1>5. Binds(d)'
  <2>1. Numbered(d) /\ Binds(d)
    BY <1>0 DEF Held
  <2>. QED
    BY <1>0, <1>1, <2>1 DEF Binds, Numbered, Kept, Lost, Receipt
<1>6. InTime(d)'
  BY <1>0, <1>1 DEF InTime, Held
<1>7. Swept(d)'
  <2>1. NextTarget(d)' = NextTarget(d)
    BY <1>1, SameTarget
  <2>2. crashes' = 0 => Swept(d) /\ crashes = 0
    BY <1>0 DEF Held
  <2>3. ASSUME NEW c \in Contexts, Kept(c), Gone(d, c)
        PROVE  Gone(d, c)'
    <3>1. ~IsLive(lease[c], clock) => ~IsLive(lease[c], clock)'
      BY <1>0, <2>3 DEF Kept, IsLive, Row
    <3>. QED
      BY <1>1, <2>3, <3>1 DEF Gone
  <2>. QED
    BY <1>0, <1>1, <2>1, <2>2, <2>3 DEF Swept, Kept, Lost
<1>. QED
  BY <1>2, <1>3, <1>4, <1>5, <1>6, <1>7 DEF Held


\* Rows stay sound, whoever writes them.
LEMMA RowSoundStep ==
    ASSUME HeldInv, [Next]_vars, NEW c \in Contexts
    PROVE  RowSound(c)'
<1>0. /\ TypeOK /\ TypeOK' /\ RowSound(c) /\ nextGen' >= nextGen
      /\ nextGen \in Nat \ {0} /\ nextGen' \in Nat /\ lease[c] \in Row /\ lease'[c] \in Row
      /\ None \notin Dispatches /\ Other # None
  BY OnlyGrow, TypeStep, NoneAssumption, DispatchAssumption DEF HeldInv, ClaimInv, TypeOK
<1>1. CASE Kept(c)
  BY <1>0, <1>1 DEF Kept, RowSound, Row
<1>2. CASE Elsewhere(c)
  BY <1>0, <1>2 DEF Elsewhere, RowSound, Row
<1>3. ASSUME NEW d \in Dispatches, Given(c, d)
      PROVE  RowSound(c)'
  BY <1>0, <1>3 DEF Given, RowSound, Row
<1>. QED
  BY <1>1, <1>2, <1>3, RowKinds DEF HeldInv

\* A crash ends the admission; what it took, nobody cleans up.
LEMMA HeldCrash ==
    ASSUME HeldInv, TypeOK', NEW d \in Dispatches, Crash
    PROVE  Held(d)'
<1>0. /\ TypeOK /\ Held(d) /\ nextGen \in Nat \ {0} /\ crashes \in Nat
      /\ OneClaim(d) /\ receipt[d] \in Receipt
  BY Parts DEF HeldInv, ClaimInv, TypeOK
<1>1. /\ UNCHANGED <<lease, receipt, nextGen>> /\ crashes' = crashes + 1
      /\ \/ request[d].pc = "idle" /\ request'[d].pc = "idle"
         \/ request[d].pc # "idle" /\ request'[d].pc = "done"
      /\ request'[d].admitted = Nothing
  BY <1>0, CrashWrites, BlankParts DEF Crash, database
<1>2. \A c \in Contexts : request'[d].admitted[c] = 0
  BY <1>1 DEF Nothing
<1>3. Numbered(d)' /\ Aimed(d)' /\ Owns(d)' /\ Binds(d)' /\ InTime(d)'
  BY <1>0, <1>1, <1>2 DEF Held, Numbered, Aimed, Owns, Binds, InTime
<1>4. Swept(d)'
  BY <1>0, <1>1 DEF Swept
<1>. QED
  BY <1>3, <1>4 DEF Held

\* A receipt that moves on keeps its leases until it is settled, and commits
\* only under leases that are still live.
LEMMA HeldMoves ==
    ASSUME HeldInv, TypeOK', NEW d \in Dispatches, Moves(d)
    PROVE  Held(d)'
<1>0. /\ TypeOK /\ Held(d) /\ clock \in Nat /\ nextGen \in Nat
      /\ receipt[d] \in Receipt /\ request[d] \in Request
      /\ receipt'[d] \in Receipt
      /\ OneClaim(d) /\ \A c \in Contexts : RowSound(c)
      /\ lease \in [Contexts -> Row]
  BY Parts DEF HeldInv, ClaimInv, TypeOK
<1>1. /\ UNCHANGED <<request, nextGen, clock>>
      /\ receipt[d].exec # "none" /\ receipt'[d].exec # "none"
      /\ receipt'[d].bound = receipt[d].bound
      /\ receipt'[d].effectDeadline = receipt[d].effectDeadline
  BY DEF Moves
<1>2. \A c \in Contexts :
        /\ lease'[c].gen = lease[c].gen /\ lease'[c].run = lease[c].run
        /\ lease'[c].user = lease[c].user /\ lease'[c].endHorizonAt = lease[c].endHorizonAt
        /\ lease[c].released => lease'[c].released
  <2>1. CASE lease' = ReleaseBound(receipt[d])
    BY <1>0, <2>1, ReleaseBoundRows
  <2>2. CASE lease' = lease
    BY <2>2
  <2>. QED
    BY <2>1, <2>2 DEF Moves
<1>3. Numbered(d)' /\ Aimed(d)' /\ Owns(d)'
  <2>1. Numbered(d)'
    BY <1>0, <1>1 DEF Held, Numbered
  <2>2. Aimed(d)'
    BY <1>0, <1>1 DEF Held, Aimed, Awaiting
  <2>3. Owns(d)'
    BY <1>0, <1>1, <1>2 DEF Held, Owns
  <2>. QED
    BY <2>1, <2>2, <2>3
<1>4. Binds(d)'
  <2>1. CASE lease' = ReleaseBound(receipt[d])
    <3>1. \A c \in Contexts : receipt[d].bound[c] # 0 /\ lease[c].gen = receipt[d].bound[c]
                                 => lease'[c].released
      BY <1>0, <2>1, ReleaseBoundRows
    <3>. QED
      BY <1>0, <1>1, <1>2, <3>1 DEF Held, Binds
  <2>2. CASE lease' = lease /\ (Settled(receipt'[d]) => Settled(receipt[d]))
    BY <1>0, <1>1, <2>2 DEF Held, Binds
  <2>. QED
    BY <2>1, <2>2 DEF Moves
<1>5. InTime(d)'
  <2>1. CASE receipt[d].effect = "committed" /\ receipt'[d].effectAt = receipt[d].effectAt
    BY <1>0, <1>1, <2>1 DEF Held, InTime
  <2>2. CASE Publishable(d) /\ receipt'[d].effectAt = clock
    <3>1. PICK c \in Contexts : receipt[d].bound[c] # 0
      BY <1>0, <1>1 DEF Held, Aimed
    <3>2. lease[c].run = d /\ clock <= lease[c].expiresAt
      BY <1>0, <2>2, <3>1 DEF Publishable, IsLive, Row
    <3>3. lease[c].expiresAt <= lease[c].endHorizonAt
          /\ lease[c].endHorizonAt = receipt[d].effectDeadline
      BY <1>0, <1>1, <3>2 DEF Held, Owns, RowSound
    <3>4. clock <= receipt[d].effectDeadline
      BY <1>0, <3>2, <3>3 DEF Row, Receipt
    <3>. QED
      BY <1>1, <2>2, <3>4 DEF InTime
  <2>3. receipt'[d].effect # "committed" => InTime(d)'
    BY DEF InTime
  <2>. QED
    BY <2>1, <2>2, <2>3 DEF Moves
<1>6. Swept(d)'
  BY <1>0, <1>1 DEF OneClaim, Claimed, Swept
<1>. QED
  BY <1>3, <1>4, <1>5, <1>6 DEF Held


\* A request has no lease before it has posted.
LEMMA HeldPost ==
    ASSUME HeldInv, NEW d \in Dispatches, Post(d)
    PROVE  Held(d)'
<1>0. /\ TypeOK /\ Held(d) /\ OneClaim(d) /\ nextGen \in Nat \ {0}
  BY DEF HeldInv, ClaimInv, TypeOK
<1>1. /\ request[d].pc = "idle" /\ receipt[d].exec = "none"
      /\ UNCHANGED <<lease, receipt, nextGen, clock, crashes>>
      /\ request'[d].pc = "acquire" /\ request'[d].admitted = Nothing
      /\ request'[d].targets # {}
  <2>1. PICK b \in Budgets, T \in (SUBSET Contexts) \ {{}} :
          request' = [request EXCEPT ![d] =
                [NoRequest EXCEPT !.pc = "acquire", !.now = clock,
                                  !.horizon = clock + b, !.targets = T]]
    BY DEF Post
  <2>2. request'[d] = [NoRequest EXCEPT !.pc = "acquire", !.now = clock,
                                  !.horizon = clock + b, !.targets = T]
    BY <1>0, <2>1 DEF TypeOK
  <2>3. request'[d].pc = "acquire" /\ request'[d].admitted = Nothing /\ request'[d].targets = T
    BY <2>2 DEF NoRequest
  <2>4. T # {}
    OBVIOUS
  <2>. QED
    BY <1>0, <2>3, <2>4 DEF Post, OneClaim, Claimed, database, world
<1>2. \A c \in Contexts : request'[d].admitted[c] = 0 /\ lease[c].run # d
  BY <1>0, <1>1 DEF Nothing, Held, Owns
<1>. QED
  BY <1>0, <1>1, <1>2 DEF Held, Numbered, Aimed, Owns, Binds, InTime, Swept

\* A target is taken for the window of the request; its generation is admitted
\* at once, or read back in the next step.
LEMMA HeldAcquire ==
    ASSUME HeldInv, NEW d \in Dispatches, AcquireTarget(d), crashes' = crashes
    PROVE  Held(d)'
<1>. DEFINE c == NextTarget(d)
<1>0. /\ TypeOK /\ Held(d) /\ OneClaim(d) /\ nextGen \in Nat \ {0}
      /\ request[d] \in Request /\ lease \in [Contexts -> Row]
  BY Parts DEF HeldInv, ClaimInv, TypeOK
<1>1. /\ c \in Contexts /\ c \in Awaiting(d) /\ request[d].pc = "acquire"
      /\ \A e \in Contexts \ {c} : lease'[e] = lease[e]
      /\ \/ Given(c, d)
         \/ request'[d] = [request[d] EXCEPT !.pc = "cleanup"] /\ UNCHANGED <<lease, nextGen>>
      /\ UNCHANGED <<receipt, clock>>
  BY <1>0, AcquireWrites
<1>. HIDE DEF c
<1>2. receipt[d].exec = "none" /\ receipt[d].effect = "pending"
      /\ \A e \in Contexts : receipt[d].bound[e] = 0
  BY <1>0, <1>1, BlankParts DEF OneClaim, Untouched, Claimed, Nothing
<1>3. Binds(d)' /\ InTime(d)'
  BY <1>1, <1>2 DEF Binds, InTime
<1>4. CASE Given(c, d)
  <2>1. \/ /\ request'[d].pc = "acquire"
           /\ request'[d].admitted = [request[d].admitted EXCEPT ![c] = nextGen]
        \/ request'[d].pc = "readback" /\ request'[d].admitted = request[d].admitted
    BY <1>0, <1>1, <1>4 DEF Given, Request
  <2>2. request'[d].targets = request[d].targets /\ request'[d].horizon = request[d].horizon
        /\ request[d].admitted \in [Contexts -> Nat]
    BY <1>0, <1>4 DEF Given, Request
  <2>3. /\ lease'[c].gen = nextGen /\ nextGen' = nextGen + 1
        /\ lease'[c].run = d /\ lease'[c].user = Initiator
        /\ lease'[c].endHorizonAt = request'[d].horizon
    BY <1>4, <2>2 DEF Given
  <2>4. Numbered(d)'
    BY <1>0, <1>1, <1>2, <2>1, <2>2, <2>3 DEF Held, Numbered
  <2>5. Aimed(d)'
    BY <1>0, <1>1, <1>2, <2>1, <2>2 DEF Held, Aimed, Awaiting
  <2>6. Owns(d)'
    BY <1>0, <1>1, <1>2, <2>1, <2>2, <2>3 DEF Held, Owns
  <2>7. Swept(d)'
    <3>1. request'[d].pc = "readback" => NextTarget(d)' = c
      BY <2>1, <2>2, SameTarget DEF c
    <3>. QED
      BY <1>0, <1>1, <1>2, <2>1, <2>2, <2>3, <3>1 DEF Held, Swept
  <2>. QED
    BY <1>3, <2>4, <2>5, <2>6, <2>7 DEF Held
<1>5. CASE request'[d] = [request[d] EXCEPT !.pc = "cleanup"] /\ UNCHANGED <<lease, nextGen>>
  <2>1. /\ request'[d].pc = "cleanup" /\ request'[d].admitted = request[d].admitted
        /\ request'[d].targets = request[d].targets /\ request'[d].horizon = request[d].horizon
    BY <1>0, <1>5 DEF Request
  <2>2. Numbered(d)' /\ Aimed(d)' /\ Owns(d)' /\ Swept(d)'
    BY <1>0, <1>1, <1>2, <1>5, <2>1 DEF Held, Numbered, Aimed, Owns, Swept
  <2>. QED
    BY <1>3, <2>2 DEF Held
<1>. QED
  BY <1>1, <1>4, <1>5

\* The generation that is read back may be of a run that took the Context in
\* between; then the lease is not the dispatch's own.
LEMMA HeldReadBack ==
    ASSUME HeldInv, NEW d \in Dispatches, ReadBack(d)
    PROVE  Held(d)'
<1>. DEFINE c == NextTarget(d)
<1>0. /\ TypeOK /\ Held(d) /\ OneClaim(d) /\ request[d] \in Request /\ nextGen \in Nat \ {0}
      /\ lease \in [Contexts -> Row] /\ \A e \in Contexts : RowSound(e)
  BY Parts DEF HeldInv, ClaimInv, TypeOK
<1>1. request[d].pc = "readback" /\ Awaiting(d) # {}
  BY DEF ReadBack
<1>2. c \in Contexts /\ c \in Awaiting(d)
  BY <1>0, <1>1, NextTargetAwaits
<1>3. /\ request'[d].targets = request[d].targets
      /\ request'[d].horizon = request[d].horizon
      /\ UNCHANGED <<lease, receipt, nextGen, clock, crashes>>
      /\ \/ /\ request'[d].pc = "acquire"
            /\ request'[d].admitted = [request[d].admitted EXCEPT ![c] = lease[c].gen]
         \/ /\ DbFaults /\ request'[d].pc = "cleanup"
            /\ request'[d].admitted = request[d].admitted /\ c \in request'[d].missed
  BY <1>0, ReadBackWrites DEF database, world
<1>. HIDE DEF c
<1>4. receipt[d].exec = "none" /\ receipt[d].effect = "pending"
      /\ \A e \in Contexts : receipt[d].bound[e] = 0
  BY <1>0, <1>1, BlankParts DEF OneClaim, Untouched, Claimed, Nothing
<1>5. request[d].admitted \in [Contexts -> Nat]
  BY <1>0 DEF Request
<1>6. Numbered(d)'
  BY <1>0, <1>2, <1>3, <1>4, <1>5 DEF Held, Numbered, RowSound
<1>7. Aimed(d)'
  BY <1>0, <1>1, <1>2, <1>3, <1>4, <1>5 DEF Held, Aimed, Awaiting
<1>8. Owns(d)' /\ Binds(d)' /\ InTime(d)'
  BY <1>0, <1>1, <1>3, <1>4 DEF Held, Owns, Binds, InTime
<1>9. Swept(d)'
  BY <1>0, <1>1, <1>2, <1>3, <1>4, <1>5 DEF Held, Swept, Gone, c
<1>. QED
  BY <1>6, <1>7, <1>8, <1>9 DEF Held

\* A dispatch is bound to the leases it still owns when it is accepted.
LEMMA HeldAccept ==
    ASSUME HeldInv, NEW d \in Dispatches, Accept(d)
    PROVE  Held(d)'
<1>0. /\ TypeOK /\ Held(d) /\ OneClaim(d) /\ request[d] \in Request /\ nextGen \in Nat \ {0}
  BY Parts DEF HeldInv, ClaimInv, TypeOK
<1>1. /\ request[d].pc = "acquire" /\ Awaiting(d) = {} /\ StillAdmitted(d)
      /\ receipt'[d].exec = "queued" /\ receipt'[d].effect = "pending"
      /\ receipt'[d].effectDeadline = request[d].horizon
      /\ receipt'[d].bound = request[d].admitted
      /\ UNCHANGED <<lease, nextGen, clock, crashes>>
      /\ request'[d].pc = "done" /\ request'[d].admitted = Nothing
  BY <1>0, BlankParts DEF Accept, TypeOK, world
<1>2. \A c \in Contexts : request'[d].admitted[c] = 0
  BY <1>1 DEF Nothing
<1>3. \A c \in request[d].targets : request[d].admitted[c] # 0 /\ c \in Contexts
  BY <1>0, <1>1 DEF Awaiting, Request
<1>4. Numbered(d)'
  BY <1>0, <1>1, <1>2 DEF Held, Numbered
<1>5. Aimed(d)'
  BY <1>0, <1>1, <1>2, <1>3 DEF Held, Aimed
<1>6. Owns(d)'
  BY <1>0, <1>1 DEF Held, Owns
<1>7. Binds(d)' /\ InTime(d)' /\ Swept(d)'
  BY <1>0, <1>1 DEF Held, Aimed, StillAdmitted, Settled, Binds, InTime, Swept
<1>. QED
  BY <1>4, <1>5, <1>6, <1>7 DEF Held

\* A clean-up answers when every lease it took is released, or its release failed.
LEMMA HeldCleanup ==
    ASSUME HeldInv, NEW d \in Dispatches, Cleanup(d)
    PROVE  Held(d)'
<1>0. /\ TypeOK /\ Held(d) /\ OneClaim(d) /\ request[d] \in Request /\ nextGen \in Nat \ {0}
      /\ lease \in [Contexts -> Row] /\ \A c \in Contexts : RowSound(c)
      /\ None \notin Dispatches
  BY Parts, NoneAssumption, DispatchAssumption DEF HeldInv, ClaimInv, TypeOK
<1>1. request[d].pc = "cleanup" /\ UNCHANGED <<receipt, nextGen, clock, crashes>>
  BY <1>0, CleanupWrites DEF world
<1>2. receipt[d].exec = "none" /\ receipt[d].effect = "pending"
      /\ \A c \in Contexts : receipt[d].bound[c] = 0
  BY <1>0, <1>1, BlankParts DEF OneClaim, Untouched, Claimed, Nothing
<1>3. CASE \E c \in Contexts : request'[d].pc = "cleanup" /\ Undo(d, c)
  <2>1. PICK c \in Contexts : request'[d].pc = "cleanup" /\ Undo(d, c)
    BY <1>3
  <2>2. /\ request'[d].targets = request[d].targets /\ request'[d].horizon = request[d].horizon
        /\ request'[d].admitted = [request[d].admitted EXCEPT ![c] = 0]
        /\ request[d].admitted \in [Contexts -> Nat]
        /\ request[d].missed \subseteq request'[d].missed
        /\ \/ lease' = [lease EXCEPT ![c] = Undone(d, c)]
           \/ lease' = lease /\ DbFaults /\ c \in request'[d].missed
    BY <1>0, <2>1, UndoWrites DEF Request
  <2>3. \A e \in Contexts :
          /\ lease'[e].run = lease[e].run /\ lease'[e].user = lease[e].user
          /\ lease'[e].gen = lease[e].gen /\ lease'[e].endHorizonAt = lease[e].endHorizonAt
          /\ lease'[e].expiresAt = lease[e].expiresAt
          /\ lease[e].released => lease'[e].released
    BY <1>0, <2>2, UndoneRow
  <2>4. Numbered(d)'
    BY <1>0, <1>1, <1>2, <2>2 DEF Held, Numbered
  <2>5. Aimed(d)'
    BY <1>0, <1>1, <1>2, <2>1, <2>2 DEF Held, Aimed
  <2>6. Owns(d)' /\ Binds(d)' /\ InTime(d)'
    BY <1>0, <1>1, <1>2, <2>1, <2>2, <2>3 DEF Held, Owns, Binds, InTime
  <2>7. ASSUME crashes = 0, NEW e \in Contexts, lease[e].run = d
        PROVE  request'[d].admitted[e] = lease'[e].gen \/ Gone(d, e)'
    <3>1. request[d].admitted[e] = lease[e].gen \/ Gone(d, e)
      BY <1>0, <1>1, <2>7 DEF Held, Swept
    <3>2. Gone(d, e) => Gone(d, e)'
      BY <1>1, <2>2, <2>3 DEF Gone, IsLive
    <3>3. CASE e # c
      BY <2>2, <2>3, <3>1, <3>2, <3>3
    <3>4. CASE e = c /\ lease' = [lease EXCEPT ![c] = Undone(d, c)]
      <4>1. lease[c].user = Initiator
        BY <1>0, <2>7, <3>4 DEF Held, Owns
      <4>2. request[d].admitted[e] = lease[e].gen => lease'[e].released
        BY <1>0, <2>7, <3>4, <4>1, UndoneRow
      <4>. QED
        BY <3>1, <3>2, <4>2 DEF Gone, IsLive
    <3>5. CASE e = c /\ DbFaults /\ c \in request'[d].missed
      BY <3>5 DEF Gone
    <3>. QED
      BY <2>2, <3>3, <3>4, <3>5
  <2>8. Swept(d)'
    BY <1>1, <2>1, <2>3, <2>7 DEF Swept
  <2>. QED
    BY <2>4, <2>5, <2>6, <2>8 DEF Held
<1>4. CASE /\ request[d].admitted = Nothing /\ lease' = lease
           /\ request'[d].pc = "done" /\ request'[d].admitted = Nothing
           /\ request'[d].horizon = request[d].horizon
           /\ request'[d].missed = request[d].missed
  <2>1. \A c \in Contexts : request'[d].admitted[c] = 0 /\ request[d].admitted[c] = 0
    BY <1>4 DEF Nothing
  <2>2. Numbered(d)' /\ Aimed(d)' /\ Owns(d)' /\ Binds(d)' /\ InTime(d)'
    BY <1>0, <1>1, <1>2, <1>4, <2>1 DEF Held, Numbered, Aimed, Owns, Binds, InTime
  <2>3. ASSUME crashes = 0, NEW c \in Contexts, lease[c].run = d
        PROVE  Gone(d, c) /\ lease[c].endHorizonAt = request[d].horizon
    BY <1>0, <1>1, <2>1, <2>3 DEF Held, Swept, Owns, RowSound
  <2>4. Swept(d)'
    BY <1>1, <1>4, <2>3 DEF Swept, Gone
  <2>. QED
    BY <2>2, <2>4 DEF Held
<1>. QED
  BY <1>0, <1>3, <1>4, CleanupWrites

\* So does one whose request is turned down; the cleaning up comes next.
LEMMA HeldReject ==
    ASSUME HeldInv, NEW d \in Dispatches, Reject(d)
    PROVE  Held(d)'
<1>0. TypeOK /\ Held(d) /\ OneClaim(d) /\ request[d] \in Request
  BY Parts DEF HeldInv, ClaimInv
<1>1. /\ request[d].pc = "acquire" /\ request'[d].pc = "cleanup"
      /\ request'[d].admitted = request[d].admitted
      /\ request'[d].targets = request[d].targets /\ request'[d].horizon = request[d].horizon
      /\ UNCHANGED <<lease, receipt, nextGen, clock, crashes>>
  BY <1>0 DEF Reject, TypeOK, Request, database, world
<1>. QED
  BY <1>0, <1>1 DEF Held, Numbered, Aimed, Owns, Binds, InTime, Swept

\* Nothing that happens makes a dispatch lose track of its leases.
LEMMA HeldInvStep == HeldInv /\ [Next]_vars => HeldInv'
<1> SUFFICES ASSUME HeldInv, [Next]_vars
             PROVE  HeldInv'
  OBVIOUS
<1>1. ClaimInv' /\ TypeOK'
  BY ClaimInvStep DEF HeldInv, ClaimInv
<1>2. ASSUME NEW d \in Dispatches
      PROVE  Held(d)'
  <2>1. AcquireTarget(d) => crashes' = crashes
    BY DEF AcquireTarget
  <2>. QED
    BY <1>1, <2>1, NextKinds, HeldForeign, HeldCrash, HeldMoves, HeldPost, HeldAcquire,
       HeldReadBack, HeldAccept, HeldReject, HeldCleanup DEF HeldInv
<1>. QED
  BY <1>1, <1>2, RowSoundStep DEF HeldInv

\* At first nothing is leased and nothing is asked for.
LEMMA HeldInvInit == Init => HeldInv
<1> SUFFICES ASSUME Init
             PROVE  HeldInv
  OBVIOUS
<1>1. ASSUME NEW c \in Contexts
      PROVE  RowSound(c)
  BY DEF Init, RowSound, NoRow
<1>2. ASSUME NEW d \in Dispatches
      PROVE  Held(d)
  <2>1. /\ request[d] = NoRequest /\ receipt[d] = NoReceipt /\ nextGen = 1
        /\ \A c \in Contexts : lease[c].run = None /\ lease[c].gen = 0
        /\ None \notin Dispatches
    BY NoneAssumption, DispatchAssumption DEF Init, NoRow
  <2>. QED
    BY <2>1, BlankParts
    DEF Held, Numbered, Aimed, Owns, Binds, InTime, Swept, Nothing
<1>. QED
  BY <1>1, <1>2, ClaimInvInit DEF HeldInv

\* An effect is committed only within the window the human approved, for any
\* number of dispatches, Contexts, renewals, transfers and crashes: the commit
\* looks only at the leases, and no lease outlives the window it was taken for
\* (dispatchReceipt.ts, commitDispatchBoardEffect).
THEOREM CommitsInTime == Spec => []CommittedInTime
<1>1. HeldInv => CommittedInTime
  BY DEF HeldInv, Held, InTime, CommittedInTime
<1>. QED
  BY <1>1, HeldInvInit, HeldInvStep, PTL DEF Spec

\* No lease stays behind of a dispatch that is settled, whether or not the server crashes
\* and reconciliations and the restart scan fail on the way (dispatchReceipt.ts:502).  As
\* long as the server has not crashed, an admission turned down half way through its
\* Contexts, or at their end, holds none of them once it has answered, whichever of its
\* statements fail, but the one whose own read back failed and those whose own release
\* failed, and these end with the window the human approved
\* (drawingOrchestratorThreadRoutes.ts:379-392, contextLease.ts:261).
THEOREM LeavesNothing == Spec => []LeasesGivenBack
<1>1. HeldInv => SettledHoldsNothing
  BY DEF HeldInv, Held, Binds, Settled, SettledHoldsNothing
<1>2. HeldInv => RejectedLeavesNothing
  BY DEF HeldInv, Held, Swept, Gone, RowSound, RejectedLeavesNothing
<1>3. HeldInv => LeasesGivenBack
  BY <1>1, <1>2 DEF LeasesGivenBack
<1>. QED
  BY <1>3, HeldInvInit, HeldInvStep, PTL DEF Spec

\* A lease is released by its user or by a step of the run that holds it: a
\* dispatch that held the Context before cannot release the lease of its
\* successor, however late its failure, timer or answer comes.
THEOREM ReleasesOwn == Spec => ReleasesOwnOnly
<1>. DEFINE Own(c) ==
        ~lease[c].released /\ lease'[c].released
              => \/ ReleaseByUser(c)
                 \/ /\ lease[c].run \in Dispatches
                    /\ \/ receipt'[lease[c].run] # receipt[lease[c].run]
                       \/ request'[lease[c].run] # request[lease[c].run]
<1>1. ASSUME HeldInv, NEW c \in Contexts, NEW d \in Dispatches, StepOf(d)
      PROVE  Own(c)
  <2>0. /\ ClaimInv /\ TypeOK /\ Held(d) /\ lease \in [Contexts -> Row]
        /\ request[d] \in Request
    BY <1>1, Parts DEF HeldInv, ClaimInv, TypeOK
  <2>1. CASE AcquireTarget(d)
    BY <2>0, <2>1, AcquireWrites DEF Given
  <2>2. CASE Cleanup(d)
    <3>1. request'[d] # request[d]
      BY <2>0, <2>2, CleanupWrites
    <3>2. ~lease[c].released /\ lease'[c].released => lease[c].run = d
      <4>1. ASSUME NEW e \in Contexts, Undo(d, e), ~lease[c].released, lease'[c].released
            PROVE  lease[c].run = d
        <5>1. lease'[c] = lease[c] \/ lease'[c] = Undone(d, c)
          BY <2>0, <4>1, UndoRows
        <5>. QED
          BY <2>0, <4>1, <5>1, UndoneRow
      <4>. QED
        BY <2>0, <2>2, <4>1, CleanupWrites
    <3>. QED
      BY <3>1, <3>2
  <2>3. CASE Moves(d)
    <3>1. CASE lease' = ReleaseBound(receipt[d]) /\ receipt'[d] # receipt[d]
      <4>1. ~lease[c].released /\ lease'[c].released
               => receipt[d].bound[c] # 0 /\ lease[c].gen = receipt[d].bound[c]
        BY <2>0, <3>1, ReleaseBoundRows
      <4>. QED
        BY <2>0, <3>1, <4>1 DEF Held, Binds
    <3>2. CASE lease' = lease
      BY <3>2
    <3>. QED
      BY <2>3, <3>1, <3>2 DEF Moves
  <2>4. CASE lease' = lease
    BY <2>4
  <2>. QED
    BY <1>1, <2>0, <2>1, <2>2, <2>3, <2>4, OwnKinds
    DEF Post, ReadBack, Accept, Reject, database
<1>2. ASSUME TypeOK, LeaseStep, NEW c \in Contexts
      PROVE  Own(c)
  <2>0. lease \in [Contexts -> Row]
    BY <1>2 DEF TypeOK
  <2>1. ASSUME NEW e \in Contexts, OtherAcquires(e)
        PROVE  Own(c)
    BY <2>0, <2>1 DEF OtherAcquires, Grant
  <2>2. ASSUME NEW e \in Contexts, Transfer(e) \/ Renew(e)
        PROVE  lease'[c].released = lease[c].released
    BY <2>0, <2>2 DEF Transfer, Renew, Row
  <2>3. ASSUME NEW e \in Contexts, ReleaseByUser(e)
        PROVE  Own(c)
    BY <2>0, <2>3 DEF ReleaseByUser
  <2>4. CASE AccessLost \/ Tick \/ UNCHANGED vars
    BY <2>4 DEF AccessLost, Tick, vars, database
  <2>. QED
    BY <1>2, <2>1, <2>2, <2>3, <2>4 DEF LeaseStep
<1>3. HeldInv /\ [Next]_vars => \A c \in Contexts : Own(c)
  <2> SUFFICES ASSUME HeldInv, [Next]_vars, NEW c \in Contexts
               PROVE  Own(c)
    OBVIOUS
  <2>1. Crash \/ Restart \/ RestartScanFails => lease' = lease
    BY DEF Crash, Restart, RestartScanFails, database
  <2>2. lease' = lease => Own(c)
    OBVIOUS
  <2>. QED
    BY <1>1, <1>2, <2>1, <2>2, StepKinds DEF HeldInv, ClaimInv
<1>. QED
  BY <1>3, HeldInvInit, HeldInvStep, PTL DEF Spec, ReleasesOwnOnly


-----------------------------------------------------------------------------
(* Timers.                                                                   *)

\* The deadlines of an accepted receipt are set, and its start is due within
\* StartDeadline of the moment its worker claimed it.
Dated(d) ==
    /\ request[d].pc \notin {"idle", "done"} => request[d].horizon # 0 /\ request[d].now <= clock
    /\ receipt[d].exec # "none" =>
          /\ receipt[d].startDeadline # 0 /\ receipt[d].livenessDeadline # 0
          /\ receipt[d].effectDeadline # 0
          /\ receipt[d].startDeadline <= clock + StartDeadline
    /\ worker[d].pc \in {"check", "start", "await", "fail", "ack"} =>
          receipt[d].startDeadline <= worker[d].now + StartDeadline
    /\ worker[d].pc = "observe" => receipt[d].exec # "queued"

\* The timer of a running server is set for every deadline, or earlier.
Covered(d) == up => \A t \in Deadlines(receipt[d]) : timer[d] # 0 /\ timer[d] <= t

TimerInv == ClaimInv /\ \A d \in Dispatches : Dated(d) /\ Covered(d)

\* A timer that is set anew is set for every deadline.
LEMMA ScheduledCovers ==
    ASSUME NEW d, NEW r \in Receipt, timer[d] \in Nat,
           r.startDeadline # 0, r.livenessDeadline # 0, r.effectDeadline # 0
    PROVE  \A t \in Deadlines(r) : Scheduled(d, r) # 0 /\ Scheduled(d, r) <= t
<1>1. \A t \in Deadlines(r) : t # 0
  BY DEF Deadlines
<1>2. \A t \in Deadlines(r) : Deadlines(r) # {}
  OBVIOUS
<1>. QED
  BY <1>1, <1>2, ScheduledEarliest

\* Deadlines are computed from the clock the worker read when it claimed.
LEMMA DatedOwn ==
    ASSUME ClaimInv, NEW d \in Dispatches, Dated(d), StepOf(d), StartDeadline <= LivenessWindow
    PROVE  Dated(d)'
<1>. USE BlankParts DEF Dated, database, process, world, Outside, Step
<1>0. /\ receipt[d] \in Receipt /\ request[d] \in Request /\ worker[d] \in Worker
      /\ TypeOK /\ OneClaim(d) /\ clock \in Nat
      /\ StartDeadline \in Nat \ {0} /\ LivenessWindow \in Nat
  BY Parts, DispatchAssumption DEF ClaimInv, TypeOK
<1>1. CASE Admission(d)
  <2>1. CASE Post(d)
    <3>1. PICK b \in Budgets, T \in (SUBSET Contexts) \ {{}} :
            request' = [request EXCEPT ![d] =
                  [NoRequest EXCEPT !.pc = "acquire", !.now = clock,
                                    !.horizon = clock + b, !.targets = T]]
      BY <2>1 DEF Post
    <3>2. request'[d].now = clock /\ request'[d].horizon = clock + b
      BY <1>0, <3>1 DEF TypeOK, NoRequest
    <3>3. b \in Nat \ {0}
      BY DispatchAssumption
    <3>. QED
      BY <1>0, <2>1, <3>2, <3>3 DEF Post
  <2>2. CASE AcquireTarget(d)
    <3>1. /\ request'[d].horizon = request[d].horizon /\ request'[d].now = request[d].now
          /\ request[d].pc = "acquire"
      <4>1. \/ request'[d] = [request[d] EXCEPT !.admitted[NextTarget(d)] = nextGen]
            \/ request'[d] = [request[d] EXCEPT !.pc = "readback"]
            \/ request'[d] = [request[d] EXCEPT !.pc = "cleanup"]
        BY <1>0, <2>2, AcquireWrites DEF Given
      <4>2. request[d].pc = "acquire"
        BY <1>0, <2>2, AcquireWrites
      <4>. QED
        BY <1>0, <4>1, <4>2 DEF Request
    <3>. QED
      BY <1>0, <2>2, <3>1 DEF AcquireTarget
  <2>3. CASE ReadBack(d)
    BY <1>0, <2>3, ReadBackWrites DEF Request
  <2>4. CASE Accept(d)
    <3>1. /\ receipt'[d].startDeadline = request[d].now + StartDeadline
          /\ receipt'[d].livenessDeadline = request[d].now + StartDeadline + LivenessWindow
          /\ receipt'[d].effectDeadline = request[d].horizon
          /\ request'[d].pc = "done" /\ worker'[d].pc = "claim"
          /\ request[d].pc = "acquire" /\ clock' = clock
      BY <1>0, <2>4 DEF Accept, TypeOK, Worker
    <3>. QED
      BY <1>0, <3>1 DEF Request
  <2>5. CASE Reject(d)
    BY <1>0, <2>5 DEF Reject, TypeOK, Request
  <2>6. CASE Cleanup(d)
    BY <1>0, <2>6, CleanupWrites
  <2>. QED
    BY <1>1, <2>1, <2>2, <2>3, <2>4, <2>5, <2>6 DEF Admission
<1>2. CASE Working(d)
  <2>1. CASE Claim(d)
    <3>1. CASE Claimable(d)
      <4>1. worker'[d].pc = "check" /\ worker'[d].now = clock
        <5>1. worker'[d] = [NoWorker EXCEPT !.pc = "check", !.now = clock]
          BY <1>0, <2>1, <3>1 DEF Claim, TypeOK
        <5>. QED
          BY <5>1 DEF NoWorker
      <4>2. receipt[d].exec # "none"
        BY <1>0, <3>1 DEF Claimable, OneClaim, Untouched
      <4>. QED
        BY <1>0, <2>1, <4>1, <4>2 DEF Claim
    <3>2. CASE ~Claimable(d)
      BY <1>0, <2>1, <3>2 DEF Claim, TypeOK
    <3>. QED
      BY <3>1, <3>2
  <2>2. CASE Check(d)
    BY <1>0, <2>2 DEF Check, TypeOK, Worker
  <2>3. CASE Start(d)
    BY <1>0, <2>3 DEF Start, TypeOK, Worker
  <2>4. CASE Reply(d)
    BY <1>0, <2>4, ReplyWrites DEF Reply
  <2>5. CASE Fail(d)
    BY <1>0, <2>5 DEF Fail, TypeOK, Receipt, OneClaim, Untouched
  <2>6. CASE Acknowledge(d)
    <3>1. CASE worker'[d] = NoWorker /\ UNCHANGED <<database, timer>>
      BY <1>0, <2>6, <3>1, AcknowledgeWrites
    <3>2. CASE receipt[d].exec = "queued" /\ ~(worker'[d] = NoWorker /\ UNCHANGED <<database, timer>>)
      <4>1. /\ receipt'[d].startDeadline = receipt[d].startDeadline
            /\ receipt'[d].effectDeadline = receipt[d].effectDeadline
            /\ receipt'[d].livenessDeadline = worker[d].now + LivenessWindow
            /\ receipt'[d].exec # "queued"
            /\ worker'[d].pc \in {"observe", "idle"}
            /\ UNCHANGED <<request, clock>>
        <5>1. [worker[d] EXCEPT !.pc = "observe"].pc = "observe"
          BY <1>0 DEF Worker
        <5>. QED
          BY <1>0, <2>6, <3>2, <5>1, AcknowledgeWrites
      <4>. QED
        BY <1>0, <3>2, <4>1 DEF Worker
    <3>. QED
      BY <1>0, <2>6, <3>1, <3>2, AcknowledgeWrites
  <2>7. CASE FirstObserve(d)
    <3>1. /\ worker'[d].pc = "stream" /\ UNCHANGED <<request, clock>>
          /\ worker[d].status \in Status /\ worker[d].now \in Nat
      BY <1>0, <2>7 DEF FirstObserve, TypeOK, Worker
    <3>2. CASE Observe(d, worker[d].status, worker[d].now)
      <4>1. /\ receipt'[d].startDeadline = receipt[d].startDeadline
            /\ receipt'[d].effectDeadline = receipt[d].effectDeadline
            /\ receipt'[d].livenessDeadline = worker[d].now + LivenessWindow
            /\ receipt[d].exec \in Live
        BY <1>0, <3>1, <3>2, ObserveWrites
      <4>. QED
        BY <1>0, <3>1, <4>1 DEF Live
    <3>3. CASE UNCHANGED database
      BY <3>1, <3>3
    <3>. QED
      BY <2>7, <3>2, <3>3 DEF FirstObserve
  <2>8. CASE WorkerThrows(d)
    BY <1>0, <2>8 DEF WorkerThrows, TypeOK
  <2>. QED
    BY <1>2, <2>1, <2>2, <2>3, <2>4, <2>5, <2>6, <2>7, <2>8 DEF Working
<1>3. CASE Observing(d)
  <2>1. CASE EventArrives(d)
    BY <1>0, <2>1 DEF EventArrives
  <2>2. ASSUME NEW s \in Status, ApplyEvent(d, s)
        PROVE  Dated(d)'
    <3>1. worker' = worker /\ request' = request /\ clock' = clock
      BY <2>2 DEF ApplyEvent
    <3>2. CASE Observe(d, s, clock)
      <4>1. /\ receipt'[d].startDeadline = receipt[d].startDeadline
            /\ receipt'[d].effectDeadline = receipt[d].effectDeadline
            /\ receipt'[d].livenessDeadline = clock + LivenessWindow
            /\ receipt[d].exec \in Live
            /\ receipt'[d].exec \in {"running", "blocked", "succeeded", "outcome_unknown"}
        BY <1>0, <3>2, ObserveWrites
      <4>. QED
        BY <1>0, <3>1, <4>1 DEF Live
    <3>3. CASE UNCHANGED <<database, timer>>
      BY <3>1, <3>3
    <3>. QED
      BY <2>2, <3>2, <3>3 DEF ApplyEvent
  <2>3. CASE StreamCloses(d)
    BY <1>0, <2>3 DEF StreamCloses, TypeOK
  <2>. QED
    BY <1>3, <2>1, <2>2, <2>3 DEF Observing
<1>4. CASE Runtime(d)
  BY <1>0, <1>4 DEF Runtime, Deliver, Refuse, Lose, Answer, HerdrTimesOut, AgentStarts,
                    AgentMoves, TypeOK, Worker
<1>5. CASE Reconcile(d)
  <2>1. /\ receipt'[d] = Reconciled(receipt[d], clock)
        /\ receipt[d].exec # "none" /\ UNCHANGED <<request, worker, clock>>
    BY <1>0, <1>5 DEF Reconcile, TypeOK, OneClaim, Untouched
  <2>2. /\ receipt'[d].startDeadline = receipt[d].startDeadline
        /\ receipt'[d].effectDeadline = receipt[d].effectDeadline
        /\ receipt'[d].livenessDeadline = receipt[d].livenessDeadline
        /\ receipt'[d].exec \in {receipt[d].exec, "outcome_unknown"}
    BY <1>0, <2>1 DEF Reconciled, Receipt
  <2>. QED
    BY <2>1, <2>2
<1>6. CASE ReconcileFails(d)
  BY <1>6 DEF ReconcileFails
<1>7. CASE Commit(d)
  BY <1>0, <1>7 DEF Commit, TypeOK, Receipt
<1>. QED
  BY <1>1, <1>2, <1>3, <1>4, <1>5, <1>6, <1>7 DEF StepOf


\* Whatever moves a deadline sets the timer, or moves the deadline back.
LEMMA CoveredOwn ==
    ASSUME ClaimInv, TypeOK', NEW d \in Dispatches, Dated(d), Dated(d)', Covered(d), StepOf(d),
           StartDeadline <= LivenessWindow, DbFaults = FALSE
    PROVE  Covered(d)'
<1>. USE DEF database, process, world, Outside, Step
<1>0. /\ receipt[d] \in Receipt /\ receipt'[d] \in Receipt /\ worker[d] \in Worker
      /\ TypeOK /\ OneClaim(d) /\ clock \in Nat /\ timer[d] \in Nat
      /\ StartDeadline \in Nat \ {0} /\ LivenessWindow \in Nat
  BY Parts, DispatchAssumption DEF ClaimInv, TypeOK
<1>1. CASE receipt'[d] = receipt[d] /\ timer'[d] = timer[d] /\ up' = up
  BY <1>1 DEF Covered
<1>2. CASE timer'[d] = Scheduled(d, receipt'[d]) /\ receipt'[d].exec # "none"
  BY <1>0, <1>2, ScheduledCovers DEF Covered, Dated
<1>3. CASE Deadlines(receipt'[d]) = {}
  BY <1>3 DEF Covered
<1>4. CASE Accept(d)
  BY <1>0, <1>2, <1>4 DEF Accept, TypeOK
<1>5. CASE Fail(d)
  <2>1. CASE receipt[d].exec = "queued"
    <3>1. receipt'[d].exec = "failed" /\ receipt'[d].effect = "failed"
      BY <1>0, <1>5, <2>1 DEF Fail, TypeOK, Receipt
    <3>. QED
      BY <1>3, <3>1 DEF Deadlines, Live
  <2>2. CASE receipt[d].exec # "queued"
    BY <1>1, <1>5, <2>2 DEF Fail
  <2>. QED
    BY <2>1, <2>2
<1>6. CASE Acknowledge(d)
  <2>1. CASE receipt'[d].exec = "runtime_acknowledged" /\ timer'[d] = timer[d]
             /\ receipt[d].exec = "queued"
             /\ receipt'[d].effect = receipt[d].effect
             /\ receipt'[d].effectDeadline = receipt[d].effectDeadline
             /\ receipt'[d].livenessDeadline = worker[d].now + LivenessWindow
             /\ worker[d].pc = "ack" /\ up' = up
    <3>1. /\ receipt[d].startDeadline \in Deadlines(receipt[d])
          /\ receipt[d].effect = "pending" => receipt[d].effectDeadline \in Deadlines(receipt[d])
          /\ \A t \in Deadlines(receipt'[d]) :
                \/ t = receipt'[d].livenessDeadline
                \/ receipt[d].effect = "pending" /\ t = receipt[d].effectDeadline
      BY <2>1 DEF Deadlines, Live
    <3>2. receipt[d].startDeadline <= receipt'[d].livenessDeadline
      BY <1>0, <2>1 DEF Dated, Worker, Receipt
    <3>. QED
      BY <1>0, <2>1, <3>1, <3>2 DEF Covered, Receipt
  <2>. QED
    BY <1>0, <1>1, <1>2, <1>6, <2>1, AcknowledgeWrites
<1>7. ASSUME NEW s \in Status, NEW now, Observe(d, s, now)
      PROVE  Covered(d)'
  BY <1>0, <1>2, <1>7, ObserveWrites
<1>8. CASE /\ worker[d].pc = "observe" /\ receipt[d].exec \notin Live /\ UNCHANGED <<database, up>>
           /\ timer'[d] = Scheduled(d, [receipt[d] EXCEPT !.exec = "runtime_acknowledged"])
  <2>. DEFINE r == [receipt[d] EXCEPT !.exec = "runtime_acknowledged"]
  <2>1. r \in Receipt
    BY <1>0 DEF Receipt, Execution, Live
  <2>2. /\ r.exec = "runtime_acknowledged" /\ r.effect = receipt[d].effect
        /\ r.startDeadline = receipt[d].startDeadline
        /\ r.livenessDeadline = receipt[d].livenessDeadline
        /\ r.effectDeadline = receipt[d].effectDeadline
    BY <1>0 DEF Receipt
  <2>3. receipt[d].exec \notin {"none", "queued"}
    BY <1>0, <1>8 DEF Dated, OneClaim, Untouched
  <2>. HIDE DEF r
  <2>4. Deadlines(receipt[d]) \subseteq Deadlines(r)
    BY <1>8, <2>2, <2>3 DEF Deadlines
  <2>5. \A t \in Deadlines(r) : Scheduled(d, r) # 0 /\ Scheduled(d, r) <= t
    BY <1>0, <2>1, <2>2, <2>3, ScheduledCovers DEF Dated
  <2>. QED
    BY <1>8, <2>4, <2>5 DEF Covered, r
<1>9. CASE Reconcile(d)
  <2>1. receipt'[d].exec # "none"
    BY <1>0, <1>9 DEF Reconcile, Reconciled, TypeOK, Receipt, OneClaim, Untouched
  <2>2. receipt'[d] = Reconciled(receipt[d], clock)
    BY <1>0, <1>9 DEF Reconcile, TypeOK
  <2>3. timer'[d] = IF Deadlines(receipt'[d]) = {} THEN 0 ELSE Scheduled(d, receipt'[d])
    BY <1>0, <1>9, <2>2 DEF Reconcile, TypeOK
  <2>. QED
    BY <1>2, <1>3, <2>1, <2>3
<1>10. CASE Commit(d)
  <2>1. receipt'[d].exec = receipt[d].exec /\ receipt'[d].effect = "committed"
        /\ receipt'[d].startDeadline = receipt[d].startDeadline
        /\ receipt'[d].livenessDeadline = receipt[d].livenessDeadline
        /\ timer' = timer /\ up' = up
    BY <1>0, <1>10 DEF Commit, TypeOK, Receipt
  <2>2. Deadlines(receipt'[d]) \subseteq Deadlines(receipt[d])
    BY <2>1 DEF Deadlines
  <2>. QED
    BY <2>1, <2>2 DEF Covered
<1>11. CASE FirstObserve(d)
  <2>1. worker[d].status \in Status
    BY <1>0 DEF Worker
  <2>2. \/ Observe(d, worker[d].status, worker[d].now)
        \/ /\ receipt[d].exec \notin Live
           /\ timer'[d] = Scheduled(d, [receipt[d] EXCEPT !.exec = "runtime_acknowledged"])
           /\ UNCHANGED database
    BY <1>0, <1>11 DEF FirstObserve, TypeOK
  <2>3. worker[d].pc = "observe" /\ up' = up
    BY <1>11 DEF FirstObserve
  <2>. QED
    BY <1>7, <1>8, <2>1, <2>2, <2>3
<1>12. CASE Observing(d)
  <2>1. \/ \E s \in Status : Observe(d, s, clock)
        \/ UNCHANGED <<receipt, timer, up>>
    BY <1>12 DEF Observing, EventArrives, ApplyEvent, StreamCloses
  <2>. QED
    BY <1>1, <1>7, <2>1
<1>13. \/ Accept(d) \/ Fail(d) \/ Acknowledge(d) \/ Reconcile(d) \/ Commit(d) \/ FirstObserve(d)
       \/ Observing(d) \/ UNCHANGED <<receipt, timer, up>>
  BY DEF StepOf, Admission, Working, Runtime, Post, AcquireTarget, ReadBack, Reject,
         Cleanup, Claim, Check, Start, Reply, WorkerThrows, Deliver, Refuse, Lose, Answer,
         HerdrTimesOut, AgentStarts, AgentMoves, ReconcileFails
<1>. QED
  BY <1>1, <1>4, <1>5, <1>6, <1>9, <1>10, <1>11, <1>12, <1>13

\* Crashes clear the timers; a restart rebuilds them before anything else runs.
LEMMA TimerInvStep ==
    ASSUME StartDeadline <= LivenessWindow, DbFaults = FALSE, TimerInv, [Next]_vars
    PROVE  TimerInv'
<1>0. /\ ClaimInv /\ ClaimInv' /\ TypeOK /\ TypeOK' /\ clock' >= clock
      /\ clock \in Nat /\ clock' \in Nat /\ StartDeadline \in Nat
  BY ClaimInvStep, OnlyGrow, DispatchAssumption DEF TimerInv, ClaimInv, TypeOK
<1> SUFFICES ASSUME NEW d \in Dispatches
             PROVE  Dated(d)' /\ Covered(d)'
  BY <1>0 DEF TimerInv
<1>1. /\ Dated(d) /\ Covered(d) /\ OneClaim(d)
      /\ receipt[d] \in Receipt /\ request[d] \in Request
  BY <1>0, Parts DEF TimerInv, ClaimInv
<1>2. ASSUME State(d)' = State(d), up' = up
      PROVE  Dated(d)' /\ Covered(d)'
  BY <1>0, <1>1, <1>2 DEF State, Dated, Covered, Receipt, Request
<1>3. ASSUME NEW e \in Dispatches, StepOf(e)
      PROVE  Dated(d)' /\ Covered(d)'
  <2>1. CASE e = d
    BY <1>0, <1>1, <1>3, <2>1, DatedOwn, CoveredOwn
  <2>2. CASE e # d
    <3>1. State(d)' = State(d)
      BY <1>0, <1>3, <2>2, OthersUntouched
    <3>2. up' = up
      BY <1>3 DEF StepOf, Admission, Working, Observing, Runtime, Post, AcquireTarget, ReadBack,
                  Accept, Reject, Cleanup, Claim, Check, Start, Reply, Fail, Acknowledge,
                  FirstObserve, WorkerThrows, EventArrives, ApplyEvent, StreamCloses, Deliver,
                  Refuse, Lose, Answer, HerdrTimesOut, AgentStarts, AgentMoves, Reconcile,
                  ReconcileFails, Commit, Outside, process
    <3>. QED
      BY <1>2, <3>1, <3>2
  <2>. QED
    BY <2>1, <2>2
<1>4. CASE LeaseStep
  <2>1. up' = up
    BY <1>4 DEF LeaseStep, OtherAcquires, Transfer, Renew, ReleaseByUser, AccessLost, Tick,
                LeaseRoute, vars, process
  <2>. QED
    BY <1>0, <1>2, <1>4, <2>1, OthersUntouched
<1>5. CASE Crash
  <2>1. /\ worker'[d].pc = "idle" /\ ~up' /\ UNCHANGED <<receipt, clock>>
        /\ request'[d].pc \in {"idle", "done"}
    BY <1>0, <1>5, CrashWrites, BlankParts
  <2>. QED
    BY <1>0, <1>1, <2>1 DEF Dated, Covered
<1>6. CASE Restart
  <2>1. UNCHANGED <<receipt, request, clock>> /\ worker'[d].pc \in {"idle", "claim"}
    BY <1>0, <1>6, RestartWrites, BlankParts DEF database, world
  <2>2. Dated(d)'
    BY <1>0, <1>1, <2>1 DEF Dated
  <2>3. CASE Unresolved(receipt[d])
    <3>1. receipt[d].exec # "none" /\ timer'[d] = Scheduled(d, receipt[d])
      BY <1>0, <1>6, <2>3, RestartWrites DEF Unresolved, Live
    <3>2. timer[d] \in Nat
      BY <1>0 DEF TypeOK
    <3>. QED
      BY <1>1, <2>1, <2>2, <3>1, <3>2, ScheduledCovers DEF Dated, Covered
  <2>4. CASE ~Unresolved(receipt[d])
    <3>1. Deadlines(receipt[d]) = {}
      BY <2>4 DEF Unresolved, Deadlines
    <3>. QED
      BY <2>1, <2>2, <3>1 DEF Covered
  <2>. QED
    BY <2>3, <2>4
<1>7. ~RestartScanFails
  BY DEF RestartScanFails
<1>. QED
  BY <1>3, <1>4, <1>5, <1>6, <1>7, StepKinds

\* At first there is no receipt to wait for.
LEMMA TimerInvInit == Init => TimerInv
<1>1. Init => \A d \in Dispatches : Dated(d) /\ Covered(d)
  BY BlankParts DEF Init, Dated, Covered, Deadlines, Live
<1>. QED
  BY <1>1, ClaimInvInit DEF TimerInv

\* A receipt is bound to leases of its own run only, and while no statement of a
\* reconciliation or of the restart scan fails, a running server has a timer for
\* the next deadline of every receipt, or an earlier one; this needs the liveness
\* window to be no shorter than the start window, as it is (60 s and 30 s,
\* dispatchReceipt.ts:5-6; contextLease.ts:261,
\* drawingOrchestratorThreadRoutes.ts:139-160).
THEOREM ReceiptsSound ==
    ASSUME StartDeadline <= LivenessWindow, DbFaults = FALSE
    PROVE  Spec => []ReceiptSound
<1>1. HeldInv => TypeOK /\ BindingsAreOwn
  BY DEF HeldInv, ClaimInv, Held, Binds, BindingsAreOwn
<1>2. TimerInv => TimerCovers
  BY DEF TimerInv, Covered, TimerCovers
<1>3. TimerInv /\ [Next]_vars => TimerInv'
  BY TimerInvStep
<1>. QED
  BY <1>1, <1>2, <1>3, HeldInvInit, HeldInvStep, TimerInvInit, PTL DEF Spec, ReceiptSound

=============================================================================
