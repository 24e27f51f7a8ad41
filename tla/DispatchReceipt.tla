-------------------------- MODULE DispatchReceipt --------------------------
(***************************************************************************)
(* Public dispatches: the durable receipt, its outbox and its Context      *)
(* leases (backend/src/agent/dispatchReceipt.ts), the admission route and  *)
(* the reconciliation timers (drawingOrchestratorThreadRoutes.ts), and the *)
(* worker that makes the one allowed foreign start (dispatchWorker.ts),    *)
(* with crashes and restarts of the server between any two database steps. *)
(*                                                                         *)
(* Each dispatch has a run of its own (a fresh runId), so the dispatch     *)
(* stands for its run.  Other is any other run that uses the lease routes. *)
(* The mount of the run and its secret token are not modelled: only the    *)
(* run it belongs to writes as this run.                                   *)
(***************************************************************************)
EXTENDS LeaseRow, FiniteSets

CONSTANTS Dispatches,       \* dispatches, each the run it starts
          Other,            \* a run of somebody else
          NContexts,        \* Contexts are 1 .. NContexts, in the order of their ids
          Initiator,        \* the human who dispatches
          StartDeadline,    \* DISPATCH_START_DEADLINE_MS
          LivenessWindow,   \* DISPATCH_LIVENESS_WINDOW_MS
          Budgets,          \* maxRuntimeMs values a human may approve
          Reports,          \* what a running agent is reported as
          Adapter,          \* "daemon" or "herdr"
          DbFaults,         \* may a reconciling transaction, the restart scan or a
                            \* statement of an admission fail?
          MaxTime,          \* bound on the clock
          MaxGen,           \* bound on generations
          MaxCrashes        \* bound on server crashes

ASSUME DispatchAssumption ==
    /\ Runs = Dispatches \cup {Other} /\ Other \notin Dispatches
    /\ Initiator \in Users
    /\ NContexts \in Nat \ {0}
    /\ StartDeadline \in Nat \ {0} /\ LivenessWindow \in Nat
    /\ Budgets \subseteq Nat \ {0}
    /\ "working" \in Reports /\ Reports \subseteq {"working", "blocked", "done"}
    /\ Adapter \in {"daemon", "herdr"} /\ DbFaults \in BOOLEAN
    /\ MaxTime \in Nat /\ MaxGen \in Nat /\ MaxCrashes \in Nat

Contexts == 1 .. NContexts

VARIABLES
    \* the database
    lease,       \* [Contexts -> Row]
    receipt,     \* [Dispatches -> Receipt]   AgentDispatchReceipt and its leases
    outbox,      \* [Dispatches -> Outbox]    AgentDispatchOutbox.state
    \* the server process
    up,          \* is it running?
    request,     \* [Dispatches -> Request]   POST .../dispatches in progress
    worker,      \* [Dispatches -> Worker]    processDispatchOutbox in progress
    timer,       \* [Dispatches -> Nat]       receiptTimers; 0 when none is set
    arriving,    \* [Dispatches -> SUBSET Status] events awaiting their access check
    \* the world
    start,       \* [Dispatches -> CommandChannel!States] the start command
    attempts,    \* [Dispatches -> Nat]       foreign starts attempted
    agent,       \* [Dispatches -> AgentState]
    mayEdit,     \* does the initiator still have edit access?
    nextGen, clock, crashes

database == <<lease, receipt, outbox>>
process  == <<up, request, worker, timer, arriving>>
world    == <<start, attempts, agent, mayEdit, nextGen, clock, crashes>>
vars     == <<database, process, world>>

Channel == INSTANCE CommandChannel WITH Commands <- Dispatches, cmd <- start

Status == {"working", "blocked", "done", "unknown"}    \* "idle" is treated as "working"

Live      == {"runtime_acknowledged", "running", "blocked"}
Terminal  == {"succeeded", "failed", "outcome_unknown"}
Execution == {"none", "queued"} \cup Live \cup Terminal
Effect    == {"pending", "committed", "failed"}
Outbox    == {"none", "pending", "sending", "completed", "failed", "outcome_unknown"}

Receipt == [exec : Execution, effect : Effect,
            startDeadline : Nat, livenessDeadline : Nat, effectDeadline : Nat,
            effectAt : Nat,                  \* effectTerminalAt
            bound : [Contexts -> Nat]]       \* generation per target, 0 for no target

Request == [pc : {"idle", "acquire", "readback", "accept", "cleanup", "done"},
            now : Nat, horizon : Nat, targets : SUBSET Contexts,
            admitted : [Contexts -> Nat],    \* admittedLeases, less those undone
            missed : SUBSET Contexts]        \* history: taken, but lost to the clean-up

Worker == [pc : {"idle", "claim", "check", "start", "await", "fail", "ack", "observe", "stream"},
           now : Nat, status : Status]

Nothing == [c \in Contexts |-> 0]

NoReceipt == [exec |-> "none", effect |-> "pending", startDeadline |-> 0,
              livenessDeadline |-> 0, effectDeadline |-> 0, effectAt |-> 0, bound |-> Nothing]
NoRequest == [pc |-> "idle", now |-> 0, horizon |-> 0, targets |-> {}, admitted |-> Nothing,
              missed |-> {}]
NoWorker  == [pc |-> "idle", now |-> 0, status |-> "unknown"]

Init ==
    /\ lease = [c \in Contexts |-> NoRow]
    /\ receipt = [d \in Dispatches |-> NoReceipt]
    /\ outbox = [d \in Dispatches |-> "none"]
    /\ up = TRUE
    /\ request = [d \in Dispatches |-> NoRequest]
    /\ worker = [d \in Dispatches |-> NoWorker]
    /\ timer = [d \in Dispatches |-> 0]
    /\ arriving = [d \in Dispatches |-> {}]
    /\ Channel!Init
    /\ attempts = [d \in Dispatches |-> 0]
    /\ agent = [d \in Dispatches |-> "absent"]
    /\ mayEdit = TRUE
    /\ nextGen = 1 /\ clock = 0 /\ crashes = 0

-----------------------------------------------------------------------------
(* What the transactions write.                                            *)

\* Deadlines a receipt still has to meet, and the timer set for them: the
\* earliest, or the one already set when there is none.
Deadlines(r) ==
    (IF r.exec = "queued" THEN {r.startDeadline} ELSE {}) \cup
    (IF r.exec \in Live THEN {r.livenessDeadline} ELSE {}) \cup
    (IF r.exec # "none" /\ r.effect = "pending" THEN {r.effectDeadline} ELSE {})

Scheduled(d, r) ==
    IF Deadlines(r) = {} THEN timer[d]
    ELSE CHOOSE t \in Deadlines(r) : \A u \in Deadlines(r) : t <= u

\* Mutant of ReleaseBound: the target's lease is released whatever its generation.
ReleaseBoundAny(r) ==
    [c \in Contexts |->
        IF r.bound[c] # 0 /\ ~lease[c].released THEN Release(lease[c]) ELSE lease[c]]

\* Leases the receipt still holds, by generation, are released; others stay.
ReleaseBound(r) ==
    [c \in Contexts |->
        IF r.bound[c] # 0 /\ lease[c].gen = r.bound[c] /\ ~lease[c].released
        THEN Release(lease[c]) ELSE lease[c]]

\* Mutant of Unresolved: a pending effect alone does not count.
UnresolvedExec(r) == r.exec \in {"queued"} \cup Live

Unresolved(r) == r.exec \in {"queued"} \cup Live \/ (r.exec # "none" /\ r.effect = "pending")

-----------------------------------------------------------------------------
(* Admission: POST /drawings/:id/orchestrator-threads/:threadId/dispatches *)

\* Everything before the first lease: authorisation, input, plan, mount.
Post(d) ==
    /\ up /\ mayEdit
    /\ request[d].pc = "idle"
    /\ \E b \in Budgets, T \in (SUBSET Contexts) \ {{}} :
          /\ clock + b < MaxTime /\ clock + StartDeadline < MaxTime
          /\ nextGen + NContexts <= MaxGen + 1
          /\ request' = [request EXCEPT ![d] =
                [NoRequest EXCEPT !.pc = "acquire", !.now = clock,
                                  !.horizon = clock + b, !.targets = T]]
    /\ UNCHANGED <<database, up, worker, timer, arriving, world>>

\* Targets are taken in the order of their ids.
NextTarget(d) ==
    CHOOSE c \in request[d].targets :
        /\ request[d].admitted[c] = 0
        /\ \A e \in request[d].targets : request[d].admitted[e] = 0 => c <= e

Awaiting(d) == {c \in request[d].targets : request[d].admitted[c] = 0}

\* One acquireContextLease up to its write.  The first grant of a Context
\* returns the row it created; a re-grant reads it back in a later statement.
AcquireTarget(d) ==
    LET q == request[d]
        c == NextTarget(d)
        g == Grant(nextGen, d, Initiator, q.now, q.horizon - q.now, q.horizon)
    IN  /\ q.pc = "acquire" /\ Awaiting(d) # {}
        /\ \/ /\ lease[c] = NoRow
              /\ lease' = [lease EXCEPT ![c] = g]
              /\ request' = [request EXCEPT ![d].admitted[c] = nextGen]
              /\ nextGen' = nextGen + 1
           \/ /\ Grantable(lease[c], q.now)
              /\ lease' = [lease EXCEPT ![c] = g]
              /\ request' = [request EXCEPT ![d].pc = "readback"]
              /\ nextGen' = nextGen + 1
           \/ /\ DbFaults \/ (lease[c] # NoRow /\ ~Grantable(lease[c], q.now))
              /\ request' = [request EXCEPT ![d].pc = "cleanup"]
              /\ UNCHANGED <<lease, nextGen>>
        /\ UNCHANGED <<receipt, outbox, up, worker, timer, arriving,
                       start, attempts, agent, mayEdit, clock, crashes>>

\* A read back that fails ends the admission before the lease is on its list.
ReadBack(d) ==
    /\ request[d].pc = "readback" /\ Awaiting(d) # {}
    /\ \/ request' = [request EXCEPT ![d].pc = "acquire",
                        ![d].admitted[NextTarget(d)] = lease[NextTarget(d)].gen]
       \/ /\ DbFaults
          /\ request' = [request EXCEPT ![d].pc = "cleanup",
                                        ![d].missed = @ \cup {NextTarget(d)}]
    /\ UNCHANGED <<database, up, worker, timer, arriving, world>>

\* Mutant of StillAdmitted: the transaction does not ask who holds the lease.
StillAdmittedAny(d) ==
    \A c \in request[d].targets :
        /\ IsLive(lease[c], request[d].now)
        /\ lease[c].gen = request[d].admitted[c]

\* acceptDispatchReceipt still owns every admitted lease.
StillAdmitted(d) ==
    \A c \in request[d].targets :
        /\ lease[c].run = d
        /\ IsLive(lease[c], request[d].now)
        /\ lease[c].gen = request[d].admitted[c]

\* One transaction: receipt, lease bindings and outbox.  Then the route sets
\* the timer and calls the worker.
Accept(d) ==
    LET q == request[d]
        r == [exec |-> "queued", effect |-> "pending",
              startDeadline |-> q.now + StartDeadline,
              livenessDeadline |-> q.now + StartDeadline + LivenessWindow,
              effectDeadline |-> q.horizon, effectAt |-> 0, bound |-> q.admitted]
    IN  /\ q.pc = "acquire" /\ Awaiting(d) = {}
        /\ StillAdmitted(d)
        /\ receipt' = [receipt EXCEPT ![d] = r]
        /\ outbox' = [outbox EXCEPT ![d] = "pending"]
        /\ request' = [request EXCEPT ![d] = [NoRequest EXCEPT !.pc = "done"]]
        /\ worker' = [worker EXCEPT ![d].pc = "claim"]
        /\ timer' = [timer EXCEPT ![d] = Scheduled(d, r)]
        /\ UNCHANGED <<lease, up, arriving, world>>

\* A lost lease, or threads, mount and Contexts that do not agree.
Reject(d) ==
    /\ request[d].pc = "acquire" /\ Awaiting(d) = {}
    /\ request' = [request EXCEPT ![d].pc = "cleanup"]
    /\ UNCHANGED <<database, up, worker, timer, arriving, world>>

\* What releaseContextLease makes of an admitted lease.
Undone(d, c) ==
    IF /\ lease[c].gen = request[d].admitted[c] /\ lease[c].run = d
       /\ ~lease[c].released /\ lease[c].user = Initiator
    THEN Release(lease[c]) ELSE lease[c]

\* Mutant of Undo: the releases come one after the other, and the first that
\* fails ends them.
UndoInOrder(d, c) ==
    /\ request[d].admitted[c] # 0
    /\ \/ /\ lease' = [lease EXCEPT ![c] = Undone(d, c)]
          /\ request' = [request EXCEPT ![d].admitted[c] = 0]
       \/ /\ DbFaults
          /\ request' = [request EXCEPT ![d].admitted = Nothing, ![d].missed = @ \cup {c}]
          /\ UNCHANGED lease

\* One of the releases the catch block starts together; nobody looks at the outcome
\* (Promise.allSettled).
Undo(d, c) ==
    /\ request[d].admitted[c] # 0
    /\ \/ /\ lease' = [lease EXCEPT ![c] = Undone(d, c)]
          /\ request' = [request EXCEPT ![d].admitted[c] = 0]
       \/ /\ DbFaults
          /\ request' = [request EXCEPT ![d].admitted[c] = 0, ![d].missed = @ \cup {c}]
          /\ UNCHANGED lease

\* The catch block: it answers when every release has ended in some way.
Cleanup(d) ==
    /\ request[d].pc = "cleanup"
    /\ \/ \E c \in Contexts : Undo(d, c)
       \/ /\ request[d].admitted = Nothing
          /\ request' = [request EXCEPT ![d] = [NoRequest EXCEPT !.pc = "done",
                                      !.horizon = request[d].horizon,
                                      !.missed = request[d].missed]]
          /\ UNCHANGED lease
    /\ UNCHANGED <<receipt, outbox, up, worker, timer, arriving, world>>

-----------------------------------------------------------------------------
(* The outbox worker: processDispatchOutbox.                               *)

Step(d, w) == worker' = [worker EXCEPT ![d] = w]

\* Mutant of Claimable: a row that a dead worker left behind is claimed again.
ClaimableStale(d) == outbox[d] \in {"pending", "sending"}

Claimable(d) == outbox[d] = "pending"

\* The outbox row is claimed before anything foreign is called; only a
\* pending row can be.  The worker keeps the clock it reads here.  (A restart
\* scan and an admission may both call the worker for one dispatch; the call
\* that does not claim does nothing, so one worker per dispatch is enough.)
Claim(d) ==
    /\ worker[d].pc = "claim"
    /\ IF Claimable(d)
       THEN /\ outbox' = [outbox EXCEPT ![d] = "sending"]
            /\ Step(d, [NoWorker EXCEPT !.pc = "check", !.now = clock])
       ELSE /\ Step(d, NoWorker)
            /\ UNCHANGED outbox
    /\ UNCHANGED <<lease, receipt, up, request, timer, arriving, world>>

\* The payload is gone once reconciliation closed the outbox; access is read
\* again from the database.
Check(d) ==
    /\ worker[d].pc = "check"
    /\ Step(d, [worker[d] EXCEPT !.pc = IF outbox[d] = "sending" /\ mayEdit
                                        THEN "start" ELSE "fail"])
    /\ UNCHANGED <<database, up, request, timer, arriving, world>>

\* planStart and gateway.start, up to the adapter's first await.  The plan may
\* have changed or the daemon be offline ("fail"), or the gateway may throw
\* for another reason, which leaves the outbox row sending.
Start(d) ==
    /\ worker[d].pc = "start"
    /\ \/ /\ start' = [start EXCEPT ![d] = "queued"]
          /\ attempts' = [attempts EXCEPT ![d] = @ + 1]
          /\ Step(d, [worker[d] EXCEPT !.pc = "await"])
       \/ /\ Step(d, [worker[d] EXCEPT !.pc = "fail"])
          /\ UNCHANGED <<start, attempts>>
       \/ /\ Step(d, NoWorker)
          /\ UNCHANGED <<start, attempts>>
    /\ UNCHANGED <<database, up, request, timer, arriving,
                   agent, mayEdit, nextGen, clock, crashes>>

\* What the runtime says of the agent: its state, or nothing it can vouch for.
Reported(d) == {agent[d], "unknown"} \cap Status

\* The adapter threw RUNTIME_NOT_CONNECTED.
Unavailable(d) == start[d] = "refused"

\* What the worker makes of the adapter's answer; any other failure of the
\* transport leaves the outbox row sending.
Reply(d) ==
    /\ worker[d].pc = "await"
    /\ \/ /\ start[d] = "answered"
          /\ \E s \in Reported(d) : Step(d, [worker[d] EXCEPT !.pc = "ack", !.status = s])
       \/ /\ Unavailable(d)
          /\ Step(d, [worker[d] EXCEPT !.pc = "fail"])
       \/ /\ start[d] = "lost"
          /\ Step(d, NoWorker)
    /\ UNCHANGED <<database, up, request, timer, arriving, world>>

\* failDispatchBeforeRuntimeAck: execution and effect fail together.
Fail(d) ==
    /\ worker[d].pc = "fail"
    /\ IF receipt[d].exec = "queued"
       THEN /\ receipt' = [receipt EXCEPT ![d].exec = "failed", ![d].effect = "failed",
                                          ![d].effectAt = worker[d].now]
            /\ outbox' = IF outbox[d] \in {"pending", "sending"}
                         THEN [outbox EXCEPT ![d] = "failed"] ELSE outbox
            /\ lease' = ReleaseBound(receipt[d])
       ELSE UNCHANGED database
    /\ Step(d, NoWorker)
    /\ UNCHANGED <<up, request, timer, arriving, world>>

\* A database statement of the worker fails; the rejection is logged.
WorkerThrows(d) ==
    /\ worker[d].pc \in {"claim", "check", "fail", "ack", "observe"}
    /\ Step(d, NoWorker)
    /\ UNCHANGED <<database, up, request, timer, arriving, world>>

Acknowledged(s) == CASE s = "done" -> "succeeded"
                     [] s = "unknown" -> "outcome_unknown"
                     [] OTHER -> "runtime_acknowledged"

\* Mutant of Observed: an agent that cannot be found has finished.
ObservedGone(s) == CASE s \in {"done", "unknown"} -> "succeeded"
                     [] s = "blocked" -> "blocked"
                     [] OTHER -> "running"

Observed(s) == CASE s = "done" -> "succeeded"
                 [] s = "unknown" -> "outcome_unknown"
                 [] s = "blocked" -> "blocked"
                 [] OTHER -> "running"

\* acknowledgeDispatchRuntime, with the clock read when the row was claimed.
Acknowledge(d) ==
    LET w  == worker[d]
        to == Acknowledged(w.status)
        r  == [receipt[d] EXCEPT !.exec = to, !.livenessDeadline = w.now + LivenessWindow]
    IN  /\ w.pc = "ack"
        /\ IF receipt[d].exec = "queued"
           THEN /\ receipt' = [receipt EXCEPT ![d] = r]
                /\ outbox' = IF outbox[d] = "sending"
                             THEN [outbox EXCEPT ![d] = "completed"] ELSE outbox
                /\ lease' = IF to = "outcome_unknown" THEN ReleaseBound(r) ELSE lease
                /\ IF to \in Terminal
                   THEN /\ Step(d, NoWorker)
                        /\ timer' = [timer EXCEPT ![d] = Scheduled(d, r)]
                   ELSE /\ Step(d, [w EXCEPT !.pc = "observe"])
                        /\ UNCHANGED timer
           ELSE /\ Step(d, NoWorker)
                /\ UNCHANGED <<database, timer>>
        /\ UNCHANGED <<up, request, arriving, world>>

\* Mutant of Observable: an observation is applied whatever the receipt says.
ObservableAny(r) == r.exec # "none"

Observable(r) == r.exec \in Live

\* observeDispatchRuntime as one transaction; now is the caller's clock.
Observe(d, s, now) ==
    LET r == [receipt[d] EXCEPT !.exec = Observed(s), !.livenessDeadline = now + LivenessWindow]
    IN  /\ Observable(receipt[d])
        /\ receipt' = [receipt EXCEPT ![d] = r]
        /\ lease' = IF r.exec = "outcome_unknown" THEN ReleaseBound(r) ELSE lease
        /\ timer' = [timer EXCEPT ![d] = Scheduled(d, r)]
        /\ UNCHANGED outbox

\* The first observation repeats the status of the start; then the worker
\* subscribes and returns, and its receipt is scheduled.
FirstObserve(d) ==
    /\ worker[d].pc = "observe"
    /\ \/ Observe(d, worker[d].status, worker[d].now)
       \/ /\ receipt[d].exec \notin Live
          /\ timer' = [timer EXCEPT ![d] =
                          Scheduled(d, [receipt[d] EXCEPT !.exec = "runtime_acknowledged"])]
          /\ UNCHANGED database
    /\ Step(d, [NoWorker EXCEPT !.pc = "stream"])
    /\ UNCHANGED <<up, request, arriving, world>>

\* An event starts an access check of its own, so events overtake each other.
EventArrives(d) ==
    /\ worker[d].pc = "stream"
    /\ agent[d] \in Status
    /\ arriving' = [arriving EXCEPT ![d] = @ \cup {agent[d]}]
    /\ UNCHANGED <<database, up, request, worker, timer, world>>

ApplyEvent(d, s) ==
    /\ s \in arriving[d]
    /\ arriving' = [arriving EXCEPT ![d] = @ \ {s}]
    /\ \/ mayEdit /\ Observe(d, s, clock)
       \/ /\ ~mayEdit \/ receipt[d].exec \notin Live
          /\ UNCHANGED <<database, timer>>
    /\ UNCHANGED <<up, request, worker, world>>

\* The subscription ends: access is lost, the runtime goes away, or its epoch
\* is fenced, in which case the broker reports "unknown" to the listener.
StreamCloses(d) ==
    /\ worker[d].pc = "stream"
    /\ arriving' \in {arriving, [arriving EXCEPT ![d] = @ \cup {"unknown"}]}
    /\ Step(d, NoWorker)
    /\ UNCHANGED <<database, up, request, timer, world>>

-----------------------------------------------------------------------------
(* Reconciliation, restart and the publishing write.                       *)

\* What reconcileDispatchReceipt makes of a receipt at time now.
Reconciled(r, now) ==
    LET late == \/ r.exec = "queued" /\ r.startDeadline <= now
                \/ r.exec \in Live /\ r.livenessDeadline <= now
        miss == r.effect = "pending" /\ r.effectDeadline <= now
    IN  [r EXCEPT !.exec = IF late THEN "outcome_unknown" ELSE @,
                  !.effect = IF miss THEN "failed" ELSE @,
                  !.effectAt = IF miss THEN now ELSE @]

\* The timer fires: reconcile in one transaction, then set the next timer.
Reconcile(d) ==
    LET r == Reconciled(receipt[d], clock)
    IN  /\ up
        /\ timer[d] # 0 /\ timer[d] <= clock
        /\ receipt' = [receipt EXCEPT ![d] = r]
        /\ outbox' = IF /\ receipt[d].exec = "queued" /\ r.exec = "outcome_unknown"
                        /\ outbox[d] \in {"pending", "sending"}
                     THEN [outbox EXCEPT ![d] = "outcome_unknown"] ELSE outbox
        /\ lease' = IF r # receipt[d] THEN ReleaseBound(r) ELSE lease
        /\ timer' = [timer EXCEPT ![d] = IF Deadlines(r) = {} THEN 0 ELSE Scheduled(d, r)]
        /\ UNCHANGED <<up, request, worker, arriving, world>>

\* The transaction fails; the failure is logged and the timer is gone.
ReconcileFails(d) ==
    /\ DbFaults /\ up
    /\ timer[d] # 0 /\ timer[d] <= clock
    /\ timer' = [timer EXCEPT ![d] = 0]
    /\ UNCHANGED <<database, up, request, worker, arriving, world>>

\* Mutant of Publishable: expiry is left to the next acquire.
PublishableExpired(d) ==
    \A c \in Contexts : receipt[d].bound[c] # 0 =>
        /\ lease[c].gen = receipt[d].bound[c]
        /\ lease[c].run = d /\ ~lease[c].released

\* Every bound lease is still this run's, under the bound generation, and live.
Publishable(d) ==
    \A c \in Contexts : receipt[d].bound[c] # 0 =>
        /\ lease[c].gen = receipt[d].bound[c]
        /\ lease[c].run = d
        /\ IsLive(lease[c], clock)

\* commitDispatchBoardEffect, inside the transaction that writes the board.  Whoever
\* was handed the mount's token may ask for it, whatever the runtime says of the agent.
Commit(d) ==
    /\ up
    /\ agent[d] # "absent"
    /\ receipt[d].exec # "none" /\ receipt[d].effect = "pending"
    /\ Publishable(d)
    /\ receipt' = [receipt EXCEPT ![d].effect = "committed", ![d].effectAt = clock]
    /\ lease' = ReleaseBound(receipt[d])
    /\ UNCHANGED <<outbox, process, world>>

\* The process dies between two database steps: requests, workers, timers and
\* the broker's queue are gone, the database and the agents are not.
Crash ==
    /\ up /\ crashes < MaxCrashes
    /\ crashes' = crashes + 1
    /\ up' = FALSE
    /\ request' = [d \in Dispatches |->
                      IF request[d].pc = "idle" THEN NoRequest
                      ELSE [NoRequest EXCEPT !.pc = "done"]]
    /\ worker' = [d \in Dispatches |-> NoWorker]
    /\ timer' = [d \in Dispatches |-> 0]
    /\ arriving' = [d \in Dispatches |-> {}]
    /\ Channel!Drop(Dispatches)
    /\ UNCHANGED <<database, attempts, agent, mayEdit, nextGen, clock>>

\* Timers are rebuilt from the receipts, and the worker is called for each.
Restart ==
    /\ ~up
    /\ up' = TRUE
    /\ timer' = [d \in Dispatches |->
                    IF Unresolved(receipt[d]) THEN Scheduled(d, receipt[d]) ELSE 0]
    /\ worker' = [d \in Dispatches |->
                    IF Unresolved(receipt[d]) THEN [NoWorker EXCEPT !.pc = "claim"]
                    ELSE NoWorker]
    /\ UNCHANGED <<database, request, arriving, world>>

\* The scan cannot read the receipts; the failure is logged, nothing is set.
RestartScanFails ==
    /\ DbFaults /\ ~up
    /\ up' = TRUE
    /\ UNCHANGED <<database, request, worker, timer, arriving, world>>

-----------------------------------------------------------------------------
(* The world: the runtime, the lease routes, access and time.              *)

Outside == <<database, process, attempts, mayEdit, nextGen, clock, crashes>>

\* Handed over in a poll response, or written to the runtime's socket.
Deliver(d) ==
    /\ up /\ Channel!Deliver(d)
    /\ UNCHANGED <<agent, Outside>>

Refuse(d) ==
    /\ up /\ start[d] = "queued" /\ Channel!Refuse(d)
    /\ UNCHANGED <<agent, Outside>>

Lose(d) ==
    /\ up /\ Channel!Lose(d)
    /\ UNCHANGED <<agent, Outside>>

\* The runtime answers only after it has started the agent.
Answer(d) ==
    /\ up /\ agent[d] # "absent" /\ Channel!Answer(d)
    /\ UNCHANGED <<agent, Outside>>

\* The Herdr adapter reports a request deadline or a broken socket as
\* RUNTIME_NOT_CONNECTED after the request was written; it asks, best effort,
\* for the workspace to be closed.
HerdrTimesOut(d) ==
    /\ Adapter = "herdr" /\ up
    /\ worker[d].pc = "await" /\ start[d] = "delivered"
    /\ Channel!Lose(d)
    /\ Step(d, [worker[d] EXCEPT !.pc = "fail"])
    /\ agent' \in {agent, [agent EXCEPT ![d] = IF @ = "absent" THEN @ ELSE "gone"]}
    /\ UNCHANGED <<database, up, request, timer, arriving,
                   attempts, mayEdit, nextGen, clock, crashes>>

AgentStarts(d) ==
    /\ start[d] \in {"delivered", "answered", "lost"}
    /\ agent[d] = "absent"
    /\ agent' = [agent EXCEPT ![d] = "working"]
    /\ UNCHANGED <<start, Outside>>

AgentMoves(d) ==
    /\ agent[d] \in {"working", "blocked"}
    /\ \E a \in Reports \cup {"gone"} : agent' = [agent EXCEPT ![d] = a]
    /\ UNCHANGED <<start, Outside>>

LeaseRoute == <<receipt, outbox, process, start, attempts, agent, mayEdit, clock, crashes>>

OtherAcquires(c) ==
    /\ up /\ nextGen <= MaxGen
    /\ lease[c] = NoRow \/ Grantable(lease[c], clock)
    /\ \E b \in Budgets : lease' = [lease EXCEPT ![c] =
                                      Grant(nextGen, Other, Initiator, clock, b, clock + b)]
    /\ nextGen' = nextGen + 1
    /\ UNCHANGED LeaseRoute

\* The initiator or the owner hands a live lease to another run.
Transfer(c) ==
    /\ up /\ nextGen <= MaxGen
    /\ IsLive(lease[c], clock)
    /\ \E b \in Budgets :
          lease' = [lease EXCEPT ![c].gen = nextGen, ![c].run = Other,
                                 ![c].expiresAt = Earlier(clock + b, lease[c].endHorizonAt)]
    /\ nextGen' = nextGen + 1
    /\ UNCHANGED LeaseRoute

\* The initiator or the owner shortens or extends a live lease.
Renew(c) ==
    /\ up /\ IsLive(lease[c], clock)
    /\ \E b \in Budgets :
          lease' = [lease EXCEPT ![c].expiresAt = Earlier(clock + b, lease[c].endHorizonAt)]
    /\ UNCHANGED <<LeaseRoute, nextGen>>

ReleaseByUser(c) ==
    /\ up /\ lease[c].gen # 0 /\ ~lease[c].released
    /\ lease' = [lease EXCEPT ![c] = Release(lease[c])]
    /\ UNCHANGED <<LeaseRoute, nextGen>>

AccessLost ==
    /\ mayEdit /\ mayEdit' = FALSE
    /\ UNCHANGED <<database, process, start, attempts, agent, nextGen, clock, crashes>>

Tick ==
    /\ clock < MaxTime
    /\ clock' = clock + 1
    /\ UNCHANGED <<database, process, start, attempts, agent, mayEdit, nextGen, crashes>>

\* Nothing more can happen within the bounds.
Ended ==
    /\ clock = MaxTime
    /\ UNCHANGED vars

Admission(d) == Post(d) \/ AcquireTarget(d) \/ ReadBack(d) \/ Accept(d) \/ Reject(d) \/ Cleanup(d)
Working(d)   == \/ Claim(d) \/ Check(d) \/ Start(d) \/ Reply(d) \/ Fail(d)
                \/ Acknowledge(d) \/ FirstObserve(d) \/ WorkerThrows(d)
Observing(d) == EventArrives(d) \/ (\E s \in Status : ApplyEvent(d, s)) \/ StreamCloses(d)
Runtime(d)   == \/ Deliver(d) \/ Refuse(d) \/ Lose(d) \/ Answer(d) \/ HerdrTimesOut(d)
                \/ AgentStarts(d) \/ AgentMoves(d)

Next ==
    \/ \E d \in Dispatches : \/ Admission(d) \/ Working(d) \/ Observing(d) \/ Runtime(d)
                             \/ Reconcile(d) \/ ReconcileFails(d) \/ Commit(d)
    \/ \E c \in Contexts : OtherAcquires(c) \/ Transfer(c) \/ Renew(c) \/ ReleaseByUser(c)
    \/ Crash \/ Restart \/ RestartScanFails \/ AccessLost \/ Tick \/ Ended

Spec == Init /\ [][Next]_vars

-----------------------------------------------------------------------------
(* Properties                                                              *)

AgentState == {"absent", "working", "blocked", "done", "gone"}

TypeOK ==
    /\ lease \in [Contexts -> Row]
    /\ receipt \in [Dispatches -> Receipt]
    /\ outbox \in [Dispatches -> Outbox]
    /\ up \in BOOLEAN
    /\ request \in [Dispatches -> Request]
    /\ worker \in [Dispatches -> Worker]
    /\ timer \in [Dispatches -> Nat]
    /\ arriving \in [Dispatches -> SUBSET Status]
    /\ start \in [Dispatches -> Channel!States]
    /\ attempts \in [Dispatches -> Nat]
    /\ agent \in [Dispatches -> AgentState]
    /\ mayEdit \in BOOLEAN
    /\ nextGen \in Nat \ {0} /\ clock \in Nat /\ crashes \in Nat

\* The foreign start is attempted at most once per dispatch, whatever crashes
\* and restarts fall between claim, start and acknowledgement
\* (dispatchWorker.ts:74-79).
AtMostOneStart == \A d \in Dispatches : attempts[d] <= 1

\* A receipt that says "failed" tells the truth: the start was never handed to
\* a runtime (dispatchWorker.ts:185-187, test "marks a runtime that is actually
\* unavailable before acknowledgement as not started").
FailedNeverStarted ==
    \A d \in Dispatches : receipt[d].exec = "failed" => start[d] \in {"none", "refused"}

\* A dispatch whose execution failed or is unknown, or whose effect is decided,
\* holds none of its leases: an agent nobody observes any more cannot publish
\* (dispatchReceipt.ts:502).
SettledHoldsNothing ==
    \A d \in Dispatches :
        receipt[d].exec \in {"failed", "outcome_unknown"} \/ receipt[d].effect # "pending"
            => \A c \in Contexts :
                  receipt[d].bound[c] # 0 /\ lease[c].gen = receipt[d].bound[c]
                      => lease[c].released

\* An effect is committed only within the human-approved window.  The commit
\* does not look at the deadline; the leases it holds enforce it.
CommittedInTime ==
    \A d \in Dispatches :
        receipt[d].effect = "committed" => receipt[d].effectAt <= receipt[d].effectDeadline

\* A receipt is bound only to leases of its own run, although the generation
\* it was admitted under was read back after the grant (contextLease.ts:261).
BindingsAreOwn ==
    \A d \in Dispatches, c \in Contexts :
        receipt[d].bound[c] # 0 /\ lease[c].gen = receipt[d].bound[c] => lease[c].run = d

\* An admission that was turned down, without a crash, leaves no live lease of its run
\* behind, half way through its Contexts or at their end, but those whose own read back
\* or own release failed; and these last no longer than the human had approved
\* (drawingOrchestratorThreadRoutes.ts:379-392, contextLease.ts:261).
RejectedLeavesNothing ==
    \A d \in Dispatches :
        crashes = 0 /\ request[d].pc = "done" /\ receipt[d].exec = "none"
            => \A c \in Contexts : lease[c].run = d =>
                  \/ ~IsLive(lease[c], clock)
                  \/ /\ DbFaults /\ c \in request[d].missed
                     /\ lease[c].expiresAt <= request[d].horizon

\* Leases are given back by whoever took them for a dispatch, however it ended and
\* whichever statements failed on the way, but for those whose own statement failed
\* (dispatchReceipt.ts:502, drawingOrchestratorThreadRoutes.ts:379-392).
LeasesGivenBack == SettledHoldsNothing /\ RejectedLeavesNothing

\* Execution says "succeeded" only when the runtime said "done": a closed
\* stream, a timeout or a late event never turns into success.
SuccessWasReported ==
    \A d \in Dispatches : receipt[d].exec = "succeeded" => agent[d] = "done"

\* A terminal execution status and a decided effect are final, for late
\* acknowledgements, late events, late failures and late timers alike
\* (schema.prisma:481 "Delayed observations cannot overwrite terminal state").
DecidedIsFinal ==
    [][\A d \in Dispatches :
          /\ receipt[d].exec \in Terminal => receipt'[d].exec = receipt[d].exec
          /\ receipt[d].effect # "pending" => receipt'[d].effect = receipt[d].effect]_vars

\* A lease is released by its user or by a step of the very run that holds it,
\* never by a dispatch that held the Context before.
ReleasesOwnOnly ==
    [][\A c \in Contexts :
          ~lease[c].released /\ lease'[c].released
              => \/ ReleaseByUser(c)
                 \/ /\ lease[c].run \in Dispatches
                    /\ \/ receipt'[lease[c].run] # receipt[lease[c].run]
                       \/ request'[lease[c].run] # request[lease[c].run]]_vars

\* While the server runs, a dispatch with a deadline to meet has a timer set
\* for it or earlier, after any order of acknowledgements, events and restarts.
TimerCovers ==
    up => \A d \in Dispatches : \A t \in Deadlines(receipt[d]) :
              timer[d] # 0 /\ timer[d] <= t

\* The process is restarted after a crash, timers fire and time passes.
FairSpec ==
    /\ Spec
    /\ WF_vars(Tick) /\ WF_vars(Restart \/ RestartScanFails)
    /\ \A d \in Dispatches : WF_vars(Reconcile(d) \/ ReconcileFails(d))

\* Every accepted dispatch leaves "queued", and its effect is decided, within
\* its deadlines: by the runtime or else by reconciliation
\* (dispatchReceipt.ts:516-519).
Settles ==
    \A d \in Dispatches :
        /\ receipt[d].exec = "queued" ~> receipt[d].exec # "queued"
        /\ receipt[d].exec # "none" /\ receipt[d].effect = "pending"
               ~> receipt[d].effect # "pending"

\* What the process remembers of a receipt agrees with what is stored, through
\* crashes, late answers and re-grants: its leases are those of its own run and its
\* timer is set for its next deadline (contextLease.ts:261,
\* drawingOrchestratorThreadRoutes.ts:139-160).
ReceiptSound == TypeOK /\ BindingsAreOwn /\ TimerCovers

\* What a receipt says of the foreign run really happened: "failed" that it was
\* never started, "succeeded" that it reported so (dispatchWorker.ts:185-187,
\* 227-239).
OutcomesTruthful == FailedNeverStarted /\ SuccessWasReported

=============================================================================
