------------------------ MODULE RuntimeDaemonBroker ------------------------
(***************************************************************************)
(* The outbound runtime daemon: the broker that queues commands for one    *)
(* paired device (backend/src/agent/runtime/runtimeDaemonBroker.ts), the   *)
(* durable session epoch and revocation of that device                     *)
(* (runtimeDaemonService.ts), the machine routes between them              *)
(* (runtimeDaemonRoutes.ts) and the daemon process that polls              *)
(* (packages/runtime-daemon/src/daemon.ts).                                *)
(*                                                                         *)
(* A route first talks to the database and then, after an await, to the    *)
(* broker.  The daemon sends one request at a time, but the server may     *)
(* still be serving requests that the daemon has given up on, or that an   *)
(* earlier daemon process sent with the same credential.                   *)
(*                                                                         *)
(* Maps of the broker are keyed by daemon id and never mix two of them, so *)
(* one device is modelled.  Profiles, versions and payloads are left out.  *)
(***************************************************************************)
EXTENDS Naturals, Sequences

CONSTANTS Commands,        \* commands that callers dispatch
          StartSets,       \* which of them may be those of kind "start"
          AssignmentOf,    \* [Commands -> assignment ids]
          Slots,           \* requests the server can be serving for the device
          NoSlot,
          NoCommand,
          AcceptDeadline,  \* COMMAND_ACCEPT_DEADLINE_MS
          ResultDeadline,  \* COMMAND_RESULT_DEADLINE_MS
          LongPoll,        \* LONG_POLL_MS
          Stale,           \* CONNECTION_STALE_MS
          MaxTime, MaxEpoch, MaxCrashes

ASSUME BrokerAssumption ==
    /\ StartSets \subseteq SUBSET Commands
    /\ NoSlot \notin Slots /\ NoCommand \notin Commands
    /\ {AcceptDeadline, ResultDeadline, LongPoll, Stale, MaxTime,
        MaxEpoch, MaxCrashes} \subseteq Nat

VARIABLES
    starts,     \* the commands of kind "start"; the others are prompt or status
    device,     \* database row: [epoch, revoked]
    session,    \* broker: #sessions entry, epoch 0 when there is none
    pending,    \* broker: [Commands -> Pending], epoch 0 when not pending
    binding,    \* broker: [Commands -> epoch of the run's binding, 0 for none]
    listeners,  \* broker: commands whose run has a listener
    barred,     \* broker: is the device in #revoked?
    revoking,   \* DELETE route between its two steps
    handler,    \* [Slots -> Handler]  machine requests being served
    outcome,    \* [Commands -> what the caller of dispatch learned]
    handed,     \* [Commands -> times the command was put in a poll response]
    daemon,     \* the daemon process
    journal,    \* assignment-journal.json on the device's disk
    executed,   \* [assignments -> times the executor was started]
    clock, crashes

broker == <<session, pending, binding, listeners, barred>>
local  == <<daemon, journal, executed>>
bounds == <<clock, crashes>>
vars   == <<starts, device, broker, revoking, handler, outcome, handed, local, bounds>>

Assignments == {AssignmentOf[c] : c \in Commands}

Session == [epoch : Nat, last : Nat, queue : Seq(Commands), waiter : Slots \cup {NoSlot}]
Pending == [epoch : Nat, delivered : BOOLEAN, due : Nat]
Handler == [kind : {"none", "open", "poll", "result", "status"},
            pc : {"read", "cas", "touch", "act", "wait", "reply"},
            epoch : Nat, cmd : Commands \cup {NoCommand}, ok : BOOLEAN, due : Nat]
Daemon  == [pc : {"down", "open", "poll", "wait", "claim", "execute", "report"},
            epoch : Nat, slot : Slots \cup {NoSlot},
            cmd : Commands \cup {NoCommand}, ok : BOOLEAN,
            known : SUBSET Assignments]      \* the journal in memory
Outcome == {"none", "answered", "refused", "lost"}

NoSession == [epoch |-> 0, last |-> 0, queue |-> <<>>, waiter |-> NoSlot]
NoPending == [epoch |-> 0, delivered |-> FALSE, due |-> 0]
NoHandler == [kind |-> "none", pc |-> "read", epoch |-> 0, cmd |-> NoCommand,
              ok |-> FALSE, due |-> 0]
NoDaemon  == [pc |-> "down", epoch |-> 0, slot |-> NoSlot, cmd |-> NoCommand,
              ok |-> FALSE, known |-> {}]

Init ==
    /\ starts \in StartSets
    /\ device = [epoch |-> 0, revoked |-> FALSE]
    /\ session = NoSession
    /\ pending = [c \in Commands |-> NoPending]
    /\ binding = [c \in Commands |-> 0]
    /\ listeners = {}
    /\ barred = FALSE /\ revoking = FALSE
    /\ handler = [s \in Slots |-> NoHandler]
    /\ outcome = [c \in Commands |-> "none"]
    /\ handed = [c \in Commands |-> 0]
    /\ daemon = NoDaemon
    /\ journal = {}
    /\ executed = [a \in Assignments |-> 0]
    /\ clock = 0 /\ crashes = 0

-----------------------------------------------------------------------------
(* The broker.                                                             *)

IsPending(c) == pending[c].epoch # 0

\* The session of epoch e, if it is the current one and was active lately.
Active(e) ==
    /\ e # 0 /\ session.epoch = e
    /\ clock - session.last <= Stale

\* Mutant of Failure: every failure is reported as "not connected".
FailureRefused(p) == "refused"

\* How a command that is no longer waited for is reported to its caller.
Failure(p) == IF p.delivered THEN "lost" ELSE "refused"

\* Handler s has its response; ok tells a result from an error.
Reply(h, c, ok) == [h EXCEPT !.pc = "reply", !.cmd = c, !.ok = ok, !.due = 0]

\* Mutant of Dismissed: the parked poll is forgotten.
DismissedNot(s) == handler

\* A parked poll is answered with nothing.
Dismissed(s) ==
    IF s = NoSlot THEN handler
    ELSE [handler EXCEPT ![s] = Reply(@, NoCommand, TRUE)]

\* #rejectEpoch, on the commands and bindings of the current session.
RejectEpoch ==
    /\ outcome' = [c \in Commands |->
                      IF IsPending(c) /\ pending[c].epoch = session.epoch
                      THEN Failure(pending[c]) ELSE outcome[c]]
    /\ pending' = [c \in Commands |->
                      IF pending[c].epoch = session.epoch THEN NoPending ELSE pending[c]]
    /\ binding' = [c \in Commands |-> IF binding[c] = session.epoch THEN 0 ELSE binding[c]]
    /\ listeners' = {c \in listeners : binding[c] # session.epoch}

\* Mutant of Supersedes: the last session to arrive wins.
SupersedesAny(e) == ~barred

\* Is this session newer than the one the broker knows?
Supersedes(e) == ~barred /\ session.epoch < e

\* activate, called by the session route with the epoch it opened.
Activate(s) ==
    LET h == handler[s]
    IN  /\ h.kind = "open" /\ h.pc = "act"
        /\ IF Supersedes(h.epoch)
           THEN /\ RejectEpoch
                /\ session' = [NoSession EXCEPT !.epoch = h.epoch, !.last = clock]
                /\ handler' = [Dismissed(session.waiter) EXCEPT ![s] = Reply(h, NoCommand, TRUE)]
           ELSE /\ handler' = [handler EXCEPT ![s] = Reply(h, NoCommand, TRUE)]
                /\ UNCHANGED <<session, pending, binding, listeners, outcome>>
        /\ UNCHANGED <<device, barred, revoking, handed, local, bounds>>

\* markDelivered: the result deadline starts when the command is handed over.
Delivered(p) == [p EXCEPT !.delivered = TRUE, !.due = clock + ResultDeadline]

Hand(c) ==
    /\ pending' = [pending EXCEPT ![c] = Delivered(@)]
    /\ handed' = [handed EXCEPT ![c] = @ + 1]

\* The queue from the first command that somebody still waits for; the entries
\* before it are dropped.
Deliverable ==
    LET Awaited == {i \in DOMAIN session.queue : IsPending(session.queue[i])}
    IN  IF Awaited = {} THEN <<>>
        ELSE SubSeq(session.queue, CHOOSE i \in Awaited : \A j \in Awaited : i <= j,
                    Len(session.queue))

\* poll: hand over the first deliverable command, or park, dismissing a poll
\* that is parked already.
Poll(s) ==
    LET h == handler[s]
    IN  /\ h.kind = "poll" /\ h.pc = "act"
        /\ \/ /\ ~Active(h.epoch)
              /\ handler' = [handler EXCEPT ![s] = Reply(h, NoCommand, FALSE)]
              /\ UNCHANGED <<session, pending, handed>>
           \/ /\ Active(h.epoch) /\ Deliverable # <<>>
              /\ session' = [session EXCEPT !.last = clock, !.queue = Tail(Deliverable)]
              /\ Hand(Head(Deliverable))
              /\ handler' = [handler EXCEPT ![s] = Reply(h, Head(Deliverable), TRUE)]
           \/ /\ Active(h.epoch) /\ Deliverable = <<>>
              /\ session' = [session EXCEPT !.last = clock, !.queue = <<>>, !.waiter = s]
              /\ handler' = [Dismissed(session.waiter) EXCEPT
                                ![s].pc = "wait", ![s].due = clock + LongPoll]
              /\ UNCHANGED <<pending, handed>>
        /\ UNCHANGED <<device, binding, listeners, barred, revoking, outcome, local, bounds>>

\* The long poll ends with nothing.
PollTimeout(s) ==
    /\ handler[s].pc = "wait" /\ handler[s].due <= clock
    /\ handler' = [handler EXCEPT ![s] = Reply(@, NoCommand, TRUE)]
    /\ session' = IF session.waiter = s THEN [session EXCEPT !.waiter = NoSlot] ELSE session
    /\ UNCHANGED <<device, pending, binding, listeners, barred, revoking,
                   outcome, handed, local, bounds>>

\* dispatch: to the parked poll if there is one, else to the queue.  The
\* caller's connection may name an earlier epoch.  Prompt and status name a run
\* the broker still has a binding for.
Dispatch(c) ==
    LET p == [epoch |-> session.epoch, delivered |-> FALSE, due |-> clock + AcceptDeadline]
    IN  /\ outcome[c] = "none" /\ ~IsPending(c)
        /\ c \notin starts => \E b \in starts : binding[b] # 0
        /\ \/ /\ \E e \in {session.epoch} \cup 1 .. session.epoch : ~Active(e)
              /\ outcome' = [outcome EXCEPT ![c] = "refused"]
              /\ UNCHANGED <<session, pending, handed, handler>>
           \/ /\ Active(session.epoch) /\ session.waiter # NoSlot
              /\ session' = [session EXCEPT !.waiter = NoSlot]
              /\ pending' = [pending EXCEPT ![c] = Delivered(p)]
              /\ handed' = [handed EXCEPT ![c] = @ + 1]
              /\ handler' = [handler EXCEPT ![session.waiter] = Reply(@, c, TRUE)]
              /\ UNCHANGED outcome
           \/ /\ Active(session.epoch) /\ session.waiter = NoSlot
              /\ session' = [session EXCEPT !.queue = Append(@, c)]
              /\ pending' = [pending EXCEPT ![c] = p]
              /\ UNCHANGED <<handed, handler, outcome>>
        /\ UNCHANGED <<device, binding, listeners, barred, revoking, local, bounds>>

\* A queue without its first entry for c: findIndex and splice.
Spliced(q, c) ==
    LET At == {i \in DOMAIN q : q[i] = c}
        k  == CHOOSE i \in At : \A j \in At : i <= j
    IN  IF At = {} THEN q
        ELSE [i \in 1 .. Len(q) - 1 |-> q[IF i < k THEN i ELSE i + 1]]

\* #expire: the accept or the result deadline of a command has passed.
Expire(c) ==
    /\ IsPending(c) /\ pending[c].due <= clock
    /\ outcome' = [outcome EXCEPT ![c] = Failure(pending[c])]
    /\ pending' = [pending EXCEPT ![c] = NoPending]
    /\ session' = IF session.epoch = pending[c].epoch
                  THEN [session EXCEPT !.queue = Spliced(@, c)] ELSE session
    /\ UNCHANGED <<device, binding, listeners, barred, revoking, handler, handed, local, bounds>>

\* complete: the result of a command of this very session.  An answer that is
\* not ok reaches the caller as RUNTIME_REQUEST_FAILED.
Complete(s) ==
    LET h == handler[s]
    IN  /\ h.kind = "result" /\ h.pc = "act"
        /\ IF Active(h.epoch) /\ pending[h.cmd].epoch = h.epoch
           THEN /\ outcome' = [outcome EXCEPT ![h.cmd] = IF h.ok THEN "answered" ELSE "lost"]
                /\ pending' = [pending EXCEPT ![h.cmd] = NoPending]
                /\ binding' = IF h.ok /\ h.cmd \in starts
                              THEN [binding EXCEPT ![h.cmd] = h.epoch] ELSE binding
                /\ session' = [session EXCEPT !.last = clock]
                /\ handler' = [handler EXCEPT ![s] = Reply(h, NoCommand, TRUE)]
           ELSE /\ handler' = [handler EXCEPT ![s] = Reply(h, NoCommand, FALSE)]
                /\ UNCHANGED <<session, pending, binding, outcome>>
        /\ UNCHANGED <<device, listeners, barred, revoking, handed, local, bounds>>

\* publishStatus counts as activity; the listener's events are DispatchReceipt's.
PublishStatus(s) ==
    LET h == handler[s]
    IN  /\ h.kind = "status" /\ h.pc = "act"
        /\ IF Active(h.epoch) /\ binding[h.cmd] = h.epoch
           THEN session' = [session EXCEPT !.last = clock]
           ELSE UNCHANGED session
        /\ handler' = [handler EXCEPT ![s] = NoHandler]
        /\ UNCHANGED <<device, pending, binding, listeners, barred, revoking,
                       outcome, handed, local, bounds>>

Subscribe(c) ==
    /\ c \notin listeners
    /\ binding[c] # 0 /\ Active(binding[c])
    /\ listeners' = listeners \cup {c}
    /\ UNCHANGED <<device, session, pending, binding, barred, revoking, handler,
                   outcome, handed, local, bounds>>

CloseSubscription(c) ==
    /\ c \in listeners
    /\ listeners' = listeners \ {c}
    /\ UNCHANGED <<device, session, pending, binding, barred, revoking, handler,
                   outcome, handed, local, bounds>>

-----------------------------------------------------------------------------
(* The routes: what they ask of the database before they call the broker.  *)

\* A request of the daemon reaches the server.
Request(s, h) ==
    /\ handler[s].kind = "none"
    /\ handler' = [handler EXCEPT ![s] = h]

\* openSession reads the row, then raises the epoch it has read.
OpenRead(s) ==
    LET h == handler[s]
    IN  /\ h.kind = "open" /\ h.pc = "read"
        /\ handler' = [handler EXCEPT ![s] =
                          IF device.revoked THEN Reply(h, NoCommand, FALSE)
                          ELSE [h EXCEPT !.pc = "cas", !.epoch = device.epoch]]
        /\ UNCHANGED <<device, broker, revoking, outcome, handed, local, bounds>>

OpenCas(s) ==
    LET h == handler[s]
    IN  /\ h.kind = "open" /\ h.pc = "cas"
        /\ IF device.epoch = h.epoch /\ ~device.revoked
           THEN /\ device' = [device EXCEPT !.epoch = @ + 1]
                /\ handler' = [handler EXCEPT ![s].pc = "act", ![s].epoch = @ + 1]
           ELSE /\ handler' = [handler EXCEPT ![s] = Reply(h, NoCommand, FALSE)]
                /\ UNCHANGED device
        /\ UNCHANGED <<broker, revoking, outcome, handed, local, bounds>>

\* touchSession: its guarded update repeats what its read has checked.
Touch(s) ==
    LET h == handler[s]
    IN  /\ h.kind \in {"poll", "result", "status"} /\ h.pc = "touch"
        /\ handler' = [handler EXCEPT ![s] =
                          IF device.epoch = h.epoch /\ ~device.revoked
                          THEN [h EXCEPT !.pc = "act"] ELSE Reply(h, NoCommand, FALSE)]
        /\ UNCHANGED <<device, broker, revoking, outcome, handed, local, bounds>>

\* DELETE /agent/runtime-daemons/:daemonId, database first.
RevokeDevice ==
    /\ ~device.revoked
    /\ device' = [epoch |-> device.epoch + 1, revoked |-> TRUE]
    /\ revoking' = TRUE
    /\ UNCHANGED <<broker, handler, outcome, handed, local, bounds>>

RevokeBroker ==
    /\ revoking /\ revoking' = FALSE
    /\ barred' = TRUE
    /\ IF session.epoch # 0
       THEN /\ RejectEpoch
            /\ session' = NoSession
            /\ handler' = Dismissed(session.waiter)
       ELSE UNCHANGED <<session, pending, binding, listeners, handler, outcome>>
    /\ UNCHANGED <<device, handed, local, bounds>>

\* After a failure the daemon drops what it was doing and opens a session.
Reconnects == [daemon EXCEPT !.pc = "open", !.slot = NoSlot, !.cmd = NoCommand, !.ok = FALSE]

\* The server process dies and comes back: the broker starts empty, nothing it
\* had queued is handed over, and nobody hears the answers any more.
ServerRestart ==
    /\ crashes < MaxCrashes /\ crashes' = crashes + 1
    /\ session' = NoSession
    /\ pending' = [c \in Commands |-> NoPending]
    /\ outcome' = [c \in Commands |-> IF IsPending(c) THEN Failure(pending[c]) ELSE outcome[c]]
    /\ binding' = [c \in Commands |-> 0]
    /\ listeners' = {} /\ barred' = FALSE /\ revoking' = FALSE
    /\ handler' = [s \in Slots |-> NoHandler]
    /\ daemon' = IF daemon.slot = NoSlot THEN daemon
                 ELSE Reconnects
    /\ UNCHANGED <<device, handed, journal, executed, clock>>

-----------------------------------------------------------------------------
(* The daemon process.                                                     *)

Server == <<device, broker, revoking, outcome, handed>>

\* A new process reads the journal and starts without an epoch.
DaemonStarts ==
    /\ daemon.pc = "down"
    /\ daemon' = [NoDaemon EXCEPT !.pc = "open", !.known = journal]
    /\ UNCHANGED <<Server, handler, journal, executed, bounds>>

Send(s, h) ==
    /\ Request(s, h)
    /\ daemon' = [daemon EXCEPT !.pc = "wait", !.slot = s]
    /\ UNCHANGED <<Server, journal, executed, bounds>>

SendOpen(s) ==
    /\ daemon.pc = "open" /\ device.epoch < MaxEpoch
    /\ Send(s, [NoHandler EXCEPT !.kind = "open"])

SendPoll(s) ==
    /\ daemon.pc = "poll"
    /\ Send(s, [NoHandler EXCEPT !.kind = "poll", !.pc = "touch", !.epoch = daemon.epoch])

SendResult(s) ==
    /\ daemon.pc = "report"
    /\ Send(s, [NoHandler EXCEPT !.kind = "result", !.pc = "touch", !.epoch = daemon.epoch,
                                 !.cmd = daemon.cmd, !.ok = daemon.ok])

\* The executor reports a status of a run it has started, beside the loop.
SendStatus(s) ==
    /\ daemon.pc # "down" /\ daemon.epoch # 0
    /\ \E c \in starts :
          /\ executed[AssignmentOf[c]] > 0
          /\ Request(s, [NoHandler EXCEPT !.kind = "status", !.pc = "touch",
                                          !.epoch = daemon.epoch, !.cmd = c])
    /\ UNCHANGED <<Server, local, bounds>>

\* The daemon gets its response.  An error ends the session: it reconnects.
Receive(s) ==
    LET h == handler[s]
        d == [daemon EXCEPT !.slot = NoSlot, !.cmd = h.cmd, !.ok = FALSE]
    IN  /\ daemon.slot = s /\ h.pc = "reply"
        /\ daemon' = CASE ~h.ok -> Reconnects
                       [] h.ok /\ h.kind = "open" -> [d EXCEPT !.pc = "poll", !.epoch = h.epoch]
                       [] h.ok /\ h.cmd # NoCommand -> [d EXCEPT !.pc = "claim"]
                       [] OTHER -> [d EXCEPT !.pc = "poll"]
        /\ handler' = [handler EXCEPT ![s] = NoHandler]
        /\ UNCHANGED <<Server, journal, executed, bounds>>

\* Nobody listens to the response any more.
Unheard(s) ==
    /\ handler[s].pc = "reply" /\ daemon.slot # s
    /\ handler' = [handler EXCEPT ![s] = NoHandler]
    /\ UNCHANGED <<Server, local, bounds>>

\* Mutant of Repeated: only the memory of this process counts.
RepeatedForgets(c) == FALSE

\* A start whose assignment is in the journal may already have been made.
Repeated(c) == AssignmentOf[c] \in daemon.known

\* The assignment is claimed on disk before the executor is called.  When the
\* journal cannot be written, the memory keeps the claim and the loop reconnects.
Claim ==
    LET c == daemon.cmd
        k == daemon.known \cup {AssignmentOf[c]}
    IN  /\ daemon.pc = "claim"
        /\ \/ /\ c \in starts /\ Repeated(c)
              /\ daemon' = [daemon EXCEPT !.pc = "report", !.ok = FALSE]
              /\ UNCHANGED journal
           \/ /\ c \in starts /\ ~Repeated(c)
              /\ daemon' = [daemon EXCEPT !.pc = "execute", !.known = k]
              /\ journal' = k
           \/ /\ c \in starts /\ ~Repeated(c)
              /\ daemon' = [Reconnects EXCEPT !.known = k]
              /\ UNCHANGED journal
           \/ /\ c \notin starts
              /\ daemon' = [daemon EXCEPT !.pc = "execute"]
              /\ UNCHANGED journal
        /\ UNCHANGED <<Server, handler, executed, bounds>>

Execute ==
    /\ daemon.pc = "execute"
    /\ \E ok \in BOOLEAN : daemon' = [daemon EXCEPT !.pc = "report", !.ok = ok]
    /\ executed' = IF daemon.cmd \in starts
                   THEN [executed EXCEPT ![AssignmentOf[daemon.cmd]] = @ + 1] ELSE executed
    /\ UNCHANGED <<Server, handler, journal, bounds>>

\* The request times out or the network fails; the server may go on serving it.
ConnectionLost ==
    /\ daemon.slot # NoSlot
    /\ daemon' = Reconnects
    /\ UNCHANGED <<Server, handler, journal, executed, bounds>>

DaemonCrash ==
    /\ daemon.pc # "down"
    /\ crashes < MaxCrashes /\ crashes' = crashes + 1
    /\ daemon' = NoDaemon
    /\ UNCHANGED <<Server, handler, journal, executed, clock>>

Tick ==
    /\ clock < MaxTime
    /\ clock' = clock + 1
    /\ UNCHANGED <<Server, handler, local, crashes>>

Brokering(s) == \/ Activate(s) \/ Poll(s) \/ PollTimeout(s) \/ Complete(s) \/ PublishStatus(s)
Routing(s)   == \/ OpenRead(s) \/ OpenCas(s) \/ Touch(s) \/ Unheard(s)
Calling(c)   == \/ Dispatch(c) \/ Expire(c) \/ Subscribe(c) \/ CloseSubscription(c)
Looping(s)   == \/ SendOpen(s) \/ SendPoll(s) \/ SendResult(s) \/ SendStatus(s) \/ Receive(s)

Next ==
    /\ UNCHANGED starts
    /\ \/ \E s \in Slots : Brokering(s) \/ Routing(s) \/ Looping(s)
       \/ \E c \in Commands : Calling(c)
       \/ RevokeDevice \/ RevokeBroker \/ ServerRestart
       \/ DaemonStarts \/ Claim \/ Execute \/ ConnectionLost \/ DaemonCrash
       \/ Tick

Spec == Init /\ [][Next]_vars

-----------------------------------------------------------------------------
(* Properties                                                              *)

TypeOK ==
    /\ starts \in StartSets
    /\ device \in [epoch : Nat, revoked : BOOLEAN]
    /\ session \in Session
    /\ pending \in [Commands -> Pending]
    /\ binding \in [Commands -> Nat]
    /\ listeners \subseteq starts
    /\ barred \in BOOLEAN /\ revoking \in BOOLEAN
    /\ handler \in [Slots -> Handler]
    /\ outcome \in [Commands -> Outcome]
    /\ handed \in [Commands -> Nat]
    /\ daemon \in Daemon
    /\ journal \subseteq Assignments
    /\ executed \in [Assignments -> Nat]
    /\ clock \in Nat /\ crashes \in Nat

\* Whatever the broker still holds belongs to the current session: opening an
\* epoch or revoking the device leaves no command, binding or listener of an
\* earlier epoch behind (RUNTIME_DAEMON.md:24-27).
OnlyCurrent ==
    /\ \A c \in Commands : IsPending(c) => pending[c].epoch = session.epoch
    /\ \A c \in Commands : binding[c] # 0 => binding[c] = session.epoch
    /\ \A c \in listeners : binding[c] # 0

\* The queue holds exactly the pending commands that were not handed over,
\* each once: after a deadline, a fence or a dismissed poll none is stuck and
\* none lingers (the fence behind the fence, runtimeDaemonBroker.ts:213-216).
QueueIsUndelivered ==
    /\ \A c \in Commands : (IsPending(c) /\ ~pending[c].delivered)
                              <=> \E i \in DOMAIN session.queue : session.queue[i] = c
    /\ \A i, j \in DOMAIN session.queue : i # j => session.queue[i] # session.queue[j]

\* A parked poll is the session's waiter, and nothing else is: no poll is left
\* parked where no dispatch can find it.
WaiterIsParked ==
    \A s \in Slots : handler[s].pc = "wait" <=> session.waiter = s

\* The broker's session is the newest one the database has opened, unless a
\* session or revocation request is between its two steps; a revoked device
\* has no session.  Concurrent session requests may reach the broker in either
\* order.
ActiveIsNewest ==
    ~revoking /\ (\A s \in Slots : ~(handler[s].kind = "open" /\ handler[s].pc = "act"))
        => /\ session.epoch \in {0, device.epoch}
           /\ device.revoked => session.epoch = 0

\* A command is put in a poll response at most once, and never after its
\* caller was told that it was refused.
HandedOnce ==
    \A c \in Commands : handed[c] <= (IF outcome[c] = "refused" THEN 0 ELSE 1)

\* The state of a command as CommandChannel sees it.
Channel == INSTANCE CommandChannel WITH
    cmd <- [c \in Commands |->
               IF outcome[c] # "none" THEN outcome[c]
               ELSE IF handed[c] > 0 THEN "delivered"
               ELSE IF IsPending(c) THEN "queued" ELSE "none"]

\* The broker is a CommandChannel: what DispatchReceipt relies on.
KeepsChannel == Channel!Spec

\* An assignment is executed at most once, although it is delivered again
\* under a new command id and although the process crashes at any step
\* (RUNTIME_DAEMON.md:37-40).
ExecutedOnce == \A a \in Assignments : executed[a] <= 1

\* Whatever is retried, polled twice or delivered again, a command is handed over
\* once and its assignment executed once (runtimeDaemonBroker.ts:131-180,
\* daemon.ts:133).
AtMostOnce == HandedOnce /\ ExecutedOnce

\* The broker's tables agree with each other and with the database at every
\* interleaving of polls, deadlines, new sessions and revocations, in whichever order
\* they reach the broker (runtimeDaemonBroker.ts:76-110, 131, 213-240).
SessionSound ==
    TypeOK /\ OnlyCurrent /\ QueueIsUndelivered /\ WaiterIsParked /\ ActiveIsNewest

=============================================================================
