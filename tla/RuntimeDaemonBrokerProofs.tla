---------------------- MODULE RuntimeDaemonBrokerProofs ----------------------
(***************************************************************************)
(* Proofs about RuntimeDaemonBroker: its tables agree with each other and   *)
(* with the database, a command is handed over and executed at most once,   *)
(* and the broker implements the CommandChannel that DispatchReceipt relies *)
(* on, for any number of commands, requests, deadlines and crashes.         *)
(***************************************************************************)
EXTENDS RuntimeDaemonBroker, SequenceTheorems, WellFoundedInduction, TLAPS

\* The life of a command: what its caller learned fits how far it came.
Life(c) ==
    /\ IsPending(c) => /\ outcome[c] = "none"
                       /\ handed[c] = IF pending[c].delivered THEN 1 ELSE 0
    /\ outcome[c] = "none" /\ ~IsPending(c) => handed[c] = 0
    /\ outcome[c] = "refused" => handed[c] = 0
    /\ outcome[c] \in {"answered", "lost"} => handed[c] = 1

\* A request that carries a command carries one that was handed over, unless it
\* reports a status; only polls are parked.
Fit(h, times) ==
    /\ h.kind \in {"result", "status"} /\ h.pc # "reply" => h.cmd # NoCommand
    /\ h.cmd # NoCommand /\ (h.kind \in {"poll", "result"} \/ h.pc = "reply")
          => times[h.cmd] # 0
    /\ h.pc = "wait" => h.kind = "poll"

\* The daemon knows only commands that were handed over, and so do its requests.
Known ==
    /\ daemon.cmd # NoCommand => handed[daemon.cmd] # 0
    /\ daemon.pc \in {"claim", "execute", "report"} => daemon.cmd # NoCommand
    /\ \A s \in Slots : Fit(handler[s], handed)

\* An assignment that was executed, or is about to be, is in the journal on
\* disk and in the memory of the process; no process, no request.
Journaled ==
    /\ daemon.pc = "down" => daemon.slot = NoSlot
    /\ \A a \in Assignments : executed[a] <= 1 /\ (executed[a] # 0 => a \in journal)
    /\ daemon.pc # "down" => journal \subseteq daemon.known
    /\ daemon.pc = "execute" /\ daemon.cmd \in starts =>
          AssignmentOf[daemon.cmd] \in journal /\ executed[AssignmentOf[daemon.cmd]] = 0

\* A session request that the database has let through and that is on its way
\* to the broker.
Arriving(s) == handler[s].kind = "open" /\ handler[s].pc = "act"

\* The newest epoch is the broker's, or on its way there, unless the device is
\* being revoked or nothing has reached the broker since it started.
Newest ==
    /\ session.epoch <= device.epoch
    /\ \A s \in Slots : Arriving(s) => handler[s].epoch <= device.epoch
    /\ \/ session.epoch = device.epoch
       \/ revoking \/ barred
       \/ \E s \in Slots : Arriving(s) /\ handler[s].epoch = device.epoch
       \/ session.epoch = 0 /\ \A s \in Slots : ~Arriving(s)
    /\ device.revoked => \/ revoking
                         \/ session.epoch = 0 /\ (barred \/ \A s \in Slots : ~Arriving(s))
    /\ barred => session.epoch = 0

\* A queue holds a command, and none twice.
Holds(q, c) == \E i \in DOMAIN q : q[i] = c
Once(q)     == \A i, j \in DOMAIN q : i # j => q[i] # q[j]

\* What the broker holds is of the session it has, and what it queues is awaited.
Queued ==
    /\ \A c \in Commands : IsPending(c) /\ ~pending[c].delivered <=> Holds(session.queue, c)
    /\ Once(session.queue)

Tables ==
    /\ OnlyCurrent /\ Queued
    /\ \A c \in Commands : Life(c) /\ (binding[c] # 0 => c \in starts)

BrokerInv ==
    /\ TypeOK /\ Tables /\ WaiterIsParked
    /\ Known /\ Journaled /\ Newest


-----------------------------------------------------------------------------
(* The queue.                                                                *)

\* A nonempty set of natural numbers has a least element.
LEMMA Least ==
    ASSUME NEW S \in SUBSET Nat, S # {}
    PROVE  \E n \in S : \A m \in S : n <= m
<1>1. PICK n \in S : \A m \in S : ~(<<m, n>> \in OpToRel(<, Nat))
  BY NatLessThanWellFounded, WFMin
<1>2. \A m \in S : ~(m < n)
  BY <1>1 DEF OpToRel
<1>. QED
  BY <1>2

\* A queue that holds a command once loses it, and nothing else.
LEMMA SplicedQueue ==
    ASSUME NEW q \in Seq(Commands), NEW c \in Commands,
           Once(q)
    PROVE  /\ Spliced(q, c) \in Seq(Commands)
           /\ \A d \in Commands : Holds(Spliced(q, c), d) <=> d # c /\ Holds(q, d)
           /\ Once(Spliced(q, c))
<1>. USE DEF Holds, Once
<1>. DEFINE At == {i \in DOMAIN q : q[i] = c}
            n  == Len(q)
<1>0. n \in Nat /\ DOMAIN q = 1 .. n /\ \A i \in 1 .. n : q[i] \in Commands
  BY LenProperties, ElementOfSeq
<1>1. CASE At = {}
  BY <1>1 DEF Spliced
<1>2. CASE At # {}
  <2>. DEFINE k == CHOOSE i \in At : \A j \in At : i <= j
              r == [i \in 1 .. n - 1 |-> q[IF i < k THEN i ELSE i + 1]]
  <2>1. At \in SUBSET Nat
    BY <1>0
  <2>2. \E i \in At : \A j \in At : i <= j
    BY <1>2, <2>1, Least
  <2>3. k \in At
    BY <2>2
  <2>4. Spliced(q, c) = r
    BY <1>2 DEF Spliced
  <2>5. k \in 1 .. n /\ q[k] = c /\ n - 1 \in Nat
    BY <1>0, <2>3
  <2>. HIDE DEF k, At, n
  <2>6. \A i \in 1 .. n - 1 : (IF i < k THEN i ELSE i + 1) \in (1 .. n) \ {k}
    BY <1>0, <2>5
  <2>7. r \in [1 .. n - 1 -> Commands]
    BY <1>0, <2>6
  <2>8. r \in Seq(Commands) /\ DOMAIN r = 1 .. n - 1
    BY <2>5, <2>7, SeqDef
  <2>9. \A i, j \in 1 .. n - 1 : i # j => r[i] # r[j]
    <3> SUFFICES ASSUME NEW i \in 1 .. n - 1, NEW j \in 1 .. n - 1, i # j
                 PROVE  r[i] # r[j]
      OBVIOUS
    <3>. DEFINE x == IF i < k THEN i ELSE i + 1
                y == IF j < k THEN j ELSE j + 1
    <3>1. x \in 1 .. n /\ y \in 1 .. n /\ x # y
      BY <1>0, <2>5
    <3>2. r[i] = q[x] /\ r[j] = q[y]
      OBVIOUS
    <3>. HIDE DEF x, y, r
    <3>. QED
      BY <1>0, <3>1, <3>2
  <2>10. ASSUME NEW d \in Commands
         PROVE  (\E i \in 1 .. n - 1 : r[i] = d) <=> d # c /\ \E i \in 1 .. n : q[i] = d
    <3>1. ASSUME NEW i \in 1 .. n - 1, r[i] = d
          PROVE  d # c /\ \E j \in 1 .. n : q[j] = d
      <4>. DEFINE x == IF i < k THEN i ELSE i + 1
      <4>1. x \in 1 .. n /\ x # k /\ q[x] = d
        BY <2>6, <3>1
      <4>. HIDE DEF x
      <4>. QED
        BY <1>0, <2>5, <4>1
    <3>2. ASSUME d # c, NEW i \in 1 .. n, q[i] = d
          PROVE  \E j \in 1 .. n - 1 : r[j] = d
      <4>1. i # k
        BY <2>5, <3>2
      <4>2. CASE i < k
        BY <1>0, <2>5, <3>2, <4>2
      <4>3. CASE i > k
        <5>1. i - 1 \in 1 .. n - 1 /\ ~(i - 1 < k) /\ (i - 1) + 1 = i
          BY <1>0, <2>5, <4>3
        <5>2. r[i - 1] = q[i]
          BY <5>1
        <5>. QED
          BY <3>2, <5>1, <5>2
      <4>. QED
        BY <1>0, <2>5, <4>1, <4>2, <4>3
    <3>. QED
      BY <3>1, <3>2
  <2>. HIDE DEF r
  <2>. QED
    BY <1>0, <2>4, <2>8, <2>9, <2>10
<1>. QED
  BY <1>1, <1>2

\* Everything in the queue is awaited, so nothing is dropped on the way.
LEMMA AllDeliverable ==
    ASSUME TypeOK, Queued
    PROVE  /\ session.queue \in Seq(Commands)
           /\ Deliverable = session.queue
<1>. USE DEF Holds, Once
<1>. DEFINE q == session.queue
            Awaited == {i \in DOMAIN q : IsPending(q[i])}
<1>1. /\ q \in Seq(Commands) /\ Len(q) \in Nat /\ DOMAIN q = 1 .. Len(q)
      /\ \A i \in 1 .. Len(q) : q[i] \in Commands
  <2>1. q \in Seq(Commands)
    BY DEF TypeOK, Session
  <2>. QED
    BY <2>1, LenProperties, ElementOfSeq
<1>2. Awaited = 1 .. Len(q)
  BY <1>1 DEF Queued
<1>3. CASE Awaited = {}
  <2>1. q = <<>>
    BY <1>1, <1>2, <1>3, EmptySeq
  <2>. QED
    BY <1>1, <1>3, <2>1 DEF Deliverable
<1>4. CASE Awaited # {}
  <2>. DEFINE k == CHOOSE i \in Awaited : \A j \in Awaited : i <= j
  <2>1. 1 \in Awaited /\ \A j \in Awaited : 1 <= j
    BY <1>1, <1>2, <1>4
  <2>2. k \in Awaited /\ \A j \in Awaited : k <= j
    BY <2>1
  <2>3. k = 1
    BY <1>1, <1>2, <2>1, <2>2
  <2>4. Deliverable = SubSeq(q, k, Len(q))
    BY <1>4 DEF Deliverable
  <2>5. SubSeq(q, 1, Len(q)) = q
    BY <1>1, SubSeqFull
  <2>. HIDE DEF k
  <2>. QED
    BY <1>1, <2>3, <2>4, <2>5
<1>. QED
  BY <1>3, <1>4


-----------------------------------------------------------------------------
(* What the operations on requests return.                                   *)

\* A request that is replied to, or moves on.
LEMMA Replied ==
    ASSUME NEW h \in Handler, NEW c \in Commands \cup {NoCommand}, NEW ok \in BOOLEAN
    PROVE  /\ Reply(h, c, ok) \in Handler
           /\ Reply(h, c, ok).kind = h.kind /\ Reply(h, c, ok).pc = "reply"
           /\ Reply(h, c, ok).epoch = h.epoch /\ Reply(h, c, ok).cmd = c
           /\ Reply(h, c, ok).ok = ok
BY DEF Reply, Handler

\* A request that is answered without an error.
LEMMA Acknowledged ==
    ASSUME NEW h \in Handler, NEW c \in Commands \cup {NoCommand}
    PROVE  Reply(h, c, TRUE).pc = "reply" /\ Reply(h, c, TRUE).cmd = c
BY DEF Reply, Handler

\* Dismissing a parked poll changes that request alone.
LEMMA DismissedRows ==
    ASSUME handler \in [Slots -> Handler], NEW w \in Slots \cup {NoSlot}
    PROVE  /\ Dismissed(w) \in [Slots -> Handler]
           /\ \A s \in Slots : s # w => Dismissed(w)[s] = handler[s]
           /\ w \in Slots => Dismissed(w)[w] = Reply(handler[w], NoCommand, TRUE)
<1>1. CASE w = NoSlot
  BY <1>1, BrokerAssumption DEF Dismissed
<1>2. CASE w \in Slots
  <2>1. Reply(handler[w], NoCommand, TRUE) \in Handler
    BY <1>2, Replied
  <2>2. Dismissed(w) = [handler EXCEPT ![w] = Reply(handler[w], NoCommand, TRUE)]
    BY <1>2, BrokerAssumption DEF Dismissed
  <2>. QED
    BY <1>2, <2>1, <2>2
<1>. QED
  BY <1>1, <1>2

\* Deadlines are natural numbers.
LEMMA Delays ==
    /\ AcceptDeadline \in Nat /\ ResultDeadline \in Nat /\ LongPoll \in Nat /\ Stale \in Nat
BY BrokerAssumption

\* A command that is handed over is a pending command still.
LEMMA DeliveredTyped ==
    ASSUME clock \in Nat, NEW p \in Pending
    PROVE  /\ Delivered(p) \in Pending
           /\ Delivered(p).epoch = p.epoch /\ Delivered(p).delivered = TRUE
<1>1. clock + ResultDeadline \in Nat
  BY Delays
<1>. QED
  BY <1>1 DEF Delivered, Pending

\* The blank records are records of their types.
LEMMA Blanks ==
    /\ NoSession \in Session /\ NoPending \in Pending
    /\ NoHandler \in Handler /\ NoDaemon \in Daemon
    /\ NoSession.epoch = 0 /\ NoSession.waiter = NoSlot /\ NoSession.queue = <<>>
    /\ NoPending.epoch = 0 /\ NoPending.delivered = FALSE
    /\ NoHandler.kind = "none" /\ NoHandler.pc = "read" /\ NoHandler.cmd = NoCommand
    /\ NoDaemon.pc = "down" /\ NoDaemon.cmd = NoCommand /\ NoDaemon.slot = NoSlot
<1>1. <<>> \in Seq(Commands)
  BY EmptySeq
<1>. QED
  BY <1>1 DEF NoSession, NoPending, NoHandler, NoDaemon, Session, Pending, Handler, Daemon

\* A daemon that reconnects remembers its journal and nothing it was doing.
LEMMA Reconnecting ==
    ASSUME daemon \in Daemon
    PROVE  /\ Reconnects \in Daemon
           /\ Reconnects.pc = "open" /\ Reconnects.cmd = NoCommand
           /\ Reconnects.slot = NoSlot /\ Reconnects.known = daemon.known
BY DEF Reconnects, Daemon

\* The parts of the state have their types.
LEMMA Parts ==
    ASSUME TypeOK
    PROVE  /\ session.epoch \in Nat /\ session.last \in Nat
           /\ session.queue \in Seq(Commands) /\ session.waiter \in Slots \cup {NoSlot}
           /\ device.epoch \in Nat /\ device.revoked \in BOOLEAN
           /\ \A c \in Commands : /\ pending[c].epoch \in Nat /\ pending[c].delivered \in BOOLEAN
                                  /\ pending[c].due \in Nat
           /\ \A s \in Slots : /\ handler[s].epoch \in Nat
                               /\ handler[s].cmd \in Commands \cup {NoCommand}
                               /\ handler[s].ok \in BOOLEAN
           /\ daemon.cmd \in Commands \cup {NoCommand} /\ daemon.slot \in Slots \cup {NoSlot}
           /\ daemon.known \subseteq Assignments /\ daemon.epoch \in Nat
           /\ daemon.ok \in BOOLEAN
           /\ starts \subseteq Commands
           /\ \A c \in Commands : AssignmentOf[c] \in Assignments
BY BrokerAssumption DEF TypeOK, Session, Pending, Handler, Daemon, Assignments

\* Rejecting the session's epoch is rejecting everything the broker holds.
LEMMA RejectsAll ==
    ASSUME TypeOK, OnlyCurrent, RejectEpoch
    PROVE  /\ \A c \in Commands :
                 /\ outcome'[c] = IF IsPending(c) THEN Failure(pending[c]) ELSE outcome[c]
                 /\ pending'[c].epoch = 0 /\ binding'[c] = 0
           /\ listeners' = {}
           /\ pending' \in [Commands -> Pending] /\ binding' \in [Commands -> Nat]
           /\ outcome' \in [Commands -> Outcome]
<1>1. ASSUME NEW c \in Commands
      PROVE  /\ outcome'[c] = IF IsPending(c) THEN Failure(pending[c]) ELSE outcome[c]
             /\ outcome'[c] \in Outcome
             /\ pending'[c] \in Pending /\ pending'[c].epoch = 0 /\ binding'[c] = 0
  BY Blanks DEF RejectEpoch, OnlyCurrent, IsPending, Failure, Outcome, TypeOK
<1>2. listeners' = {}
  BY Parts DEF RejectEpoch, OnlyCurrent, TypeOK
<1>3. pending' \in [Commands -> Pending]
  BY <1>1 DEF RejectEpoch
<1>4. binding' \in [Commands -> Nat]
  BY <1>1 DEF RejectEpoch
<1>5. outcome' \in [Commands -> Outcome]
  BY <1>1 DEF RejectEpoch
<1>. QED
  BY <1>1, <1>2, <1>3, <1>4, <1>5


-----------------------------------------------------------------------------
(* Types.                                                                    *)

\* The requests and sessions that the actions write.
LEMMA Moved ==
    /\ \A h \in Handler, pc \in {"read", "cas", "touch", "act", "wait", "reply"} :
          [h EXCEPT !.pc = pc] \in Handler
    /\ \A h \in Handler, e \in Nat, pc \in {"cas", "act"} :
          [h EXCEPT !.pc = pc, !.epoch = e] \in Handler
    /\ \A h \in Handler, n \in Nat : [h EXCEPT !.pc = "wait", !.due = n] \in Handler
BY DEF Handler

\* What the broker does keeps the types.
LEMMA BrokeringTyped ==
    ASSUME BrokerInv, UNCHANGED starts, NEW s \in Slots, Brokering(s)
    PROVE  TypeOK'
<1>. USE DEF broker, local, bounds
<1>0. /\ TypeOK /\ OnlyCurrent /\ Queued /\ handler[s] \in Handler
      /\ session \in Session /\ clock \in Nat /\ session.waiter \in Slots \cup {NoSlot}
      /\ NoCommand \in Commands \cup {NoCommand} /\ TRUE \in BOOLEAN /\ FALSE \in BOOLEAN
  BY Parts DEF BrokerInv, Tables, TypeOK
<1>r. \A ok \in BOOLEAN, c \in Commands \cup {NoCommand} : Reply(handler[s], c, ok) \in Handler
  BY <1>0, Replied
<1>1. CASE Activate(s)
  <2>1. CASE Supersedes(handler[s].epoch)
    <3>1. RejectEpoch /\ starts' = starts
          /\ session' = [NoSession EXCEPT !.epoch = handler[s].epoch, !.last = clock]
          /\ handler' = [Dismissed(session.waiter) EXCEPT
                            ![s] = Reply(handler[s], NoCommand, TRUE)]
          /\ UNCHANGED <<device, barred, revoking, handed, local, bounds>>
      BY <1>1, <2>1 DEF Activate
    <3>2. session' \in Session
      BY <1>0, <3>1, Blanks DEF Session, Handler
    <3>3. handler' \in [Slots -> Handler]
      BY <1>0, <1>r, <3>1, DismissedRows DEF TypeOK
    <3>4. /\ listeners' = {} /\ pending' \in [Commands -> Pending]
          /\ binding' \in [Commands -> Nat] /\ outcome' \in [Commands -> Outcome]
      BY <1>0, <3>1, RejectsAll
    <3>. QED
      BY <1>0, <3>1, <3>2, <3>3, <3>4 DEF TypeOK
  <2>2. CASE ~Supersedes(handler[s].epoch)
    BY <1>0, <1>1, <1>r, <2>2 DEF Activate, TypeOK
  <2>. QED
    BY <2>1, <2>2
<1>2. CASE Poll(s)
  <2>1. CASE handler' = [handler EXCEPT ![s] = Reply(handler[s], NoCommand, FALSE)]
             /\ UNCHANGED <<session, pending, handed>>
    BY <1>0, <1>2, <1>r, <2>1 DEF Poll, TypeOK
  <2>2. CASE /\ Deliverable # <<>>
             /\ session' = [session EXCEPT !.last = clock, !.queue = Tail(Deliverable)]
             /\ Hand(Head(Deliverable))
             /\ handler' = [handler EXCEPT ![s] = Reply(handler[s], Head(Deliverable), TRUE)]
    <3>1. Deliverable \in Seq(Commands)
      BY <1>0, AllDeliverable
    <3>2. Head(Deliverable) \in Commands /\ Tail(Deliverable) \in Seq(Commands)
      BY <2>2, <3>1, HeadTailProperties
    <3>3. session' \in Session
      BY <1>0, <2>2, <3>2 DEF Session
    <3>4. handler' \in [Slots -> Handler]
      BY <1>0, <1>r, <2>2, <3>2 DEF TypeOK
    <3>5. \A c \in Commands : Delivered(pending[c]) \in Pending
      BY <1>0, DeliveredTyped DEF TypeOK
    <3>6. pending' \in [Commands -> Pending] /\ handed' \in [Commands -> Nat]
      BY <1>0, <2>2, <3>2, <3>5 DEF Hand, TypeOK
    <3>. QED
      BY <1>0, <1>2, <3>3, <3>4, <3>6 DEF Poll, TypeOK
  <2>3. CASE /\ session' = [session EXCEPT !.last = clock, !.queue = <<>>, !.waiter = s]
             /\ handler' = [Dismissed(session.waiter) EXCEPT
                                ![s].pc = "wait", ![s].due = clock + LongPoll]
             /\ UNCHANGED <<pending, handed>>
    <3>1. session' \in Session
      BY <1>0, <2>3, Blanks DEF Session, NoSession
    <3>2. clock + LongPoll \in Nat
      BY <1>0, Delays
    <3>3. Dismissed(session.waiter) \in [Slots -> Handler]
      BY <1>0, DismissedRows DEF TypeOK
    <3>4. [Dismissed(session.waiter)[s] EXCEPT !.pc = "wait", !.due = clock + LongPoll] \in Handler
      BY <3>2, <3>3 DEF Handler
    <3>5. handler' \in [Slots -> Handler]
      BY <2>3, <3>3, <3>4
    <3>. QED
      BY <1>0, <1>2, <2>3, <3>1, <3>5 DEF Poll, TypeOK
  <2>. QED
    BY <1>2, <2>1, <2>2, <2>3 DEF Poll
<1>3. CASE PollTimeout(s)
  <2>1. session' \in Session
    BY <1>0, <1>3 DEF PollTimeout, Session
  <2>. QED
    BY <1>0, <1>3, <1>r, <2>1 DEF PollTimeout, TypeOK
<1>4. CASE Complete(s)
  <2>1. session' \in Session
    BY <1>0, <1>4 DEF Complete, Session
  <2>2. pending' \in [Commands -> Pending]
    BY <1>0, <1>4, Blanks DEF Complete, TypeOK
  <2>3. outcome' \in [Commands -> Outcome] /\ binding' \in [Commands -> Nat]
    BY <1>0, <1>4, Parts DEF Complete, TypeOK, Outcome
  <2>4. handler' \in [Slots -> Handler]
    BY <1>0, <1>4, <1>r DEF Complete, TypeOK
  <2>. QED
    BY <1>0, <1>4, <2>1, <2>2, <2>3, <2>4 DEF Complete, TypeOK
<1>5. CASE PublishStatus(s)
  <2>1. session' \in Session
    BY <1>0, <1>5 DEF PublishStatus, Session
  <2>. QED
    BY <1>0, <1>5, <2>1, Blanks DEF PublishStatus, TypeOK
<1>. QED
  BY <1>1, <1>2, <1>3, <1>4, <1>5 DEF Brokering

\* So does what its callers ask of it.
LEMMA CallingTyped ==
    ASSUME BrokerInv, UNCHANGED starts, NEW c \in Commands, Calling(c)
    PROVE  TypeOK'
<1>. USE DEF broker, local, bounds
<1>0. /\ TypeOK /\ Queued /\ session \in Session /\ clock \in Nat
      /\ session.queue \in Seq(Commands) /\ session.waiter \in Slots \cup {NoSlot}
  BY Parts DEF BrokerInv, Tables, TypeOK
<1>1. CASE Dispatch(c)
  <2>. DEFINE p == [epoch |-> session.epoch, delivered |-> FALSE, due |-> clock + AcceptDeadline]
  <2>1. p \in Pending /\ Delivered(p) \in Pending
    <3>1. session.epoch \in Nat /\ clock + AcceptDeadline \in Nat
      BY <1>0, Delays DEF Session
    <3>2. p \in Pending
      BY <3>1 DEF Pending
    <3>. QED
      BY <1>0, <3>2, DeliveredTyped
  <2>2. Append(session.queue, c) \in Seq(Commands)
    BY <1>0, AppendProperties
  <2>. HIDE DEF p
  <2>3. [session EXCEPT !.waiter = NoSlot] \in Session
        /\ [session EXCEPT !.queue = Append(@, c)] \in Session
    BY <1>0, <2>2 DEF Session
  <2>4. session.waiter # NoSlot => Reply(handler[session.waiter], c, TRUE) \in Handler
    BY <1>0, Replied DEF TypeOK
  <2>5. CASE /\ outcome' = [outcome EXCEPT ![c] = "refused"]
             /\ UNCHANGED <<session, pending, handed, handler>>
    BY <1>0, <1>1, <2>5 DEF Dispatch, TypeOK, Outcome
  <2>6. CASE /\ session.waiter # NoSlot
             /\ session' = [session EXCEPT !.waiter = NoSlot]
             /\ pending' = [pending EXCEPT ![c] = Delivered(p)]
             /\ handed' = [handed EXCEPT ![c] = @ + 1]
             /\ handler' = [handler EXCEPT ![session.waiter] = Reply(@, c, TRUE)]
             /\ UNCHANGED outcome
    <3>1. handler' \in [Slots -> Handler]
      BY <1>0, <2>4, <2>6 DEF TypeOK
    <3>2. pending' \in [Commands -> Pending] /\ handed' \in [Commands -> Nat]
      BY <1>0, <2>1, <2>6 DEF TypeOK
    <3>. QED
      BY <1>0, <1>1, <2>3, <2>6, <3>1, <3>2 DEF Dispatch, TypeOK
  <2>7. CASE /\ session' = [session EXCEPT !.queue = Append(@, c)]
             /\ pending' = [pending EXCEPT ![c] = p]
             /\ UNCHANGED <<handed, handler, outcome>>
    BY <1>0, <1>1, <2>1, <2>3, <2>7 DEF Dispatch, TypeOK
  <2>. QED
    BY <1>1, <2>5, <2>6, <2>7 DEF Dispatch, p
<1>2. CASE Expire(c)
  <2>1. Spliced(session.queue, c) \in Seq(Commands)
    BY <1>0, SplicedQueue DEF Queued
  <2>2. session' \in Session
    BY <1>0, <1>2, <2>1 DEF Expire, Session
  <2>3. outcome' \in [Commands -> Outcome]
    BY <1>0, <1>2 DEF Expire, TypeOK, Outcome, Failure
  <2>4. pending' \in [Commands -> Pending]
    BY <1>0, <1>2, Blanks DEF Expire, TypeOK
  <2>. QED
    BY <1>0, <1>2, <2>2, <2>3, <2>4 DEF Expire, TypeOK
<1>3. CASE Subscribe(c)
  <2>1. c \in starts
    BY <1>3 DEF Subscribe, BrokerInv, Tables
  <2>. QED
    BY <1>0, <1>3, <2>1 DEF Subscribe, TypeOK
<1>4. CASE CloseSubscription(c)
  BY <1>0, <1>4 DEF CloseSubscription, TypeOK
<1>. QED
  BY <1>1, <1>2, <1>3, <1>4 DEF Calling

\* So do the routes, revocation and a restart of the server.
LEMMA RoutingTyped ==
    ASSUME BrokerInv, UNCHANGED starts,
           \/ \E s \in Slots : Routing(s)
           \/ RevokeDevice \/ RevokeBroker \/ ServerRestart
    PROVE  TypeOK'
<1>. USE DEF broker, local, bounds
<1>0. /\ TypeOK /\ OnlyCurrent /\ session.waiter \in Slots \cup {NoSlot}
      /\ device.epoch \in Nat /\ \A h \in Handler : Reply(h, NoCommand, FALSE) \in Handler
  BY Parts, Replied DEF BrokerInv, Tables, TypeOK
<1>1. ASSUME NEW s \in Slots, OpenRead(s)
      PROVE  TypeOK'
  BY <1>0, <1>1, Moved DEF OpenRead, TypeOK
<1>2. ASSUME NEW s \in Slots, OpenCas(s)
      PROVE  TypeOK'
  <2>1. handler[s].epoch + 1 \in Nat /\ handler[s] \in Handler
    BY <1>0, Parts DEF TypeOK
  <2>2. [handler[s] EXCEPT !.pc = "act", !.epoch = @ + 1] \in Handler
    BY <2>1, Moved
  <2>3. handler' \in [Slots -> Handler]
    <3>1. \/ handler' = [handler EXCEPT ![s].pc = "act", ![s].epoch = @ + 1]
          \/ handler' = [handler EXCEPT ![s] = Reply(handler[s], NoCommand, FALSE)]
      BY <1>2 DEF OpenCas
    <3>. QED
      BY <1>0, <2>1, <2>2, <3>1 DEF TypeOK
  <2>4. device' \in [epoch : Nat, revoked : BOOLEAN]
    <3>1. [device EXCEPT !.epoch = @ + 1] \in [epoch : Nat, revoked : BOOLEAN]
      BY <1>0 DEF TypeOK
    <3>. QED
      BY <1>0, <1>2, <3>1 DEF OpenCas, TypeOK
  <2>. QED
    BY <1>0, <1>2, <2>3, <2>4 DEF OpenCas, TypeOK
<1>3. ASSUME NEW s \in Slots, Touch(s)
      PROVE  TypeOK'
  BY <1>0, <1>3, Moved DEF Touch, TypeOK
<1>4. ASSUME NEW s \in Slots, Unheard(s)
      PROVE  TypeOK'
  BY <1>0, <1>4, Blanks DEF Unheard, Server, TypeOK
<1>5. CASE RevokeDevice
  BY <1>0, <1>5 DEF RevokeDevice, TypeOK
<1>6. CASE RevokeBroker
  <2>1. CASE session.epoch # 0
    BY <1>0, <1>6, <2>1, Blanks, RejectsAll, DismissedRows DEF RevokeBroker, TypeOK
  <2>2. CASE session.epoch = 0
    BY <1>0, <1>6, <2>2 DEF RevokeBroker, TypeOK
  <2>. QED
    BY <2>1, <2>2
<1>7. CASE ServerRestart
  <2>1. daemon' \in Daemon
    BY <1>0, <1>7, Blanks DEF ServerRestart, TypeOK, Reconnects, Daemon
  <2>2. outcome' \in [Commands -> Outcome]
    BY <1>0, <1>7 DEF ServerRestart, TypeOK, Failure, Outcome
  <2>3. /\ session' \in Session /\ pending' \in [Commands -> Pending]
        /\ binding' \in [Commands -> Nat] /\ handler' \in [Slots -> Handler]
        /\ listeners' = {} /\ barred' = FALSE /\ revoking' = FALSE /\ crashes' \in Nat
    BY <1>0, <1>7, Blanks DEF ServerRestart, TypeOK
  <2>4. barred' \in BOOLEAN /\ revoking' \in BOOLEAN
    BY <2>3, Zenon
  <2>. QED
    BY <1>0, <1>7, <2>1, <2>2, <2>3, <2>4 DEF ServerRestart, TypeOK
<1>. QED
  BY <1>1, <1>2, <1>3, <1>4, <1>5, <1>6, <1>7 DEF Routing

\* And so does the daemon process.
LEMMA DaemonTyped ==
    ASSUME BrokerInv, UNCHANGED starts,
           \/ \E s \in Slots : Looping(s)
           \/ DaemonStarts \/ Claim \/ Execute \/ ConnectionLost \/ DaemonCrash \/ Tick
           \/ UNCHANGED vars
    PROVE  TypeOK'
<1>. USE DEF broker, local, bounds, Server
<1>0. /\ TypeOK /\ daemon \in Daemon /\ clock \in Nat /\ crashes \in Nat
      /\ daemon.cmd \in Commands \cup {NoCommand} /\ daemon.epoch \in Nat /\ daemon.ok \in BOOLEAN
      /\ Reconnects \in Daemon
  BY Parts, Blanks DEF BrokerInv, TypeOK, Reconnects, Daemon
<1>1. ASSUME NEW s \in Slots, NEW h \in Handler, Send(s, h)
      PROVE  TypeOK'
  <2>1. daemon' \in Daemon
    BY <1>0, <1>1 DEF Send, Daemon
  <2>. QED
    BY <1>0, <1>1, <2>1 DEF Send, Request, TypeOK
<1>2. /\ [NoHandler EXCEPT !.kind = "open"] \in Handler
      /\ [NoHandler EXCEPT !.kind = "poll", !.pc = "touch", !.epoch = daemon.epoch] \in Handler
      /\ [NoHandler EXCEPT !.kind = "result", !.pc = "touch", !.epoch = daemon.epoch,
                           !.cmd = daemon.cmd, !.ok = daemon.ok] \in Handler
      /\ \A c \in Commands :
            [NoHandler EXCEPT !.kind = "status", !.pc = "touch",
                              !.epoch = daemon.epoch, !.cmd = c] \in Handler
  BY <1>0, Blanks DEF Handler
<1>3. ASSUME NEW s \in Slots, SendOpen(s) \/ SendPoll(s) \/ SendResult(s)
      PROVE  TypeOK'
  BY <1>1, <1>2, <1>3 DEF SendOpen, SendPoll, SendResult
<1>4. ASSUME NEW s \in Slots, SendStatus(s)
      PROVE  TypeOK'
  <2>1. PICK c \in starts :
          Request(s, [NoHandler EXCEPT !.kind = "status", !.pc = "touch",
                                       !.epoch = daemon.epoch, !.cmd = c])
    BY <1>4 DEF SendStatus
  <2>2. c \in Commands
    BY <1>0, Parts
  <2>3. handler' \in [Slots -> Handler]
    BY <1>0, <1>2, <2>1, <2>2 DEF Request, TypeOK
  <2>. QED
    BY <1>0, <1>4, <2>3 DEF SendStatus, TypeOK
<1>5. ASSUME NEW s \in Slots, Receive(s)
      PROVE  TypeOK'
  <2>. DEFINE d == [daemon EXCEPT !.slot = NoSlot, !.cmd = handler[s].cmd, !.ok = FALSE]
  <2>1. handler[s].cmd \in Commands \cup {NoCommand} /\ handler[s].epoch \in Nat
    BY <1>0, Parts
  <2>2. d \in Daemon
    BY <1>0, <2>1 DEF Daemon
  <2>3. /\ [d EXCEPT !.pc = "poll", !.epoch = handler[s].epoch] \in Daemon
        /\ [d EXCEPT !.pc = "claim"] \in Daemon /\ [d EXCEPT !.pc = "poll"] \in Daemon
    BY <2>1, <2>2 DEF Daemon
  <2>4. daemon' \in {Reconnects, [d EXCEPT !.pc = "poll", !.epoch = handler[s].epoch],
                     [d EXCEPT !.pc = "claim"], [d EXCEPT !.pc = "poll"]}
    BY <1>5 DEF Receive
  <2>. HIDE DEF d
  <2>. QED
    BY <1>0, <1>5, <2>3, <2>4, Blanks DEF Receive, TypeOK
<1>6. CASE DaemonStarts
  <2>1. daemon' \in Daemon
    BY <1>0, <1>6, Blanks DEF DaemonStarts, Daemon, TypeOK
  <2>. QED
    BY <1>0, <1>6, <2>1 DEF DaemonStarts, TypeOK
<1>7. CASE Claim
  <2>. DEFINE k == daemon.known \cup {AssignmentOf[daemon.cmd]}
  <2>1. daemon.cmd \in starts => k \subseteq Assignments
    BY <1>0, Parts
  <2>2. /\ [daemon EXCEPT !.pc = "report", !.ok = FALSE] \in Daemon
        /\ [daemon EXCEPT !.pc = "execute"] \in Daemon
        /\ daemon.cmd \in starts => /\ [daemon EXCEPT !.pc = "execute", !.known = k] \in Daemon
                                    /\ [Reconnects EXCEPT !.known = k] \in Daemon
    BY <1>0, <2>1 DEF Daemon
  <2>3. daemon' \in Daemon
    BY <1>7, <2>2 DEF Claim
  <2>4. journal' \subseteq Assignments
    BY <1>0, <1>7, <2>1 DEF Claim, TypeOK
  <2>. QED
    BY <1>0, <1>7, <2>3, <2>4 DEF Claim, TypeOK
<1>8. CASE Execute
  <2>1. daemon' \in Daemon
    BY <1>0, <1>8 DEF Execute, Daemon
  <2>2. executed' \in [Assignments -> Nat]
    <3>1. daemon.cmd \in starts => AssignmentOf[daemon.cmd] \in Assignments
      BY <1>0, Parts
    <3>2. executed' = IF daemon.cmd \in starts
                      THEN [executed EXCEPT ![AssignmentOf[daemon.cmd]] = @ + 1] ELSE executed
      BY <1>8 DEF Execute
    <3>3. executed \in [Assignments -> Nat]
      BY <1>0 DEF TypeOK
    <3>. QED
      BY <3>1, <3>2, <3>3
  <2>. QED
    BY <1>0, <1>8, <2>1, <2>2 DEF Execute, TypeOK
<1>9. CASE ConnectionLost
  BY <1>0, <1>9 DEF ConnectionLost, TypeOK
<1>10. CASE DaemonCrash
  BY <1>0, <1>10, Blanks DEF DaemonCrash, TypeOK
<1>11. CASE Tick
  BY <1>0, <1>11 DEF Tick, TypeOK
<1>12. CASE UNCHANGED vars
  BY <1>0, <1>12 DEF vars, TypeOK
<1>. QED
  BY <1>3, <1>4, <1>5, <1>6, <1>7, <1>8, <1>9, <1>10, <1>11, <1>12 DEF Looping


-----------------------------------------------------------------------------
(* The tables of the broker.                                                 *)

\* A session that ends, in whatever way, leaves nothing behind.
LEMMA TablesEmptied ==
    ASSUME TypeOK, Tables,
           \A c \in Commands :
              /\ outcome'[c] = IF IsPending(c) THEN Failure(pending[c]) ELSE outcome[c]
              /\ pending'[c].epoch = 0 /\ binding'[c] = 0,
           listeners' = {}, session'.queue = <<>>, handed' = handed
    PROVE  Tables'
<1>1. OnlyCurrent'
  BY DEF OnlyCurrent, IsPending
<1>2. Once(session'.queue) /\ \A c \in Commands : ~Holds(session'.queue, c)
  BY DEF Once, Holds
<1>3. Queued'
  BY <1>2 DEF Queued, IsPending
<1>4. \A c \in Commands : Life(c)'
  BY Parts DEF Tables, Life, IsPending, Failure
<1>. QED
  BY <1>1, <1>3, <1>4 DEF Tables

\* A poll hands over the head of the queue, which is awaited and was not handed
\* over before.
LEMMA TablesHand ==
    ASSUME TypeOK, Tables, session.queue # <<>>,
           session' = [session EXCEPT !.last = clock, !.queue = Tail(session.queue)],
           Hand(Head(session.queue)), UNCHANGED <<starts, binding, listeners, outcome>>
    PROVE  Tables'
<1>. DEFINE q == session.queue
            h == Head(q)
<1>0. /\ q \in Seq(Commands) /\ Len(q) \in Nat \ {0} /\ DOMAIN q = 1 .. Len(q)
      /\ q[1] = h /\ h \in Commands
      /\ Tail(q) \in Seq(Commands) /\ DOMAIN Tail(q) = 1 .. Len(q) - 1
      /\ \A i \in 1 .. Len(q) - 1 : Tail(q)[i] = q[i + 1]
  <2>1. q \in Seq(Commands)
    BY Parts
  <2>2. Len(q) \in Nat \ {0} /\ DOMAIN q = 1 .. Len(q)
    BY <2>1, EmptySeq, LenProperties
  <2>3. q[1] = h
    OBVIOUS
  <2>4. /\ h \in Commands /\ Tail(q) \in Seq(Commands) /\ Len(Tail(q)) = Len(q) - 1
        /\ \A i \in 1 .. Len(Tail(q)) : Tail(q)[i] = q[i + 1]
    BY <2>1, HeadTailProperties
  <2>5. DOMAIN Tail(q) = 1 .. Len(q) - 1
    BY <2>4, LenProperties
  <2>. QED
    BY <2>1, <2>2, <2>3, <2>4, <2>5
<1>1. session'.queue = Tail(q) /\ session'.epoch = session.epoch
  BY DEF TypeOK, Session
<1>2. /\ pending'[h].epoch = pending[h].epoch /\ pending'[h].delivered = TRUE
      /\ \A c \in Commands \ {h} : pending'[c] = pending[c]
      /\ handed'[h] = handed[h] + 1
      /\ \A c \in Commands \ {h} : handed'[c] = handed[c]
  BY <1>0, DeliveredTyped DEF Hand, TypeOK
<1>. HIDE DEF h, q
<1>3. IsPending(h) /\ ~pending[h].delivered
  <2>1. Holds(q, h)
    BY <1>0 DEF Holds
  <2>. QED
    BY <1>0, <2>1 DEF Tables, Queued, q
<1>4. handed[h] = 0 /\ outcome[h] = "none"
  BY <1>0, <1>3 DEF Tables, Life
<1>5. OnlyCurrent'
  BY <1>0, <1>1, <1>2 DEF Tables, OnlyCurrent, IsPending
<1>6. Once(q)
  BY DEF Tables, Queued, q
<1>7. /\ \A c \in Commands : Holds(Tail(q), c) <=> c # h /\ Holds(q, c)
      /\ Once(Tail(q))
  <2>1. ASSUME NEW c \in Commands, Holds(Tail(q), c)
        PROVE  c # h /\ Holds(q, c)
    BY <1>0, <1>6, <2>1 DEF Holds, Once
  <2>2. ASSUME NEW c \in Commands, c # h, Holds(q, c)
        PROVE  Holds(Tail(q), c)
    <3>1. PICK j \in 1 .. Len(q) : q[j] = c
      BY <1>0, <2>2 DEF Holds
    <3>2. j - 1 \in 1 .. Len(q) - 1 /\ (j - 1) + 1 = j
      BY <1>0, <2>2, <3>1
    <3>3. Tail(q)[j - 1] = c
      BY <1>0, <3>1, <3>2
    <3>. QED
      BY <1>0, <3>2, <3>3 DEF Holds
  <2>3. Once(Tail(q))
    BY <1>0, <1>6 DEF Once
  <2>. QED
    BY <2>1, <2>2, <2>3
<1>8. Queued'
  <2>1. \A c \in Commands : IsPending(c) /\ ~pending[c].delivered <=> Holds(q, c)
    BY DEF Tables, Queued, q
  <2>2. \A c \in Commands : (IsPending(c) /\ ~pending[c].delivered)'
                               <=> c # h /\ IsPending(c) /\ ~pending[c].delivered
    BY <1>0, <1>2 DEF IsPending
  <2>. QED
    BY <1>1, <1>7, <2>1, <2>2 DEF Queued
<1>9. \A c \in Commands : Life(c)'
  BY <1>0, <1>2, <1>3, <1>4 DEF Tables, Life, IsPending
<1>. QED
  BY <1>5, <1>8, <1>9 DEF Tables

\* A command that is dispatched is handed to the parked poll, or queued, or
\* refused.
LEMMA TablesDispatch ==
    ASSUME TypeOK, Tables, NEW c \in Commands, Dispatch(c), UNCHANGED starts
    PROVE  Tables'
<1>. DEFINE q == session.queue
            p == [epoch |-> session.epoch, delivered |-> FALSE, due |-> clock + AcceptDeadline]
<1>0. /\ q \in Seq(Commands) /\ Len(q) \in Nat /\ DOMAIN q = 1 .. Len(q)
      /\ session.epoch \in Nat /\ outcome[c] = "none" /\ ~IsPending(c) /\ handed[c] = 0
      /\ UNCHANGED <<binding, listeners, starts>>
      /\ handed \in [Commands -> Nat]
  <2>1. q \in Seq(Commands) /\ session.epoch \in Nat
    BY Parts
  <2>2. Len(q) \in Nat /\ DOMAIN q = 1 .. Len(q)
    BY <2>1, LenProperties
  <2>. QED
    BY <2>1, <2>2 DEF Dispatch, Tables, Life, TypeOK
<1>1. ~Holds(q, c) /\ Once(q)
      /\ \A d \in Commands : IsPending(d) /\ ~pending[d].delivered <=> Holds(q, d)
  BY <1>0 DEF Tables, Queued
<1>2. CASE /\ outcome' = [outcome EXCEPT ![c] = "refused"]
           /\ UNCHANGED <<session, pending, handed, handler>>
  <2>1. OnlyCurrent' /\ Queued'
    BY <1>0, <1>2 DEF Tables, OnlyCurrent, Queued, IsPending
  <2>2. \A d \in Commands : Life(d)'
    BY <1>0, <1>2 DEF Tables, Life, IsPending, TypeOK
  <2>. QED
    BY <1>0, <2>1, <2>2 DEF Tables
<1>3. CASE /\ Active(session.epoch)
           /\ session' = [session EXCEPT !.waiter = NoSlot]
           /\ pending' = [pending EXCEPT ![c] = Delivered(p)]
           /\ handed' = [handed EXCEPT ![c] = @ + 1]
           /\ UNCHANGED outcome
  <2>1. session'.queue = q /\ session'.epoch = session.epoch /\ session.epoch # 0
    BY <1>3 DEF TypeOK, Session, Active
  <2>2. /\ pending'[c].epoch = session.epoch /\ pending'[c].delivered = TRUE
        /\ \A d \in Commands \ {c} : pending'[d] = pending[d] /\ handed'[d] = handed[d]
        /\ handed'[c] = 1
    BY <1>0, <1>3 DEF Delivered, TypeOK
  <2>. HIDE DEF q
  <2>3. OnlyCurrent'
    BY <1>0, <2>1, <2>2 DEF Tables, OnlyCurrent, IsPending
  <2>4. Queued'
    BY <1>0, <1>1, <2>1, <2>2 DEF Queued, IsPending
  <2>5. \A d \in Commands : Life(d)'
    BY <1>0, <1>3, <2>1, <2>2 DEF Tables, Life, IsPending
  <2>. QED
    BY <1>0, <2>3, <2>4, <2>5 DEF Tables
<1>4. CASE /\ Active(session.epoch)
           /\ session' = [session EXCEPT !.queue = Append(q, c)]
           /\ pending' = [pending EXCEPT ![c] = p]
           /\ UNCHANGED <<handed, outcome>>
  <2>. DEFINE r == Append(q, c)
  <2>1. session'.queue = r /\ session'.epoch = session.epoch /\ session.epoch # 0
    BY <1>4 DEF TypeOK, Session, Active
  <2>2. /\ pending'[c].epoch = session.epoch /\ pending'[c].delivered = FALSE
        /\ \A d \in Commands \ {c} : pending'[d] = pending[d]
    BY <1>4 DEF TypeOK
  <2>3. /\ DOMAIN r = 1 .. Len(q) + 1 /\ r[Len(q) + 1] = c
        /\ \A i \in 1 .. Len(q) : r[i] = q[i]
    <3>1. r \in Seq(Commands) /\ Len(r) = Len(q) + 1
      BY <1>0, AppendProperties
    <3>. QED
      BY <1>0, <3>1, AppendProperties, LenProperties
  <2>. HIDE DEF r, q
  <2>4. OnlyCurrent'
    BY <1>0, <2>1, <2>2 DEF Tables, OnlyCurrent, IsPending
  <2>5. \A d \in Commands : Holds(r, d) <=> d = c \/ Holds(q, d)
    BY <1>0, <2>3 DEF Holds
  <2>6. Once(r)
    BY <1>0, <1>1, <2>3 DEF Holds, Once
  <2>7. Queued'
    <3>1. ASSUME NEW d \in Commands
          PROVE  (IsPending(d) /\ ~pending[d].delivered)' <=> Holds(r, d)
      <4>1. CASE d = c
        BY <2>1, <2>2, <2>5, <4>1 DEF IsPending
      <4>2. CASE d # c
        <5>1. pending'[d] = pending[d]
          BY <2>2, <4>2
        <5>2. IsPending(d) /\ ~pending[d].delivered <=> Holds(q, d)
          BY <1>1
        <5>. QED
          BY <2>5, <4>2, <5>1, <5>2 DEF IsPending
      <4>. QED
        BY <4>1, <4>2
    <3>. QED
      BY <2>1, <2>6, <3>1 DEF Queued
  <2>8. \A d \in Commands : Life(d)'
    BY <1>0, <1>4, <2>1, <2>2 DEF Tables, Life, IsPending
  <2>. QED
    BY <1>0, <2>4, <2>7, <2>8 DEF Tables
<1>. QED
  BY <1>2, <1>3, <1>4 DEF Dispatch

\* A command whose deadline has passed leaves the table and the queue.
LEMMA TablesExpire ==
    ASSUME TypeOK, Tables, NEW c \in Commands, Expire(c), UNCHANGED starts
    PROVE  Tables'
<1>. DEFINE q == session.queue
            r == Spliced(q, c)
<1>0. /\ q \in Seq(Commands) /\ pending[c].epoch = session.epoch /\ IsPending(c)
      /\ UNCHANGED <<binding, listeners, starts, handed>>
  BY Parts DEF Expire, Tables, OnlyCurrent
<1>1. session'.queue = r /\ session'.epoch = session.epoch
  BY <1>0 DEF Expire, TypeOK, Session
<1>2. /\ pending'[c].epoch = 0 /\ outcome'[c] = Failure(pending[c])
      /\ \A d \in Commands \ {c} : pending'[d] = pending[d] /\ outcome'[d] = outcome[d]
  BY Blanks DEF Expire, TypeOK
<1>3. Once(q) /\ \A d \in Commands : IsPending(d) /\ ~pending[d].delivered <=> Holds(q, d)
  BY DEF Tables, Queued
<1>4. Once(r) /\ \A d \in Commands : Holds(r, d) <=> d # c /\ Holds(q, d)
  BY <1>0, <1>3, SplicedQueue
<1>. HIDE DEF r, q
<1>5. OnlyCurrent'
  BY <1>0, <1>1, <1>2 DEF Tables, OnlyCurrent, IsPending
<1>6. Queued'
  <2>1. \A d \in Commands : (IsPending(d) /\ ~pending[d].delivered)'
                               <=> d # c /\ IsPending(d) /\ ~pending[d].delivered
    BY <1>0, <1>2 DEF IsPending
  <2>. QED
    BY <1>1, <1>3, <1>4, <2>1 DEF Queued
<1>7. \A d \in Commands : Life(d)'
  BY <1>0, <1>2, Parts DEF Tables, Life, IsPending, Failure
<1>. QED
  BY <1>0, <1>5, <1>6, <1>7 DEF Tables

\* A result is only of a command that was handed over, so the queue does not
\* hold it.
LEMMA TablesComplete ==
    ASSUME TypeOK, Tables, Known, NEW s \in Slots, Complete(s), UNCHANGED starts
    PROVE  Tables'
<1>. DEFINE h == handler[s]
            c == h.cmd
<1>0. /\ h.kind = "result" /\ h.pc = "act" /\ UNCHANGED <<listeners, starts, handed>>
      /\ c \in Commands \cup {NoCommand}
  BY Parts DEF Complete
<1>1. c \in Commands /\ handed[c] # 0
  BY <1>0 DEF Known, Fit
<1>2. CASE Active(h.epoch) /\ pending[c].epoch = h.epoch
  <2>1. h.epoch # 0 /\ session.epoch = h.epoch /\ IsPending(c)
    BY <1>2 DEF Active, IsPending
  <2>2. pending[c].delivered
    BY <1>1, <2>1 DEF Tables, Life
  <2>3. session'.epoch = session.epoch /\ session'.queue = session.queue
    BY <1>0, <1>2 DEF Complete, TypeOK, Session
  <2>4. /\ pending'[c].epoch = 0 /\ outcome'[c] \in {"answered", "lost"}
        /\ \A d \in Commands \ {c} : pending'[d] = pending[d] /\ outcome'[d] = outcome[d]
    BY <1>0, <1>1, <1>2, Blanks DEF Complete, TypeOK
  <2>5. \A d \in Commands : \/ binding'[d] = binding[d]
                            \/ d \in starts /\ binding'[d] = session.epoch
    BY <1>0, <1>1, <1>2, <2>1 DEF Complete, TypeOK
  <2>6. OnlyCurrent'
    <3>1. \A d \in listeners : d \in Commands /\ binding[d] # 0
      BY Parts DEF Tables, OnlyCurrent, TypeOK
    <3>2. \A d \in Commands : binding'[d] \in {binding[d], session.epoch}
      BY <2>5
    <3>. QED
      BY <1>0, <2>1, <2>3, <2>4, <3>1, <3>2 DEF Tables, OnlyCurrent, IsPending
  <2>7. Queued'
    BY <2>2, <2>3, <2>4 DEF Tables, Queued, IsPending
  <2>8. \A d \in Commands : Life(d)'
    BY <1>0, <1>1, <2>1, <2>2, <2>4 DEF Tables, Life, IsPending
  <2>. QED
    BY <1>0, <2>5, <2>6, <2>7, <2>8 DEF Tables
<1>3. CASE ~(Active(h.epoch) /\ pending[c].epoch = h.epoch)
  <2>1. UNCHANGED <<session, pending, binding, outcome>>
    BY <1>3 DEF Complete
  <2>. QED
    BY <1>0, <2>1 DEF Tables, OnlyCurrent, Queued, Life, IsPending
<1>. QED
  BY <1>2, <1>3

\* What leaves the queue and the tables alone keeps them.
LEMMA TablesKept ==
    ASSUME Tables, UNCHANGED <<starts, pending, binding, listeners, outcome, handed>>,
           session'.epoch = session.epoch, session'.queue = session.queue
    PROVE  Tables'
BY DEF Tables, OnlyCurrent, Queued, Life, IsPending

\* The broker's handlers keep the tables.
LEMMA TablesBrokering ==
    ASSUME BrokerInv, UNCHANGED starts, NEW s \in Slots, Brokering(s)
    PROVE  Tables'
<1>0. TypeOK /\ Tables /\ OnlyCurrent /\ Queued /\ Known /\ starts' = starts
  BY DEF BrokerInv, Tables
<1>1. CASE Activate(s)
  <2>1. CASE Supersedes(handler[s].epoch)
    <3>1. /\ RejectEpoch /\ handed' = handed
          /\ session' = [NoSession EXCEPT !.epoch = handler[s].epoch, !.last = clock]
      BY <1>1, <2>1 DEF Activate
    <3>2. session'.queue = <<>>
      BY <3>1 DEF NoSession
    <3>. QED
      BY <1>0, <3>1, <3>2, RejectsAll, TablesEmptied
  <2>2. CASE ~Supersedes(handler[s].epoch)
    BY <1>0, <1>1, <2>2, TablesKept DEF Activate
  <2>. QED
    BY <2>1, <2>2
<1>2. CASE Poll(s)
  <2>0. /\ Deliverable = session.queue /\ session \in Session
        /\ UNCHANGED <<starts, binding, listeners, outcome>>
    BY <1>0, <1>2, AllDeliverable DEF Poll, TypeOK
  <2>1. CASE UNCHANGED <<session, pending, handed>>
    BY <1>0, <2>0, <2>1, TablesKept
  <2>2. CASE /\ Deliverable # <<>>
             /\ session' = [session EXCEPT !.last = clock, !.queue = Tail(Deliverable)]
             /\ Hand(Head(Deliverable))
    BY <1>0, <2>0, <2>2, TablesHand
  <2>3. CASE /\ Deliverable = <<>>
             /\ session' = [session EXCEPT !.last = clock, !.queue = <<>>, !.waiter = s]
             /\ UNCHANGED <<pending, handed>>
    <3>1. session'.epoch = session.epoch /\ session'.queue = session.queue
      BY <2>0, <2>3 DEF Session
    <3>. QED
      BY <1>0, <2>0, <2>3, <3>1, TablesKept
  <2>. QED
    BY <1>2, <2>1, <2>2, <2>3 DEF Poll
<1>3. CASE PollTimeout(s)
  <2>1. session'.epoch = session.epoch /\ session'.queue = session.queue
    BY <1>0, <1>3 DEF PollTimeout, TypeOK, Session
  <2>. QED
    BY <1>0, <1>3, <2>1, TablesKept DEF PollTimeout
<1>4. CASE Complete(s)
  BY <1>0, <1>4, TablesComplete
<1>5. CASE PublishStatus(s)
  <2>1. session'.epoch = session.epoch /\ session'.queue = session.queue
    BY <1>0, <1>5 DEF PublishStatus, TypeOK, Session
  <2>. QED
    BY <1>0, <1>5, <2>1, TablesKept DEF PublishStatus
<1>. QED
  BY <1>1, <1>2, <1>3, <1>4, <1>5 DEF Brokering

\* So do the calls of those who dispatch and subscribe.
LEMMA TablesCalling ==
    ASSUME BrokerInv, UNCHANGED starts, NEW c \in Commands, Calling(c)
    PROVE  Tables'
<1>0. TypeOK /\ Tables /\ starts' = starts
  BY DEF BrokerInv
<1>1. CASE Subscribe(c) \/ CloseSubscription(c)
  <2>1. /\ UNCHANGED <<session, pending, binding, outcome, handed>>
        /\ \A d \in listeners' : d \in listeners \/ binding[d] # 0
    BY <1>1 DEF Subscribe, CloseSubscription
  <2>. QED
    BY <1>0, <2>1 DEF Tables, OnlyCurrent, Queued, Life, IsPending
<1>. QED
  BY <1>0, <1>1, TablesDispatch, TablesExpire DEF Calling

\* A revocation and a restart of the server empty them; nothing else reaches them.
LEMMA TablesServer ==
    ASSUME BrokerInv, UNCHANGED starts, RevokeBroker \/ ServerRestart
    PROVE  Tables'
<1>0. TypeOK /\ Tables /\ OnlyCurrent /\ starts' = starts
  BY DEF BrokerInv, Tables
<1>1. CASE RevokeBroker
  <2>1. CASE session.epoch # 0
    BY <1>0, <1>1, <2>1, Blanks, RejectsAll, TablesEmptied DEF RevokeBroker
  <2>2. CASE session.epoch = 0
    BY <1>0, <1>1, <2>2, TablesKept DEF RevokeBroker
  <2>. QED
    BY <2>1, <2>2
<1>2. CASE ServerRestart
  <2>1. \A c \in Commands :
           /\ outcome'[c] = IF IsPending(c) THEN Failure(pending[c]) ELSE outcome[c]
           /\ pending'[c].epoch = 0 /\ binding'[c] = 0
    BY <1>2, Blanks DEF ServerRestart
  <2>2. listeners' = {} /\ session'.queue = <<>> /\ handed' = handed
    BY <1>2, Blanks DEF ServerRestart
  <2>. QED
    BY <1>0, <2>1, <2>2, TablesEmptied
<1>. QED
  BY <1>1, <1>2

\* A step that leaves the broker and its commands alone keeps the tables.
LEMMA TablesElsewhere ==
    ASSUME Tables, UNCHANGED <<starts, broker, outcome, handed>>
    PROVE  Tables'
BY TablesKept DEF broker

-----------------------------------------------------------------------------
(* The requests, and what they know.                                         *)

\* Commands that were handed over stay so.
Grown == \A c \in Commands : handed[c] # 0 => handed'[c] # 0

\* A parked poll and what requests know, of the state before and after a step.
Serving == WaiterIsParked /\ \A s \in Slots : Fit(handler[s], handed)

\* A step that moves one request which is not parked, and parks none.
LEMMA OneMoves ==
    ASSUME TypeOK, Serving, NEW s \in Slots, NEW h,
           handler' = [handler EXCEPT ![s] = h],
           handler[s].pc # "wait", h.pc # "wait", Fit(h, handed'),
           session'.waiter = session.waiter, Grown
    PROVE  Serving'
<1>1. handler'[s] = h /\ \A t \in Slots \ {s} : handler'[t] = handler[t]
  BY DEF TypeOK
<1>2. WaiterIsParked'
  BY <1>1 DEF Serving, WaiterIsParked
<1>3. ASSUME NEW t \in Slots \ {s}
      PROVE  Fit(handler'[t], handed')
  BY <1>1, Parts DEF Serving, Fit, Grown
<1>. QED
  BY <1>1, <1>2, <1>3 DEF Serving

\* A step after which no poll is parked: the parked one, if any, is dismissed.
LEMMA NoneParked ==
    ASSUME TypeOK, Serving, session'.waiter = NoSlot, Grown,
           \A t \in Slots : \/ handler'[t] = Dismissed(session.waiter)[t]
                            \/ handler'[t].pc # "wait" /\ Fit(handler'[t], handed')
    PROVE  Serving'
<1>0. session.waiter \in Slots \cup {NoSlot} /\ NoSlot \notin Slots
      /\ handler \in [Slots -> Handler]
  BY Parts, BrokerAssumption DEF TypeOK
<1>1. ASSUME NEW t \in Slots
      PROVE  handler'[t].pc # "wait" /\ Fit(handler'[t], handed')
  <2>1. CASE handler'[t].pc # "wait" /\ Fit(handler'[t], handed')
    BY <2>1
  <2>2. CASE handler'[t] = Dismissed(session.waiter)[t] /\ t # session.waiter
    <3>1. handler'[t] = handler[t] /\ handler[t].pc # "wait"
      BY <1>0, <2>2, DismissedRows DEF Serving, WaiterIsParked
    <3>. QED
      BY <3>1, Parts DEF Serving, Fit, Grown
  <2>3. CASE handler'[t] = Dismissed(session.waiter)[t] /\ t = session.waiter
    <3>1. handler'[t] = Reply(handler[t], NoCommand, TRUE)
      BY <1>0, <2>3, DismissedRows
    <3>2. handler'[t].pc = "reply" /\ handler'[t].cmd = NoCommand
      <4>1. handler[t] \in Handler
        BY <1>0
      <4>. QED
        BY <3>1, <4>1 DEF Reply, Handler
    <3>. QED
      BY <3>2 DEF Fit
  <2>. QED
    BY <2>1, <2>2, <2>3
<1>. QED
  BY <1>0, <1>1 DEF Serving, WaiterIsParked

\* What the broker does.
LEMMA ServingBrokering ==
    ASSUME BrokerInv, NEW s \in Slots, Brokering(s)
    PROVE  Serving' /\ Grown /\ daemon' = daemon
<1>. USE DEF broker, local, bounds
<1>. DEFINE h == handler[s]
<1>0. /\ TypeOK /\ Serving /\ h \in Handler /\ Fit(h, handed)
      /\ session.waiter \in Slots \cup {NoSlot} /\ NoSlot \notin Slots
      /\ h.pc = "wait" <=> session.waiter = s
  BY Parts, BrokerAssumption DEF BrokerInv, Known, Serving, WaiterIsParked, TypeOK
<1>r. \A ok \in BOOLEAN : LET r == Reply(h, NoCommand, ok)
                          IN  r.pc # "wait" /\ \A n : Fit(r, n)
  <2> SUFFICES ASSUME NEW ok \in BOOLEAN, NEW n
               PROVE  Reply(h, NoCommand, ok).pc # "wait" /\ Fit(Reply(h, NoCommand, ok), n)
    OBVIOUS
  <2>1. Reply(h, NoCommand, ok).pc = "reply" /\ Reply(h, NoCommand, ok).cmd = NoCommand
    BY <1>0, Replied
  <2>. QED
    BY <2>1 DEF Fit
<1>1. CASE Activate(s)
  <2>0. daemon' = daemon /\ Grown /\ h.pc = "act"
    BY <1>1 DEF Activate, Grown
  <2>1. CASE Supersedes(h.epoch)
    <3>1. session'.waiter = NoSlot
      BY <1>1, <2>1 DEF Activate, NoSession
    <3>2. handler' = [Dismissed(session.waiter) EXCEPT ![s] = Reply(h, NoCommand, TRUE)]
      BY <1>1, <2>1 DEF Activate
    <3>3. Dismissed(session.waiter) \in [Slots -> Handler]
      BY <1>0, DismissedRows DEF TypeOK
    <3>4. \A t \in Slots : \/ handler'[t] = Dismissed(session.waiter)[t]
                           \/ handler'[t].pc # "wait" /\ Fit(handler'[t], handed')
      BY <1>r, <3>2, <3>3
    <3>. QED
      BY <1>0, <2>0, <3>1, <3>4, NoneParked
  <2>2. CASE ~Supersedes(h.epoch)
    <3>1. handler' = [handler EXCEPT ![s] = Reply(h, NoCommand, TRUE)]
          /\ session'.waiter = session.waiter
      BY <1>1, <2>2 DEF Activate
    <3>. QED
      BY <1>0, <1>r, <2>0, <3>1, OneMoves
  <2>. QED
    BY <2>1, <2>2
<1>2. CASE Poll(s)
  <2>0. /\ daemon' = daemon /\ h.pc = "act" /\ h.kind = "poll"
        /\ Deliverable = session.queue /\ session \in Session
    BY <1>0, <1>2, AllDeliverable DEF Poll, BrokerInv, Tables, TypeOK
  <2>1. CASE handler' = [handler EXCEPT ![s] = Reply(h, NoCommand, FALSE)]
             /\ UNCHANGED <<session, pending, handed>>
    <3>1. Grown /\ session'.waiter = session.waiter
      BY <2>1 DEF Grown
    <3>. QED
      BY <1>0, <1>r, <2>0, <2>1, <3>1, OneMoves
  <2>2. CASE /\ Deliverable # <<>>
             /\ session' = [session EXCEPT !.last = clock, !.queue = Tail(Deliverable)]
             /\ Hand(Head(Deliverable))
             /\ handler' = [handler EXCEPT ![s] = Reply(h, Head(Deliverable), TRUE)]
    <3>. DEFINE c == Head(Deliverable)
                r == Reply(h, c, TRUE)
    <3>1. c \in Commands
      <4>1. session.queue \in Seq(Commands)
        BY <2>0 DEF Session
      <4>. QED
        BY <2>0, <2>2, <4>1, HeadTailProperties
    <3>2. r.pc = "reply" /\ r.cmd = c
      BY <1>0, <3>1, Acknowledged
    <3>3. /\ handed \in [Commands -> Nat] /\ handed' = [handed EXCEPT ![c] = @ + 1]
      BY <1>0, <2>2 DEF Hand, TypeOK
    <3>4. Grown /\ handed'[c] # 0
      BY <3>1, <3>3 DEF Grown
    <3>5. session'.waiter = session.waiter
      BY <2>0, <2>2 DEF Session
    <3>6. Fit(r, handed') /\ r.pc # "wait"
      BY <3>2, <3>4 DEF Fit
    <3>7. handler' = [handler EXCEPT ![s] = r]
      BY <2>2
    <3>. HIDE DEF c, r
    <3>. QED
      BY <1>0, <2>0, <3>4, <3>5, <3>6, <3>7, OneMoves
  <2>3. CASE /\ session' = [session EXCEPT !.last = clock, !.queue = <<>>, !.waiter = s]
             /\ handler' = [Dismissed(session.waiter) EXCEPT
                                ![s].pc = "wait", ![s].due = clock + LongPoll]
             /\ UNCHANGED <<pending, handed>>
    <3>1. session'.waiter = s
      BY <2>0, <2>3 DEF Session
    <3>2. /\ Dismissed(session.waiter) \in [Slots -> Handler]
          /\ Dismissed(session.waiter)[s] = h
      BY <1>0, <2>0, DismissedRows DEF TypeOK
    <3>3. /\ handler'[s].pc = "wait" /\ handler'[s].kind = h.kind /\ handler'[s].cmd = h.cmd
          /\ \A t \in Slots \ {s} : handler'[t] = Dismissed(session.waiter)[t]
      BY <2>3, <3>2 DEF Handler
    <3>4. Fit(handler'[s], handed')
      BY <1>0, <2>0, <2>3, <3>3 DEF Fit
    <3>5. ASSUME NEW t \in Slots \ {s}
          PROVE  handler'[t].pc # "wait" /\ Fit(handler'[t], handed')
      <4>1. CASE t = session.waiter
        <5>1. handler'[t] = Reply(handler[t], NoCommand, TRUE) /\ handler[t] \in Handler
          BY <1>0, <3>3, <3>5, <4>1, DismissedRows DEF TypeOK
        <5>2. handler'[t].pc = "reply" /\ handler'[t].cmd = NoCommand
          BY <5>1 DEF Reply, Handler
        <5>. QED
          BY <5>2 DEF Fit
      <4>2. CASE t # session.waiter
        <5>1. handler'[t] = handler[t]
          BY <1>0, <3>3, <3>5, <4>2, DismissedRows DEF TypeOK
        <5>. QED
          BY <1>0, <2>3, <3>5, <4>2, <5>1 DEF Serving, WaiterIsParked
      <4>. QED
        BY <4>1, <4>2
    <3>6. Grown
      BY <2>3 DEF Grown
    <3>. QED
      BY <2>0, <3>1, <3>3, <3>4, <3>5, <3>6 DEF Serving, WaiterIsParked
  <2>. QED
    BY <1>2, <2>1, <2>2, <2>3 DEF Poll
<1>3. CASE PollTimeout(s)
  <2>1. daemon' = daemon /\ Grown /\ h.pc = "wait" /\ session.waiter = s
        /\ handler' = [handler EXCEPT ![s] = Reply(h, NoCommand, TRUE)]
    BY <1>0, <1>3 DEF PollTimeout, Grown
  <2>2. session'.waiter = NoSlot
    BY <1>0, <1>3, <2>1 DEF PollTimeout, TypeOK, Session
  <2>3. handler' = Dismissed(session.waiter)
    BY <1>0, <2>1 DEF Dismissed
  <2>. QED
    BY <1>0, <2>1, <2>2, <2>3, NoneParked
<1>4. CASE Complete(s)
  <2>1. daemon' = daemon /\ Grown /\ h.pc = "act" /\ session'.waiter = session.waiter
    BY <1>0, <1>4 DEF Complete, Grown, TypeOK, Session
  <2>2. \E ok \in BOOLEAN : handler' = [handler EXCEPT ![s] = Reply(h, NoCommand, ok)]
    BY <1>4 DEF Complete
  <2>. QED
    BY <1>0, <1>r, <2>1, <2>2, OneMoves
<1>5. CASE PublishStatus(s)
  <2>1. daemon' = daemon /\ Grown /\ h.pc = "act" /\ session'.waiter = session.waiter
    BY <1>0, <1>5 DEF PublishStatus, Grown, TypeOK, Session
  <2>2. handler' = [handler EXCEPT ![s] = NoHandler]
    BY <1>5 DEF PublishStatus
  <2>3. NoHandler.pc # "wait" /\ Fit(NoHandler, handed')
    BY Blanks DEF Fit
  <2>. QED
    BY <1>0, <2>1, <2>2, <2>3, OneMoves
<1>. QED
  BY <1>1, <1>2, <1>3, <1>4, <1>5 DEF Brokering

\* A step that leaves the requests and the session alone.
LEMMA NoneMoves ==
    ASSUME TypeOK, Serving, UNCHANGED <<handler, handed>>, session'.waiter = session.waiter
    PROVE  Serving' /\ Grown
BY DEF Serving, WaiterIsParked, Grown

\* What its callers ask.
LEMMA ServingCalling ==
    ASSUME BrokerInv, NEW c \in Commands, Calling(c)
    PROVE  Serving' /\ Grown /\ daemon' = daemon
<1>. USE DEF broker, local, bounds
<1>0. /\ TypeOK /\ Serving /\ session \in Session /\ NoSlot \notin Slots
      /\ session.waiter \in Slots \cup {NoSlot} /\ handler \in [Slots -> Handler]
  BY Parts, BrokerAssumption DEF BrokerInv, Known, Serving, TypeOK
<1>1. CASE Dispatch(c)
  <2>0. daemon' = daemon
    BY <1>1 DEF Dispatch
  <2>1. CASE UNCHANGED <<session, handed, handler>>
    BY <1>0, <2>0, <2>1, NoneMoves
  <2>2. CASE /\ session.waiter # NoSlot
             /\ session' = [session EXCEPT !.waiter = NoSlot]
             /\ handed' = [handed EXCEPT ![c] = @ + 1]
             /\ handler' = [handler EXCEPT ![session.waiter] = Reply(@, c, TRUE)]
    <3>. DEFINE w == session.waiter
    <3>1. w \in Slots /\ session'.waiter = NoSlot
      BY <1>0, <2>2 DEF Session
    <3>2. Grown /\ handed'[c] # 0
      BY <1>0, <2>2 DEF Grown, TypeOK
    <3>3. handler'[w] = Reply(handler[w], c, TRUE)
          /\ \A t \in Slots \ {w} : handler'[t] = handler[t]
      BY <1>0, <2>2, <3>1
    <3>4. handler'[w].pc = "reply" /\ handler'[w].cmd = c
      BY <1>0, <3>1, <3>3 DEF Reply, Handler
    <3>5. handler'[w].pc # "wait" /\ Fit(handler'[w], handed')
      BY <3>2, <3>4 DEF Fit
    <3>6. \A t \in Slots \ {w} : handler'[t] = Dismissed(session.waiter)[t]
      BY <1>0, <3>1, <3>3, DismissedRows
    <3>. QED
      BY <1>0, <2>0, <3>1, <3>2, <3>5, <3>6, NoneParked
  <2>3. CASE /\ session' = [session EXCEPT !.queue = Append(@, c)]
             /\ UNCHANGED <<handed, handler>>
    <3>1. session'.waiter = session.waiter
      BY <1>0, <2>3 DEF Session
    <3>. QED
      BY <1>0, <2>0, <2>3, <3>1, NoneMoves
  <2>. QED
    BY <1>1, <2>1, <2>2, <2>3 DEF Dispatch
<1>2. CASE Expire(c)
  <2>1. session'.waiter = session.waiter
    BY <1>0, <1>2 DEF Expire, Session
  <2>. QED
    BY <1>0, <1>2, <2>1, NoneMoves DEF Expire
<1>3. CASE Subscribe(c) \/ CloseSubscription(c)
  BY <1>0, <1>3, NoneMoves DEF Subscribe, CloseSubscription
<1>. QED
  BY <1>1, <1>2, <1>3 DEF Calling

\* What the routes do.
LEMMA ServingRouting ==
    ASSUME BrokerInv, NEW s \in Slots, Routing(s)
    PROVE  Serving' /\ Grown /\ daemon' = daemon
<1>. USE DEF broker, local, bounds, Server
<1>. DEFINE h == handler[s]
<1>0. /\ TypeOK /\ Serving /\ h \in Handler /\ Fit(h, handed)
  BY DEF BrokerInv, Known, Serving, TypeOK
<1>r. /\ Reply(h, NoCommand, FALSE).pc = "reply" /\ Reply(h, NoCommand, FALSE).cmd = NoCommand
      /\ NoHandler.pc # "wait" /\ \A n : Fit(NoHandler, n)
  BY <1>0, Blanks DEF Reply, Handler, Fit
<1>q. Reply(h, NoCommand, FALSE).pc # "wait" /\ \A n : Fit(Reply(h, NoCommand, FALSE), n)
  BY <1>r DEF Fit
<1>1. /\ UNCHANGED <<session, handed, daemon>> /\ Grown /\ session'.waiter = session.waiter
  BY DEF Routing, OpenRead, OpenCas, Touch, Unheard, Grown
<1>2. CASE OpenRead(s)
  <2>. DEFINE r == [h EXCEPT !.pc = "cas", !.epoch = device.epoch]
  <2>1. h.kind = "open" /\ h.pc = "read"
        /\ handler' = [handler EXCEPT ![s] = IF device.revoked THEN Reply(h, NoCommand, FALSE)
                                             ELSE r]
    BY <1>2 DEF OpenRead
  <2>2. r.pc = "cas" /\ r.kind = h.kind /\ r.cmd = h.cmd
    BY <1>0 DEF Handler
  <2>3. Fit(r, handed')
    BY <1>0, <1>1, <2>1, <2>2 DEF Fit
  <2>. HIDE DEF r, h
  <2>4. CASE device.revoked
    BY <1>0, <1>q, <1>1, <2>1, <2>4, OneMoves DEF h
  <2>5. CASE ~device.revoked
    BY <1>0, <1>1, <2>1, <2>2, <2>3, <2>5, OneMoves DEF h
  <2>. QED
    BY <2>4, <2>5, <1>1
<1>3. CASE OpenCas(s)
  <2>. DEFINE r == [h EXCEPT !.pc = "act", !.epoch = @ + 1]
  <2>1. h.kind = "open" /\ h.pc = "cas"
        /\ \/ handler' = [handler EXCEPT ![s] = Reply(h, NoCommand, FALSE)]
           \/ handler' = [handler EXCEPT ![s] = r]
    BY <1>0, <1>3 DEF OpenCas, TypeOK
  <2>2. r.pc = "act" /\ r.kind = h.kind /\ r.cmd = h.cmd
    BY <1>0 DEF Handler
  <2>3. Fit(r, handed')
    BY <1>0, <1>1, <2>1, <2>2 DEF Fit
  <2>. HIDE DEF r, h
  <2>4. CASE handler' = [handler EXCEPT ![s] = Reply(h, NoCommand, FALSE)]
    BY <1>0, <1>q, <1>1, <2>1, <2>4, OneMoves DEF h
  <2>5. CASE handler' = [handler EXCEPT ![s] = r]
    BY <1>0, <1>1, <2>1, <2>2, <2>3, <2>5, OneMoves DEF h
  <2>. QED
    BY <1>1, <2>1, <2>4, <2>5
<1>4. CASE Touch(s)
  <2>. DEFINE r == [h EXCEPT !.pc = "act"]
  <2>1. h.kind \in {"poll", "result", "status"} /\ h.pc = "touch"
        /\ \/ handler' = [handler EXCEPT ![s] = Reply(h, NoCommand, FALSE)]
           \/ handler' = [handler EXCEPT ![s] = r]
    BY <1>0, <1>4 DEF Touch, TypeOK
  <2>2. r.pc = "act" /\ r.kind = h.kind /\ r.cmd = h.cmd
    BY <1>0 DEF Handler
  <2>3. Fit(r, handed')
    BY <1>0, <1>1, <2>1, <2>2 DEF Fit
  <2>. HIDE DEF r, h
  <2>4. CASE handler' = [handler EXCEPT ![s] = Reply(h, NoCommand, FALSE)]
    BY <1>0, <1>q, <1>1, <2>1, <2>4, OneMoves DEF h
  <2>5. CASE handler' = [handler EXCEPT ![s] = r]
    BY <1>0, <1>1, <2>1, <2>2, <2>3, <2>5, OneMoves DEF h
  <2>. QED
    BY <1>1, <2>1, <2>4, <2>5
<1>5. CASE Unheard(s)
  <2>1. h.pc = "reply" /\ handler' = [handler EXCEPT ![s] = NoHandler]
    BY <1>5 DEF Unheard
  <2>. QED
    BY <1>0, <1>1, <1>r, <2>1, OneMoves
<1>. QED
  BY <1>2, <1>3, <1>4, <1>5 DEF Routing

\* A revocation, and a restart of the server.
LEMMA ServingServer ==
    ASSUME BrokerInv, RevokeDevice \/ RevokeBroker \/ ServerRestart
    PROVE  /\ Serving' /\ Grown
           /\ \/ daemon' = daemon
              \/ daemon'.cmd = NoCommand /\ daemon'.pc = "open"
<1>. USE DEF broker, local, bounds
<1>0. TypeOK /\ Serving /\ session.waiter \in Slots \cup {NoSlot} /\ daemon \in Daemon
  BY Parts DEF BrokerInv, Known, Serving, TypeOK
<1>1. CASE RevokeDevice
  <2>1. UNCHANGED <<handler, handed, session, daemon>>
    BY <1>1 DEF RevokeDevice
  <2>. QED
    BY <1>0, <2>1, NoneMoves
<1>2. CASE RevokeBroker
  <2>0. daemon' = daemon /\ handed' = handed
    BY <1>2 DEF RevokeBroker
  <2>1. CASE session.epoch # 0
    <3>1. session'.waiter = NoSlot /\ handler' = Dismissed(session.waiter)
      BY <1>2, <2>1, Blanks DEF RevokeBroker
    <3>2. Grown
      BY <2>0 DEF Grown
    <3>. QED
      BY <1>0, <2>0, <3>1, <3>2, NoneParked
  <2>2. CASE session.epoch = 0
    <3>1. UNCHANGED <<handler, session>>
      BY <1>2, <2>2 DEF RevokeBroker
    <3>. QED
      BY <1>0, <2>0, <3>1, NoneMoves
  <2>. QED
    BY <2>1, <2>2
<1>3. CASE ServerRestart
  <2>1. \A t \in Slots : handler'[t] = NoHandler
    BY <1>3 DEF ServerRestart
  <2>2. NoHandler.pc # "wait" /\ Fit(NoHandler, handed')
    BY Blanks DEF Fit
  <2>3. session'.waiter = NoSlot /\ Grown
    BY <1>3, Blanks DEF ServerRestart, Grown
  <2>4. daemon' = daemon \/ (daemon'.cmd = NoCommand /\ daemon'.pc = "open")
    <3>1. daemon' = daemon \/ daemon' = Reconnects
      BY <1>3 DEF ServerRestart
    <3>2. Reconnects.cmd = NoCommand /\ Reconnects.pc = "open"
      BY <1>0, Reconnecting
    <3>. QED
      BY <3>1, <3>2
  <2>. QED
    BY <1>0, <2>1, <2>2, <2>3, <2>4, NoneParked
<1>. QED
  BY <1>1, <1>2, <1>3

\* What the daemon does.
LEMMA ServingDaemon ==
    ASSUME BrokerInv,
           \/ \E s \in Slots : Looping(s)
           \/ DaemonStarts \/ Claim \/ Execute \/ ConnectionLost \/ DaemonCrash \/ Tick
           \/ UNCHANGED vars
    PROVE  WaiterIsParked' /\ Known'
<1>. USE DEF broker, local, bounds, Server
<1>0. /\ TypeOK /\ Serving /\ Known /\ daemon \in Daemon
      /\ handler \in [Slots -> Handler] /\ starts \subseteq Commands
      /\ session' = session /\ handed' = handed
  <2>1. TypeOK /\ Serving /\ Known
    BY DEF BrokerInv, Known, Serving
  <2>2. session' = session /\ handed' = handed
    BY DEF Looping, SendOpen, SendPoll, SendResult, SendStatus, Send, Receive, DaemonStarts,
           Claim, Execute, ConnectionLost, DaemonCrash, Tick, vars
  <2>. QED
    BY <2>1, <2>2, Parts DEF TypeOK
<1>1. Grown
  BY <1>0 DEF Grown
<1>2. ASSUME NEW s \in Slots, NEW h, Request(s, h), h.pc # "wait", Fit(h, handed')
      PROVE  Serving'
  <2>1. handler[s].pc # "wait" /\ handler' = [handler EXCEPT ![s] = h]
    BY <1>0, <1>2 DEF Request, Known, Fit
  <2>. QED
    BY <1>0, <1>1, <1>2, <2>1, OneMoves
<1>3. ASSUME Serving',
             daemon'.cmd # NoCommand => handed'[daemon'.cmd] # 0,
             daemon'.pc \in {"claim", "execute", "report"} => daemon'.cmd # NoCommand
      PROVE  WaiterIsParked' /\ Known'
  BY <1>3 DEF Serving, Known
<1>4. ASSUME NEW s \in Slots, NEW h, Send(s, h), h.pc # "wait", Fit(h, handed')
      PROVE  WaiterIsParked' /\ Known'
  <2>1. Serving'
    BY <1>2, <1>4 DEF Send
  <2>2. daemon'.pc = "wait" /\ daemon'.cmd = daemon.cmd
    BY <1>0, <1>4 DEF Send, Daemon
  <2>. QED
    BY <1>0, <1>3, <2>1, <2>2 DEF Known
<1>5. ASSUME NEW s \in Slots, SendOpen(s)
      PROVE  WaiterIsParked' /\ Known'
  <2>. DEFINE h == [NoHandler EXCEPT !.kind = "open"]
  <2>1. h.pc = "read" /\ h.kind = "open" /\ h.cmd = NoCommand
    BY DEF NoHandler
  <2>2. Fit(h, handed')
    BY <2>1 DEF Fit
  <2>. HIDE DEF h
  <2>. QED
    BY <1>4, <1>5, <2>1, <2>2 DEF SendOpen, h
<1>6. ASSUME NEW s \in Slots, SendPoll(s)
      PROVE  WaiterIsParked' /\ Known'
  <2>. DEFINE h == [NoHandler EXCEPT !.kind = "poll", !.pc = "touch", !.epoch = daemon.epoch]
  <2>1. h.pc = "touch" /\ h.kind = "poll" /\ h.cmd = NoCommand
    BY DEF NoHandler
  <2>2. Fit(h, handed')
    BY <2>1 DEF Fit
  <2>. HIDE DEF h
  <2>. QED
    BY <1>4, <1>6, <2>1, <2>2 DEF SendPoll, h
<1>7. ASSUME NEW s \in Slots, SendResult(s)
      PROVE  WaiterIsParked' /\ Known'
  <2>. DEFINE h == [NoHandler EXCEPT !.kind = "result", !.pc = "touch", !.epoch = daemon.epoch,
                                     !.cmd = daemon.cmd, !.ok = daemon.ok]
  <2>1. h.pc = "touch" /\ h.kind = "result" /\ h.cmd = daemon.cmd
    BY DEF NoHandler
  <2>2. daemon.cmd # NoCommand /\ handed[daemon.cmd] # 0
    BY <1>0, <1>7 DEF Known, SendResult
  <2>3. Fit(h, handed')
    BY <1>0, <2>1, <2>2 DEF Fit
  <2>. HIDE DEF h
  <2>. QED
    BY <1>4, <1>7, <2>1, <2>3 DEF SendResult, h
<1>8. ASSUME NEW s \in Slots, SendStatus(s)
      PROVE  WaiterIsParked' /\ Known'
  <2>1. PICK c \in starts :
          Request(s, [NoHandler EXCEPT !.kind = "status", !.pc = "touch",
                                       !.epoch = daemon.epoch, !.cmd = c])
    BY <1>8 DEF SendStatus
  <2>. DEFINE h == [NoHandler EXCEPT !.kind = "status", !.pc = "touch",
                                     !.epoch = daemon.epoch, !.cmd = c]
  <2>2. h.pc = "touch" /\ h.kind = "status" /\ h.cmd # NoCommand
    BY <1>0, BrokerAssumption DEF NoHandler
  <2>3. Fit(h, handed')
    BY <2>2 DEF Fit
  <2>. HIDE DEF h
  <2>4. Serving'
    BY <1>2, <2>1, <2>2, <2>3 DEF h
  <2>5. daemon' = daemon
    BY <1>8 DEF SendStatus
  <2>. QED
    BY <1>0, <1>3, <2>4, <2>5 DEF Known
<1>9. ASSUME NEW s \in Slots, Receive(s)
      PROVE  WaiterIsParked' /\ Known'
  <2>. DEFINE h == handler[s]
  <2>1. /\ h.pc = "reply" /\ handler' = [handler EXCEPT ![s] = NoHandler]
        /\ Fit(h, handed)
    BY <1>0, <1>9 DEF Receive, Known
  <2>2. NoHandler.pc # "wait" /\ Fit(NoHandler, handed')
    BY Blanks DEF Fit
  <2>3. Serving'
    BY <1>0, <1>1, <2>1, <2>2, OneMoves
  <2>4. \/ daemon'.pc \in {"open", "poll"} /\ daemon'.cmd \in {h.cmd, NoCommand}
        \/ daemon'.pc = "claim" /\ daemon'.cmd = h.cmd /\ h.cmd # NoCommand
    BY <1>0, <1>9 DEF Receive, Reconnects, Daemon
  <2>. QED
    BY <1>0, <1>3, <2>1, <2>3, <2>4 DEF Fit
<1>10. CASE UNCHANGED handler /\ daemon'.cmd \in {daemon.cmd, NoCommand}
            /\ (daemon'.pc \in {"claim", "execute", "report"} =>
                   daemon'.cmd = daemon.cmd /\ daemon.pc \in {"claim", "execute", "report"})
  <2>1. Serving'
    BY <1>0, <1>10, NoneMoves
  <2>. QED
    BY <1>0, <1>3, <1>10, <2>1 DEF Known
<1>11. CASE DaemonStarts \/ Claim \/ Execute \/ ConnectionLost \/ DaemonCrash \/ Tick
            \/ UNCHANGED vars
  <2>1. UNCHANGED handler
    BY <1>11 DEF DaemonStarts, Claim, Execute, ConnectionLost, DaemonCrash, Tick, vars
  <2>2. CASE DaemonStarts \/ DaemonCrash
    <3>1. \/ daemon' = [NoDaemon EXCEPT !.pc = "open", !.known = journal]
          \/ daemon' = NoDaemon
      BY <2>2 DEF DaemonStarts, DaemonCrash
    <3>2. daemon'.cmd = NoCommand /\ daemon'.pc \in {"open", "down"}
      <4>1. CASE daemon' = NoDaemon
        BY <4>1, Blanks
      <4>2. CASE daemon' = [NoDaemon EXCEPT !.pc = "open", !.known = journal]
        BY <4>2 DEF NoDaemon
      <4>. QED
        BY <3>1, <4>1, <4>2
    <3>. QED
      BY <1>10, <2>1, <3>2
  <2>3. CASE ConnectionLost
    BY <1>0, <1>10, <2>1, <2>3, Reconnecting DEF ConnectionLost
  <2>4. CASE Claim
    <3>1. \/ daemon' \in {[daemon EXCEPT !.pc = "report", !.ok = FALSE],
                         [daemon EXCEPT !.pc = "execute"],
                         [daemon EXCEPT !.pc = "execute",
                                        !.known = daemon.known \cup {AssignmentOf[daemon.cmd]}]}
          \/ daemon' = [Reconnects EXCEPT !.known = daemon.known \cup {AssignmentOf[daemon.cmd]}]
      BY <2>4 DEF Claim
    <3>2. daemon.pc = "claim"
      BY <2>4 DEF Claim
    <3>3. CASE daemon' = [Reconnects EXCEPT !.known = daemon.known
                                                      \cup {AssignmentOf[daemon.cmd]}]
      <4>1. daemon'.pc = "open" /\ daemon'.cmd = NoCommand
        BY <1>0, <3>3, Reconnecting DEF Daemon
      <4>. QED
        BY <1>10, <2>1, <4>1
    <3>4. CASE daemon' \in {[daemon EXCEPT !.pc = "report", !.ok = FALSE],
                            [daemon EXCEPT !.pc = "execute"],
                            [daemon EXCEPT !.pc = "execute",
                                           !.known = daemon.known \cup {AssignmentOf[daemon.cmd]}]}
      <4>1. daemon'.cmd = daemon.cmd
        BY <1>0, <3>4 DEF Daemon
      <4>. QED
        BY <1>10, <2>1, <3>2, <4>1
    <3>. QED
      BY <3>1, <3>3, <3>4
  <2>5. CASE Execute
    <3>1. daemon.pc = "execute" /\ daemon'.cmd = daemon.cmd
      BY <1>0, <2>5 DEF Execute, Daemon
    <3>. QED
      BY <1>10, <2>1, <3>1
  <2>6. CASE Tick \/ UNCHANGED vars
    BY <1>10, <2>1, <2>6 DEF Tick, vars
  <2>. QED
    BY <1>11, <2>2, <2>3, <2>4, <2>5, <2>6
<1>. QED
  BY <1>5, <1>6, <1>7, <1>8, <1>9, <1>11 DEF Looping

-----------------------------------------------------------------------------
(* The journal.                                                              *)

\* A step that executes nothing and forgets nothing.
LEMMA JournaledKept ==
    ASSUME Journaled, UNCHANGED <<starts, journal, executed>>,
           \/ daemon' = daemon
           \/ daemon'.pc = "down" /\ daemon'.slot = NoSlot
           \/ /\ daemon.pc # "down" /\ daemon'.pc \notin {"down", "execute"}
              /\ daemon.known \subseteq daemon'.known
    PROVE  Journaled'
BY DEF Journaled

\* A step of the daemon.  An assignment is executed only after it was written
\* to the journal, and what is in the journal is not claimed again.
LEMMA JournaledDaemon ==
    ASSUME BrokerInv, UNCHANGED starts,
           \/ \E s \in Slots : Looping(s)
           \/ DaemonStarts \/ Claim \/ Execute \/ ConnectionLost \/ DaemonCrash \/ Tick
           \/ UNCHANGED vars
    PROVE  Journaled'
<1>. USE DEF broker, local, bounds, Server
<1>0. /\ Journaled /\ daemon \in Daemon /\ journal \subseteq Assignments
      /\ executed \in [Assignments -> Nat] /\ starts \subseteq Commands
      /\ \A c \in Commands : AssignmentOf[c] \in Assignments
  BY Parts DEF BrokerInv, TypeOK
<1>1. ASSUME NEW s \in Slots, SendOpen(s) \/ SendPoll(s) \/ SendResult(s)
      PROVE  Journaled'
  <2>1. /\ daemon' = [daemon EXCEPT !.pc = "wait", !.slot = s]
        /\ UNCHANGED <<journal, executed>> /\ daemon.pc # "down"
    BY <1>1 DEF SendOpen, SendPoll, SendResult, Send
  <2>2. daemon'.pc = "wait" /\ daemon'.known = daemon.known
    BY <1>0, <2>1 DEF Daemon
  <2>. QED
    BY <1>0, <2>1, <2>2, JournaledKept
<1>2. ASSUME NEW s \in Slots, SendStatus(s)
      PROVE  Journaled'
  BY <1>0, <1>2, JournaledKept DEF SendStatus
<1>3. ASSUME NEW s \in Slots, Receive(s)
      PROVE  Journaled'
  <2>1. daemon'.pc \notin {"down", "execute"} /\ daemon'.known = daemon.known
    BY <1>0, <1>3 DEF Receive, Reconnects, Daemon
  <2>2. UNCHANGED <<journal, executed>>
    BY <1>3 DEF Receive
  <2>3. daemon.pc # "down"
    BY <1>0, <1>3, BrokerAssumption DEF Receive, Journaled
  <2>. QED
    BY <1>0, <2>1, <2>2, <2>3, JournaledKept
<1>4. CASE DaemonStarts
  <2>1. daemon' = [NoDaemon EXCEPT !.pc = "open", !.known = journal]
        /\ UNCHANGED <<journal, executed>>
    BY <1>4 DEF DaemonStarts
  <2>2. daemon'.pc = "open" /\ daemon'.known = journal
    BY <2>1 DEF NoDaemon
  <2>. QED
    BY <1>0, <2>1, <2>2 DEF Journaled
<1>5. CASE Claim
  <2>. DEFINE c == daemon.cmd
              k == daemon.known \cup {AssignmentOf[c]}
  <2>0. daemon.pc = "claim" /\ executed' = executed /\ starts' = starts
    BY <1>5 DEF Claim
  <2>1. CASE /\ daemon' = [daemon EXCEPT !.pc = "report", !.ok = FALSE]
             /\ UNCHANGED journal
    <3>1. daemon'.pc = "report" /\ daemon'.known = daemon.known
      BY <1>0, <2>1 DEF Daemon
    <3>. QED
      BY <1>0, <2>0, <2>1, <3>1, JournaledKept
  <2>2. CASE /\ c \in starts /\ ~Repeated(c)
             /\ daemon' = [daemon EXCEPT !.pc = "execute", !.known = k]
             /\ journal' = k
    <3>1. daemon'.pc = "execute" /\ daemon'.known = k /\ daemon'.cmd = c
      BY <1>0, <2>2 DEF Daemon
    <3>2. AssignmentOf[c] \in Assignments /\ AssignmentOf[c] \notin daemon.known
      BY <1>0, <2>2 DEF Repeated
    <3>3. journal \subseteq daemon.known
      BY <1>0, <2>0 DEF Journaled
    <3>4. executed[AssignmentOf[c]] = 0
      BY <1>0, <3>2, <3>3 DEF Journaled
    <3>5. \A a \in Assignments : executed'[a] <= 1 /\ (executed'[a] # 0 => a \in journal')
      BY <1>0, <2>0, <2>2, <3>3 DEF Journaled
    <3>. QED
      BY <2>0, <2>2, <3>1, <3>4, <3>5 DEF Journaled
  <2>3. CASE /\ daemon' = [Reconnects EXCEPT !.known = k]
             /\ UNCHANGED journal
    <3>1. daemon'.pc = "open" /\ daemon'.known = k
      BY <1>0, <2>3, Reconnecting DEF Daemon
    <3>. QED
      BY <1>0, <2>0, <2>3, <3>1, JournaledKept
  <2>4. CASE /\ c \notin starts
             /\ daemon' = [daemon EXCEPT !.pc = "execute"]
             /\ UNCHANGED journal
    <3>1. daemon'.cmd = c /\ daemon'.known = daemon.known
      BY <1>0, <2>4 DEF Daemon
    <3>. QED
      BY <1>0, <2>0, <2>4, <3>1 DEF Journaled
  <2>. QED
    BY <1>5, <2>1, <2>2, <2>3, <2>4 DEF Claim
<1>6. CASE Execute
  <2>0. /\ daemon.pc = "execute" /\ UNCHANGED <<journal, starts>>
        /\ daemon'.pc = "report" /\ daemon'.known = daemon.known
    BY <1>0, <1>6 DEF Execute, Daemon
  <2>1. CASE daemon.cmd \in starts
    <3>. DEFINE a == AssignmentOf[daemon.cmd]
    <3>1. a \in Assignments /\ a \in journal /\ executed[a] = 0
      BY <1>0, <2>0, <2>1 DEF Journaled
    <3>2. executed' = [executed EXCEPT ![a] = @ + 1]
      BY <1>6, <2>1 DEF Execute
    <3>3. executed'[a] = 1 /\ \A b \in Assignments \ {a} : executed'[b] = executed[b]
      BY <1>0, <3>1, <3>2
    <3>. HIDE DEF a
    <3>. QED
      BY <1>0, <2>0, <3>1, <3>3 DEF Journaled
  <2>2. CASE daemon.cmd \notin starts
    <3>1. executed' = executed
      BY <1>6, <2>2 DEF Execute
    <3>. QED
      BY <1>0, <2>0, <3>1, JournaledKept
  <2>. QED
    BY <2>1, <2>2
<1>7. CASE ConnectionLost
  <2>1. daemon' = Reconnects /\ UNCHANGED <<journal, executed>> /\ daemon.slot # NoSlot
    BY <1>7 DEF ConnectionLost
  <2>2. daemon.pc # "down"
    BY <1>0, <2>1 DEF Journaled
  <2>3. daemon'.pc = "open" /\ daemon'.known = daemon.known
    BY <1>0, <2>1, Reconnecting
  <2>. QED
    BY <1>0, <2>1, <2>2, <2>3, JournaledKept
<1>8. CASE DaemonCrash
  <2>1. daemon'.pc = "down" /\ daemon'.slot = NoSlot /\ UNCHANGED <<journal, executed>>
    BY <1>8, Blanks DEF DaemonCrash
  <2>. QED
    BY <1>0, <2>1, JournaledKept
<1>9. CASE Tick \/ UNCHANGED vars
  BY <1>0, <1>9, JournaledKept DEF Tick, vars
<1>. QED
  BY <1>1, <1>2, <1>3, <1>4, <1>5, <1>6, <1>7, <1>8, <1>9 DEF Looping

-----------------------------------------------------------------------------
(* The epochs.                                                               *)

\* A step that leaves the epochs alone and moves no arriving session request.
LEMMA NewestKept ==
    ASSUME Newest, UNCHANGED <<device, barred, revoking>>, session'.epoch = session.epoch,
           \A t \in Slots : \/ handler'[t] = handler[t]
                            \/ ~Arriving(t) /\ ~Arriving(t)'
    PROVE  Newest'
<1>1. \A t \in Slots : /\ Arriving(t)' <=> Arriving(t)
                       /\ Arriving(t) => handler'[t].epoch = handler[t].epoch
  BY DEF Arriving
<1>. QED
  BY <1>1 DEF Newest

\* One request moves, and it is not one that arrives.
LEMMA NewestMoves ==
    ASSUME TypeOK, Newest, UNCHANGED <<device, barred, revoking>>,
           session'.epoch = session.epoch, NEW s \in Slots, NEW h,
           handler' = [handler EXCEPT ![s] = h],
           handler[s].kind # "open" \/ handler[s].pc # "act", h.pc # "act" \/ h.kind # "open"
    PROVE  Newest'
<1>1. handler'[s] = h /\ \A t \in Slots \ {s} : handler'[t] = handler[t]
  BY DEF TypeOK
<1>2. ~Arriving(s) /\ ~Arriving(s)'
  BY <1>1 DEF Arriving
<1>. QED
  BY <1>1, <1>2, NewestKept

\* A dismissed poll was not arriving.
LEMMA DismissedArriving ==
    ASSUME TypeOK, Serving, NEW t \in Slots
    PROVE  \/ Dismissed(session.waiter)[t] = handler[t]
           \/ ~Arriving(t) /\ Dismissed(session.waiter)[t].pc # "act"
<1>0. session.waiter \in Slots \cup {NoSlot} /\ handler \in [Slots -> Handler]
  BY Parts DEF TypeOK
<1>1. CASE t # session.waiter
  BY <1>0, <1>1, DismissedRows
<1>2. CASE t = session.waiter
  <2>1. Dismissed(session.waiter)[t] = Reply(handler[t], NoCommand, TRUE)
    BY <1>0, <1>2, DismissedRows
  <2>2. handler[t].pc = "wait" /\ handler[t] \in Handler
    BY <1>0, <1>2 DEF Serving, WaiterIsParked
  <2>3. Reply(handler[t], NoCommand, TRUE).pc = "reply"
    BY <2>2 DEF Reply, Handler
  <2>. QED
    BY <2>1, <2>2, <2>3 DEF Arriving
<1>. QED
  BY <1>1, <1>2

\* A session request reaches the broker.
LEMMA NewestActivate ==
    ASSUME BrokerInv, NEW s \in Slots, Activate(s)
    PROVE  Newest'
<1>. DEFINE h == handler[s]
<1>0. /\ TypeOK /\ Newest /\ Serving /\ h \in Handler /\ Arriving(s)
      /\ session.epoch \in Nat /\ device.epoch \in Nat /\ h.epoch \in Nat
      /\ session.waiter \in Slots \cup {NoSlot} /\ handler \in [Slots -> Handler]
      /\ UNCHANGED <<device, barred, revoking>>
  BY Parts DEF BrokerInv, Known, Serving, TypeOK, Activate, Arriving
<1>1. Reply(h, NoCommand, TRUE).pc # "act"
  BY <1>0 DEF Reply, Handler
<1>2. CASE Supersedes(h.epoch)
  <2>1. /\ session' = [NoSession EXCEPT !.epoch = h.epoch, !.last = clock]
        /\ handler' = [Dismissed(session.waiter) EXCEPT ![s] = Reply(h, NoCommand, TRUE)]
    BY <1>2 DEF Activate
  <2>2. session'.epoch = h.epoch /\ ~barred /\ session.epoch < h.epoch
    BY <1>2, <2>1 DEF NoSession, Supersedes
  <2>3. Dismissed(session.waiter) \in [Slots -> Handler]
    BY <1>0, DismissedRows
  <2>4. /\ ~Arriving(s)'
        /\ \A t \in Slots \ {s} : handler'[t] = Dismissed(session.waiter)[t]
    BY <1>1, <2>1, <2>3 DEF Arriving
  <2>5. ASSUME NEW t \in Slots \ {s}
        PROVE  (Arriving(t)' <=> Arriving(t)) /\ (Arriving(t) => handler'[t] = handler[t])
    BY <1>0, <2>4, <2>5, DismissedArriving DEF Arriving
  <2>6. h.epoch <= device.epoch
    BY <1>0 DEF Newest
  <2>7. CASE h.epoch = device.epoch
    BY <1>0, <2>2, <2>4, <2>5, <2>7 DEF Newest
  <2>8. CASE h.epoch < device.epoch
    <3>1. revoking \/ \E t \in Slots \ {s} : Arriving(t) /\ handler[t].epoch = device.epoch
      BY <1>0, <2>2, <2>8 DEF Newest
    <3>2. revoking \/ \E t \in Slots : Arriving(t)' /\ handler'[t].epoch = device.epoch
      BY <2>5, <3>1
    <3>3. device.revoked => revoking
      BY <1>0, <2>2 DEF Newest
    <3>. QED
      BY <1>0, <2>2, <2>4, <2>5, <2>6, <3>2, <3>3 DEF Newest
  <2>. QED
    BY <1>0, <2>6, <2>7, <2>8
<1>3. CASE ~Supersedes(h.epoch)
  <2>1. /\ session' = session
        /\ handler' = [handler EXCEPT ![s] = Reply(h, NoCommand, TRUE)]
    BY <1>3 DEF Activate
  <2>2. ~Arriving(s)' /\ \A t \in Slots \ {s} : handler'[t] = handler[t]
    BY <1>0, <1>1, <2>1 DEF Arriving
  <2>3. \A t \in Slots \ {s} : Arriving(t)' <=> Arriving(t)
    BY <2>2 DEF Arriving
  <2>4. barred \/ h.epoch <= session.epoch
    BY <1>0, <1>3 DEF Supersedes
  <2>5. h.epoch = device.epoch => barred \/ session.epoch = device.epoch
    BY <1>0, <2>4 DEF Newest
  <2>. QED
    BY <1>0, <2>1, <2>2, <2>3, <2>5 DEF Newest
<1>. QED
  BY <1>2, <1>3

\* The broker's other handlers.
LEMMA NewestBrokering ==
    ASSUME BrokerInv, NEW s \in Slots, Brokering(s)
    PROVE  Newest'
<1>. DEFINE h == handler[s]
<1>0. /\ TypeOK /\ Newest /\ Serving /\ h \in Handler /\ session \in Session
      /\ session.waiter \in Slots \cup {NoSlot} /\ handler \in [Slots -> Handler]
  BY Parts DEF BrokerInv, Known, Serving, TypeOK
<1>r. \A ok \in BOOLEAN, c \in Commands \cup {NoCommand} : Reply(h, c, ok).pc = "reply"
  BY <1>0 DEF Reply, Handler
<1>1. CASE Activate(s)
  BY <1>1, NewestActivate
<1>2. CASE Poll(s)
  <2>0. /\ UNCHANGED <<device, barred, revoking>> /\ h.kind = "poll" /\ h.pc = "act"
        /\ Deliverable \in Seq(Commands)
    BY <1>0, <1>2, AllDeliverable DEF Poll, BrokerInv, Tables
  <2>1. session'.epoch = session.epoch
    BY <1>0, <1>2 DEF Poll, Session
  <2>2. CASE handler' = [handler EXCEPT ![s] = Reply(h, NoCommand, FALSE)]
    BY <1>0, <1>r, <2>0, <2>1, <2>2, NewestMoves
  <2>3. CASE /\ Deliverable # <<>>
             /\ handler' = [handler EXCEPT ![s] = Reply(h, Head(Deliverable), TRUE)]
    <3>1. Head(Deliverable) \in Commands
      BY <2>0, <2>3, HeadTailProperties
    <3>2. Reply(h, Head(Deliverable), TRUE).pc = "reply"
      BY <1>0, <3>1, Acknowledged
    <3>. QED
      BY <1>0, <2>0, <2>1, <2>3, <3>2, NewestMoves
  <2>4. CASE handler' = [Dismissed(session.waiter) EXCEPT
                            ![s].pc = "wait", ![s].due = clock + LongPoll]
    <3>1. Dismissed(session.waiter) \in [Slots -> Handler]
      BY <1>0, DismissedRows
    <3>2. /\ handler'[s].pc = "wait"
          /\ \A t \in Slots \ {s} : handler'[t] = Dismissed(session.waiter)[t]
      BY <2>4, <3>1 DEF Handler
    <3>3. ~Arriving(s) /\ ~Arriving(s)'
      BY <2>0, <3>2 DEF Arriving
    <3>4. \A t \in Slots \ {s} : handler'[t] = handler[t] \/ (~Arriving(t) /\ ~Arriving(t)')
      BY <1>0, <3>2, DismissedArriving DEF Arriving
    <3>. QED
      BY <1>0, <2>0, <2>1, <3>3, <3>4, NewestKept
  <2>. QED
    BY <1>2, <2>2, <2>3, <2>4 DEF Poll
<1>3. CASE PollTimeout(s)
  <2>1. /\ UNCHANGED <<device, barred, revoking>> /\ h.pc = "wait"
        /\ handler' = [handler EXCEPT ![s] = Reply(h, NoCommand, TRUE)]
    BY <1>3 DEF PollTimeout
  <2>2. session'.epoch = session.epoch
    BY <1>0, <1>3 DEF PollTimeout, Session
  <2>. QED
    BY <1>0, <1>r, <2>1, <2>2, NewestMoves
<1>4. CASE Complete(s)
  <2>1. /\ UNCHANGED <<device, barred, revoking>> /\ h.kind = "result"
        /\ \E ok \in BOOLEAN : handler' = [handler EXCEPT ![s] = Reply(h, NoCommand, ok)]
    BY <1>4 DEF Complete
  <2>2. session'.epoch = session.epoch
    BY <1>0, <1>4 DEF Complete, Session
  <2>. QED
    BY <1>0, <1>r, <2>1, <2>2, NewestMoves
<1>5. CASE PublishStatus(s)
  <2>1. /\ UNCHANGED <<device, barred, revoking>> /\ h.kind = "status"
        /\ handler' = [handler EXCEPT ![s] = NoHandler]
    BY <1>5 DEF PublishStatus
  <2>2. session'.epoch = session.epoch
    BY <1>0, <1>5 DEF PublishStatus, Session
  <2>. QED
    BY <1>0, <2>1, <2>2, Blanks, NewestMoves
<1>. QED
  BY <1>1, <1>2, <1>3, <1>4, <1>5 DEF Brokering

\* Its callers.
LEMMA NewestCalling ==
    ASSUME BrokerInv, NEW c \in Commands, Calling(c)
    PROVE  Newest'
<1>0. /\ TypeOK /\ Newest /\ Serving /\ session \in Session
      /\ session.waiter \in Slots \cup {NoSlot} /\ handler \in [Slots -> Handler]
  BY Parts DEF BrokerInv, Known, Serving, TypeOK
<1>1. UNCHANGED <<device, barred, revoking>> /\ session'.epoch = session.epoch
  BY <1>0 DEF Calling, Dispatch, Expire, Subscribe, CloseSubscription, Session
<1>2. CASE UNCHANGED handler
  BY <1>0, <1>1, <1>2, NewestKept
<1>3. CASE /\ session.waiter # NoSlot
           /\ handler' = [handler EXCEPT ![session.waiter] = Reply(@, c, TRUE)]
  <2>. DEFINE w == session.waiter
  <2>1. w \in Slots /\ handler[w].pc = "wait" /\ handler[w] \in Handler
    BY <1>0, <1>3 DEF Serving, WaiterIsParked
  <2>2. Reply(handler[w], c, TRUE).pc = "reply"
    BY <2>1, Acknowledged
  <2>3. handler' = [handler EXCEPT ![w] = Reply(handler[w], c, TRUE)]
    BY <1>0, <1>3, <2>1
  <2>. HIDE DEF w
  <2>. QED
    BY <1>0, <1>1, <2>1, <2>2, <2>3, NewestMoves
<1>. QED
  BY <1>2, <1>3 DEF Calling, Dispatch, Expire, Subscribe, CloseSubscription

\* The routes: the database opens a new epoch.
LEMMA NewestRouting ==
    ASSUME BrokerInv, NEW s \in Slots, Routing(s)
    PROVE  Newest'
<1>. USE DEF broker, local, bounds, Server
<1>. DEFINE h == handler[s]
<1>0. /\ TypeOK /\ Newest /\ h \in Handler /\ device \in [epoch : Nat, revoked : BOOLEAN]
      /\ session.epoch \in Nat /\ handler \in [Slots -> Handler]
  BY Parts DEF BrokerInv, TypeOK
<1>r. Reply(h, NoCommand, FALSE).pc = "reply"
  BY <1>0 DEF Reply, Handler
<1>1. CASE OpenRead(s)
  <2>1. /\ UNCHANGED <<device, barred, revoking, session>> /\ h.pc = "read"
        /\ handler' = [handler EXCEPT ![s] =
                          IF device.revoked THEN Reply(h, NoCommand, FALSE)
                          ELSE [h EXCEPT !.pc = "cas", !.epoch = device.epoch]]
    BY <1>1 DEF OpenRead
  <2>2. (IF device.revoked THEN Reply(h, NoCommand, FALSE)
         ELSE [h EXCEPT !.pc = "cas", !.epoch = device.epoch]).pc \in {"reply", "cas"}
    BY <1>0, <1>r DEF Handler
  <2>. QED
    BY <1>0, <2>1, <2>2, NewestMoves
<1>2. CASE OpenCas(s)
  <2>0. UNCHANGED <<barred, revoking, session>> /\ h.pc = "cas" /\ h.kind = "open"
    BY <1>2 DEF OpenCas
  <2>1. CASE device.epoch = h.epoch /\ ~device.revoked
    <3>1. /\ device' = [device EXCEPT !.epoch = @ + 1]
          /\ handler' = [handler EXCEPT ![s].pc = "act", ![s].epoch = @ + 1]
      BY <1>2, <2>1 DEF OpenCas
    <3>2. device'.epoch = device.epoch + 1 /\ device'.revoked = FALSE
      BY <1>0, <2>1, <3>1
    <3>3. /\ handler'[s].pc = "act" /\ handler'[s].kind = "open"
          /\ handler'[s].epoch = device.epoch + 1
          /\ \A t \in Slots \ {s} : handler'[t] = handler[t]
      BY <1>0, <2>0, <2>1, <3>1 DEF Handler
    <3>4. Arriving(s)' /\ \A t \in Slots \ {s} : Arriving(t)' => Arriving(t)
      BY <3>3 DEF Arriving
    <3>5. \A t \in Slots : Arriving(t)' => handler'[t].epoch <= device'.epoch
      BY <1>0, <3>2, <3>3, <3>4 DEF Newest, TypeOK, Handler
    <3>6. session'.epoch <= device'.epoch /\ (barred' => session'.epoch = 0)
      BY <1>0, <2>0, <3>2 DEF Newest
    <3>. QED
      BY <3>2, <3>3, <3>4, <3>5, <3>6 DEF Newest
  <2>2. CASE ~(device.epoch = h.epoch /\ ~device.revoked)
    <3>1. /\ handler' = [handler EXCEPT ![s] = Reply(h, NoCommand, FALSE)]
          /\ UNCHANGED device
      BY <1>2, <2>2 DEF OpenCas
    <3>. QED
      BY <1>0, <1>r, <2>0, <3>1, NewestMoves
  <2>. QED
    BY <2>1, <2>2
<1>3. CASE Touch(s)
  <2>1. /\ UNCHANGED <<device, barred, revoking, session>>
        /\ h.kind \in {"poll", "result", "status"}
        /\ \/ handler' = [handler EXCEPT ![s] = Reply(h, NoCommand, FALSE)]
           \/ handler' = [handler EXCEPT ![s] = [h EXCEPT !.pc = "act"]]
    BY <1>3 DEF Touch
  <2>2. [h EXCEPT !.pc = "act"].kind = h.kind
    BY <1>0 DEF Handler
  <2>. QED
    BY <1>0, <1>r, <2>1, <2>2, NewestMoves
<1>4. CASE Unheard(s)
  <2>1. /\ UNCHANGED <<device, barred, revoking, session>> /\ h.pc = "reply"
        /\ handler' = [handler EXCEPT ![s] = NoHandler]
    BY <1>4 DEF Unheard
  <2>. QED
    BY <1>0, <2>1, Blanks, NewestMoves
<1>. QED
  BY <1>1, <1>2, <1>3, <1>4 DEF Routing

\* The owner revokes the device; the server starts again.
LEMMA NewestServer ==
    ASSUME BrokerInv, RevokeDevice \/ RevokeBroker \/ ServerRestart
    PROVE  Newest'
<1>. USE DEF broker, local, bounds
<1>0. /\ TypeOK /\ Newest /\ Serving /\ session.epoch \in Nat /\ device.epoch \in Nat
      /\ handler \in [Slots -> Handler]
  BY Parts DEF BrokerInv, Known, Serving, TypeOK
<1>1. CASE RevokeDevice
  <2>1. /\ UNCHANGED <<handler, session, barred>> /\ revoking' = TRUE
        /\ device'.epoch = device.epoch + 1
    BY <1>1 DEF RevokeDevice
  <2>2. \A t \in Slots : Arriving(t)' <=> Arriving(t)
    BY <2>1 DEF Arriving
  <2>3. \A t \in Slots : handler[t].epoch \in Nat
    BY <1>0, Parts
  <2>4. \A t \in Slots : Arriving(t)' => handler'[t].epoch <= device'.epoch
    BY <1>0, <2>1, <2>2, <2>3 DEF Newest
  <2>5. session'.epoch <= device'.epoch /\ (barred' => session'.epoch = 0)
    BY <1>0, <2>1 DEF Newest
  <2>. QED
    BY <2>1, <2>4, <2>5 DEF Newest
<1>2. CASE RevokeBroker
  <2>1. UNCHANGED device /\ barred' = TRUE /\ session'.epoch = 0
    BY <1>2, Blanks DEF RevokeBroker
  <2>2. \A t \in Slots : Arriving(t)' => Arriving(t) /\ handler'[t] = handler[t]
    <3>1. CASE session.epoch # 0
      <4>1. handler' = Dismissed(session.waiter)
        BY <1>2, <3>1 DEF RevokeBroker
      <4>. QED
        BY <1>0, <4>1, DismissedArriving DEF Arriving
    <3>2. CASE session.epoch = 0
      BY <1>2, <3>2 DEF RevokeBroker, Arriving
    <3>. QED
      BY <3>1, <3>2
  <2>. QED
    BY <1>0, <2>1, <2>2 DEF Newest
<1>3. CASE ServerRestart
  <2>1. UNCHANGED device /\ session'.epoch = 0 /\ \A t \in Slots : handler'[t] = NoHandler
    BY <1>3, Blanks DEF ServerRestart
  <2>2. \A t \in Slots : ~Arriving(t)'
    BY <2>1, Blanks DEF Arriving
  <2>. QED
    BY <1>0, <2>1, <2>2 DEF Newest
<1>. QED
  BY <1>1, <1>2, <1>3

\* The daemon: its requests start by reading the row.
LEMMA NewestDaemon ==
    ASSUME BrokerInv,
           \/ \E s \in Slots : Looping(s)
           \/ DaemonStarts \/ Claim \/ Execute \/ ConnectionLost \/ DaemonCrash \/ Tick
           \/ UNCHANGED vars
    PROVE  Newest'
<1>. USE DEF broker, local, bounds, Server
<1>0. /\ TypeOK /\ Newest /\ Known /\ handler \in [Slots -> Handler]
      /\ UNCHANGED <<device, barred, revoking, session>>
  <2>1. UNCHANGED <<device, barred, revoking, session>>
    BY DEF Looping, SendOpen, SendPoll, SendResult, SendStatus, Send, Receive, DaemonStarts,
           Claim, Execute, ConnectionLost, DaemonCrash, Tick, vars
  <2>. QED
    BY <2>1 DEF BrokerInv, TypeOK
<1>1. ASSUME NEW s \in Slots, NEW h, Request(s, h), h.pc # "act"
      PROVE  Newest'
  BY <1>0, <1>1, NewestMoves DEF Request
<1>2. ASSUME NEW s \in Slots, Looping(s)
      PROVE  Newest'
  <2>0. /\ [NoHandler EXCEPT !.kind = "open"].pc = "read"
        /\ [NoHandler EXCEPT !.kind = "poll", !.pc = "touch", !.epoch = daemon.epoch].pc = "touch"
        /\ [NoHandler EXCEPT !.kind = "result", !.pc = "touch", !.epoch = daemon.epoch,
                             !.cmd = daemon.cmd, !.ok = daemon.ok].pc = "touch"
    BY DEF NoHandler
  <2>1. CASE SendOpen(s) \/ SendPoll(s) \/ SendResult(s)
    BY <1>1, <2>0, <2>1 DEF SendOpen, SendPoll, SendResult, Send
  <2>2. CASE SendStatus(s)
    <3>1. PICK c \in starts :
            Request(s, [NoHandler EXCEPT !.kind = "status", !.pc = "touch",
                                         !.epoch = daemon.epoch, !.cmd = c])
      BY <2>2 DEF SendStatus
    <3>2. [NoHandler EXCEPT !.kind = "status", !.pc = "touch",
                            !.epoch = daemon.epoch, !.cmd = c].pc # "act"
      BY DEF NoHandler
    <3>. QED
      BY <1>1, <3>1, <3>2
  <2>3. CASE Receive(s)
    <3>1. handler[s].pc = "reply" /\ handler' = [handler EXCEPT ![s] = NoHandler]
      BY <2>3 DEF Receive
    <3>. QED
      BY <1>0, <3>1, Blanks, NewestMoves
  <2>. QED
    BY <1>2, <2>1, <2>2, <2>3 DEF Looping
<1>3. CASE UNCHANGED handler
  BY <1>0, <1>3, NewestKept
<1>. QED
  BY <1>2, <1>3 DEF DaemonStarts, Claim, Execute, ConnectionLost, DaemonCrash, Tick, vars

-----------------------------------------------------------------------------
(* The invariant.                                                            *)

\* The broker before the first session.
LEMMA InitInv == Init => BrokerInv
<1>. SUFFICES ASSUME Init PROVE BrokerInv
  OBVIOUS
<1>1. TypeOK
  <2>1. starts \in StartSets /\ journal \subseteq Assignments /\ listeners \subseteq starts
    BY DEF Init
  <2>2. session \in Session /\ daemon \in Daemon
    BY Blanks DEF Init
  <2>3. pending \in [Commands -> Pending] /\ handler \in [Slots -> Handler]
    BY Blanks DEF Init
  <2>4. device \in [epoch : Nat, revoked : BOOLEAN] /\ barred \in BOOLEAN /\ revoking \in BOOLEAN
    <3>1. device \in [epoch : Nat, revoked : BOOLEAN]
      BY DEF Init
    <3>2. barred \in BOOLEAN /\ revoking \in BOOLEAN
      BY Zenon DEF Init
    <3>. QED
      BY <3>1, <3>2
  <2>5. /\ binding \in [Commands -> Nat] /\ outcome \in [Commands -> Outcome]
        /\ handed \in [Commands -> Nat] /\ executed \in [Assignments -> Nat]
        /\ clock \in Nat /\ crashes \in Nat
    BY DEF Init, Outcome
  <2>. QED
    BY <2>1, <2>2, <2>3, <2>4, <2>5 DEF TypeOK
<1>2. Tables
  <2>1. session.queue = <<>> /\ \A c \in Commands : ~IsPending(c)
    BY Blanks DEF Init, IsPending
  <2>2. Queued
    BY <2>1 DEF Queued, Holds, Once
  <2>3. OnlyCurrent
    BY <2>1 DEF OnlyCurrent, Init
  <2>4. \A c \in Commands : Life(c) /\ (binding[c] # 0 => c \in starts)
    BY <2>1 DEF Life, Init
  <2>. QED
    BY <2>2, <2>3, <2>4 DEF Tables
<1>3. WaiterIsParked
  BY Blanks, BrokerAssumption DEF WaiterIsParked, Init
<1>4. Known
  BY Blanks DEF Known, Fit, Init
<1>5. Journaled
  BY Blanks DEF Journaled, Init
<1>6. Newest
  BY Blanks DEF Newest, Arriving, Init
<1>. QED
  BY <1>1, <1>2, <1>3, <1>4, <1>5, <1>6 DEF BrokerInv

\* Known only grows with what is handed over.
LEMMA KnownKept ==
    ASSUME TypeOK, Known, Serving', Grown,
           daemon' = daemon \/ (daemon'.cmd = NoCommand /\ daemon'.pc = "open")
    PROVE  WaiterIsParked' /\ Known'
<1>1. daemon.cmd \in Commands \cup {NoCommand}
  BY Parts
<1>. QED
  BY <1>1 DEF Known, Serving, Grown

\* Every step keeps the invariant.
LEMMA NextInv == BrokerInv /\ [Next]_vars => BrokerInv'
<1>. SUFFICES ASSUME BrokerInv, [Next]_vars PROVE BrokerInv'
  OBVIOUS
<1>. USE DEF broker, local, bounds, Server
<1>0. /\ starts' = starts /\ TypeOK /\ Tables /\ Known /\ Journaled /\ Serving
      /\ daemon \in Daemon
  BY DEF Next, vars, BrokerInv, Serving, Known, TypeOK
<1>1. ASSUME NEW s \in Slots, Brokering(s)
      PROVE  BrokerInv'
  <2>1. UNCHANGED <<daemon, journal, executed>>
    BY <1>1 DEF Brokering, Activate, Poll, PollTimeout, Complete, PublishStatus
  <2>2. Journaled'
    BY <1>0, <2>1, JournaledKept
  <2>. QED
    BY <1>0, <1>1, <2>2, BrokeringTyped, TablesBrokering, ServingBrokering, KnownKept,
       NewestBrokering DEF BrokerInv
<1>2. ASSUME NEW c \in Commands, Calling(c)
      PROVE  BrokerInv'
  <2>1. UNCHANGED <<daemon, journal, executed>>
    BY <1>2 DEF Calling, Dispatch, Expire, Subscribe, CloseSubscription
  <2>2. Journaled'
    BY <1>0, <2>1, JournaledKept
  <2>. QED
    BY <1>0, <1>2, <2>2, CallingTyped, TablesCalling, ServingCalling, KnownKept,
       NewestCalling DEF BrokerInv
<1>3. ASSUME NEW s \in Slots, Routing(s)
      PROVE  BrokerInv'
  <2>1. UNCHANGED <<daemon, journal, executed, broker, outcome, handed>>
    BY <1>3 DEF Routing, OpenRead, OpenCas, Touch, Unheard
  <2>2. Journaled' /\ Tables'
    BY <1>0, <2>1, JournaledKept, TablesElsewhere
  <2>3. TypeOK'
    BY <1>0, <1>3, RoutingTyped
  <2>. QED
    BY <1>0, <1>3, <2>2, <2>3, ServingRouting, KnownKept, NewestRouting DEF BrokerInv
<1>4. CASE RevokeDevice \/ RevokeBroker \/ ServerRestart
  <2>1. TypeOK'
    BY <1>0, <1>4, RoutingTyped
  <2>2. Journaled'
    <3>1. UNCHANGED <<journal, executed>>
      BY <1>4 DEF RevokeDevice, RevokeBroker, ServerRestart
    <3>2. daemon' = daemon \/ (daemon' = Reconnects /\ daemon.slot # NoSlot)
      BY <1>4 DEF RevokeDevice, RevokeBroker, ServerRestart
    <3>3. CASE daemon' = daemon
      BY <1>0, <3>1, <3>3, JournaledKept
    <3>4. CASE daemon' = Reconnects /\ daemon.slot # NoSlot
      <4>1. daemon.pc # "down"
        BY <1>0, <3>4 DEF Journaled
      <4>2. daemon'.pc = "open" /\ daemon'.known = daemon.known
        BY <1>0, <3>4, Reconnecting
      <4>. QED
        BY <1>0, <3>1, <4>1, <4>2, JournaledKept
    <3>. QED
      BY <3>2, <3>3, <3>4
  <2>3. Tables'
    <3>1. CASE RevokeDevice
      BY <1>0, <3>1, TablesElsewhere DEF RevokeDevice
    <3>. QED
      BY <1>0, <1>4, <3>1, TablesServer
  <2>. QED
    BY <1>0, <1>4, <2>1, <2>2, <2>3, ServingServer, KnownKept, NewestServer DEF BrokerInv
<1>5. CASE \/ \E s \in Slots : Looping(s)
           \/ DaemonStarts \/ Claim \/ Execute \/ ConnectionLost \/ DaemonCrash \/ Tick
           \/ UNCHANGED vars
  <2>1. UNCHANGED <<broker, outcome, handed>>
    BY <1>5 DEF Looping, SendOpen, SendPoll, SendResult, SendStatus, Send, Receive, DaemonStarts,
           Claim, Execute, ConnectionLost, DaemonCrash, Tick, vars
  <2>2. Tables'
    BY <1>0, <2>1, TablesElsewhere
  <2>. QED
    BY <1>0, <1>5, <2>2, DaemonTyped, ServingDaemon, JournaledDaemon, NewestDaemon DEF BrokerInv
<1>. QED
  BY <1>1, <1>2, <1>3, <1>4, <1>5 DEF Next

\* The invariant holds in every reachable state.
LEMMA InvHolds == Spec => []BrokerInv
<1>. QED
  BY InitInv, NextInv, PTL DEF Spec

\* At every interleaving of polls, deadlines, new sessions and revocations the
\* broker's tables agree with each other and with the database
\* (runtimeDaemonBroker.ts:76-110, 131, 213-240).
THEOREM SessionsSound == Spec => []SessionSound
<1>1. BrokerInv => SessionSound
  <2>. SUFFICES ASSUME BrokerInv PROVE SessionSound
    OBVIOUS
  <2>1. QueueIsUndelivered
    BY DEF BrokerInv, Tables, Queued, Holds, Once, QueueIsUndelivered
  <2>2. ActiveIsNewest
    BY DEF BrokerInv, Newest, Arriving, ActiveIsNewest
  <2>. QED
    BY <2>1, <2>2 DEF BrokerInv, Tables, SessionSound
<1>. QED
  BY <1>1, InvHolds, PTL

\* A command is handed over at most once, never after its caller was told that it
\* was refused, and its assignment is executed at most once, whatever crashes or
\* is retried (runtimeDaemonBroker.ts:131-180, daemon.ts:133).
THEOREM OnceOnly == Spec => []AtMostOnce
<1>1. BrokerInv => AtMostOnce
  <2>. SUFFICES ASSUME BrokerInv PROVE AtMostOnce
    OBVIOUS
  <2>1. ASSUME NEW c \in Commands
        PROVE  handed[c] <= (IF outcome[c] = "refused" THEN 0 ELSE 1)
    <3>1. Life(c) /\ outcome[c] \in Outcome
      BY DEF BrokerInv, Tables, TypeOK
    <3>. QED
      BY <3>1 DEF Life, Outcome
  <2>2. ExecutedOnce
    BY DEF BrokerInv, Journaled, ExecutedOnce
  <2>. QED
    BY <2>1, <2>2 DEF AtMostOnce, HandedOnce
<1>. QED
  BY <1>1, InvHolds, PTL

-----------------------------------------------------------------------------
(* The broker implements the CommandChannel.                                 *)

\* How far a command is, as CommandChannel sees it.
Stage(c) ==
    IF outcome[c] # "none" THEN outcome[c]
    ELSE IF handed[c] > 0 THEN "delivered"
    ELSE IF IsPending(c) THEN "queued" ELSE "none"

\* What the tables say of a command fixes its stage.
LEMMA StageOf ==
    ASSUME Tables, NEW c \in Commands
    PROVE  /\ IsPending(c) /\ pending[c].delivered => Stage(c) = "delivered"
           /\ IsPending(c) /\ ~pending[c].delivered => Stage(c) = "queued"
           /\ outcome[c] = "none" /\ ~IsPending(c) => Stage(c) = "none"
<1>1. Life(c)
  BY DEF Tables
<1>. QED
  BY <1>1 DEF Life, Stage

\* Nothing happens to any command: a drop of no commands.
LEMMA StagesStay ==
    ASSUME \A c \in Commands : Stage(c)' = Stage(c)
    PROVE  Channel!Next
<1>1. Channel!Drop({})
  BY DEF Stage, Channel!Drop
<1>. QED
  BY <1>1 DEF Channel!Next

\* One command moves on.
LEMMA StageMoves ==
    ASSUME NEW c \in Commands, \A d \in Commands \ {c} : Stage(d)' = Stage(d),
           \/ Stage(c) = "none" /\ Stage(c)' \in {"queued", "delivered", "refused"}
           \/ Stage(c) = "queued" /\ Stage(c)' \in {"delivered", "refused"}
           \/ Stage(c) = "delivered" /\ Stage(c)' \in {"answered", "lost"}
    PROVE  Channel!Next
<1>1. ASSUME NEW from, NEW to, Stage(c) \in from, Stage(c)' = to
      PROVE  Channel!Move(c, from, to)
  BY <1>1 DEF Stage, Channel!Move
<1>2. CASE Stage(c) = "none" /\ Stage(c)' \in {"queued", "delivered"}
  BY <1>1, <1>2 DEF Channel!Submit, Channel!Next
<1>3. CASE Stage(c) \in {"none", "queued"} /\ Stage(c)' = "refused"
  BY <1>1, <1>3 DEF Channel!Refuse, Channel!Next
<1>4. CASE Stage(c) = "queued" /\ Stage(c)' = "delivered"
  BY <1>1, <1>4 DEF Channel!Deliver, Channel!Next
<1>5. CASE Stage(c) = "delivered" /\ Stage(c)' = "answered"
  BY <1>1, <1>5 DEF Channel!Answer, Channel!Next
<1>6. CASE Stage(c) = "delivered" /\ Stage(c)' = "lost"
  BY <1>1, <1>6 DEF Channel!Lose, Channel!Next
<1>. QED
  BY <1>2, <1>3, <1>4, <1>5, <1>6

\* The session ends: what was queued is refused, what was handed over is lost.
LEMMA StagesFall ==
    ASSUME TypeOK, Tables, handed' = handed,
           \A c \in Commands :
              /\ outcome'[c] = IF IsPending(c) THEN Failure(pending[c]) ELSE outcome[c]
              /\ pending'[c].epoch = 0
    PROVE  Channel!Next
<1>1. PICK S \in SUBSET Commands : \A c \in Commands : c \in S <=> IsPending(c)
  <2>1. {c \in Commands : IsPending(c)} \in SUBSET Commands
    OBVIOUS
  <2>. QED
    BY <2>1
<1>2. ASSUME NEW c \in Commands
      PROVE  Stage(c)' = IF c \in S THEN Channel!Fallen(Stage(c)) ELSE Stage(c)
  <2>1. CASE IsPending(c)
    <3>1. Stage(c)' = Failure(pending[c])
      BY <2>1 DEF Stage, Failure
    <3>. QED
      BY <1>1, <2>1, <3>1, StageOf DEF Failure, Channel!Fallen
  <2>2. CASE ~IsPending(c)
    BY <1>1, <2>2 DEF Stage, IsPending
  <2>. QED
    BY <2>1, <2>2
<1>3. Channel!Drop(S)
  BY <1>2 DEF Stage, Channel!Drop
<1>. QED
  BY <1>3 DEF Channel!Next

\* Every step of the broker is a step of the channel.
LEMMA ChannelStep ==
    ASSUME BrokerInv, [Next]_vars
    PROVE  Channel!Next
<1>. USE DEF broker, local, bounds, Server
<1>0. /\ TypeOK /\ Tables /\ Known /\ OnlyCurrent /\ Queued
      /\ pending \in [Commands -> Pending] /\ handed \in [Commands -> Nat]
      /\ outcome \in [Commands -> Outcome] /\ \A c \in Commands : Life(c)
  BY DEF BrokerInv, Tables, TypeOK
<1>1. CASE UNCHANGED <<pending, outcome, handed>>
  <2>1. \A c \in Commands : Stage(c)' = Stage(c)
    BY <1>1 DEF Stage, IsPending
  <2>. QED
    BY <2>1, StagesStay
<1>2. ASSUME NEW s \in Slots, Activate(s)
      PROVE  Channel!Next
  <2>1. CASE Supersedes(handler[s].epoch)
    <3>1. RejectEpoch /\ handed' = handed
      BY <1>2, <2>1 DEF Activate
    <3>. QED
      BY <1>0, <3>1, RejectsAll, StagesFall
  <2>2. CASE ~Supersedes(handler[s].epoch)
    BY <1>1, <1>2, <2>2 DEF Activate
  <2>. QED
    BY <2>1, <2>2
<1>3. ASSUME NEW s \in Slots, Poll(s)
      PROVE  Channel!Next
  <2>1. CASE UNCHANGED <<pending, handed>>
    BY <1>1, <1>3, <2>1 DEF Poll
  <2>2. CASE Deliverable # <<>> /\ Hand(Head(Deliverable))
    <3>. DEFINE q == session.queue
    <3>1. q \in Seq(Commands) /\ Deliverable = q
      BY <1>0, AllDeliverable
    <3>2. PICK c \in Commands : 1 \in DOMAIN q /\ q[1] = c /\ Head(q) = c
      <4>1. Len(q) \in Nat \ {0} /\ DOMAIN q = 1 .. Len(q)
        BY <2>2, <3>1, EmptySeq, LenProperties
      <4>. QED
        BY <2>2, <3>1, <4>1, HeadTailProperties
    <3>3. IsPending(c) /\ ~pending[c].delivered
      <4>1. Holds(q, c)
        BY <3>2 DEF Holds
      <4>. QED
        BY <1>0, <3>2, <4>1 DEF Queued
    <3>4. /\ outcome' = outcome
          /\ pending' = [pending EXCEPT ![c] = Delivered(@)]
          /\ handed' = [handed EXCEPT ![c] = @ + 1]
      BY <1>3, <2>2, <3>1, <3>2 DEF Poll, Hand
    <3>. HIDE DEF q
    <3>5. handed[c] \in Nat /\ outcome[c] = "none"
      BY <1>0, <3>2, <3>3 DEF Life
    <3>6. Stage(c) = "queued" /\ Stage(c)' = "delivered"
      BY <1>0, <3>2, <3>3, <3>4, <3>5, StageOf DEF Stage
    <3>7. \A d \in Commands \ {c} : Stage(d)' = Stage(d)
      BY <1>0, <3>4 DEF Stage, IsPending
    <3>. QED
      BY <3>2, <3>6, <3>7, StageMoves
  <2>. QED
    BY <1>3, <2>1, <2>2 DEF Poll
<1>4. ASSUME NEW s \in Slots, Complete(s)
      PROVE  Channel!Next
  <2>. DEFINE h == handler[s]
  <2>1. CASE UNCHANGED <<pending, outcome>>
    BY <1>1, <1>4, <2>1 DEF Complete
  <2>2. CASE /\ Active(h.epoch) /\ pending[h.cmd].epoch = h.epoch
             /\ outcome' = [outcome EXCEPT ![h.cmd] = IF h.ok THEN "answered" ELSE "lost"]
             /\ pending' = [pending EXCEPT ![h.cmd] = NoPending]
    <3>1. h.kind = "result" /\ h.pc = "act" /\ handed' = handed
          /\ h.cmd \in Commands \cup {NoCommand}
      BY <1>0, <1>4, Parts DEF Complete
    <3>2. PICK c \in Commands : c = h.cmd /\ handed[c] # 0
      BY <1>0, <3>1 DEF Known, Fit
    <3>3. IsPending(c)
      BY <2>2, <3>2 DEF Active, IsPending
    <3>4. outcome[c] = "none" /\ pending[c].delivered
      BY <1>0, <3>2, <3>3 DEF Life
    <3>5. Stage(c) = "delivered"
      BY <1>0, <3>2, <3>3, <3>4, StageOf
    <3>6. Stage(c)' \in {"answered", "lost"}
      <4>1. outcome'[c] \in {"answered", "lost"}
        BY <1>0, <2>2, <3>2
      <4>. QED
        BY <4>1 DEF Stage
    <3>7. \A d \in Commands \ {c} : Stage(d)' = Stage(d)
      BY <1>0, <2>2, <3>1, <3>2 DEF Stage, IsPending
    <3>. QED
      BY <3>2, <3>5, <3>6, <3>7, StageMoves
  <2>. QED
    BY <1>4, <2>1, <2>2 DEF Complete
<1>5. ASSUME NEW c \in Commands, Dispatch(c)
      PROVE  Channel!Next
  <2>. DEFINE p == [epoch |-> session.epoch, delivered |-> FALSE, due |-> clock + AcceptDeadline]
  <2>0. outcome[c] = "none" /\ ~IsPending(c) /\ handed[c] = 0 /\ Stage(c) = "none"
    BY <1>0, <1>5, StageOf DEF Dispatch, Life
  <2>1. CASE outcome' = [outcome EXCEPT ![c] = "refused"] /\ UNCHANGED <<pending, handed>>
    <3>1. Stage(c)' = "refused" /\ \A d \in Commands \ {c} : Stage(d)' = Stage(d)
      BY <1>0, <2>1 DEF Stage, IsPending
    <3>. QED
      BY <2>0, <3>1, StageMoves
  <2>2. CASE /\ pending' = [pending EXCEPT ![c] = Delivered(p)]
             /\ handed' = [handed EXCEPT ![c] = @ + 1]
             /\ UNCHANGED outcome
    <3>1. Stage(c)' = "delivered" /\ \A d \in Commands \ {c} : Stage(d)' = Stage(d)
      BY <1>0, <2>0, <2>2 DEF Stage, IsPending
    <3>. QED
      BY <2>0, <3>1, StageMoves
  <2>3. CASE /\ Active(session.epoch) /\ pending' = [pending EXCEPT ![c] = p]
             /\ UNCHANGED <<handed, outcome>>
    <3>1. session.epoch # 0
      BY <2>3 DEF Active
    <3>2. Stage(c)' = "queued" /\ \A d \in Commands \ {c} : Stage(d)' = Stage(d)
      BY <1>0, <2>0, <2>3, <3>1 DEF Stage, IsPending
    <3>. QED
      BY <2>0, <3>2, StageMoves
  <2>. QED
    BY <1>5, <2>1, <2>2, <2>3 DEF Dispatch
<1>6. ASSUME NEW c \in Commands, Expire(c)
      PROVE  Channel!Next
  <2>1. /\ IsPending(c) /\ handed' = handed
        /\ outcome' = [outcome EXCEPT ![c] = Failure(pending[c])]
        /\ pending' = [pending EXCEPT ![c] = NoPending]
    BY <1>6 DEF Expire
  <2>2. Stage(c)' = Failure(pending[c]) /\ \A d \in Commands \ {c} : Stage(d)' = Stage(d)
    BY <1>0, <2>1 DEF Stage, IsPending, Failure
  <2>3. \/ Stage(c) = "queued" /\ Stage(c)' = "refused"
        \/ Stage(c) = "delivered" /\ Stage(c)' = "lost"
    BY <1>0, <2>1, <2>2, StageOf DEF Failure
  <2>. QED
    BY <2>2, <2>3, StageMoves
<1>7. CASE RevokeBroker
  <2>1. CASE session.epoch # 0
    <3>1. RejectEpoch /\ handed' = handed
      BY <1>7, <2>1 DEF RevokeBroker
    <3>. QED
      BY <1>0, <3>1, RejectsAll, StagesFall
  <2>2. CASE session.epoch = 0
    BY <1>1, <1>7, <2>2 DEF RevokeBroker
  <2>. QED
    BY <2>1, <2>2
<1>8. CASE ServerRestart
  <2>1. \A c \in Commands :
           /\ outcome'[c] = IF IsPending(c) THEN Failure(pending[c]) ELSE outcome[c]
           /\ pending'[c].epoch = 0
    BY <1>8, Blanks DEF ServerRestart
  <2>2. handed' = handed
    BY <1>8 DEF ServerRestart
  <2>. QED
    BY <1>0, <2>1, <2>2, StagesFall
<1>9. CASE /\ Next
           /\ ~\E s \in Slots : Activate(s) \/ Poll(s) \/ Complete(s)
           /\ ~\E c \in Commands : Dispatch(c) \/ Expire(c)
           /\ ~RevokeBroker /\ ~ServerRestart
  <2>1. UNCHANGED <<pending, outcome, handed>>
    BY <1>9 DEF Next, Brokering, PollTimeout, PublishStatus, Routing, OpenRead, OpenCas, Touch,
                Unheard, Calling, Subscribe, CloseSubscription, Looping, SendOpen, SendPoll,
                SendResult, SendStatus, Send, Receive, RevokeDevice, DaemonStarts, Claim,
                Execute, ConnectionLost, DaemonCrash, Tick
  <2>. QED
    BY <1>1, <2>1
<1>10. CASE UNCHANGED vars
  BY <1>1, <1>10 DEF vars
<1>. QED
  BY <1>2, <1>3, <1>4, <1>5, <1>6, <1>7, <1>8, <1>9, <1>10

\* The broker implements the CommandChannel that DispatchReceipt relies on: a
\* command is handed over at most once, refused means never, and nothing is
\* answered that was not handed over (runtimeDaemonBroker.ts:76-240).
THEOREM ChannelKept == Spec => KeepsChannel
<1>1. Init => Channel!Init
  BY Blanks DEF Init, IsPending, Channel!Init
<1>. QED
  BY <1>1, InitInv, NextInv, ChannelStep, PTL DEF Spec, KeepsChannel, Channel!Spec

=============================================================================
