---------------------------- MODULE ContextLease ----------------------------
(***************************************************************************)
(* Context leases as the lease routes drive them: concurrent requests that *)
(* acquire, renew, transfer and release the one lease row of a Context     *)
(* (backend/src/agent/contextLease.ts, drawingLeaseRoutes.ts).             *)
(*                                                                         *)
(* A request reads its clock once, when it starts, and then takes one step *)
(* per database statement.  Other requests and the passing of time fall    *)
(* between any two of them, so a request acts on a stale row and a stale   *)
(* clock.                                                                  *)
(***************************************************************************)
EXTENDS LeaseRow

CONSTANTS Contexts,
          Requests,      \* request slots: how many calls run concurrently
          Owner,         \* the board owner, whose override the routes accept
          Ttls,          \* ttlMs values a caller may ask for
          MaxHorizon,    \* longest approval window a caller may ask for
          MaxTime,       \* bound on the clock; every approval ends before it
          MaxGen         \* bound on generations (calls that mint one)

ASSUME BoundsAssumption ==
    /\ Contexts # {}
    /\ Owner \in Users
    /\ Ttls \subseteq Nat \ {0}
    /\ MaxHorizon \in Nat
    /\ MaxTime \in Nat
    /\ MaxGen \in Nat

VARIABLES lease,     \* [Contexts -> Row]      the ContextLease table
          call,      \* [Requests -> Call]     calls in flight
          nextGen,   \* next generation to mint
          clock      \* server wall clock

vars == <<lease, call, nextGen, clock>>

Ops == {"acquire", "renew", "transfer", "release"}

\* op, the arguments of the call, and what it has read so far.
Call == [op       : Ops \cup {"none"},
         pc       : {"idle", "create", "read", "cas"},
         ctx      : Contexts,
         gen      : Nat,              \* generation the caller presents
         run      : Runs \cup {None},
         user     : Users \cup {None},
         override : BOOLEAN,
         now      : Nat,              \* clock read at the start of the call
         ttl      : Nat,
         horizon  : Nat,              \* asked for (acquire) or read (renew, transfer)
         newGen   : Nat]              \* generation a grant or transfer would write

NoCall == [op |-> "none", pc |-> "idle", ctx |-> CHOOSE c \in Contexts : TRUE,
           gen |-> 0, run |-> None, user |-> None, override |-> FALSE,
           now |-> 0, ttl |-> 0, horizon |-> 0, newGen |-> 0]

Init ==
    /\ lease = [c \in Contexts |-> NoRow]
    /\ call = [p \in Requests |-> NoCall]
    /\ nextGen = 1
    /\ clock = 0

-----------------------------------------------------------------------------
\* The call returns or throws.  The snapshot it returns is read by one more
\* statement, which changes nothing here; DispatchReceipt models it for the
\* caller that acts on it.
Finish(p) == call' = [call EXCEPT ![p] = NoCall]

Goto(p, pc) == call' = [call EXCEPT ![p].pc = pc]

\* A call with its arguments; it reads the clock once, now.
NewCall(op, pc, c, g, r, u, o, t, h, n) ==
    [op |-> op, pc |-> pc, ctx |-> c, gen |-> g, run |-> r, user |-> u, override |-> o,
     now |-> clock, ttl |-> t, horizon |-> h, newGen |-> n]

Start(p, c) ==
    /\ call[p].pc = "idle"
    /\ call' = [call EXCEPT ![p] = c]
    /\ UNCHANGED <<lease, clock>>

\* Generations a caller can present: any that GET has shown (it shows the
\* current one to every viewer), or, as 0, one that was never issued.
Known == 0 .. nextGen - 1

\* Mutant of AcquireBegin: the approval window is subtracted from the clock.
AcquireBeginBackwards(p) ==
    /\ nextGen <= MaxGen
    /\ nextGen' = nextGen + 1
    /\ \E c \in Contexts, r \in Runs, u \in Users, t \in Ttls, h \in 1 .. MaxHorizon :
          Start(p, NewCall("acquire", "create", c, 0, r, u, FALSE, t, clock - h, nextGen))

AcquireBegin(p) ==
    /\ nextGen <= MaxGen
    /\ nextGen' = nextGen + 1
    /\ \E c \in Contexts, r \in Runs, u \in Users, t \in Ttls, h \in 1 .. MaxHorizon :
          /\ clock + h < MaxTime
          /\ Start(p, NewCall("acquire", "create", c, 0, r, u, FALSE, t, clock + h, nextGen))

Granted(p) ==
    LET k == call[p]
    IN  Grant(k.newGen, k.run, k.user, k.now, k.ttl, k.horizon)

\* INSERT; a unique-key conflict falls through to the guarded re-grant.
AcquireCreate(p) ==
    LET k == call[p]
    IN  /\ k.op = "acquire" /\ k.pc = "create"
        /\ \/ /\ lease[k.ctx] = NoRow
              /\ lease' = [lease EXCEPT ![k.ctx] = Granted(p)]
              /\ Finish(p)
           \/ /\ lease[k.ctx] # NoRow
              /\ Goto(p, "cas")
              /\ UNCHANGED lease
        /\ UNCHANGED <<nextGen, clock>>

\* A lost race throws ContextLeaseHeldError.
AcquireCas(p) ==
    LET k == call[p]
    IN  /\ k.op = "acquire" /\ k.pc = "cas"
        /\ IF Grantable(lease[k.ctx], k.now)
           THEN lease' = [lease EXCEPT ![k.ctx] = Granted(p)]
           ELSE UNCHANGED lease
        /\ Finish(p)
        /\ UNCHANGED <<nextGen, clock>>

\* The conditions renew and transfer test on the row they read, and again in
\* the WHERE of their write.
Holds(k, row) ==
    /\ row.gen = k.gen
    /\ IsLive(row, k.now)
    /\ MayAct(row, k.user, k.override)
    /\ k.op = "renew" => row.run = k.run

RenewBegin(p) ==
    /\ UNCHANGED nextGen
    /\ \E c \in Contexts, g \in Known, r \in Runs, u \in Users, t \in Ttls :
          Start(p, NewCall("renew", "read", c, g, r, u, u = Owner, t, 0, 0))

\* The first statement of renew and transfer, which throws early.
ReadCurrent(p, op) ==
    LET k   == call[p]
        row == lease[k.ctx]
    IN  /\ k.op = op /\ k.pc = "read"
        /\ IF Holds(k, row)
           THEN call' = [call EXCEPT ![p].pc = "cas", ![p].horizon = row.endHorizonAt]
           ELSE Finish(p)
        /\ UNCHANGED <<lease, nextGen, clock>>

RenewRead(p) == ReadCurrent(p, "renew")

\* Mutant of RenewCas: the new expiry is not capped by the approval end.
RenewCasUncapped(p) ==
    LET k   == call[p]
        row == lease[k.ctx]
    IN  /\ k.op = "renew" /\ k.pc = "cas"
        /\ IF Holds(k, row)
           THEN lease' = [lease EXCEPT ![k.ctx].expiresAt = k.now + k.ttl]
           ELSE UNCHANGED lease
        /\ Finish(p)
        /\ UNCHANGED <<nextGen, clock>>

\* Mutant of RenewCas: renewing re-opens the approval window.
RenewCasReopens(p) ==
    LET k   == call[p]
        row == lease[k.ctx]
    IN  /\ k.op = "renew" /\ k.pc = "cas"
        /\ IF Holds(k, row)
           THEN lease' = [lease EXCEPT ![k.ctx].expiresAt = k.now + k.ttl,
                                       ![k.ctx].endHorizonAt = k.now + k.ttl]
           ELSE UNCHANGED lease
        /\ Finish(p)
        /\ UNCHANGED <<nextGen, clock>>

RenewCas(p) ==
    LET k   == call[p]
        row == lease[k.ctx]
    IN  /\ k.op = "renew" /\ k.pc = "cas"
        /\ IF Holds(k, row)
           THEN lease' = [lease EXCEPT ![k.ctx].expiresAt = Earlier(k.now + k.ttl, k.horizon)]
           ELSE UNCHANGED lease
        /\ Finish(p)
        /\ UNCHANGED <<nextGen, clock>>

\* The route names the caller as the new initiatedByUserId, and asks for an
\* override only when the owner requested it.
TransferBegin(p) ==
    /\ nextGen <= MaxGen
    /\ nextGen' = nextGen + 1
    /\ \E c \in Contexts, g \in Known, r \in Runs, u \in Users, t \in Ttls :
          \E o \in {FALSE, u = Owner} :
             Start(p, NewCall("transfer", "read", c, g, r, u, o, t, 0, nextGen))

TransferRead(p) == ReadCurrent(p, "transfer")

TransferCas(p) ==
    LET k   == call[p]
        row == lease[k.ctx]
    IN  /\ k.op = "transfer" /\ k.pc = "cas"
        /\ IF Holds(k, row)
           THEN lease' = [lease EXCEPT ![k.ctx] =
                            [row EXCEPT !.gen = k.newGen, !.run = k.run, !.user = k.user,
                                        !.expiresAt = Earlier(k.now + k.ttl, k.horizon)]]
           ELSE UNCHANGED lease
        /\ Finish(p)
        /\ UNCHANGED <<nextGen, clock>>

ReleaseBegin(p) ==
    /\ UNCHANGED nextGen
    /\ \E c \in Contexts, g \in Known, r \in Runs, u \in Users :
          Start(p, NewCall("release", "cas", c, g, r, u, u = Owner, 0, 0, 0))

\* Unlike renew and transfer, release does not ask whether the lease expired.
ReleaseCas(p) ==
    LET k   == call[p]
        row == lease[k.ctx]
    IN  /\ k.op = "release" /\ k.pc = "cas"
        /\ IF /\ row.gen = k.gen /\ row.run = k.run /\ ~row.released
              /\ MayAct(row, k.user, k.override)
           THEN lease' = [lease EXCEPT ![k.ctx] = Release(row)]
           ELSE UNCHANGED lease
        /\ Finish(p)
        /\ UNCHANGED <<nextGen, clock>>

Tick ==
    /\ clock < MaxTime
    /\ clock' = clock + 1
    /\ UNCHANGED <<lease, call, nextGen>>

Next ==
    \/ Tick
    \/ \E p \in Requests :
          \/ AcquireBegin(p) \/ AcquireCreate(p) \/ AcquireCas(p)
          \/ RenewBegin(p) \/ RenewRead(p) \/ RenewCas(p)
          \/ TransferBegin(p) \/ TransferRead(p) \/ TransferCas(p)
          \/ ReleaseBegin(p) \/ ReleaseCas(p)

Spec == Init /\ [][Next]_vars

-----------------------------------------------------------------------------
(* Properties *)

TypeOK ==
    /\ lease \in [Contexts -> Row]
    /\ call \in [Requests -> Call]
    /\ nextGen \in Nat \ {0}
    /\ clock \in Nat

\* No sequence of renewals and hand-overs carries a lease past the end of the
\* human approval it was granted under, although renew and transfer compute
\* the new expiry from a row they read in an earlier statement
\* (contextLease.ts:328-331, 390-392).
WithinHorizon ==
    \A c \in Contexts : lease[c].expiresAt <= lease[c].endHorizonAt

\* Calls that may yet write the generation they carry.
Minting(p) == call[p].op \in {"acquire", "transfer"}

\* Calls between the read and the write of a renew or transfer.
PastRead(p) == call[p].op \in {"renew", "transfer"} /\ call[p].pc = "cas"

\* A generation that a call may yet write is on no row, is carried by no other
\* call, and is not the one some other call was admitted under by its read: a
\* call admitted under one holder can never match the row of the next.
FreshGenerations ==
    /\ \A c \in Contexts : lease[c].gen < nextGen
    /\ \A q \in Requests : call[q].gen < nextGen
    /\ \A p \in Requests : Minting(p) =>
          /\ call[p].newGen \in 1 .. nextGen - 1
          /\ \A c \in Contexts : lease[c].gen # call[p].newGen
          /\ \A q \in Requests \ {p} : Minting(q) => call[q].newGen # call[p].newGen
          /\ \A q \in Requests : PastRead(q) => call[q].gen # call[p].newGen

\* The approval end a renew or transfer has read is still the row's own for
\* as long as the generation it presented is: what makes the stale read safe.
ReadHorizonCurrent ==
    \A p \in Requests :
        PastRead(p) /\ lease[call[p].ctx].gen = call[p].gen
            => call[p].horizon = lease[call[p].ctx].endHorizonAt

\* Generations still carried by a call that may yet write them.
InFlight == {call[p].newGen : p \in {q \in Requests : Minting(q)}}

Promise == INSTANCE LeaseAuthority WITH
    authority <- [c \in Contexts |->
                    [gen |-> lease[c].gen, run |-> lease[c].run, user |-> lease[c].user,
                     horizon |-> lease[c].endHorizonAt, ended |-> lease[c].released,
                     live |-> IsLive(lease[c], clock)]],
    spent <- (1 .. nextGen - 1) \ InFlight,
    time <- clock

\* The calls, interleaved statement by statement, keep the promise of
\* LeaseAuthority: a live lease is never granted to somebody else, it changes
\* hands only to its own human or the board owner, a released or replaced
\* generation never acts again, nothing outlives its approval.
KeepsPromise == Promise!Spec

\* Every grant comes to an end by itself: however often its holder renews it,
\* a generation does not stay live (a crashed holder cannot block a Context).
GrantEnds ==
    \A c \in Contexts, g \in 1 .. MaxGen :
        (lease[c].gen = g /\ IsLive(lease[c], clock))
            ~> ~(lease[c].gen = g /\ IsLive(lease[c], clock))

\* Time passes; nothing is assumed of the callers, who may stop at any step.
FairSpec == Spec /\ WF_vars(Tick)

\* A call that was overtaken between its read and its write is harmless: the
\* generation it carries matches nobody else's row, and the approval end it read
\* is still the row's (contextLease.ts:308, 328-331, 390-396).
OvertakenCallsHarmless == FreshGenerations /\ ReadHorizonCurrent

=============================================================================
