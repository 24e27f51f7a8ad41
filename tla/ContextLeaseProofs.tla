------------------------- MODULE ContextLeaseProofs -------------------------
(***************************************************************************)
(* Proofs about ContextLease, for any number of concurrent calls: no lease *)
(* outlives the human approval it was granted under, a call that has been  *)
(* overtaken changes nothing, and the calls implement LeaseAuthority.      *)
(***************************************************************************)
EXTENDS ContextLease, TLAPS

\* The earlier of two instants is an instant, and is not after either.
LEMMA EarlierBound ==
    ASSUME NEW a \in Nat, NEW b \in Nat
    PROVE  Earlier(a, b) \in Nat /\ Earlier(a, b) <= a /\ Earlier(a, b) <= b
BY DEF Earlier

\* The Context that stands in an idle call is one.
LEMMA SomeContext == (CHOOSE c \in Contexts : TRUE) \in Contexts
BY BoundsAssumption

\* The empty row and the idle call have their types.
LEMMA Constants ==
    /\ NoRow \in Row
    /\ NoCall \in Call
    /\ NoCall.op = "none" /\ NoCall.pc = "idle"
<1>1. NoRow \in Row
  BY DEF NoRow, Row
<1>3. NoCall \in Call
  BY SomeContext DEF NoCall, Call, Ops
<1>. QED
  BY <1>1, <1>3 DEF NoCall

\* The parts of a call and of the row it is about have their types.
LEMMA CallTypes ==
    ASSUME TypeOK, NEW p \in Requests
    PROVE  /\ call[p] \in Call
           /\ call[p].ctx \in Contexts
           /\ lease[call[p].ctx] \in Row
           /\ lease[call[p].ctx].endHorizonAt \in Nat
           /\ call[p].now \in Nat /\ call[p].ttl \in Nat
           /\ call[p].horizon \in Nat /\ call[p].newGen \in Nat
           /\ call[p].run \in Runs \cup {None}
           /\ call[p].user \in Users \cup {None}
           /\ Earlier(call[p].now + call[p].ttl, call[p].horizon) \in Nat
           /\ Earlier(call[p].now + call[p].ttl, call[p].horizon) <= call[p].horizon
<1>1. call[p] \in Call
  BY DEF TypeOK
<1>2. call[p].ctx \in Contexts
  BY <1>1 DEF Call
<1>3. lease[call[p].ctx] \in Row
  BY <1>2 DEF TypeOK
<1>4. lease[call[p].ctx].endHorizonAt \in Nat
  BY <1>3 DEF Row
<1>5. /\ call[p].now \in Nat /\ call[p].ttl \in Nat
      /\ call[p].horizon \in Nat /\ call[p].newGen \in Nat
      /\ call[p].run \in Runs \cup {None}
      /\ call[p].user \in Users \cup {None}
  BY <1>1 DEF Call
<1>6. call[p].now + call[p].ttl \in Nat
  BY <1>5
<1>7. /\ Earlier(call[p].now + call[p].ttl, call[p].horizon) \in Nat
      /\ Earlier(call[p].now + call[p].ttl, call[p].horizon) <= call[p].horizon
  BY <1>5, <1>6, EarlierBound
<1>. QED
  BY <1>1, <1>2, <1>3, <1>4, <1>5, <1>7

\* What a grant writes is a row under the approval asked for.
LEMMA GrantedRow ==
    ASSUME TypeOK, NEW p \in Requests
    PROVE  /\ Granted(p) \in Row
           /\ Granted(p).expiresAt <= Granted(p).endHorizonAt
           /\ Granted(p).gen = call[p].newGen
           /\ Granted(p).endHorizonAt = call[p].horizon
BY CallTypes DEF Granted, Grant, Row

\* A call with well-typed arguments is well typed.
LEMMA NewCallTyped ==
    ASSUME TypeOK, NEW op \in Ops, NEW pc \in {"create", "read", "cas"}, NEW c \in Contexts,
           NEW g \in Nat, NEW r \in Runs, NEW u \in Users, NEW o \in BOOLEAN,
           NEW t \in Nat, NEW h \in Nat, NEW n \in Nat
    PROVE  NewCall(op, pc, c, g, r, u, o, t, h, n) \in Call
BY DEF NewCall, Call, TypeOK

\* Starting a well-typed call keeps the types.
LEMMA StartTyped ==
    ASSUME TypeOK, NEW p \in Requests, NEW k \in Call, Start(p, k),
           nextGen' = nextGen \/ nextGen' = nextGen + 1
    PROVE  TypeOK'
BY DEF Start, TypeOK

\* Every step of a lease call keeps the types.
LEMMA TypeStep == TypeOK /\ [Next]_vars => TypeOK'
<1> SUFFICES ASSUME TypeOK, [Next]_vars
             PROVE  TypeOK'
  OBVIOUS
<1>. USE BoundsAssumption
<1>1. CASE Tick
  BY <1>1 DEF TypeOK, Tick
<1>2. CASE UNCHANGED vars
  BY <1>2 DEF TypeOK, vars
<1>3. ASSUME NEW p \in Requests, AcquireBegin(p)
      PROVE  TypeOK'
  <2>1. PICK c \in Contexts, r \in Runs, u \in Users, t \in Ttls, h \in 1 .. MaxHorizon :
          Start(p, NewCall("acquire", "create", c, 0, r, u, FALSE, t, clock + h, nextGen))
    BY <1>3 DEF AcquireBegin
  <2>2. NewCall("acquire", "create", c, 0, r, u, FALSE, t, clock + h, nextGen) \in Call
    <3>1. t \in Nat /\ clock + h \in Nat /\ nextGen \in Nat
      BY DEF TypeOK
    <3>. QED
      BY <3>1, NewCallTyped DEF Ops
  <2>3. nextGen' = nextGen + 1
    BY <1>3 DEF AcquireBegin
  <2>. QED
    BY <2>1, <2>2, <2>3, StartTyped
<1>4. ASSUME NEW p \in Requests, RenewBegin(p)
      PROVE  TypeOK'
  <2>1. PICK c \in Contexts, g \in Known, r \in Runs, u \in Users, t \in Ttls :
          Start(p, NewCall("renew", "read", c, g, r, u, u = Owner, t, 0, 0))
    BY <1>4 DEF RenewBegin
  <2>2. NewCall("renew", "read", c, g, r, u, u = Owner, t, 0, 0) \in Call
    <3>1. g \in Nat /\ t \in Nat /\ (u = Owner) \in BOOLEAN
      BY DEF TypeOK, Known
    <3>. QED
      BY <3>1, NewCallTyped DEF Ops
  <2>. QED
    BY <1>4, <2>1, <2>2, StartTyped DEF RenewBegin
<1>5. ASSUME NEW p \in Requests, TransferBegin(p)
      PROVE  TypeOK'
  <2>1. PICK c \in Contexts, g \in Known, r \in Runs, u \in Users, t \in Ttls :
          \E o \in {FALSE, u = Owner} :
           Start(p, NewCall("transfer", "read", c, g, r, u, o, t, 0, nextGen))
    BY <1>5 DEF TransferBegin
  <2>2. PICK o \in {FALSE, u = Owner} :
           Start(p, NewCall("transfer", "read", c, g, r, u, o, t, 0, nextGen))
    BY <2>1
  <2>4. o \in BOOLEAN
    OBVIOUS
  <2>3. NewCall("transfer", "read", c, g, r, u, o, t, 0, nextGen) \in Call
    <3>1. g \in Nat /\ t \in Nat /\ nextGen \in Nat
      BY DEF TypeOK, Known
    <3>. QED
      BY <2>4, <3>1, NewCallTyped DEF Ops
  <2>5. nextGen' = nextGen + 1
    BY <1>5 DEF TransferBegin
  <2>. QED
    BY <2>2, <2>3, <2>5, StartTyped
<1>6. ASSUME NEW p \in Requests, ReleaseBegin(p)
      PROVE  TypeOK'
  <2>1. PICK c \in Contexts, g \in Known, r \in Runs, u \in Users :
          Start(p, NewCall("release", "cas", c, g, r, u, u = Owner, 0, 0, 0))
    BY <1>6 DEF ReleaseBegin
  <2>2. NewCall("release", "cas", c, g, r, u, u = Owner, 0, 0, 0) \in Call
    <3>1. g \in Nat /\ (u = Owner) \in BOOLEAN
      BY DEF TypeOK, Known
    <3>. QED
      BY <3>1, NewCallTyped DEF Ops
  <2>. QED
    BY <1>6, <2>1, <2>2, StartTyped DEF ReleaseBegin
<1>7. ASSUME NEW p \in Requests, AcquireCreate(p)
      PROVE  TypeOK'
  BY <1>7, Constants, GrantedRow DEF AcquireCreate, Finish, Goto, TypeOK, Call
<1>8. ASSUME NEW p \in Requests, AcquireCas(p)
      PROVE  TypeOK'
  BY <1>8, Constants, GrantedRow DEF AcquireCas, Finish, TypeOK, Call
<1>9. ASSUME NEW p \in Requests, RenewRead(p) \/ TransferRead(p)
      PROVE  TypeOK'
  <2>1. [call[p] EXCEPT !.pc = "cas", !.horizon = lease[call[p].ctx].endHorizonAt] \in Call
    BY CallTypes DEF Call
  <2>. QED
    BY <1>9, <2>1, Constants DEF RenewRead, TransferRead, ReadCurrent, Finish, TypeOK
<1>10. ASSUME NEW p \in Requests, RenewCas(p)
       PROVE  TypeOK'
  <2>1. [lease[call[p].ctx] EXCEPT !.expiresAt =
            Earlier(call[p].now + call[p].ttl, call[p].horizon)] \in Row
    BY CallTypes DEF Row
  <2>. QED
    BY <1>10, <2>1, Constants DEF RenewCas, Finish, TypeOK
<1>11. ASSUME NEW p \in Requests, TransferCas(p)
       PROVE  TypeOK'
  <2>1. [lease[call[p].ctx] EXCEPT
            !.gen = call[p].newGen, !.run = call[p].run, !.user = call[p].user,
            !.expiresAt = Earlier(call[p].now + call[p].ttl, call[p].horizon)] \in Row
    BY CallTypes DEF Row
  <2>. QED
    BY <1>11, <2>1, Constants DEF TransferCas, Finish, TypeOK
<1>12. ASSUME NEW p \in Requests, ReleaseCas(p)
       PROVE  TypeOK'
  <2>1. Release(lease[call[p].ctx]) \in Row
    BY CallTypes DEF Row, Release
  <2>. QED
    BY <1>12, <2>1, Constants DEF ReleaseCas, Finish, TypeOK
<1>. QED
  BY <1>1, <1>2, <1>3, <1>4, <1>5, <1>6, <1>7, <1>8, <1>9, <1>10, <1>11, <1>12 DEF Next

\* Every state reachable by the lease calls is well typed.
THEOREM TypeCorrect == Spec => []TypeOK
<1>1. Init => TypeOK
  BY Constants DEF Init, TypeOK
<1>. QED
  BY <1>1, TypeStep, PTL DEF Spec

-----------------------------------------------------------------------------
(* Every conjunct of the inductive invariant is about rows and calls, so the *)
(* steps of a call fall into four kinds: it starts, it passes its read, it   *)
(* finishes without writing, it writes and finishes.                         *)

LeaseInv == TypeOK /\ FreshGenerations /\ ReadHorizonCurrent /\ WithinHorizon

\* A call that mints starts with a generation nobody has, another with one
\* that was issued; neither touches a row.
LEMMA StartKeeps ==
    ASSUME LeaseInv, NEW p \in Requests, NEW k \in Call, Start(p, k), TypeOK',
           \/ nextGen' = nextGen + 1 /\ k.newGen = nextGen
           \/ nextGen' = nextGen /\ k.op \notin {"acquire", "transfer"},
           k.gen < nextGen,
           ~(k.op \in {"renew", "transfer"} /\ k.pc = "cas")
    PROVE  LeaseInv'
<1>1. /\ lease' = lease
      /\ call' = [call EXCEPT ![p] = k]
  BY DEF Start
<1>2. /\ call'[p] = k
      /\ \A q \in Requests \ {p} : call'[q] = call[q]
  BY <1>1 DEF LeaseInv, TypeOK
<1>3. nextGen \in Nat /\ nextGen' \in Nat /\ nextGen <= nextGen'
  BY DEF LeaseInv, TypeOK
<1>4. WithinHorizon'
  BY <1>1 DEF LeaseInv, WithinHorizon
<1>5. ReadHorizonCurrent'
  BY <1>1, <1>2 DEF LeaseInv, ReadHorizonCurrent, PastRead
<1>6. \A q \in Requests : call[q].gen \in Nat /\ call[q].newGen \in Nat
  BY DEF LeaseInv, TypeOK, Call
<1>7. \A c \in Contexts : lease[c].gen \in Nat
  BY DEF LeaseInv, TypeOK, Row
<1>8. FreshGenerations'
  BY <1>1, <1>2, <1>3, <1>6, <1>7
  DEF LeaseInv, FreshGenerations, Minting, PastRead, Call
<1>. QED
  BY <1>4, <1>5, <1>8 DEF LeaseInv

\* A call that ends without writing leaves fewer obligations behind.
LEMMA FinishKeeps ==
    ASSUME LeaseInv, NEW p \in Requests, Finish(p), UNCHANGED <<lease, nextGen>>, TypeOK'
    PROVE  LeaseInv'
<1>1. /\ call'[p] = NoCall
      /\ \A q \in Requests \ {p} : call'[q] = call[q]
  BY DEF Finish, LeaseInv, TypeOK
<1>2. NoCall.op = "none" /\ NoCall.gen = 0
  BY DEF NoCall
<1>3. nextGen \in Nat /\ nextGen > 0
  BY DEF LeaseInv, TypeOK
<1>4. WithinHorizon'
  BY DEF LeaseInv, WithinHorizon
<1>5. ReadHorizonCurrent'
  BY <1>1, <1>2 DEF LeaseInv, ReadHorizonCurrent, PastRead
<1>6. FreshGenerations'
  BY <1>1, <1>2, <1>3 DEF LeaseInv, FreshGenerations, Minting, PastRead
<1>. QED
  BY <1>4, <1>5, <1>6 DEF LeaseInv

\* A call that writes the generation it carries: no other call was admitted
\* under that generation, so no stale read becomes current.
LEMMA MintKeeps ==
    ASSUME LeaseInv, NEW p \in Requests, NEW c \in Contexts, NEW row \in Row,
           Minting(p), row.gen = call[p].newGen, row.expiresAt <= row.endHorizonAt,
           lease' = [lease EXCEPT ![c] = row], Finish(p), UNCHANGED nextGen, TypeOK'
    PROVE  LeaseInv'
<1>1. /\ call'[p] = NoCall
      /\ \A q \in Requests \ {p} : call'[q] = call[q]
  BY DEF Finish, LeaseInv, TypeOK
<1>2. NoCall.op = "none" /\ NoCall.gen = 0
  BY DEF NoCall
<1>3. nextGen \in Nat /\ nextGen > 0
  BY DEF LeaseInv, TypeOK
<1>4. /\ lease'[c] = row
      /\ \A d \in Contexts \ {c} : lease'[d] = lease[d]
  BY DEF LeaseInv, TypeOK
<1>5. WithinHorizon'
  BY <1>4 DEF LeaseInv, WithinHorizon
<1>6. ReadHorizonCurrent'
  <2> SUFFICES ASSUME NEW q \in Requests, PastRead(q)', (lease[call[q].ctx].gen = call[q].gen)'
               PROVE  (call[q].horizon = lease[call[q].ctx].endHorizonAt)'
    BY DEF ReadHorizonCurrent
  <2>1. q # p /\ call'[q] = call[q] /\ PastRead(q)
    BY <1>1, <1>2 DEF PastRead
  <2>2. call[q].gen # row.gen
    BY <2>1 DEF LeaseInv, FreshGenerations
  <2>3. call[q].ctx \in Contexts /\ call[q].ctx # c
    BY <1>4, <2>1, <2>2, CallTypes DEF LeaseInv
  <2>. QED
    BY <1>4, <2>1, <2>3 DEF LeaseInv, ReadHorizonCurrent
<1>7. FreshGenerations'
  BY <1>1, <1>2, <1>3, <1>4 DEF LeaseInv, FreshGenerations, Minting, PastRead
<1>. QED
  BY <1>5, <1>6, <1>7 DEF LeaseInv

\* A write that keeps generation and approval end, and stays within it.
LEMMA TouchKeeps ==
    ASSUME LeaseInv, NEW p \in Requests, NEW c \in Contexts, NEW row \in Row,
           row.gen = lease[c].gen, row.endHorizonAt = lease[c].endHorizonAt,
           row.expiresAt <= row.endHorizonAt,
           lease' = [lease EXCEPT ![c] = row], Finish(p), UNCHANGED nextGen, TypeOK'
    PROVE  LeaseInv'
<1>1. /\ call'[p] = NoCall
      /\ \A q \in Requests \ {p} : call'[q] = call[q]
  BY DEF Finish, LeaseInv, TypeOK
<1>2. NoCall.op = "none" /\ NoCall.gen = 0
  BY DEF NoCall
<1>3. nextGen \in Nat /\ nextGen > 0
  BY DEF LeaseInv, TypeOK
<1>4. /\ lease'[c] = row
      /\ \A d \in Contexts \ {c} : lease'[d] = lease[d]
  BY DEF LeaseInv, TypeOK
<1>5. \A d \in Contexts : /\ lease'[d].gen = lease[d].gen
                           /\ lease'[d].endHorizonAt = lease[d].endHorizonAt
  BY <1>4
<1>6. WithinHorizon'
  BY <1>4 DEF LeaseInv, WithinHorizon
<1>7. ReadHorizonCurrent'
  BY <1>1, <1>2, <1>5, CallTypes DEF LeaseInv, ReadHorizonCurrent, PastRead
<1>8. FreshGenerations'
  BY <1>1, <1>2, <1>3, <1>5 DEF LeaseInv, FreshGenerations, Minting, PastRead
<1>. QED
  BY <1>6, <1>7, <1>8 DEF LeaseInv

\* LeaseInv is inductive.
LEMMA LeaseInvStep == LeaseInv /\ [Next]_vars => LeaseInv'
<1> SUFFICES ASSUME LeaseInv, [Next]_vars
             PROVE  LeaseInv'
  OBVIOUS
<1>0. TypeOK /\ TypeOK'
  BY TypeStep DEF LeaseInv
<1>1. CASE Tick
  BY <1>0, <1>1 DEF Tick, LeaseInv, FreshGenerations, ReadHorizonCurrent, WithinHorizon,
                    Minting, PastRead
<1>2. CASE UNCHANGED vars
  BY <1>0, <1>2 DEF vars, LeaseInv, FreshGenerations, ReadHorizonCurrent, WithinHorizon,
                    Minting, PastRead
<1>3. ASSUME NEW p \in Requests, AcquireBegin(p)
      PROVE  LeaseInv'
  <2>1. PICK c \in Contexts, r \in Runs, u \in Users, t \in Ttls, h \in 1 .. MaxHorizon :
          Start(p, NewCall("acquire", "create", c, 0, r, u, FALSE, t, clock + h, nextGen))
    BY <1>3 DEF AcquireBegin
  <2>. DEFINE k == NewCall("acquire", "create", c, 0, r, u, FALSE, t, clock + h, nextGen)
  <2>2. k \in Call
    BY <1>0, BoundsAssumption DEF NewCall, Call, Ops, TypeOK
  <2>3. k.newGen = nextGen /\ k.gen = 0 /\ k.pc = "create"
    BY DEF NewCall
  <2>4. nextGen' = nextGen + 1 /\ 0 < nextGen
    BY <1>0, <1>3 DEF AcquireBegin, TypeOK
  <2>. HIDE DEF k
  <2>. QED
    BY <1>0, <2>1, <2>2, <2>3, <2>4, StartKeeps DEF k
<1>4. ASSUME NEW p \in Requests, RenewBegin(p)
      PROVE  LeaseInv'
  <2>1. PICK c \in Contexts, g \in Known, r \in Runs, u \in Users, t \in Ttls :
          Start(p, NewCall("renew", "read", c, g, r, u, u = Owner, t, 0, 0))
    BY <1>4 DEF RenewBegin
  <2>. DEFINE k == NewCall("renew", "read", c, g, r, u, u = Owner, t, 0, 0)
  <2>2. k \in Call
    BY <1>0, BoundsAssumption DEF NewCall, Call, Ops, TypeOK, Known
  <2>3. k.op = "renew" /\ k.gen = g /\ k.pc = "read"
    BY DEF NewCall
  <2>4. nextGen' = nextGen /\ g < nextGen
    BY <1>0, <1>4 DEF RenewBegin, TypeOK, Known
  <2>5. Start(p, k)
    BY <2>1
  <2>. HIDE DEF k
  <2>. QED
    BY <1>0, <2>2, <2>3, <2>4, <2>5, StartKeeps
<1>5. ASSUME NEW p \in Requests, TransferBegin(p)
      PROVE  LeaseInv'
  <2>1. PICK c \in Contexts, g \in Known, r \in Runs, u \in Users, t \in Ttls :
          \E o \in {FALSE, u = Owner} :
             Start(p, NewCall("transfer", "read", c, g, r, u, o, t, 0, nextGen))
    BY <1>5 DEF TransferBegin
  <2>2. PICK o \in {FALSE, u = Owner} :
             Start(p, NewCall("transfer", "read", c, g, r, u, o, t, 0, nextGen))
    BY <2>1
  <2>3. o \in BOOLEAN
    OBVIOUS
  <2>. DEFINE k == NewCall("transfer", "read", c, g, r, u, o, t, 0, nextGen)
  <2>4. k \in Call
    BY <1>0, <2>3, BoundsAssumption DEF NewCall, Call, Ops, TypeOK, Known
  <2>5. k.newGen = nextGen /\ k.gen = g /\ k.pc = "read"
    BY DEF NewCall
  <2>6. nextGen' = nextGen + 1 /\ g < nextGen
    BY <1>0, <1>5 DEF TransferBegin, TypeOK, Known
  <2>7. Start(p, k)
    BY <2>2
  <2>. HIDE DEF k
  <2>. QED
    BY <1>0, <2>4, <2>5, <2>6, <2>7, StartKeeps
<1>6. ASSUME NEW p \in Requests, ReleaseBegin(p)
      PROVE  LeaseInv'
  <2>1. PICK c \in Contexts, g \in Known, r \in Runs, u \in Users :
          Start(p, NewCall("release", "cas", c, g, r, u, u = Owner, 0, 0, 0))
    BY <1>6 DEF ReleaseBegin
  <2>. DEFINE k == NewCall("release", "cas", c, g, r, u, u = Owner, 0, 0, 0)
  <2>2. k \in Call
    BY <1>0, BoundsAssumption DEF NewCall, Call, Ops, TypeOK, Known
  <2>3. k.op = "release" /\ k.gen = g
    BY DEF NewCall
  <2>4. nextGen' = nextGen /\ g < nextGen
    BY <1>0, <1>6 DEF ReleaseBegin, TypeOK, Known
  <2>5. Start(p, k)
    BY <2>1
  <2>. HIDE DEF k
  <2>. QED
    BY <1>0, <2>2, <2>3, <2>4, <2>5, StartKeeps
<1>7. ASSUME NEW p \in Requests, AcquireCreate(p)
      PROVE  LeaseInv'
  <2>1. CASE lease[call[p].ctx] = NoRow
    BY <1>0, <1>7, <2>1, CallTypes, GrantedRow, MintKeeps DEF AcquireCreate, Minting
  <2>2. CASE lease[call[p].ctx] # NoRow
    <3>1. /\ call' = [call EXCEPT ![p].pc = "cas"]
          /\ UNCHANGED <<lease, nextGen>>
          /\ call[p].op = "acquire"
      BY <1>7, <2>2 DEF AcquireCreate, Goto
    <3>2. \A q \in Requests :
             /\ call'[q].op = call[q].op /\ call'[q].gen = call[q].gen
             /\ call'[q].newGen = call[q].newGen /\ call'[q].ctx = call[q].ctx
             /\ call'[q].horizon = call[q].horizon
             /\ q # p => call'[q].pc = call[q].pc
      BY <1>0, <3>1 DEF TypeOK, Call
    <3>. QED
      BY <1>0, <3>1, <3>2
      DEF LeaseInv, FreshGenerations, ReadHorizonCurrent, WithinHorizon, Minting, PastRead
  <2>. QED
    BY <2>1, <2>2
<1>8. ASSUME NEW p \in Requests, AcquireCas(p)
      PROVE  LeaseInv'
  <2>1. CASE Grantable(lease[call[p].ctx], call[p].now)
    BY <1>0, <1>8, <2>1, CallTypes, GrantedRow, MintKeeps DEF AcquireCas, Minting
  <2>2. CASE ~Grantable(lease[call[p].ctx], call[p].now)
    BY <1>0, <1>8, <2>2, FinishKeeps DEF AcquireCas
  <2>. QED
    BY <2>1, <2>2
<1>9. ASSUME NEW p \in Requests, NEW op \in {"renew", "transfer"}, ReadCurrent(p, op)
      PROVE  LeaseInv'
  <2>. DEFINE row == lease[call[p].ctx]
  <2>1. CASE Holds(call[p], row)
    <3>1. /\ call' = [call EXCEPT ![p].pc = "cas", ![p].horizon = row.endHorizonAt]
          /\ UNCHANGED <<lease, nextGen>>
          /\ row.gen = call[p].gen
      BY <1>9, <2>1 DEF ReadCurrent, Holds
    <3>2. /\ \A q \in Requests :
                /\ call'[q].op = call[q].op /\ call'[q].gen = call[q].gen
                /\ call'[q].newGen = call[q].newGen /\ call'[q].ctx = call[q].ctx
                /\ q # p => call'[q].pc = call[q].pc /\ call'[q].horizon = call[q].horizon
          /\ call'[p].horizon = row.endHorizonAt
      BY <1>0, <3>1 DEF TypeOK, Call
    <3>3. WithinHorizon'
      BY <3>1 DEF LeaseInv, WithinHorizon
    <3>4. ReadHorizonCurrent'
      <4> SUFFICES ASSUME NEW q \in Requests, PastRead(q)',
                          (lease[call[q].ctx].gen = call[q].gen)'
                   PROVE  (call[q].horizon = lease[call[q].ctx].endHorizonAt)'
        BY DEF ReadHorizonCurrent
      <4>1. CASE q = p
        BY <3>1, <3>2, <4>1
      <4>2. CASE q # p
        <5>1. PastRead(q) /\ lease[call[q].ctx].gen = call[q].gen
          BY <3>1, <3>2, <4>2 DEF PastRead
        <5>2. call[q].horizon = lease[call[q].ctx].endHorizonAt
          BY <5>1 DEF LeaseInv, ReadHorizonCurrent
        <5>. QED
          BY <3>1, <3>2, <4>2, <5>2
      <4>. QED
        BY <4>1, <4>2
    <3>5. \A q \in Requests : Minting(q) => call[q].newGen # row.gen
      BY <1>0, CallTypes DEF LeaseInv, FreshGenerations
    <3>6. FreshGenerations'
      <4>1. \A q \in Requests : Minting(q)' <=> Minting(q)
        BY <3>2 DEF Minting
      <4>2. \A q \in Requests \ {p} : PastRead(q)' <=> PastRead(q)
        BY <3>2 DEF PastRead
      <4>3. \A q, r \in Requests : Minting(q) /\ PastRead(r)' => call[r].gen # call[q].newGen
        BY <3>1, <3>5, <4>2 DEF LeaseInv, FreshGenerations
      <4>4. (\A c \in Contexts : lease[c].gen < nextGen)'
        BY <3>1 DEF LeaseInv, FreshGenerations
      <4>5. (\A r \in Requests : call[r].gen < nextGen)'
        BY <3>1, <3>2 DEF LeaseInv, FreshGenerations
      <4> SUFFICES ASSUME NEW q \in Requests, Minting(q)
                   PROVE  (/\ call[q].newGen \in 1 .. nextGen - 1
                           /\ \A c \in Contexts : lease[c].gen # call[q].newGen
                           /\ \A r \in Requests \ {q} : Minting(r) => call[r].newGen # call[q].newGen
                           /\ \A r \in Requests : PastRead(r) => call[r].gen # call[q].newGen)'
        BY <4>1, <4>4, <4>5 DEF FreshGenerations
      <4>6. /\ call[q].newGen \in 1 .. nextGen - 1
            /\ \A c \in Contexts : lease[c].gen # call[q].newGen
            /\ \A r \in Requests \ {q} : Minting(r) => call[r].newGen # call[q].newGen
        BY DEF LeaseInv, FreshGenerations
      <4>7. (call[q].newGen \in 1 .. nextGen - 1)'
        BY <3>1, <3>2, <4>6
      <4>8. (\A c \in Contexts : lease[c].gen # call[q].newGen)'
        BY <3>1, <3>2, <4>6
      <4>9. (\A r \in Requests \ {q} : Minting(r) => call[r].newGen # call[q].newGen)'
        BY <3>2, <4>1, <4>6
      <4>10. (\A r \in Requests : PastRead(r) => call[r].gen # call[q].newGen)'
        BY <3>2, <4>3
      <4>. QED
        BY <4>7, <4>8, <4>9, <4>10
    <3>. QED
      BY <1>0, <3>3, <3>4, <3>6 DEF LeaseInv
  <2>2. CASE ~Holds(call[p], row)
    BY <1>0, <1>9, <2>2, FinishKeeps DEF ReadCurrent
  <2>. QED
    BY <2>1, <2>2
<1>10. ASSUME NEW p \in Requests, RenewCas(p)
       PROVE  LeaseInv'
  <2>. DEFINE row == lease[call[p].ctx]
              new == [row EXCEPT !.expiresAt =
                        Earlier(call[p].now + call[p].ttl, call[p].horizon)]
  <2>1. CASE Holds(call[p], row)
    <3>1. row.gen = call[p].gen /\ PastRead(p)
      BY <1>10, <2>1 DEF RenewCas, Holds, PastRead
    <3>2. call[p].horizon = row.endHorizonAt
      BY <3>1 DEF LeaseInv, ReadHorizonCurrent
    <3>3. /\ new \in Row /\ new.gen = row.gen /\ new.endHorizonAt = row.endHorizonAt
          /\ new.expiresAt <= new.endHorizonAt
      BY <1>0, <3>2, CallTypes DEF Row
    <3>4. lease' = [lease EXCEPT ![call[p].ctx] = new] /\ Finish(p) /\ UNCHANGED nextGen
      BY <1>0, <1>10, <2>1, CallTypes DEF RenewCas, TypeOK
    <3>. HIDE DEF new
    <3>. QED
      BY <1>0, <3>3, <3>4, CallTypes, TouchKeeps
  <2>2. CASE ~Holds(call[p], row)
    BY <1>0, <1>10, <2>2, FinishKeeps DEF RenewCas
  <2>. QED
    BY <2>1, <2>2
<1>11. ASSUME NEW p \in Requests, TransferCas(p)
       PROVE  LeaseInv'
  <2>. DEFINE row == lease[call[p].ctx]
              new == [row EXCEPT !.gen = call[p].newGen, !.run = call[p].run,
                                 !.user = call[p].user,
                                 !.expiresAt = Earlier(call[p].now + call[p].ttl,
                                                       call[p].horizon)]
  <2>1. CASE Holds(call[p], row)
    <3>1. row.gen = call[p].gen /\ PastRead(p) /\ Minting(p)
      BY <1>11, <2>1 DEF TransferCas, Holds, PastRead, Minting
    <3>2. call[p].horizon = row.endHorizonAt
      BY <3>1 DEF LeaseInv, ReadHorizonCurrent
    <3>3. /\ new \in Row /\ new.gen = call[p].newGen
          /\ new.expiresAt <= new.endHorizonAt
      BY <1>0, <3>2, CallTypes DEF Row
    <3>4. lease' = [lease EXCEPT ![call[p].ctx] = new] /\ Finish(p) /\ UNCHANGED nextGen
      BY <1>11, <2>1 DEF TransferCas
    <3>. HIDE DEF new
    <3>. QED
      BY <1>0, <3>1, <3>3, <3>4, CallTypes, MintKeeps
  <2>2. CASE ~Holds(call[p], row)
    BY <1>0, <1>11, <2>2, FinishKeeps DEF TransferCas
  <2>. QED
    BY <2>1, <2>2
<1>12. ASSUME NEW p \in Requests, ReleaseCas(p)
       PROVE  LeaseInv'
  <2>. DEFINE row == lease[call[p].ctx]
  <2>1. CASE lease' = [lease EXCEPT ![call[p].ctx] = Release(row)]
    <3>1. /\ Release(row) \in Row /\ Release(row).gen = row.gen
          /\ Release(row).endHorizonAt = row.endHorizonAt
          /\ Release(row).expiresAt = row.expiresAt
      BY <1>0, CallTypes DEF Release, Row
    <3>2. row.expiresAt <= row.endHorizonAt
      BY <1>0, CallTypes DEF LeaseInv, WithinHorizon
    <3>. QED
      BY <1>0, <1>12, <2>1, <3>1, <3>2, CallTypes, TouchKeeps DEF ReleaseCas
  <2>2. CASE UNCHANGED lease
    BY <1>0, <1>12, <2>2, FinishKeeps DEF ReleaseCas
  <2>. QED
    BY <1>12, <2>1, <2>2 DEF ReleaseCas
<1>. QED
  BY <1>1, <1>2, <1>3, <1>4, <1>5, <1>6, <1>7, <1>8, <1>9, <1>10, <1>11, <1>12
  DEF Next, RenewRead, TransferRead

\* The first state satisfies it: no row, no call.
LEMMA LeaseInvInit == Init => LeaseInv
<1>1. Init => TypeOK
  BY Constants DEF Init, TypeOK
<1>2. Init => FreshGenerations /\ ReadHorizonCurrent /\ WithinHorizon
  BY DEF Init, FreshGenerations, ReadHorizonCurrent, WithinHorizon, Minting, PastRead,
         NoCall, NoRow
<1>. QED
  BY <1>1, <1>2 DEF LeaseInv

\* No interleaving of acquire, renew, transfer and release, for any number of
\* requests, Contexts, runs and users and any clock, carries a lease past the
\* end of the human approval it was granted under.
THEOREM HorizonSafe == Spec => []WithinHorizon
<1>1. LeaseInv => WithinHorizon
  BY DEF LeaseInv
<1>. QED
  BY <1>1, LeaseInvInit, LeaseInvStep, PTL DEF Spec

\* A call that was overtaken between its read and its write matches nobody
\* else's row, and the approval end it read is still the row's, however the
\* statements of however many calls interleave (contextLease.ts:308-396).
THEOREM OvertakenHarmless == Spec => []OvertakenCallsHarmless
<1>1. LeaseInv => OvertakenCallsHarmless
  BY DEF LeaseInv, OvertakenCallsHarmless
<1>. QED
  BY <1>1, LeaseInvInit, LeaseInvStep, PTL DEF Spec

-----------------------------------------------------------------------------
(* Refinement: the calls keep the promise of LeaseAuthority.  Besides         *)
(* LeaseInv it takes what a call in flight has in its hands: a clock that can *)
(* only be late, and an override that only the board owner can have asked for. *)

CallsOrderly ==
    \A p \in Requests : /\ call[p].pc = "idle" => call[p].op = "none"
                        /\ call[p].now <= clock
                        /\ call[p].override => call[p].user = Owner

\* Starting, advancing and ending calls keeps them orderly.
LEMMA CallsOrderlyStep == TypeOK /\ CallsOrderly /\ [Next]_vars => CallsOrderly'
<1> SUFFICES ASSUME TypeOK, CallsOrderly, [Next]_vars
             PROVE  CallsOrderly'
  OBVIOUS
<1>0. /\ clock \in Nat
      /\ \A p \in Requests : call[p].now \in Nat
      /\ call' \in [Requests -> Call]
  BY TypeStep DEF TypeOK, Call
<1>1. CASE Tick
  BY <1>0, <1>1 DEF Tick, CallsOrderly
<1>2. CASE UNCHANGED vars
  BY <1>2 DEF vars, CallsOrderly
<1>4. ASSUME NEW p \in Requests,
             AcquireBegin(p) \/ RenewBegin(p) \/ TransferBegin(p) \/ ReleaseBegin(p)
      PROVE  CallsOrderly'
  <2>1. ASSUME NEW op, NEW pc \in {"create", "read", "cas"}, NEW c, NEW g, NEW r, NEW u,
               NEW o \in BOOLEAN, NEW t, NEW h, NEW n, o = FALSE \/ u = Owner,
               Start(p, NewCall(op, pc, c, g, r, u, o, t, h, n))
        PROVE  CallsOrderly'
    <3>1. /\ call'[p] = NewCall(op, pc, c, g, r, u, o, t, h, n)
          /\ \A q \in Requests \ {p} : call'[q] = call[q]
          /\ UNCHANGED clock
      BY <2>1 DEF Start, TypeOK
    <3>2. /\ call'[p].pc = pc /\ call'[p].now = clock
          /\ call'[p].override = o /\ call'[p].user = u
      BY <3>1 DEF NewCall
    <3>. QED
      BY <1>0, <2>1, <3>1, <3>2 DEF CallsOrderly
  <2>2. CASE AcquireBegin(p)
    BY <2>1, <2>2 DEF AcquireBegin
  <2>3. CASE RenewBegin(p)
    BY <2>1, <2>3 DEF RenewBegin
  <2>4. CASE TransferBegin(p)
    BY <2>1, <2>4 DEF TransferBegin
  <2>5. CASE ReleaseBegin(p)
    BY <2>1, <2>5 DEF ReleaseBegin
  <2>. QED
    BY <1>4, <2>2, <2>3, <2>4, <2>5
<1>5. ASSUME NEW p \in Requests, Finish(p), UNCHANGED clock
      PROVE  CallsOrderly'
  <2>1. call'[p] = NoCall /\ \A q \in Requests \ {p} : call'[q] = call[q]
    BY <1>5 DEF Finish, TypeOK
  <2>2. NoCall.op = "none" /\ NoCall.now = 0 /\ NoCall.override = FALSE
    BY DEF NoCall
  <2>. QED
    BY <1>0, <1>5, <2>1, <2>2 DEF CallsOrderly
<1>6. ASSUME NEW p \in Requests, Goto(p, "cas"), UNCHANGED clock
      PROVE  CallsOrderly'
  BY <1>6 DEF Goto, CallsOrderly, TypeOK, Call
<1>7. ASSUME NEW p \in Requests, NEW op, ReadCurrent(p, op)
      PROVE  CallsOrderly'
  <2>1. CASE Finish(p)
    BY <1>5, <1>7, <2>1 DEF ReadCurrent
  <2>2. CASE call' = [call EXCEPT ![p].pc = "cas",
                                  ![p].horizon = lease[call[p].ctx].endHorizonAt]
    BY <1>7, <2>2 DEF ReadCurrent, CallsOrderly, TypeOK, Call
  <2>. QED
    BY <1>7, <2>1, <2>2 DEF ReadCurrent
<1>. QED
  BY <1>1, <1>2, <1>4, <1>5, <1>6, <1>7
  DEF Next, AcquireCreate, AcquireCas, RenewRead, RenewCas, TransferRead, TransferCas, ReleaseCas

PromiseInv == LeaseInv /\ CallsOrderly

\* What LeaseAuthority is shown of a row.
Shown(row, now) ==
    [gen |-> row.gen, run |-> row.run, user |-> row.user,
     horizon |-> row.endHorizonAt, ended |-> row.released, live |-> IsLive(row, now)]

Spent == (1 .. nextGen - 1) \ InFlight

\* Nothing shown live has outlived its approval or was ended.
LEMMA ShownWithinApproval ==
    ASSUME NEW row \in Row, NEW now \in Nat, row.expiresAt <= row.endHorizonAt
    PROVE  Promise!WithinApproval(Shown(row, now), now)
BY DEF Promise!WithinApproval, Shown, IsLive, Row

\* A write to one row is a change of that Context's authority.
LEMMA WriteIsChange ==
    ASSUME PromiseInv, NEW c \in Contexts, NEW row \in Row,
           lease' = [lease EXCEPT ![c] = row], clock' = clock, Spent \subseteq Spent',
           row.expiresAt <= row.endHorizonAt,
           \/ /\ ~IsLive(lease[c], clock)
              /\ row.gen \in Spent' \ (Spent \cup {0})
           \/ /\ lease[c].gen # 0 /\ ~lease[c].released
              /\ row.gen \in Spent' \ (Spent \cup {0})
              /\ row.endHorizonAt = lease[c].endHorizonAt
              /\ row.user \in {lease[c].user, Owner}
           \/ /\ row.gen = lease[c].gen /\ row.run = lease[c].run
              /\ row.user = lease[c].user /\ row.endHorizonAt = lease[c].endHorizonAt
              /\ lease[c].released => row.released
    PROVE  Promise!Change(c)
<1>. DEFINE old == [d \in Contexts |-> Shown(lease[d], clock)]
            new == [d \in Contexts |-> Shown(lease'[d], clock')]
<1>1. new[c] = Shown(row, clock)
  BY DEF PromiseInv, LeaseInv, TypeOK
<1>2. new = [old EXCEPT ![c] = Shown(row, clock)]
  <2>1. \A d \in Contexts \ {c} : lease'[d] = lease[d]
    BY DEF PromiseInv, LeaseInv, TypeOK
  <2>2. \A d \in Contexts : Shown(lease'[d], clock') =
                               IF d = c THEN Shown(row, clock) ELSE Shown(lease[d], clock)
    BY <1>1, <2>1
  <2>. QED
    BY <2>2
<1>3. Promise!WithinApproval(Shown(row, clock), clock)
  BY ShownWithinApproval DEF PromiseInv, LeaseInv, TypeOK
<1>. QED
  BY <1>1, <1>2, <1>3
  DEF Promise!Change, Promise!Give, Promise!HandOver, Promise!Continue, Shown, Spent

\* A step that writes no row changes nothing but what can still be given out.
LEMMA NoWriteIsChange ==
    ASSUME PromiseInv, NEW c \in Contexts,
           lease' = lease, clock' = clock, Spent \subseteq Spent'
    PROVE  Promise!Change(c)
<1>1. lease' = [lease EXCEPT ![c] = lease[c]]
  BY DEF PromiseInv, LeaseInv, TypeOK
<1>2. lease[c] \in Row /\ lease[c].expiresAt <= lease[c].endHorizonAt
  BY DEF PromiseInv, LeaseInv, TypeOK, WithinHorizon
<1>. QED
  BY <1>1, <1>2, WriteIsChange

\* What was spent stays spent: a call in flight carries on with the generation
\* it had, or with one newly minted.
LEMMA SpentGrows ==
    ASSUME PromiseInv, nextGen' \in Nat, nextGen <= nextGen',
           \A q \in Requests : Minting(q)' =>
              \/ Minting(q) /\ call'[q].newGen = call[q].newGen
              \/ call'[q].newGen = nextGen
    PROVE  Spent \subseteq Spent'
BY DEF Spent, InFlight, PromiseInv, LeaseInv, TypeOK

\* A call that ends gives up the generation it carried, for good.
LEMMA FinishSpends ==
    ASSUME PromiseInv, NEW p \in Requests, Finish(p), UNCHANGED nextGen
    PROVE  /\ Spent \subseteq Spent'
           /\ Minting(p) => call[p].newGen \in Spent' \ (Spent \cup {0})
<1>1. /\ call'[p] = NoCall
      /\ \A q \in Requests \ {p} : call'[q] = call[q]
  BY DEF Finish, PromiseInv, LeaseInv, TypeOK
<1>2. NoCall.op = "none"
  BY DEF NoCall
<1>3. nextGen \in Nat
  BY DEF PromiseInv, LeaseInv, TypeOK
<1>4. ~Minting(p)' /\ \A q \in Requests \ {p} : Minting(q)' <=> Minting(q)
  BY <1>1, <1>2 DEF Minting
<1>5. Spent \subseteq Spent'
  BY <1>1, <1>3, <1>4, SpentGrows
<1>6. ASSUME Minting(p)
      PROVE  call[p].newGen \in Spent' \ (Spent \cup {0})
  <2>1. /\ call[p].newGen \in 1 .. nextGen - 1
        /\ \A q \in Requests \ {p} : Minting(q) => call[q].newGen # call[p].newGen
    BY <1>6 DEF PromiseInv, LeaseInv, FreshGenerations
  <2>2. call[p].newGen \notin InFlight'
    BY <1>1, <1>4, <2>1 DEF InFlight
  <2>3. call[p].newGen \in InFlight
    BY <1>6 DEF InFlight
  <2>. QED
    BY <1>3, <2>1, <2>2, <2>3 DEF Spent
<1>. QED
  BY <1>5, <1>6

\* Starting a call spends nothing.
LEMMA StartSpends ==
    ASSUME PromiseInv, NEW p \in Requests, NEW k, Start(p, k),
           \/ nextGen' = nextGen + 1 /\ k.newGen = nextGen
           \/ nextGen' = nextGen /\ k.op \notin {"acquire", "transfer"}
    PROVE  Promise!Next
<1>1. /\ call'[p] = k
      /\ \A q \in Requests \ {p} : call'[q] = call[q]
      /\ lease' = lease /\ clock' = clock
  BY DEF Start, PromiseInv, LeaseInv, TypeOK
<1>2. nextGen \in Nat /\ nextGen' \in Nat /\ nextGen <= nextGen'
  BY DEF PromiseInv, LeaseInv, TypeOK
<1>3. Spent \subseteq Spent'
  BY <1>1, <1>2, SpentGrows DEF Minting
<1>. QED
  BY <1>1, <1>3, SomeContext, NoWriteIsChange DEF Promise!Next

\* Every step of a call is a change of one Context's authority, and every
\* tick of the clock a passing of time.
LEMMA PromiseStep == PromiseInv /\ PromiseInv' /\ [Next]_vars => [Promise!Next]_Promise!vars
<1> SUFFICES ASSUME PromiseInv, PromiseInv', [Next]_vars
             PROVE  [Promise!Next]_Promise!vars
  OBVIOUS
<1>0. TypeOK /\ TypeOK'
  BY DEF PromiseInv, LeaseInv
<1>1. CASE Tick
  <2>1. clock' = clock + 1 /\ lease' = lease /\ Spent' = Spent
    BY <1>1 DEF Tick, Spent, InFlight, Minting
  <2>2. clock \in Nat
    BY <1>0 DEF TypeOK
  <2>3. ASSUME NEW c \in Contexts
        PROVE  /\ IsLive(lease[c], clock') => IsLive(lease[c], clock)
               /\ Shown(lease[c], clock') =
                     [Shown(lease[c], clock) EXCEPT !.live = IsLive(lease[c], clock')]
               /\ Promise!WithinApproval(Shown(lease[c], clock'), clock')
    <3>1. lease[c] \in Row /\ lease[c].expiresAt <= lease[c].endHorizonAt
      BY <1>0 DEF TypeOK, PromiseInv, LeaseInv, WithinHorizon
    <3>2. IsLive(lease[c], clock') => IsLive(lease[c], clock)
      BY <2>1, <2>2, <3>1 DEF IsLive, Row
    <3>3. Promise!WithinApproval(Shown(lease[c], clock'), clock')
      BY <2>1, <2>2, <3>1, ShownWithinApproval
    <3>. QED
      BY <3>2, <3>3 DEF Shown
  <2>4. Promise!Pass
    BY <2>1, <2>3 DEF Promise!Pass, Shown, Spent
  <2>. QED
    BY <2>4 DEF Promise!Next
<1>2. CASE UNCHANGED vars
  BY <1>2 DEF vars, Promise!vars, InFlight, Minting, IsLive
<1>3. ASSUME NEW p \in Requests,
             AcquireBegin(p) \/ RenewBegin(p) \/ TransferBegin(p) \/ ReleaseBegin(p)
      PROVE  Promise!Next
  <2>1. ASSUME NEW op \in Ops, NEW pc, NEW c, NEW g, NEW r, NEW u, NEW o, NEW t, NEW h, NEW n,
               Start(p, NewCall(op, pc, c, g, r, u, o, t, h, n)),
               \/ nextGen' = nextGen + 1 /\ n = nextGen
               \/ nextGen' = nextGen /\ op \notin {"acquire", "transfer"}
        PROVE  Promise!Next
    <3>1. /\ NewCall(op, pc, c, g, r, u, o, t, h, n).op = op
          /\ NewCall(op, pc, c, g, r, u, o, t, h, n).newGen = n
      BY DEF NewCall
    <3>. QED
      BY <2>1, <3>1, StartSpends
  <2>2. CASE AcquireBegin(p)
    BY <2>1, <2>2 DEF AcquireBegin, Ops
  <2>3. CASE RenewBegin(p)
    BY <2>1, <2>3 DEF RenewBegin, Ops
  <2>4. CASE TransferBegin(p)
    BY <2>1, <2>4 DEF TransferBegin, Ops
  <2>5. CASE ReleaseBegin(p)
    BY <2>1, <2>5 DEF ReleaseBegin, Ops
  <2>. QED
    BY <1>3, <2>2, <2>3, <2>4, <2>5
<1>4. ASSUME NEW p \in Requests, UNCHANGED <<lease, nextGen, clock>>, Finish(p)
      PROVE  Promise!Next
  BY <1>0, <1>4, CallTypes, FinishSpends, NoWriteIsChange DEF Promise!Next
<1>5. ASSUME NEW p \in Requests, UNCHANGED <<lease, nextGen, clock>>,
             \A q \in Requests : call'[q].op = call[q].op /\ call'[q].newGen = call[q].newGen
      PROVE  Promise!Next
  <2>1. Spent \subseteq Spent'
    BY <1>0, <1>5, SpentGrows DEF Minting, TypeOK
  <2>. QED
    BY <1>0, <1>5, <2>1, CallTypes, NoWriteIsChange DEF Promise!Next
\* A grant finds the Context unheld: it saw no row, or one that had expired by
\* its own clock, which is not ahead of the wall clock.
<1>6. ASSUME NEW p \in Requests, Minting(p), ~IsLive(lease[call[p].ctx], clock),
             lease' = [lease EXCEPT ![call[p].ctx] = Granted(p)],
             Finish(p), UNCHANGED <<nextGen, clock>>
      PROVE  Promise!Next
  <2>. DEFINE c == call[p].ctx
  <2>1. c \in Contexts /\ Granted(p) \in Row /\ Granted(p).expiresAt <= Granted(p).endHorizonAt
        /\ Granted(p).gen = call[p].newGen
    BY <1>0, CallTypes, GrantedRow
  <2>2. Spent \subseteq Spent' /\ call[p].newGen \in Spent' \ (Spent \cup {0})
    BY <1>6, FinishSpends
  <2>. QED
    BY <1>6, <2>1, <2>2, WriteIsChange DEF Promise!Next
<1>7. ASSUME NEW p \in Requests, AcquireCreate(p)
      PROVE  Promise!Next
  <2>1. CASE lease[call[p].ctx] = NoRow
    <3>1. ~IsLive(lease[call[p].ctx], clock)
      BY <2>1 DEF IsLive, NoRow
    <3>. QED
      BY <1>6, <1>7, <2>1, <3>1 DEF AcquireCreate, Minting
  <2>2. CASE lease[call[p].ctx] # NoRow
    <3>1. \A q \in Requests : call'[q].op = call[q].op /\ call'[q].newGen = call[q].newGen
      BY <1>0, <1>7, <2>2 DEF AcquireCreate, Goto, TypeOK, Call
    <3>. QED
      BY <1>5, <1>7, <2>2, <3>1 DEF AcquireCreate
  <2>. QED
    BY <2>1, <2>2
<1>8. ASSUME NEW p \in Requests, AcquireCas(p)
      PROVE  Promise!Next
  <2>1. CASE Grantable(lease[call[p].ctx], call[p].now)
    <3>1. ~IsLive(lease[call[p].ctx], clock)
      <4>1. call[p].now \in Nat /\ call[p].now <= clock /\ clock \in Nat
            /\ lease[call[p].ctx].expiresAt \in Nat
        BY <1>0, CallTypes DEF PromiseInv, CallsOrderly, TypeOK, Row
      <4>. QED
        BY <2>1, <4>1 DEF Grantable, IsLive
    <3>. QED
      BY <1>6, <1>8, <2>1, <3>1 DEF AcquireCas, Minting
  <2>2. CASE ~Grantable(lease[call[p].ctx], call[p].now)
    BY <1>4, <1>8, <2>2 DEF AcquireCas
  <2>. QED
    BY <2>1, <2>2
<1>9. ASSUME NEW p \in Requests, NEW op, ReadCurrent(p, op)
      PROVE  Promise!Next
  <2>1. CASE Holds(call[p], lease[call[p].ctx])
    <3>1. \A q \in Requests : call'[q].op = call[q].op /\ call'[q].newGen = call[q].newGen
      BY <1>0, <1>9, <2>1 DEF ReadCurrent, TypeOK, Call
    <3>. QED
      BY <1>5, <1>9, <2>1, <3>1 DEF ReadCurrent
  <2>2. CASE ~Holds(call[p], lease[call[p].ctx])
    BY <1>4, <1>9, <2>2 DEF ReadCurrent
  <2>. QED
    BY <2>1, <2>2
<1>10. ASSUME NEW p \in Requests, RenewCas(p)
       PROVE  Promise!Next
  <2>. DEFINE row == lease[call[p].ctx]
              new == [row EXCEPT !.expiresAt =
                        Earlier(call[p].now + call[p].ttl, call[p].horizon)]
  <2>1. CASE Holds(call[p], row)
    <3>1. row.gen = call[p].gen /\ PastRead(p) /\ call[p].ctx \in Contexts
      BY <1>0, <1>10, <2>1, CallTypes DEF RenewCas, Holds, PastRead
    <3>2. call[p].horizon = row.endHorizonAt
      BY <3>1 DEF PromiseInv, LeaseInv, ReadHorizonCurrent
    <3>3. /\ new \in Row /\ new.gen = row.gen /\ new.endHorizonAt = row.endHorizonAt
          /\ new.run = row.run /\ new.user = row.user /\ new.released = row.released
          /\ new.expiresAt <= new.endHorizonAt
      BY <1>0, <3>2, CallTypes DEF Row
    <3>4. lease' = [lease EXCEPT ![call[p].ctx] = new] /\ Finish(p)
          /\ UNCHANGED <<nextGen, clock>>
      BY <1>0, <1>10, <2>1, CallTypes DEF RenewCas, TypeOK
    <3>5. Spent \subseteq Spent'
      BY <3>4, FinishSpends
    <3>. HIDE DEF new
    <3>. QED
      BY <3>1, <3>3, <3>4, <3>5, WriteIsChange DEF Promise!Next
  <2>2. CASE ~Holds(call[p], row)
    BY <1>4, <1>10, <2>2 DEF RenewCas
  <2>. QED
    BY <2>1, <2>2
<1>11. ASSUME NEW p \in Requests, TransferCas(p)
       PROVE  Promise!Next
  <2>. DEFINE row == lease[call[p].ctx]
              new == [row EXCEPT !.gen = call[p].newGen, !.run = call[p].run,
                                 !.user = call[p].user,
                                 !.expiresAt = Earlier(call[p].now + call[p].ttl,
                                                       call[p].horizon)]
  <2>1. CASE Holds(call[p], row)
    <3>1. row.gen = call[p].gen /\ PastRead(p) /\ Minting(p) /\ call[p].ctx \in Contexts
      BY <1>0, <1>11, <2>1, CallTypes DEF TransferCas, Holds, PastRead, Minting
    <3>2. call[p].horizon = row.endHorizonAt
      BY <3>1 DEF PromiseInv, LeaseInv, ReadHorizonCurrent
    <3>3. /\ new \in Row /\ new.gen = call[p].newGen /\ new.endHorizonAt = row.endHorizonAt
          /\ new.user = call[p].user /\ new.expiresAt <= new.endHorizonAt
      BY <1>0, <3>2, CallTypes DEF Row
    <3>4. lease' = [lease EXCEPT ![call[p].ctx] = new] /\ Finish(p)
          /\ UNCHANGED <<nextGen, clock>>
      BY <1>11, <2>1 DEF TransferCas
    <3>5. Spent \subseteq Spent' /\ call[p].newGen \in Spent' \ (Spent \cup {0})
      BY <3>1, <3>4, FinishSpends
    <3>6. row.gen # 0 /\ ~row.released /\ call[p].user \in {row.user, Owner}
      BY <2>1 DEF Holds, IsLive, MayAct, PromiseInv, CallsOrderly
    <3>. HIDE DEF new
    <3>. QED
      BY <3>1, <3>3, <3>4, <3>5, <3>6, WriteIsChange DEF Promise!Next
  <2>2. CASE ~Holds(call[p], row)
    BY <1>4, <1>11, <2>2 DEF TransferCas
  <2>. QED
    BY <2>1, <2>2
<1>12. ASSUME NEW p \in Requests, ReleaseCas(p)
       PROVE  Promise!Next
  <2>. DEFINE row == lease[call[p].ctx]
  <2>1. CASE lease' = [lease EXCEPT ![call[p].ctx] = Release(row)]
    <3>1. /\ Release(row) \in Row /\ Release(row).gen = row.gen
          /\ Release(row).run = row.run /\ Release(row).user = row.user
          /\ Release(row).endHorizonAt = row.endHorizonAt
          /\ Release(row).expiresAt = row.expiresAt /\ Release(row).released
      BY <1>0, CallTypes DEF Release, Row
    <3>2. row.expiresAt <= row.endHorizonAt /\ call[p].ctx \in Contexts
      BY <1>0, CallTypes DEF PromiseInv, LeaseInv, WithinHorizon
    <3>3. Spent \subseteq Spent' /\ clock' = clock
      BY <1>12, FinishSpends DEF ReleaseCas
    <3>. QED
      BY <2>1, <3>1, <3>2, <3>3, WriteIsChange DEF Promise!Next
  <2>2. CASE UNCHANGED lease
    BY <1>4, <1>12, <2>2 DEF ReleaseCas
  <2>. QED
    BY <1>12, <2>1, <2>2 DEF ReleaseCas
<1>. QED
  BY <1>1, <1>2, <1>3, <1>7, <1>8, <1>9, <1>10, <1>11, <1>12 DEF Next, RenewRead, TransferRead

\* The calls implement LeaseAuthority, for any number of them: a live lease is
\* never granted to somebody else, it changes hands only to its own human or the
\* board owner, what was released or replaced never acts again, and nothing
\* outlives its approval (contextLease.ts, drawingLeaseRoutes.ts).
THEOREM PromiseKept == Spec => KeepsPromise
<1>1. Init => PromiseInv
  BY LeaseInvInit DEF Init, PromiseInv, CallsOrderly, NoCall
<1>2. PromiseInv /\ [Next]_vars => PromiseInv'
  BY LeaseInvStep, CallsOrderlyStep DEF PromiseInv, LeaseInv
<1>3. Init => Promise!Init
  <2> SUFFICES ASSUME Init
               PROVE  Promise!Init
    OBVIOUS
  <2>1. /\ nextGen = 1 /\ clock = 0
        /\ \A c \in Contexts : Shown(lease[c], clock) \in
                                   {a \in Promise!Authority : a.gen = 0 /\ ~a.live}
    BY DEF Init, Shown, NoRow, IsLive, Promise!Authority
  <2>2. (1 .. nextGen - 1) \ InFlight = {}
    BY <2>1
  <2>. QED
    BY <2>1, <2>2 DEF Promise!Init, Shown
<1>. QED
  BY <1>1, <1>2, <1>3, PromiseStep, PTL DEF Spec, KeepsPromise, Promise!Spec

=============================================================================
