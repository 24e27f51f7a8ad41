--------------------------- MODULE RoomEventsProofs ---------------------------
(***************************************************************************)
(* Proofs about SocketRooms and RoomEvents: who is on a board was let on and *)
(* is taken off only for a cause about that board, following stays one       *)
(* relation without cycles, one socket at a time holds a document, a ballot  *)
(* counts in its own round and a timer has its timeout, and all of it ends   *)
(* with the stay it was made for, for any number of sockets, boards, tokens, *)
(* requests and joins in flight.                                             *)
(***************************************************************************)
EXTENDS RoomEvents, SequenceTheorems, FiniteSetTheorems, TLAPS

-----------------------------------------------------------------------------
(* The inductive invariant: the rooms *)

\* Access to a board, once given, is only lost by something that hits the board.
Held(s, d, via) == Access(s, d, via) # NoAccess \/ d \in hit

\* What a job of the join queue has found out so far is true of its socket: its
\* credential has passed, it may be on the board, and what a membership would be
\* worth is no more than the link.
JobGood(s, j) ==
    /\ j.rev <= rev[s]
    /\ j.pc # "wait" => check[s] = "valid"
    /\ j.pc = "decide" /\ j.seen # NoAccess => Held(s, j.board, j.token)
    /\ j.pc \in {"member", "grant", "name"} => Held(s, j.board, j.token)
    /\ j.pc \in {"decide", "member", "grant"} =>
         \/ j.seen <= link[j.board] \/ j.board \in hit
         \/ j.pc # "grant" /\ standing[s][j.board] # NoAccess

\* Every variable of the rooms in full.
RoomsTyped ==
    /\ RoomsTypeOK
    /\ queue \in [Sockets -> Seq(Job)]
    /\ left \in [DOMAIN left -> Nat] /\ "change" \in DOMAIN left

\* A socket that has not registered has no queue, no check and, before the
\* handshake, no principal.
Unregistered ==
    \A s \in Sockets :
        /\ conn[s] \in {"new", "shaken"} => queue[s] = <<>> /\ check[s] = "none"
        /\ conn[s] = "new" => principal[s] = "none"

\* Every job of a queue is good, and a later one is of a newer request.
Queued ==
    \A s \in Sockets : \A i \in 1..Len(queue[s]) :
        /\ JobGood(s, queue[s][i])
        /\ \A k \in 1..Len(queue[s]) : i < k => queue[s][i].rev < queue[s][k].rev

\* Whoever is on a board was let on.
LetOn == \A s \in Sockets : board[s] # None => Held(s, board[s], token[s])

\* A recheck only says no of a board that was hit.
Checked ==
    \A c \in checks : /\ c.seen = "asked" => Held(c.sock, c.board, c.via)
                      /\ c.seen = "no" => c.board \in hit

\* All of the rooms that the steps need.
RoomsInv ==
    /\ RoomsTyped /\ Unregistered /\ Queued /\ LetOn /\ Checked
    /\ NoGhosts /\ RevokedKeyOut

-----------------------------------------------------------------------------
(* The inductive invariant: what people do together *)

\* The requests a client sends.
Request ==
    {r \in [op : {"follow", "unfollow", "view", "acquire", "release", "patch", "wipe",
                  "start", "takeover", "stop", "pan", "open", "reveal", "close", "cast"}
                     \cup TimerOps,
            board : Boards, to : Sockets \cup {None}, n : Nat, m : Nat,
            pc : {"queued", "asked", "target", "widget"}, via : BOOLEAN] :
        /\ r.op = "follow" => r.to \in Sockets
        /\ r.pc = "target" => r.op = "follow"
        /\ r.op = "patch" => r.m \in 1..2
        /\ r.op = "cast" => r.m \in Options
        /\ r.op = "timer-start" => r.n \in Durations}

\* A target that is being read was on the board the request is about.
TargetsHeld ==
    \A s \in Sockets : \A i \in 1..Len(reqs[s]) :
        LET r == reqs[s][i] IN r.pc = "target" => Held(r.to, r.board, r.via)

\* The requests on their way are well formed, and a chosen target may see its board.
ReqsInv == reqs \in [Sockets -> Seq(Request)] /\ TargetsHeld

\* A fan-out: its board, the followers still to serve, and the one being served.
Fan == [board : Boards \cup {None}, rest : SUBSET Sockets, at : Sockets \cup {None}]

\* The edges of all followers are one relation without cycles, and each fan-out serves
\* somebody of its own list.
FollowInv ==
    /\ following \in [Sockets -> Sockets \cup {None}]
    /\ followers \in [Sockets -> SUBSET Sockets]
    /\ cancel \in [Sockets -> Nat]
    /\ fan \in [Sockets -> Fan]
    /\ \A s \in Sockets : fan[s].at # None => fan[s].at \in fan[s].rest
    /\ FollowEdges

\* A draft is the work of a lock: none is left when the lock is free.
LocksInv ==
    /\ minted \in Nat
    /\ locks \in [Boards -> [holder : Sockets \cup {None}, token : Tokens]]
    /\ drafts \in [Boards -> [holder : Sockets \cup {None}, rev : 0..2, from : SUBSET Tokens]]
    /\ granted \in [Sockets -> Tokens]
    /\ replacing \subseteq [board : Boards, token : Tokens] /\ leaked \subseteq Tokens
    /\ \A d \in Boards : /\ locks[d] # NoLock => locks[d].holder \in Sockets
                         /\ locks[d] = NoLock => drafts[d] = NoDraft
    /\ LocksConnected /\ DraftIsOneLocks

\* Whoever presents a board is on it.
Presented(d) == presenter[d] # Nobody => presenter[d].by \in Sockets /\ board[presenter[d].by] = d

\* Every presentation has its presenter on the board.
PresentInv ==
    /\ presenter \in [Boards -> [by : Sockets \cup {None}, rev : Nat]]
    /\ \A d \in Boards : Presented(d)

\* A vote given in a round, and a round with its ballots and its tally.
Ballot == [choice : Options \cup {0}, round : 0..rounds]
Round  == [round : 0..rounds, status : {"idle", "open", "revealed"},
           ballots : [Sockets -> Ballot], tally : [Options -> 0..Cardinality(Sockets)]]

\* Every round belongs to a board somebody is on, and counts its own ballots.
VoteInv ==
    /\ rounds \in Nat
    /\ vote \in [Boards -> Round]
    /\ BallotsCounted
    /\ \A d \in Boards : vote[d] # NoRound => \E s \in Sockets : board[s] = d

\* A timer as the registry holds it.
Clock == [status : {"idle", "running", "paused", "finished"}, ends : Nat,
          rest : 0..MaxDuration, dur : 0..MaxDuration]

\* Every timer belongs to a board somebody is on, and a running one has a timeout that
\* will find it.
TimerInv ==
    /\ now \in Nat
    /\ timer \in [Boards -> Clock]
    /\ timeouts \subseteq [board : Boards, ends : Nat]
    /\ \A d \in Boards : /\ timer[d] # Idle => \E s \in Sockets : board[s] = d
                         /\ timer[d].status = "running" => timer[d].ends <= now + MaxDuration
    /\ TimerCovered

\* The inductive invariant.
Inv == RoomsInv /\ ReqsInv /\ FollowInv /\ LocksInv /\ PresentInv /\ VoteInv /\ TimerInv

-----------------------------------------------------------------------------
(* The rooms: what keeps access *)

\* A handler that is not one of SocketRooms changes the rooms, if at all, by taking
\* sockets off their boards.
Aside ==
    /\ UNCHANGED <<conn, principal, check, accessVars, rev, queue, checks>>
    /\ UNCHANGED <<board, token>> \/ \E S : TakeOff(S)
    /\ left' \in [DOMAIN left' -> Nat] /\ "change" \in DOMAIN left'

\* Only these steps change who may do what.
Rights ==
    \/ UNCHANGED <<principal, standing, link, hit>>
    \/ \E s \in Sockets : Handshake(s) \/ JoinGrant(s)
    \/ \E s \in Sockets, d \in Boards :
          RevokeGrant(s, d) \/ \E level \in {View, Edit} : Regrade(s, d, level)
    \/ \E d \in Boards : ExpireLink(d) \/ \E level \in NoAccess..Edit : ChangeLink(d, level)

\* Of all steps, only those of Rights change who may do what.
LEMMA RightsMove == RoomsNext \/ Aside => Rights
<1>1. ASSUME Aside PROVE Rights
  BY <1>1 DEF Aside, Rights, accessVars
<1>2. ASSUME RoomsNext PROVE Rights
  <2>. USE DEF Rights, accessVars
  <2>1. ASSUME NEW s \in Sockets, Register(s) \/ Verify(s) \/ VerifyFails(s) \/ Drop(s)
        PROVE  UNCHANGED <<principal, standing, link, hit>>
    BY <2>1 DEF Register, Verify, VerifyRead, VerifyOk, VerifyBad, VerifyFails, Drop
  <2>2. ASSUME NEW s \in Sockets, JoinRead(s) \/ JoinDecide(s) \/ JoinMember(s) \/ JoinName(s) \/ JoinFails(s)
        PROVE  UNCHANGED <<principal, standing, link, hit>>
    BY <2>2 DEF JoinRead, JoinDecide, JoinMember, JoinName, JoinFails
  <2>3. ASSUME NEW s \in Sockets, NEW d \in Boards,
               LeaveRoom(s, d) \/ \E withToken \in BOOLEAN : JoinRequest(s, d, withToken)
        PROVE  UNCHANGED <<principal, standing, link, hit>>
    BY <2>3 DEF LeaveRoom, JoinRequest
  <2>4. ASSUME RevokeKey \/ DisconnectKey \/ Sweep \/ (\E c \in due : Recheck(c))
                 \/ \E c \in checks : CheckRead(c) \/ CheckApply(c) \/ CheckFails(c)
        PROVE  UNCHANGED <<principal, standing, link, hit>>
    BY <2>4 DEF RevokeKey, DisconnectKey, Sweep, Recheck, CheckRead, CheckApply, CheckFails
  <2>. QED
    BY <1>2, <2>1, <2>2, <2>3, <2>4 DEF RoomsNext, JoinStep
<1>. QED
  BY <1>1, <1>2

\* The running join.
LEMMA Running ==
    ASSUME RoomsInv, NEW s \in Sockets, queue[s] # <<>>
    PROVE  /\ Head(queue[s]) = queue[s][1] /\ Head(queue[s]) \in Job
           /\ 1 \in 1..Len(queue[s]) /\ JobGood(s, Head(queue[s]))
           /\ Tail(queue[s]) \in Seq(Job) /\ Len(Tail(queue[s])) = Len(queue[s]) - 1
           /\ \A i \in 1..Len(Tail(queue[s])) : /\ Tail(queue[s])[i] = queue[s][i + 1]
                                               /\ i + 1 \in 1..Len(queue[s])
<1>1. queue[s] \in Seq(Job)
  BY DEF RoomsInv, RoomsTyped
<1>2. 1 \in 1..Len(queue[s]) /\ Head(queue[s]) = queue[s][1]
  BY <1>1
<1>. QED
  BY <1>1, <1>2 DEF RoomsInv, Queued

\* Access that is held stays held, and the worth of a membership stays bounded,
\* whatever else happens.
LEMMA HeldStays ==
    ASSUME RoomsInv, RoomsNext \/ Aside, NEW s \in Sockets, NEW d \in Boards, NEW via \in BOOLEAN,
           Held(s, d, via)
    PROVE  Held(s, d, via)'
<1>. USE DEF NoAccess, View, Edit, Owner, Levels
<1>1. Rights
  BY RightsMove
<1>2. /\ principal \in [Sockets -> {"none", "account", "key"}]
      /\ standing \in [Sockets -> [Boards -> Levels]]
      /\ link \in [Boards -> NoAccess..Edit]
  BY DEF RoomsInv, RoomsTyped, RoomsTypeOK
<1>3. CASE UNCHANGED <<principal, standing, link, hit>>
  BY <1>3 DEF Held, Access
<1>4. ASSUME NEW x \in Sockets, Handshake(x) PROVE Held(s, d, via)'
  <2>1. principal'[s] = principal[s] \/ principal[s] = "none"
    BY <1>2, <1>4 DEF Handshake, RoomsInv, Unregistered
  <2>2. standing' = standing /\ link' = link /\ hit' = hit
    BY <1>4 DEF Handshake, accessVars
  <2>3. standing[s][d] \in 0..3 /\ link[d] \in 0..2
    BY <1>2
  <2>. QED
    BY <2>1, <2>2, <2>3 DEF Held, Access
<1>5. ASSUME NEW x \in Sockets, JoinGrant(x) PROVE Held(s, d, via)'
  <2>1. standing[s][d] = NoAccess \/ standing'[s][d] = standing[s][d]
    BY <1>2, <1>5 DEF JoinGrant
  <2>2. standing'[s][d] \in 0..3
    <3>1. Head(queue[x]).seen \in Levels /\ Head(queue[x]).board \in Boards
      BY <1>5, Running DEF JoinGrant, At, Job
    <3>. QED
      BY <1>2, <1>5, <3>1 DEF JoinGrant
  <2>3. principal' = principal /\ link' = link /\ hit' = hit
    BY <1>5 DEF JoinGrant
  <2>4. standing[s][d] \in 0..3 /\ link[d] \in 0..2
    BY <1>2
  <2>. QED
    BY <2>1, <2>2, <2>3, <2>4 DEF Held, Access
<1>6. ASSUME NEW x \in Sockets, NEW b \in Boards, RevokeGrant(x, b) PROVE Held(s, d, via)'
  <2>1. hit' = hit \cup {b} /\ principal' = principal /\ link' = link
    BY <1>6 DEF RevokeGrant
  <2>2. d # b => standing'[s][d] = standing[s][d]
    BY <1>2, <1>6 DEF RevokeGrant
  <2>. QED
    BY <2>1, <2>2 DEF Held, Access
<1>7. ASSUME NEW x \in Sockets, NEW b \in Boards, NEW level \in {View, Edit}, Regrade(x, b, level)
      PROVE  Held(s, d, via)'
  <2>1. hit' = hit /\ principal' = principal /\ link' = link
    BY <1>7 DEF Regrade
  <2>2. standing'[s][d] = standing[s][d] \/ standing'[s][d] = level
    BY <1>2, <1>7 DEF Regrade
  <2>3. standing[s][d] \in 0..3 /\ link[d] \in 0..2
    BY <1>2
  <2>. QED
    BY <2>1, <2>2, <2>3 DEF Held, Access
<1>8. ASSUME NEW b \in Boards, ExpireLink(b) PROVE Held(s, d, via)'
  <2>1. hit' = hit \cup {b} /\ principal' = principal /\ standing' = standing
    BY <1>8 DEF ExpireLink
  <2>2. d # b => link'[d] = link[d]
    BY <1>2, <1>8 DEF ExpireLink
  <2>. QED
    BY <2>1, <2>2 DEF Held, Access
<1>9. ASSUME NEW b \in Boards, NEW level \in NoAccess..Edit, ChangeLink(b, level)
      PROVE  Held(s, d, via)'
  <2>1. /\ hit' = IF level < link[b] THEN hit \cup {b} ELSE hit
        /\ principal' = principal /\ standing' = standing
    BY <1>9 DEF ChangeLink
  <2>2. link'[d] = IF d = b THEN level ELSE link[d]
    BY <1>2, <1>9 DEF ChangeLink
  <2>3. standing[s][d] \in 0..3 /\ link[d] \in 0..2
    BY <1>2
  <2>. QED
    BY <2>1, <2>2, <2>3 DEF Held, Access
<1>. QED
  BY <1>1, <1>3, <1>4, <1>5, <1>6, <1>7, <1>8, <1>9 DEF Rights

-----------------------------------------------------------------------------
(* The rooms: types *)

\* RoomsTypeOK without the queue and the reads under way.
Places ==
    /\ conn \in [Sockets -> {"new", "shaken", "open", "gone"}]
    /\ principal \in [Sockets -> {"none", "account", "key"}]
    /\ check \in [Sockets -> {"none", "pending", "ok", "bad", "valid", "failed"}]
    /\ key \in {"valid", "revoked", "told"}
    /\ standing \in [Sockets -> [Boards -> Levels]]
    /\ link \in [Boards -> NoAccess..Edit]
    /\ board \in [Sockets -> Boards \cup {None}]
    /\ token \in [Sockets -> BOOLEAN]
    /\ rev \in [Sockets -> Nat]
    /\ due \subseteq [no : Nat, board : Boards, who : SUBSET Sockets]
    /\ hit \subseteq Boards

\* The type of the rooms, part by part.
LEMMA TypedIs ==
    RoomsTyped <=> /\ Places /\ queue \in [Sockets -> Seq(Job)]
                   /\ \A s \in Sockets : Len(queue[s]) <= QueueCap
                   /\ checks \subseteq Check
                   /\ left \in [DOMAIN left -> Nat] /\ "change" \in DOMAIN left
<1>1. ASSUME queue \in [Sockets -> Seq(Job)], NEW s \in Sockets
      PROVE  \A i \in 1..Len(queue[s]) : queue[s][i] \in Job
  BY <1>1
<1>. QED
  BY <1>1 DEF RoomsTyped, RoomsTypeOK, Places

\* Who is off the board after TakeOff, and who is still on.
LEMMA TakeOffTyped ==
    ASSUME RoomsInv, NEW S, TakeOff(S)
    PROVE  /\ board' \in [Sockets -> Boards \cup {None}] /\ token' \in [Sockets -> BOOLEAN]
           /\ \A s \in Sockets : /\ board'[s] = (IF s \in S THEN None ELSE board[s])
                                 /\ token'[s] = (IF s \in S THEN FALSE ELSE token[s])
BY DEF TakeOff, RoomsInv, RoomsTyped, RoomsTypeOK

\* Who is gone after Disconnect.
LEMMA DisconnectTyped ==
    ASSUME RoomsInv, NEW S, Disconnect(S)
    PROVE  /\ conn' \in [Sockets -> {"new", "shaken", "open", "gone"}] /\ rev' \in [Sockets -> Nat]
           /\ TakeOff(S)
           /\ \A s \in Sockets : /\ conn'[s] = (IF s \in S THEN "gone" ELSE conn[s])
                                 /\ rev'[s] = (IF s \in S THEN rev[s] + 1 ELSE rev[s])
BY DEF Disconnect, RoomsInv, RoomsTyped, RoomsTypeOK

\* The socket of a running join comes on its board.
LEMMA EnterTyped ==
    ASSUME RoomsInv, NEW s \in Sockets, queue[s] # <<>>, Enter(s)
    PROVE  /\ board' \in [Sockets -> Boards \cup {None}] /\ token' \in [Sockets -> BOOLEAN]
           /\ board'[s] = Head(queue[s]).board /\ token'[s] = Head(queue[s]).token
           /\ \A x \in Sockets \ {s} : board'[x] = board[x] /\ token'[x] = token[x]
<1>1. Head(queue[s]).board \in Boards /\ Head(queue[s]).token \in BOOLEAN
  BY Running DEF Job
<1>. QED
  BY <1>1 DEF Enter, RoomsInv, RoomsTyped, RoomsTypeOK

\* Places stays, whatever step is taken.
LEMMA PlacesKept == RoomsInv /\ (RoomsNext \/ Aside) => Places'
<1>. SUFFICES ASSUME RoomsInv, RoomsNext \/ Aside PROVE Places'
  OBVIOUS
<1>. USE DEF Levels, NoAccess, View, Edit, Owner
<1>0. Places
  BY TypedIs DEF RoomsInv
<1>1. CASE Aside
  <2>1. PICK S : TakeOff(S) \/ UNCHANGED <<board, token>>
    BY <1>1 DEF Aside
  <2>. QED
    BY <1>0, <1>1, <2>1, TakeOffTyped DEF Aside, Places, accessVars
<1>2. ASSUME NEW s \in Sockets, Handshake(s) PROVE Places'
  BY <1>0, <1>2 DEF Places, Handshake, accessVars
<1>3. ASSUME NEW s \in Sockets, Register(s) \/ VerifyRead(s) \/ VerifyOk(s) PROVE Places'
  BY <1>0, <1>3 DEF Places, Register, VerifyRead, VerifyOk, accessVars
<1>4. ASSUME NEW s \in Sockets, VerifyBad(s) \/ VerifyFails(s) \/ Drop(s) PROVE Places'
  <2>1. PICK S : Disconnect(S)
    BY <1>4 DEF VerifyBad, VerifyFails, Drop
  <2>2. check' \in [Sockets -> {"none", "pending", "ok", "bad", "valid", "failed"}]
    BY <1>0, <1>4 DEF Places, VerifyBad, VerifyFails, Drop
  <2>3. UNCHANGED <<principal, key, standing, link, due, hit>>
    BY <1>4 DEF VerifyBad, VerifyFails, Drop, accessVars
  <2>. QED
    BY <1>0, <2>1, <2>2, <2>3, DisconnectTyped, TakeOffTyped DEF Places
<1>5. ASSUME NEW s \in Sockets, JoinRead(s) \/ JoinFails(s) PROVE Places'
  BY <1>0, <1>5 DEF Places, JoinRead, JoinFails, accessVars
<1>6. ASSUME NEW s \in Sockets, JoinDecide(s) \/ JoinMember(s) \/ JoinName(s) PROVE Places'
  <2>1. queue[s] # <<>>
    BY <1>6 DEF JoinDecide, JoinMember, JoinName, At
  <2>2. Enter(s) \/ TakeOff({s}) \/ UNCHANGED <<board, token>>
    BY <1>6 DEF JoinDecide, JoinMember, JoinName
  <2>3. UNCHANGED <<conn, principal, check, key, standing, link, due, hit, rev>>
    BY <1>6 DEF JoinDecide, JoinMember, JoinName, accessVars
  <2>. QED
    BY <1>0, <2>1, <2>2, <2>3, EnterTyped, TakeOffTyped DEF Places
<1>7. ASSUME NEW s \in Sockets, JoinGrant(s) PROVE Places'
  <2>1. Head(queue[s]).seen \in Levels /\ Head(queue[s]).board \in Boards
    BY <1>7, Running DEF JoinGrant, At, Job
  <2>. QED
    BY <1>0, <1>7, <2>1 DEF Places, JoinGrant
<1>8. ASSUME NEW s \in Sockets, NEW d \in Boards, NEW withToken \in BOOLEAN,
             JoinRequest(s, d, withToken) PROVE Places'
  BY <1>0, <1>8 DEF Places, JoinRequest, accessVars
<1>9. ASSUME NEW s \in Sockets, NEW d \in Boards, LeaveRoom(s, d) PROVE Places'
  <2>1. TakeOff({s}) \/ UNCHANGED <<board, token>>
    BY <1>9 DEF LeaveRoom
  <2>2. /\ UNCHANGED <<conn, principal, check, key, standing, link, due, hit>>
        /\ rev' \in [Sockets -> Nat]
    BY <1>0, <1>9 DEF Places, LeaveRoom, accessVars
  <2>. QED
    BY <1>0, <2>1, <2>2, TakeOffTyped DEF Places
<1>10. ASSUME NEW s \in Sockets, NEW d \in Boards,
              RevokeGrant(s, d) \/ \E level \in {View, Edit} : Regrade(s, d, level) PROVE Places'
  <2>1. left["change"] \in Nat
    BY DEF RoomsInv, RoomsTyped
  <2>2. CASE RevokeGrant(s, d)
    BY <1>0, <2>1, <2>2 DEF Places, RevokeGrant
  <2>3. ASSUME NEW level \in {View, Edit}, Regrade(s, d, level) PROVE Places'
    BY <1>0, <2>3 DEF Places, Regrade
  <2>. QED
    BY <1>10, <2>2, <2>3
<1>11. CASE RevokeKey
  BY <1>0, <1>11 DEF Places, RevokeKey
<1>12. CASE DisconnectKey
  BY <1>0, <1>12, DisconnectTyped, TakeOffTyped DEF Places, DisconnectKey
<1>13. ASSUME NEW d \in Boards, ExpireLink(d) \/ \E level \in NoAccess..Edit : ChangeLink(d, level)
       PROVE  Places'
  <2>1. left["change"] \in Nat
    BY DEF RoomsInv, RoomsTyped
  <2>2. CASE ExpireLink(d)
    BY <1>0, <2>2 DEF Places, ExpireLink
  <2>3. ASSUME NEW level \in NoAccess..Edit, ChangeLink(d, level) PROVE Places'
    BY <1>0, <2>1, <2>3 DEF Places, ChangeLink
  <2>. QED
    BY <1>13, <2>2, <2>3
<1>14. CASE Sweep \/ \E c \in due : Recheck(c)
  BY <1>0, <1>14 DEF Places, Sweep, Recheck, accessVars
<1>15. ASSUME NEW c \in checks, CheckRead(c) \/ CheckApply(c) \/ CheckFails(c) PROVE Places'
  <2>1. TakeOff({c.sock}) \/ UNCHANGED <<board, token>>
    BY <1>15 DEF CheckRead, CheckApply, CheckFails
  <2>. QED
    BY <1>0, <1>15, <2>1, TakeOffTyped DEF Places, CheckRead, CheckApply, CheckFails, accessVars
<1>. QED
  BY <1>1, <1>2, <1>3, <1>4, <1>5, <1>6, <1>7, <1>8, <1>9, <1>10, <1>11, <1>12, <1>13, <1>14,
     <1>15 DEF RoomsNext, Verify, JoinStep

-----------------------------------------------------------------------------
(* The rooms: the join queue *)

\* What is spent stays counted.
LEMMA LeftKept ==
    ASSUME left \in [DOMAIN left -> Nat], "change" \in DOMAIN left,
           UNCHANGED left \/ \E k : Spend(k)
    PROVE  left' \in [DOMAIN left' -> Nat] /\ "change" \in DOMAIN left'
<1>1. CASE UNCHANGED left
  BY <1>1
<1>2. ASSUME NEW k, Spend(k)
      PROVE  left' \in [DOMAIN left' -> Nat] /\ "change" \in DOMAIN left'
  <2>1. left' = [left EXCEPT ![k] = left[k] - 1] /\ left[k] > 0
    BY <1>2 DEF Spend
  <2>2. DOMAIN left' = DOMAIN left /\ left' = [x \in DOMAIN left |-> left'[x]]
    BY <2>1
  <2>3. ASSUME NEW x \in DOMAIN left PROVE left'[x] \in Nat
    BY <2>1, <2>3
  <2>. QED
    BY <2>2, <2>3
<1>. QED
  BY <1>1, <1>2

\* No step of the rooms loses the count of what a scene still has to spend.
LEMMA RoomsLeft == RoomsInv /\ RoomsNext =>
                     left' \in [DOMAIN left' -> Nat] /\ "change" \in DOMAIN left'
<1>. SUFFICES ASSUME RoomsInv, RoomsNext
              PROVE  left' \in [DOMAIN left' -> Nat] /\ "change" \in DOMAIN left'
  OBVIOUS
<1>1. left \in [DOMAIN left -> Nat] /\ "change" \in DOMAIN left
  BY DEF RoomsInv, RoomsTyped
<1>2. UNCHANGED left \/ \E k : Spend(k)
  <2>1. ASSUME NEW s \in Sockets, Handshake(s) \/ Register(s) \/ Verify(s) \/ VerifyFails(s)
                 \/ Drop(s) \/ JoinStep(s) \/ JoinFails(s)
        PROVE  UNCHANGED left \/ \E k : Spend(k)
    BY <2>1 DEF Handshake, Register, Verify, VerifyRead, VerifyOk, VerifyBad, VerifyFails, Drop,
       JoinStep, JoinRead, JoinDecide, JoinMember, JoinGrant, JoinName, JoinFails
  <2>2. ASSUME NEW s \in Sockets, NEW d \in Boards,
               \/ \E withToken \in BOOLEAN : JoinRequest(s, d, withToken)
               \/ LeaveRoom(s, d) \/ RevokeGrant(s, d)
               \/ \E level \in {View, Edit} : Regrade(s, d, level)
        PROVE  \E k : Spend(k)
    BY <2>2 DEF JoinRequest, LeaveRoom, RevokeGrant, Regrade
  <2>. QED
    BY <2>1, <2>2 DEF RoomsNext, RevokeKey, DisconnectKey, ExpireLink, ChangeLink, Recheck, Sweep,
       CheckRead, CheckApply, CheckFails
<1>. QED
  BY <1>1, <1>2, LeftKept

\* A credential that has passed stays so, and revisions only grow.
LEMMA Onward ==
    ASSUME RoomsInv, RoomsNext \/ Aside, NEW s \in Sockets
    PROVE  /\ check[s] = "valid" => check'[s] = "valid"
           /\ rev[s] \in Nat /\ rev'[s] \in Nat /\ rev[s] <= rev'[s]
<1>0. Places
  BY TypedIs DEF RoomsInv
<1>. USE DEF accessVars
<1>1. CASE UNCHANGED <<check, rev>>
  BY <1>0, <1>1 DEF Places
<1>2. ASSUME NEW x \in Sockets, Register(x) \/ VerifyRead(x) \/ VerifyOk(x)
      PROVE  /\ check[s] = "valid" => check'[s] = "valid"
             /\ rev' = rev
  BY <1>0, <1>2 DEF Places, Register, VerifyRead, VerifyOk, RoomsInv, Unregistered
<1>3. ASSUME NEW x \in Sockets, VerifyBad(x) \/ VerifyFails(x) \/ Drop(x) \/ DisconnectKey
      PROVE  /\ check[s] = "valid" => check'[s] = "valid"
             /\ rev'[s] \in {rev[s], rev[s] + 1}
  <2>1. \E S : Disconnect(S)
    BY <1>3 DEF VerifyBad, VerifyFails, Drop, DisconnectKey
  <2>. QED
    BY <1>0, <1>3, <2>1, DisconnectTyped DEF Places, VerifyBad, VerifyFails, Drop, DisconnectKey
<1>4. ASSUME NEW x \in Sockets, NEW d \in Boards,
             LeaveRoom(x, d) \/ \E withToken \in BOOLEAN : JoinRequest(x, d, withToken)
      PROVE  check' = check /\ rev'[s] \in {rev[s], rev[s] + 1}
  <2>1. check' = check /\ (rev' = rev \/ rev' = [rev EXCEPT ![x] = rev[x] + 1])
    BY <1>4 DEF LeaveRoom, JoinRequest
  <2>. QED
    BY <1>0, <2>1 DEF Places
<1>5. UNCHANGED <<check, rev>> \/ DisconnectKey
        \/ \E x \in Sockets : \/ Register(x) \/ VerifyRead(x) \/ VerifyOk(x)
                              \/ VerifyBad(x) \/ VerifyFails(x) \/ Drop(x)
                              \/ \E d \in Boards : LeaveRoom(x, d) \/
                                    \E withToken \in BOOLEAN : JoinRequest(x, d, withToken)
  <2>1. ASSUME NEW x \in Sockets, Handshake(x) \/ JoinStep(x) \/ JoinFails(x)
        PROVE  UNCHANGED <<check, rev>>
    BY <2>1 DEF Handshake, JoinStep, JoinRead, JoinDecide, JoinMember, JoinGrant, JoinName, JoinFails
  <2>2. ASSUME NEW x \in Sockets, NEW d \in Boards,
               RevokeGrant(x, d) \/ \E level \in {View, Edit} : Regrade(x, d, level)
        PROVE  UNCHANGED <<check, rev>>
    BY <2>2 DEF RevokeGrant, Regrade
  <2>3. ASSUME RevokeKey \/ Sweep \/ (\E c \in due : Recheck(c))
                 \/ (\E c \in checks : CheckRead(c) \/ CheckApply(c) \/ CheckFails(c))
                 \/ (\E d \in Boards : ExpireLink(d) \/ \E level \in NoAccess..Edit : ChangeLink(d, level))
                 \/ Aside
        PROVE  UNCHANGED <<check, rev>>
    BY <2>3 DEF RevokeKey, Sweep, Recheck, CheckRead, CheckApply, CheckFails, ExpireLink, ChangeLink, Aside
  <2>. QED
    BY <2>1, <2>2, <2>3 DEF RoomsNext, Verify
<1>. QED
  BY <1>0, <1>1, <1>2, <1>3, <1>4, <1>5 DEF Places

\* The worth of a membership by link stays within the link, or the board was hit.
Bounded(s, j) ==
    \/ j.seen <= link[j.board] \/ j.board \in hit
    \/ j.pc # "grant" /\ standing[s][j.board] # NoAccess

\* What bounds the membership a job hands out is not lost.
LEMMA BoundedStays ==
    ASSUME RoomsInv, RoomsNext \/ Aside, NEW s \in Sockets, NEW j \in Job, Bounded(s, j)
    PROVE  Bounded(s, j)'
<1>. USE DEF NoAccess, View, Edit, Owner, Levels
<1>1. Rights
  BY RightsMove
<1>2. Places
  BY TypedIs DEF RoomsInv
<1>3. j.seen \in 0..3 /\ j.board \in Boards /\ link[j.board] \in 0..2
  BY <1>2 DEF Job, Places
<1>4. CASE UNCHANGED <<standing, link, hit>>
  BY <1>4 DEF Bounded
<1>5. ASSUME NEW x \in Sockets, JoinGrant(x) PROVE Bounded(s, j)'
  <2>1. standing[s][j.board] # NoAccess => standing'[s][j.board] = standing[s][j.board]
    BY <1>2, <1>3, <1>5 DEF JoinGrant, Places
  <2>. QED
    BY <1>5, <2>1 DEF JoinGrant, Bounded
<1>6. ASSUME NEW x \in Sockets, NEW b \in Boards, RevokeGrant(x, b) PROVE Bounded(s, j)'
  <2>1. hit' = hit \cup {b} /\ link' = link
    BY <1>6 DEF RevokeGrant
  <2>2. j.board # b => standing'[s][j.board] = standing[s][j.board]
    BY <1>2, <1>3, <1>6 DEF RevokeGrant, Places
  <2>. QED
    BY <2>1, <2>2 DEF Bounded
<1>7. ASSUME NEW x \in Sockets, NEW b \in Boards, NEW level \in {View, Edit}, Regrade(x, b, level)
      PROVE  Bounded(s, j)'
  <2>1. standing'[s][j.board] \in {standing[s][j.board], level}
    BY <1>2, <1>3, <1>7 DEF Regrade, Places
  <2>. QED
    BY <1>7, <2>1 DEF Regrade, Bounded
<1>8. ASSUME NEW b \in Boards, ExpireLink(b) PROVE Bounded(s, j)'
  <2>1. hit' = hit \cup {b} /\ standing' = standing
    BY <1>8 DEF ExpireLink
  <2>2. j.board # b => link'[j.board] = link[j.board]
    BY <1>2, <1>3, <1>8 DEF ExpireLink, Places
  <2>. QED
    BY <2>1, <2>2 DEF Bounded
<1>9. ASSUME NEW b \in Boards, NEW level \in NoAccess..Edit, ChangeLink(b, level)
      PROVE  Bounded(s, j)'
  <2>1. hit' = (IF level < link[b] THEN hit \cup {b} ELSE hit) /\ standing' = standing
    BY <1>9 DEF ChangeLink
  <2>2. link'[j.board] = IF j.board = b THEN level ELSE link[j.board]
    BY <1>2, <1>3, <1>9 DEF ChangeLink, Places
  <2>. QED
    BY <1>3, <2>1, <2>2 DEF Bounded
<1>10. ASSUME NEW x \in Sockets, Handshake(x) PROVE UNCHANGED <<standing, link, hit>>
  BY <1>10 DEF Handshake, accessVars
<1>. QED
  BY <1>1, <1>4, <1>5, <1>6, <1>7, <1>8, <1>9, <1>10 DEF Rights

\* A good job stays good through every step.
LEMMA JobStays ==
    ASSUME RoomsInv, RoomsNext \/ Aside, NEW s \in Sockets, NEW j \in Job, JobGood(s, j)
    PROVE  JobGood(s, j)'
<1>1. j.board \in Boards /\ j.token \in BOOLEAN /\ j.rev \in Nat
  BY DEF Job
<1>2. Held(s, j.board, j.token) => Held(s, j.board, j.token)'
  BY <1>1, HeldStays
<1>3. Bounded(s, j) => Bounded(s, j)'
  BY BoundedStays
<1>4. /\ check[s] = "valid" => check'[s] = "valid"
      /\ rev[s] \in Nat /\ rev'[s] \in Nat /\ rev[s] <= rev'[s]
  BY Onward
<1>. QED
  BY <1>1, <1>2, <1>3, <1>4 DEF JobGood, Bounded

\* A queue whose head was replaced.
LEMMA Replaced ==
    ASSUME NEW T, NEW q \in Seq(T), q # <<>>, NEW h \in T
    PROVE  /\ <<h>> \o Tail(q) \in Seq(T) /\ Len(<<h>> \o Tail(q)) = Len(q)
           /\ (<<h>> \o Tail(q))[1] = h
           /\ \A i \in 2..Len(q) : (<<h>> \o Tail(q))[i] = q[i]
<1>1. /\ Tail(q) \in Seq(T) /\ Len(Tail(q)) = Len(q) - 1 /\ Len(q) \in Nat /\ Len(q) > 0
      /\ \A i \in 1..Len(Tail(q)) : Tail(q)[i] = q[i + 1]
  <2>1. Len(q) \in Nat /\ Len(q) # 0
    OBVIOUS
  <2>. QED
    BY <2>1
<1>2. <<h>> \in Seq(T) /\ Len(<<h>>) = 1 /\ <<h>>[1] = h
  OBVIOUS
<1>3. /\ <<h>> \o Tail(q) \in Seq(T)
      /\ Len(<<h>> \o Tail(q)) = Len(<<h>>) + Len(Tail(q))
      /\ \A i \in 1..(Len(<<h>>) + Len(Tail(q))) : (<<h>> \o Tail(q))[i] =
            IF i <= Len(<<h>>) THEN <<h>>[i] ELSE Tail(q)[i - Len(<<h>>)]
  BY <1>1, <1>2, ConcatProperties
<1>4. ASSUME NEW i \in 2..Len(q) PROVE (<<h>> \o Tail(q))[i] = q[i]
  <2>1. i - 1 \in 1..Len(Tail(q)) /\ (i - 1) + 1 = i /\ ~(i <= 1) /\ i \in 1..(1 + Len(Tail(q)))
    BY <1>1
  <2>. QED
    BY <1>1, <1>2, <1>3, <2>1
<1>. QED
  BY <1>1, <1>2, <1>3, <1>4

\* The jobs of a socket.
Jobs(s) ==
    /\ queue[s] \in Seq(Job) /\ Len(queue[s]) <= QueueCap
    /\ \A i \in 1..Len(queue[s]) :
         /\ JobGood(s, queue[s][i])
         /\ \A k \in 1..Len(queue[s]) : i < k => queue[s][i].rev < queue[s][k].rev

\* What a step does to the queue of one socket.
LEMMA JobsSame ==
    ASSUME RoomsInv, RoomsNext \/ Aside, NEW s \in Sockets, queue'[s] = queue[s]
    PROVE  Jobs(s)'
<1>1. Jobs(s)
  BY TypedIs DEF RoomsInv, Queued, Jobs
<1>2. ASSUME NEW i \in 1..Len(queue[s]) PROVE JobGood(s, queue[s][i])'
  <2>. PICK j \in Job : j = queue[s][i]
    BY <1>1 DEF Jobs
  <2>. QED
    BY <1>1, JobStays DEF Jobs
<1>. QED
  BY <1>1, <1>2 DEF Jobs

\* The running join is through.
LEMMA JobsDone ==
    ASSUME RoomsInv, RoomsNext \/ Aside, NEW s \in Sockets,
           queue[s] # <<>>, queue'[s] = Tail(queue[s])
    PROVE  Jobs(s)'
<1>1. Jobs(s)
  BY TypedIs DEF RoomsInv, Queued, Jobs
<1>2. /\ Tail(queue[s]) \in Seq(Job) /\ Len(Tail(queue[s])) = Len(queue[s]) - 1
      /\ Len(queue[s]) \in Nat
      /\ \A i \in 1..Len(Tail(queue[s])) : /\ Tail(queue[s])[i] = queue[s][i + 1]
                                           /\ i + 1 \in 1..Len(queue[s])
  BY <1>1, Running DEF Jobs
<1>3. QueueCap \in Nat
  BY RoomsAssumption
<1>4. ASSUME NEW i \in 1..Len(Tail(queue[s]))
      PROVE  /\ \E j \in Job : j = queue'[s][i] /\ JobGood(s, j)'
             /\ \A k \in 1..Len(Tail(queue[s])) : i < k => Tail(queue[s])[i].rev < Tail(queue[s])[k].rev
  <2>1. PICK j \in Job : j = queue[s][i + 1]
    BY <1>1, <1>2 DEF Jobs
  <2>2. JobGood(s, j)'
    BY <1>1, <1>2, <2>1, JobStays DEF Jobs
  <2>3. queue'[s][i] = j
    BY <1>2, <2>1
  <2>. QED
    BY <1>1, <1>2, <2>2, <2>3 DEF Jobs
<1>5. \A i \in 1..Len(queue'[s]) : JobGood(s, queue[s][i])'
  <2>. SUFFICES ASSUME NEW i \in 1..Len(queue'[s]) PROVE JobGood(s, queue[s][i])'
    OBVIOUS
  <2>1. PICK j \in Job : j = queue'[s][i] /\ JobGood(s, j)'
    BY <1>2, <1>4
  <2>. QED
    BY <2>1 DEF JobGood
<1>. QED
  BY <1>1, <1>2, <1>3, <1>4, <1>5 DEF Jobs

\* The running join goes on to its next read.
LEMMA JobsProceed ==
    ASSUME RoomsInv, RoomsNext \/ Aside, NEW s \in Sockets, queue[s] # <<>>,
           NEW h \in Job, h.rev = Head(queue[s]).rev, JobGood(s, h)',
           queue'[s] = <<h>> \o Tail(queue[s])
    PROVE  Jobs(s)'
<1>1. Jobs(s) /\ queue[s][1] = Head(queue[s])
  BY TypedIs, Running DEF RoomsInv, Queued, Jobs
<1>2. /\ queue'[s] \in Seq(Job) /\ Len(queue'[s]) = Len(queue[s]) /\ queue'[s][1] = h
      /\ Len(queue[s]) \in Nat
      /\ \A i \in 2..Len(queue[s]) : queue'[s][i] = queue[s][i]
  BY <1>1, Replaced DEF Jobs
<1>3. ASSUME NEW i \in 1..Len(queue[s])
      PROVE  /\ JobGood(s, queue[s][i])'
             /\ queue'[s][i].rev = queue[s][i].rev
  <2>1. CASE i = 1
    BY <1>1, <1>2, <2>1
  <2>2. CASE i # 1
    <3>1. PICK j \in Job : j = queue[s][i]
      BY <1>1 DEF Jobs
    <3>2. JobGood(s, j)'
      BY <1>1, <3>1, JobStays DEF Jobs
    <3>3. queue'[s][i] = j
      BY <1>2, <2>2, <3>1
    <3>. QED
      BY <3>1, <3>2, <3>3
  <2>. QED
    BY <2>1, <2>2
<1>. QED
  BY <1>1, <1>2, <1>3 DEF Jobs

\* Another join waits behind the others.
LEMMA JobsAdded ==
    ASSUME RoomsInv, NEW s \in Sockets, NEW d \in Boards, NEW withToken \in BOOLEAN,
           JoinRequest(s, d, withToken)
    PROVE  Jobs(s)'
<1>1. RoomsNext
  BY DEF RoomsNext
<1>2. Jobs(s) /\ Places
  BY TypedIs DEF RoomsInv, Queued, Jobs
<1>3. CASE Len(queue[s]) < QueueCap
  <2>. DEFINE new == [board |-> d, token |-> withToken, rev |-> rev[s] + 1,
                      pc |-> "wait", seen |-> NoAccess]
  <2>1. rev[s] \in Nat /\ rev'[s] = rev[s] + 1 /\ new \in Job
    BY <1>2, <1>3 DEF JoinRequest, Places, Job, Levels, NoAccess, Owner
  <2>2. queue'[s] = Append(queue[s], new)
    BY <1>3, TypedIs DEF JoinRequest, RoomsInv
  <2>3. new.rev = rev[s] + 1 /\ new.pc = "wait"
    OBVIOUS
  <2>4. PICK j \in Job : j = new
    BY <2>1
  <2>. HIDE DEF new
  <2>5. JobGood(s, j)'
    BY <2>1, <2>3, <2>4 DEF JobGood
  <2>6. /\ queue'[s] \in Seq(Job) /\ Len(queue'[s]) = Len(queue[s]) + 1 /\ Len(queue[s]) \in Nat
        /\ queue'[s][Len(queue[s]) + 1] = j
        /\ \A i \in 1..Len(queue[s]) : queue'[s][i] = queue[s][i]
    BY <1>2, <2>2, <2>4 DEF Jobs
  <2>7. ASSUME NEW i \in 1..Len(queue'[s])
        PROVE  /\ JobGood(s, queue[s][i])'
               /\ \A k \in 1..Len(queue'[s]) : i < k => queue'[s][i].rev < queue'[s][k].rev
    <3>1. CASE i = Len(queue[s]) + 1
      BY <2>5, <2>6, <3>1
    <3>2. CASE i \in 1..Len(queue[s])
      <4>1. PICK x \in Job : x = queue[s][i]
        BY <1>2, <3>2 DEF Jobs
      <4>2. JobGood(s, x)' /\ x.rev <= rev[s] /\ x.rev \in Nat
        BY <1>1, <1>2, <3>2, <4>1, JobStays DEF Jobs, JobGood, Job
      <4>3. queue'[s][i] = x
        BY <2>6, <3>2, <4>1
      <4>4. ASSUME NEW k \in 1..Len(queue'[s]), i < k PROVE x.rev < queue'[s][k].rev
        <5>1. CASE k = Len(queue[s]) + 1
          BY <2>1, <2>3, <2>4, <2>6, <4>2, <5>1
        <5>2. CASE k \in 1..Len(queue[s])
          BY <1>2, <2>6, <3>2, <4>1, <4>4, <5>2 DEF Jobs
        <5>. QED
          BY <2>6, <5>1, <5>2
      <4>. QED
        BY <4>2, <4>3, <4>4
    <3>. QED
      BY <2>6, <3>1, <3>2
  <2>. QED
    BY <1>2, <1>3, <2>6, <2>7, RoomsAssumption DEF Jobs
<1>4. CASE ~(Len(queue[s]) < QueueCap)
  BY <1>1, <1>4, JobsSame DEF JoinRequest
<1>. QED
  BY <1>3, <1>4

\* Access read by a join gives the socket what its membership is bounded by.
LEMMA ReadHolds ==
    ASSUME RoomsInv, NEW s \in Sockets, NEW h \in Job,
           h.seen = Access(s, h.board, h.token), h.pc = "decide", h.rev <= rev[s], check[s] = "valid"
    PROVE  JobGood(s, h)
<1>. USE DEF NoAccess, View, Edit, Owner, Levels
<1>1. Places
  BY TypedIs DEF RoomsInv
<1>2. standing[s][h.board] \in 0..3 /\ link[h.board] \in 0..2
  BY <1>1 DEF Places, Job
<1>. QED
  BY <1>2 DEF JobGood, Held, Access

\* Access is one of the levels.
LEMMA AccessTyped ==
    ASSUME RoomsInv, NEW s \in Sockets, NEW d \in Boards, NEW via \in BOOLEAN
    PROVE  Access(s, d, via) \in Levels
<1>. USE DEF NoAccess, View, Edit, Owner, Levels
<1>1. standing[s][d] \in 0..3 /\ link[d] \in 0..2
  BY TypedIs DEF RoomsInv, Places
<1>. QED
  BY <1>1 DEF Access

\* x takes the place of the running join of s.
Becomes(s, x) == queue'[s] = <<x>> \o Tail(queue[s])

\* The steps of a join keep its job good.
LEMMA JoinKeeps ==
    ASSUME RoomsInv, NEW s \in Sockets, JoinStep(s) \/ JoinFails(s)
    PROVE  Jobs(s)'
<1>1. RoomsNext
  BY DEF RoomsNext
<1>2. queue[s] # <<>> /\ queue \in [Sockets -> Seq(Job)]
  BY TypedIs DEF RoomsInv, JoinStep, JoinRead, JoinDecide, JoinMember, JoinGrant, JoinName, JoinFails, At
<1>3. PICK j \in Job : j = Head(queue[s]) /\ JobGood(s, j)
  BY <1>2, Running
<1>4. CASE Finish(s)
  <2>1. queue'[s] = Tail(queue[s])
    BY <1>2, <1>4 DEF Finish
  <2>. QED
    BY <1>1, <1>2, <2>1, JobsDone
<1>5. ASSUME NEW pc \in {"wait", "decide", "member", "grant", "name"}, NEW seen \in Levels,
             Proceed(s, pc, seen)
      PROVE  \E x \in Job : /\ x.rev = j.rev /\ x.board = j.board /\ x.token = j.token
                            /\ x.pc = pc /\ x.seen = seen
                            /\ Becomes(s, x)
  <2>. DEFINE x == [j EXCEPT !.pc = pc, !.seen = seen]
  <2>1. /\ x \in Job /\ x.rev = j.rev /\ x.board = j.board /\ x.token = j.token
        /\ x.pc = pc /\ x.seen = seen
    BY DEF Job
  <2>2. Becomes(s, x)
    BY <1>2, <1>3, <1>5 DEF Proceed, Becomes
  <2>. QED
    BY <2>1, <2>2
<1>6. ASSUME NEW x \in Job, x.rev = j.rev, JobGood(s, x), Becomes(s, x)
      PROVE  Jobs(s)'
  <2>1. JobGood(s, x)'
    BY <1>1, <1>6, JobStays
  <2>. QED
    BY <1>1, <1>2, <1>3, <1>6, <2>1, JobsProceed DEF Becomes
<1>7. ASSUME JoinRead(s), ~Finish(s) PROVE Jobs(s)'
  <2>2. PICK v \in Levels : v = Access(s, j.board, j.token)
    BY AccessTyped DEF Job
  <2>1. Proceed(s, "decide", v) /\ v \in Levels /\ check[s] = "valid"
    BY <1>3, <1>7, <2>2 DEF JoinRead
  <2>3. PICK x \in Job : /\ x.rev = j.rev /\ x.board = j.board
                         /\ x.token = j.token /\ x.pc = "decide" /\ x.seen = v
                         /\ Becomes(s, x)
    BY <1>5, <2>1
  <2>4. JobGood(s, x)
    BY <1>3, <2>1, <2>2, <2>3, ReadHolds DEF JobGood
  <2>. QED
    BY <1>6, <2>3, <2>4
<1>8. ASSUME JoinDecide(s), ~Finish(s), ~Enter(s) PROVE Jobs(s)'
  <2>2. PICK next \in {"name", "member"} : next = IF j.seen = Owner THEN "name" ELSE "member"
    OBVIOUS
  <2>1. Proceed(s, next, j.seen) /\ j.seen # NoAccess /\ j.pc = "decide" /\ j.seen \in Levels
        /\ next \in {"wait", "decide", "member", "grant", "name"}
    BY <1>3, <1>8, <2>2 DEF JoinDecide, At, Job
  <2>3. PICK x \in Job : /\ x.rev = j.rev /\ x.board = j.board
                         /\ x.token = j.token /\ x.pc = next /\ x.seen = j.seen
                         /\ Becomes(s, x)
    BY <1>5, <2>1
  <2>4. JobGood(s, x)
    BY <1>3, <2>1, <2>2, <2>3 DEF JobGood
  <2>. QED
    BY <1>6, <2>3, <2>4
<1>9. ASSUME JoinMember(s), ~Finish(s), ~Enter(s) PROVE Jobs(s)'
  <2>2. PICK next \in {"name", "grant"} :
            next = IF standing[s][j.board] = NoAccess THEN "grant" ELSE "name"
    OBVIOUS
  <2>1. Proceed(s, next, j.seen) /\ j.pc = "member" /\ j.seen \in Levels
        /\ next \in {"wait", "decide", "member", "grant", "name"}
    BY <1>3, <1>9, <2>2 DEF JoinMember, At, Job
  <2>3. next = "grant" => standing[s][j.board] = NoAccess
    BY <2>2
  <2>4. PICK x \in Job : /\ x.rev = j.rev /\ x.board = j.board
                         /\ x.token = j.token /\ x.pc = next /\ x.seen = j.seen
                         /\ Becomes(s, x)
    BY <1>5, <2>1
  <2>5. JobGood(s, x)
    BY <1>3, <2>1, <2>2, <2>3, <2>4 DEF JobGood
  <2>. QED
    BY <1>6, <2>4, <2>5
<1>10. ASSUME JoinGrant(s), ~Finish(s) PROVE Jobs(s)'
  <2>1. Proceed(s, "name", j.seen) /\ j.pc = "grant" /\ j.seen \in Levels
    BY <1>3, <1>10 DEF JoinGrant, At, Job
  <2>2. PICK x \in Job : /\ x.rev = j.rev /\ x.board = j.board
                         /\ x.token = j.token /\ x.pc = "name" /\ x.seen = j.seen
                         /\ Becomes(s, x)
    BY <1>5, <2>1
  <2>3. JobGood(s, x)
    BY <1>3, <2>1, <2>2 DEF JobGood
  <2>. QED
    BY <1>6, <2>2, <2>3
<1>11. Enter(s) => Finish(s)
  BY DEF Enter
<1>12. JoinName(s) \/ JoinFails(s) => Finish(s)
  BY DEF JoinName, JoinFails, Enter
<1>. QED
  BY <1>4, <1>7, <1>8, <1>9, <1>10, <1>11, <1>12 DEF JoinStep

\* Only the requests for a join and the joins themselves touch the queue.
LEMMA QueueMoves ==
    RoomsNext \/ Aside =>
      \/ UNCHANGED queue
      \/ \E x \in Sockets : \/ JoinStep(x) \/ JoinFails(x)
                            \/ \E d \in Boards, withToken \in BOOLEAN : JoinRequest(x, d, withToken)
<1>1. ASSUME NEW x \in Sockets, Handshake(x) \/ Register(x) \/ Verify(x) \/ VerifyFails(x) \/ Drop(x)
      PROVE  UNCHANGED queue
  BY <1>1 DEF Handshake, Register, Verify, VerifyRead, VerifyOk, VerifyBad, VerifyFails, Drop
<1>2. ASSUME NEW x \in Sockets, NEW d \in Boards,
             LeaveRoom(x, d) \/ RevokeGrant(x, d) \/ \E level \in {View, Edit} : Regrade(x, d, level)
      PROVE  UNCHANGED queue
  BY <1>2 DEF LeaveRoom, RevokeGrant, Regrade
<1>3. ASSUME RevokeKey \/ DisconnectKey \/ Sweep \/ (\E c \in due : Recheck(c))
               \/ (\E c \in checks : CheckRead(c) \/ CheckApply(c) \/ CheckFails(c))
               \/ (\E d \in Boards : ExpireLink(d) \/ \E level \in NoAccess..Edit : ChangeLink(d, level))
               \/ Aside
      PROVE  UNCHANGED queue
  BY <1>3 DEF RevokeKey, DisconnectKey, Sweep, Recheck, CheckRead, CheckApply, CheckFails,
     ExpireLink, ChangeLink, Aside
<1>. QED
  BY <1>1, <1>2, <1>3 DEF RoomsNext

\* The queues stay good.
LEMMA QueuedKept == RoomsInv /\ (RoomsNext \/ Aside) => \A s \in Sockets : Jobs(s)'
<1>. SUFFICES ASSUME RoomsInv, RoomsNext \/ Aside, NEW s \in Sockets PROVE Jobs(s)'
  OBVIOUS
<1>0. queue \in [Sockets -> Seq(Job)]
  BY TypedIs DEF RoomsInv
<1>1. CASE queue'[s] = queue[s]
  BY <1>1, JobsSame
<1>2. ASSUME NEW x \in Sockets, JoinStep(x) \/ JoinFails(x) PROVE Jobs(s)'
  <2>1. CASE x = s
    BY <1>2, <2>1, JoinKeeps
  <2>2. CASE x # s
    <3>1. queue'[s] = queue[s]
      BY <1>0, <1>2, <2>2 DEF JoinStep, JoinRead, JoinDecide, JoinMember, JoinGrant, JoinName,
         JoinFails, Enter, Finish, Proceed
    <3>. QED
      BY <3>1, JobsSame
  <2>. QED
    BY <2>1, <2>2
<1>3. ASSUME NEW x \in Sockets, NEW d \in Boards, NEW withToken \in BOOLEAN,
             JoinRequest(x, d, withToken)
      PROVE  Jobs(s)'
  <2>1. CASE x = s
    BY <1>3, <2>1, JobsAdded
  <2>2. CASE x # s
    <3>1. queue'[s] = queue[s]
      BY <1>0, <1>3, <2>2 DEF JoinRequest
    <3>. QED
      BY <3>1, JobsSame
  <2>. QED
    BY <2>1, <2>2
<1>. QED
  BY <1>1, <1>2, <1>3, QueueMoves

-----------------------------------------------------------------------------
(* The rooms: coming on a board and leaving it *)

\* The socket stays where it is.
Sits(s) == /\ board'[s] = board[s] /\ token'[s] = token[s]
           /\ conn[s] = "open" => conn'[s] = "open"

\* It comes on the board of its newest join, which it may be on.
Comes(s) ==
    /\ queue[s] # <<>> /\ queue'[s] = Tail(queue[s]) /\ UNCHANGED <<conn, check, rev>>
    /\ conn[s] = "open" /\ Head(queue[s]).rev = rev[s] /\ Head(queue[s]).pc # "wait"
    /\ board'[s] = Head(queue[s]).board /\ token'[s] = Head(queue[s]).token
    /\ Held(s, Head(queue[s]).board, Head(queue[s]).token)

\* It is off the board, for something of its own or for a hit.
Goes(s) ==
    /\ board'[s] = None
    /\ board[s] # None => rev'[s] # rev[s] \/ queue'[s] # queue[s] \/ board[s] \in hit

\* A disconnect moves a socket off its board or not at all.
LEMMA SeatedByDisconnect ==
    ASSUME RoomsInv, NEW S, Disconnect(S), NEW s \in Sockets
    PROVE  Sits(s) \/ Goes(s)
<1>1. rev[s] \in Nat
  BY TypedIs DEF RoomsInv, Places
<1>2. CASE s \in S
  <2>1. rev'[s] = rev[s] + 1 /\ TakeOff(S)
    BY <1>2, DisconnectTyped
  <2>2. board'[s] = None
    BY <1>2, <2>1, TakeOffTyped
  <2>. QED
    BY <1>1, <2>1, <2>2 DEF Goes
<1>3. CASE s \notin S
  BY <1>3, DisconnectTyped, TakeOffTyped DEF Sits
<1>. QED
  BY <1>2, <1>3

\* A step of a join moves a socket in one of the three ways.
LEMMA SeatedByJoin ==
    ASSUME RoomsInv, NEW x \in Sockets, JoinStep(x) \/ JoinFails(x), NEW s \in Sockets
    PROVE  Sits(s) \/ Comes(s) \/ Goes(s)
<1>1. queue[x] # <<>> /\ queue \in [Sockets -> Seq(Job)] /\ UNCHANGED <<conn, check, rev>>
  BY TypedIs DEF RoomsInv, JoinStep, JoinRead, JoinDecide, JoinMember, JoinGrant, JoinName, JoinFails, At
<1>2. PICK j \in Job : j = Head(queue[x]) /\ JobGood(x, j)
  BY <1>1, Running
<1>3. CASE UNCHANGED <<board, token>>
  BY <1>1, <1>3 DEF Sits
<1>4. CASE Enter(x) /\ ~UNCHANGED <<board, token>>
  <2>1. IsCurrentJoin(x) /\ j.pc \in {"decide", "member", "name"}
          /\ (j.pc = "decide" => j.seen # NoAccess)
    <3>1. CASE JoinDecide(x)
      BY <1>2, <1>4, <3>1 DEF JoinDecide, At
    <3>2. CASE JoinMember(x)
      BY <1>2, <1>4, <3>2 DEF JoinMember, At
    <3>3. CASE JoinName(x)
      BY <1>2, <1>4, <3>3 DEF JoinName, At
    <3>. QED
      BY <1>4, <3>1, <3>2, <3>3 DEF JoinStep, JoinRead, JoinGrant, JoinFails
  <2>4. j.pc # "wait" /\ Held(x, j.board, j.token)
    BY <1>2, <2>1 DEF JobGood
  <2>2. CASE s = x
    <3>1. board'[s] = j.board /\ token'[s] = j.token
      BY <1>1, <1>2, <1>4, <2>2, EnterTyped
    <3>2. queue'[s] = Tail(queue[s])
      BY <1>1, <1>4, <2>2 DEF Enter, Finish
    <3>. QED
      BY <1>1, <1>2, <2>1, <2>2, <2>4, <3>1, <3>2 DEF Comes, IsCurrentJoin
  <2>3. CASE s # x
    BY <1>1, <1>4, <2>3, EnterTyped DEF Sits
  <2>. QED
    BY <2>2, <2>3
<1>5. CASE TakeOff({x}) /\ ~Enter(x) /\ ~UNCHANGED <<board, token>>
  <2>1. JoinDecide(x) /\ \E pc \in {"name", "member"} : Proceed(x, pc, j.seen) /\ j.pc = "decide"
    BY <1>2, <1>5 DEF JoinStep, JoinRead, JoinDecide, JoinMember, JoinGrant, JoinName, JoinFails, At
  <2>2. queue'[x] # queue[x]
    <3>1. PICK pc \in {"name", "member"} : Proceed(x, pc, j.seen)
      BY <2>1
    <3>2. PICK h \in Job : h = [j EXCEPT !.pc = pc, !.seen = j.seen]
      BY DEF Job
    <3>3. queue'[x] = <<h>> \o Tail(queue[x]) /\ h.pc = pc
      BY <1>1, <1>2, <3>1, <3>2 DEF Proceed, Job
    <3>4. queue'[x][1] = h /\ queue[x][1] = j
      BY <1>1, <1>2, <3>3, Replaced, Running
    <3>. QED
      BY <2>1, <3>3, <3>4
  <2>. QED
    BY <1>1, <1>5, <2>2, TakeOffTyped DEF Sits, Goes
<1>6. UNCHANGED <<board, token>> \/ Enter(x) \/ TakeOff({x})
  BY DEF JoinStep, JoinRead, JoinDecide, JoinMember, JoinGrant, JoinName, JoinFails
<1>. QED
  BY <1>3, <1>4, <1>5, <1>6

\* Every step of the rooms moves a socket in one of the three ways: this is what all the
\* proofs about boards below rest on.
LEMMA Seated ==
    ASSUME RoomsInv, RoomsNext, NEW s \in Sockets
    PROVE  Sits(s) \/ Comes(s) \/ Goes(s)
<1>0. Places
  BY TypedIs DEF RoomsInv
<1>1. ASSUME NEW x \in Sockets, Handshake(x) \/ Register(x) PROVE Sits(s)
  BY <1>0, <1>1 DEF Sits, Handshake, Register, Places
<1>2. ASSUME \E S : Disconnect(S) PROVE Sits(s) \/ Goes(s)
  BY <1>2, SeatedByDisconnect
<1>3. ASSUME UNCHANGED <<conn, board, token>> PROVE Sits(s)
  BY <1>3 DEF Sits
<1>4. ASSUME NEW x \in Sockets, NEW d \in Boards, LeaveRoom(x, d) PROVE Sits(s) \/ Goes(s)
  <2>1. conn' = conn /\ rev'[x] = rev[x] + 1 /\ rev[x] \in Nat
    BY <1>0, <1>4 DEF LeaveRoom, Places
  <2>2. TakeOff({x}) \/ UNCHANGED <<board, token>>
    BY <1>4 DEF LeaveRoom
  <2>3. CASE TakeOff({x}) /\ s = x
    <3>1. board'[s] = None
      BY <2>3, TakeOffTyped
    <3>. QED
      BY <2>1, <2>3, <3>1 DEF Goes
  <2>4. CASE TakeOff({x}) /\ s # x
    <3>1. board'[s] = board[s] /\ token'[s] = token[s]
      BY <2>4, TakeOffTyped
    <3>. QED
      BY <2>1, <3>1 DEF Sits
  <2>. QED
    BY <2>1, <2>2, <2>3, <2>4 DEF Sits
<1>5. ASSUME NEW c \in checks, CheckApply(c) PROVE Sits(s) \/ Goes(s)
  <2>1. CASE c.seen = "no" /\ conn[c.sock] = "open" /\ board[c.sock] = c.board
    <3>1. TakeOff({c.sock}) /\ conn' = conn /\ board[c.sock] \in hit
      BY <1>5, <2>1 DEF CheckApply, RoomsInv, Checked
    <3>. QED
      BY <3>1, TakeOffTyped DEF Sits, Goes
  <2>2. CASE ~(c.seen = "no" /\ conn[c.sock] = "open" /\ board[c.sock] = c.board)
    BY <1>3, <1>5, <2>2 DEF CheckApply
  <2>. QED
    BY <2>1, <2>2
<1>6. ASSUME NEW x \in Sockets, Verify(x) \/ VerifyFails(x) \/ Drop(x)
      PROVE  Sits(s) \/ Goes(s)
  <2>1. CASE VerifyRead(x) \/ VerifyOk(x)
    BY <1>3, <2>1 DEF VerifyRead, VerifyOk
  <2>2. CASE VerifyBad(x) \/ VerifyFails(x) \/ Drop(x)
    BY <1>2, <2>2 DEF VerifyBad, VerifyFails, Drop
  <2>. QED
    BY <1>6, <2>1, <2>2 DEF Verify
<1>7. ASSUME \/ RevokeKey \/ Sweep
             \/ \E c \in due : Recheck(c)
             \/ \E c \in checks : CheckRead(c) \/ CheckFails(c)
             \/ \E d \in Boards : ExpireLink(d) \/ \E level \in NoAccess..Edit : ChangeLink(d, level)
      PROVE  UNCHANGED <<conn, board, token>>
  BY <1>7 DEF RevokeKey, Sweep, Recheck, CheckRead, CheckFails, ExpireLink, ChangeLink
<1>8. ASSUME NEW x \in Sockets, NEW d \in Boards,
             \/ \E withToken \in BOOLEAN : JoinRequest(x, d, withToken)
             \/ RevokeGrant(x, d) \/ \E level \in {View, Edit} : Regrade(x, d, level)
      PROVE  UNCHANGED <<conn, board, token>>
  BY <1>8 DEF JoinRequest, RevokeGrant, Regrade
<1>9. CASE DisconnectKey
  BY <1>2, <1>9 DEF DisconnectKey
<1>. QED
  BY <1>1, <1>3, <1>4, <1>5, <1>6, <1>7, <1>8, <1>9, SeatedByJoin DEF RoomsNext

-----------------------------------------------------------------------------
(* The rooms: the invariant is kept *)

\* What hit a board is not forgotten.
LEMMA HitGrows == RoomsNext \/ Aside => hit \subseteq hit'
BY RightsMove DEF Rights, Handshake, accessVars, JoinGrant, RevokeGrant, Regrade, ExpireLink, ChangeLink

\* A handler of another module only takes sockets off.
LEMMA AsideSeats ==
    ASSUME RoomsInv, Aside, NEW s \in Sockets
    PROVE  Sits(s) \/ (board'[s] = None /\ conn' = conn)
<1>1. conn' = conn
  BY DEF Aside
<1>2. CASE UNCHANGED <<board, token>>
  BY <1>1, <1>2 DEF Sits
<1>3. ASSUME NEW S, TakeOff(S) PROVE Sits(s) \/ board'[s] = None
  BY <1>1, <1>3, TakeOffTyped DEF Sits
<1>. QED
  BY <1>1, <1>2, <1>3 DEF Aside

\* Whoever is on a board was let on, and is connected.
LEMMA LetOnKept == RoomsInv /\ (RoomsNext \/ Aside) => LetOn' /\ NoGhosts'
<1>. SUFFICES ASSUME RoomsInv, RoomsNext \/ Aside, NEW s \in Sockets, board'[s] # None
              PROVE  Held(s, board[s], token[s])' /\ conn'[s] = "open" /\ check'[s] = "valid"
  BY DEF LetOn, NoGhosts
<1>1. Places /\ LetOn /\ NoGhosts
  BY TypedIs DEF RoomsInv
<1>2. CASE Sits(s)
  <2>1. Held(s, board[s], token[s]) /\ conn[s] = "open" /\ check[s] = "valid"
    BY <1>1, <1>2 DEF Sits, LetOn, NoGhosts
  <2>2. PICK d \in Boards, via \in BOOLEAN : d = board[s] /\ via = token[s]
    BY <1>1, <1>2 DEF Places, Sits
  <2>3. Held(s, d, via)'
    BY <2>1, <2>2, HeldStays
  <2>4. board'[s] = d /\ token'[s] = via
    BY <1>2, <2>2 DEF Sits
  <2>. QED
    BY <1>2, <2>1, <2>3, <2>4, Onward DEF Sits, Held, Access
<1>3. CASE Comes(s)
  <2>1. PICK j \in Job : j = Head(queue[s]) /\ JobGood(s, j)
    BY <1>3, Running DEF Comes
  <2>2. j.board \in Boards /\ j.token \in BOOLEAN
    BY DEF Job
  <2>3. Held(s, j.board, j.token) /\ check[s] = "valid" /\ conn'[s] = "open" /\ check' = check
    BY <1>3, <2>1 DEF Comes, JobGood
  <2>4. Held(s, j.board, j.token)'
    BY <2>2, <2>3, HeldStays
  <2>5. board'[s] = j.board /\ token'[s] = j.token
    BY <1>3, <2>1 DEF Comes
  <2>. QED
    BY <2>3, <2>4, <2>5 DEF Held, Access
<1>. QED
  BY <1>2, <1>3, Seated, AsideSeats DEF Goes

\* A socket that has not registered keeps nothing.
LEMMA UnregisteredKept == RoomsInv /\ (RoomsNext \/ Aside) => Unregistered'
<1>. SUFFICES ASSUME RoomsInv, RoomsNext \/ Aside, NEW s \in Sockets
              PROVE  /\ conn'[s] \in {"new", "shaken"} => queue'[s] = <<>> /\ check'[s] = "none"
                     /\ conn'[s] = "new" => principal'[s] = "none"
  BY DEF Unregistered
<1>0. Places /\ Unregistered /\ queue \in [Sockets -> Seq(Job)]
  BY TypedIs DEF RoomsInv
<1>1. ASSUME UNCHANGED <<conn, queue, check, principal>>
      PROVE  /\ conn'[s] \in {"new", "shaken"} => queue'[s] = <<>> /\ check'[s] = "none"
             /\ conn'[s] = "new" => principal'[s] = "none"
  BY <1>0, <1>1 DEF Unregistered
<1>2. ASSUME NEW x \in Sockets, Handshake(x) \/ Register(x)
      PROVE  /\ conn'[s] \in {"new", "shaken"} => queue'[s] = <<>> /\ check'[s] = "none"
             /\ conn'[s] = "new" => principal'[s] = "none"
  <2>1. CASE Handshake(x)
    <3>1. /\ conn'[s] = IF s = x THEN "shaken" ELSE conn[s]
          /\ s # x => principal'[s] = principal[s]
          /\ check' = check /\ queue' = queue /\ conn[x] = "new"
      BY <1>0, <2>1 DEF Handshake, Places
    <3>. QED
      BY <1>0, <3>1 DEF Unregistered
  <2>2. CASE Register(x)
    <3>1. /\ conn'[s] = IF s = x THEN "open" ELSE conn[s]
          /\ s # x => check'[s] = check[s]
          /\ principal' = principal /\ queue' = queue
      BY <1>0, <2>2 DEF Register, Places
    <3>. QED
      BY <1>0, <3>1 DEF Unregistered
  <2>. QED
    BY <1>2, <2>1, <2>2
<1>3. ASSUME NEW x \in Sockets, Verify(x) \/ VerifyFails(x) \/ Drop(x) \/ DisconnectKey
      PROVE  /\ conn'[s] \in {"new", "shaken"} => queue'[s] = <<>> /\ check'[s] = "none"
             /\ conn'[s] = "new" => principal'[s] = "none"
  <2>1. conn'[s] = conn[s] \/ conn'[s] = "gone"
    BY <1>3, DisconnectTyped DEF Verify, VerifyRead, VerifyOk, VerifyBad, VerifyFails, Drop, DisconnectKey
  <2>2. principal' = principal /\ queue' = queue
    BY <1>3 DEF Verify, VerifyRead, VerifyOk, VerifyBad, VerifyFails, Drop, DisconnectKey
  <2>3. check[s] = "none" => check'[s] = "none"
    <3>1. CASE s = x
      BY <1>0, <1>3, <3>1 DEF Verify, VerifyRead, VerifyOk, VerifyBad, VerifyFails, Drop, DisconnectKey, Places
    <3>2. CASE s # x
      BY <1>0, <1>3, <3>2 DEF Verify, VerifyRead, VerifyOk, VerifyBad, VerifyFails, Drop, DisconnectKey, Places
    <3>. QED
      BY <3>1, <3>2
  <2>. QED
    BY <1>0, <2>1, <2>2, <2>3 DEF Unregistered
<1>4. ASSUME NEW x \in Sockets,
             \/ JoinStep(x) \/ JoinFails(x)
             \/ \E d \in Boards, withToken \in BOOLEAN : JoinRequest(x, d, withToken)
      PROVE  /\ conn'[s] \in {"new", "shaken"} => queue'[s] = <<>> /\ check'[s] = "none"
             /\ conn'[s] = "new" => principal'[s] = "none"
  <2>1. UNCHANGED <<conn, check, principal>> /\ (queue[x] # <<>> \/ conn[x] = "open")
    BY <1>4 DEF JoinRequest, JoinStep, JoinRead, JoinDecide, JoinMember, JoinGrant, JoinName, JoinFails, At
  <2>2. s # x => queue'[s] = queue[s]
    BY <1>0, <1>4 DEF JoinRequest, JoinStep, JoinRead, JoinDecide, JoinMember, JoinGrant, JoinName,
       JoinFails, Enter, Finish, Proceed
  <2>. QED
    BY <1>0, <2>1, <2>2 DEF Unregistered
<1>5. ASSUME \/ RevokeKey \/ Sweep
             \/ \E c \in due : Recheck(c)
             \/ \E c \in checks : CheckRead(c) \/ CheckFails(c) \/ CheckApply(c)
             \/ \E d \in Boards : ExpireLink(d) \/ \E level \in NoAccess..Edit : ChangeLink(d, level)
             \/ Aside
      PROVE  UNCHANGED <<conn, queue, check, principal>>
  BY <1>5 DEF RevokeKey, Sweep, Recheck, CheckRead, CheckFails, CheckApply, ExpireLink, ChangeLink, Aside
<1>6. ASSUME NEW x \in Sockets, NEW d \in Boards,
             \/ LeaveRoom(x, d) \/ RevokeGrant(x, d) \/ \E level \in {View, Edit} : Regrade(x, d, level)
      PROVE  UNCHANGED <<conn, queue, check, principal>>
  BY <1>6 DEF LeaveRoom, RevokeGrant, Regrade
<1>. QED
  BY <1>1, <1>2, <1>3, <1>4, <1>5, <1>6 DEF RoomsNext

\* The sockets of a revoked key stay out.
LEMMA RevokedKept == RoomsInv /\ (RoomsNext \/ Aside) => RevokedKeyOut'
<1>. SUFFICES ASSUME RoomsInv, RoomsNext \/ Aside, NEW s \in Sockets,
                     key' = "told", conn'[s] = "open", principal'[s] = "key"
              PROVE  check'[s] \in {"pending", "bad"}
  BY DEF RevokedKeyOut
<1>0. Places /\ RevokedKeyOut
  BY TypedIs DEF RoomsInv
<1>1. CASE UNCHANGED <<conn, key, check, principal>>
  BY <1>0, <1>1 DEF RevokedKeyOut
<1>2. ASSUME NEW x \in Sockets, Handshake(x) PROVE check'[s] \in {"pending", "bad"}
  <2>1. /\ conn'[s] = IF s = x THEN "shaken" ELSE conn[s]
        /\ s # x => principal'[s] = principal[s]
        /\ check' = check /\ key' = key
    BY <1>0, <1>2 DEF Handshake, Places, accessVars
  <2>. QED
    BY <1>0, <2>1 DEF RevokedKeyOut
<1>3. ASSUME NEW x \in Sockets, Register(x) PROVE check'[s] \in {"pending", "bad"}
  <2>1. /\ s # x => conn'[s] = conn[s] /\ check'[s] = check[s]
        /\ check'[x] = IF principal[x] = "none" THEN "valid" ELSE "pending"
        /\ principal' = principal /\ key' = key
    BY <1>0, <1>3 DEF Register, Places, accessVars
  <2>. QED
    BY <1>0, <2>1 DEF RevokedKeyOut
<1>4. ASSUME NEW x \in Sockets, Verify(x) \/ VerifyFails(x) \/ Drop(x)
      PROVE  check'[s] \in {"pending", "bad"}
  <2>1. principal' = principal /\ key' = key
    BY <1>4 DEF Verify, VerifyRead, VerifyOk, VerifyBad, VerifyFails, Drop, accessVars
  <2>2. conn[s] = "open"
    <3>1. conn'[s] \in {conn[s], "gone"}
      BY <1>4, DisconnectTyped DEF Verify, VerifyRead, VerifyOk, VerifyBad, VerifyFails, Drop
    <3>. QED
      BY <3>1
  <2>3. check[s] \in {"pending", "bad"}
    BY <1>0, <2>1, <2>2 DEF RevokedKeyOut
  <2>4. CASE s # x
    BY <1>0, <1>4, <2>3, <2>4 DEF Verify, VerifyRead, VerifyOk, VerifyBad, VerifyFails, Drop, Places
  <2>5. CASE s = x
    <3>1. CASE VerifyRead(s)
      BY <1>0, <2>1, <3>1 DEF VerifyRead, Places
    <3>2. ~VerifyOk(s)
      BY <2>3 DEF VerifyOk
    <3>3. ~VerifyBad(s)
      <4>1. s \in KeySockets
        BY <2>1, <2>2 DEF KeySockets
      <4>2. Disconnect(KeySockets) => conn'[s] = "gone"
        <5>1. PICK S : S = KeySockets
          OBVIOUS
        <5>. QED
          BY <4>1, <5>1, DisconnectTyped
      <4>. QED
        BY <4>2 DEF VerifyBad
    <3>4. ~VerifyFails(s)
      BY <2>2, DisconnectTyped DEF VerifyFails
    <3>5. ~Drop(s)
      BY <2>2, DisconnectTyped DEF Drop
    <3>. QED
      BY <1>4, <2>5, <3>1, <3>2, <3>3, <3>4, <3>5 DEF Verify
  <2>. QED
    BY <2>4, <2>5
<1>5. ~DisconnectKey
  <2>. SUFFICES ASSUME DisconnectKey PROVE FALSE
    OBVIOUS
  <2>1. PICK S : S = KeySockets
    OBVIOUS
  <2>2. Disconnect(S) /\ principal' = principal
    BY <2>1 DEF DisconnectKey
  <2>3. conn'[s] = IF s \in S THEN "gone" ELSE conn[s]
    BY <2>2, DisconnectTyped
  <2>. QED
    BY <2>1, <2>2, <2>3 DEF KeySockets
<1>6. ASSUME \/ Sweep
             \/ \E c \in due : Recheck(c)
             \/ \E c \in checks : CheckRead(c) \/ CheckFails(c) \/ CheckApply(c)
             \/ \E d \in Boards : ExpireLink(d) \/ \E level \in NoAccess..Edit : ChangeLink(d, level)
             \/ Aside
      PROVE  UNCHANGED <<conn, key, check, principal>>
  BY <1>6 DEF Sweep, Recheck, CheckRead, CheckFails, CheckApply, ExpireLink, ChangeLink, Aside, accessVars
<1>7. ~RevokeKey
  BY DEF RevokeKey
<1>8. ASSUME NEW x \in Sockets, JoinStep(x) \/ JoinFails(x)
      PROVE  UNCHANGED <<conn, key, check, principal>>
  BY <1>8 DEF JoinStep, JoinRead, JoinDecide, JoinMember, JoinGrant, JoinName, JoinFails, accessVars
<1>9. ASSUME NEW x \in Sockets, NEW d \in Boards,
             \/ LeaveRoom(x, d) \/ RevokeGrant(x, d) \/ \E level \in {View, Edit} : Regrade(x, d, level)
             \/ \E withToken \in BOOLEAN : JoinRequest(x, d, withToken)
      PROVE  UNCHANGED <<conn, key, check, principal>>
  BY <1>9 DEF LeaveRoom, RevokeGrant, Regrade, JoinRequest, accessVars
<1>. QED
  BY <1>1, <1>2, <1>3, <1>4, <1>5, <1>6, <1>7, <1>8, <1>9 DEF RoomsNext

\* What is good of a read that is under way.
CheckGood(c) == /\ c \in Check
                /\ c.seen = "asked" => Held(c.sock, c.board, c.via)
                /\ c.seen = "no" => c.board \in hit

\* A pending recheck stays good.
LEMMA CheckStays ==
    ASSUME RoomsInv, RoomsNext \/ Aside, NEW c, CheckGood(c)
    PROVE  CheckGood(c)'
<1>1. c.sock \in Sockets /\ c.board \in Boards /\ c.via \in BOOLEAN
  BY DEF CheckGood, Check
<1>2. Held(c.sock, c.board, c.via) => Held(c.sock, c.board, c.via)'
  BY <1>1, HeldStays
<1>. QED
  BY <1>2, HitGrows DEF CheckGood

\* The rechecks an access change asks for are good ones.
LEMMA CandidatesGood ==
    ASSUME RoomsInv, NEW S \in SUBSET Sockets, NEW B \in SUBSET Boards, NEW sweep \in BOOLEAN,
           NEW no \in Nat, NEW c \in Candidates(S, B, sweep, no)
    PROVE  CheckGood(c)
<1>1. PICK s \in S : /\ c = [sock |-> s, board |-> board[s], via |-> token[s], sweep |-> sweep,
                             no |-> no, seen |-> "asked"]
                     /\ board[s] \in B
  BY DEF Candidates
<1>2. s \in Sockets /\ token[s] \in BOOLEAN /\ board[s] \in Boards
  BY <1>1, TypedIs DEF RoomsInv, Places
<1>3. Held(s, board[s], token[s])
  BY <1>2, RoomsAssumption DEF RoomsInv, LetOn
<1>. QED
  BY <1>1, <1>2, <1>3 DEF CheckGood, Check

\* All pending rechecks stay good.
LEMMA ChecksKept == RoomsInv /\ (RoomsNext \/ Aside) => checks' \subseteq Check /\ Checked'
<1>. SUFFICES ASSUME RoomsInv, RoomsNext \/ Aside, NEW c \in checks' PROVE CheckGood(c)'
  BY DEF Checked, CheckGood
<1>1. \A x \in checks : CheckGood(x)
  BY TypedIs DEF RoomsInv, Checked, CheckGood
<1>2. CASE c \in checks
  BY <1>1, <1>2, CheckStays
<1>3. CASE \E x \in due : Recheck(x)
  <2>1. PICK x \in due : Recheck(x)
    BY <1>3
  <2>2. x.who \in SUBSET Sockets /\ x.no \in Nat /\ {x.board} \in SUBSET Boards
    BY <2>1, TypedIs DEF RoomsInv, Places
  <2>3. c \in checks \/ CheckGood(c)
    BY <2>1, <2>2, CandidatesGood DEF Recheck
  <2>. QED
    BY <1>2, <2>3, CheckStays
<1>4. CASE Sweep
  <2>1. c \in checks \/ CheckGood(c)
    BY <1>4, CandidatesGood DEF Sweep
  <2>. QED
    BY <1>2, <2>1, CheckStays
<1>5. ASSUME NEW x \in checks, CheckRead(x) PROVE CheckGood(c)'
  <2>1. CASE c \notin checks
    <3>1. c = [x EXCEPT !.seen = IF Access(x.sock, x.board, x.via) = NoAccess THEN "no" ELSE "yes"]
      BY <1>5, <2>1 DEF CheckRead
    <3>2. x \in Check /\ Held(x.sock, x.board, x.via)
      BY <1>1, <1>5 DEF CheckRead, CheckGood
    <3>3. c \in Check /\ c.board = x.board
      BY <3>1, <3>2 DEF Check
    <3>4. c.seen = "yes" \/ (c.seen = "no" /\ x.board \in hit)
      BY <3>1, <3>2 DEF Check, Held
    <3>5. CheckGood(c)
      BY <3>3, <3>4 DEF CheckGood
    <3>. QED
      BY <3>5, CheckStays
  <2>. QED
    BY <1>2, <2>1
<1>6. ASSUME NEW x \in checks, CheckApply(x) PROVE CheckGood(c)'
  BY <1>2, <1>6 DEF CheckApply
<1>7. ASSUME NEW x \in checks, CheckFails(x) PROVE CheckGood(c)'
  <2>1. PICK o \in checks : c = o \/ c = [o EXCEPT !.sweep = FALSE]
    BY <1>7 DEF CheckFails
  <2>2. CheckGood(o)
    BY <1>1
  <2>3. CASE c = [o EXCEPT !.sweep = FALSE]
    <3>1. c \in Check /\ c.seen = o.seen /\ c.sock = o.sock /\ c.board = o.board /\ c.via = o.via
      BY <2>2, <2>3 DEF CheckGood, Check
    <3>2. CheckGood(c)
      BY <2>2, <3>1 DEF CheckGood
    <3>. QED
      BY <3>2, CheckStays
  <2>. QED
    BY <1>2, <2>1, <2>3
<1>8. \/ checks' = checks \/ Sweep
      \/ \E x \in due : Recheck(x)
      \/ \E x \in checks : CheckRead(x) \/ CheckApply(x) \/ CheckFails(x)
  <2>1. ASSUME NEW x \in Sockets, Handshake(x) \/ Register(x) \/ Verify(x) \/ VerifyFails(x) \/ Drop(x)
                 \/ JoinStep(x) \/ JoinFails(x)
        PROVE  checks' = checks
    BY <2>1 DEF Handshake, Register, Verify, VerifyRead, VerifyOk, VerifyBad, VerifyFails, Drop,
       JoinStep, JoinRead, JoinDecide, JoinMember, JoinGrant, JoinName, JoinFails
  <2>2. ASSUME NEW x \in Sockets, NEW d \in Boards,
               \/ LeaveRoom(x, d) \/ RevokeGrant(x, d) \/ \E level \in {View, Edit} : Regrade(x, d, level)
               \/ \E withToken \in BOOLEAN : JoinRequest(x, d, withToken)
        PROVE  checks' = checks
    BY <2>2 DEF LeaveRoom, RevokeGrant, Regrade, JoinRequest
  <2>3. ASSUME \/ RevokeKey \/ DisconnectKey \/ Aside
               \/ \E d \in Boards : ExpireLink(d) \/ \E level \in NoAccess..Edit : ChangeLink(d, level)
        PROVE  checks' = checks
    BY <2>3 DEF RevokeKey, DisconnectKey, Aside, ExpireLink, ChangeLink
  <2>. QED
    BY <2>1, <2>2, <2>3 DEF RoomsNext
<1>. QED
  BY <1>2, <1>3, <1>4, <1>5, <1>6, <1>7, <1>8

\* Every step of the rooms, and every handler that takes sockets off their boards,
\* keeps the invariant of the rooms.
LEMMA RoomsKept == RoomsInv /\ (RoomsNext \/ Aside) => RoomsInv'
<1>. SUFFICES ASSUME RoomsInv, RoomsNext \/ Aside PROVE RoomsInv'
  OBVIOUS
<1>1. left' \in [DOMAIN left' -> Nat] /\ "change" \in DOMAIN left'
  BY RoomsLeft DEF Aside
<1>2. \A s \in Sockets : Jobs(s)'
  BY QueuedKept
<1>3. queue' \in [Sockets -> Seq(Job)]
  <2>1. queue \in [Sockets -> Seq(Job)]
    BY TypedIs DEF RoomsInv
  <2>2. UNCHANGED queue \/ \E x \in Sockets : \E q : queue' = [queue EXCEPT ![x] = q]
    BY QueueMoves DEF JoinStep, JoinRead, JoinDecide, JoinMember, JoinGrant, JoinName, JoinFails,
       JoinRequest, Enter, Finish, Proceed
  <2>3. DOMAIN queue' = Sockets /\ queue' = [s \in Sockets |-> queue'[s]]
    BY <2>1, <2>2
  <2>. QED
    BY <1>2, <2>3 DEF Jobs
<1>4. RoomsTyped'
  <2>1. \A s \in Sockets : Len(queue'[s]) <= QueueCap
    BY <1>2 DEF Jobs
  <2>2. \A s \in Sockets : \A i \in 1..Len(queue'[s]) : queue'[s][i] \in Job
    BY <1>3
  <2>. QED
    BY <1>1, <1>3, <2>1, <2>2, PlacesKept, ChecksKept DEF RoomsTyped, RoomsTypeOK, Places
<1>5. Queued'
  BY <1>2 DEF Queued, Jobs
<1>. QED
  BY <1>4, <1>5, LetOnKept, UnregisteredKept, RevokedKept, ChecksKept DEF RoomsInv

\* Every scene starts with sound rooms.
LEMMA RoomsStart == RoomsInit => RoomsInv
<1>. SUFFICES ASSUME RoomsInit PROVE RoomsInv
  OBVIOUS
<1>. USE DEF NoAccess, View, Edit, Owner, Levels
<1>1. PICK c \in Scenes :
        /\ conn = [s \in Sockets |->
               IF s \in c.on THEN "open" ELSE IF s \in c.come THEN "new" ELSE "gone"]
        /\ principal = [s \in Sockets |->
               IF s \in c.on \cap Keyed THEN "key"
               ELSE IF s \in c.on \cap SignedIn THEN "account" ELSE "none"]
        /\ check = [s \in Sockets |-> IF s \in c.on THEN "valid" ELSE "none"]
        /\ key = "valid"
        /\ standing = c.standing /\ link = c.link
        /\ board = [s \in Sockets |-> IF s \in c.on THEN c.home ELSE None]
        /\ token = [s \in Sockets |-> s \in c.on /\ c.standing[s][c.home] = NoAccess]
        /\ rev = [s \in Sockets |-> IF s \in c.on THEN 1 ELSE 0]
        /\ queue = [s \in Sockets |-> <<>>]
        /\ checks = {} /\ due = {} /\ hit = {}
        /\ left = c.left
  BY DEF RoomsInit
<1>2. /\ c.on \subseteq Sockets /\ c.home \in Boards
      /\ c.standing \in [Sockets -> [Boards -> Levels]] /\ c.link \in [Boards -> NoAccess..Edit]
      /\ c.left \in [DOMAIN c.left -> Nat] /\ "change" \in DOMAIN c.left
      /\ \A s \in c.on : IF c.standing[s][c.home] = NoAccess THEN c.link[c.home] # NoAccess
                                                            ELSE s \in Keyed \cup SignedIn
  BY ScenesAssumption
<1>3. Places
  <2>1. \A s \in Sockets : conn[s] \in {"new", "shaken", "open", "gone"}
    BY <1>1
  <2>2. \A s \in Sockets : principal[s] \in {"none", "account", "key"}
    BY <1>1
  <2>. QED
    BY <1>1, <1>2, <2>1, <2>2 DEF Places
<1>4. RoomsTyped /\ Queued /\ Checked
  <2>1. \A s \in Sockets : queue[s] = <<>> /\ Len(queue[s]) = 0
    BY <1>1
  <2>2. queue \in [Sockets -> Seq(Job)]
    BY <1>1
  <2>3. QueueCap \in Nat
    BY RoomsAssumption
  <2>4. \A s \in Sockets : Len(queue[s]) <= QueueCap
    BY <2>1, <2>3
  <2>5. checks = {} /\ left \in [DOMAIN left -> Nat] /\ "change" \in DOMAIN left
    BY <1>1, <1>2
  <2>6. Queued
    BY <2>1 DEF Queued
  <2>. QED
    BY <1>3, <2>2, <2>4, <2>5, <2>6, TypedIs DEF Checked
<1>5. LetOn
  <2>. SUFFICES ASSUME NEW s \in c.on PROVE Held(s, c.home, c.standing[s][c.home] = NoAccess)
    BY <1>1, <1>2, RoomsAssumption DEF LetOn
  <2>1. s \in Sockets /\ standing[s][c.home] \in 0..3 /\ link[c.home] \in 0..2
    BY <1>1, <1>2
  <2>2. CASE c.standing[s][c.home] = NoAccess
    BY <1>1, <1>2, <2>1, <2>2 DEF Held, Access
  <2>3. CASE c.standing[s][c.home] # NoAccess
    <3>1. principal[s] # "none"
      BY <1>1, <1>2, <2>1, <2>3
    <3>. QED
      BY <1>1, <1>2, <2>1, <2>3, <3>1 DEF Held, Access
  <2>. QED
    BY <2>2, <2>3
<1>6. Unregistered /\ NoGhosts /\ RevokedKeyOut
  <2>1. ASSUME NEW s \in Sockets PROVE s \in c.on <=> conn[s] = "open"
    BY <1>1, <2>1
  <2>2. \A s \in Sockets : conn[s] # "shaken" /\ (s \notin c.on => principal[s] = "none")
    BY <1>1
  <2>. QED
    BY <1>1, <2>1, <2>2 DEF Unregistered, NoGhosts, RevokedKeyOut
<1>. QED
  BY <1>4, <1>5, <1>6 DEF RoomsInv

-----------------------------------------------------------------------------
(* Requests *)

\* A list of requests with one taken out.
LEMMA Removed ==
    ASSUME NEW T, NEW q \in Seq(T), NEW i \in 1..Len(q)
    PROVE  /\ RemoveAt(q, i) \in Seq(T)
           /\ Len(RemoveAt(q, i)) = Len(q) - 1
           /\ \A k \in 1..Len(RemoveAt(q, i)) :
                RemoveAt(q, i)[k] = IF k < i THEN q[k] ELSE q[k + 1]
<1>1. Len(q) \in Nat
  OBVIOUS
<1>2. RemoveAt(q, i) = SubSeq(q, 1, i - 1) \o SubSeq(q, i + 1, Len(q))
  BY DEF RemoveAt
<1>. DEFINE a == SubSeq(q, 1, i - 1)
            b == SubSeq(q, i + 1, Len(q))
<1>3. /\ a \in Seq(T) /\ Len(a) = i - 1
      /\ \A k \in 1..(i - 1) : a[k] = q[k]
  BY <1>1, SubSeqProperties
<1>4. /\ b \in Seq(T) /\ Len(b) = Len(q) - i
      /\ \A k \in 1..(Len(q) - i) : b[k] = q[i + k]
  BY <1>1, SubSeqProperties
<1>. HIDE DEF a, b
<1>5. /\ a \o b \in Seq(T) /\ Len(a \o b) = Len(a) + Len(b)
      /\ \A k \in 1..(Len(a) + Len(b)) : (a \o b)[k] = IF k <= Len(a) THEN a[k] ELSE b[k - Len(a)]
  BY <1>3, <1>4, ConcatProperties
<1>6. ASSUME NEW k \in 1..(Len(q) - 1) PROVE (a \o b)[k] = IF k < i THEN q[k] ELSE q[k + 1]
  <2>1. CASE k < i
    BY <1>1, <1>3, <1>4, <1>5, <2>1
  <2>2. CASE ~(k < i)
    <3>1. k - (i - 1) \in 1..(Len(q) - i) /\ i + (k - (i - 1)) = k + 1
      BY <1>1, <2>2
    <3>2. Len(a) = i - 1 /\ Len(b) = Len(q) - i /\ ~(k <= i - 1) /\ k \in 1..(Len(a) + Len(b))
      BY <1>1, <1>3, <1>4, <2>2
    <3>3. (a \o b)[k] = b[k - (i - 1)]
      BY <1>5, <3>2
    <3>4. b[k - (i - 1)] = q[k + 1]
      BY <1>4, <3>1
    <3>. QED
      BY <2>2, <3>3, <3>4
  <2>. QED
    BY <2>1, <2>2
<1>7. Len(a \o b) = Len(q) - 1
  BY <1>1, <1>3, <1>4, <1>5
<1>. QED
  BY <1>2, <1>5, <1>6, <1>7 DEF a, b

-----------------------------------------------------------------------------
(* What each kind of step leaves alone *)

\* What the handlers of a kind leave alone: a client that sends.
LEMMA SendFrame ==
    ASSUME NEW s \in Sockets, ClientSends(s)
    PROVE  UNCHANGED <<roomVars, clearVars, restVars>> /\ \E k : Spend(k)
BY DEF ClientSends, Send

\* What the handlers of a kind leave alone: the first read of a request.
LEMMA BeginFrame ==
    ASSUME NEW s \in Sockets, NEW i, Begin(s, i) \/ Refuse(s, i)
    PROVE  /\ UNCHANGED <<conn, principal, check, accessVars, rev, queue, checks, left, restVars>>
           /\ \/ UNCHANGED <<board, token, clearVars>>
              \/ Cleared /\ (UNCHANGED <<board, token>> \/ TakeOff({s}))
BY DEF Begin, Refuse, roomVars

\* What the handlers of a kind leave alone: follow, unfollow, view and their fan-outs.
LEMMA FollowFrame ==
    ASSUME FollowNext
    PROVE  /\ UNCHANGED <<conn, principal, check, accessVars, rev, queue, checks, left>>
           /\ UNCHANGED <<granted, minted, replacing, leaked, rounds, now>>
           /\ \/ UNCHANGED <<board, token, lockVars, toolVars>>
              \/ Cleared /\ (UNCHANGED <<board, token>> \/ \E S : TakeOff(S))
<1>1. ASSUME NEW s \in Sockets, NEW i,
             FollowTarget(s, i) \/ FollowSet(s, i) \/ Unfollow(s, i) \/ FanStart(s, i)
      PROVE  /\ UNCHANGED <<roomVars, left, lockVars, toolVars>>
             /\ UNCHANGED <<granted, minted, replacing, leaked, rounds, now>>
  BY <1>1 DEF FollowTarget, FollowSet, Unfollow, FanStart, clearVars, restVars
<1>2. ASSUME NEW s \in Sockets, NEW i, FollowEvicts(s, i)
      PROVE  /\ UNCHANGED <<conn, principal, check, accessVars, rev, queue, checks, left, restVars>>
             /\ Cleared /\ (UNCHANGED <<board, token>> \/ \E S : TakeOff(S))
  BY <1>2 DEF FollowEvicts
<1>3. ASSUME NEW s \in Sockets, NEW f, FanNext(s, f) \/ FanSend(s)
      PROVE  /\ UNCHANGED <<roomVars, left, lockVars, toolVars>>
             /\ UNCHANGED <<granted, minted, replacing, leaked, rounds, now>>
  BY <1>3 DEF FanNext, FanSend
<1>4. ASSUME NEW s \in Sockets, FanEvicts(s)
      PROVE  /\ UNCHANGED <<conn, principal, check, accessVars, rev, queue, checks, left>>
             /\ UNCHANGED <<granted, minted, replacing, leaked, rounds, now>>
             /\ Cleared /\ \E S : TakeOff(S)
  BY <1>4 DEF FanEvicts
<1>. QED
  BY <1>1, <1>2, <1>3, <1>4 DEF FollowNext, roomVars, restVars

\* What the handlers of a kind leave alone: the edit lock and its draft.
LEMMA LockFrame ==
    ASSUME LockNext
    PROVE  /\ UNCHANGED <<roomVars, followVars, toolVars, cancel, fan, rounds, now>>
           /\ UNCHANGED left \/ \E k : Spend(k)
<1>1. ASSUME NEW s \in Sockets, NEW i,
             AcquireRead(s, i) \/ Acquire(s, i) \/ Release(s, i) \/ Patch(s, i) \/ Wipe(s, i)
      PROVE  UNCHANGED <<roomVars, left, followVars, toolVars, cancel, fan, rounds, now>>
  BY <1>1 DEF AcquireRead, Acquire, Release, Patch, Wipe, restVars, clearVars
<1>2. ASSUME NEW s \in Sockets, NEW d, ReplaceStart(s, d)
      PROVE  /\ UNCHANGED <<roomVars, followVars, toolVars, cancel, fan, rounds, now>>
             /\ \E k : Spend(k)
  BY <1>2 DEF ReplaceStart, clearVars
<1>3. ASSUME NEW p, ReplaceEnd(p)
      PROVE  UNCHANGED <<roomVars, left, followVars, toolVars, cancel, fan, rounds, now>>
  BY <1>3 DEF ReplaceEnd
<1>. QED
  BY <1>1, <1>2, <1>3 DEF LockNext

\* What the handlers of a kind leave alone: the presenter.
LEMMA PresentFrame ==
    ASSUME PresentNext
    PROVE  UNCHANGED <<roomVars, left, followVars, lockVars, vote, timer, timeouts, restVars>>
BY DEF PresentNext, PresentStart, PresentStop, Advance

\* What the handlers of a kind leave alone: the voting.
LEMMA VoteFrame ==
    ASSUME VoteNext
    PROVE  UNCHANGED <<roomVars, left, followVars, lockVars, presenter, timer, timeouts,
                       cancel, fan, granted, minted, replacing, leaked, now>>
BY DEF VoteNext, VoteOpen, Cast, Reveal, VoteClose, restVars

\* What the handlers of a kind leave alone: the workshop timer.
LEMMA TimerFrame ==
    ASSUME TimerNext
    PROVE  /\ UNCHANGED <<roomVars, followVars, lockVars, presenter, vote,
                          cancel, fan, granted, minted, replacing, leaked, rounds>>
           /\ UNCHANGED left \/ \E k : Spend(k)
<1>1. ASSUME NEW s \in Sockets, NEW i, Command(s, i)
      PROVE  UNCHANGED <<roomVars, left, followVars, lockVars, presenter, vote, restVars>>
  BY <1>1 DEF Command
<1>2. ASSUME NEW t, Fire(t)
      PROVE  UNCHANGED <<roomVars, left, followVars, lockVars, presenter, vote, restVars>>
  BY <1>2 DEF Fire
<1>3. ASSUME Tick
      PROVE  /\ UNCHANGED <<roomVars, clearVars, cancel, fan, granted, minted, replacing, leaked, rounds>>
             /\ \E k : Spend(k)
  BY <1>3 DEF Tick
<1>. QED
  BY <1>1, <1>2, <1>3 DEF TimerNext, restVars, clearVars, toolVars

\* Whatever is not a step of the rooms leaves them to Aside, and the boards change
\* only together with what goes with them.
LEMMA Surroundings ==
    ASSUME RoomsInv, Next
    PROVE  /\ RoomsNext \/ Aside
           /\ Cleared \/ UNCHANGED board
<1>1. left \in [DOMAIN left -> Nat] /\ "change" \in DOMAIN left
  BY TypedIs DEF RoomsInv
<1>. USE DEF roomVars
<1>2. CASE RoomStep
  BY <1>2 DEF RoomStep, Within
<1>3. ASSUME NEW s \in Sockets, ClientSends(s)
      PROVE  Aside /\ UNCHANGED board
  BY <1>1, <1>3, SendFrame, LeftKept DEF Aside
<1>4. ASSUME NEW s \in Sockets, NEW i, Begin(s, i) \/ Refuse(s, i)
      PROVE  Aside /\ (Cleared \/ UNCHANGED board)
  BY <1>1, <1>4, BeginFrame DEF Aside
<1>5. CASE FollowNext
  BY <1>1, <1>5, FollowFrame DEF Aside
<1>6. CASE LockNext
  BY <1>1, <1>6, LockFrame, LeftKept DEF Aside
<1>7. CASE PresentNext
  BY <1>1, <1>7, PresentFrame DEF Aside
<1>8. CASE VoteNext
  BY <1>1, <1>8, VoteFrame DEF Aside
<1>9. CASE TimerNext
  BY <1>1, <1>9, TimerFrame, LeftKept DEF Aside
<1>. QED
  BY <1>2, <1>3, <1>4, <1>5, <1>6, <1>7, <1>8, <1>9 DEF Next

-----------------------------------------------------------------------------
(* Requests are kept well formed *)

\* A target that is being read was let on the board the request is about.
Aimed(r) == r.pc = "target" => Held(r.to, r.board, r.via)

\* What a step does to the requests of one socket.
Asks(s)   == \E r \in Request : r.pc # "target" /\ reqs' = [reqs EXCEPT ![s] = Append(@, r)]
Moves(s)  == \E i \in 1..Len(reqs[s]), r \in Request :
                 Aimed(r) /\ reqs' = [reqs EXCEPT ![s] = [@ EXCEPT ![i] = r]]
Drops(s)  == \E i \in 1..Len(reqs[s]) : Forget(s, i)

\* What a client sends is a request that is not being read for yet.
LEMMA SendAsks ==
    ASSUME Inv, NEW s \in Sockets, ClientSends(s)
    PROVE  Asks(s)
<1>1. ASSUME NEW kind, NEW r, Send(s, kind, r),
             r.op \in {"follow", "unfollow", "view", "acquire", "release", "patch", "wipe",
                       "start", "takeover", "stop", "pan", "open", "reveal", "close", "cast"}
                     \cup TimerOps,
             r.to \in Sockets \cup {None}, r.n \in Nat, r.m \in Nat,
             r.op = "follow" => r.to \in Sockets,
             r.op = "patch" => r.m \in 1..2,
             r.op = "cast" => r.m \in Options,
             r.op = "timer-start" => r.n \in Durations
      PROVE  Asks(s)
  <2>1. board[s] \in Boards
    BY <1>1, TypedIs DEF Send, Inv, RoomsInv, Places
  <2>. DEFINE q == [op |-> r.op, board |-> board[s], to |-> r.to, n |-> r.n, m |-> r.m,
                    pc |-> "asked", via |-> FALSE]
              w == [q EXCEPT !.pc = "queued"]
  <2>2. q \in Request /\ q.pc = "asked"
    BY <1>1, <2>1 DEF Request
  <2>3. w \in Request /\ w.pc = "queued"
    BY <2>2 DEF Request
  <2>4. reqs' = [reqs EXCEPT ![s] = Append(@, q)] \/ reqs' = [reqs EXCEPT ![s] = Append(@, w)]
    BY <1>1 DEF Send
  <2>. HIDE DEF q, w
  <2>. QED
    BY <2>2, <2>3, <2>4 DEF Asks
<1>2. granted[s] \in Nat /\ cancel[s] \in Nat
  BY DEF Inv, LocksInv, FollowInv, Tokens
<1>3. board[s] # None => vote[board[s]].round \in Nat
  BY TypedIs DEF Inv, VoteInv, RoomsInv, Places, Round
<1>4. Options \subseteq Nat /\ Durations \subseteq Nat
  BY EventsAssumption
<1>5. ASSUME NEW kind, NEW op \in {"unfollow", "view", "acquire", "start", "takeover", "stop", "pan",
                                   "open", "reveal", "close"}, Send(s, kind, Ask(op))
      PROVE  Asks(s)
  BY <1>1, <1>5 DEF Ask, Req
<1>6. ASSUME NEW t \in Sockets, Send(s, "follow", Req("follow", t, cancel[s], 0)) PROVE Asks(s)
  BY <1>1, <1>2, <1>6 DEF Req
<1>7. ASSUME NEW op \in {"release", "wipe"}, NEW kind, Send(s, kind, Req(op, None, granted[s], 0))
      PROVE  Asks(s)
  BY <1>1, <1>2, <1>7 DEF Req
<1>8. ASSUME NEW m \in 1..2, Send(s, "draft", Req("patch", None, granted[s], m)) PROVE Asks(s)
  BY <1>1, <1>2, <1>8 DEF Req
<1>9. ASSUME NEW o \in Options, board[s] # None,
             Send(s, "cast", Req("cast", None, vote[board[s]].round, o))
      PROVE  Asks(s)
  BY <1>1, <1>3, <1>4, <1>9 DEF Req
<1>10. ASSUME NEW op \in TimerOps, NEW n \in Durations,
              Send(s, "timer", Req(op, None, IF op = "timer-start" THEN n ELSE 0, 0))
       PROVE  Asks(s)
  BY <1>1, <1>4, <1>10 DEF Req, TimerOps
<1>. QED
  BY <1>5, <1>6, <1>7, <1>8, <1>9, <1>10 DEF ClientSends

\* Every other handler forgets its request or takes it one step further; a FOLLOW whose
\* target is read next found the target on its board.
LEMMA ReqsMove ==
    Inv /\ Next => \/ UNCHANGED reqs
                   \/ \E s \in Sockets : Asks(s) \/ Moves(s) \/ Drops(s)
<1>. SUFFICES ASSUME Inv, Next
              PROVE  UNCHANGED reqs \/ \E s \in Sockets : Asks(s) \/ Moves(s) \/ Drops(s)
  OBVIOUS
<1>0. reqs \in [Sockets -> Seq(Request)]
  BY DEF Inv, ReqsInv
<1>1. ASSUME NEW s \in Sockets, NEW i \in 1..Len(reqs[s]), NEW pc \in {"asked", "widget"},
             reqs' = [reqs EXCEPT ![s][i].pc = pc]
      PROVE  Moves(s)
  <2>1. reqs[s][i] \in Request
    BY <1>0
  <2>. DEFINE r == [reqs[s][i] EXCEPT !.pc = pc]
  <2>2. r \in Request /\ r.pc = pc
    BY <2>1 DEF Request
  <2>3. reqs' = [reqs EXCEPT ![s] = [@ EXCEPT ![i] = r]]
    BY <1>1
  <2>. HIDE DEF r
  <2>. QED
    BY <2>2, <2>3 DEF Moves, Aimed
<1>2. ASSUME NEW s \in Sockets, NEW i \in 1..Len(reqs[s]), Begin(s, i) \/ Refuse(s, i)
      PROVE  Moves(s) \/ Drops(s)
  BY <1>1, <1>2 DEF Begin, Refuse, Drops
<1>3. ASSUME NEW s \in Sockets, NEW i \in 1..Len(reqs[s]), FollowTarget(s, i)
      PROVE  Moves(s) \/ Drops(s)
  <2>1. reqs[s][i] \in Request
    BY <1>0
  <2>2. reqs[s][i].op = "follow" /\ reqs[s][i].to \in Sockets /\ reqs[s][i].board \in Boards
    BY <1>3, <2>1 DEF FollowTarget, Admitted, Asked, Request
  <2>3. CASE Forget(s, i)
    BY <2>3 DEF Drops
  <2>4. CASE ~Forget(s, i)
    <3>. DEFINE r == [reqs[s][i] EXCEPT !.pc = "target", !.via = token[reqs[s][i].to]]
    <3>1. InRoom(reqs[s][i].to, reqs[s][i].board)
            /\ reqs' = [reqs EXCEPT ![s] = [@ EXCEPT ![i] = r]]
      BY <1>3, <2>4 DEF FollowTarget
    <3>2. token[reqs[s][i].to] \in BOOLEAN
      BY <2>2, TypedIs DEF Inv, RoomsInv, Places
    <3>3. /\ r \in Request /\ r.to = reqs[s][i].to /\ r.board = reqs[s][i].board
          /\ r.via = token[reqs[s][i].to]
      BY <2>1, <2>2, <3>2 DEF Request
    <3>4. Held(reqs[s][i].to, reqs[s][i].board, token[reqs[s][i].to])
      BY <2>2, <3>1, RoomsAssumption DEF Inv, RoomsInv, LetOn, InRoom
    <3>. HIDE DEF r
    <3>. QED
      BY <3>1, <3>3, <3>4 DEF Moves, Aimed
  <2>. QED
    BY <2>3, <2>4
<1>4. ASSUME NEW s \in Sockets, NEW i \in 1..Len(reqs[s]),
             FollowSet(s, i) \/ FollowEvicts(s, i) \/ Unfollow(s, i) \/ FanStart(s, i)
      PROVE  Drops(s)
  BY <1>4 DEF FollowSet, FollowEvicts, Unfollow, FanStart, Drops
<1>5. ASSUME NEW s \in Sockets, NEW f, FanNext(s, f) \/ FanSend(s) \/ FanEvicts(s)
      PROVE  UNCHANGED reqs
  BY <1>5 DEF FanNext, FanSend, FanEvicts
<1>6. CASE FollowNext
  BY <1>3, <1>4, <1>5, <1>6 DEF FollowNext
<1>7. ASSUME NEW s \in Sockets, NEW i \in 1..Len(reqs[s]), AcquireRead(s, i)
      PROVE  Moves(s)
  BY <1>1, <1>7 DEF AcquireRead
<1>8. ASSUME NEW s \in Sockets, NEW i \in 1..Len(reqs[s]),
             Acquire(s, i) \/ Release(s, i) \/ Patch(s, i) \/ Wipe(s, i)
      PROVE  Drops(s)
  BY <1>8 DEF Acquire, Release, Patch, Wipe, Drops
<1>9. CASE LockNext
  BY <1>7, <1>8, <1>9 DEF LockNext, ReplaceStart, ReplaceEnd
<1>10. ASSUME NEW s \in Sockets, NEW i \in 1..Len(reqs[s]),
              \/ PresentStart(s, i) \/ PresentStop(s, i) \/ Advance(s, i) \/ Command(s, i)
              \/ VoteOpen(s, i) \/ Cast(s, i) \/ Reveal(s, i) \/ VoteClose(s, i)
       PROVE  Drops(s)
  BY <1>10 DEF PresentStart, PresentStop, Advance, VoteOpen, Cast, Reveal, VoteClose, Command, Drops
<1>11. CASE PresentNext \/ VoteNext \/ TimerNext
  BY <1>10, <1>11 DEF PresentNext, VoteNext, TimerNext, Fire, Tick
<1>12. CASE RoomStep
  BY <1>12 DEF RoomStep, Within
<1>. QED
  BY <1>2, <1>6, <1>9, <1>11, <1>12, SendAsks DEF Next

\* The requests stay well formed and their targets may see the board.
LEMMA ReqsKept == Inv /\ Next => ReqsInv'
<1>. SUFFICES ASSUME Inv, Next PROVE ReqsInv'
  OBVIOUS
<1>0. reqs \in [Sockets -> Seq(Request)] /\ RoomsInv
  BY DEF Inv, ReqsInv
<1>1. ASSUME NEW r \in Request, Aimed(r) PROVE Aimed(r)'
  <2>1. r.pc = "target" => r.to \in Sockets /\ r.board \in Boards /\ r.via \in BOOLEAN
    BY DEF Request
  <2>. QED
    BY <1>0, <1>1, <2>1, HeldStays, Surroundings DEF Aimed
<1>2. ASSUME NEW s \in Sockets, NEW i \in 1..Len(reqs[s]) PROVE reqs[s][i] \in Request /\ Aimed(reqs[s][i])
  BY <1>0 DEF Inv, ReqsInv, TargetsHeld, Aimed
<1>. DEFINE Fine(q) == /\ q \in Seq(Request)
                       /\ \A k \in 1..Len(q) : Aimed(q[k])
<1>3. \A s \in Sockets : Fine(reqs[s])
  BY <1>0, <1>2
<1>4. reqs' \in [Sockets -> Seq(Request)] /\ \A s \in Sockets : Fine(reqs'[s])
  <2>1. ASSUME NEW s \in Sockets, NEW q, Fine(q), reqs' = [reqs EXCEPT ![s] = q]
        PROVE  reqs' \in [Sockets -> Seq(Request)] /\ \A x \in Sockets : Fine(reqs'[x])
    BY <1>0, <1>3, <2>1
  <2>2. ASSUME NEW s \in Sockets, Asks(s) PROVE \E q : Fine(q) /\ reqs' = [reqs EXCEPT ![s] = q]
    <3>1. PICK r \in Request : r.pc # "target" /\ reqs' = [reqs EXCEPT ![s] = Append(reqs[s], r)]
      BY <2>2 DEF Asks
    <3>2. /\ Append(reqs[s], r) \in Seq(Request)
          /\ Len(Append(reqs[s], r)) = Len(reqs[s]) + 1 /\ Len(reqs[s]) \in Nat
          /\ Append(reqs[s], r)[Len(reqs[s]) + 1] = r
          /\ \A k \in 1..Len(reqs[s]) : Append(reqs[s], r)[k] = reqs[s][k]
      BY <1>0
    <3>3. ASSUME NEW k \in 1..Len(Append(reqs[s], r)) PROVE Aimed(Append(reqs[s], r)[k])
      <4>1. CASE k = Len(reqs[s]) + 1
        BY <3>1, <3>2, <4>1 DEF Aimed
      <4>2. CASE k \in 1..Len(reqs[s])
        BY <1>2, <3>2, <4>2
      <4>. QED
        BY <3>2, <4>1, <4>2
    <3>. QED
      BY <3>1, <3>2, <3>3
  <2>3. ASSUME NEW s \in Sockets, Moves(s) PROVE \E q : Fine(q) /\ reqs' = [reqs EXCEPT ![s] = q]
    <3>1. PICK i \in 1..Len(reqs[s]), r \in Request :
              Aimed(r) /\ reqs' = [reqs EXCEPT ![s] = [reqs[s] EXCEPT ![i] = r]]
      BY <2>3 DEF Moves
    <3>2. PICK q : q = [reqs[s] EXCEPT ![i] = r]
      OBVIOUS
    <3>3. q \in Seq(Request) /\ Len(q) = Len(reqs[s])
            /\ \A k \in 1..Len(reqs[s]) : q[k] = IF k = i THEN r ELSE reqs[s][k]
      BY <1>0, <3>2
    <3>4. \A k \in 1..Len(q) : Aimed(q[k])
      BY <1>2, <3>1, <3>3
    <3>. QED
      BY <3>1, <3>2, <3>3, <3>4
  <2>4. ASSUME NEW s \in Sockets, Drops(s) PROVE \E q : Fine(q) /\ reqs' = [reqs EXCEPT ![s] = q]
    <3>1. PICK i \in 1..Len(reqs[s]) : reqs' = [reqs EXCEPT ![s] = RemoveAt(reqs[s], i)]
      BY <2>4 DEF Drops, Forget
    <3>2. PICK q : q = RemoveAt(reqs[s], i)
      OBVIOUS
    <3>3. q \in Seq(Request) /\ Len(q) = Len(reqs[s]) - 1 /\ Len(reqs[s]) \in Nat
            /\ \A k \in 1..Len(q) : q[k] = IF k < i THEN reqs[s][k] ELSE reqs[s][k + 1]
      BY <1>0, <3>2, Removed
    <3>4. ASSUME NEW k \in 1..Len(q) PROVE Aimed(q[k])
      <4>1. k \in 1..Len(reqs[s]) /\ k + 1 \in 1..Len(reqs[s])
        BY <3>3
      <4>. QED
        BY <1>2, <3>3, <4>1
    <3>. QED
      BY <3>1, <3>2, <3>3, <3>4
  <2>. HIDE DEF Fine
  <2>. QED
    BY <1>0, <1>3, <2>1, <2>2, <2>3, <2>4, ReqsMove
<1>5. ASSUME NEW s \in Sockets, NEW i \in 1..Len(reqs'[s])
      PROVE  Aimed(reqs[s][i])'
  <2>1. PICK r \in Request : r = reqs'[s][i]
    BY <1>4
  <2>2. Aimed(r)'
    BY <1>1, <1>4, <2>1
  <2>. QED
    BY <2>1, <2>2 DEF Aimed, Held, Access
<1>. QED
  BY <1>4, <1>5 DEF ReqsInv, TargetsHeld, Aimed

\* Each part is changed by its own handlers, or cleared with the boards, or left alone.
LEMMA Apart ==
    ASSUME Next
    PROVE  /\ FollowNext \/ UNCHANGED <<cancel, fan>>
           /\ FollowNext \/ Cleared \/ UNCHANGED <<board, followVars>>
           /\ LockNext \/ UNCHANGED <<granted, minted, replacing, leaked>>
           /\ LockNext \/ Cleared \/ UNCHANGED <<board, lockVars>>
           /\ PresentNext \/ Cleared \/ UNCHANGED <<board, presenter>>
           /\ VoteNext \/ UNCHANGED rounds
           /\ VoteNext \/ Cleared \/ UNCHANGED <<board, vote>>
           /\ TimerNext \/ UNCHANGED now
           /\ TimerNext \/ Cleared \/ UNCHANGED <<board, timer, timeouts>>
<1>. USE DEF roomVars, restVars, clearVars, toolVars
<1>1. CASE RoomStep
  BY <1>1 DEF RoomStep, Within
<1>2. ASSUME NEW s \in Sockets, ClientSends(s)
      PROVE  UNCHANGED <<board, clearVars, restVars>>
  BY <1>2, SendFrame
<1>3. ASSUME NEW s \in Sockets, NEW i, Begin(s, i) \/ Refuse(s, i)
      PROVE  UNCHANGED restVars /\ (Cleared \/ UNCHANGED <<board, clearVars>>)
  BY <1>3, BeginFrame
<1>4. CASE FollowNext
  BY <1>4, FollowFrame
<1>5. CASE LockNext
  BY <1>5, LockFrame
<1>6. CASE PresentNext
  BY <1>6, PresentFrame
<1>7. CASE VoteNext
  BY <1>7, VoteFrame
<1>8. CASE TimerNext
  BY <1>8, TimerFrame
<1>. QED
  BY <1>1, <1>2, <1>3, <1>4, <1>5, <1>6, <1>7, <1>8 DEF Next

-----------------------------------------------------------------------------
(* Follow *)

\* The edges, as the invariant keeps them.
EdgesTyped == /\ following \in [Sockets -> Sockets \cup {None}]
              /\ followers \in [Sockets -> SUBSET Sockets]
              /\ FollowEdges

\* What leaves takes its edges along, at both ends.
LEMMA EdgesCleared ==
    ASSUME EdgesTyped, ClearFollows
    PROVE  EdgesTyped'
<1>1. /\ following' \in [Sockets -> Sockets \cup {None}]
      /\ followers' \in [Sockets -> SUBSET Sockets]
      /\ \A f \in Sockets : following'[f] = IF f \in Out \/ (following[f] \in Out /\ f \in followers[following[f]])
                                            THEN None ELSE following[f]
      /\ \A t \in Sockets : followers'[t] = IF t \in Out THEN {} ELSE followers[t] \ Out
  BY DEF EdgesTyped, ClearFollows
<1>2. None \notin Sockets
  BY EventsAssumption
<1>3. ASSUME NEW f \in Sockets, NEW t \in Sockets
      PROVE  /\ following'[f] = t <=> f \in followers'[t]
             /\ following'[f] = t => board'[f] # None /\ board'[f] = board'[t]
  <2>1. following[f] = t <=> f \in followers[t]
    BY DEF EdgesTyped, FollowEdges
  <2>2. following[f] = t => board[f] # None /\ board[f] = board[t]
    BY DEF EdgesTyped, FollowEdges
  <2>3. following'[f] = t <=> f \in followers'[t]
    BY <1>1, <1>2, <2>1
  <2>4. following'[f] = t => f \notin Out /\ t \notin Out /\ following[f] = t
    BY <1>1, <1>2, <2>1
  <2>. QED
    BY <2>2, <2>3, <2>4 DEF Out
<1>4. ASSUME NEW S \in SUBSET Sockets, S # {} PROVE \E f \in S : following'[f] \notin S
  <2>1. PICK f \in S : following[f] \notin S
    BY <1>4 DEF EdgesTyped, FollowEdges
  <2>2. following'[f] = None \/ following'[f] = following[f]
    BY <1>1
  <2>. QED
    BY <1>2, <2>1, <2>2
<1>. QED
  BY <1>1, <1>3, <1>4 DEF EdgesTyped, FollowEdges

\* One follower lets go.
LEMMA EdgesDropped ==
    ASSUME EdgesTyped, NEW g \in Sockets, ClearFollower(g), board' = board
    PROVE  EdgesTyped'
<1>1. /\ following' \in [Sockets -> Sockets \cup {None}]
      /\ followers' \in [Sockets -> SUBSET Sockets]
      /\ \A f \in Sockets : following'[f] = IF f = g THEN None ELSE following[f]
      /\ \A t \in Sockets : followers'[t] = IF t = following[g] THEN followers[t] \ {g} ELSE followers[t]
  BY EventsAssumption DEF EdgesTyped, ClearFollower
<1>2. None \notin Sockets
  BY EventsAssumption
<1>3. ASSUME NEW f \in Sockets, NEW t \in Sockets
      PROVE  /\ following'[f] = t <=> f \in followers'[t]
             /\ following'[f] = t => board'[f] # None /\ board'[f] = board'[t]
  <2>1. (following[f] = t <=> f \in followers[t]) /\ (following[g] = t <=> g \in followers[t])
    BY DEF EdgesTyped, FollowEdges
  <2>2. following[f] = t => board[f] # None /\ board[f] = board[t]
    BY DEF EdgesTyped, FollowEdges
  <2>3. following'[f] = t <=> f \in followers'[t]
    BY <1>1, <1>2, <2>1
  <2>. QED
    BY <1>1, <1>2, <2>2, <2>3
<1>4. ASSUME NEW S \in SUBSET Sockets, S # {} PROVE \E f \in S : following'[f] \notin S
  <2>1. PICK f \in S : following[f] \notin S
    BY <1>4 DEF EdgesTyped, FollowEdges
  <2>2. following'[f] = None \/ following'[f] = following[f]
    BY <1>1
  <2>. QED
    BY <1>2, <2>1, <2>2
<1>. QED
  BY <1>1, <1>3, <1>4 DEF EdgesTyped, FollowEdges

\* A new edge that closes no cycle: whatever set would now lead only to itself did so
\* before, or its part within the set that wouldCreateCycle walked did.
LEMMA EdgesAdded ==
    ASSUME EdgesTyped, board' = board, NEW g \in Sockets, NEW u \in Sockets,
           following' = [following EXCEPT ![g] = u],
           followers' = [t \in Sockets |->
               IF t = u THEN followers[t] \cup {g} ELSE followers[t] \ {g}],
           board[g] # None, board[g] = board[u], ~WouldCreateCycle(g, u)
    PROVE  EdgesTyped'
<1>1. /\ following' \in [Sockets -> Sockets \cup {None}]
      /\ followers' \in [Sockets -> SUBSET Sockets]
      /\ \A f \in Sockets : following'[f] = IF f = g THEN u ELSE following[f]
      /\ \A t \in Sockets : followers'[t] = IF t = u THEN followers[t] \cup {g} ELSE followers[t] \ {g}
  BY DEF EdgesTyped
<1>2. None \notin Sockets
  BY EventsAssumption
<1>3. ASSUME NEW f \in Sockets, NEW t \in Sockets
      PROVE  /\ following'[f] = t <=> f \in followers'[t]
             /\ following'[f] = t => board'[f] # None /\ board'[f] = board'[t]
  <2>1. following[f] = t <=> f \in followers[t]
    BY DEF EdgesTyped, FollowEdges
  <2>2. following[f] = t => board[f] # None /\ board[f] = board[t]
    BY DEF EdgesTyped, FollowEdges
  <2>. QED
    BY <1>1, <2>1, <2>2
<1>4. ASSUME NEW S \in SUBSET Sockets, S # {}, \A f \in S : following'[f] \in S PROVE FALSE
  <2>1. g \in S
    <3>. SUFFICES ASSUME g \notin S PROVE FALSE
      OBVIOUS
    <3>1. PICK f \in S : following[f] \notin S
      BY <1>4 DEF EdgesTyped, FollowEdges
    <3>. QED
      BY <1>1, <1>4, <3>1
  <2>2. u \in S
    BY <1>1, <1>4, <2>1
  <2>3. PICK W \in SUBSET Sockets : u \in W /\ g \notin W /\ \A x \in W : following[x] \in W \cup {None}
    BY DEF WouldCreateCycle
  <2>4. PICK f \in S \cap W : following[f] \notin S \cap W
    BY <2>2, <2>3 DEF EdgesTyped, FollowEdges
  <2>5. following'[f] = following[f] /\ following[f] \in S
    BY <1>1, <1>4, <2>3, <2>4
  <2>. QED
    BY <1>2, <2>3, <2>4, <2>5
<1>. QED
  BY <1>1, <1>3, <1>4 DEF EdgesTyped, FollowEdges

\* What the handlers of this part do with the edges.
EdgeStep(g) ==
    \/ /\ ClearFollower(g)
       /\ cancel'[g] # cancel[g] \/ \E a \in Sockets : g \in fan[a].rest /\ ~Follows(g, a)
    \/ \E i \in 1..Len(reqs[g]) :
         LET r == reqs[g][i] IN
         /\ Targeted(g, i) /\ r.n = cancel[g] /\ r.to \in Sockets
         /\ Forget(g, i)
         /\ board[g] \in Boards /\ board[r.to] = board[g]
         /\ ~WouldCreateCycle(g, r.to)
         /\ following' = [following EXCEPT ![g] = r.to]
         /\ followers' = [t \in Sockets |->
                IF t = r.to THEN followers[t] \cup {g} ELSE followers[t] \ {g}]

\* A step of following clears a stay, leaves the edges alone or is one of EdgeStep.
LEMMA EdgesMove ==
    ASSUME Inv, FollowNext
    PROVE  Cleared \/ (board' = board /\ (UNCHANGED followVars \/ \E g \in Sockets : EdgeStep(g)))
<1>. USE DEF roomVars, clearVars
<1>1. ASSUME NEW s \in Sockets, NEW i \in 1..Len(reqs[s]), FollowTarget(s, i) \/ FanStart(s, i)
      PROVE  board' = board /\ UNCHANGED followVars
  BY <1>1 DEF FollowTarget, FanStart
<1>2. ASSUME NEW s \in Sockets, NEW i \in 1..Len(reqs[s]), FollowSet(s, i)
      PROVE  board' = board /\ (UNCHANGED followVars \/ EdgeStep(s))
  <2>1. reqs[s][i].to \in Sockets /\ reqs[s][i].board \in Boards
    <3>1. reqs[s][i] \in Request /\ reqs[s][i].pc = "target"
      BY <1>2 DEF Inv, ReqsInv, FollowSet, Targeted
    <3>. QED
      BY <3>1 DEF Request
  <2>. QED
    BY <1>2, <2>1 DEF FollowSet, EdgeStep, InRoom
<1>3. ASSUME NEW s \in Sockets, NEW i \in 1..Len(reqs[s]), Unfollow(s, i)
      PROVE  board' = board /\ EdgeStep(s)
  <2>1. cancel \in [Sockets -> Nat] /\ cancel' = [cancel EXCEPT ![s] = cancel[s] + 1]
    BY <1>3 DEF Unfollow, Inv, FollowInv
  <2>2. cancel'[s] # cancel[s]
    BY <2>1
  <2>. QED
    BY <1>3, <2>2 DEF Unfollow, EdgeStep
<1>4. ASSUME NEW s \in Sockets, NEW f \in fan[s].rest, FanNext(s, f) \/ (f = fan[s].at /\ FanSend(s))
      PROVE  f \in Sockets /\ board' = board /\ (UNCHANGED followVars \/ EdgeStep(f))
  <2>1. f \in Sockets
    BY <1>4 DEF Inv, FollowInv, Fan
  <2>. QED
    BY <1>4, <2>1 DEF FanNext, FanSend, EdgeStep
<1>5. ASSUME NEW s \in Sockets, FanSend(s) PROVE fan[s].at \in fan[s].rest
  BY <1>5 DEF FanSend, Inv, FollowInv
<1>6. ASSUME NEW s \in Sockets, NEW i, FollowEvicts(s, i) \/ FanEvicts(s) PROVE Cleared
  BY <1>6 DEF FollowEvicts, FanEvicts
<1>. QED
  BY <1>1, <1>2, <1>3, <1>4, <1>5, <1>6 DEF FollowNext

\* The edges keep their types.
LEMMA EdgesKept == Inv /\ Next => EdgesTyped'
<1>. SUFFICES ASSUME Inv, Next PROVE EdgesTyped'
  OBVIOUS
<1>1. EdgesTyped
  BY DEF Inv, FollowInv, EdgesTyped
<1>2. CASE UNCHANGED <<board, followVars>>
  BY <1>1, <1>2 DEF EdgesTyped, FollowEdges, followVars
<1>3. ASSUME NEW g \in Sockets, EdgeStep(g), board' = board PROVE EdgesTyped'
  <2>1. CASE ClearFollower(g)
    BY <1>1, <1>3, <2>1, EdgesDropped
  <2>2. ASSUME NEW i \in 1..Len(reqs[g]), NEW u \in Sockets, u = reqs[g][i].to,
               board[g] \in Boards, board[u] = board[g], ~WouldCreateCycle(g, u),
               following' = [following EXCEPT ![g] = u],
               followers' = [t \in Sockets |->
                  IF t = u THEN followers[t] \cup {g} ELSE followers[t] \ {g}]
        PROVE  EdgesTyped'
    BY <1>1, <1>3, <2>2, EdgesAdded, RoomsAssumption
  <2>. QED
    BY <1>3, <2>1, <2>2 DEF EdgeStep
<1>. QED
  BY <1>1, <1>2, <1>3, Apart, EdgesMove, EdgesCleared DEF Cleared

\* The edges stay one relation without cycles.
LEMMA FollowKeeps == Inv /\ Next => FollowInv'
<1>. SUFFICES ASSUME Inv, Next PROVE FollowInv'
  OBVIOUS
<1>. DEFINE Fans == /\ cancel \in [Sockets -> Nat] /\ fan \in [Sockets -> Fan]
                    /\ \A s \in Sockets : fan[s].at # None => fan[s].at \in fan[s].rest
<1>0. Fans /\ NoFan \in Fan /\ NoFan.at = None
  BY DEF Inv, FollowInv, NoFan, Fan
<1>1. ASSUME NEW s \in Sockets, NEW x \in Fan, fan' = [fan EXCEPT ![s] = x],
             x.at # None => x.at \in x.rest, cancel' = cancel
      PROVE  Fans'
  BY <1>0, <1>1
<1>2. ASSUME NEW s \in Sockets, NEW i \in 1..Len(reqs[s]), FanStart(s, i) PROVE Fans'
  <2>1. reqs[s][i].board \in Boards /\ followers[s] \in SUBSET Sockets
    <3>1. reqs[s][i] \in Request
      BY DEF Inv, ReqsInv
    <3>. QED
      BY <3>1 DEF Inv, Request, FollowInv
  <2>2. PICK x \in Fan : x = IF followers[s] = {} THEN NoFan
                             ELSE [board |-> reqs[s][i].board, rest |-> followers[s], at |-> None]
    BY <1>0, <2>1 DEF Fan
  <2>3. fan' = [fan EXCEPT ![s] = x] /\ x.at = None /\ cancel' = cancel
    BY <1>0, <1>2, <2>2 DEF FanStart
  <2>. QED
    BY <1>1, <2>3
<1>3. ASSUME NEW s \in Sockets, NEW f, FanDone(s, f), cancel' = cancel PROVE Fans'
  <2>1. fan[s] \in Fan
    BY <1>0
  <2>2. PICK x \in Fan : x = IF fan[s].rest \ {f} = {} THEN NoFan
                             ELSE [board |-> fan[s].board, rest |-> fan[s].rest \ {f}, at |-> None]
    BY <1>0, <2>1 DEF Fan
  <2>3. x.at = None
    BY <1>0, <2>1, <2>2 DEF Fan
  <2>4. fan' = [fan EXCEPT ![s] = x]
    BY <1>3, <2>2 DEF FanDone
  <2>. QED
    BY <1>1, <1>3, <2>3, <2>4
<1>4. ASSUME NEW s \in Sockets, NEW f \in fan[s].rest, FanNext(s, f) PROVE Fans'
  <2>0. cancel' = cancel
    BY <1>4 DEF FanNext
  <2>1. CASE Follows(f, s)
    <3>1. fan[s] \in Fan /\ f \in Sockets
      BY <1>0 DEF Fan
    <3>2. PICK x \in Fan : x = [fan[s] EXCEPT !.at = f]
      BY <3>1 DEF Fan
    <3>3. fan' = [fan EXCEPT ![s] = x] /\ x.at = f /\ x.rest = fan[s].rest
      BY <1>4, <2>1, <3>1, <3>2 DEF FanNext, Fan
    <3>. QED
      BY <1>1, <2>0, <3>3
  <2>2. CASE ~Follows(f, s)
    BY <1>3, <1>4, <2>0, <2>2 DEF FanNext
  <2>. QED
    BY <2>1, <2>2
<1>5. ASSUME NEW s \in Sockets, FanSend(s) \/ FanEvicts(s) PROVE Fans'
  BY <1>3, <1>5 DEF FanSend, FanEvicts
<1>6. ASSUME NEW s \in Sockets, NEW i \in 1..Len(reqs[s]),
             FollowTarget(s, i) \/ FollowSet(s, i) \/ FollowEvicts(s, i) \/ Unfollow(s, i)
      PROVE  Fans'
  <2>1. fan' = fan /\ (cancel' = cancel \/ cancel' = [cancel EXCEPT ![s] = cancel[s] + 1])
    BY <1>6 DEF FollowTarget, FollowSet, FollowEvicts, Unfollow, restVars
  <2>. QED
    BY <1>0, <2>1
<1>7. ASSUME UNCHANGED <<cancel, fan>> PROVE Fans'
  BY <1>0, <1>7
<1>8. Fans'
  <2>. HIDE DEF Fans
  <2>. QED
    BY <1>2, <1>4, <1>5, <1>6, <1>7, Apart DEF FollowNext
<1>. QED
  BY <1>8, EdgesKept DEF FollowInv, EdgesTyped, Fan


-----------------------------------------------------------------------------
(* Locks and drafts *)

Lock  == [holder : Sockets \cup {None}, token : Tokens]

\* The draft of a board: who types, which revision, from which locks.
Draft == [holder : Sockets \cup {None}, rev : 0..2, from : SUBSET Tokens]

\* The lock of a board and the draft under it.
LockGood(d) ==
    /\ locks[d] \in Lock /\ drafts[d] \in Draft
    /\ locks[d] # NoLock => /\ locks[d].holder \in Sockets
                            /\ board[locks[d].holder] = d \/ locks[d].token \in leaked
    /\ locks[d] = NoLock => drafts[d] = NoDraft
    /\ drafts[d] # NoDraft => /\ drafts[d].from = {locks[d].token}
                              /\ drafts[d].holder = locks[d].holder

\* The tokens that were minted, and who has which.
TokensGood ==
    /\ minted \in Nat /\ granted \in [Sockets -> Tokens]
    /\ replacing \subseteq [board : Boards, token : Tokens] /\ leaked \subseteq Tokens

\* The invariant of the locks, board by board.
LEMMA LocksAre ==
    LocksInv <=> /\ TokensGood
                 /\ locks = [d \in Boards |-> locks[d]] /\ drafts = [d \in Boards |-> drafts[d]]
                 /\ \A d \in Boards : LockGood(d)
BY DEF LocksInv, TokensGood, LockGood, Lock, Draft, LocksConnected, DraftIsOneLocks

\* The same after a step.
LEMMA LocksBecome ==
    ASSUME TokensGood', locks' = [d \in Boards |-> locks'[d]], drafts' = [d \in Boards |-> drafts'[d]],
           \A d \in Boards : LockGood(d)'
    PROVE  LocksInv'
BY DEF LocksInv, TokensGood, LockGood, Lock, Draft, LocksConnected, DraftIsOneLocks

\* A lock whose holder stays is as good after a step as before it.
LEMMA LockStays ==
    ASSUME LocksInv, NEW d \in Boards, locks'[d] = locks[d], drafts'[d] = drafts[d],
           minted' \in Nat, minted <= minted', leaked \subseteq leaked',
           board[locks[d].holder] = d => board'[locks[d].holder] = d
    PROVE  LockGood(d)'
<1>1. LockGood(d) /\ minted \in Nat
  BY LocksAre DEF TokensGood
<1>2. Tokens \subseteq Tokens'
  BY <1>1 DEF Tokens
<1>3. Lock \subseteq Lock' /\ Draft \subseteq Draft'
  BY <1>2 DEF Lock, Draft
<1>. QED
  BY <1>1, <1>3 DEF LockGood

\* A lock that is free, with no draft, is good.
LEMMA FreeGood ==
    ASSUME NEW d \in Boards, minted' \in Nat, locks'[d] = NoLock, drafts'[d] = NoDraft
    PROVE  LockGood(d)'
<1>1. 0 \in Tokens'
  BY DEF Tokens
<1>. QED
  BY <1>1 DEF LockGood, NoLock, NoDraft, Lock, Draft

\* A stay that ends leaves the locks of the others sound.
LEMMA LocksCleared == Inv /\ Cleared /\ UNCHANGED <<granted, minted, replacing, leaked>> => LocksInv'
<1>. SUFFICES ASSUME Inv, Cleared, UNCHANGED <<granted, minted, replacing, leaked>> PROVE LocksInv'
  OBVIOUS
<1>0. LocksInv /\ TokensGood /\ None \notin Boards
  BY LocksAre, RoomsAssumption DEF Inv
<1>1. ASSUME NEW d \in Boards PROVE LockGood(d)'
  <2>1. /\ locks'[d] = IF locks[d].holder \in Out THEN NoLock ELSE locks[d]
        /\ drafts'[d] = IF locks[d].holder \in Out THEN NoDraft ELSE drafts[d]
    BY DEF Cleared, ClearLocks
  <2>2. CASE locks[d].holder \in Out
    BY <1>0, <2>1, <2>2, FreeGood DEF TokensGood
  <2>3. CASE locks[d].holder \notin Out
    <3>1. LockGood(d)
      BY <1>0, LocksAre
    <3>2. locks[d] # NoLock /\ board[locks[d].holder] = d => board'[locks[d].holder] = d
      BY <1>0, <2>3, <3>1 DEF Out, LockGood
    <3>3. Lock' = Lock /\ Draft' = Draft
      BY DEF Lock, Draft, Tokens
    <3>. QED
      BY <2>1, <2>3, <3>1, <3>2, <3>3 DEF LockGood
  <2>. QED
    BY <2>2, <2>3
<1>2. TokensGood'
  BY <1>0 DEF TokensGood, Tokens
<1>3. locks' = [d \in Boards |-> locks'[d]] /\ drafts' = [d \in Boards |-> drafts'[d]]
  BY DEF Cleared, ClearLocks
<1>. QED
  BY <1>1, <1>2, <1>3, LocksBecome

\* The lock of one board changes; nothing else does, but a token may be minted.
LEMMA LocksChange ==
    ASSUME Inv, NEW d \in Boards, board' = board, TokensGood', minted <= minted', leaked \subseteq leaked',
           LockGood(d)',
           locks' = [locks EXCEPT ![d] = locks'[d]], drafts' = [drafts EXCEPT ![d] = drafts'[d]]
    PROVE  LocksInv'
<1>0. /\ LocksInv /\ locks = [x \in Boards |-> locks[x]] /\ drafts = [x \in Boards |-> drafts[x]]
  BY LocksAre DEF Inv
<1>1. ASSUME NEW x \in Boards, x # d PROVE LockGood(x)'
  <2>1. locks'[x] = locks[x] /\ drafts'[x] = drafts[x] /\ minted' \in Nat
    BY <1>0, <1>1 DEF TokensGood
  <2>. QED
    BY <1>0, <2>1, LockStays
<1>2. locks' = [x \in Boards |-> locks'[x]] /\ drafts' = [x \in Boards |-> drafts'[x]]
  BY <1>0
<1>. QED
  BY <1>1, <1>2, LocksBecome

\* Every handler of the locks keeps them sound: a grant takes a new token, a draft is typed
\* by the holder, and a replacement ends only the lock it was asked for.
LEMMA LockSteps == Inv /\ LockNext => LocksInv'
<1>. SUFFICES ASSUME Inv, LockNext PROVE LocksInv'
  OBVIOUS
<1>0. /\ LocksInv /\ TokensGood /\ \A d \in Boards : LockGood(d)
      /\ locks = [d \in Boards |-> locks[d]] /\ drafts = [d \in Boards |-> drafts[d]]
      /\ minted \in Nat
  BY LocksAre DEF Inv, TokensGood
<1>01. board' = board
  BY LockFrame DEF roomVars
<1>1. ASSUME UNCHANGED <<granted, minted, leaked>>, replacing' \subseteq replacing PROVE TokensGood'
  BY <1>0, <1>1 DEF TokensGood, Tokens
<1>2. ASSUME UNCHANGED <<lockVars, granted, minted, leaked>>, TokensGood' PROVE LocksInv'
  <2>1. \A d \in Boards : LockGood(d)'
    BY <1>0, <1>01, <1>2, LockStays DEF lockVars
  <2>. QED
    BY <1>0, <1>2, <2>1, LocksBecome DEF lockVars
<1>3. ASSUME NEW d \in Boards, Free(d), UNCHANGED <<granted, minted, leaked>>,
             replacing' \subseteq replacing
      PROVE  LocksInv'
  <2>1. /\ locks'[d] = NoLock /\ drafts'[d] = NoDraft
        /\ locks' = [locks EXCEPT ![d] = locks'[d]] /\ drafts' = [drafts EXCEPT ![d] = drafts'[d]]
    BY <1>0, <1>3 DEF Free
  <2>2. TokensGood'
    BY <1>1, <1>3
  <2>3. LockGood(d)'
    BY <2>1, <2>2, FreeGood DEF TokensGood
  <2>. QED
    BY <1>0, <1>01, <1>3, <2>1, <2>2, <2>3, LocksChange
<1>4. ASSUME NEW s \in Sockets, NEW i \in 1..Len(reqs[s]) PROVE reqs[s][i] \in Request
  BY DEF Inv, ReqsInv
<1>5. ASSUME NEW s \in Sockets, NEW i \in 1..Len(reqs[s]), AcquireRead(s, i) PROVE LocksInv'
  BY <1>1, <1>2, <1>5 DEF AcquireRead, clearVars, restVars
<1>6. ASSUME NEW s \in Sockets, NEW i \in 1..Len(reqs[s]), Acquire(s, i) PROVE LocksInv'
  <2>1. PICK d \in Boards : d = reqs[s][i].board
    BY <1>4 DEF Request
  <2>4. UNCHANGED <<drafts, replacing>>
    BY <1>6 DEF Acquire
  <2>2. CASE locks[d] = NoLock
    <3>1. /\ locks' = [locks EXCEPT ![d] = [holder |-> s, token |-> minted + 1]]
          /\ minted' = minted + 1
          /\ granted' = [granted EXCEPT ![s] = minted + 1]
          /\ leaked' = IF board[s] = d THEN leaked ELSE leaked \cup {minted + 1}
      BY <1>6, <2>1, <2>2, EventsAssumption DEF Acquire, NoLock
    <3>2. Tokens \subseteq Tokens' /\ minted' \in Tokens' /\ minted' \in Nat
      BY <1>0, <3>1 DEF Tokens
    <3>3. TokensGood'
      BY <1>0, <2>1, <2>4, <3>1, <3>2 DEF TokensGood
    <3>4. locks'[d] = [holder |-> s, token |-> minted + 1] /\ drafts[d] = NoDraft /\ drafts'[d] = NoDraft
      BY <1>0, <2>1, <2>4, <2>2, <3>1 DEF LockGood
    <3>5. LockGood(d)'
      <4>1. locks'[d] \in Lock' /\ drafts'[d] \in Draft'
        BY <3>1, <3>2, <3>4 DEF Lock, Draft, NoDraft
      <4>2. board'[s] = d \/ minted + 1 \in leaked'
        BY <1>01, <3>1
      <4>3. locks'[d] # NoLock
        BY <3>4, EventsAssumption DEF NoLock
      <4>. QED
        BY <3>4, <4>1, <4>2, <4>3 DEF LockGood
    <3>6. locks' = [locks EXCEPT ![d] = locks'[d]] /\ drafts' = [drafts EXCEPT ![d] = drafts'[d]]
      BY <1>0, <2>1, <2>4, <3>1
    <3>7. minted <= minted' /\ leaked \subseteq leaked'
      BY <1>0, <3>1
    <3>. QED
      BY <1>01, <2>1, <3>3, <3>5, <3>6, <3>7, LocksChange
  <2>3. CASE locks[d] # NoLock
    <3>1. /\ UNCHANGED <<locks, minted, leaked>>
          /\ granted' = granted \/ granted' = [granted EXCEPT ![s] = locks[d].token]
      BY <1>6, <2>1, <2>3 DEF Acquire
    <3>2. locks[d].token \in Tokens
      BY <1>0, <2>1 DEF LockGood, Lock
    <3>3. TokensGood'
      BY <1>0, <2>1, <2>4, <3>1, <3>2 DEF TokensGood, Tokens
    <3>4. \A x \in Boards : LockGood(x)'
      BY <1>0, <1>01, <2>1, <2>4, <3>1, LockStays
    <3>. QED
      BY <1>0, <2>1, <2>4, <3>1, <3>3, <3>4, LocksBecome
  <2>. QED
    BY <2>2, <2>3
<1>7. ASSUME NEW s \in Sockets, NEW i \in 1..Len(reqs[s]), Release(s, i) PROVE LocksInv'
  <2>1. UNCHANGED <<granted, minted, leaked, replacing>>
    BY <1>7 DEF Release, restVars
  <2>2. reqs[s][i].board \in Boards
    BY <1>4 DEF Request
  <2>. QED
    BY <1>1, <1>2, <1>3, <1>7, <2>1, <2>2 DEF Release
<1>8. ASSUME NEW s \in Sockets, NEW i \in 1..Len(reqs[s]), Patch(s, i) \/ Wipe(s, i) PROVE LocksInv'
  <2>1. UNCHANGED <<locks, granted, minted, leaked, replacing>>
    BY <1>8 DEF Patch, Wipe, restVars
  <2>2. TokensGood'
    BY <1>1, <2>1
  <2>3. CASE UNCHANGED drafts
    BY <1>2, <2>1, <2>2, <2>3 DEF lockVars
  <2>9. PICK d \in Boards : d = reqs[s][i].board
    BY <1>4 DEF Request
  <2>10. PICK n, m : n = reqs[s][i].n /\ m = reqs[s][i].m
    OBVIOUS
  <2>4. d = reqs[s][i].board /\ n = reqs[s][i].n /\ m = reqs[s][i].m
    BY <2>9, <2>10
  <2>5. Tokens' = Tokens /\ Lock' = Lock /\ Draft' = Draft /\ minted' \in Nat
    BY <1>0, <2>1 DEF Tokens, Lock, Draft
  <2>6. LockGood(d) /\ locks'[d] = locks[d]
    BY <1>0, <2>1, <2>4
  <2>7. ASSUME Wipe(s, i), ~UNCHANGED drafts PROVE LocksInv'
    <3>1. drafts' = [drafts EXCEPT ![d] = NoDraft]
      BY <2>4, <2>7 DEF Wipe
    <3>2. drafts'[d] = NoDraft /\ NoDraft \in Draft
      BY <1>0, <2>4, <3>1 DEF NoDraft, Draft
    <3>3. LockGood(d)'
      BY <1>01, <2>1, <2>5, <2>6, <3>2 DEF LockGood
    <3>4. locks' = [locks EXCEPT ![d] = locks'[d]] /\ drafts' = [drafts EXCEPT ![d] = drafts'[d]]
      BY <1>0, <2>1, <3>1, <3>2
    <3>5. minted <= minted' /\ leaked \subseteq leaked'
      BY <1>0, <2>1 DEF TokensGood
    <3>. QED
      BY <1>01, <2>2, <3>3, <3>4, <3>5, LocksChange
  <2>8. ASSUME Patch(s, i), ~UNCHANGED drafts PROVE LocksInv'
    <3>1. /\ locks[d] = [holder |-> s, token |-> n]
          /\ drafts' = [drafts EXCEPT ![d] = [holder |-> s, rev |-> m, from |-> drafts[d].from \cup {n}]]
      BY <2>4, <2>8 DEF Patch
    <3>2. m \in 0..2
      BY <1>4, <2>4, <2>8 DEF Patch, Admitted, Asked, Request
    <3>3. drafts'[d] = [holder |-> s, rev |-> m, from |-> drafts[d].from \cup {n}]
      BY <1>0, <2>4, <3>1
    <3>4. n \in Tokens /\ drafts[d].from \cup {n} = {n} /\ locks[d] # NoLock
      BY <2>6, <3>1, EventsAssumption DEF LockGood, Lock, NoLock, NoDraft
    <3>5. drafts'[d] \in Draft
      BY <3>2, <3>3, <3>4 DEF Draft
    <3>6. drafts'[d].from = {locks'[d].token} /\ drafts'[d].holder = locks'[d].holder
      BY <2>6, <3>1, <3>3, <3>4
    <3>7. LockGood(d)'
      BY <1>01, <2>1, <2>5, <2>6, <3>4, <3>5, <3>6 DEF LockGood
    <3>8. locks' = [locks EXCEPT ![d] = locks'[d]] /\ drafts' = [drafts EXCEPT ![d] = drafts'[d]]
      BY <1>0, <2>1, <3>1, <3>3
    <3>9. minted <= minted' /\ leaked \subseteq leaked'
      BY <1>0, <2>1 DEF TokensGood
    <3>. QED
      BY <1>01, <2>2, <3>7, <3>8, <3>9, LocksChange
  <2>. QED
    BY <1>8, <2>3, <2>7, <2>8
<1>9. ASSUME NEW s \in Sockets, NEW d \in Boards, ReplaceStart(s, d) PROVE LocksInv'
  <2>1. UNCHANGED <<lockVars, granted, minted, leaked>>
    BY <1>9 DEF ReplaceStart, clearVars
  <2>2. TokensGood'
    BY <1>0, <1>9, <2>1 DEF ReplaceStart, TokensGood, Tokens
  <2>. QED
    BY <1>2, <2>1, <2>2
<1>10. ASSUME NEW p \in replacing, ReplaceEnd(p) PROVE LocksInv'
  <2>1. UNCHANGED <<granted, minted, leaked>> /\ replacing' \subseteq replacing /\ p.board \in Boards
    BY <1>0, <1>10 DEF ReplaceEnd, TokensGood
  <2>. QED
    BY <1>1, <1>2, <1>3, <1>10, <2>1 DEF ReplaceEnd
<1>. QED
  BY <1>5, <1>6, <1>7, <1>8, <1>9, <1>10 DEF LockNext

\* The locks stay sound, whatever step is taken.
LEMMA LocksKeep == Inv /\ Next => LocksInv'
<1>. SUFFICES ASSUME Inv, Next PROVE LocksInv'
  OBVIOUS
<1>1. CASE LockNext
  BY <1>1, LockSteps
<1>2. CASE UNCHANGED <<board, lockVars, granted, minted, replacing, leaked>>
  BY <1>2 DEF Inv, LocksInv, Tokens, lockVars, LocksConnected, DraftIsOneLocks
<1>. QED
  BY <1>1, <1>2, Apart, LocksCleared


-----------------------------------------------------------------------------
(* Presenting, voting and the timer *)

\* Somebody is on the board.
Occupied(d) == \E s \in Sockets : board[s] = d

\* Who stays on a board keeps it occupied.
LEMMA StillOccupied ==
    ASSUME NEW d \in Boards, Occupied(d), d \notin Emptied
    PROVE  Occupied(d)'
BY RoomsAssumption DEF Occupied, Emptied, Out

\* A request is admitted on the board its sender is on.
LEMMA AdmittedThere ==
    ASSUME Inv, NEW s \in Sockets, NEW i, NEW op, Admitted(s, i, op)
    PROVE  /\ i \in 1..Len(reqs[s]) /\ reqs[s][i] \in Request /\ reqs[s][i].op = op
           /\ reqs[s][i].board \in Boards /\ board[s] = reqs[s][i].board
<1>1. i \in 1..Len(reqs[s]) /\ reqs[s][i].op = op /\ board[s] = reqs[s][i].board
  BY DEF Admitted, Asked, InRoom
<1>2. reqs[s][i] \in Request
  BY <1>1 DEF Inv, ReqsInv
<1>. QED
  BY <1>1, <1>2 DEF Request

\* A presentation stays with a presenter on the board.
LEMMA PresentKeeps == Inv /\ Next => PresentInv'
<1>. SUFFICES ASSUME Inv, Next PROVE PresentInv'
  OBVIOUS
<1>0. /\ presenter \in [Boards -> [by : Sockets \cup {None}, rev : Nat]]
      /\ \A d \in Boards : Presented(d)
      /\ Nobody \in [by : Sockets \cup {None}, rev : Nat]
  BY DEF Inv, PresentInv, Nobody
<1>1. CASE UNCHANGED <<board, presenter>>
  BY <1>0, <1>1 DEF PresentInv, Presented
<1>2. CASE Cleared
  <2>1. /\ presenter' \in [Boards -> [by : Sockets \cup {None}, rev : Nat]]
        /\ \A d \in Boards : presenter'[d] =
             IF d \in Emptied \/ (presenter[d].by \in Out /\ board[presenter[d].by] = d)
             THEN Nobody ELSE presenter[d]
    BY <1>0, <1>2 DEF Cleared, ClearTools
  <2>2. ASSUME NEW d \in Boards PROVE Presented(d)'
    <3>1. presenter'[d] # Nobody => presenter'[d] = presenter[d] /\ presenter[d].by \notin Out
      BY <1>0, <2>1 DEF Presented
    <3>. QED
      BY <1>0, <3>1, RoomsAssumption DEF Presented, Out
  <2>. QED
    BY <2>1, <2>2 DEF PresentInv
<1>3. ASSUME NEW d \in Boards, NEW x \in [by : Sockets \cup {None}, rev : Nat], board' = board,
             presenter' = [presenter EXCEPT ![d] = x],
             x # Nobody => x.by \in Sockets /\ board[x.by] = d
      PROVE  PresentInv'
  <2>1. ASSUME NEW e \in Boards PROVE Presented(e)'
    BY <1>0, <1>3 DEF Presented
  <2>. QED
    BY <1>0, <1>3, <2>1 DEF PresentInv
<1>4. CASE PresentNext
  <2>1. board' = board
    BY <1>4, PresentFrame DEF roomVars
  <2>2. ASSUME NEW s \in Sockets, NEW i \in 1..Len(reqs[s]), PresentStart(s, i), presenter' # presenter
        PROVE  PresentInv'
    <3>1. PICK d \in Boards : d = reqs[s][i].board /\ board[s] = d
      BY <2>2, AdmittedThere DEF PresentStart
    <3>2. presenter' = [presenter EXCEPT ![d] = [by |-> s, rev |-> presenter[d].rev + 1]]
      BY <2>2, <3>1 DEF PresentStart
    <3>3. [by |-> s, rev |-> presenter[d].rev + 1] \in [by : Sockets \cup {None}, rev : Nat]
      BY <1>0
    <3>. QED
      BY <1>3, <2>1, <3>1, <3>2, <3>3
  <2>3. ASSUME NEW s \in Sockets, NEW i \in 1..Len(reqs[s]), PresentStop(s, i), presenter' # presenter
        PROVE  PresentInv'
    <3>1. PICK d \in Boards : d = reqs[s][i].board
      BY <2>3, AdmittedThere DEF PresentStop
    <3>2. presenter' = [presenter EXCEPT ![d] = Nobody]
      BY <2>3, <3>1 DEF PresentStop
    <3>. QED
      BY <1>0, <1>3, <2>1, <3>2
  <2>4. ASSUME NEW s \in Sockets, NEW i \in 1..Len(reqs[s]), Advance(s, i), presenter' # presenter
        PROVE  PresentInv'
    <3>1. PICK d \in Boards : d = reqs[s][i].board /\ board[s] = d
      BY <2>4, AdmittedThere DEF Advance
    <3>2. presenter' = [presenter EXCEPT ![d].rev = presenter[d].rev + 1] /\ presenter[d].by = s
      BY <2>4, <3>1 DEF Advance
    <3>3. PICK x \in [by : Sockets \cup {None}, rev : Nat] :
              x = [presenter[d] EXCEPT !.rev = presenter[d].rev + 1]
      <4>1. PICK p \in [by : Sockets \cup {None}, rev : Nat] : p = presenter[d]
        BY <1>0
      <4>2. [p EXCEPT !.rev = p.rev + 1] \in [by : Sockets \cup {None}, rev : Nat]
        OBVIOUS
      <4>. QED
        BY <4>1, <4>2
    <3>4. x.by = s /\ presenter' = [presenter EXCEPT ![d] = x]
      BY <1>0, <3>2, <3>3
    <3>. QED
      BY <1>3, <2>1, <3>1, <3>4
  <2>5. CASE presenter' = presenter
    BY <1>1, <2>1, <2>5
  <2>. QED
    BY <1>4, <2>2, <2>3, <2>4, <2>5 DEF PresentNext
<1>. QED
  BY <1>1, <1>2, <1>4, Apart

\* A tally counts no more ballots than there are sockets.
LEMMA TallyTyped == ASSUME NEW v PROVE Tally(v) \in [Options -> 0..Cardinality(Sockets)]
<1>1. ASSUME NEW o \in Options
      PROVE  Cardinality({s \in Sockets : v.ballots[s].choice = o}) \in 0..Cardinality(Sockets)
  <2>. DEFINE T == {s \in Sockets : v.ballots[s].choice = o}
  <2>1. T \subseteq Sockets /\ IsFiniteSet(Sockets)
    BY RoomsAssumption
  <2>. HIDE DEF T
  <2>2. IsFiniteSet(T) /\ Cardinality(T) <= Cardinality(Sockets)
    BY <2>1, FS_Subset
  <2>3. Cardinality(T) \in Nat /\ Cardinality(Sockets) \in Nat
    BY <2>1, <2>2, FS_CardinalityType
  <2>4. Cardinality(T) \in 0..Cardinality(Sockets)
    BY <2>2, <2>3
  <2>. QED
    BY <2>4 DEF T
<1>. QED
  BY <1>1 DEF Tally

\* The vote of a board.
VoteGood(d) ==
    /\ vote[d] \in Round
    /\ \A s \in Sockets : vote[d].ballots[s].choice # 0 => vote[d].ballots[s].round = vote[d].round
    /\ vote[d].status = "revealed" => vote[d].tally = Tally(vote[d])
    /\ vote[d] # NoRound => Occupied(d)

\* No round is a round without ballots.
LEMMA NoRoundTyped ==
    ASSUME rounds \in Nat
    PROVE  /\ NoRound \in Round /\ NoRound.status = "idle"
           /\ \A s \in Sockets : NoRound.ballots[s].choice = 0
<1>1. Cardinality(Sockets) \in Nat
  BY RoomsAssumption, FS_CardinalityType
<1>2. [choice |-> 0, round |-> 0] \in Ballot
  BY DEF Ballot
<1>3. 0 \in 0..Cardinality(Sockets) /\ 0 \in 0..rounds
  BY <1>1
<1>. QED
  BY <1>2, <1>3 DEF NoRound, Round

\* Rounds and ballots stay sound.
LEMMA VoteKeeps == Inv /\ Next => VoteInv'
<1>. SUFFICES ASSUME Inv, Next PROVE VoteInv'
  OBVIOUS
<1>0. /\ rounds \in Nat /\ vote \in [Boards -> Round]
      /\ \A d \in Boards : VoteGood(d)
  BY DEF Inv, VoteInv, VoteGood, BallotsCounted, Occupied
<1>01. ASSUME rounds' \in Nat, vote' \in [Boards -> Round'], \A d \in Boards : VoteGood(d)'
       PROVE  VoteInv'
  BY <1>01 DEF VoteInv, VoteGood, BallotsCounted, Occupied
<1>1. CASE UNCHANGED <<board, vote, rounds>>
  BY <1>1 DEF Inv, VoteInv, BallotsCounted, Round, Ballot, Tally
<1>2. CASE Cleared /\ UNCHANGED rounds
  <2>1. /\ vote' = [d \in Boards |-> vote'[d]] /\ Round' = Round
        /\ \A d \in Boards : vote'[d] = IF d \in Emptied THEN NoRound ELSE vote[d]
    BY <1>2 DEF Cleared, ClearTools, Round, Ballot
  <2>2. ASSUME NEW d \in Boards PROVE VoteGood(d)'
    <3>1. CASE d \in Emptied
      BY <1>0, <1>2, <2>1, <3>1, NoRoundTyped DEF VoteGood
    <3>2. CASE d \notin Emptied
      <4>1. vote'[d] = vote[d] /\ VoteGood(d)
        BY <1>0, <2>1, <3>2
      <4>2. vote[d] # NoRound => Occupied(d)'
        BY <3>2, <4>1, StillOccupied DEF VoteGood
      <4>3. Tally(vote[d])' = Tally(vote[d])
        BY <4>1 DEF Tally
      <4>. QED
        BY <2>1, <4>1, <4>2, <4>3 DEF VoteGood
    <3>. QED
      BY <3>1, <3>2
  <2>. QED
    BY <1>0, <1>01, <1>2, <2>1, <2>2 DEF VoteGood
<1>3. ASSUME NEW d \in Boards, NEW s \in Sockets, board[s] = d, board' = board,
             rounds' \in Nat, rounds <= rounds', NEW x, x \in Round',
             vote' = [vote EXCEPT ![d] = x],
             \A c \in Sockets : x.ballots[c].choice # 0 => x.ballots[c].round = x.round,
             x.status = "revealed" => x.tally = Tally(x)
      PROVE  VoteInv'
  <2>1. Ballot \subseteq Ballot' /\ 0..rounds \subseteq 0..rounds'
    BY <1>0, <1>3 DEF Ballot
  <2>2. Round \subseteq Round'
    BY <2>1 DEF Round
  <2>3. vote' \in [Boards -> Round'] /\ \A e \in Boards : vote'[e] = IF e = d THEN x ELSE vote[e]
    BY <1>0, <1>3, <2>2
  <2>4. VoteGood(d)'
    BY <1>3, <2>3 DEF VoteGood, Occupied, Tally
  <2>5. ASSUME NEW e \in Boards, e # d PROVE VoteGood(e)'
    <3>1. vote'[e] = vote[e] /\ VoteGood(e) /\ vote'[e] \in Round'
      BY <1>0, <2>3, <2>5
    <3>. QED
      BY <1>3, <3>1 DEF VoteGood, Occupied, Tally
  <2>. QED
    BY <1>01, <1>3, <2>3, <2>4, <2>5
<1>4. CASE VoteNext
  <2>1. board' = board
    BY <1>4, VoteFrame DEF roomVars
  <2>2. CASE vote' = vote /\ rounds' = rounds
    BY <1>1, <2>1, <2>2
  <2>3. ASSUME NEW s \in Sockets, NEW i \in 1..Len(reqs[s]), VoteOpen(s, i) PROVE VoteInv'
    <3>1. PICK d \in Boards : d = reqs[s][i].board /\ board[s] = d
      BY <2>3, AdmittedThere DEF VoteOpen
    <3>2. PICK x : x = [NoRound EXCEPT !.round = rounds + 1, !.status = "open"]
      OBVIOUS
    <3>3. rounds' = rounds + 1 /\ vote' = [vote EXCEPT ![d] = x]
      BY <2>3, <3>1, <3>2 DEF VoteOpen
    <3>4. rounds' \in Nat /\ rounds <= rounds' /\ rounds + 1 \in 0..rounds'
      BY <1>0, <3>3
    <3>5. NoRound \in Round' /\ \A c \in Sockets : NoRound.ballots[c].choice = 0
      BY <1>0, <3>3, <3>4, NoRoundTyped DEF NoRound, Round, Ballot
    <3>6. x \in Round' /\ x.status = "open" /\ \A c \in Sockets : x.ballots[c].choice = 0
      BY <3>2, <3>4, <3>5 DEF Round
    <3>. QED
      BY <1>3, <2>1, <3>1, <3>3, <3>4, <3>6
  <2>4. ASSUME NEW s \in Sockets, NEW i \in 1..Len(reqs[s]), Cast(s, i), vote' # vote PROVE VoteInv'
    <3>1. PICK d \in Boards : d = reqs[s][i].board /\ board[s] = d
      BY <2>4, AdmittedThere DEF Cast
    <3>2. PICK m, n : m = reqs[s][i].m /\ n = reqs[s][i].n
      OBVIOUS
    <3>3. m \in Options
      BY <2>4, <3>2, AdmittedThere DEF Cast, Request
    <3>4. /\ vote[d].round = n /\ vote[d].status = "open" /\ rounds' = rounds
          /\ vote' = [vote EXCEPT ![d].ballots[s] = [choice |-> m, round |-> n]]
      BY <2>4, <3>1, <3>2 DEF Cast, restVars
    <3>5. vote[d] \in Round /\ VoteGood(d) /\ Round' = Round
      BY <1>0, <3>4 DEF Round, Ballot
    <3>6. PICK b \in [Sockets -> Ballot] : b = [vote[d].ballots EXCEPT ![s] = [choice |-> m, round |-> n]]
      BY <3>3, <3>4, <3>5 DEF Round, Ballot
    <3>7. PICK x \in Round : x = [vote[d] EXCEPT !.ballots = b]
      BY <3>5 DEF Round
    <3>8. vote' = [vote EXCEPT ![d] = x]
      BY <1>0, <3>4, <3>6, <3>7
    <3>9. x.round = n /\ x.status = "open" /\ x.ballots = b
      BY <3>4, <3>5, <3>7 DEF Round
    <3>10. \A c \in Sockets : x.ballots[c].choice # 0 => x.ballots[c].round = x.round
      BY <3>4, <3>5, <3>6, <3>9 DEF VoteGood, Round
    <3>11. x \in Round' /\ rounds' \in Nat /\ rounds <= rounds' /\ x.status # "revealed"
      BY <1>0, <3>4, <3>5, <3>9
    <3>. QED
      BY <1>3, <2>1, <3>1, <3>8, <3>10, <3>11
  <2>5. ASSUME NEW s \in Sockets, NEW i \in 1..Len(reqs[s]), Reveal(s, i), vote' # vote PROVE VoteInv'
    <3>1. PICK d \in Boards : d = reqs[s][i].board /\ board[s] = d
      BY <2>5, AdmittedThere DEF Reveal
    <3>2. PICK y \in [Options -> 0..Cardinality(Sockets)] : y = Tally(vote[d])
      BY TallyTyped
    <3>3. /\ rounds' = rounds
          /\ vote' = [vote EXCEPT ![d].status = "revealed", ![d].tally = y]
      BY <2>5, <3>1, <3>2 DEF Reveal, restVars
    <3>4. vote[d] \in Round /\ VoteGood(d) /\ Round' = Round
      BY <1>0, <3>3 DEF Round, Ballot
    <3>5. PICK x \in Round : x = [vote[d] EXCEPT !.status = "revealed", !.tally = y]
      BY <3>2, <3>4 DEF Round
    <3>6. vote' = [vote EXCEPT ![d] = x]
      BY <1>0, <3>3, <3>5
    <3>7. x.round = vote[d].round /\ x.ballots = vote[d].ballots /\ x.tally = y
      BY <3>4, <3>5 DEF Round
    <3>8. Tally(x) = y
      BY <3>2, <3>7 DEF Tally
    <3>9. x \in Round' /\ rounds' \in Nat /\ rounds <= rounds' /\ x.tally = Tally(x)
      BY <1>0, <3>3, <3>4, <3>5, <3>7, <3>8
    <3>10. \A c \in Sockets : x.ballots[c].choice # 0 => x.ballots[c].round = x.round
      BY <3>4, <3>7 DEF VoteGood
    <3>. QED
      BY <1>3, <2>1, <3>1, <3>6, <3>9, <3>10
  <2>6. ASSUME NEW s \in Sockets, NEW i \in 1..Len(reqs[s]), VoteClose(s, i) PROVE VoteInv'
    <3>1. PICK d \in Boards : d = reqs[s][i].board /\ board[s] = d
      BY <2>6, AdmittedThere DEF VoteClose
    <3>2. rounds' = rounds /\ vote' = [vote EXCEPT ![d] = NoRound] /\ Round' = Round
      BY <2>6, <3>1 DEF VoteClose, restVars, Round, Ballot
    <3>3. rounds' \in Nat /\ rounds <= rounds' /\ NoRound \in Round' /\ NoRound.status = "idle"
            /\ \A c \in Sockets : NoRound.ballots[c].choice = 0
      BY <1>0, <3>2, NoRoundTyped
    <3>. QED
      BY <1>3, <2>1, <3>1, <3>2, <3>3
  <2>7. \A s \in Sockets : \A i \in 1..Len(reqs[s]) : Cast(s, i) \/ Reveal(s, i) => rounds' = rounds
    BY DEF Cast, Reveal, restVars
  <2>. QED
    BY <1>4, <2>2, <2>3, <2>4, <2>5, <2>6, <2>7 DEF VoteNext
<1>. QED
  BY <1>1, <1>2, <1>4, Apart

\* The timer of a board and the timeouts it has.
TimerGood(d) ==
    /\ timer[d] \in Clock
    /\ timer[d] # Idle => Occupied(d)
    /\ timer[d].status = "running" => timer[d].ends <= now + MaxDuration
    /\ \A t \in timeouts : t.board = d => timer[d].status = "running" /\ t.ends = timer[d].ends
    /\ timer[d].status = "running" => [board |-> d, ends |-> timer[d].ends] \in timeouts

\* A timeout of setTimeout, with the deadline it was set for.
Timeout == [board : Boards, ends : Nat]

\* The invariant of the timers, board by board.
LEMMA TimersAre ==
    TimerInv <=> /\ now \in Nat /\ timer \in [Boards -> Clock] /\ timeouts \subseteq Timeout
                 /\ \A d \in Boards : TimerGood(d)
<1>1. ASSUME timeouts \subseteq Timeout, NEW t \in timeouts, NEW d, NEW e, t.board = d, t.ends = e
      PROVE  t = [board |-> d, ends |-> e]
  BY <1>1 DEF Timeout
<1>2. ASSUME timeouts \subseteq Timeout, NEW d \in Boards
      PROVE  ({t \in timeouts : t.board = d} =
                 IF timer[d].status = "running" THEN {[board |-> d, ends |-> timer[d].ends]} ELSE {})
             <=> /\ \A t \in timeouts : t.board = d => timer[d].status = "running" /\ t.ends = timer[d].ends
                 /\ timer[d].status = "running" => [board |-> d, ends |-> timer[d].ends] \in timeouts
  <2>1. CASE timer[d].status = "running"
    BY <1>1, <1>2, <2>1
  <2>2. CASE timer[d].status # "running"
    BY <2>2
  <2>. QED
    BY <2>1, <2>2
<1>. QED
  BY <1>2 DEF TimerInv, TimerGood, TimerCovered, Timeout, Occupied

\* The same after a step.
LEMMA TimersBecome ==
    ASSUME now' \in Nat, timer' \in [Boards -> Clock], timeouts' \subseteq Timeout,
           \A d \in Boards : TimerGood(d)'
    PROVE  TimerInv'
<1>1. ASSUME NEW t \in timeouts', NEW d, NEW e, t.board = d, t.ends = e
      PROVE  t = [board |-> d, ends |-> e]
  BY <1>1 DEF Timeout
<1>2. ASSUME NEW d \in Boards
      PROVE  {t \in timeouts' : t.board = d} =
                 IF timer'[d].status = "running" THEN {[board |-> d, ends |-> timer'[d].ends]} ELSE {}
  <2>1. CASE timer'[d].status = "running"
    <3>1. PICK x : x = [board |-> d, ends |-> timer'[d].ends]
      OBVIOUS
    <3>2. x \in timeouts' /\ x.board = d /\ \A t \in timeouts' : t.board = d => t.ends = timer'[d].ends
      BY <2>1, <3>1 DEF TimerGood
    <3>3. \A t \in timeouts' : t.board = d => t = x
      BY <1>1, <3>1, <3>2
    <3>. QED
      BY <2>1, <3>1, <3>2, <3>3
  <2>2. CASE timer'[d].status # "running"
    BY <2>2 DEF TimerGood
  <2>. QED
    BY <2>1, <2>2
<1>3. TimerCovered'
  BY <1>2 DEF TimerCovered
<1>. QED
  BY <1>3 DEF TimerInv, TimerGood, Timeout, Occupied, Clock

\* The timer of one board changes, with the timeouts of that board.
LEMMA TimerChange ==
    ASSUME TimerInv, NEW d \in Boards, Occupied(d), UNCHANGED <<board, now>>, NEW c \in Clock,
           timer' = [timer EXCEPT ![d] = c],
           c.status = "running" => c.ends <= now + MaxDuration,
           timeouts' \subseteq Timeout,
           \A t \in Timeout : t.board # d => (t \in timeouts' <=> t \in timeouts),
           \A t \in timeouts' : t.board = d => c.status = "running" /\ t.ends = c.ends,
           c.status = "running" => [board |-> d, ends |-> c.ends] \in timeouts'
    PROVE  TimerInv'
<1>0. /\ now \in Nat /\ timer \in [Boards -> Clock] /\ timeouts \subseteq Timeout
      /\ \A e \in Boards : TimerGood(e)
  BY TimersAre
<1>1. TimerGood(d)'
  BY <1>0 DEF TimerGood, Occupied
<1>2. ASSUME NEW e \in Boards, e # d PROVE TimerGood(e)'
  <2>1. timer'[e] = timer[e] /\ TimerGood(e) /\ now' = now
    BY <1>0, <1>2
  <2>2. timer[e].ends \in Nat
    BY <1>0 DEF Clock
  <2>3. \A t \in timeouts' : t.board = e => t \in timeouts
    BY <1>2
  <2>4. timer[e].status = "running" => [board |-> e, ends |-> timer[e].ends] \in timeouts'
    BY <1>2, <2>1, <2>2 DEF TimerGood, Timeout
  <2>. QED
    BY <2>1, <2>3, <2>4 DEF TimerGood, Occupied, Clock
<1>. QED
  BY <1>0, <1>1, <1>2, TimersBecome

\* What is left of the timeouts of d when its finish is unscheduled.
LEMMA UnscheduledAre ==
    ASSUME TimerInv, NEW d \in Boards
    PROVE  /\ Unscheduled(d) \subseteq timeouts
           /\ \A t \in Unscheduled(d) : t.board # d
           /\ \A t \in timeouts : t.board # d => t \in Unscheduled(d)
<1>0. timeouts \subseteq Timeout /\ TimerGood(d)
  BY TimersAre
<1>1. CASE timer[d].status = "running"
  <2>1. \A t \in timeouts : t.board = d => t = [board |-> d, ends |-> timer[d].ends]
    BY <1>0 DEF TimerGood, Timeout
  <2>. QED
    BY <1>1, <2>1 DEF Unscheduled
<1>2. CASE timer[d].status # "running"
  BY <1>0, <1>2 DEF Unscheduled, TimerGood
<1>. QED
  BY <1>1, <1>2

\* A timer set running gets its timeout.
LEMMA RunForKeeps ==
    ASSUME TimerInv, NEW d \in Boards, Occupied(d), UNCHANGED <<board, now>>,
           NEW n \in 0..MaxDuration, NEW dur \in 0..MaxDuration, RunFor(d, n, dur)
    PROVE  TimerInv'
<1>0. now \in Nat /\ timeouts \subseteq Timeout /\ MaxDuration \in Nat
  BY TimersAre, EventsAssumption
<1>1. PICK e \in Nat : e = now + n
  BY <1>0
<1>2. e <= now + MaxDuration
  BY <1>0, <1>1
<1>3. PICK c \in Clock : c = [status |-> "running", ends |-> e, rest |-> 0, dur |-> dur]
  <2>1. 0 \in 0..MaxDuration
    BY <1>0
  <2>2. [status |-> "running", ends |-> e, rest |-> 0, dur |-> dur] \in Clock
    BY <2>1 DEF Clock
  <2>. QED
    BY <2>2
<1>4. timer' = [timer EXCEPT ![d] = c] /\ timeouts' = Unscheduled(d) \cup {[board |-> d, ends |-> e]}
  BY <1>1, <1>3 DEF RunFor
<1>5. /\ timeouts' \subseteq Timeout
      /\ \A t \in Timeout : t.board # d => (t \in timeouts' <=> t \in timeouts)
      /\ \A t \in timeouts' : t.board = d => t.ends = e
      /\ [board |-> d, ends |-> e] \in timeouts'
  BY <1>0, <1>4, UnscheduledAre DEF Timeout
<1>6. c.status = "running" /\ c.ends = e
  BY <1>3
<1>7. /\ c.ends <= now + MaxDuration /\ [board |-> d, ends |-> c.ends] \in timeouts'
      /\ \A t \in timeouts' : t.board = d => c.status = "running" /\ t.ends = c.ends
  BY <1>2, <1>5, <1>6
<1>8. /\ timer' = [timer EXCEPT ![d] = c] /\ timeouts' \subseteq Timeout
      /\ \A t \in Timeout : t.board # d => (t \in timeouts' <=> t \in timeouts)
      /\ c.status = "running" => c.ends <= now + MaxDuration
      /\ c.status = "running" => [board |-> d, ends |-> c.ends] \in timeouts'
  BY <1>4, <1>5, <1>7
<1>. QED
  BY <1>3, <1>7, <1>8, TimerChange

\* A timer that stands needs none.
LEMMA StandKeeps ==
    ASSUME TimerInv, NEW d \in Boards, Occupied(d), UNCHANGED <<board, now>>,
           NEW n \in 0..MaxDuration, NEW dur \in 0..MaxDuration,
           NEW status \in {"idle", "paused", "finished"}, Stand(d, status, n, dur)
    PROVE  TimerInv'
<1>0. timeouts \subseteq Timeout
  BY TimersAre
<1>1. PICK c \in Clock : c = [status |-> status, ends |-> 0, rest |-> n, dur |-> dur]
  BY DEF Clock
<1>2. timer' = [timer EXCEPT ![d] = c] /\ timeouts' = Unscheduled(d) /\ c.status # "running"
  BY <1>1 DEF Stand
<1>3. /\ timeouts' \subseteq Timeout
      /\ \A t \in Timeout : t.board # d => (t \in timeouts' <=> t \in timeouts)
      /\ \A t \in timeouts' : t.board # d
  BY <1>0, <1>2, UnscheduledAre
<1>. QED
  BY <1>2, <1>3, TimerChange

\* Every command of the timer keeps it covered.
LEMMA CommandKeeps ==
    ASSUME Inv, NEW s \in Sockets, NEW i \in 1..Len(reqs[s]), Command(s, i)
    PROVE  TimerInv'
<1>1. PICK op \in TimerOps : Admitted(s, i, op)
  BY DEF Command
<1>2. PICK r \in Request, d \in Boards : r = reqs[s][i] /\ d = r.board /\ board[s] = d /\ r.op = op
  BY <1>1, AdmittedThere
<1>3. TimerInv /\ Occupied(d) /\ UNCHANGED <<board, now>>
  BY <1>2 DEF Inv, Occupied, Command, roomVars, restVars
<1>4. timer[d] \in Clock /\ TimerGood(d) /\ now \in Nat
  BY <1>3, TimersAre
<1>5. MaxDuration \in Nat /\ Durations \subseteq 1..MaxDuration
  BY EventsAssumption
<1>6. PICK c \in Clock : c = timer[d]
  BY <1>4
<1>7. /\ c.status \in {"idle", "running", "paused", "finished"} /\ c.ends \in Nat
      /\ c.rest \in 0..MaxDuration /\ c.dur \in 0..MaxDuration
  BY DEF Clock
<1>8. CASE UNCHANGED <<timer, timeouts>>
  BY <1>3, <1>8 DEF TimerInv, TimerCovered, Clock
<1>9. ASSUME NEW n \in Nat PROVE AtMost(n) \in 0..MaxDuration
  BY <1>5 DEF AtMost
<1>10. PICK n, dur : n = Remaining(d) /\ dur = c.dur
  OBVIOUS
<1>11. c.status = "running" => n \in 0..MaxDuration
  BY <1>4, <1>5, <1>6, <1>7, <1>10 DEF Remaining, TimerGood
<1>12. CASE r.op = "timer-start"
  <2>1. r.n \in 0..MaxDuration /\ RunFor(d, r.n, r.n)
    BY <1>2, <1>5, <1>12 DEF Request, Command
  <2>. QED
    BY <1>3, <2>1, RunForKeeps
<1>13. CASE r.op = "timer-restart"
  <2>1. UNCHANGED <<timer, timeouts>> \/ RunFor(d, c.dur, c.dur)
    BY <1>2, <1>6, <1>13 DEF Command
  <2>. QED
    BY <1>3, <1>7, <1>8, <2>1, RunForKeeps
<1>14. CASE r.op = "timer-pause"
  <2>1. PICK x \in {"paused", "finished"} : x = IF n > 0 THEN "paused" ELSE "finished"
    OBVIOUS
  <2>2. UNCHANGED <<timer, timeouts>> \/ (c.status = "running" /\ Stand(d, x, n, dur))
    BY <1>2, <1>6, <1>10, <1>14, <2>1 DEF Command
  <2>. QED
    BY <1>3, <1>7, <1>8, <1>10, <1>11, <2>2, StandKeeps
<1>15. CASE r.op = "timer-resume"
  <2>1. UNCHANGED <<timer, timeouts>> \/ RunFor(d, c.rest, c.dur)
    BY <1>2, <1>6, <1>15 DEF Command
  <2>. QED
    BY <1>3, <1>7, <1>8, <2>1, RunForKeeps
<1>16. CASE r.op = "timer-stop"
  <2>1. Stand(d, "idle", 0, 0) /\ 0 \in 0..MaxDuration
    BY <1>2, <1>5, <1>16 DEF Command
  <2>. QED
    BY <1>3, <2>1, StandKeeps
<1>17. CASE r.op = "timer-add"
  <2>1. PICK x, y, z : x = AtMost(n + 1) /\ y = AtMost(c.rest + 1) /\ z = AtMost(dur + 1)
    OBVIOUS
  <2>2. /\ c.status = "running" => x \in 0..MaxDuration
        /\ y \in 0..MaxDuration /\ z \in 0..MaxDuration
    <3>1. (c.status = "running" => n + 1 \in Nat) /\ c.rest + 1 \in Nat /\ dur + 1 \in Nat
      BY <1>5, <1>7, <1>10, <1>11
    <3>. QED
      BY <1>9, <2>1, <3>1
  <2>3. CASE c.status = "running"
    <3>1. RunFor(d, x, z)
      BY <1>2, <1>6, <1>10, <1>17, <2>1, <2>3 DEF Command
    <3>. QED
      BY <1>3, <2>2, <2>3, <3>1, RunForKeeps
  <2>4. CASE c.status = "paused"
    <3>1. Stand(d, "paused", y, z)
      BY <1>2, <1>6, <1>10, <1>17, <2>1, <2>4 DEF Command
    <3>. QED
      BY <1>3, <2>2, <3>1, StandKeeps
  <2>5. CASE c.status \notin {"running", "paused"}
    <3>1. UNCHANGED <<timer, timeouts>>
      BY <1>2, <1>6, <1>17, <2>5 DEF Command
    <3>. QED
      BY <1>8, <3>1
  <2>. QED
    BY <2>3, <2>4, <2>5
<1>. QED
  BY <1>2, <1>12, <1>13, <1>14, <1>15, <1>16, <1>17 DEF TimerOps

\* The timers stay covered, whatever step is taken.
LEMMA TimerKeeps == Inv /\ Next => TimerInv'
<1>. SUFFICES ASSUME Inv, Next PROVE TimerInv'
  OBVIOUS
<1>0. /\ TimerInv /\ now \in Nat /\ timer \in [Boards -> Clock] /\ timeouts \subseteq Timeout
      /\ \A d \in Boards : TimerGood(d)
  BY TimersAre DEF Inv
<1>1. CASE UNCHANGED <<board, timer, timeouts, now>>
  BY <1>1 DEF Inv, TimerInv, TimerCovered, Clock
<1>2. CASE Cleared /\ UNCHANGED now
  <2>1. /\ timer' = [d \in Boards |-> IF d \in Emptied THEN Idle ELSE timer[d]]
        /\ timeouts' = {t \in timeouts : t.board \notin Emptied}
    BY <1>2 DEF Cleared, ClearTools
  <2>2. Idle \in Clock /\ Idle.status # "running"
    BY EventsAssumption DEF Idle, Clock
  <2>3. timer' \in [Boards -> Clock] /\ timeouts' \subseteq Timeout
    BY <1>0, <2>1, <2>2
  <2>4. ASSUME NEW d \in Boards PROVE TimerGood(d)'
    <3>1. CASE d \in Emptied
      <4>1. timer'[d] = Idle /\ \A t \in timeouts' : t.board # d
        BY <2>1, <3>1
      <4>. QED
        BY <2>2, <2>3, <4>1 DEF TimerGood, Clock
    <3>2. CASE d \notin Emptied
      <4>1. timer'[d] = timer[d] /\ TimerGood(d) /\ now' = now
        BY <1>0, <1>2, <2>1, <3>2
      <4>2. timer[d] # Idle => Occupied(d)'
        BY <3>2, <4>1, StillOccupied DEF TimerGood
      <4>3. \A t : t.board = d => (t \in timeouts' <=> t \in timeouts)
        BY <2>1, <3>2
      <4>4. timer[d].status = "running" => [board |-> d, ends |-> timer[d].ends] \in timeouts'
        BY <4>1, <4>3 DEF TimerGood
      <4>. QED
        BY <2>3, <4>1, <4>2, <4>3, <4>4 DEF TimerGood, Clock
    <3>. QED
      BY <3>1, <3>2
  <2>. QED
    BY <1>0, <1>2, <2>3, <2>4, TimersBecome
<1>3. ASSUME NEW t \in timeouts, Fire(t) PROVE TimerInv'
  <2>1. PICK d \in Boards : d = t.board
    BY <1>0 DEF Timeout
  <2>2. TimerGood(d) /\ timer[d] \in Clock /\ t \in Timeout
    BY <1>0
  <2>3. timer[d].status = "running" /\ t.ends = timer[d].ends /\ t = [board |-> d, ends |-> timer[d].ends]
    BY <2>1, <2>2 DEF TimerGood, Timeout
  <2>4. PICK c \in Clock : c = [status |-> "finished", ends |-> 0, rest |-> 0, dur |-> timer[d].dur]
    <3>1. timer[d].dur \in 0..MaxDuration /\ 0 \in 0..MaxDuration
      BY <2>2, EventsAssumption DEF Clock
    <3>2. [status |-> "finished", ends |-> 0, rest |-> 0, dur |-> timer[d].dur] \in Clock
      BY <3>1 DEF Clock
    <3>. QED
      BY <3>2
  <2>5. timer' = [timer EXCEPT ![d] = c] /\ timeouts' = timeouts \ {t} /\ UNCHANGED <<board, now>>
    BY <1>3, <2>1, <2>3, <2>4 DEF Fire, roomVars, restVars
  <2>6. Occupied(d) /\ c.status = "finished"
    BY <2>2, <2>3, <2>4 DEF TimerGood, Idle
  <2>7. /\ timeouts' \subseteq Timeout
        /\ \A x \in Timeout : x.board # d => (x \in timeouts' <=> x \in timeouts)
        /\ \A x \in timeouts' : x.board # d
    BY <1>0, <2>1, <2>2, <2>3, <2>5 DEF TimerGood, Timeout
  <2>. QED
    BY <1>0, <2>5, <2>6, <2>7, TimerChange
<1>4. CASE Tick
  <2>1. now' = now + 1 /\ UNCHANGED <<board, timer, timeouts>>
    BY <1>4 DEF Tick, roomVars, clearVars, toolVars
  <2>2. now' \in Nat /\ now <= now' /\ MaxDuration \in Nat
    BY <1>0, <2>1, EventsAssumption
  <2>3. ASSUME NEW d \in Boards PROVE TimerGood(d)'
    <3>1. timer[d].ends \in Nat /\ TimerGood(d)
      BY <1>0 DEF Clock
    <3>2. timer[d].status = "running" => timer[d].ends <= now' + MaxDuration
      BY <1>0, <2>2, <3>1 DEF TimerGood
    <3>. QED
      BY <1>0, <2>1, <3>1, <3>2 DEF TimerGood, Occupied, Clock
  <2>. QED
    BY <1>0, <2>1, <2>2, <2>3, TimersBecome
<1>. QED
  BY <1>1, <1>2, <1>3, <1>4, Apart, CommandKeeps DEF TimerNext


-----------------------------------------------------------------------------
(* The invariant *)

\* Every scene starts in the invariant.
LEMMA InvStarts == Init => Inv
<1>. SUFFICES ASSUME Init PROVE Inv
  OBVIOUS
<1>1. RoomsInv
  BY RoomsStart DEF Init
<1>2. /\ reqs = [s \in Sockets |-> <<>>] /\ following = [s \in Sockets |-> None]
      /\ followers = [s \in Sockets |-> {}] /\ cancel = [s \in Sockets |-> 0]
      /\ fan = [s \in Sockets |-> NoFan]
      /\ locks = [d \in Boards |-> NoLock] /\ drafts = [d \in Boards |-> NoDraft]
      /\ granted = [s \in Sockets |-> 0] /\ minted = 0 /\ replacing = {} /\ leaked = {}
      /\ presenter = [d \in Boards |-> Nobody]
      /\ vote = [d \in Boards |-> NoRound] /\ rounds = 0
      /\ timer = [d \in Boards |-> Idle] /\ timeouts = {} /\ now = 0
  BY DEF Init
<1>3. ReqsInv
  <2>1. \A s \in Sockets : reqs[s] = <<>> /\ Len(reqs[s]) = 0
    BY <1>2
  <2>2. reqs \in [Sockets -> Seq(Request)]
    BY <1>2
  <2>. QED
    BY <2>1, <2>2 DEF ReqsInv, TargetsHeld
<1>4. FollowInv
  <2>1. None \notin Sockets
    BY EventsAssumption
  <2>2. FollowEdges
    BY <1>2, <2>1 DEF FollowEdges
  <2>. QED
    BY <1>2, <2>2 DEF FollowInv, NoFan, Fan
<1>5. LocksInv
  <2>1. minted \in Nat /\ Tokens = {0}
    BY <1>2 DEF Tokens
  <2>2. TokensGood
    BY <1>2, <2>1 DEF TokensGood
  <2>3. \A d \in Boards : LockGood(d)
    BY <1>2, <2>1 DEF LockGood, Lock, Draft, NoLock, NoDraft
  <2>. QED
    BY <1>2, <2>2, <2>3, LocksAre
<1>6. PresentInv
  BY <1>2 DEF PresentInv, Presented, Nobody
<1>7. VoteInv
  <2>1. rounds \in Nat
    BY <1>2
  <2>2. NoRound \in Round /\ NoRound.status = "idle" /\ \A s \in Sockets : NoRound.ballots[s].choice = 0
    BY <2>1, NoRoundTyped
  <2>. QED
    BY <1>2, <2>1, <2>2 DEF VoteInv, BallotsCounted
<1>8. TimerInv
  <2>1. Idle \in Clock /\ Idle.status = "idle"
    BY EventsAssumption DEF Idle, Clock
  <2>2. \A d \in Boards : TimerGood(d)
    BY <1>2, <2>1 DEF TimerGood
  <2>. QED
    BY <1>2, <2>1, <2>2, TimersAre
<1>. QED
  BY <1>1, <1>3, <1>4, <1>5, <1>6, <1>7, <1>8 DEF Inv

\* Every step keeps the invariant.
LEMMA InvKept == Inv /\ [Next]_vars => Inv'
<1>. SUFFICES ASSUME Inv, [Next]_vars PROVE Inv'
  OBVIOUS
<1>1. CASE Next
  <2>1. RoomsInv'
    BY <1>1, RoomsKept, Surroundings DEF Inv
  <2>. QED
    BY <1>1, <2>1, ReqsKept, FollowKeeps, LocksKeep, PresentKeeps, VoteKeeps, TimerKeeps DEF Inv
<1>2. CASE UNCHANGED vars
  <2>. USE <1>2 DEF vars, roomVars, accessVars, clearVars, followVars, lockVars, toolVars, restVars
  <2>1. RoomsInv'
    <3>1. Aside
      BY TypedIs DEF Aside, Inv, RoomsInv
    <3>. QED
      BY <3>1, RoomsKept DEF Inv
  <2>2. ReqsInv'
    BY DEF Inv, ReqsInv, TargetsHeld, Held, Access, Request
  <2>3. FollowInv' /\ PresentInv'
    BY DEF Inv, FollowInv, FollowEdges, Fan, PresentInv, Presented
  <2>4. LocksInv'
    BY DEF Inv, LocksInv, Tokens, LocksConnected, DraftIsOneLocks
  <2>5. VoteInv'
    BY DEF Inv, VoteInv, BallotsCounted, Round, Ballot, Tally
  <2>6. TimerInv'
    BY DEF Inv, TimerInv, TimerCovered, Clock
  <2>. QED
    BY <2>1, <2>2, <2>3, <2>4, <2>5, <2>6 DEF Inv
<1>. QED
  BY <1>1, <1>2

\* The invariant holds throughout.
LEMMA InvHolds == Spec => []Inv
BY InvStarts, InvKept, PTL DEF Spec

\* The invariant gives the types.
LEMMA Typed == Inv => TypeOK
<1>. SUFFICES ASSUME Inv PROVE TypeOK
  OBVIOUS
<1>1. RoomsTypeOK
  BY DEF Inv, RoomsInv, RoomsTyped
<1>2. ASSUME NEW s \in Sockets, NEW i \in 1..Len(reqs[s])
      PROVE  /\ reqs[s][i].pc \in {"queued", "asked", "target", "widget"}
             /\ reqs[s][i].board \in Boards
             /\ reqs[s][i].to \in Sockets \cup {None}
             /\ reqs[s][i].n \in Nat /\ reqs[s][i].m \in Nat /\ reqs[s][i].via \in BOOLEAN
  <2>1. reqs[s][i] \in Request
    BY DEF Inv, ReqsInv
  <2>. QED
    BY <2>1 DEF Request
<1>3. /\ vote \in [Boards -> [round : 0..rounds, status : {"idle", "open", "revealed"},
                              ballots : [Sockets -> [choice : Options \cup {0}, round : 0..rounds]],
                              tally : [Options -> 0..Cardinality(Sockets)]]]
      /\ timer \in [Boards -> [status : {"idle", "running", "paused", "finished"}, ends : Nat,
                               rest : 0..MaxDuration, dur : 0..MaxDuration]]
  BY DEF Inv, VoteInv, Round, Ballot, TimerInv, Clock
<1>4. /\ following \in [Sockets -> Sockets \cup {None}] /\ followers \in [Sockets -> SUBSET Sockets]
      /\ fan \in [Sockets -> [board : Boards \cup {None}, rest : SUBSET Sockets,
                              at : Sockets \cup {None}]]
      /\ presenter \in [Boards -> [by : Sockets \cup {None}, rev : Nat]]
  BY DEF Inv, FollowInv, Fan, PresentInv
<1>5. /\ locks \in [Boards -> [holder : Sockets \cup {None}, token : Tokens]]
      /\ drafts \in [Boards -> [holder : Sockets \cup {None}, rev : 0..2, from : SUBSET Tokens]]
      /\ granted \in [Sockets -> Tokens]
      /\ replacing \subseteq [board : Boards, token : Tokens] /\ leaked \subseteq Tokens
  BY DEF Inv, LocksInv
<1>. QED
  BY <1>1, <1>2, <1>3, <1>4, <1>5 DEF TypeOK

\* Rosters and presentations end with the stay of their socket, and so do the locks it
\* took while it was on the board (not those granted by socketDocumentEditLocks.ts:125
\* after it had left); a round with its ballots and a timer end with the last stay on
\* their board, a timeout with its timer's run; the sockets of a revoked key stay out
\* (socket.ts:261-276, 326-340, 387-397, socketWorkshopTimer.ts:127-142).
THEOREM StayEnds == Spec => []NothingOutlivesStay
<1>1. Inv => NothingOutlivesStay
  <2>. SUFFICES ASSUME Inv PROVE NothingOutlivesStay
    OBVIOUS
  <2>1. NoGhosts /\ RevokedKeyOut /\ LocksConnected /\ TimerCovered
    BY DEF Inv, RoomsInv, LocksInv, TimerInv
  <2>2. ToolsInRooms
    BY DEF Inv, PresentInv, Presented, VoteInv, TimerInv, ToolsInRooms
  <2>. QED
    BY <2>1, <2>2, Typed DEF NothingOutlivesStay
<1>. QED
  BY <1>1, InvHolds, PTL

\* A ballot counts in the round it was cast for, and a revealed tally is the count of
\* the ballots: none is added afterwards (votingRegistry.ts:159-192).
THEOREM BallotsSound == Spec => []BallotsCounted
<1>1. Inv => BallotsCounted
  BY DEF Inv, VoteInv
<1>. QED
  BY <1>1, InvHolds, PTL


-----------------------------------------------------------------------------
(* What a step may not do *)

\* A socket comes on a board only by the newest and only job of its queue.
LEMMA Entering ==
    ASSUME Inv, Next, NEW s \in Sockets, board'[s] \notin {None, board[s]}
    PROVE  Len(queue[s]) = 1 /\ Head(queue[s]).rev = rev[s]
<1>1. Comes(s)
  <2>1. RoomsNext \/ Aside
    BY Surroundings DEF Inv
  <2>. QED
    BY <2>1, Seated, AsideSeats DEF Inv, Sits, Goes
<1>2. queue[s] \in Seq(Job) /\ Queued /\ rev[s] \in Nat /\ queue[s] # <<>>
  BY <1>1, TypedIs DEF Inv, RoomsInv, Places, Comes
<1>3. Head(queue[s]) = queue[s][1] /\ Len(queue[s]) \in Nat /\ Len(queue[s]) >= 1
  BY <1>2
<1>4. ASSUME Len(queue[s]) >= 2 PROVE FALSE
  <2>1. 1 \in 1..Len(queue[s]) /\ 2 \in 1..Len(queue[s])
    BY <1>3, <1>4
  <2>2. queue[s][1].rev < queue[s][2].rev /\ queue[s][2].rev <= rev[s]
    BY <2>1, <1>2 DEF Queued, JobGood
  <2>3. queue[s][1] \in Job /\ queue[s][2] \in Job
    BY <1>2, <2>1
  <2>. QED
    BY <1>1, <1>2, <1>3, <2>2, <2>3 DEF Comes, Job
<1>5. Len(queue[s]) = 1
  <2>1. PICK n \in Nat : n = Len(queue[s])
    BY <1>3
  <2>2. n >= 1 /\ ~(n >= 2)
    BY <1>3, <1>4, <2>1
  <2>3. n = 1
    BY <2>2
  <2>. QED
    BY <2>1, <2>3
<1>6. Head(queue[s]).rev = rev[s]
  BY <1>1 DEF Comes
<1>. QED
  BY <1>5, <1>6

\* A membership made by a join is no worse than what was there and within the link it
\* came by.
LEMMA Granting ==
    ASSUME Inv, Next, NEW s \in Sockets, NEW d \in Boards,
           At(s, "grant"), queue'[s] # queue[s], standing'[s][d] # standing[s][d]
    PROVE  /\ standing'[s][d] >= standing[s][d]
           /\ standing'[s][d] <= link[d] \/ d \in hit
<1>1. RoomsNext \/ Aside
  BY Surroundings DEF Inv
<1>2. Places /\ queue \in [Sockets -> Seq(Job)]
  BY TypedIs DEF Inv, RoomsInv
<1>3. JoinGrant(s)
  <2>1. PICK x \in Sockets : \/ JoinStep(x) \/ JoinFails(x)
                             \/ \E b \in Boards, withToken \in BOOLEAN : JoinRequest(x, b, withToken)
    BY <1>1, QueueMoves
  <2>2. JoinGrant(x)
    BY <2>1 DEF JoinStep, JoinRead, JoinDecide, JoinMember, JoinName, JoinFails, JoinRequest, accessVars
  <2>3. x = s
    BY <1>2, <2>2 DEF JoinGrant, Finish, Proceed
  <2>. QED
    BY <2>2, <2>3
<1>4. PICK j \in Job : j = Head(queue[s]) /\ JobGood(s, j) /\ j.pc = "grant"
  BY Running DEF Inv, At
<1>5. standing' = [standing EXCEPT ![s][j.board] = IF @ = NoAccess THEN j.seen ELSE @]
  BY <1>3, <1>4 DEF JoinGrant
<1>6. j.board \in Boards /\ j.seen \in Levels
  BY DEF Job
<1>7. d = j.board /\ standing[s][d] = NoAccess /\ standing'[s][d] = j.seen
  BY <1>2, <1>5, <1>6 DEF Places
<1>. QED
  BY <1>4, <1>6, <1>7 DEF JobGood, Levels, NoAccess, Owner

\* What takes a socket off its board.
LEMMA Evicting ==
    ASSUME Inv, Next, NEW s \in Sockets, board'[s] # board[s], board'[s] = None
    PROVE  \/ board[s] \in hit \/ rev'[s] # rev[s] \/ queue'[s] # queue[s]
           \/ \E f \in Sockets : \E i \in 1..Len(reqs[f]) :
                  /\ reqs[f][i].pc = "target" /\ reqs[f][i].to = s
                  /\ reqs[f][i].board # board[s]
<1>0. LetOn /\ Places /\ None \notin Boards
  BY TypedIs, RoomsAssumption DEF Inv, RoomsInv
<1>1. CASE RoomsNext
  <2>1. Head(queue[s]).board \in Boards \/ ~Comes(s)
    BY Running DEF Inv, Comes, Job
  <2>. QED
    BY <1>0, <1>1, <2>1, Seated DEF Inv, Sits, Comes, Goes
<1>2. ASSUME NEW x \in Sockets, TakeOff({x}) PROVE s = x /\ board[s] # None
  <2>1. board'[s] = IF s = x THEN None ELSE board[s]
    BY <1>2, TakeOffTyped DEF Inv
  <2>. QED
    BY <2>1
<1>3. ASSUME NEW x \in Sockets, NEW i \in 1..Len(reqs[x]), Refuse(x, i) PROVE board[s] \in hit
  <2>1. TakeOff({x}) /\ board[x] = reqs[x][i].board /\ Access(x, board[x], token[x]) = NoAccess
    BY <1>3 DEF Refuse, InRoom
  <2>. QED
    BY <1>0, <1>2, <2>1 DEF LetOn, Held
<1>4. ASSUME NEW x \in Sockets, NEW i \in 1..Len(reqs[x]), FollowEvicts(x, i)
      PROVE  board[s] \in hit \/ (reqs[x][i].pc = "target" /\ reqs[x][i].to = s /\ reqs[x][i].board # board[s])
  <2>1. reqs[x][i].pc = "target" /\ Held(reqs[x][i].to, reqs[x][i].board, reqs[x][i].via)
    BY <1>4 DEF FollowEvicts, Targeted, Inv, ReqsInv, TargetsHeld
  <2>2. reqs[x][i].to \in Sockets
    <3>1. reqs[x][i] \in Request
      BY DEF Inv, ReqsInv
    <3>. QED
      BY <2>1, <3>1 DEF Request
  <2>3. TakeOff({reqs[x][i].to}) /\ Access(reqs[x][i].to, reqs[x][i].board, reqs[x][i].via) = NoAccess
    BY <1>4 DEF FollowEvicts
  <2>4. reqs[x][i].to = s
    BY <1>2, <2>2, <2>3
  <2>. QED
    BY <2>1, <2>3, <2>4 DEF Held
<1>5. ASSUME NEW x \in Sockets, FanEvicts(x) PROVE board[s] \in hit
  <2>1. PICK f \in Sockets : f = fan[x].at
    BY <1>5 DEF FanEvicts, Inv, FollowInv, Fan
  <2>2. TakeOff({f}) /\ board[f] = fan[x].board /\ Access(f, board[f], token[f]) = NoAccess
    BY <1>5, <2>1 DEF FanEvicts, Follows, InRoom
  <2>. QED
    BY <1>0, <1>2, <2>1, <2>2 DEF LetOn, Held
<1>. USE DEF roomVars
<1>6. ASSUME NEW x \in Sockets, ClientSends(x) PROVE FALSE
  BY <1>6, SendFrame
<1>7. ASSUME NEW x \in Sockets, NEW i, Begin(x, i) PROVE FALSE
  BY <1>7 DEF Begin
<1>8. ASSUME NEW x \in Sockets, NEW i,
             FollowTarget(x, i) \/ FollowSet(x, i) \/ Unfollow(x, i) \/ FanStart(x, i)
      PROVE  FALSE
  BY <1>8 DEF FollowTarget, FollowSet, Unfollow, FanStart
<1>9. ASSUME NEW x \in Sockets, NEW f, FanNext(x, f) \/ FanSend(x) PROVE FALSE
  BY <1>9 DEF FanNext, FanSend
<1>10. ASSUME LockNext \/ PresentNext \/ VoteNext \/ TimerNext PROVE FALSE
  BY <1>10, LockFrame, PresentFrame, VoteFrame, TimerFrame
<1>. QED
  BY <1>1, <1>3, <1>4, <1>5, <1>6, <1>7, <1>8, <1>9, <1>10 DEF Next, RoomStep, Within, FollowNext

\* A socket comes on a board only by its newest join, is made a member only within the
\* link it came by, and is taken off only for a cause about that very board
\* (socket.ts:594-654, 326-340).
THEOREM StaysProved == Spec => StaysLawful
<1>1. Inv /\ [Next]_vars =>
        [\A s \in Sockets :
           board'[s] \notin {None, board[s]}
               => Len(queue[s]) = 1 /\ Head(queue[s]).rev = rev[s]]_<<board, roomVars>>
  BY Entering DEF vars, roomVars
<1>2. Inv /\ [Next]_vars =>
        [\A s \in Sockets, d \in Boards :
           At(s, "grant") /\ queue'[s] # queue[s] /\ standing'[s][d] # standing[s][d]
               => /\ standing'[s][d] >= standing[s][d]
                  /\ standing'[s][d] <= link[d] \/ d \in hit]_<<standing, roomVars>>
  BY Granting DEF vars, roomVars, accessVars
<1>3. Inv /\ [Next]_vars =>
        [\A s \in Sockets :
           \/ board'[s] = board[s] \/ board'[s] # None \/ board[s] \in hit
           \/ rev'[s] # rev[s]
           \/ queue'[s] # queue[s]
           \/ \E f \in Sockets : \E i \in 1..Len(reqs[f]) :
                  /\ reqs[f][i].pc = "target" /\ reqs[f][i].to = s
                  /\ reqs[f][i].board # board[s]]_vars
  BY Evicting
<1>4. Spec => EntersNewest
  BY <1>1, InvHolds, PTL DEF Spec, EntersNewest
<1>5. Spec => GrantsWithinLink
  BY <1>2, InvHolds, PTL DEF Spec, GrantsWithinLink
<1>6. Spec => EvictedForCause
  BY <1>3, InvHolds, PTL DEF Spec, EvictedForCause
<1>. QED
  BY <1>4, <1>5, <1>6 DEF StaysLawful

\* What ends an edge, and what makes one.
LEMMA EdgeEnds ==
    ASSUME Inv, Next, NEW f \in Sockets, following[f] # None, following'[f] # following[f]
    PROVE  \/ f \in Out \/ following[f] \in Out
           \/ cancel'[f] # cancel[f]
           \/ \E i \in 1..Len(reqs[f]) : Targeted(f, i) /\ reqs[f][i].to = following'[f]
           \/ \E a \in Sockets : f \in fan[a].rest /\ (a # following[f] \/ fan[a].board # board[f])
<1>0. /\ following \in [Sockets -> Sockets \cup {None}] /\ FollowEdges /\ NoGhosts
      /\ None \notin Boards
  BY RoomsAssumption DEF Inv, FollowInv, RoomsInv
<1>1. CASE Cleared
  BY <1>0, <1>1 DEF Cleared, ClearFollows
<1>2. CASE UNCHANGED <<board, followVars>>
  BY <1>2 DEF followVars
<1>3. ASSUME NEW g \in Sockets, EdgeStep(g), g # f PROVE FALSE
  BY <1>0, <1>3 DEF EdgeStep, ClearFollower
<1>4. ASSUME EdgeStep(f), cancel'[f] = cancel[f],
             ~\E i \in 1..Len(reqs[f]) : Targeted(f, i) /\ reqs[f][i].to = following'[f]
      PROVE  \E a \in Sockets : f \in fan[a].rest /\ (a # following[f] \/ fan[a].board # board[f])
  <2>1. ClearFollower(f)
    <3>1. ASSUME NEW i \in 1..Len(reqs[f]), Targeted(f, i), following' = [following EXCEPT ![f] = reqs[f][i].to]
          PROVE  FALSE
      BY <1>0, <1>4, <3>1
    <3>. QED
      BY <1>4, <3>1 DEF EdgeStep
  <2>2. PICK a \in Sockets : f \in fan[a].rest /\ ~Follows(f, a)
    <3>1. ASSUME NEW i \in 1..Len(reqs[f]), Targeted(f, i), following' = [following EXCEPT ![f] = reqs[f][i].to]
          PROVE  FALSE
      BY <1>0, <1>4, <3>1
    <3>. QED
      BY <1>4, <3>1 DEF EdgeStep
  <2>3. board[f] # None /\ conn[f] = "open"
    BY <1>0 DEF FollowEdges, NoGhosts
  <2>. QED
    BY <2>2, <2>3 DEF Follows, InRoom
<1>. QED
  BY <1>1, <1>2, <1>3, <1>4, Apart, EdgesMove DEF followVars

\* A socket follows somebody new only by a request it has not cancelled since.
LEMMA EdgeBegins ==
    ASSUME Inv, Next, NEW f \in Sockets, following'[f] \notin {None, following[f]}
    PROVE  \E i \in 1..Len(reqs[f]) : Targeted(f, i) /\ reqs[f][i].n = cancel[f]
<1>0. following \in [Sockets -> Sockets \cup {None}]
  BY DEF Inv, FollowInv
<1>1. CASE Cleared
  BY <1>0, <1>1 DEF Cleared, ClearFollows
<1>2. CASE UNCHANGED followVars
  BY <1>2 DEF followVars
<1>3. ASSUME NEW g \in Sockets, EdgeStep(g), g # f PROVE FALSE
  BY <1>0, <1>3 DEF EdgeStep, ClearFollower
<1>4. ~ClearFollower(f)
  BY <1>0 DEF ClearFollower
<1>5. ASSUME EdgeStep(f)
      PROVE  \E i \in 1..Len(reqs[f]) : Targeted(f, i) /\ reqs[f][i].n = cancel[f]
  BY <1>4, <1>5 DEF EdgeStep
<1>. QED
  BY <1>1, <1>2, <1>3, <1>5, Apart, EdgesMove

\* Following is what the follower asked for last, and the edges of all followers stay
\* one relation without cycles, in every order of requests, fan-outs and departures
\* (socketFollow.ts:123-132, 160-174, 220-232).
THEOREM FollowProved == Spec => FollowStands
<1>1. Inv => FollowEdges
  BY DEF Inv, FollowInv
<1>2. Inv /\ [Next]_vars =>
        [\A f \in Sockets :
           LET t == following[f] IN
           \/ t = None \/ following'[f] = t
           \/ f \in Out \/ t \in Out
           \/ cancel'[f] # cancel[f]
           \/ \E i \in 1..Len(reqs[f]) : Targeted(f, i) /\ reqs[f][i].to = following'[f]
           \/ \E a \in Sockets : f \in fan[a].rest /\ (a # t \/ fan[a].board # board[f])]_vars
  BY EdgeEnds
<1>3. Inv /\ [Next]_vars =>
        [\A f \in Sockets :
           following'[f] \notin {None, following[f]}
               => \E i \in 1..Len(reqs[f]) :
                      Targeted(f, i) /\ reqs[f][i].n = cancel[f]]_vars
  BY EdgeBegins
<1>4. Spec => []FollowEdges
  BY <1>1, InvHolds, PTL
<1>5. Spec => FollowKept
  BY <1>2, InvHolds, PTL DEF Spec, FollowKept
<1>6. Spec => UnfollowWins
  BY <1>3, InvHolds, PTL DEF Spec, UnfollowWins
<1>. QED
  BY <1>4, <1>5, <1>6 DEF FollowStands

\* What takes a lock from its holder.
LEMMA LockEnds ==
    ASSUME Inv, Next, NEW d \in Boards, locks[d] # NoLock, locks'[d] # locks[d],
           locks[d].holder \notin Out
    PROVE  \/ [board |-> d, token |-> locks[d].token] \in replacing \ replacing'
           \/ \E i \in 1..Len(reqs[locks[d].holder]) :
                  LET r == reqs[locks[d].holder][i] IN
                  /\ r.op = "release" /\ r.n = locks[d].token
                  /\ reqs'[locks[d].holder] = RemoveAt(reqs[locks[d].holder], i)
<1>0. /\ locks = [x \in Boards |-> locks[x]] /\ reqs \in [Sockets -> Seq(Request)]
      /\ replacing \subseteq [board : Boards, token : Tokens]
  BY LocksAre DEF Inv, ReqsInv, TokensGood
<1>1. CASE Cleared
  BY <1>1 DEF Cleared, ClearLocks
<1>2. CASE UNCHANGED <<board, lockVars>>
  BY <1>2 DEF lockVars
<1>3. ASSUME NEW s \in Sockets, NEW i \in 1..Len(reqs[s]),
             AcquireRead(s, i) \/ Acquire(s, i) \/ Patch(s, i) \/ Wipe(s, i)
      PROVE  FALSE
  <2>1. ~UNCHANGED locks
    OBVIOUS
  <2>2. Acquire(s, i)
    BY <1>3, <2>1 DEF AcquireRead, Patch, Wipe, clearVars, lockVars
  <2>3. reqs[s][i] \in Request
    BY <1>0
  <2>4. PICK e \in Boards : e = reqs[s][i].board
    BY <2>3 DEF Request
  <2>5. locks[e] = NoLock /\ locks' = [locks EXCEPT ![e] = [holder |-> s, token |-> minted + 1]]
    <3>1. CASE locks[e] = NoLock
      BY <2>2, <2>4, <3>1, EventsAssumption DEF Acquire, NoLock
    <3>2. CASE locks[e] # NoLock
      BY <2>1, <2>2, <2>4, <3>2 DEF Acquire
    <3>. QED
      BY <3>1, <3>2
  <2>. QED
    BY <1>0, <2>5
<1>4. ASSUME NEW s \in Sockets, NEW i \in 1..Len(reqs[s]), Release(s, i)
      PROVE  /\ locks[d].holder = s
             /\ reqs[s][i].op = "release" /\ reqs[s][i].n = locks[d].token
             /\ reqs'[s] = RemoveAt(reqs[s], i)
  <2>1. PICK e, n : e = reqs[s][i].board /\ n = reqs[s][i].n
    OBVIOUS
  <2>2. locks[e] = [holder |-> s, token |-> n] /\ locks' = [locks EXCEPT ![e] = NoLock]
    BY <1>4, <2>1 DEF Release, Free, lockVars
  <2>3. d = e
    BY <1>0, <2>2
  <2>4. reqs[s][i].op = "release" /\ reqs' = [reqs EXCEPT ![s] = RemoveAt(reqs[s], i)]
    BY <1>4 DEF Release, Admitted, Asked, Forget
  <2>. QED
    BY <1>0, <2>1, <2>2, <2>3, <2>4
<1>5. ASSUME NEW s \in Sockets, NEW e \in Boards, ReplaceStart(s, e) PROVE FALSE
  BY <1>5 DEF ReplaceStart, clearVars, lockVars
<1>6. ASSUME NEW p \in replacing, ReplaceEnd(p)
      PROVE  [board |-> d, token |-> locks[d].token] \in replacing \ replacing'
  <2>1. /\ replacing' = replacing \ {p} /\ locks[p.board].token = p.token
        /\ locks' = [locks EXCEPT ![p.board] = NoLock]
    BY <1>6 DEF ReplaceEnd, Free, lockVars
  <2>2. d = p.board /\ p.token = locks[d].token
    BY <1>0, <2>1
  <2>3. p = [board |-> d, token |-> locks[d].token]
    BY <1>0, <2>2
  <2>. QED
    BY <2>1, <2>3
<1>. QED
  BY <1>1, <1>2, <1>3, <1>4, <1>5, <1>6, Apart DEF LockNext

\* While one socket holds the lock, only it types and only its own words end it: the
\* draft and the lock go together through late releases and replacements
\* (documentEditLocks.ts:70-144).
THEOREM LocksProved == Spec => LocksHold
<1>1. Inv => DraftIsOneLocks
  BY DEF Inv, LocksInv
<1>2. Inv /\ [Next]_vars =>
        [\A d \in Boards :
           LET l == locks[d] IN
           \/ l = NoLock \/ locks'[d] = l
           \/ l.holder \in Out
           \/ [board |-> d, token |-> l.token] \in replacing \ replacing'
           \/ \E i \in 1..Len(reqs[l.holder]) :
                  LET r == reqs[l.holder][i] IN
                  /\ r.op = "release" /\ r.n = l.token
                  /\ reqs'[l.holder] = RemoveAt(reqs[l.holder], i)]_vars
  BY LockEnds
<1>3. Spec => []DraftIsOneLocks
  BY <1>1, InvHolds, PTL
<1>4. Spec => LockKept
  BY <1>2, InvHolds, PTL DEF Spec, LockKept
<1>. QED
  BY <1>3, <1>4 DEF LocksHold

=============================================================================
