----------------------------- MODULE SocketRooms -----------------------------
(***************************************************************************)
(* Which socket is on which board, and what takes it off again             *)
(* (backend/src/server/socket.ts).  A socket registers while its credential *)
(* is still being checked, its join requests run one at a time through     *)
(* several database reads, and a later join, a leave or a disconnect       *)
(* overtakes them; meanwhile an API key is revoked, the sharing of a board *)
(* changes and a periodic sweep reads everybody's access again.            *)
(*                                                                         *)
(* A step ends where the code awaits the database.  The server uses        *)
(* Socket.IO's own in-memory adapter, whose join and leave answer within   *)
(* the turn that calls them, so drawingBySocket, the presence registry and *)
(* the drawing room always change together: board stands for all three.    *)
(* "comment" access counts as "view", the comments room is left out, and   *)
(* each signed-in socket is its own account.                               *)
(*                                                                         *)
(* left is the number of times each thing may still happen from outside:   *)
(* it bounds the requests of a behaviour and nothing in the server.        *)
(***************************************************************************)
EXTENDS Naturals, Sequences, FiniteSets

CONSTANTS
    Sockets,    \* Socket.IO connections; a reconnect is another socket
    Boards,     \* drawings
    None,       \* no board
    Keyed,      \* the sockets that authenticate with the API key
    SignedIn,   \* the other sockets that authenticate as an account
    QueueCap,   \* SOCKET_QUEUE_LIMITS.joins
    Scenes      \* how a behaviour may start, and what may happen in it

ASSUME RoomsAssumption ==
    /\ None \notin Boards /\ IsFiniteSet(Sockets)
    /\ Keyed \subseteq Sockets /\ SignedIn \subseteq Sockets \ Keyed
    /\ QueueCap \in Nat \ {0}

VARIABLES
    conn,       \* "new", "shaken" (authenticated), "open" (connectedSockets), "gone"
    principal,  \* who the socket speaks for: "none", "account" or "key"
    check,      \* the final credential read: "none", "pending", "ok", "bad", "valid", "failed"
    key,        \* the API key: "valid", "revoked", "told" (its sockets were disconnected)
    standing,   \* the access an account has of its own on a board
    link,       \* what the board's share link is worth, to whoever holds its token
    board,      \* drawingBySocket, with the presence and the room it goes with
    token,      \* shareTokenBySocket: the socket joined with the link's token
    rev,        \* joinRevision
    queue,      \* joinQueue: the jobs that wait, the running one first
    checks,     \* access reads of recheckSockets that are under way
    due,        \* sharing changes whose recheckDrawingAccess has not run yet
    hit,        \* the boards somebody may have lost access to (history)
    left        \* what may still happen from outside

accessVars == <<key, standing, link, due, hit>>
roomVars == <<conn, principal, check, accessVars, board, token, rev, queue, checks>>

NoAccess == 0
View     == 1
Edit     == 2
Owner    == 3
Levels   == NoAccess..Owner

\* Whoever is on the board at the start has access to it: of its own, or by the link.
ASSUME ScenesAssumption == \A c \in Scenes :
    /\ c.on \subseteq Sockets /\ c.home \in Boards
    /\ c.standing \in [Sockets -> [Boards -> Levels]] /\ c.link \in [Boards -> NoAccess..Edit]
    /\ c.left \in [DOMAIN c.left -> Nat] /\ "change" \in DOMAIN c.left
    /\ \A s \in c.on : IF c.standing[s][c.home] = NoAccess THEN c.link[c.home] # NoAccess
                                                          ELSE s \in Keyed \cup SignedIn

Job == [board : Boards, token : BOOLEAN, rev : Nat,
        pc : {"wait", "decide", "member", "grant", "name"}, seen : Levels]

\* via: by the link's token; sweep: the periodic sweep waits for it; no: the sharing
\* change it belongs to.
Check == [sock : Sockets, board : Boards, via : BOOLEAN, sweep : BOOLEAN, no : Nat,
          seen : {"asked", "yes", "no"}]

\* getDrawingAccess: what the account has, or the link if that is more.
Access(s, d, withToken) ==
    LET own == IF principal[s] = "none" THEN NoAccess ELSE standing[s][d]
        via == IF withToken THEN link[d] ELSE NoAccess
    IN  IF own >= via THEN own ELSE via

Spend(k) == left[k] > 0 /\ left' = [left EXCEPT ![k] = @ - 1]

-----------------------------------------------------------------------------

\* removeFromDrawing, for each socket of S that is on a board.
TakeOff(S) ==
    /\ board' = [s \in Sockets |-> IF s \in S THEN None ELSE board[s]]
    /\ token' = [s \in Sockets |-> IF s \in S THEN FALSE ELSE token[s]]

\* The "disconnect" handler, which socket.disconnect(true) runs at once.
Disconnect(S) ==
    /\ conn' = [s \in Sockets |-> IF s \in S THEN "gone" ELSE conn[s]]
    /\ rev' = [s \in Sockets |-> IF s \in S THEN rev[s] + 1 ELSE rev[s]]
    /\ TakeOff(S)

\* createApiKeySocketRevoker: every registered socket of the key.
KeySockets == {s \in Sockets : conn[s] = "open" /\ principal[s] = "key"}

-----------------------------------------------------------------------------
(* Connecting. *)

\* createSocketAuthenticator: a key that is no longer valid resolves to nobody,
\* and the socket goes on as a link-only guest.
Handshake(s) ==
    /\ conn[s] = "new"
    /\ conn' = [conn EXCEPT ![s] = "shaken"]
    /\ principal' = [principal EXCEPT ![s] =
           CASE s \in Keyed    -> IF key = "valid" THEN "key" ELSE "none"
             [] s \in SignedIn -> "account"
             [] OTHER          -> "none"]
    /\ UNCHANGED <<check, accessVars, board, token, rev, queue, checks, left>>

\* Mutant of Register: the handshake's credential is good enough.
RegisterUnchecked(s) ==
    /\ conn[s] = "shaken"
    /\ conn' = [conn EXCEPT ![s] = "open"]
    /\ check' = [check EXCEPT ![s] = "valid"]
    /\ UNCHANGED <<principal, accessVars, board, token, rev, queue, checks, left>>

\* io.on("connection"): registered first, then checked once more.
Register(s) ==
    /\ conn[s] = "shaken"
    /\ conn' = [conn EXCEPT ![s] = "open"]
    /\ check' = [check EXCEPT ![s] = IF principal[s] = "none" THEN "valid" ELSE "pending"]
    /\ UNCHANGED <<principal, accessVars, board, token, rev, queue, checks, left>>

VerifyRead(s) ==
    /\ check[s] = "pending"
    /\ check' = [check EXCEPT ![s] =
           IF principal[s] = "key" /\ key # "valid" THEN "bad" ELSE "ok"]
    /\ UNCHANGED <<conn, principal, accessVars, board, token, rev, queue, checks, left>>

VerifyOk(s) ==
    /\ check[s] = "ok"
    /\ check' = [check EXCEPT ![s] = IF conn[s] = "open" THEN "valid" ELSE "failed"]
    /\ UNCHANGED <<conn, principal, accessVars, board, token, rev, queue, checks, left>>

VerifyBad(s) ==
    /\ check[s] = "bad"
    /\ check' = [check EXCEPT ![s] = "failed"]
    /\ Disconnect(KeySockets)
    /\ UNCHANGED <<principal, accessVars, queue, checks, left>>

\* The credential read throws: the socket is turned away.
VerifyFails(s) ==
    /\ check[s] = "pending"
    /\ Spend("fault")
    /\ check' = [check EXCEPT ![s] = "failed"]
    /\ Disconnect(IF conn[s] = "open" THEN {s} ELSE {})
    /\ UNCHANGED <<principal, accessVars, queue, checks>>

\* The transport closes.
Drop(s) ==
    /\ conn[s] = "open"
    /\ Spend("drop")
    /\ Disconnect({s})
    /\ UNCHANGED <<principal, check, accessVars, queue, checks>>

-----------------------------------------------------------------------------
(* Joining and leaving. *)

\* "join-room": refused when the queue is full, otherwise the newest revision.
JoinRequest(s, d, withToken) ==
    /\ conn[s] = "open"
    /\ Spend("join")
    /\ IF Len(queue[s]) < QueueCap
       THEN /\ rev' = [rev EXCEPT ![s] = @ + 1]
            /\ queue' = [queue EXCEPT ![s] = Append(@,
                   [board |-> d, token |-> withToken, rev |-> rev[s] + 1,
                    pc |-> "wait", seen |-> NoAccess])]
       ELSE UNCHANGED <<rev, queue>>
    /\ UNCHANGED <<conn, principal, check, accessVars, board, token, checks>>

At(s, pc) == queue[s] # <<>> /\ Head(queue[s]).pc = pc

\* Mutant of IsCurrentJoin: only the connection is asked for.
IsCurrentJoinOpen(s) == conn[s] = "open"

\* isCurrentJoin.
IsCurrentJoin(s) == conn[s] = "open" /\ Head(queue[s]).rev = rev[s]

Finish(s) == queue' = [queue EXCEPT ![s] = Tail(@)]

Proceed(s, pc, seen) ==
    queue' = [queue EXCEPT ![s] = <<[Head(@) EXCEPT !.pc = pc, !.seen = seen]>> \o Tail(@)]

\* The socket enters the board of its running join.
Enter(s) ==
    /\ board' = [board EXCEPT ![s] = Head(queue[s]).board]
    /\ token' = [token EXCEPT ![s] = Head(queue[s]).token]
    /\ Finish(s)

\* Waits for the credential check, then reads getDrawingCapabilities.
JoinRead(s) ==
    /\ At(s, "wait") /\ check[s] \in {"valid", "failed"}
    /\ IF check[s] = "failed" \/ ~IsCurrentJoin(s)
       THEN Finish(s)
       ELSE Proceed(s, "decide", Access(s, Head(queue[s]).board, Head(queue[s]).token))
    /\ UNCHANGED <<conn, principal, check, accessVars, board, token, rev, checks, left>>

\* The decision: refused, or off the other board and on to the membership.
JoinDecide(s) ==
    LET job == Head(queue[s]) IN
    /\ At(s, "decide")
    /\ IF ~IsCurrentJoin(s) \/ job.seen = NoAccess
       THEN Finish(s) /\ UNCHANGED <<board, token>>
       ELSE IF principal[s] = "none"
       THEN Enter(s)
       ELSE /\ Proceed(s, IF job.seen = Owner THEN "name" ELSE "member", job.seen)
            /\ IF board[s] \notin {None, job.board}
               THEN TakeOff({s}) ELSE UNCHANGED <<board, token>>
    /\ UNCHANGED <<conn, principal, check, accessVars, rev, checks, left>>

\* getDrawingMembership: has the account a claim of its own?
JoinMember(s) ==
    LET job == Head(queue[s])
        mine == standing[s][job.board]
    IN
    /\ At(s, "member")
    /\ IF ~IsCurrentJoin(s)
       THEN Finish(s) /\ UNCHANGED <<board, token>>
       ELSE IF mine = NoAccess /\ ~job.token
       THEN Enter(s)
       ELSE /\ Proceed(s, IF mine = NoAccess THEN "grant" ELSE "name", job.seen)
            /\ UNCHANGED <<board, token>>
    /\ UNCHANGED <<conn, principal, check, accessVars, rev, checks, left>>

\* grantDrawingAccessFromLink: an account that came by a link becomes a member at
\* the level the decision read.
JoinGrant(s) ==
    LET job == Head(queue[s]) IN
    /\ At(s, "grant")
    /\ standing' = [standing EXCEPT ![s][job.board] =
           IF @ = NoAccess THEN job.seen ELSE @]
    /\ IF IsCurrentJoin(s) THEN Proceed(s, "name", job.seen) ELSE Finish(s)
    /\ UNCHANGED <<conn, principal, check, key, link, due, hit, board, token, rev, checks, left>>

\* The account's name is read, and the socket is on the board.
JoinName(s) ==
    /\ At(s, "name")
    /\ IF IsCurrentJoin(s) THEN Enter(s) ELSE Finish(s) /\ UNCHANGED <<board, token>>
    /\ UNCHANGED <<conn, principal, check, accessVars, rev, checks, left>>

\* A read or the write of the running join throws; the next join runs.
JoinFails(s) ==
    /\ queue[s] # <<>> /\ (At(s, "wait") => check[s] = "valid" /\ IsCurrentJoin(s))
    /\ Spend("fault")
    /\ Finish(s)
    /\ UNCHANGED <<conn, principal, check, accessVars, board, token, rev, checks>>

\* "leave-room" for board d.  One that is rate-limited or names another board
\* still cancels the joins under way.
LeaveRoom(s, d) ==
    /\ conn[s] = "open"
    /\ Spend("leave")
    /\ rev' = [rev EXCEPT ![s] = @ + 1]
    /\ IF board[s] = d THEN TakeOff({s}) ELSE UNCHANGED <<board, token>>
    /\ UNCHANGED <<conn, principal, check, accessVars, queue, checks>>

-----------------------------------------------------------------------------
(* Losing access. *)

\* DELETE /api-keys/:id writes revokedAt ...
RevokeKey ==
    /\ key = "valid"
    /\ Spend("revoke")
    /\ key' = "revoked"
    /\ UNCHANGED <<conn, principal, check, standing, link, due, hit, board, token, rev, queue, checks>>

\* ... and then disconnects the key's sockets.
DisconnectKey ==
    /\ key = "revoked"
    /\ key' = "told"
    /\ Disconnect(KeySockets)
    /\ UNCHANGED <<principal, check, standing, link, due, hit, queue, checks, left>>

\* POST /drawings/:id/permissions grants or regrades and rechecks nobody.
Regrade(s, d, level) ==
    /\ s \in SignedIn \cup Keyed
    /\ standing[s][d] # Owner /\ level # standing[s][d]
    /\ Spend("regrade")
    /\ standing' = [standing EXCEPT ![s][d] = level]
    /\ UNCHANGED <<conn, principal, check, key, link, due, hit, board, token, rev, queue, checks>>

\* DELETE /drawings/:id/permissions/:permId; the recheck follows.
RevokeGrant(s, d) ==
    /\ standing[s][d] \in {View, Edit}
    /\ Spend("change")
    /\ standing' = [standing EXCEPT ![s][d] = NoAccess]
    /\ due' = due \cup {[no |-> left["change"], board |-> d, who |-> {s}]}
    /\ hit' = hit \cup {d}
    /\ UNCHANGED <<conn, principal, check, key, link, board, token, rev, queue, checks>>

\* The link-share routes: the link is worth another level, or nothing any more.
ChangeLink(d, level) ==
    /\ level # link[d]
    /\ Spend("change")
    /\ link' = [link EXCEPT ![d] = level]
    /\ due' = due \cup {[no |-> left["change"], board |-> d, who |-> Sockets]}
    /\ hit' = IF level < link[d] THEN hit \cup {d} ELSE hit
    /\ UNCHANGED <<conn, principal, check, key, standing, board, token, rev, queue, checks>>

\* A link expires: no route runs.
ExpireLink(d) ==
    /\ link[d] # NoAccess
    /\ Spend("expire")
    /\ link' = [link EXCEPT ![d] = NoAccess]
    /\ hit' = hit \cup {d}
    /\ UNCHANGED <<conn, principal, check, key, standing, due, board, token, rev, queue, checks>>

\* recheckSockets: one read for every socket on a board that matches.
Candidates(S, B, sweep, no) ==
    {[sock |-> s, board |-> board[s], via |-> token[s], sweep |-> sweep, no |-> no,
      seen |-> "asked"] : s \in {t \in S : conn[t] = "open" /\ board[t] \in B}}

Recheck(c) ==
    /\ c \in due
    /\ due' = due \ {c}
    /\ checks' = checks \cup Candidates(c.who, {c.board}, FALSE, c.no)
    /\ UNCHANGED <<conn, principal, check, key, standing, link, hit, board, token, rev, queue, left>>

\* startNonOverlappingSocketAccessSweep: the next sweep starts when the last ended.
Sweep ==
    /\ left["sweep"] > 0
    /\ \A c \in checks : ~c.sweep
    /\ checks' = checks \cup Candidates(Sockets, Boards, TRUE, 0)
    /\ UNCHANGED <<conn, principal, check, accessVars, board, token, rev, queue, left>>

CheckRead(c) ==
    /\ c \in checks /\ c.seen = "asked"
    /\ checks' = (checks \ {c}) \cup {[c EXCEPT !.seen =
           IF Access(c.sock, c.board, c.via) = NoAccess THEN "no" ELSE "yes"]}
    /\ UNCHANGED <<conn, principal, check, accessVars, board, token, rev, queue, left>>

\* The socket leaves only if it is still on the board that was read.
CheckApply(c) ==
    /\ c \in checks /\ c.seen # "asked"
    /\ checks' = checks \ {c}
    /\ IF c.seen = "no" /\ conn[c.sock] = "open" /\ board[c.sock] = c.board
       THEN TakeOff({c.sock}) ELSE UNCHANGED <<board, token>>
    /\ UNCHANGED <<conn, principal, check, accessVars, rev, queue, left>>

\* Mutant of CheckFails: a failed sweep is the last one.
CheckFailsEnds(c) ==
    /\ c \in checks /\ c.seen = "asked"
    /\ left["fault"] > 0
    /\ left' = [left EXCEPT !["fault"] = @ - 1, !["sweep"] = IF c.sweep THEN 0 ELSE @]
    /\ checks' = checks \ {c}
    /\ UNCHANGED <<conn, principal, check, accessVars, board, token, rev, queue>>

\* One read throws: Promise.all rejects, so the sweep counts as over although its
\* other reads go on.
CheckFails(c) ==
    /\ c \in checks /\ c.seen = "asked"
    /\ Spend("fault")
    /\ checks' = {IF c.sweep THEN [o EXCEPT !.sweep = FALSE] ELSE o : o \in checks \ {c}}
    /\ UNCHANGED <<conn, principal, check, accessVars, board, token, rev, queue>>

-----------------------------------------------------------------------------

\* A behaviour starts with some sockets on the board home and some yet to connect.
RoomsInit ==
    \E c \in Scenes :
        /\ conn = [s \in Sockets |->
               IF s \in c.on THEN "open" ELSE IF s \in c.come THEN "new" ELSE "gone"]
        /\ principal = [s \in Sockets |->
               IF s \in c.on \cap Keyed THEN "key"
               ELSE IF s \in c.on \cap SignedIn THEN "account" ELSE "none"]
        /\ check = [s \in Sockets |-> IF s \in c.on THEN "valid" ELSE "none"]
        /\ key = "valid"
        /\ standing = c.standing /\ link = c.link
        /\ board = [s \in Sockets |-> IF s \in c.on THEN c.home ELSE None]
        /\ token = [s \in Sockets |-> s \in c.on /\ c.standing[s][c.home] = NoAccess]
        /\ rev = [s \in Sockets |-> IF s \in c.on THEN 1 ELSE 0]
        /\ queue = [s \in Sockets |-> <<>>]
        /\ checks = {} /\ due = {} /\ hit = {}
        /\ left = c.left

Verify(s) == VerifyRead(s) \/ VerifyOk(s) \/ VerifyBad(s)

JoinStep(s) == JoinRead(s) \/ JoinDecide(s) \/ JoinMember(s) \/ JoinGrant(s) \/ JoinName(s)

RoomsNext ==
    \/ \E s \in Sockets :
           \/ Handshake(s) \/ Register(s) \/ Verify(s) \/ VerifyFails(s) \/ Drop(s)
           \/ JoinStep(s) \/ JoinFails(s)
           \/ \E d \in Boards :
                  \/ \E withToken \in BOOLEAN : JoinRequest(s, d, withToken)
                  \/ LeaveRoom(s, d)
                  \/ RevokeGrant(s, d)
                  \/ \E level \in {View, Edit} : Regrade(s, d, level)
    \/ RevokeKey \/ DisconnectKey
    \/ \E d \in Boards : ExpireLink(d) \/ \E level \in NoAccess..Edit : ChangeLink(d, level)
    \/ \E c \in due : Recheck(c)
    \/ Sweep
    \/ \E c \in checks : CheckRead(c) \/ CheckApply(c) \/ CheckFails(c)

-----------------------------------------------------------------------------

RoomsTypeOK ==
    /\ conn \in [Sockets -> {"new", "shaken", "open", "gone"}]
    /\ principal \in [Sockets -> {"none", "account", "key"}]
    /\ check \in [Sockets -> {"none", "pending", "ok", "bad", "valid", "failed"}]
    /\ key \in {"valid", "revoked", "told"}
    /\ standing \in [Sockets -> [Boards -> Levels]]
    /\ link \in [Boards -> NoAccess..Edit]
    /\ board \in [Sockets -> Boards \cup {None}]
    /\ token \in [Sockets -> BOOLEAN]
    /\ rev \in [Sockets -> Nat]
    /\ \A s \in Sockets :
           /\ Len(queue[s]) <= QueueCap
           /\ \A i \in 1..Len(queue[s]) : queue[s][i] \in Job
    /\ checks \subseteq Check
    /\ due \subseteq [no : Nat, board : Boards, who : SUBSET Sockets]
    /\ hit \subseteq Boards

\* No ghosts: whoever is shown on a board is connected and its credential has
\* passed, however a disconnect overtook the join (socketRaces.test.ts:137).
NoGhosts ==
    \A s \in Sockets : board[s] # None => conn[s] = "open" /\ check[s] = "valid"

\* "There is no gap in which both mechanisms can miss it": once the sockets of a
\* revoked key have been disconnected, one that registered late is still before
\* its final read or about to be turned away by it (socket.ts:387-389).
RevokedKeyOut ==
    \A s \in Sockets :
        key = "told" /\ conn[s] = "open" /\ principal[s] = "key"
            => check[s] \in {"pending", "bad"}

\* A board is entered by the newest thing the client asked for: no join, leave or
\* disconnect came after the join that enters it (socket.ts:579-612, 756-783).
EntersNewest ==
    [][\A s \in Sockets :
           board'[s] \notin {None, board[s]}
               => Len(queue[s]) = 1 /\ Head(queue[s]).rev = rev[s]]_<<board, roomVars>>

\* A join that makes its account a member never lowers what the account has, and
\* never gives more than the link does, unless the board's sharing was narrowed
\* while the join read it (grants.ts:228-232).
GrantsWithinLink ==
    [][\A s \in Sockets, d \in Boards :
           At(s, "grant") /\ queue'[s] # queue[s] /\ standing'[s][d] # standing[s][d]
               => /\ standing'[s][d] >= standing[s][d]
                  /\ standing'[s][d] <= link[d] \/ d \in hit]_<<standing, roomVars>>

\* Whoever has lost access to the board it is on leaves in the end, also when the
\* change was announced before the socket had joined, and when a link expired with
\* nothing to announce it (socket.ts:830-831).
LostAccessLeaves ==
    []<>(\A s \in Sockets :
            board[s] # None => Access(s, board[s], token[s]) # NoAccess)

\* Every join is answered: none waits for ever behind one that failed.
JoinsAnswered == []<>(\A s \in Sockets : queue[s] = <<>>)

\* What was asked of the rooms is settled in the end, whatever failed on the way
\* (socket.ts:744-756, socketAccessSweep.ts:9-30).
RoomsSettle == LostAccessLeaves /\ JoinsAnswered

=============================================================================
