----------------------------- MODULE RoomEvents ------------------------------
(***************************************************************************)
(* What the people on a board do together, on top of SocketRooms: follow    *)
(* one another (socketFollow.ts), hold the edit lock of a document and      *)
(* publish a live draft under it (documentEditLocks.ts), present, vote and  *)
(* run the workshop timer.  All of it lives in the server's memory, and a   *)
(* socket that leaves a board takes its part of it along: Cleared.          *)
(*                                                                         *)
(* A request is admitted by requireAccess, which reads the database, so any *)
(* step of another socket fits between its arrival and its handler; some    *)
(* handlers await a second read before they act.  Requests of one queue of  *)
(* one socket run in the order of arrival; the others do not wait for each  *)
(* other.  The row an awaited read returns is taken as the handler resumes: *)
(* an older one could only let it act on access lost a moment before.       *)
(*                                                                         *)
(* Each board has one Markdown document.  The follower access cache, the    *)
(* rate limits, invitations, cursors, selections and presenter notes are    *)
(* left out, and a socket has one fan-out of its viewport at a time.        *)
(***************************************************************************)
EXTENDS SocketRooms, SequencesExt

CONSTANTS
    Options,      \* the options of a vote
    Durations,    \* how long a timer may be started for
    MaxDuration   \* WORKSHOP_TIMER_LIMITS.maxDurationMs; the extension is 1

ASSUME EventsAssumption ==
    /\ MaxDuration \in Nat /\ Durations \subseteq 1..MaxDuration
    /\ Options \subseteq Nat \ {0}
    /\ None \notin Sockets

VARIABLES
    reqs,       \* the requests of each socket whose handlers have not finished
    following,  \* followingBySocket
    followers,  \* followersBySocket
    cancel,     \* followCancellationRevision
    fan,        \* the viewport a socket is fanning out to its followers
    locks,      \* DocumentEditLockRegistry.locks, by board
    drafts,     \* DocumentEditLockRegistry.drafts, by board
    granted,    \* the edit token each client was given last, 0 before
    minted,     \* how many tokens were minted
    replacing,  \* document replacements between their last check and their end
    leaked,     \* the tokens granted to a socket that had left (history)
    presenter,  \* PresenterRegistry.byDrawing
    vote,       \* VotingRegistry.byDrawing
    rounds,     \* how many rounds were opened
    timer,      \* the workshop timers
    timeouts,   \* setTimeout calls that have not run
    now

followVars == <<following, followers>>
lockVars   == <<locks, drafts>>
toolVars   == <<presenter, vote, timer, timeouts>>
clearVars  == <<followVars, lockVars, toolVars>>
restVars   == <<cancel, fan, granted, minted, replacing, leaked, rounds, now>>
vars       == <<roomVars, left, reqs, clearVars, restVars>>

NoFan   == [board |-> None, rest |-> {}, at |-> None]
NoLock  == [holder |-> None, token |-> 0]
NoDraft == [holder |-> None, rev |-> 0, from |-> {}]
Nobody  == [by |-> None, rev |-> 0]
NoRound == [round |-> 0, status |-> "idle", ballots |-> [s \in Sockets |-> [choice |-> 0, round |-> 0]],
            tally |-> [o \in Options |-> 0]]
Idle    == [status |-> "idle", ends |-> 0, rest |-> 0, dur |-> 0]

TimerOps == {"timer-start", "timer-restart", "timer-pause", "timer-resume",
             "timer-stop", "timer-add"}

\* What a request needs: requireAccess' requireEdit.
Need(op) == IF op \in {"follow", "unfollow", "view", "cast"} THEN View ELSE Edit

\* followQueue, or the tail registerAuthorizedRoomEvent keeps per event; the
\* presenter, voting, viewport and UNFOLLOW handlers have none.
Queue(op) ==
    CASE op = "follow"                 -> "follow"
      [] op \in {"acquire", "release"} -> "lock"
      [] op \in {"patch", "wipe"}      -> "draft"
      [] op \in TimerOps               -> "timer"
      [] OTHER                         -> "none"

-----------------------------------------------------------------------------

\* What goes with the sockets that leave a board: removeFromDrawing's calls to
\* releasePresence, followManager.clearSocket and presenterManager.clearSocket,
\* and, when nobody is left, the timer, the presentation and the vote.
Out == {s \in Sockets : board[s] # None /\ board'[s] # board[s]}

Emptied == {d \in Boards : /\ \E s \in Out : board[s] = d
                           /\ \A s \in Sockets : board'[s] # d}

ClearFollows ==
    /\ following' = [f \in Sockets |->
           IF f \in Out \/ (following[f] \in Out /\ f \in followers[following[f]])
           THEN None ELSE following[f]]
    /\ followers' = [t \in Sockets |-> IF t \in Out THEN {} ELSE followers[t] \ Out]

ClearLocks ==
    /\ locks' = [d \in Boards |-> IF locks[d].holder \in Out THEN NoLock ELSE locks[d]]
    /\ drafts' = [d \in Boards |-> IF locks[d].holder \in Out THEN NoDraft ELSE drafts[d]]

ClearTools ==
    /\ presenter' = [d \in Boards |->
           IF d \in Emptied \/ (presenter[d].by \in Out /\ board[presenter[d].by] = d)
           THEN Nobody ELSE presenter[d]]
    /\ vote' = [d \in Boards |-> IF d \in Emptied THEN NoRound ELSE vote[d]]
    /\ timer' = [d \in Boards |-> IF d \in Emptied THEN Idle ELSE timer[d]]
    /\ timeouts' = {t \in timeouts : t.board \notin Emptied}

Cleared == ClearFollows /\ ClearLocks /\ ClearTools

\* A step of SocketRooms, with what it takes along.
Within(A) == A /\ Cleared /\ UNCHANGED <<reqs, restVars>>

RoomStep == Within(RoomsNext)

-----------------------------------------------------------------------------
(* Requests. *)

Waits(s, i) ==
    \E j \in 1..(i - 1) :
        Queue(reqs[s][j].op) = Queue(reqs[s][i].op) /\ Queue(reqs[s][i].op) # "none"

Forget(s, i) == reqs' = [reqs EXCEPT ![s] = RemoveAt(@, i)]

\* A client sends a request about the board it is on; requireAccess checks the
\* room at once when nothing of its queue is ahead.
Send(s, kind, r) ==
    /\ conn[s] = "open" /\ board[s] # None
    /\ Spend(kind)
    /\ LET req == [op |-> r.op, board |-> board[s], to |-> r.to, n |-> r.n, m |-> r.m,
                   pc |-> "asked", via |-> FALSE]
           ahead == \E j \in 1..Len(reqs[s]) :
                        Queue(reqs[s][j].op) = Queue(r.op) /\ Queue(r.op) # "none"
       IN  reqs' = [reqs EXCEPT ![s] =
               Append(@, IF ahead THEN [req EXCEPT !.pc = "queued"] ELSE req)]
    /\ UNCHANGED <<roomVars, clearVars, restVars>>

\* The queue reaches the request.
Begin(s, i) ==
    /\ i \in 1..Len(reqs[s]) /\ reqs[s][i].pc = "queued" /\ ~Waits(s, i)
    /\ IF board[s] = reqs[s][i].board
       THEN reqs' = [reqs EXCEPT ![s][i].pc = "asked"]
       ELSE Forget(s, i)
    /\ UNCHANGED <<roomVars, left, clearVars, restVars>>

Asked(s, i, op) ==
    i \in 1..Len(reqs[s]) /\ reqs[s][i].pc = "asked" /\ reqs[s][i].op = op

InRoom(s, d) == conn[s] = "open" /\ board[s] = d

\* requireAccess returns an access.
Admitted(s, i, op) ==
    /\ Asked(s, i, op)
    /\ InRoom(s, reqs[s][i].board)
    /\ Access(s, reqs[s][i].board, token[s]) >= Need(op)

\* requireAccess returns null, having removed a socket that may not even view.
Refuse(s, i) ==
    /\ i \in 1..Len(reqs[s]) /\ reqs[s][i].pc = "asked"
    /\ ~Admitted(s, i, reqs[s][i].op)
    /\ Forget(s, i)
    /\ IF /\ InRoom(s, reqs[s][i].board)
          /\ Access(s, reqs[s][i].board, token[s]) = NoAccess
       THEN TakeOff({s}) ELSE UNCHANGED <<board, token>>
    /\ Cleared
    /\ UNCHANGED <<conn, principal, check, accessVars, rev, queue, checks, left, restVars>>

Req(op, to, n, m) == [op |-> op, to |-> to, n |-> n, m |-> m]

Ask(op) == Req(op, None, 0, 0)

\* The requests a client may send: it knows the token it was given, the round the
\* room shows and the revisions it has published.
ClientSends(s) ==
    \/ \E t \in Sockets \ {s} : Send(s, "follow", Req("follow", t, cancel[s], 0))
    \/ Send(s, "unfollow", Ask("unfollow"))
    \/ Send(s, "view", Ask("view"))
    \/ Send(s, "lock", Ask("acquire"))
    \/ granted[s] # 0 /\ Send(s, "free", Req("release", None, granted[s], 0))
    \/ /\ granted[s] # 0
       /\ \/ \E m \in 1..2 : Send(s, "draft", Req("patch", None, granted[s], m))
          \/ Send(s, "draft", Req("wipe", None, granted[s], 0))
    \/ \E op \in {"start", "takeover", "stop", "pan"} : Send(s, "present", Ask(op))
    \/ \E op \in {"open", "reveal", "close"} : Send(s, "vote", Ask(op))
    \/ /\ board[s] # None /\ vote[board[s]].round # 0
       /\ \E o \in Options : Send(s, "cast", Req("cast", None, vote[board[s]].round, o))
    \/ \E op \in TimerOps : \E n \in Durations :
           Send(s, "timer", Req(op, None, IF op = "timer-start" THEN n ELSE 0, 0))

-----------------------------------------------------------------------------
(* Follow. *)

\* clearFollower.
ClearFollower(f) ==
    /\ following' = [following EXCEPT ![f] = None]
    /\ followers' = IF following[f] = None THEN followers
                    ELSE [followers EXCEPT ![following[f]] = @ \ {f}]

\* wouldCreateCycle: the follower is among those the target follows, directly or
\* through others, which are the members of every set that goes on to whom a member
\* follows.
WouldCreateCycle(f, t) ==
    \A S \in SUBSET Sockets :
        t \in S /\ (\A x \in S : following[x] \in S \cup {None}) => f \in S

\* FOLLOW, up to the read of the target's access.
FollowTarget(s, i) ==
    LET r == reqs[s][i] IN
    /\ Admitted(s, i, "follow")
    /\ IF r.n = cancel[s] /\ InRoom(r.to, r.board)
       THEN reqs' = [reqs EXCEPT ![s][i].pc = "target", ![s][i].via = token[r.to]]
       ELSE Forget(s, i)
    /\ UNCHANGED <<roomVars, left, clearVars, restVars>>

Targeted(s, i) == i \in 1..Len(reqs[s]) /\ reqs[s][i].pc = "target"

\* Mutant of FollowSet: an UNFOLLOW since the request is not looked for again.
FollowSetLate(s, i) ==
    LET r == reqs[s][i]
        valid == InRoom(s, r.board)
    IN
    /\ Targeted(s, i)
    /\ ~(valid /\ Access(r.to, r.board, r.via) = NoAccess)
    /\ Forget(s, i)
    /\ IF valid /\ InRoom(r.to, r.board) /\ ~WouldCreateCycle(s, r.to)
       THEN /\ following' = [following EXCEPT ![s] = r.to]
            /\ followers' = [t \in Sockets |->
                   IF t = r.to THEN followers[t] \cup {s} ELSE followers[t] \ {s}]
       ELSE UNCHANGED followVars
    /\ UNCHANGED <<roomVars, left, lockVars, toolVars, restVars>>

\* FOLLOW, after that read: the edge, unless an UNFOLLOW came, one of the two has
\* left or it would close a cycle.
FollowSet(s, i) ==
    LET r == reqs[s][i]
        valid == r.n = cancel[s] /\ InRoom(s, r.board)
    IN
    /\ Targeted(s, i)
    /\ ~(valid /\ Access(r.to, r.board, r.via) = NoAccess)
    /\ Forget(s, i)
    /\ IF valid /\ InRoom(r.to, r.board) /\ ~WouldCreateCycle(s, r.to)
       THEN /\ following' = [following EXCEPT ![s] = r.to]
            /\ followers' = [t \in Sockets |->
                   IF t = r.to THEN followers[t] \cup {s} ELSE followers[t] \ {s}]
       ELSE UNCHANGED followVars
    /\ UNCHANGED <<roomVars, left, lockVars, toolVars, restVars>>

\* The target may no longer view the board: it leaves whatever board it is on.
FollowEvicts(s, i) ==
    LET r == reqs[s][i] IN
    /\ Targeted(s, i)
    /\ r.n = cancel[s] /\ InRoom(s, r.board)
    /\ Access(r.to, r.board, r.via) = NoAccess
    /\ Forget(s, i)
    /\ IF conn[r.to] = "open" THEN TakeOff({r.to}) ELSE UNCHANGED <<board, token>>
    /\ Cleared
    /\ UNCHANGED <<conn, principal, check, accessVars, rev, queue, checks, left, restVars>>

\* UNFOLLOW, outside the queue.
Unfollow(s, i) ==
    /\ Admitted(s, i, "unfollow")
    /\ Forget(s, i)
    /\ cancel' = [cancel EXCEPT ![s] = @ + 1]
    /\ ClearFollower(s)
    /\ UNCHANGED <<roomVars, left, lockVars, toolVars,
                   fan, granted, minted, replacing, leaked, rounds, now>>

\* "viewport-bounds": the followers of that moment are served one by one.
FanStart(s, i) ==
    /\ Admitted(s, i, "view") /\ fan[s] = NoFan
    /\ Forget(s, i)
    /\ fan' = [fan EXCEPT ![s] =
           IF followers[s] = {} THEN NoFan
           ELSE [board |-> reqs[s][i].board, rest |-> followers[s], at |-> None]]
    /\ UNCHANGED <<roomVars, left, clearVars,
                   cancel, granted, minted, replacing, leaked, rounds, now>>

Follows(f, s) == following[f] = s /\ InRoom(f, fan[s].board)

FanDone(s, f) ==
    LET rest == fan[s].rest \ {f} IN
    fan' = [fan EXCEPT ![s] =
        IF rest = {} THEN NoFan ELSE [board |-> @.board, rest |-> rest, at |-> None]]

\* The next follower: its access is read, or its relationship is invalid.
FanNext(s, f) ==
    /\ fan[s].at = None /\ f \in fan[s].rest
    /\ IF Follows(f, s)
       THEN fan' = [fan EXCEPT ![s].at = f] /\ UNCHANGED followVars
       ELSE FanDone(s, f) /\ ClearFollower(f)
    /\ UNCHANGED <<roomVars, left, reqs, lockVars, toolVars,
                   cancel, granted, minted, replacing, leaked, rounds, now>>

\* After that read: the viewport is sent on, or the relationship became invalid.
FanSend(s) ==
    LET f == fan[s].at IN
    /\ f # None
    /\ ~(Follows(f, s) /\ Access(f, fan[s].board, token[f]) = NoAccess)
    /\ FanDone(s, f)
    /\ IF Follows(f, s) THEN UNCHANGED followVars ELSE ClearFollower(f)
    /\ UNCHANGED <<roomVars, left, reqs, lockVars, toolVars,
                   cancel, granted, minted, replacing, leaked, rounds, now>>

FanEvicts(s) ==
    LET f == fan[s].at IN
    /\ f # None
    /\ Follows(f, s) /\ Access(f, fan[s].board, token[f]) = NoAccess
    /\ FanDone(s, f)
    /\ TakeOff({f}) /\ Cleared
    /\ UNCHANGED <<conn, principal, check, accessVars, rev, queue, checks, left, reqs,
                   cancel, granted, minted, replacing, leaked, rounds, now>>

FollowNext ==
    \E s \in Sockets :
        \/ \E i \in 1..Len(reqs[s]) :
               FollowTarget(s, i) \/ FollowSet(s, i) \/ FollowEvicts(s, i)
                   \/ Unfollow(s, i) \/ FanStart(s, i)
        \/ \E f \in fan[s].rest : FanNext(s, f)
        \/ FanSend(s) \/ FanEvicts(s)

-----------------------------------------------------------------------------
(* Edit locks and live drafts. *)

\* "acquire", up to the read of the document's widget.
AcquireRead(s, i) ==
    /\ Admitted(s, i, "acquire")
    /\ reqs' = [reqs EXCEPT ![s][i].pc = "widget"]
    /\ UNCHANGED <<roomVars, left, clearVars, restVars>>

\* After that read: a free lock is taken, the own one confirmed.
Acquire(s, i) ==
    LET d == reqs[s][i].board IN
    /\ i \in 1..Len(reqs[s]) /\ reqs[s][i].pc = "widget"
    /\ Forget(s, i)
    /\ CASE locks[d] = NoLock ->
              /\ locks' = [locks EXCEPT ![d] = [holder |-> s, token |-> minted + 1]]
              /\ minted' = minted + 1
              /\ granted' = [granted EXCEPT ![s] = minted + 1]
              /\ leaked' = IF board[s] = d THEN leaked ELSE leaked \cup {minted + 1}
         [] locks[d].holder = s ->
              /\ granted' = [granted EXCEPT ![s] = locks[d].token]
              /\ UNCHANGED <<locks, minted, leaked>>
         [] OTHER -> UNCHANGED <<locks, granted, minted, leaked>>
    /\ UNCHANGED <<roomVars, left, followVars, drafts, toolVars,
                   cancel, fan, replacing, rounds, now>>

\* The lock of d, with its draft, is released.
Free(d) ==
    /\ locks' = [locks EXCEPT ![d] = NoLock]
    /\ drafts' = [drafts EXCEPT ![d] = NoDraft]

Release(s, i) ==
    LET r == reqs[s][i] IN
    /\ Admitted(s, i, "release")
    /\ Forget(s, i)
    /\ IF locks[r.board] = [holder |-> s, token |-> r.n]
       THEN Free(r.board) ELSE UNCHANGED lockVars
    /\ UNCHANGED <<roomVars, left, followVars, toolVars, restVars>>

\* applyDraftPatch: only the next revision, only under the lock's token.
Patch(s, i) ==
    LET r == reqs[s][i] IN
    /\ Admitted(s, i, "patch")
    /\ Forget(s, i)
    /\ IF locks[r.board] = [holder |-> s, token |-> r.n] /\ r.m = drafts[r.board].rev + 1
       THEN drafts' = [drafts EXCEPT ![r.board] =
                [holder |-> s, rev |-> r.m, from |-> @.from \cup {r.n}]]
       ELSE UNCHANGED drafts
    /\ UNCHANGED <<roomVars, left, followVars, locks, toolVars, restVars>>

\* clearDraft.
Wipe(s, i) ==
    LET r == reqs[s][i] IN
    /\ Admitted(s, i, "wipe")
    /\ Forget(s, i)
    /\ drafts' = IF locks[r.board] = [holder |-> s, token |-> r.n]
                 THEN [drafts EXCEPT ![r.board] = NoDraft] ELSE drafts
    /\ UNCHANGED <<roomVars, left, followVars, locks, toolVars, restVars>>

\* PUT .../content, from its last look at the lock to the end of its transaction.
ReplaceStart(s, d) ==
    /\ granted[s] # 0 /\ locks[d].token = granted[s]
    /\ Spend("replace")
    /\ replacing' = replacing \cup {[board |-> d, token |-> granted[s]]}
    /\ UNCHANGED <<roomVars, reqs, clearVars, cancel, fan, granted, minted, leaked, rounds, now>>

\* Mutant of ReplaceEnd: the document's lock is released whoever holds it by now.
ReplaceEndAny(p) ==
    /\ p \in replacing
    /\ replacing' = replacing \ {p}
    /\ Free(p.board)
    /\ UNCHANGED <<roomVars, left, reqs, followVars, toolVars,
                   cancel, fan, granted, minted, leaked, rounds, now>>

\* releaseToken, when the transaction committed.
ReplaceEnd(p) ==
    /\ p \in replacing
    /\ replacing' = replacing \ {p}
    /\ IF locks[p.board].token = p.token THEN Free(p.board) ELSE UNCHANGED lockVars
    /\ UNCHANGED <<roomVars, left, reqs, followVars, toolVars,
                   cancel, fan, granted, minted, leaked, rounds, now>>

LockNext ==
    \/ \E s \in Sockets :
           \/ \E i \in 1..Len(reqs[s]) :
                  AcquireRead(s, i) \/ Acquire(s, i) \/ Release(s, i)
                      \/ Patch(s, i) \/ Wipe(s, i)
           \/ \E d \in Boards : ReplaceStart(s, d)
    \/ \E p \in replacing : ReplaceEnd(p)

-----------------------------------------------------------------------------
(* Presenting. *)

\* PresenterRegistry.start, and start with force for the owner's takeover: the
\* revision goes on from the presentation it replaces.
PresentStart(s, i) ==
    \E op \in {"start", "takeover"} :
        LET d == reqs[s][i].board IN
        /\ Admitted(s, i, op)
        /\ Forget(s, i)
        /\ IF /\ presenter[d].by # s
              /\ IF op = "takeover" THEN Access(s, d, token[s]) = Owner
                 ELSE presenter[d] = Nobody
           THEN presenter' = [presenter EXCEPT ![d] = [by |-> s, rev |-> @.rev + 1]]
           ELSE UNCHANGED presenter
        /\ UNCHANGED <<roomVars, left, followVars, lockVars, vote, timer, timeouts, restVars>>

\* stop, by the presenter or with the owner's force.
PresentStop(s, i) ==
    LET d == reqs[s][i].board IN
    /\ Admitted(s, i, "stop")
    /\ Forget(s, i)
    /\ presenter' = IF presenter[d].by = s \/ Access(s, d, token[s]) = Owner
                    THEN [presenter EXCEPT ![d] = Nobody] ELSE presenter
    /\ UNCHANGED <<roomVars, left, followVars, lockVars, vote, timer, timeouts, restVars>>

\* advance: only the presenter moves the shared view.
Advance(s, i) ==
    LET d == reqs[s][i].board IN
    /\ Admitted(s, i, "pan")
    /\ Forget(s, i)
    /\ presenter' = IF presenter[d].by = s
                    THEN [presenter EXCEPT ![d].rev = @ + 1] ELSE presenter
    /\ UNCHANGED <<roomVars, left, followVars, lockVars, vote, timer, timeouts, restVars>>

PresentNext ==
    \E s \in Sockets : \E i \in 1..Len(reqs[s]) :
        PresentStart(s, i) \/ PresentStop(s, i) \/ Advance(s, i)

-----------------------------------------------------------------------------
(* Voting. *)

\* A fresh round; one that was not revealed is discarded.
VoteOpen(s, i) ==
    /\ Admitted(s, i, "open")
    /\ Forget(s, i)
    /\ rounds' = rounds + 1
    /\ vote' = [vote EXCEPT ![reqs[s][i].board] =
           [NoRound EXCEPT !.round = rounds + 1, !.status = "open"]]
    /\ UNCHANGED <<roomVars, left, followVars, lockVars, presenter, timer, timeouts,
                   cancel, fan, granted, minted, replacing, leaked, now>>

\* Mutant of Cast: any open round takes the ballot.
CastAnyRound(s, i) ==
    LET r == reqs[s][i] IN
    /\ Admitted(s, i, "cast")
    /\ Forget(s, i)
    /\ vote' = IF vote[r.board].status = "open"
               THEN [vote EXCEPT ![r.board].ballots[s] = [choice |-> r.m, round |-> r.n]]
               ELSE vote
    /\ UNCHANGED <<roomVars, left, followVars, lockVars, presenter, timer, timeouts, restVars>>

\* castMatchesRound, then VotingRegistry.cast: the voter's whole ballot.
Cast(s, i) ==
    LET r == reqs[s][i] IN
    /\ Admitted(s, i, "cast")
    /\ Forget(s, i)
    /\ vote' = IF vote[r.board].round = r.n /\ vote[r.board].status = "open"
               THEN [vote EXCEPT ![r.board].ballots[s] = [choice |-> r.m, round |-> r.n]]
               ELSE vote
    /\ UNCHANGED <<roomVars, left, followVars, lockVars, presenter, timer, timeouts, restVars>>

\* The ballots of v for each option.
Tally(v) == [o \in Options |-> Cardinality({s \in Sockets : v.ballots[s].choice = o})]

\* The tally is counted once, at the first reveal.
Reveal(s, i) ==
    LET d == reqs[s][i].board IN
    /\ Admitted(s, i, "reveal")
    /\ Forget(s, i)
    /\ vote' = IF vote[d].status = "open"
               THEN [vote EXCEPT ![d].status = "revealed", ![d].tally = Tally(vote[d])]
               ELSE vote
    /\ UNCHANGED <<roomVars, left, followVars, lockVars, presenter, timer, timeouts, restVars>>

VoteClose(s, i) ==
    /\ Admitted(s, i, "close")
    /\ Forget(s, i)
    /\ vote' = [vote EXCEPT ![reqs[s][i].board] = NoRound]
    /\ UNCHANGED <<roomVars, left, followVars, lockVars, presenter, timer, timeouts, restVars>>

VoteNext ==
    \E s \in Sockets : \E i \in 1..Len(reqs[s]) :
        VoteOpen(s, i) \/ Cast(s, i) \/ Reveal(s, i) \/ VoteClose(s, i)

-----------------------------------------------------------------------------
(* The workshop timer. *)

AtMost(n) == IF n <= MaxDuration THEN n ELSE MaxDuration

Remaining(d) == IF timer[d].ends <= now THEN 0 ELSE timer[d].ends - now

\* clearScheduledFinish.
Unscheduled(d) ==
    IF timer[d].status = "running"
    THEN timeouts \ {[board |-> d, ends |-> timer[d].ends]} ELSE timeouts

\* scheduleRunning: the timer runs for n more.
RunFor(d, n, dur) ==
    /\ timer' = [timer EXCEPT ![d] =
           [status |-> "running", ends |-> now + n, rest |-> 0, dur |-> dur]]
    /\ timeouts' = Unscheduled(d) \cup {[board |-> d, ends |-> now + n]}

\* The timer stands still: paused with n left, finished, or idle.
Stand(d, status, n, dur) ==
    /\ timer' = [timer EXCEPT ![d] = [status |-> status, ends |-> 0, rest |-> n, dur |-> dur]]
    /\ timeouts' = Unscheduled(d)

\* command, the handler of "workshop-timer-command".
Command(s, i) ==
    LET r == reqs[s][i]
        d == r.board
        status == timer[d].status
        dur == timer[d].dur
    IN
    /\ \E op \in TimerOps : Admitted(s, i, op)
    /\ Forget(s, i)
    /\ CASE r.op = "timer-start" -> RunFor(d, r.n, r.n)
         [] r.op = "timer-restart" /\ status # "idle" -> RunFor(d, dur, dur)
         [] r.op = "timer-pause" /\ status = "running" ->
              Stand(d, IF Remaining(d) > 0 THEN "paused" ELSE "finished", Remaining(d), dur)
         [] r.op = "timer-resume" /\ status = "paused" -> RunFor(d, timer[d].rest, dur)
         [] r.op = "timer-stop" -> Stand(d, "idle", 0, 0)
         [] r.op = "timer-add" /\ status = "running" ->
              RunFor(d, AtMost(Remaining(d) + 1), AtMost(dur + 1))
         [] r.op = "timer-add" /\ status = "paused" ->
              Stand(d, "paused", AtMost(timer[d].rest + 1), AtMost(dur + 1))
         [] OTHER -> UNCHANGED <<timer, timeouts>>
    /\ UNCHANGED <<roomVars, left, followVars, lockVars, presenter, vote, restVars>>

\* finish, the callback of a timeout: the timer may have been set anew since.
Fire(t) ==
    /\ t \in timeouts /\ t.ends <= now
    /\ timeouts' = timeouts \ {t}
    /\ timer' = IF timer[t.board].status = "running" /\ timer[t.board].ends = t.ends
                THEN [timer EXCEPT ![t.board] = [status |-> "finished", ends |-> 0, rest |-> 0, dur |-> @.dur]]
                ELSE timer
    /\ UNCHANGED <<roomVars, left, reqs, followVars, lockVars, presenter, vote, restVars>>

Tick ==
    /\ Spend("tick")
    /\ now' = now + 1
    /\ UNCHANGED <<roomVars, reqs, clearVars,
                   cancel, fan, granted, minted, replacing, leaked, rounds>>

TimerNext ==
    \/ \E s \in Sockets : \E i \in 1..Len(reqs[s]) : Command(s, i)
    \/ \E t \in timeouts : Fire(t)
    \/ Tick

-----------------------------------------------------------------------------

Init ==
    /\ RoomsInit
    /\ reqs = [s \in Sockets |-> <<>>]
    /\ following = [s \in Sockets |-> None]
    /\ followers = [s \in Sockets |-> {}]
    /\ cancel = [s \in Sockets |-> 0]
    /\ fan = [s \in Sockets |-> NoFan]
    /\ locks = [d \in Boards |-> NoLock]
    /\ drafts = [d \in Boards |-> NoDraft]
    /\ granted = [s \in Sockets |-> 0]
    /\ minted = 0 /\ replacing = {} /\ leaked = {}
    /\ presenter = [d \in Boards |-> Nobody]
    /\ vote = [d \in Boards |-> NoRound] /\ rounds = 0
    /\ timer = [d \in Boards |-> Idle] /\ timeouts = {} /\ now = 0

Next ==
    \/ RoomStep
    \/ \E s \in Sockets :
           \/ ClientSends(s)
           \/ \E i \in 1..Len(reqs[s]) : Begin(s, i) \/ Refuse(s, i)
    \/ FollowNext \/ LockNext \/ PresentNext \/ VoteNext \/ TimerNext

\* The server finishes what it has begun, as long as the database answers, and
\* the sweep's interval keeps coming round.
Fairness ==
    /\ \A s \in Sockets :
           WF_vars(Within(Verify(s))) /\ WF_vars(Within(JoinStep(s)))
    /\ WF_vars(Within(\E c \in due : Recheck(c)))
    /\ WF_vars(Within(\E c \in checks : CheckRead(c) \/ CheckApply(c)))
    /\ WF_vars(Within(Sweep))

Spec == Init /\ [][Next]_vars

FairSpec == Spec /\ Fairness

-----------------------------------------------------------------------------

Tokens == 0..minted

TypeOK ==
    /\ RoomsTypeOK
    /\ \A s \in Sockets : \A i \in 1..Len(reqs[s]) :
           /\ reqs[s][i].pc \in {"queued", "asked", "target", "widget"}
           /\ reqs[s][i].board \in Boards
           /\ reqs[s][i].to \in Sockets \cup {None}
           /\ reqs[s][i].n \in Nat /\ reqs[s][i].m \in Nat /\ reqs[s][i].via \in BOOLEAN
    /\ following \in [Sockets -> Sockets \cup {None}]
    /\ followers \in [Sockets -> SUBSET Sockets]
    /\ fan \in [Sockets -> [board : Boards \cup {None}, rest : SUBSET Sockets,
                            at : Sockets \cup {None}]]
    /\ locks \in [Boards -> [holder : Sockets \cup {None}, token : Tokens]]
    /\ drafts \in [Boards -> [holder : Sockets \cup {None}, rev : 0..2, from : SUBSET Tokens]]
    /\ granted \in [Sockets -> Tokens]
    /\ replacing \subseteq [board : Boards, token : Tokens] /\ leaked \subseteq Tokens
    /\ presenter \in [Boards -> [by : Sockets \cup {None}, rev : Nat]]
    /\ vote \in [Boards -> [round : 0..rounds, status : {"idle", "open", "revealed"},
                            ballots : [Sockets -> [choice : Options \cup {0}, round : 0..rounds]],
                            tally : [Options -> 0..Cardinality(Sockets)]]]
    /\ timer \in [Boards -> [status : {"idle", "running", "paused", "finished"}, ends : Nat,
                             rest : 0..MaxDuration, dur : 0..MaxDuration]]

\* Nobody is removed from a board that all still may see, except by a request of its
\* own: a revocation takes a socket off the board it was about.  A FOLLOW whose
\* target was being read for another board is left out: it takes the target off the
\* wrong one (socketFollow.ts:229).
EvictedForCause ==
    [][\A s \in Sockets :
           \/ board'[s] = board[s] \/ board'[s] # None \/ board[s] \in hit
           \/ rev'[s] # rev[s]
           \/ queue'[s] # queue[s]
           \/ \E f \in Sockets : \E i \in 1..Len(reqs[f]) :
                  /\ reqs[f][i].pc = "target" /\ reqs[f][i].to = s
                  /\ reqs[f][i].board # board[s]]_vars

\* Who follows whom is one relation, kept from both ends, between sockets of one
\* board, and nobody follows itself through others (socketFollow.ts:123-132).
FollowEdges ==
    /\ \A f, t \in Sockets :
           /\ following[f] = t <=> f \in followers[t]
           /\ following[f] = t => board[f] # None /\ board[f] = board[t]
    /\ \A S \in SUBSET Sockets :
           S # {} => \E f \in S : following[f] \notin S

\* Following goes on until the follower asks for something else or one of the two
\* leaves; a refused FOLLOW does not end it.  A fan-out that began before is left out,
\* when the target was another or the two were on another board: it ends the newer
\* relationship too (socketFollow.ts:308, 318).
FollowKept ==
    [][\A f \in Sockets :
           LET t == following[f] IN
           \/ t = None \/ following'[f] = t
           \/ f \in Out \/ t \in Out
           \/ cancel'[f] # cancel[f]
           \/ \E i \in 1..Len(reqs[f]) : Targeted(f, i) /\ reqs[f][i].to = following'[f]
           \/ \E a \in Sockets : f \in fan[a].rest /\ (a # t \/ fan[a].board # board[f])]_vars

\* An UNFOLLOW that has been handled is the last word: no FOLLOW sent before it takes
\* effect afterwards, however long its reads took (socketFollow.ts:160-174, 220).
UnfollowWins ==
    [][\A f \in Sockets :
           following'[f] \notin {None, following[f]}
               => \E i \in 1..Len(reqs[f]) :
                      Targeted(f, i) /\ reqs[f][i].n = cancel[f]]_vars

\* A lock taken by a socket while it was on the board goes when it leaves
\* (socket.ts:265).  Tokens granted after the awaited read of a socket that had left
\* meanwhile, which nothing releases, are left out (socketDocumentEditLocks.ts:98, 125).
LocksConnected ==
    \A d \in Boards :
        locks[d] # NoLock => board[locks[d].holder] = d \/ locks[d].token \in leaked

\* A lock is taken from its holder only by its own release, by the end of the
\* replacement made under its token, or by its leaving: a late end of an earlier
\* edit does not release the next one (documentEditLocks.ts:70-86).
LockKept ==
    [][\A d \in Boards :
           LET l == locks[d] IN
           \/ l = NoLock \/ locks'[d] = l
           \/ l.holder \in Out
           \/ [board |-> d, token |-> l.token] \in replacing \ replacing'
           \/ \E i \in 1..Len(reqs[l.holder]) :
                  LET r == reqs[l.holder][i] IN
                  /\ r.op = "release" /\ r.n = l.token
                  /\ reqs'[l.holder] = RemoveAt(reqs[l.holder], i)]_vars

\* A live draft is the work of one lock, the present one: nothing typed under an
\* earlier lock is in it (documentEditLocks.ts:105-144).
DraftIsOneLocks ==
    \A d \in Boards :
        drafts[d] # NoDraft
            => drafts[d].from = {locks[d].token} /\ drafts[d].holder = locks[d].holder

\* While one socket holds the lock, only it types and only its own words end it:
\* the draft and the lock go together through late releases and replacements
\* (documentEditLocks.ts:70-144).
LocksHold == []DraftIsOneLocks /\ LockKept

\* The presenter is on the board it presents, and what a board's people set up does
\* not outlive their stay (socket.ts:269-276).
ToolsInRooms ==
    \A d \in Boards :
        /\ presenter[d] # Nobody => board[presenter[d].by] = d
        /\ vote[d] # NoRound \/ timer[d] # Idle => \E s \in Sockets : board[s] = d

\* A ballot counts in the round it was cast for, and a revealed tally is the count of
\* the ballots: none is added afterwards (votingRegistry.ts:159-192).
BallotsCounted ==
    \A d \in Boards :
        /\ \A s \in Sockets : vote[d].ballots[s].choice # 0 => vote[d].ballots[s].round = vote[d].round
        /\ vote[d].status = "revealed" => vote[d].tally = Tally(vote[d])

\* A running timer has one timeout, at its end, and no other timer has any: it cannot
\* finish early by a timeout of an earlier run (socketWorkshopTimer.ts:127-142).
TimerCovered ==
    \A d \in Boards :
        {t \in timeouts : t.board = d} =
            IF timer[d].status = "running" THEN {[board |-> d, ends |-> timer[d].ends]} ELSE {}

\* What is kept for a socket ends with its stay, and what is kept for a board with the
\* last one there: rosters and presentations when the socket goes, the round with its
\* ballots and the timer when the board is empty, a timeout when its timer stops, and
\* the sockets of a revoked key (socket.ts:261-276, 326-340, 387-397,
\* socketWorkshopTimer.ts:127-142).  Locks go with their holder, too, but for those
\* taken after the holder had left (`leaked`); the ballot of one who leaves stays as long
\* as anybody is on the board.
NothingOutlivesStay ==
    /\ TypeOK
    /\ NoGhosts /\ RevokedKeyOut /\ LocksConnected /\ ToolsInRooms /\ TimerCovered

\* A socket comes on a board only by its newest join, is made a member only within
\* the link it came by, and is taken off only for a cause about that very board
\* (socket.ts:594-654, 326-340).
StaysLawful == EntersNewest /\ GrantsWithinLink /\ EvictedForCause

\* Following is what the follower asked for last, and the edges of all followers stay
\* one relation without cycles, in every order of requests, fan-outs and departures
\* (socketFollow.ts:123-132, 160-174, 220-232).
FollowStands == []FollowEdges /\ FollowKept /\ UnfollowWins

=============================================================================
