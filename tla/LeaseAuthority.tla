--------------------------- MODULE LeaseAuthority ---------------------------
(***************************************************************************)
(* What a Context lease promises, with no call, no read and no retry in    *)
(* sight: who may publish into a Context, under which human approval, and  *)
(* how that authority may change.                                          *)
(*                                                                         *)
(* authority[c] is the last authority given out for Context c.  It is      *)
(* live while its holder may act.  A live authority changes hands only by  *)
(* a hand-over, to the human it already belonged to or to the board        *)
(* owner; it lapses on its own; it may resume as long as nobody else was   *)
(* given the Context; once ended it is never live again; and it is never   *)
(* live past the end of the approval under which it was granted.           *)
(***************************************************************************)
EXTENDS Naturals

CONSTANTS Contexts, Runs, Users, Owner, None

VARIABLES authority,    \* [Contexts -> Authority]
          spent,        \* generations that can no longer be given out
          time          \* wall clock

vars == <<authority, spent, time>>

Authority == [gen      : Nat,
              run      : Runs \cup {None},
              user     : Users \cup {None},
              horizon  : Nat,
              ended    : BOOLEAN,
              live     : BOOLEAN]

Init ==
    /\ authority \in [Contexts -> {a \in Authority : a.gen = 0 /\ ~a.live}]
    /\ spent = {}
    /\ time = 0

\* No authority is live past its human-approved horizon, or after it ended.
WithinApproval(a, now) == a.live => ~a.ended /\ now <= a.horizon

\* A Context nobody holds is given to a run under a new generation.
Give(c, a) ==
    /\ ~authority[c].live
    /\ a.gen \notin spent \cup {0}
    /\ a.gen \in spent'

\* The authority moves to another run.  Approval is carried over, and the
\* human answering for it is the one who held it or the board owner.
HandOver(c, a) ==
    /\ authority[c].gen # 0 /\ ~authority[c].ended
    /\ a.gen \notin spent \cup {0}
    /\ a.gen \in spent'
    /\ a.horizon = authority[c].horizon
    /\ a.user \in {authority[c].user, Owner}

\* Same generation: it lapses, resumes, or ends.
Continue(c, a) ==
    /\ a.gen = authority[c].gen
    /\ a.run = authority[c].run
    /\ a.user = authority[c].user
    /\ a.horizon = authority[c].horizon
    /\ authority[c].ended => a.ended

Change(c) ==
    \E a \in {authority'[c]} :
        /\ WithinApproval(a, time)
        /\ Give(c, a) \/ HandOver(c, a) \/ Continue(c, a)
        /\ authority' = [authority EXCEPT ![c] = a]
        /\ spent \subseteq spent'
        /\ UNCHANGED time

\* Time passes; it can end what is live, never make it live.
Pass ==
    /\ time' = time + 1
    /\ \A c \in Contexts :
          /\ authority'[c].live => authority[c].live
          /\ authority'[c] = [authority[c] EXCEPT !.live = authority'[c].live]
          /\ WithinApproval(authority'[c], time')
    /\ UNCHANGED spent

Next == Pass \/ \E c \in Contexts : Change(c)

Spec == Init /\ [][Next]_vars

=============================================================================
