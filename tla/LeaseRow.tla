------------------------------ MODULE LeaseRow ------------------------------
(***************************************************************************)
(* The single row that carries the public-effect lease of one Context      *)
(* (table ContextLease), and the guards and writes the SQL statements of   *)
(* backend/src/agent/contextLease.ts put on it.  Every statement is one    *)
(* atomic UPDATE ... WHERE; what happens between two statements of a call   *)
(* is modelled by the modules that use this one.                           *)
(*                                                                         *)
(* A generation is a random UUID in the code.  Here it is a number that is *)
(* never issued twice; 0 is the generation of a row that does not exist.   *)
(* holderOrchestratorId and acquiredAt are projection data: they are       *)
(* written together with runId and never tested by a guard.                *)
(***************************************************************************)
EXTENDS Naturals

CONSTANTS Runs,     \* agent runs that can hold a lease
          Users,    \* human accounts
          None      \* neither a run nor a user

ASSUME NoneAssumption == None \notin Runs /\ None \notin Users

Row == [gen          : Nat,
        run          : Runs \cup {None},
        user         : Users \cup {None},
        expiresAt    : Nat,
        endHorizonAt : Nat,
        released     : BOOLEAN]

\* No row exists for the Context yet.
NoRow == [gen |-> 0, run |-> None, user |-> None,
          expiresAt |-> 0, endHorizonAt |-> 0, released |-> FALSE]

Earlier(a, b) == IF a < b THEN a ELSE b

IsLive(row, now) ==
    /\ row.gen # 0
    /\ ~row.released
    /\ row.expiresAt >= now

\* Mutant of Grantable: a lease in its last live instant counts as expired.
GrantableEarly(row, now) ==
    /\ row.gen # 0
    /\ row.released \/ row.expiresAt <= now

\* WHERE of the re-grant statement: the row exists and is released or expired.
Grantable(row, now) ==
    /\ row.gen # 0
    /\ row.released \/ row.expiresAt < now

\* The row a grant writes; releasedAt is cleared explicitly.
Grant(gen, run, user, now, ttl, horizon) ==
    [gen |-> gen, run |-> run, user |-> user,
     expiresAt |-> Earlier(now + ttl, horizon),
     endHorizonAt |-> horizon, released |-> FALSE]

\* The identity part of a WHERE: dropped for a verified owner override.
MayAct(row, user, override) == override \/ row.user = user

Release(row) == [row EXCEPT !.released = TRUE]

=============================================================================
