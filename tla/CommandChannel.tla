--------------------------- MODULE CommandChannel ---------------------------
(***************************************************************************)
(* What a runtime adapter promises about a command it is asked to hand to  *)
(* a foreign runtime.  The command is handed over at most once.  Whoever   *)
(* asked learns one of three things: the runtime's answer, that the        *)
(* command was refused, or that its fate is not known.  Refused means that *)
(* it was not handed over and never will be.                               *)
(*                                                                         *)
(* DispatchReceipt runs on this channel; RuntimeDaemonBroker implements it. *)
(***************************************************************************)
CONSTANT Commands

VARIABLE cmd      \* [Commands -> States]

States == {"none",        \* not submitted
           "queued",      \* accepted, not yet handed to the runtime
           "delivered",   \* handed to the runtime
           "answered",    \* the runtime answered in time
           "refused",     \* RUNTIME_NOT_CONNECTED
           "lost"}        \* any other failure: the runtime may have acted

Init == cmd = [c \in Commands |-> "none"]

Move(c, from, to) ==
    /\ cmd[c] \in from
    /\ cmd' = [cmd EXCEPT ![c] = to]

Submit(c)  == \E s \in {"queued", "delivered"} : Move(c, {"none"}, s)
Deliver(c) == Move(c, {"queued"}, "delivered")
Answer(c)  == Move(c, {"delivered"}, "answered")
Refuse(c)  == Move(c, {"none", "queued"}, "refused")
Lose(c)    == Move(c, {"delivered"}, "lost")

\* The connection carrying the commands S ends: what was not handed over never
\* will be, and nobody hears the answer of what was.
Fallen(s) == CASE s = "queued" -> "refused" [] s = "delivered" -> "lost" [] OTHER -> s

Drop(S) == cmd' = [c \in Commands |-> IF c \in S THEN Fallen(cmd[c]) ELSE cmd[c]]

Next ==
    \/ \E S \in SUBSET Commands : Drop(S)
    \/ \E c \in Commands : Submit(c) \/ Deliver(c) \/ Answer(c) \/ Refuse(c) \/ Lose(c)

Spec == Init /\ [][Next]_cmd

=============================================================================
