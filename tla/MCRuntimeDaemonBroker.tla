----------------------- MODULE MCRuntimeDaemonBroker -----------------------
(* Small instances of RuntimeDaemonBroker for TLC. *)
EXTENDS RuntimeDaemonBroker, TLC

CONSTANTS a1, c1, c2

\* Two commands that carry the same assignment.
SameAssignment == [c \in Commands |-> a1]

\* Any of the commands may start a run, and at least one does.
AnyStarts == (SUBSET Commands) \ {{}}

\* Slots are interchangeable, and so are commands of the same assignment.
Symmetry == Permutations(Slots) \cup Permutations(Commands)

=============================================================================
