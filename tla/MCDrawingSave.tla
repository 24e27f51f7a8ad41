---------------------------- MODULE MCDrawingSave ----------------------------
(* Small instances of DrawingSave for TLC. *)
EXTENDS DrawingSave, TLC

CONSTANTS owner, bob

\* The owner saves and cleans up, the other writer does everything else.
Roles == (owner :> {"save", "trim", "orphans"}) @@ (bob :> {"save", "restore", "markdown"})

\* Documents are interchangeable.
Symmetry == Permutations(Assets)

=============================================================================
