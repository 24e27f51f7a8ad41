------------------------------ MODULE MCBackups ------------------------------
(* Small instances of Backups: a SQLite site with an operator's command       *)
(* beside the schedule, where archives may outgrow the budget, and one site    *)
(* of either provider with an original that comes and goes.                    *)
EXTENDS Backups

Site(provider, count, bytes, sizes, blobset, commands) ==
    [provider |-> provider, maxCount |-> count, maxBytes |-> bytes, sizes |-> sizes,
     faults |-> 1, removals |-> 1, oneOffs |-> commands, originals |-> blobset]

Sites == {Site("sqlite", 2, 2, {1, 3}, {}, 1), Site("sqlite", 1, 9, {1}, Blobs, 0),
          Site("postgresql", 9, 1, {1, 2}, Blobs, 0)}

=============================================================================
