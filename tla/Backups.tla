------------------------------- MODULE Backups -------------------------------
(***************************************************************************)
(* Full backups (backups/scheduler.ts, backups/backupLimits.ts).           *)
(*                                                                         *)
(* The maintenance job of the server and the one-off command of an operator *)
(* (backups/runOnce.ts) are two processes over one directory.  Each prunes, *)
(* copies the database, packs the copy with the originals it refers to, and *)
(* enforces the limits, one file system call at a time, while the server    *)
(* stores and collects originals, and either process may be killed.         *)
(*                                                                         *)
(* Files carry their age in days instead of a date, capped where it makes   *)
(* no further difference, so that backups go on for ever.                   *)
(***************************************************************************)
EXTENDS Integers, SequencesExt, FiniteSetsExt

CONSTANTS Deployments,  \* [provider, maxCount, maxBytes, sizes], with the originals
                        \* a site has and bounds on its faults, removals and oneOffs
          Blobs,        \* originals
          Retention,    \* BACKUP_RETENTION_DAYS
          MaxFiles      \* bound on the names in use at a time

PartialAge == 1        \* an unfinished file goes after 24 hours

ASSUME BackupsAssumption ==
    /\ \A d \in Deployments :
          /\ d.provider \in {"sqlite", "postgresql"}
          /\ d.maxCount \in Nat \ {0} /\ d.maxBytes \in Nat \ {0}
          /\ d.sizes \subseteq Nat \ {0} /\ \E s \in d.sizes : s <= d.maxBytes
          /\ d.faults \in Nat /\ d.removals \in Nat /\ d.oneOffs \in Nat
          /\ d.originals \subseteq Blobs
    /\ Retention \in Nat \ {0} /\ MaxFiles \in Nat

Server == "server"
OneOff == "runOnce"
Procs  == {Server, OneOff}
Names  == 1 .. MaxFiles
Oldest == 1 + Max({Retention, PartialAge})

VARIABLES
    site,      \* the deployment; it does not change
    blobs,     \* [Blobs -> StoredBlob row and file], by storage key
    archives,  \* completed archives, in the order of their mtime
    parts,     \* files of backups that are not completed
    run,       \* [Procs -> createDatabaseBackup in progress]
    up,        \* is the server running?
    faults, removals, oneOffs

counters == <<faults, removals, oneOffs>>
vars     == <<site, blobs, archives, parts, run, up, counters>>

\* "used" and "free" are READY with a file, the first with references; "bare" is
\* READY and its file is gone; "claimed" is DELETING and its file still there.
BlobState == {"none", "used", "free", "bare", "claimed"}

Listed    == {b \in Blobs : blobs[b] \in {"used", "free", "bare"}}     \* state: "READY"
OnDisk(b) == blobs[b] \in {"used", "free", "claimed"}

Archive == [name : Names, age : 0 .. Oldest, bytes : Nat,
            whole : BOOLEAN,    \* has it the originals its database copy refers to?
            shaded : BOOLEAN]   \* was it ever beside an archive over the budget?
Part    == [kind : {"db", "zip"},
            name : Names \cup {0},   \* 0 when the process that wrote it is through
            age : 0 .. Oldest]
Run     == [pc : {"idle", "dump", "list", "space", "trim", "copy", "stat", "open", "write",
                  "size", "limit", "trim2", "end"},
            name : Names \cup {0},
            rows : SUBSET Blobs,   \* READY in the database copy, not claimed since
            keys : SUBSET Blobs,   \* listed for the archive
            excess : Seq(Names), alone : BOOLEAN, good : BOOLEAN]

NoRun   == [pc |-> "idle", name |-> 0, rows |-> {}, keys |-> {}, excess |-> <<>>,
            alone |-> TRUE, good |-> FALSE]

Init ==
    /\ site \in Deployments
    /\ blobs = [b \in Blobs |-> "none"]
    /\ archives = <<>> /\ parts = {}
    /\ run = [p \in Procs |-> NoRun]
    /\ up = TRUE
    /\ faults = 0 /\ removals = 0 /\ oneOffs = 0

-----------------------------------------------------------------------------
(* The directory.                                                          *)

Sqlite == site.provider = "sqlite"

Kept    == ToSet(archives)
Bytes(s) == MapThenSumSet(LAMBDA i : s[i].bytes, DOMAIN s)
Big(a)  == a.bytes > site.maxBytes

Taken == {a.name : a \in Kept} \cup {run[p].name : p \in Procs}
            \cup UNION {ToSet(run[p].excess) : p \in Procs}

\* The timestamp of a backup; no two backups start in the same millisecond.
Unused == Names \ Taken

Stands(name) == \E i \in DOMAIN archives : archives[i].name = name
Place(name)  == CHOOSE i \in DOMAIN archives : archives[i].name = name

Without(name) == IF Stands(name) THEN RemoveAt(archives, Place(name)) ELSE archives

\* All but the n oldest.
Newest(n) == SubSeq(archives, n + 1, Len(archives))

\* Mutant of Prunable: unfinished archives are not recognised.
PrunableNoZip(f) == Sqlite /\ f.kind = "db"

\* What the patterns of pruneOldBackups recognise: not a dump of PostgreSQL.
Prunable(f) == f.kind = "zip" \/ Sqlite

Expired(a) == a.age > Retention

\* How many are expired: they are the oldest.
Gone == CHOOSE n \in 0 .. Len(archives) : \A i \in DOMAIN archives : Expired(archives[i]) <=> i <= n

\* Mutant of Excess: the newest archives go first.
ExcessNewest(most, room, least) ==
    LET Fits(n) == \/ Len(archives) - n <= least
                   \/ /\ Len(archives) - n <= most
                      /\ Bytes(SubSeq(archives, 1, Len(archives) - n)) <= room
        n == CHOOSE k \in 0 .. Len(archives) : Fits(k) /\ \A m \in 0 .. k - 1 : ~Fits(m)
    IN  [i \in 1 .. n |-> archives[Len(archives) + 1 - i].name]

\* The archives that enforceBackupLimits is going to remove, the oldest first: as
\* many as it takes for at most `most' of them and `room' bytes, but `least' stay.
Excess(most, room, least) ==
    LET Fits(n) == \/ Len(archives) - n <= least
                   \/ Len(archives) - n <= most /\ Bytes(Newest(n)) <= room
        n == CHOOSE k \in 0 .. Len(archives) : Fits(k) /\ \A m \in 0 .. k - 1 : ~Fits(m)
    IN  [i \in 1 .. n |-> archives[i].name]

-----------------------------------------------------------------------------
(* One backup: createDatabaseBackup.                                       *)

At(p, pc)   == run[p].pc = pc
Goes(p, pc) == run' = [run EXCEPT ![p].pc = pc]

files == <<archives, parts>>
world == <<site, blobs, up>>

\* The statements that the try of createDatabaseBackup encloses.
Guarded == {"stat", "open", "write", "size", "limit", "trim2"}

\* A call throws.  Outside the try nothing is cleaned up: a database copy or dump
\* that is already there stays.
Thrown(p) ==
    [run EXCEPT ![p] = IF @.pc \in Guarded
                       THEN [@ EXCEPT !.pc = "end", !.excess = <<>>] ELSE NoRun]

\* Nobody looks for these files again, but for the patterns of pruneOldBackups.
Deserted(p, left) == {IF f.name = run[p].name THEN [f EXCEPT !.name = 0] ELSE f : f \in left}

LeftBehind(p, left) == IF run[p].pc \in Guarded THEN left ELSE Deserted(p, left)

\* pruneOldBackups.  A file that it cannot remove is passed over.
Prune ==
    /\ archives' = Newest(Gone)
    /\ parts' = {f \in parts : ~(Prunable(f) /\ f.age > PartialAge)}

\* A backup begins by pruning, before it allocates anything.  The two processes know
\* nothing of one another; `alone' is a history variable.
Begin(p) ==
    /\ At(p, "idle") /\ Unused # {}
    /\ Prune
    /\ LET alone == \A q \in Procs : At(q, "idle")
       IN  run' = [q \in Procs |->
                     IF q = p THEN [NoRun EXCEPT !.pc = IF Sqlite THEN "space" ELSE "dump",
                                                 !.name = Min(Unused), !.alone = alone]
                     ELSE [run[q] EXCEPT !.alone = @ /\ At(q, "idle")]]

DbFile(p)  == [kind |-> "db", name |-> run[p].name, age |-> 0]
ZipFile(p) == [kind |-> "zip", name |-> run[p].name, age |-> 0]
Own(p, kind) == {f \in parts : f.kind = kind /\ f.name = run[p].name}

\* pg_dump: what it writes is the state of the database when it starts.
Dump(p) ==
    /\ At(p, "dump")
    /\ parts' = parts \cup {DbFile(p)}
    /\ run' = [run EXCEPT ![p].pc = "list", ![p].rows = Listed]
    /\ UNCHANGED <<archives, world, counters>>

\* The storage keys are read from the live database once pg_dump has ended.
List(p) ==
    /\ At(p, "list")
    /\ run' = [run EXCEPT ![p].pc = "space", ![p].keys = Listed]
    /\ UNCHANGED <<files, world, counters>>

After(p) == CASE At(p, "trim2") -> "end"
              [] ~At(p, "trim2") /\ Sqlite -> "copy"
              [] OTHER -> "stat"

\* prepareBackupSpace: the expected size is taken from the files as they are now,
\* and room is made for it, but the last archive stays.
MakeSpace(p) ==
    /\ At(p, "space")
    /\ \E expected \in site.sizes :
          LET excess == Excess(Max({1, site.maxCount - 1}), Max({0, site.maxBytes - expected}), 1)
          IN  /\ expected <= site.maxBytes
              /\ run' = [run EXCEPT ![p].pc = IF excess = <<>> THEN After(p) ELSE "trim",
                                    ![p].excess = excess]
    /\ UNCHANGED <<files, world, counters>>

\* One unlink of enforceBackupLimits; the other process may have been faster.
Trim(p) ==
    /\ run[p].pc \in {"trim", "trim2"}
    /\ LET rest == Tail(run[p].excess)
       IN  IF Stands(Head(run[p].excess))
           THEN /\ archives' = Without(Head(run[p].excess))
                /\ run' = [run EXCEPT ![p].pc = IF rest = <<>> THEN After(p) ELSE @,
                                      ![p].excess = rest,
                                      ![p].good = rest = <<>> /\ At(p, "trim2")]
                /\ UNCHANGED parts
           ELSE /\ run' = Thrown(p)
                /\ parts' = LeftBehind(p, parts)
                /\ UNCHANGED archives
    /\ UNCHANGED <<world, counters>>

\* The SQLite file is copied, and the storage keys are read from the copy.
Copy(p) ==
    /\ At(p, "copy")
    /\ parts' = parts \cup {DbFile(p)}
    /\ run' = [run EXCEPT ![p].pc = "stat", ![p].rows = Listed, ![p].keys = Listed]
    /\ UNCHANGED <<archives, world, counters>>

\* Mutant of Present: an original that is not there is left out.
PresentSkipping(p) == Own(p, "db") # {}

Present(p) == Own(p, "db") # {} /\ \A b \in run[p].keys : OnDisk(b)

\* lstat of every original.
Stat(p) ==
    /\ At(p, "stat")
    /\ run' = IF Present(p) THEN [run EXCEPT ![p].pc = "open"] ELSE Thrown(p)
    /\ UNCHANGED <<files, world, counters>>

\* A process dies, with what it was doing.
Dies(p, left) ==
    /\ run' = [run EXCEPT ![p] = NoRun]
    /\ parts' = Deserted(p, left)
    /\ up' = (up /\ p # Server)

\* The archive is begun and its sources are opened.  A source that is gone by now
\* fails the pipeline, or its error goes unhandled and ends the process
\* (processGuards.ts).
Open(p) ==
    /\ At(p, "open")
    /\ LET begun == parts \cup {ZipFile(p)}
       IN  \/ /\ Present(p)
              /\ run' = [run EXCEPT ![p].pc = "write", ![p].keys = {b \in @ : OnDisk(b)}]
              /\ parts' = begun /\ UNCHANGED up
           \/ ~Present(p) /\ run' = Thrown(p) /\ parts' = begun /\ UNCHANGED up
           \/ ~Present(p) /\ Dies(p, begun)
    /\ UNCHANGED <<archives, site, blobs, counters>>

Shade(flooded) == [i \in DOMAIN archives |-> [archives[i] EXCEPT !.shaded = @ \/ flooded]]

\* The last byte is written and the file renamed.  Its size is what it is: more was
\* stored since the estimate, or the estimate was wrong.
Write(p) ==
    /\ At(p, "write") /\ Own(p, "zip") # {}
    /\ \E s \in site.sizes :
          LET flooded == s > site.maxBytes \/ \E a \in Kept : Big(a)
              new == [name |-> run[p].name, age |-> 0, bytes |-> s,
                      whole |-> run[p].rows \subseteq run[p].keys, shaded |-> flooded]
          IN  /\ s > site.maxBytes => faults < site.faults
              /\ faults' = faults + IF s > site.maxBytes THEN 1 ELSE 0
              /\ archives' = Append(Shade(flooded), new)
    /\ parts' = parts \ Own(p, "zip")
    /\ run' = [run EXCEPT ![p].pc = "size", ![p].rows = {}, ![p].keys = {}]
    /\ UNCHANGED <<world, removals, oneOffs>>

\* The size is only known now: an archive over the budget is removed again.
CheckSize(p) ==
    /\ At(p, "size")
    /\ IF \E a \in Kept : a.name = run[p].name /\ ~Big(a)
       THEN Goes(p, "limit") /\ UNCHANGED archives
       ELSE run' = Thrown(p) /\ archives' = Without(run[p].name)
    /\ UNCHANGED <<parts, world, counters>>

\* With the archive in place the directory is pruned once more ...
PruneAgain(p) ==
    /\ At(p, "limit") /\ \E a \in Kept : Expired(a)
    /\ Prune
    /\ UNCHANGED <<run, world, counters>>

\* ... and brought within the limits.
Limit(p) ==
    /\ At(p, "limit") /\ ~\E a \in Kept : Expired(a)
    /\ LET excess == Excess(site.maxCount, site.maxBytes, 0)
       IN  run' = [run EXCEPT ![p].pc = IF excess = <<>> THEN "end" ELSE "trim2",
                              ![p].excess = excess, ![p].good = excess = <<>>]
    /\ UNCHANGED <<files, world, counters>>

\* catch and finally.
End(p) ==
    /\ At(p, "end")
    /\ parts' = parts \ (Own(p, "zip") \cup Own(p, "db"))
    /\ run' = [run EXCEPT ![p] = NoRun]
    /\ UNCHANGED <<archives, world, counters>>

\* A call fails: no disk space, no database, no permission, or the run is refused
\* because it would not fit.  A copy that fails half way leaves what it wrote.
Fails(p) ==
    /\ faults < site.faults
    /\ run[p].pc \notin {"idle", "end"}
    /\ run' = Thrown(p)
    /\ parts' = LeftBehind(p, IF run[p].pc \in {"copy", "dump"} THEN parts \cup {DbFile(p)}
                              ELSE parts)
    /\ faults' = faults + 1
    /\ UNCHANGED <<archives, world, removals, oneOffs>>

Step(p) == \/ Dump(p) \/ List(p) \/ MakeSpace(p) \/ Trim(p) \/ Copy(p) \/ Stat(p) \/ Open(p)
           \/ Write(p) \/ CheckSize(p) \/ PruneAgain(p) \/ Limit(p) \/ End(p)

-----------------------------------------------------------------------------
(* Who starts a backup.                                                    *)

\* A tick of the interval that the schedule matches, not twice in one second and
\* not while the job is running.
Tick ==
    /\ up /\ Begin(Server)
    /\ UNCHANGED <<world, counters>>

\* An operator's command (docs/RESTORE.md).
RunOnce ==
    /\ oneOffs < site.oneOffs /\ oneOffs' = oneOffs + 1
    /\ Begin(OneOff)
    /\ UNCHANGED <<world, faults, removals>>

Killed(p) ==
    /\ faults < site.faults
    /\ p = Server => up
    /\ p = OneOff => ~At(p, "idle")
    /\ Dies(p, parts)
    /\ faults' = faults + 1
    /\ UNCHANGED <<site, blobs, archives, removals, oneOffs>>

Restart ==
    /\ ~up /\ up' = TRUE
    /\ UNCHANGED <<site, blobs, files, run, counters>>

-----------------------------------------------------------------------------
(* The world.                                                              *)

Turn(b, from, to) == blobs[b] \in from /\ blobs' = [blobs EXCEPT ![b] = to]

\* No longer READY: no later listing has it, whatever copy of the database has.
Leaves(b) == run' = [p \in Procs |-> [run[p] EXCEPT !.rows = @ \ {b}]]

\* Originals are stored and used, let go, claimed for deletion and put back.  A
\* storage key that is stored again is a new one, which no running backup has listed.
Live(b) ==
    /\ up /\ b \in site.originals
    /\ \/ Turn(b, {"none"}, "used") /\ UNCHANGED run /\ \A p \in Procs : b \notin run[p].keys
       \/ Turn(b, {"free"}, "used") /\ UNCHANGED run
       \/ Turn(b, {"used"}, "free") /\ UNCHANGED run
       \/ Turn(b, {"free"}, "claimed") /\ Leaves(b)
       \/ Turn(b, {"claimed"}, "free") /\ UNCHANGED run
    /\ UNCHANGED <<site, up, files, counters>>

\* The sweep removes the file first (collectExpired), and the row in a later
\* statement; preview art is claimed before its file goes.
Collect(b) ==
    /\ up /\ removals < site.removals /\ removals' = removals + 1
    /\ Turn(b, {"free"}, "bare") \/ Turn(b, {"claimed"}, "none")
    /\ UNCHANGED <<site, up, files, run, faults, oneOffs>>

RemoveRow(b) ==
    /\ up /\ Turn(b, {"bare"}, "none") /\ Leaves(b)
    /\ UNCHANGED <<site, up, files, counters>>

Older(a) == [a EXCEPT !.age = Min({@ + 1, Oldest})]

\* A day goes by, between backups or while an archive is written, which takes less
\* than a day.
Day ==
    /\ \A p \in Procs : run[p].pc \in {"idle", "write"}
    /\ \A f \in parts : f.name # 0 => f.age < PartialAge
    /\ archives' = [i \in DOMAIN archives |-> Older(archives[i])]
    /\ parts' = {Older(f) : f \in parts}
    /\ UNCHANGED <<world, run, counters>>

Next ==
    \/ \E p \in Procs : Step(p) \/ Fails(p) \/ Killed(p)
    \/ Tick \/ RunOnce \/ Restart
    \/ \E b \in Blobs : Live(b) \/ Collect(b) \/ RemoveRow(b)
    \/ Day

Spec == Init /\ [][Next]_vars

-----------------------------------------------------------------------------
(* Properties                                                              *)

TypeOK ==
    /\ site \in Deployments
    /\ blobs \in [Blobs -> BlobState]
    /\ archives \in Seq(Archive)
    /\ parts \subseteq Part
    /\ run \in [Procs -> Run]
    /\ up \in BOOLEAN
    /\ faults \in Nat /\ removals \in Nat /\ oneOffs \in Nat

\* A completed archive has every original that its own database copy has READY,
\* whatever was stored, claimed and removed while it was made; the one exception is
\* an original claimed or removed between the copy and the listing, which PostgreSQL
\* allows (scheduler.ts:272-276, 431-445).
ArchivesWhole == \A a \in Kept : a.whole

\* A backup that had the directory to itself leaves it within both limits when it
\* answers with success, and its own archive in it (backupLimits.ts:54,
\* DEPLOYMENT.md:400-403).
LimitsKept ==
    \A p \in Procs :
        At(p, "end") /\ run[p].good /\ run[p].alone
            => /\ Len(archives) <= site.maxCount /\ Bytes(archives) <= site.maxBytes
               /\ Stands(run[p].name)

DirectorySound == TypeOK /\ ArchivesWhole /\ LimitsKept

\* Whatever removes an archive, be it two processes at once, a newer one stays; the
\* exceptions are archives past the retention and those that ever lay beside an
\* archive over the budget, which enforceBackupLimits lets take their place
\* (backupLimits.ts:54, scheduler.ts:486-496).
NewestSurvives ==
    [][LET StaysOn(i) == \E a \in Kept' : a.name = archives[i].name
       IN  \A i \in DOMAIN archives :
             archives[i].age > Retention \/ archives[i].shaded \/ StaysOn(i)
                \/ \E j \in i + 1 .. Len(archives) : StaysOn(j)]_vars

\* The schedule matches again and again, processes go on, the server is restarted,
\* and the sweep comes back.
FairSpec ==
    /\ Spec
    /\ SF_vars(Day) /\ WF_vars(Tick) /\ WF_vars(Restart)
    /\ \A p \in Procs : WF_vars(Step(p))
    /\ \A b \in Blobs : WF_vars(RemoveRow(b))

Leftover(kind) == \E f \in parts : f.kind = kind /\ f.name = 0 /\ (kind = "db" => Sqlite)

\* Failed and killed backups hold up nothing: there is a fresh archive again and
\* again, and what they left behind goes; dumps of PostgreSQL, which no pattern
\* recognises, are the exception (scheduler.ts:149-175, 589-596).
Recovers ==
    /\ []<>(\E a \in Kept : a.age = 0)
    /\ \A kind \in {"db", "zip"} : Leftover(kind) ~> ~Leftover(kind)

=============================================================================
