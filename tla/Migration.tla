------------------------------ MODULE Migration ------------------------------
(***************************************************************************)
(* The migration job: finds the *.up.sql files of its image, and in one    *)
(* transaction makes sure that schema_migrations exists, takes an advisory *)
(* lock, runs every file that is not recorded yet and records it.          *)
(*                                                                         *)
(* Several jobs may run at once, of different releases and hence with      *)
(* different files.  schema_migrations is created BEFORE the lock is held: *)
(* two jobs may race for its name in the catalog.  Kubernetes starts a     *)
(* failed job again, up to its backoffLimit.                               *)
(***************************************************************************)
EXTENDS Naturals, Sequences

CONSTANTS Jobs,         \* migration jobs
          Versions,     \* versions of migrations
          Directories,  \* the migrations directories images may hold
          Installed,    \* what earlier releases may have left: Seq(Files)
          None,         \* the version of a file whose name does not parse
          MaxRetries,   \* backoffLimit of the Kubernetes Job
          MaxFaults     \* bound: failing database calls, lost answers, kills

\* A file: its name tells two files of one version apart, sql says whether the
\* database accepts its statements.
Files == [version: Versions \cup {None}, name: {"a", "b"}, up: BOOLEAN, sql: {"ok", "bad"}]

ASSUME MigrationAssumption ==
    /\ Versions \subseteq Nat /\ None \notin Versions
    /\ Directories \subseteq SUBSET Files
    /\ Installed \subseteq Seq([version: Versions, name: {"a"}, up: {TRUE}, sql: {"ok"}])
    /\ MaxRetries \in Nat /\ MaxFaults \in Nat

VARIABLES directory,  \* [Jobs -> the directory of the job's image]
          table,      \* whether schema_migrations exists
          recorded,   \* SUBSET Versions: its rows
          schema,     \* Seq(Files): the migrations the schema has been through
          pc,         \* [Jobs -> where the job stands]
          tx,         \* [Jobs -> what its open transaction has done]
          applied,    \* [Jobs -> the versions it read as applied]
          todo,       \* [Jobs -> the files its loop has still to look at]
          retries,    \* [Jobs -> how often it has been started again]
          faults      \* how many faults have happened

database == <<table, recorded, schema>>
vars == <<directory, database, pc, tx, applied, todo, retries, faults>>

Places == {"start", "ensure", "creating", "lock", "locked", "loop", "record",
           "done", "collided", "failed"}

Transactions == [made: BOOLEAN, ran: Seq(Files), recorded: SUBSET Versions]

NoTx == [made |-> FALSE, ran |-> <<>>, recorded |-> {}]

TypeOK ==
    /\ directory \in [Jobs -> Directories]
    /\ table \in BOOLEAN
    /\ recorded \subseteq Versions
    /\ schema \in Seq(Files)
    /\ pc \in [Jobs -> Places]
    /\ tx \in [Jobs -> Transactions]
    /\ applied \in [Jobs -> SUBSET Versions]
    /\ todo \in [Jobs -> SUBSET Files]
    /\ retries \in [Jobs -> 0..MaxRetries]
    /\ faults \in 0..MaxFaults

VersionsOf(run) == {run[i].version : i \in DOMAIN run}

Init ==
    /\ directory \in [Jobs -> Directories]
    /\ schema \in Installed
    /\ table = (schema # <<>>)
    /\ recorded = VersionsOf(schema)
    /\ pc = [j \in Jobs |-> "start"]
    /\ tx = [j \in Jobs |-> NoTx]
    /\ applied = [j \in Jobs |-> {}]
    /\ todo = [j \in Jobs |-> {}]
    /\ retries = [j \in Jobs |-> 0]
    /\ faults = 0

Goto(j, place) == pc' = [pc EXCEPT ![j] = place]

\* Run returns an error: the deferred Rollback undoes the transaction.
Rollback(j, place) == tx' = [tx EXCEPT ![j] = NoTx] /\ Goto(j, place)

-----------------------------------------------------------------------------
UpFiles(dir) == {f \in dir : f.up}

\* A file whose name has no version makes Discover fail as a whole.
Discover(j) ==
    /\ pc[j] = "start"
    /\ IF \E f \in UpFiles(directory[j]) : f.version = None
       THEN Goto(j, "failed") /\ UNCHANGED todo
       ELSE Goto(j, "ensure") /\ todo' = [todo EXCEPT ![j] = UpFiles(directory[j])]
    /\ UNCHANGED <<directory, database, tx, applied, retries, faults>>

(***************************************************************************)
(* CREATE TABLE IF NOT EXISTS looks the name up; if it finds none it       *)
(* inserts it into the catalog, which waits for a transaction that has     *)
(* inserted the name and is open, and fails if that one commits.           *)
(***************************************************************************)
EnsureTable(j) ==
    /\ pc[j] = "ensure"
    /\ Goto(j, IF table THEN "lock" ELSE "creating")
    /\ UNCHANGED <<directory, database, tx, applied, todo, retries, faults>>

CreateTable(j) ==
    /\ pc[j] = "creating"
    /\ ~table
    /\ \A i \in Jobs : ~tx[i].made
    /\ tx' = [tx EXCEPT ![j].made = TRUE]
    /\ Goto(j, "lock")
    /\ UNCHANGED <<directory, database, applied, todo, retries, faults>>

CreateCollides(j) ==
    /\ pc[j] = "creating"
    /\ table
    /\ Rollback(j, "collided")
    /\ UNCHANGED <<directory, database, applied, todo, retries, faults>>

Holding == {"locked", "loop", "record"}

\* Slip: the advisory lock is not taken.
LockAlwaysFree(j) == TRUE

\* pg_advisory_xact_lock: held until the transaction ends.
LockFree(j) == \A i \in Jobs \ {j} : pc[i] \notin Holding

AcquireLock(j) ==
    /\ pc[j] = "lock"
    /\ LockFree(j)
    /\ Goto(j, "locked")
    /\ UNCHANGED <<directory, database, tx, applied, todo, retries, faults>>

\* READ COMMITTED: the statement sees what has committed by now.
appliedVersions(j) ==
    /\ pc[j] = "locked"
    /\ applied' = [applied EXCEPT ![j] = recorded]
    /\ Goto(j, "loop")
    /\ UNCHANGED <<directory, database, tx, todo, retries, faults>>

-----------------------------------------------------------------------------
\* Slip: the files come in the order of the directory.
AnyFile(j, f) == f \in todo[j]

\* The loop takes the files by version; sort.Slice leaves the order of files
\* with one version open.
NextFile(j, f) == f \in todo[j] /\ \A g \in todo[j] : f.version <= g.version

Done(j, f) == todo' = [todo EXCEPT ![j] = @ \ {f}]

\* Slip: what has been applied is not looked up.
NeverSkipped(j, f) == FALSE

Skipped(j, f) == f.version \in applied[j]

\* Slip: the first applied migration ends the loop.
SkipBreaks(j, f) ==
    /\ pc[j] = "loop"
    /\ NextFile(j, f)
    /\ Skipped(j, f)
    /\ todo' = [todo EXCEPT ![j] = {}]
    /\ UNCHANGED <<directory, database, pc, tx, applied, retries, faults>>

Skip(j, f) ==
    /\ pc[j] = "loop"
    /\ NextFile(j, f)
    /\ Skipped(j, f)
    /\ Done(j, f)
    /\ UNCHANGED <<directory, database, pc, tx, applied, retries, faults>>

Apply(j, f) ==
    /\ pc[j] = "loop"
    /\ NextFile(j, f)
    /\ ~Skipped(j, f)
    /\ \/ /\ f.sql = "bad"
          /\ Rollback(j, "failed")
       \/ /\ f.sql = "ok"
          /\ tx' = [tx EXCEPT ![j].ran = Append(@, f)]
          /\ Goto(j, "record")
    /\ UNCHANGED <<directory, database, applied, todo, retries, faults>>

\* Slip: version is not the primary key.
NeverConflicts(j, v) == FALSE

Conflicts(j, v) == v \in recorded \cup tx[j].recorded

\* The primary key: an open insert of the same version by another job is waited
\* for.
VersionLocked(j, v) == \E i \in Jobs \ {j} : v \in tx[i].recorded

\* Slip: each migration is committed by itself.
RecordAtOnce(j, f) ==
    /\ pc[j] = "record"
    /\ NextFile(j, f)
    /\ table' = TRUE
    /\ recorded' = recorded \cup {f.version}
    /\ schema' = Append(schema, f)
    /\ tx' = [tx EXCEPT ![j] = NoTx]
    /\ Done(j, f)
    /\ Goto(j, "loop")
    /\ UNCHANGED <<directory, applied, retries, faults>>

\* INSERT INTO schema_migrations for the file that has just been run.
Record(j, f) ==
    /\ pc[j] = "record"
    /\ f = tx[j].ran[Len(tx[j].ran)]
    /\ ~VersionLocked(j, f.version)
    /\ \/ /\ Conflicts(j, f.version)
          /\ Rollback(j, "failed")
          /\ UNCHANGED todo
       \/ /\ ~Conflicts(j, f.version)
          /\ tx' = [tx EXCEPT ![j].recorded = @ \cup {f.version}]
          /\ Done(j, f)
          /\ Goto(j, "loop")
    /\ UNCHANGED <<directory, database, applied, retries, faults>>

CommitTx(j) ==
    /\ pc[j] = "loop"
    /\ todo[j] = {}
    /\ table' = TRUE
    /\ recorded' = recorded \cup tx[j].recorded
    /\ schema' = schema \o tx[j].ran

Commit(j) ==
    /\ CommitTx(j)
    /\ Rollback(j, "done")
    /\ UNCHANGED <<directory, applied, todo, retries, faults>>

-----------------------------------------------------------------------------
\* A call fails or the pod is killed; a commit may have taken effect all the same.
CommitLost(j) ==
    /\ faults < MaxFaults
    /\ faults' = faults + 1
    /\ CommitTx(j)
    /\ Rollback(j, "failed")
    /\ UNCHANGED <<directory, applied, todo, retries>>

JobFails(j) ==
    /\ pc[j] \notin {"done", "collided", "failed"}
    /\ faults < MaxFaults
    /\ faults' = faults + 1
    /\ Rollback(j, "failed")
    /\ UNCHANGED <<directory, database, applied, todo, retries>>

\* Slip: one retry too many.
RetryOnceMore(j) ==
    /\ pc[j] \in {"failed", "collided"}
    /\ retries[j] <= MaxRetries
    /\ retries' = [retries EXCEPT ![j] = @ + 1]
    /\ Goto(j, "start")
    /\ UNCHANGED <<directory, database, tx, applied, todo, faults>>

\* The Job controller starts another pod.
Retry(j) ==
    /\ pc[j] \in {"failed", "collided"}
    /\ retries[j] < MaxRetries
    /\ retries' = [retries EXCEPT ![j] = @ + 1]
    /\ Goto(j, "start")
    /\ UNCHANGED <<directory, database, tx, applied, todo, faults>>

GivenUp(j) == pc[j] \in {"failed", "collided"} /\ retries[j] = MaxRetries

Work(j) ==
    \/ Discover(j) \/ EnsureTable(j) \/ CreateTable(j) \/ CreateCollides(j)
    \/ AcquireLock(j) \/ appliedVersions(j)
    \/ \E f \in todo[j] : Skip(j, f) \/ Apply(j, f) \/ Record(j, f)
    \/ Commit(j) \/ Retry(j)

\* Every job has ended.
AllEnded == (\A j \in Jobs : pc[j] = "done" \/ GivenUp(j)) /\ UNCHANGED vars

Next ==
    \/ \E j \in Jobs : Work(j) \/ CommitLost(j) \/ JobFails(j)
    \/ AllEnded

Spec == Init /\ [][Next]_vars

\* A pod that has been started runs, and the Job controller replaces it.
FairSpec == Spec /\ \A j \in Jobs : WF_vars(Work(j))

-----------------------------------------------------------------------------
\* What can be migrated: one up file per version, all with valid names and SQL.
Sound(dir) ==
    /\ \A f \in UpFiles(dir) : f.version # None /\ f.sql = "ok"
    /\ \A f, g \in UpFiles(dir) : f.version = g.version => f = g

\* Releases only add migrations: a version that is older than one a release or
\* the database has is one it has too.  Run does not ask for it (migration.go:60);
\* a file that comes late is run after the newer ones.
ReleasesGrow ==
    /\ \A old, new \in Directories : \A f \in UpFiles(old), g \in UpFiles(new) :
         (f.version \in Versions /\ g.version \in Versions /\ f.version < g.version)
         => \E h \in UpFiles(new) : h.version = f.version
    /\ \A run \in Installed :
         /\ \A i, k \in DOMAIN run : i < k => run[i].version < run[k].version
         /\ \A dir \in Directories : \A f \in UpFiles(dir), i \in DOMAIN run :
              (f.version \in Versions /\ f.version < run[i].version)
              => f.version \in VersionsOf(run)

\* The schema has been through exactly the recorded migrations, each of them
\* once and in the order of their versions, whichever jobs raced, failed or were
\* repeated (Run, migration.go:34-85).  The order needs ReleasesGrow.
SchemaMatchesRecord ==
    /\ recorded = VersionsOf(schema)
    /\ \A i, k \in DOMAIN schema : i < k => schema[i].version < schema[k].version

\* A job that reports success leaves a schema with all of its migrations, also
\* when another job has applied some of them meanwhile.
DoneIsMigrated ==
    \A j \in Jobs : pc[j] = "done" => {f.version : f \in UpFiles(directory[j])} \subseteq recorded

\* Jobs do not make each other fail once they have come as far as the lock: a
\* job with a sound directory fails by a fault, or by losing the race to create
\* schema_migrations.
LockedJobsDoNotClash ==
    \A j \in Jobs : (pc[j] = "failed" /\ Sound(directory[j])) => faults > 0

\* A job's migrations become visible together or not at all: whatever step of a
\* job changes the record brings it to all the files of that job.
AllOrNothing ==
    [][recorded' # recorded =>
         \E j \in Jobs :
             /\ pc'[j] # pc[j]
             /\ {f.version : f \in UpFiles(directory[j])} \subseteq recorded']_vars

\* With as many retries as there are faults and collisions, every job with a
\* sound directory ends with success: nobody waits for ever for the lock, the
\* table or a version.
EventuallyMigrated ==
    \A j \in Jobs : Sound(directory[j]) ~> (pc[j] = "done")
=============================================================================
