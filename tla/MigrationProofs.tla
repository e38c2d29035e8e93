--------------------------- MODULE MigrationProofs ---------------------------
(***************************************************************************)
(* Proofs about Migration, for any number of jobs, any directories and any *)
(* number of faults and retries.                                           *)
(*                                                                         *)
(* The advisory lock is what they rest on: only the job that holds it has  *)
(* looked at the record, so what it has read as applied is what is         *)
(* recorded until it commits.                                              *)
(***************************************************************************)
EXTENDS Migration, TLAPS

Looping == {"loop", "record"}

\* Before the loop, with the files found.
Waiting == {"ensure", "creating", "lock", "locked"}

Last(run) == run[Len(run)]

\* One job holds the lock at a time.
LockExclusive ==
    \A i, j \in Jobs : pc[i] \in Holding /\ pc[j] \in Holding => i = j

VersionsIn(files) == {f.version : f \in files}

Named(j) == \A f \in UpFiles(directory[j]) : f.version \in Versions

\* The files the loop is through with are applied or recorded, and what it has
\* recorded are files it is through with.
ThroughWith(j) ==
    /\ todo[j] \subseteq UpFiles(directory[j])
    /\ applied[j] = recorded
    /\ VersionsIn(UpFiles(directory[j]) \ todo[j]) \subseteq applied[j] \cup tx[j].recorded
    /\ tx[j].recorded \subseteq VersionsIn(UpFiles(directory[j]) \ todo[j])

\* The file that has just been run is the one to be recorded.
Recording(j) ==
    /\ tx[j].ran # <<>>
    /\ Last(tx[j].ran) \in todo[j]
    /\ Last(tx[j].ran).version \notin applied[j]
    /\ VersionsOf(tx[j].ran) = tx[j].recorded \cup {Last(tx[j].ran).version}

JobInv(j) ==
    /\ pc[j] \in Waiting \cup Looping => Named(j)
    /\ pc[j] \in Waiting => todo[j] = UpFiles(directory[j])
    /\ pc[j] \notin Looping => tx[j].ran = <<>> /\ tx[j].recorded = {}
    /\ pc[j] \in Looping => ThroughWith(j)
    /\ pc[j] = "loop" => tx[j].recorded = VersionsOf(tx[j].ran)
    /\ pc[j] = "record" => Recording(j)
    /\ pc[j] = "done" => VersionsIn(UpFiles(directory[j])) \subseteq recorded
    /\ pc[j] = "failed" /\ Sound(directory[j]) => faults > 0

\* The inductive invariant.
MigrationInv ==
    /\ TypeOK
    /\ LockExclusive
    /\ \A j \in Jobs : JobInv(j)
    /\ recorded = VersionsOf(schema)

-----------------------------------------------------------------------------
(***************************************************************************)
(* The order of the schema.  The files of a job come by version, so a job  *)
(* by itself keeps it; that a later job does too is up to the releases.    *)
(***************************************************************************)
Increasing(run) == \A i, k \in DOMAIN run : i < k => run[i].version < run[k].version

\* What a job has run comes in order, and nothing is left that comes before it.
RunsInOrder(j) ==
    /\ \A i \in DOMAIN tx[j].ran : \A f \in todo[j] : tx[j].ran[i].version <= f.version
    /\ pc[j] = "loop" => Increasing(tx[j].ran)
    /\ pc[j] = "record" =>
         \A i, k \in DOMAIN tx[j].ran : i < k =>
            /\ tx[j].ran[i].version \in tx[j].recorded
            /\ k < Len(tx[j].ran) => tx[j].ran[i].version < tx[j].ran[k].version

\* What a job has run is not recorded yet.
RunsNew(j) == \A i \in DOMAIN tx[j].ran : tx[j].ran[i].version \notin applied[j]

\* No release has a file that is older than a recorded one and not recorded.
NothingSkipped ==
    \A v \in recorded : \A dir \in Directories : \A f \in UpFiles(dir) :
        (f.version \in Versions /\ f.version < v) => f.version \in recorded

OrderInv ==
    /\ \A j \in Jobs : pc[j] \in Looping => RunsInOrder(j) /\ RunsNew(j)
    /\ NothingSkipped
    /\ Increasing(schema)

-----------------------------------------------------------------------------
\* What the migrations of a longer run are.
LEMMA VersionsAppend ==
    ASSUME NEW run \in Seq(Files), NEW f \in Files
    PROVE  VersionsOf(Append(run, f)) = VersionsOf(run) \cup {f.version}
<1>1. /\ Len(run) \in Nat /\ DOMAIN run = 1..Len(run)
      /\ DOMAIN Append(run, f) = 1..(Len(run) + 1)
      /\ \A i \in 1..Len(run) : Append(run, f)[i] = run[i]
      /\ Append(run, f)[Len(run) + 1] = f
  OBVIOUS
<1> HIDE DEF Files
<1>2. ASSUME NEW v \in VersionsOf(Append(run, f)) PROVE v \in VersionsOf(run) \cup {f.version}
  BY <1>1, <1>2 DEF VersionsOf
<1>3. ASSUME NEW v \in VersionsOf(run) \cup {f.version} PROVE v \in VersionsOf(Append(run, f))
  BY <1>1, <1>3 DEF VersionsOf
<1> QED
  BY <1>2, <1>3

\* The versions of two runs of files, one after the other.
LEMMA VersionsConcat ==
    ASSUME NEW run \in Seq(Files), NEW more \in Seq(Files)
    PROVE  VersionsOf(run \o more) = VersionsOf(run) \cup VersionsOf(more)
<1> DEFINE all == run \o more
<1>1. /\ Len(run) \in Nat /\ DOMAIN run = 1..Len(run)
      /\ Len(more) \in Nat /\ DOMAIN more = 1..Len(more)
      /\ DOMAIN all = 1..(Len(run) + Len(more))
      /\ \A i \in 1..Len(run) : all[i] = run[i]
  OBVIOUS
<1>2. \A i \in 1..Len(more) : all[Len(run) + i] = more[i] /\ Len(run) + i \in DOMAIN all
  BY <1>1
<1>3. \A i \in DOMAIN all : i \notin DOMAIN run =>
        i - Len(run) \in DOMAIN more /\ all[i] = more[i - Len(run)]
  BY <1>1
<1> HIDE DEF all
<1>4. ASSUME NEW v \in VersionsOf(all) PROVE v \in VersionsOf(run) \cup VersionsOf(more)
  BY <1>1, <1>3, <1>4 DEF VersionsOf
<1>5. ASSUME NEW v \in VersionsOf(run) PROVE v \in VersionsOf(all)
  BY <1>1, <1>5 DEF VersionsOf
<1>6. ASSUME NEW v \in VersionsOf(more) PROVE v \in VersionsOf(all)
  BY <1>1, <1>2, <1>6 DEF VersionsOf
<1> QED
  BY <1>4, <1>5, <1>6 DEF all

-----------------------------------------------------------------------------
(***************************************************************************)
(* The inductive step.  What a job does besides committing concerns nobody *)
(* else, as long as it respects the lock.                                  *)
(***************************************************************************)
\* A step of job j alone.
Others(j) ==
    /\ directory' = directory
    /\ faults' >= faults
    /\ \A i \in Jobs \ {j} :
         /\ pc'[i] = pc[i] /\ tx'[i] = tx[i] /\ applied'[i] = applied[i] /\ todo'[i] = todo[i]

\* The initial states satisfy the invariant.
LEMMA InitMigrationInv == Init => MigrationInv
<1> SUFFICES ASSUME Init PROVE MigrationInv
  OBVIOUS
<1>1. schema \in Seq(Files) /\ VersionsOf(schema) \subseteq Versions
  <2> DEFINE Old == [version: Versions, name: {"a"}, up: {TRUE}, sql: {"ok"}]
  <2>1. schema \in Seq(Old)
    BY MigrationAssumption DEF Init
  <2>2. Old \subseteq Files /\ \A f \in Old : f.version \in Versions
    BY DEF Files
  <2> HIDE DEF Old
  <2>3. \A i \in DOMAIN schema : schema[i] \in Old
    BY <2>1
  <2>4. schema \in Seq(Files)
    BY <2>1, <2>2
  <2> QED
    BY <2>2, <2>3, <2>4 DEF VersionsOf
<1>2. TypeOK
  BY <1>1, MigrationAssumption DEF Init, TypeOK, NoTx, Transactions, Places
<1>3. \A j \in Jobs : JobInv(j)
  BY DEF Init, JobInv, NoTx, Waiting, Looping
<1> QED
  BY <1>2, <1>3 DEF MigrationInv, LockExclusive, Init, Holding

\* A step that leaves the database alone keeps the invariant if it keeps it for
\* the job that takes it.
LEMMA AloneKeeps ==
    ASSUME MigrationInv, NEW j \in Jobs, TypeOK', Others(j), UNCHANGED <<recorded, schema>>,
           JobInv(j)',
           pc'[j] \in Holding => pc[j] \in Holding \/ LockFree(j)
    PROVE  MigrationInv'
<1>1. \A i \in Jobs \ {j} : JobInv(i)'
  <2> SUFFICES ASSUME NEW i \in Jobs \ {j} PROVE JobInv(i)'
    OBVIOUS
  <2>1. JobInv(i) /\ faults \in Nat /\ faults' \in Nat
    BY DEF MigrationInv, TypeOK
  <2>2. /\ pc'[i] = pc[i] /\ tx'[i] = tx[i] /\ applied'[i] = applied[i] /\ todo'[i] = todo[i]
        /\ directory' = directory /\ recorded' = recorded /\ faults' >= faults
    BY DEF Others
  <2>3. /\ Named(i)' <=> Named(i)
        /\ ThroughWith(i)' <=> ThroughWith(i)
        /\ Recording(i)' <=> Recording(i)
    BY <2>2 DEF Named, ThroughWith, Recording
  <2>4. pc[i] = "failed" /\ Sound(directory[i]) => faults' > 0
    BY <2>1, <2>2 DEF JobInv
  <2> QED
    BY <2>1, <2>2, <2>3, <2>4 DEF JobInv
<1>2. LockExclusive'
  BY DEF MigrationInv, LockExclusive, Others, LockFree
<1>3. recorded' = VersionsOf(schema)'
  BY DEF MigrationInv, VersionsOf
<1> QED
  BY <1>1, <1>2, <1>3 DEF MigrationInv

\* Finding the files.
LEMMA DiscoverKeeps ==
    ASSUME MigrationInv, NEW j \in Jobs, Discover(j)
    PROVE  MigrationInv'
<1>1. UpFiles(directory[j]) \in SUBSET Files
  BY MigrationAssumption DEF MigrationInv, TypeOK, UpFiles
<1>2. TypeOK'
  BY <1>1 DEF Discover, MigrationInv, TypeOK, Goto, Places, database
<1>3. Others(j)
  BY DEF Discover, MigrationInv, TypeOK, Goto, Others
<1>4. JobInv(j) /\ pc[j] = "start"
  BY DEF MigrationInv, Discover
<1>5. JobInv(j)'
  <2>1. CASE \E f \in UpFiles(directory[j]) : f.version = None
    <3>1. ~Sound(directory[j])
      BY <2>1 DEF Sound
    <3>2. pc'[j] = "failed" /\ tx' = tx /\ directory' = directory
      BY <2>1 DEF Discover, MigrationInv, TypeOK, Goto
    <3> QED
      BY <1>4, <3>1, <3>2 DEF JobInv, Waiting, Looping
  <2>2. CASE \A f \in UpFiles(directory[j]) : f.version # None
    <3>1. pc'[j] = "ensure" /\ tx' = tx /\ directory' = directory
          /\ todo'[j] = UpFiles(directory[j])
      BY <2>2 DEF Discover, MigrationInv, TypeOK, Goto
    <3>2. Named(j)'
      BY <2>2, <1>1, <3>1 DEF Named, Files, UpFiles
    <3> QED
      BY <1>4, <3>1, <3>2 DEF JobInv, Waiting, Looping, UpFiles
  <2> QED
    BY <2>1, <2>2
<1> QED
  BY <1>2, <1>3, <1>5, AloneKeeps DEF Discover, database, Holding, Goto, MigrationInv, TypeOK

\* The way to the lock.
LEMMA WaitingKeeps ==
    ASSUME MigrationInv, NEW j \in Jobs, EnsureTable(j) \/ CreateTable(j) \/ AcquireLock(j)
    PROVE  MigrationInv'
<1> USE DEF EnsureTable, CreateTable, AcquireLock
<1>1. TypeOK'
  BY DEF MigrationInv, TypeOK, Goto, Places, database, Transactions
<1>2. Others(j)
  BY DEF MigrationInv, TypeOK, Goto, Others
<1>3. /\ pc[j] \in Waiting /\ pc'[j] \in Waiting
      /\ tx'[j].ran = tx[j].ran /\ tx'[j].recorded = tx[j].recorded
      /\ UNCHANGED <<directory, applied, todo, recorded, schema>>
  BY DEF MigrationInv, TypeOK, Goto, Waiting, database, Transactions
<1>4. JobInv(j)'
  BY <1>3 DEF MigrationInv, JobInv, Waiting, Looping, Named
<1>5. pc'[j] \in Holding => LockFree(j)
  BY DEF MigrationInv, TypeOK, Goto, Holding
<1> QED
  BY <1>1, <1>2, <1>3, <1>4, <1>5, AloneKeeps

\* A job that ends without a commit, rightly.
LEMMA RollbackKeeps ==
    ASSUME MigrationInv, NEW j \in Jobs, NEW place \in {"failed", "collided"},
           Rollback(j, place), UNCHANGED <<directory, database, applied, todo, retries>>,
           faults' \in 0..MaxFaults, faults' >= faults,
           place = "failed" /\ Sound(directory[j]) => faults' > 0
    PROVE  MigrationInv'
<1>1. TypeOK'
  BY DEF MigrationInv, TypeOK, Rollback, Goto, Places, database, Transactions, NoTx
<1>2. Others(j)
  BY DEF MigrationInv, TypeOK, Rollback, Goto, Others
<1>3. tx'[j].ran = <<>> /\ tx'[j].recorded = {} /\ pc'[j] = place
  BY DEF MigrationInv, TypeOK, Rollback, Goto, NoTx
<1>4. JobInv(j)'
  BY <1>3 DEF JobInv, Waiting, Looping
<1> QED
  BY <1>1, <1>2, <1>3, <1>4, AloneKeeps DEF database, Holding

\* The record is read with the lock in hand.
LEMMA ReadKeeps ==
    ASSUME MigrationInv, NEW j \in Jobs, appliedVersions(j)
    PROVE  MigrationInv'
<1> USE DEF appliedVersions
<1>1. TypeOK'
  BY DEF MigrationInv, TypeOK, Goto, Places, database
<1>2. Others(j)
  BY DEF MigrationInv, TypeOK, Goto, Others
<1>3. /\ pc[j] = "locked" /\ pc'[j] = "loop" /\ applied'[j] = recorded
      /\ UNCHANGED <<directory, tx, todo, recorded, schema>>
  BY DEF MigrationInv, TypeOK, Goto, database
<1>4. JobInv(j)
  BY DEF MigrationInv
<1>5. /\ Named(j)' /\ todo'[j] = UpFiles(directory[j])
      /\ tx'[j].ran = <<>> /\ tx'[j].recorded = {}
  BY <1>3, <1>4 DEF JobInv, Waiting, Looping, Named
<1>6. ThroughWith(j)'
  BY <1>3, <1>5 DEF ThroughWith, VersionsIn
<1>7. JobInv(j)'
  BY <1>3, <1>5, <1>6 DEF JobInv, Waiting, Looping, VersionsOf
<1> QED
  BY <1>1, <1>2, <1>3, <1>7, AloneKeeps DEF Holding

\* A file that is applied already.
LEMMA SkipKeeps ==
    ASSUME MigrationInv, NEW j \in Jobs, NEW f \in todo[j], Skip(j, f)
    PROVE  MigrationInv'
<1> USE DEF Skip
<1>1. TypeOK'
  BY DEF MigrationInv, TypeOK, Done, database
<1>2. Others(j)
  BY DEF MigrationInv, TypeOK, Done, Others
<1>3. /\ pc[j] = "loop" /\ todo'[j] = todo[j] \ {f} /\ f.version \in applied[j]
      /\ UNCHANGED <<directory, pc, tx, applied, recorded, schema>>
  BY DEF MigrationInv, TypeOK, Done, Skipped, database
<1>4. JobInv(j)
  BY DEF MigrationInv
<1>5. ThroughWith(j)'
  BY <1>3, <1>4 DEF JobInv, Looping, ThroughWith, VersionsIn
<1>6. JobInv(j)'
  BY <1>3, <1>4, <1>5 DEF JobInv, Waiting, Looping, Named
<1> QED
  BY <1>1, <1>2, <1>3, <1>6, AloneKeeps DEF Holding

\* A file is run; only one the database does not accept ends the job.
LEMMA ApplyKeeps ==
    ASSUME MigrationInv, NEW j \in Jobs, NEW f \in todo[j], Apply(j, f)
    PROVE  MigrationInv'
<1> USE DEF Apply
<1>1. /\ pc[j] = "loop" /\ f.version \notin applied[j] /\ f \in Files
      /\ JobInv(j) /\ todo[j] \subseteq UpFiles(directory[j])
      /\ tx[j].ran \in Seq(Files) /\ faults \in 0..MaxFaults
  BY DEF MigrationInv, TypeOK, Skipped, Transactions, JobInv, Looping, ThroughWith
<1>2. CASE f.sql = "bad" /\ Rollback(j, "failed")
  <2>1. ~Sound(directory[j])
    BY <1>1, <1>2 DEF Sound
  <2> QED
    BY <1>1, <1>2, <2>1, RollbackKeeps, MigrationAssumption
<1>3. CASE /\ tx' = [tx EXCEPT ![j].ran = Append(@, f)]
           /\ Goto(j, "record")
  <2>1. TypeOK'
    <3>1. tx[j] \in Transactions /\ Append(tx[j].ran, f) \in Seq(Files)
      BY <1>1 DEF MigrationInv, TypeOK
    <3>2. tx' = [tx EXCEPT ![j] = [tx[j] EXCEPT !.ran = Append(tx[j].ran, f)]]
      BY <1>3
    <3>3. [tx[j] EXCEPT !.ran = Append(tx[j].ran, f)] \in Transactions
      BY <3>1 DEF Transactions
    <3>4. tx' \in [Jobs -> Transactions]
      BY <3>2, <3>3 DEF MigrationInv, TypeOK
    <3> QED
      BY <1>1, <1>3, <3>4 DEF MigrationInv, TypeOK, Goto, Places, database
  <2>2. Others(j)
    BY <1>3 DEF MigrationInv, TypeOK, Goto, Others
  <2>3. /\ pc'[j] = "record" /\ tx'[j].ran = Append(tx[j].ran, f)
        /\ tx'[j].recorded = tx[j].recorded
        /\ UNCHANGED <<directory, applied, todo, recorded, schema>>
    BY <1>3 DEF MigrationInv, TypeOK, Goto, database, Transactions
  <2>4. /\ tx'[j].ran # <<>> /\ Last(tx'[j].ran) = f
        /\ VersionsOf(tx'[j].ran) = VersionsOf(tx[j].ran) \cup {f.version}
    <3>1. /\ Append(tx[j].ran, f) # <<>>
          /\ Append(tx[j].ran, f)[Len(Append(tx[j].ran, f))] = f
      BY <1>1
    <3>2. VersionsOf(Append(tx[j].ran, f)) = VersionsOf(tx[j].ran) \cup {f.version}
      BY <1>1, VersionsAppend
    <3> QED
      BY <2>3, <3>1, <3>2 DEF Last
  <2>5. Recording(j)'
    BY <1>1, <2>3, <2>4 DEF JobInv, Recording
  <2>6. ThroughWith(j)'
    BY <1>1, <2>3 DEF JobInv, Looping, ThroughWith
  <2>7. JobInv(j)'
    BY <1>1, <2>3, <2>5, <2>6 DEF JobInv, Waiting, Looping, Named
  <2> QED
    BY <1>1, <2>1, <2>2, <2>3, <2>7, AloneKeeps DEF Holding
<1> QED
  BY <1>2, <1>3

\* A sound directory has no second file of a version, and nobody else has
\* recorded one since the record was read: the insert does not conflict.
LEMMA SoundRecords ==
    ASSUME MigrationInv, NEW j \in Jobs, pc[j] = "record", Sound(directory[j]),
           NEW f, f = Last(tx[j].ran)
    PROVE  ~Conflicts(j, f.version)
<1>1. Recording(j) /\ ThroughWith(j)
  BY DEF MigrationInv, JobInv, Looping
<1>2. f \in UpFiles(directory[j]) /\ f \in todo[j] /\ f.version \notin recorded
  BY <1>1 DEF Recording, ThroughWith
<1>3. f.version \notin tx[j].recorded
  BY <1>1, <1>2 DEF Sound, ThroughWith, VersionsIn
<1> QED
  BY <1>2, <1>3 DEF Conflicts

\* The file that was run is recorded.
LEMMA RecordKeeps ==
    ASSUME MigrationInv, NEW j \in Jobs, NEW f \in todo[j], Record(j, f)
    PROVE  MigrationInv'
<1> USE DEF Record
<1>1. /\ pc[j] = "record" /\ JobInv(j) /\ f = Last(tx[j].ran)
      /\ tx[j].ran \in Seq(Files) /\ tx[j].recorded \subseteq Versions /\ faults \in 0..MaxFaults
  BY DEF MigrationInv, TypeOK, Transactions, Last
<1>2. CASE Conflicts(j, f.version) /\ Rollback(j, "failed") /\ UNCHANGED todo
  <2>1. ~Sound(directory[j])
    BY <1>1, <1>2, SoundRecords
  <2> QED
    BY <1>1, <1>2, <2>1, RollbackKeeps, MigrationAssumption
<1>3. CASE /\ tx' = [tx EXCEPT ![j].recorded = @ \cup {f.version}]
           /\ Done(j, f)
           /\ Goto(j, "loop")
  <2>1. f.version \in Versions /\ f \in UpFiles(directory[j])
    BY <1>1 DEF JobInv, Looping, Named, ThroughWith
  <2>2. TypeOK'
    <3>1. tx[j] \in Transactions
      BY DEF MigrationInv, TypeOK
    <3>2. tx' = [tx EXCEPT ![j] = [tx[j] EXCEPT !.recorded = tx[j].recorded \cup {f.version}]]
      BY <1>3
    <3>3. [tx[j] EXCEPT !.recorded = tx[j].recorded \cup {f.version}] \in Transactions
      BY <1>1, <2>1, <3>1 DEF Transactions
    <3>4. tx' \in [Jobs -> Transactions]
      BY <3>2, <3>3 DEF MigrationInv, TypeOK
    <3> QED
      BY <1>1, <1>3, <3>4 DEF MigrationInv, TypeOK, Goto, Done, Places, database
  <2>3. Others(j)
    BY <1>3 DEF MigrationInv, TypeOK, Goto, Done, Others
  <2>4. /\ pc'[j] = "loop" /\ tx'[j].ran = tx[j].ran
        /\ tx'[j].recorded = tx[j].recorded \cup {f.version}
        /\ todo'[j] = todo[j] \ {f}
        /\ UNCHANGED <<directory, applied, recorded, schema>>
    BY <1>3 DEF MigrationInv, TypeOK, Goto, Done, database, Transactions
  <2>5. tx'[j].recorded = VersionsOf(tx'[j].ran)
    BY <1>1, <2>4 DEF JobInv, Recording
  <2>6. ThroughWith(j)'
    BY <1>1, <2>1, <2>4 DEF JobInv, Looping, ThroughWith, VersionsIn
  <2>7. JobInv(j)'
    BY <1>1, <2>4, <2>5, <2>6 DEF JobInv, Waiting, Looping, Named
  <2> QED
    BY <1>1, <2>2, <2>3, <2>4, <2>7, AloneKeeps DEF Holding
<1> QED
  BY <1>2, <1>3

-----------------------------------------------------------------------------
\* What a commit makes visible: all of the job's migrations.
LEMMA CommitFacts ==
    ASSUME MigrationInv, NEW j \in Jobs, CommitTx(j)
    PROVE  /\ pc[j] = "loop"
           /\ recorded' = VersionsOf(schema')
           /\ recorded \subseteq recorded' /\ recorded' \subseteq Versions
           /\ schema' \in Seq(Files)
           /\ VersionsIn(UpFiles(directory[j])) \subseteq recorded'
<1>1. /\ pc[j] = "loop" /\ todo[j] = {} /\ JobInv(j)
      /\ recorded' = recorded \cup tx[j].recorded /\ schema' = schema \o tx[j].ran
      /\ schema \in Seq(Files) /\ tx[j].ran \in Seq(Files)
      /\ recorded \subseteq Versions /\ tx[j].recorded \subseteq Versions
  BY DEF MigrationInv, TypeOK, CommitTx, Transactions
<1>2. recorded' = VersionsOf(schema')
  BY <1>1, VersionsConcat DEF MigrationInv, JobInv
<1>3. VersionsIn(UpFiles(directory[j])) \subseteq recorded'
  BY <1>1 DEF JobInv, Looping, ThroughWith
<1> QED
  BY <1>1, <1>2, <1>3

\* A commit, with or without its answer.
LEMMA CommitKeeps ==
    ASSUME MigrationInv, NEW j \in Jobs, Commit(j) \/ CommitLost(j)
    PROVE  MigrationInv'
<1>1. CommitTx(j) /\ table' = TRUE /\ UNCHANGED <<directory, applied, todo, retries>>
  BY DEF Commit, CommitLost, CommitTx
<1>2. \/ Rollback(j, "done") /\ faults' = faults
      \/ Rollback(j, "failed") /\ faults < MaxFaults /\ faults' = faults + 1
  BY DEF Commit, CommitLost
<1>3. /\ tx' = [tx EXCEPT ![j] = NoTx] /\ pc' = [pc EXCEPT ![j] = pc'[j]]
      /\ pc'[j] \in {"done", "failed"} /\ (pc'[j] = "failed" => faults' > 0)
      /\ faults' \in 0..MaxFaults /\ faults' >= faults
  BY <1>2, MigrationAssumption DEF MigrationInv, TypeOK, Rollback, Goto
<1>4. TypeOK'
  BY <1>1, <1>3, CommitFacts DEF MigrationInv, TypeOK, Places, Transactions, NoTx
<1>5. JobInv(j)'
  <2>1. tx'[j].ran = <<>> /\ tx'[j].recorded = {}
    BY <1>3 DEF MigrationInv, TypeOK, NoTx
  <2> QED
    BY <1>1, <1>3, <2>1, CommitFacts DEF JobInv, Waiting, Looping
<1>6. ASSUME NEW i \in Jobs \ {j} PROVE JobInv(i)'
  <2>1. JobInv(i) /\ pc[i] \notin Looping /\ faults \in Nat /\ faults' \in Nat
    BY <1>1, <1>3, CommitFacts DEF MigrationInv, LockExclusive, Holding, Looping, TypeOK
  <2>2. pc'[i] = pc[i] /\ tx'[i] = tx[i] /\ todo'[i] = todo[i] /\ directory' = directory
    BY <1>1, <1>3 DEF MigrationInv, TypeOK
  <2>3. recorded \subseteq recorded' /\ (Named(i)' <=> Named(i))
    BY <1>1, <2>2, CommitFacts DEF Named
  <2>4. pc[i] = "failed" /\ Sound(directory[i]) => faults' > 0
    BY <1>3, <2>1 DEF JobInv
  <2> QED
    BY <2>1, <2>2, <2>3, <2>4 DEF JobInv, Looping
<1>7. LockExclusive'
  BY <1>3 DEF MigrationInv, TypeOK, LockExclusive, Holding
<1> QED
  BY <1>1, <1>4, <1>5, <1>6, <1>7, CommitFacts DEF MigrationInv, VersionsOf

\* Another pod begins from the start.
LEMMA RetryKeeps ==
    ASSUME MigrationInv, NEW j \in Jobs, Retry(j)
    PROVE  MigrationInv'
<1> USE DEF Retry
<1>1. TypeOK'
  BY MigrationAssumption DEF MigrationInv, TypeOK, Goto, Places, database
<1>2. Others(j)
  BY DEF MigrationInv, TypeOK, Goto, Others
<1>3. /\ pc[j] \in {"failed", "collided"} /\ pc'[j] = "start" /\ UNCHANGED <<tx, recorded, schema>>
  BY DEF MigrationInv, TypeOK, Goto, database
<1>4. JobInv(j)'
  BY <1>3 DEF MigrationInv, JobInv, Waiting, Looping
<1> QED
  BY <1>1, <1>2, <1>3, <1>4, AloneKeeps DEF Holding

\* Every step keeps the invariant.
LEMMA NextMigrationInv == MigrationInv /\ [Next]_vars => MigrationInv'
<1> SUFFICES ASSUME MigrationInv, [Next]_vars PROVE MigrationInv'
  OBVIOUS
<1>1. CASE UNCHANGED vars
  <2>1. TypeOK' /\ LockExclusive' /\ recorded' = VersionsOf(schema)'
    BY <1>1 DEF vars, database, MigrationInv, TypeOK, LockExclusive, VersionsOf
  <2>2. \A j \in Jobs : JobInv(j)'
    <3> SUFFICES ASSUME NEW j \in Jobs PROVE JobInv(j)'
      OBVIOUS
    <3>1. /\ Named(j)' <=> Named(j)
          /\ ThroughWith(j)' <=> ThroughWith(j)
          /\ Recording(j)' <=> Recording(j)
      BY <1>1 DEF vars, database, Named, ThroughWith, Recording
    <3> QED
      BY <1>1, <3>1 DEF vars, database, MigrationInv, JobInv
  <2> QED
    BY <2>1, <2>2 DEF MigrationInv
<1>2. ASSUME NEW j \in Jobs, CreateCollides(j) PROVE MigrationInv'
  <2>1. faults' = faults /\ faults \in 0..MaxFaults
    BY <1>2 DEF CreateCollides, MigrationInv, TypeOK
  <2>2. Rollback(j, "collided") /\ UNCHANGED <<directory, database, applied, todo, retries>>
    BY <1>2 DEF CreateCollides
  <2> QED
    BY <2>1, <2>2, RollbackKeeps, MigrationAssumption
<1>3. ASSUME NEW j \in Jobs, JobFails(j) PROVE MigrationInv'
  <2>1. faults' \in 0..MaxFaults /\ faults' >= faults /\ faults' > 0
    BY <1>3, MigrationAssumption DEF JobFails, MigrationInv, TypeOK
  <2>2. Rollback(j, "failed") /\ UNCHANGED <<directory, database, applied, todo, retries>>
    BY <1>3 DEF JobFails
  <2> QED
    BY <2>1, <2>2, RollbackKeeps
<1>4. ASSUME NEW j \in Jobs, NEW f \in todo[j], Skip(j, f) \/ Apply(j, f) \/ Record(j, f)
      PROVE  MigrationInv'
  BY <1>4, SkipKeeps, ApplyKeeps, RecordKeeps
<1>5. ASSUME NEW j \in Jobs, Work(j) PROVE MigrationInv'
  BY <1>2, <1>4, <1>5, DiscoverKeeps, WaitingKeeps, ReadKeeps, CommitKeeps, RetryKeeps DEF Work
<1> QED
  BY <1>1, <1>3, <1>5, CommitKeeps DEF Next, AllEnded

\* The invariant holds in every behaviour.
LEMMA AlwaysMigrationInv == Spec => []MigrationInv
BY InitMigrationInv, NextMigrationInv, PTL DEF Spec

\* Every variable keeps its type (Run, migration.go:24-85).
THEOREM TypeCorrect == Spec => []TypeOK
BY AlwaysMigrationInv, PTL DEF MigrationInv

\* The rows of schema_migrations are the migrations the schema has been through,
\* whichever jobs raced, failed or were repeated (migration.go:34-85).
THEOREM RecordMatches == Spec => [](recorded = VersionsOf(schema))
BY AlwaysMigrationInv, PTL DEF MigrationInv

\* A job that reports success leaves a schema with all of its migrations, also
\* when another job has applied some of them meanwhile (migration.go:55-80).
THEOREM SuccessIsMigrated == Spec => []DoneIsMigrated
<1>1. MigrationInv => DoneIsMigrated
  BY DEF MigrationInv, JobInv, VersionsIn, DoneIsMigrated
<1> QED
  BY <1>1, AlwaysMigrationInv, PTL

\* The lock keeps jobs from making each other fail: without a fault, a job with a
\* sound directory fails only by losing the race to create schema_migrations,
\* which comes before the lock (migration.go:40-53).
THEOREM NoClash == Spec => []LockedJobsDoNotClash
<1>1. MigrationInv => LockedJobsDoNotClash
  BY DEF MigrationInv, JobInv, LockedJobsDoNotClash
<1> QED
  BY <1>1, AlwaysMigrationInv, PTL

\* A job's migrations become visible together or not at all (migration.go:34-85).
THEOREM VisibleTogether == Spec => AllOrNothing
<1>1. ASSUME MigrationInv, [Next]_vars, recorded' # recorded
      PROVE  \E j \in Jobs :
               /\ pc'[j] # pc[j]
               /\ {f.version : f \in UpFiles(directory[j])} \subseteq recorded'
  <2>1. PICK j \in Jobs : Commit(j) \/ CommitLost(j)
    BY <1>1 DEF Next, vars, database, AllEnded, Work, Discover, EnsureTable, CreateTable,
         CreateCollides, AcquireLock, appliedVersions, Skip, Apply, Record, Commit, Retry,
         CommitLost, JobFails
  <2>2. CommitTx(j) /\ pc'[j] # pc[j]
    BY <1>1, <2>1 DEF Commit, CommitLost, CommitTx, Rollback, Goto, MigrationInv, TypeOK
  <2> QED
    BY <1>1, <2>1, <2>2, CommitFacts DEF VersionsIn
<1> QED
  BY <1>1, AlwaysMigrationInv, PTL DEF Spec, AllOrNothing

-----------------------------------------------------------------------------
(***************************************************************************)
(* The order, for releases that only add migrations.                       *)
(***************************************************************************)
\* The initial states are in order.
LEMMA InitOrder == ReleasesGrow /\ Init => OrderInv
<1> SUFFICES ASSUME ReleasesGrow, Init PROVE OrderInv
  OBVIOUS
<1>1. schema \in Installed /\ recorded = VersionsOf(schema) /\ \A j \in Jobs : pc[j] = "start"
  BY DEF Init
<1>2. Increasing(schema)
  BY <1>1 DEF ReleasesGrow, Increasing
<1>3. NothingSkipped
  BY <1>1 DEF ReleasesGrow, NothingSkipped, VersionsOf
<1> QED
  BY <1>1, <1>2, <1>3 DEF OrderInv, Looping

\* A step that leaves the database alone keeps the order if it keeps that of the
\* job that takes it.
LEMMA AloneOrder ==
    ASSUME OrderInv, NEW j \in Jobs, Others(j), UNCHANGED <<recorded, schema>>,
           pc'[j] \in Looping => RunsInOrder(j)' /\ RunsNew(j)'
    PROVE  OrderInv'
<1>1. ASSUME NEW i \in Jobs \ {j}, pc'[i] \in Looping PROVE RunsInOrder(i)' /\ RunsNew(i)'
  <2>1. /\ pc'[i] = pc[i] /\ tx'[i] = tx[i] /\ applied'[i] = applied[i] /\ todo'[i] = todo[i]
    BY DEF Others
  <2>2. RunsInOrder(i) /\ RunsNew(i)
    BY <1>1, <2>1 DEF OrderInv
  <2>3. (RunsInOrder(i)' <=> RunsInOrder(i)) /\ (RunsNew(i)' <=> RunsNew(i))
    BY <2>1 DEF RunsInOrder, RunsNew, Increasing
  <2> QED
    BY <2>2, <2>3
<1>2. NothingSkipped' /\ Increasing(schema)'
  BY DEF OrderInv, NothingSkipped, Increasing
<1> QED
  BY <1>1, <1>2 DEF OrderInv

\* Running the next file keeps the order of what has run.
LEMMA ApplyOrder ==
    ASSUME MigrationInv, OrderInv, NEW j \in Jobs, NEW f \in todo[j], Apply(j, f),
           pc'[j] = "record"
    PROVE  RunsInOrder(j)' /\ RunsNew(j)'
<1>1. /\ pc[j] = "loop" /\ f.version \notin applied[j] /\ f \in Files
      /\ \A g \in todo[j] : f.version <= g.version
      /\ tx[j].ran \in Seq(Files) /\ JobInv(j)
      /\ RunsInOrder(j) /\ RunsNew(j)
  BY DEF Apply, Skipped, NextFile, MigrationInv, TypeOK, Transactions, OrderInv, Looping
<1>2. /\ tx'[j].ran = Append(tx[j].ran, f) /\ tx'[j].recorded = tx[j].recorded
      /\ applied' = applied /\ todo' = todo
  BY DEF Apply, Rollback, Goto, MigrationInv, TypeOK, Transactions
<1>3. tx[j].recorded = VersionsOf(tx[j].ran)
  BY <1>1 DEF JobInv
<1> DEFINE n == Len(tx[j].ran)
           ran == tx[j].ran
<1>4. /\ n \in Nat /\ DOMAIN ran = 1..n /\ DOMAIN Append(ran, f) = 1..(n + 1)
      /\ Len(Append(ran, f)) = n + 1
      /\ \A i \in 1..n : Append(ran, f)[i] = ran[i]
      /\ Append(ran, f)[n + 1] = f
  BY <1>1
<1> HIDE DEF n
<1>5. \A i \in 1..(n + 1) : i <= n \/ i = n + 1
  BY <1>4
<1>6. RunsNew(j)'
  BY <1>1, <1>2, <1>4, <1>5 DEF RunsNew
<1>7. \A i \in 1..(n + 1) : \A g \in todo[j] : Append(ran, f)[i].version <= g.version
  BY <1>1, <1>4, <1>5 DEF RunsInOrder
<1>8. \A i, k \in 1..(n + 1) : i < k =>
        /\ Append(ran, f)[i].version \in tx[j].recorded
        /\ k < n + 1 => Append(ran, f)[i].version < Append(ran, f)[k].version
  <2> SUFFICES ASSUME NEW i \in 1..(n + 1), NEW k \in 1..(n + 1), i < k
               PROVE  /\ Append(ran, f)[i].version \in tx[j].recorded
                      /\ k < n + 1 => Append(ran, f)[i].version < Append(ran, f)[k].version
    OBVIOUS
  <2>1. i \in 1..n /\ (k < n + 1 => k \in 1..n)
    BY <1>4
  <2>2. ran[i].version \in tx[j].recorded
    BY <1>3, <1>4, <2>1 DEF VersionsOf
  <2>3. k < n + 1 => ran[i].version < ran[k].version
    BY <1>1, <1>4, <2>1 DEF RunsInOrder, Increasing
  <2> QED
    BY <1>4, <2>1, <2>2, <2>3
<1> QED
  BY <1>2, <1>4, <1>6, <1>7, <1>8 DEF RunsInOrder

\* A file that does not conflict is newer than those before it.
LEMMA RecordOrder ==
    ASSUME MigrationInv, OrderInv, NEW j \in Jobs, NEW f \in todo[j], Record(j, f),
           pc'[j] = "loop"
    PROVE  RunsInOrder(j)' /\ RunsNew(j)'
<1>1. /\ pc[j] = "record" /\ f = Last(tx[j].ran) /\ JobInv(j)
      /\ tx[j].ran \in Seq(Files) /\ RunsInOrder(j) /\ RunsNew(j)
  BY DEF Record, Last, MigrationInv, TypeOK, Transactions, OrderInv, Looping
<1>2. /\ f.version \notin tx[j].recorded /\ tx'[j].ran = tx[j].ran
      /\ applied' = applied /\ todo'[j] = todo[j] \ {f}
  BY DEF Record, Conflicts, Rollback, Goto, Done, MigrationInv, TypeOK, Transactions
<1>3. f.version \in Versions /\ Versions \subseteq Nat
  BY <1>1, MigrationAssumption DEF JobInv, Looping, Named, ThroughWith
<1>4. ASSUME NEW i \in DOMAIN tx[j].ran, NEW k \in DOMAIN tx[j].ran, i < k
      PROVE  tx[j].ran[i].version < tx[j].ran[k].version
  <2>1. /\ tx[j].ran[i].version \in tx[j].recorded /\ tx[j].recorded \subseteq Versions
        /\ k < Len(tx[j].ran) => tx[j].ran[i].version < tx[j].ran[k].version
    BY <1>1, <1>4 DEF RunsInOrder, MigrationInv, TypeOK, Transactions
  <2>2. CASE k < Len(tx[j].ran)
    BY <2>1, <2>2
  <2>3. CASE k = Len(tx[j].ran)
    <3>1. tx[j].ran[k] = f /\ tx[j].ran[i].version <= f.version
      BY <1>1, <2>3 DEF Last, RunsInOrder
    <3>2. tx[j].ran[i].version # f.version /\ tx[j].ran[i].version \in Nat
      BY <1>2, <1>3, <2>1
    <3>3. \A a, b \in Nat : a <= b /\ a # b => a < b
      OBVIOUS
    <3>4. f.version \in Nat
      BY <1>3
    <3>5. tx[j].ran[i].version < f.version
      BY <3>1, <3>2, <3>3, <3>4
    <3> QED
      BY <3>1, <3>5
  <2>4. k \in 1..Len(tx[j].ran)
    BY <1>1
  <2> QED
    BY <1>1, <2>2, <2>3, <2>4
<1> QED
  BY <1>1, <1>2, <1>4 DEF RunsInOrder, RunsNew, Increasing

\* What a job commits is newer than what is recorded.
LEMMA CommitOrder ==
    ASSUME ReleasesGrow, MigrationInv, OrderInv, NEW j \in Jobs, CommitTx(j)
    PROVE  NothingSkipped' /\ Increasing(schema)'
<1>1. /\ pc[j] = "loop" /\ JobInv(j) /\ todo[j] = {}
      /\ recorded' = recorded \cup tx[j].recorded /\ schema' = schema \o tx[j].ran
      /\ schema \in Seq(Files) /\ tx[j].ran \in Seq(Files)
      /\ RunsInOrder(j) /\ RunsNew(j) /\ directory[j] \in Directories
  BY DEF MigrationInv, TypeOK, CommitTx, Transactions, OrderInv, Looping
<1>2. /\ tx[j].recorded = VersionsOf(tx[j].ran)
      /\ tx[j].recorded \subseteq VersionsIn(UpFiles(directory[j]))
      /\ VersionsIn(UpFiles(directory[j])) \subseteq recorded'
      /\ Named(j) /\ applied[j] = recorded
  BY <1>1, CommitFacts DEF JobInv, Looping, ThroughWith, VersionsIn
<1>3. recorded \subseteq Versions /\ Versions \subseteq Nat /\ recorded = VersionsOf(schema)
  BY MigrationAssumption DEF MigrationInv, TypeOK
<1>4. NothingSkipped'
  <2> SUFFICES ASSUME NEW v \in recorded', NEW dir \in Directories, NEW f \in UpFiles(dir),
                      f.version \in Versions, f.version < v
               PROVE  f.version \in recorded'
    BY DEF NothingSkipped
  <2>1. CASE v \in recorded
    BY <1>1, <2>1 DEF OrderInv, NothingSkipped
  <2>2. CASE v \in tx[j].recorded
    <3>1. PICK g \in UpFiles(directory[j]) : g.version = v /\ v \in Versions
      BY <1>2, <2>2 DEF VersionsIn, Named
    <3>2. \E h \in UpFiles(directory[j]) : h.version = f.version
      BY <1>1, <3>1 DEF ReleasesGrow
    <3> QED
      BY <1>2, <3>2 DEF VersionsIn
  <2> QED
    BY <1>1, <2>1, <2>2
<1>5. \A i \in DOMAIN schema, k \in DOMAIN tx[j].ran : schema[i].version < tx[j].ran[k].version
  <2> SUFFICES ASSUME NEW i \in DOMAIN schema, NEW k \in DOMAIN tx[j].ran
               PROVE  schema[i].version < tx[j].ran[k].version
    OBVIOUS
  <2>1. schema[i].version \in recorded /\ tx[j].ran[k].version \notin recorded
    BY <1>1, <1>2, <1>3 DEF VersionsOf, RunsNew
  <2>2. tx[j].ran[k].version \in VersionsIn(UpFiles(directory[j]))
    BY <1>2 DEF VersionsOf
  <2>3. PICK f \in UpFiles(directory[j]) : f.version = tx[j].ran[k].version
    BY <2>2 DEF VersionsIn
  <2>4. f.version \in Versions /\ ~(f.version < schema[i].version)
    BY <1>1, <1>2, <2>1, <2>3 DEF Named, OrderInv, NothingSkipped
  <2>5. f.version # schema[i].version /\ f.version \in Nat /\ schema[i].version \in Nat
    BY <1>3, <2>1, <2>3, <2>4
  <2> QED
    BY <2>3, <2>4, <2>5
<1>6. Increasing(schema)'
  <2> DEFINE m == Len(schema)
             n == Len(tx[j].ran)
             all == schema \o tx[j].ran
  <2>1. /\ m \in Nat /\ n \in Nat /\ DOMAIN schema = 1..m /\ DOMAIN tx[j].ran = 1..n
        /\ DOMAIN all = 1..(m + n)
        /\ \A i \in 1..m : all[i] = schema[i]
    BY <1>1
  <2>2. \A i \in 1..(m + n) : i > m => i - m \in 1..n /\ all[i] = tx[j].ran[i - m]
    BY <1>1
  <2>3. Increasing(schema) /\ Increasing(tx[j].ran)
    BY <1>1 DEF OrderInv, RunsInOrder
  <2> HIDE DEF m, n, all
  <2>4. ASSUME NEW i \in 1..(m + n), NEW k \in 1..(m + n), i < k
        PROVE  all[i].version < all[k].version
    <3>1. CASE k <= m
      BY <2>1, <2>3, <2>4, <3>1 DEF Increasing
    <3>2. CASE i <= m /\ k > m
      <4>1. i \in 1..m /\ k - m \in 1..n /\ all[i] = schema[i] /\ all[k] = tx[j].ran[k - m]
        BY <2>1, <2>2, <2>4, <3>2
      <4>2. schema[i].version < tx[j].ran[k - m].version
        BY <1>5, <2>1, <4>1
      <4> QED
        BY <4>1, <4>2
    <3>3. CASE i > m
      <4>1. i - m \in 1..n /\ k - m \in 1..n /\ i - m < k - m /\ k > m
        BY <2>1, <2>2, <2>4, <3>3
      <4> QED
        BY <2>1, <2>2, <2>3, <3>3, <4>1 DEF Increasing
    <3> QED
      BY <2>1, <3>1, <3>2, <3>3
  <2>5. Increasing(all)
    BY <2>1, <2>4 DEF Increasing
  <2> QED
    BY <1>1, <2>5 DEF all, Increasing
<1> QED
  BY <1>4, <1>6

\* Every step keeps the order.
LEMMA NextOrder ==
    ReleasesGrow /\ MigrationInv /\ OrderInv /\ [Next]_vars => OrderInv'
<1> SUFFICES ASSUME ReleasesGrow, MigrationInv, OrderInv, [Next]_vars PROVE OrderInv'
  OBVIOUS
<1>1. CASE UNCHANGED vars
  <2>1. \A j \in Jobs : (RunsInOrder(j)' <=> RunsInOrder(j)) /\ (RunsNew(j)' <=> RunsNew(j))
    BY <1>1 DEF vars, RunsInOrder, RunsNew, Increasing
  <2> QED
    BY <1>1, <2>1 DEF vars, database, OrderInv, NothingSkipped, Increasing
<1>2. ASSUME NEW j \in Jobs, Discover(j) \/ EnsureTable(j) \/ CreateTable(j) \/ AcquireLock(j)
                              \/ CreateCollides(j) \/ Retry(j) \/ JobFails(j)
      PROVE  OrderInv'
  <2>1. Others(j) /\ pc'[j] \notin Looping /\ UNCHANGED <<recorded, schema>>
    BY <1>2 DEF Discover, EnsureTable, CreateTable, AcquireLock, CreateCollides, Retry, JobFails,
         Rollback, Goto, Others, Looping, MigrationInv, TypeOK, database
  <2> QED
    BY <2>1, AloneOrder
<1>3. ASSUME NEW j \in Jobs, appliedVersions(j) PROVE OrderInv'
  <2>1. Others(j) /\ UNCHANGED <<recorded, schema>> /\ tx'[j].ran = <<>> /\ pc'[j] = "loop"
    BY <1>3 DEF appliedVersions, Goto, Others, MigrationInv, TypeOK, database, JobInv, Looping
  <2>2. RunsInOrder(j)' /\ RunsNew(j)'
    BY <2>1 DEF RunsInOrder, RunsNew, Increasing
  <2> QED
    BY <2>1, <2>2, AloneOrder
<1>4. ASSUME NEW j \in Jobs, NEW f \in todo[j], Skip(j, f) PROVE OrderInv'
  <2>1. /\ Others(j) /\ UNCHANGED <<recorded, schema, pc, tx, applied>>
        /\ todo'[j] \subseteq todo[j] /\ pc[j] = "loop"
    BY <1>4 DEF Skip, Done, Others, MigrationInv, TypeOK, database
  <2>2. RunsInOrder(j) /\ RunsNew(j)
    BY <2>1 DEF OrderInv, Looping
  <2>3. RunsInOrder(j)' /\ RunsNew(j)'
    BY <2>1, <2>2 DEF RunsInOrder, RunsNew, Increasing
  <2> QED
    BY <2>1, <2>3, AloneOrder
<1>5. ASSUME NEW j \in Jobs, NEW f \in todo[j], Apply(j, f) PROVE OrderInv'
  <2>1. Others(j) /\ UNCHANGED <<recorded, schema>> /\ pc'[j] \in {"failed", "record"}
    BY <1>5 DEF Apply, Rollback, Goto, Others, MigrationInv, TypeOK, database
  <2> QED
    BY <1>5, <2>1, ApplyOrder, AloneOrder DEF Looping
<1>6. ASSUME NEW j \in Jobs, NEW f \in todo[j], Record(j, f) PROVE OrderInv'
  <2>1. Others(j) /\ UNCHANGED <<recorded, schema>> /\ pc'[j] \in {"failed", "loop"}
    BY <1>6 DEF Record, Rollback, Goto, Done, Others, MigrationInv, TypeOK, database
  <2> QED
    BY <1>6, <2>1, RecordOrder, AloneOrder DEF Looping
<1>7. ASSUME NEW j \in Jobs, Commit(j) \/ CommitLost(j) PROVE OrderInv'
  <2>1. CommitTx(j) /\ pc[j] \in Holding /\ pc'[j] \notin Looping
        /\ \A i \in Jobs \ {j} : pc'[i] = pc[i]
    BY <1>7 DEF Commit, CommitLost, CommitTx, Rollback, Goto, MigrationInv, TypeOK, Looping, Holding
  <2>2. \A i \in Jobs \ {j} : pc[i] \notin Looping
    BY <2>1 DEF MigrationInv, LockExclusive, Holding, Looping
  <2> QED
    BY <2>1, <2>2, CommitOrder DEF OrderInv
<1>8. ASSUME NEW j \in Jobs, Work(j) PROVE OrderInv'
  BY <1>2, <1>3, <1>4, <1>5, <1>6, <1>7, <1>8 DEF Work
<1> QED
  BY <1>1, <1>2, <1>7, <1>8 DEF Next, AllEnded

\* If releases only add migrations, the schema has been through exactly the
\* recorded ones, each of them once and in the order of their versions, whichever
\* jobs raced, failed or were repeated (migration.go:34-85).
THEOREM SchemaInOrder == ReleasesGrow => (Spec => []SchemaMatchesRecord)
<1> SUFFICES ASSUME ReleasesGrow PROVE Spec => []SchemaMatchesRecord
  OBVIOUS
<1>1. Init => OrderInv
  BY InitOrder
<1>2. MigrationInv /\ OrderInv /\ [Next]_vars => OrderInv'
  BY NextOrder
<1>3. MigrationInv /\ OrderInv => SchemaMatchesRecord
  BY DEF MigrationInv, OrderInv, Increasing, SchemaMatchesRecord
<1> QED
  BY <1>1, <1>2, <1>3, AlwaysMigrationInv, PTL DEF Spec
=============================================================================
