---------------------------- MODULE DeltaCommit ----------------------------
(***************************************************************************)
(* Concurrent writers of one Delta table: planning on a snapshot, the      *)
(* optimistic commit loop with its conflict check, and the work after a    *)
(* commit (checkpoint, hint, clean-up of expired log files, compaction).   *)
(*                                                                         *)
(* The store is an object store: each step of a writer is one read, one    *)
(* listing or one put.  A writer that takes no more steps has crashed.     *)
(* The header of a version is read from its checksum file, exactly, or by  *)
(* a full replay.  The tables have in-commit timestamps.                   *)
(***************************************************************************)
EXTENDS DeltaLog

CONSTANTS
    Writer,
    Headers,              \* protocol and metadata, as one value
    Directories,          \* the directories that behaviours start from
    MaxRetries,           \* CommitProperties::max_retries
    CheckpointInterval,   \* delta.checkpointInterval
    CompactionInterval,   \* delta.logCompactionInterval, 0 when it is not set
    TombstonesExpire,     \* whether removes outlive their retention unnoticed
    MaxLost,              \* bound: how many puts lose their answer
    Clock                 \* what a writer's clock may say

ASSUME DeltaAssumption ==
    /\ NoHeader \notin Headers
    /\ MaxRetries \in Nat /\ MaxLost \in Nat
    /\ CheckpointInterval \in Nat \ {0} /\ CompactionInterval \in Nat
    /\ TombstonesExpire \in BOOLEAN
    /\ Clock \subseteq Nat

VARIABLES
    dir,     \* the _delta_log directory
    writer,  \* where each writer is and what it knows
    lost     \* puts that have lost their answer

vars == <<dir, writer, lost>>

\* base: the version of read_snapshot; timestamp: its commit timestamp; target:
\* the latest version as last listed; version: what was committed.
NewWriter ==
    [pc |-> "idle", kind |-> "none", planned |-> NoHeader, sets |-> NoHeader, removes |-> {},
     base |-> None, timestamp |-> None, target |-> None, attempts |-> 0, version |-> None]

Init == dir \in Directories /\ writer = [w \in Writer |-> NewWriter] /\ lost = 0

Goto(w, pc) == writer' = [writer EXCEPT ![w].pc = pc]
Set(w, record) == writer' = [writer EXCEPT ![w] = record]

\* What a writer knew is gone when it has answered.
Fail(w) == Set(w, [NewWriter EXCEPT !.pc = "failed"])
Answer(w) == Set(w, [NewWriter EXCEPT !.pc = "done", !.version = writer[w].version])

Timestamp(v) == dir.log[v + 1].timestamp
Header(v) == Version(dir, v).header

-----------------------------------------------------------------------------
(* Planning.                                                               *)

\* A write to a path without a table creates one, whatever its mode.
PlanCreate(w) ==
    /\ LatestVersion(dir) = None
    /\ \E h \in Headers :
         Set(w, [NewWriter EXCEPT !.pc = "list", !.kind = "create", !.planned = h, !.sets = h])

PlanOn(w, kind, sets) ==
    LET latest == LatestVersion(dir)
        planned == [NewWriter EXCEPT !.kind = kind, !.planned = Header(latest), !.sets = sets,
                                     !.base = latest, !.timestamp = Timestamp(latest)]
    IN  Set(w, [planned EXCEPT !.pc = IF kind \in {"overwrite", "rewrite"} THEN "scan" ELSE "list"])

Plan(w) ==
    /\ writer[w].pc = "idle"
    /\ \/ PlanCreate(w)
       \/ /\ LatestVersion(dir) # None
          /\ \/ \E kind \in {"append", "overwrite", "rewrite"} : PlanOn(w, kind, NoHeader)
             \/ \E h \in Headers \ {Header(LatestVersion(dir))} : PlanOn(w, "alter", h)
    /\ UNCHANGED <<dir, lost>>

\* An overwrite removes every file of its scan; a DELETE or a MERGE rewrites
\* one that it matches, and commits nothing without a match.
Scan(w) ==
    LET files == ScanFiles(dir, writer[w].base)
        overwrites == writer[w].kind = "overwrite"
    IN  /\ writer[w].pc = "scan"
        /\ \/ /\ files # {}
              /\ \E removes \in IF overwrites THEN {files} ELSE {{f} : f \in files} :
                   Set(w, [writer[w] EXCEPT !.pc = "load", !.removes = removes])
           \/ files = {} /\ overwrites /\ Goto(w, "list")
           \/ files = {} /\ ~overwrites /\ Answer(w)
        /\ UNCHANGED <<dir, lost>>

\* full_snapshot_task, which a commit with removes waits for.
LoadBase(w) ==
    LET v == writer[w].base
    IN  /\ writer[w].pc = "load"
        /\ IF CanLoadState(dir, v)
           THEN Set(w, [writer[w] EXCEPT !.pc = "list", !.timestamp = ReplayedTimestamp(dir, v)])
           ELSE Fail(w)
        /\ UNCHANGED <<dir, lost>>

-----------------------------------------------------------------------------
(* PreparedCommit: the commit loop.                                        *)

\* CommitData::is_blind_append: a write that only adds files.
IsBlindAppend(record) == record.kind \in {"append", "overwrite"} /\ record.removes = {}

\* Mutant: every commit is tried again.
RetriesAlways(record) == MaxRetries

\* effective_max_retries
Retries(record) == IF record.kind = "create" \/ IsBlindAppend(record) THEN MaxRetries ELSE 0

List(w) ==
    LET latest == LatestVersion(dir)
    IN  /\ writer[w].pc = "list"
        /\ Set(w, [writer[w] EXCEPT !.pc = "check", !.attempts = @ + 1,
                                    !.target = IF latest >= writer[w].base THEN latest ELSE None])
        /\ UNCHANGED <<dir, lost>>

\* ConflictChecker::check_conflicts against one winning commit, for the writers
\* that come this far: none of them has a header or removes to commit.  Only a
\* creator's snapshot, which is a full one (taken to be exact), lists files as read.
ConflictsWith(record, winner) ==
    \/ winner.header # NoHeader
    \/ record.kind = "create" /\ winner.removes \cap Version(dir, record.base).adds # {}

Conflicts(record) ==
    \E v \in record.base + 1 .. record.target : ConflictsWith(record, dir.log[v + 1])

\* The timestamp of a snapshot is replayed in a full load, and read from the
\* checksum otherwise.
Ready(w, record) == Set(w, [record EXCEPT !.pc = "put"])
ReadyOn(w, record) ==
    LET v == record.target
    IN  Ready(w, [record EXCEPT !.base = v,
            !.timestamp = IF record.kind = "create" THEN ReplayedTimestamp(dir, v) ELSE Timestamp(v)])

\* A creator that finds a table: its header must be the same one, and it goes
\* on as an append.
CheckCreated(w) ==
    LET record == writer[w]
    IN  /\ record.base = None /\ record.target # None
        /\ IF CanLoadState(dir, record.target) /\ LoadState(dir, record.target).header = record.planned
           THEN ReadyOn(w, [record EXCEPT !.sets = NoHeader])
           ELSE Fail(w)

CheckWinners(w) ==
    LET record == writer[w]
    IN  /\ record.base # None /\ record.target > record.base
        /\ \/ /\ Retries(record) > 0 /\ ~Conflicts(record)
              /\ record.kind = "create" => CanLoadState(dir, record.target)
              /\ ReadyOn(w, record)
           \/ /\ Retries(record) = 0 \/ Conflicts(record) \/ ~CanLoadState(dir, record.target)
              /\ Fail(w)

Check(w) ==
    /\ writer[w].pc = "check"
    /\ \/ CheckCreated(w)
       \/ CheckWinners(w)
       \/ writer[w].base = writer[w].target /\ Ready(w, writer[w])
    /\ UNCHANGED <<dir, lost>>

\* Mutant: the clock is taken as it is.
InCommitTimestampNow(record, now) == now

\* finalize_attempt_actions
InCommitTimestamp(record, now) == Max({now, record.timestamp + 1})

Entry(w, now) ==
    LET record == writer[w]
    IN  [writer |-> w, kind |-> record.kind, adds |-> IF record.kind = "alter" THEN {} ELSE {w},
         removes |-> record.removes, header |-> record.sets, planned |-> record.planned,
         timestamp |-> InCommitTimestamp(record, now)]

\* Mutant: the attempts are not counted.
RefusedAgain(w) == Goto(w, "list")

\* VersionAlreadyExists
Refused(w) == IF writer[w].attempts > Retries(writer[w]) THEN Fail(w) ELSE Goto(w, "list")

\* A put whose answer is lost ends in an error, or its own retry by the store
\* client finds the object there.
Put(w) ==
    LET version == writer[w].target + 1
    IN  /\ writer[w].pc = "put"
        /\ IF CommitExists(dir, version)
           THEN Refused(w) /\ UNCHANGED <<dir, lost>>
           ELSE /\ \E now \in Clock : dir' = WriteCommitEntry(dir, version, Entry(w, now))
                /\ \/ /\ Set(w, [NewWriter EXCEPT !.pc = "post", !.base = writer[w].base,
                                                   !.version = version])
                      /\ UNCHANGED lost
                   \/ /\ lost < MaxLost /\ lost' = lost + 1
                      /\ Fail(w) \/ Refused(w)

-----------------------------------------------------------------------------
(* PostCommit: none of it changes what the table is.                       *)

ShouldCreateCheckpoint(v) == v # 0 /\ v % CheckpointInterval = 0
ShouldCreateCompaction(v) ==
    CompactionInterval > 0 /\ v > 0 /\ (v + 1) % CompactionInterval = 0

\* Without a state for the new version, all of it is skipped; a failed read is
\* enough for that.
Post(w) ==
    /\ writer[w].pc = "post"
    /\ \/ Goto(w, IF ShouldCreateCheckpoint(writer[w].version) THEN "checkpoint" ELSE "compact")
       \/ Answer(w)
    /\ UNCHANGED <<dir, lost>>

\* The checkpoint file, then the hint.
Checkpoint(w) ==
    LET v == writer[w].version
    IN  /\ writer[w].pc = "checkpoint"
        /\ IF CanCheckpoint(dir, v)
           THEN dir' = WriteCheckpoint(dir, v) /\ Goto(w, "hint")
           ELSE dir' = dir /\ Goto(w, "compact")
        /\ UNCHANGED lost

Hint(w) ==
    /\ writer[w].pc = "hint"
    /\ dir' = WriteHint(dir, writer[w].version)
    /\ Goto(w, "cleanup")
    /\ UNCHANGED lost

\* cleanup_expired_delta_log_files: the boundary is a checkpoint no later than
\* the last commit that is older than the log retention.  No operation is
\* assumed to run for as long as that, so the versions in use are not older.
InUse == {writer[w].base : w \in {u \in Writer : writer[u].pc \notin {"idle", "done", "failed"}}}
Boundaries(v) == {c \in DOMAIN dir.checkpoints : c <= v /\ \A b \in InUse : c <= b}

\* The files are deleted one by one, in no given order.
CleanUp(w) ==
    /\ writer[w].pc = "cleanup"
    /\ \/ /\ \E boundary \in Boundaries(writer[w].version) :
              \E file \in Expired(dir, boundary) : dir' = Delete(dir, file)
          /\ UNCHANGED writer
       \/ dir' = dir /\ Goto(w, "compact")
    /\ UNCHANGED lost

Compact(w) ==
    LET v == writer[w].version
        range == <<v + 1 - CompactionInterval, v>>
        expired == IF TombstonesExpire THEN Tombstones(dir) ELSE {}
    IN  /\ writer[w].pc = "compact"
        /\ IF ShouldCreateCompaction(v) /\ CanCompact(dir, range)
           THEN \E now \in Clock :
                  dir' = PutCompaction(dir, range, Compaction(dir, range, expired, now))
           ELSE dir' = dir
        /\ Answer(w)
        /\ UNCHANGED lost

-----------------------------------------------------------------------------
Step(w) ==
    \/ Plan(w) \/ Scan(w) \/ LoadBase(w)
    \/ List(w) \/ Check(w) \/ Put(w)
    \/ Post(w) \/ Checkpoint(w) \/ Hint(w) \/ CleanUp(w) \/ Compact(w)

Next == \E w \in Writer : Step(w)

Spec == Init /\ [][Next]_vars

-----------------------------------------------------------------------------
(* What a directory is before the writers start.                           *)

\* Checkpoints and compactions are where an interval ends, and a compaction is
\* as long as one.
Aligned(d) ==
    /\ \A c \in DOMAIN d.checkpoints : ShouldCreateCheckpoint(c)
    /\ \A r \in DOMAIN d.compactions :
         /\ r = <<r[2] + 1 - CompactionInterval, r[2]>> /\ ShouldCreateCompaction(r[2])
         /\ d.compactions[r].modified \in Int

\* No version has both a checkpoint and the end of a compaction: full loads then
\* never skip the next one (StartCommitVersion).
KeptApart == \A v \in Nat : ~(ShouldCreateCheckpoint(v) /\ ShouldCreateCompaction(v))

\* What was committed on a snapshot that was loaded in full.
InFull(commit) == commit.kind = "create" \/ commit.removes # {}

Increases(log) ==
    \A i \in DOMAIN log :
      i < Len(log) /\ ~(ShouldCreateCompaction(i - 1) /\ InFull(log[i + 1])) =>
        log[i].timestamp < log[i + 1].timestamp

ASSUME DirectoriesAssumption ==
    \A d \in Directories :
        /\ IsDirectory(d) /\ WellKept(d) /\ Aligned(d) /\ Increases(d.log)
        /\ \A i \in DOMAIN d.log : d.log[i].timestamp \in Int

-----------------------------------------------------------------------------
(* Properties.                                                             *)

\* Types.  A writer makes no more attempts than it has retries, plus one.
TypeOK ==
    /\ dir.commits \subseteq 0 .. Len(dir.log) - 1
    /\ DOMAIN dir.checkpoints \subseteq 0 .. Len(dir.log) - 1
    /\ dir.hint \in -1 .. Len(dir.log) - 1
    /\ \A w \in Writer :
         /\ writer[w].base \in -1 .. Len(dir.log) - 1
         /\ writer[w].target \in -1 .. Len(dir.log) - 1
         /\ writer[w].attempts \in 0 .. Retries(writer[w]) + 1
    /\ lost \in 0 .. MaxLost

\* Whoever opens the table now, through whatever hint, checkpoint, compaction
\* and partly deleted log there is (LogSegmentResolver, create_checkpoint,
\* cleanup_expired_delta_log_files, create_log_compaction_for), finds the last
\* version, can load it, and finds the files and the header that the commits
\* made, in the scan's replay as well as in the full one.  It takes KeptApart.
LatestIsExact ==
    dir.log # <<>> =>
        LET v == LatestVersion(dir)
            version == Version(dir, v)
            loaded == LoadState(dir, v)
        IN  /\ v = Len(dir.log) - 1
            /\ CanLoadState(dir, v)
            /\ loaded.adds = version.adds
            /\ loaded.header = version.header
            /\ ScanFiles(dir, v) = version.adds

\* In-commit timestamps increase from each version to the next, whatever the
\* clocks of the writers say (finalize_attempt_actions).  There is one exception:
\* a full load of a version that ends a compaction takes the time of the
\* compaction file for its own, so a commit made on such a load, one that removes
\* files or that lost the race to create the table, is left out.
TimestampsIncrease == Increases(dir.log)

\* Writers that race through the commit loop make the one history that
\* DeltaTable allows: no commit is overwritten, none was decided on a state
\* that a winner has changed, and none is reported that was not made.
Table == INSTANCE DeltaTable WITH
    history <- dir.log,
    reported <- {w \in Writer : writer[w].pc = "done" /\ writer[w].version # None}
ImplementsTable == Table!Spec

\* Time travel: a version whose commits are all there can be loaded, and is
\* what the commits made (LogSegmentResolver::resolve_for_full_state).
HistoryIsReadable ==
    \A v \in 0 .. Len(dir.log) - 1 :
      0 .. v \subseteq dir.commits =>
        /\ CanLoadState(dir, v)
        /\ LoadState(dir, v).adds = Version(dir, v).adds
=============================================================================
