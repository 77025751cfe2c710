------------------------------ MODULE DeltaLog ------------------------------
(***************************************************************************)
(* The _delta_log directory of a Delta table as a value, and what readers  *)
(* and writers of it compute.                                              *)
(*                                                                         *)
(* A directory `dir` has a commit file per version, checkpoints, the       *)
(* _last_checkpoint hint and log compaction files.  dir.log is every       *)
(* version ever committed, version v at position v + 1; dir.commits is the *)
(* set of versions whose commit file is still there.  The actions of a     *)
(* commit are the files it adds and removes and the header (protocol and   *)
(* metadata) it sets, if any.  A put of one object is atomic.              *)
(***************************************************************************)
EXTENDS Integers, Sequences, FiniteSets, FiniteSetsExt

None == -1        \* no version, no timestamp
NoHeader == "no header"

\* All that was ever committed, and the files of _delta_log as they are listed.
Dir(log, commits, hint, checkpoints, compactions) ==
    [log |-> log, commits |-> commits, hint |-> hint, checkpoints |-> checkpoints,
     compactions |-> compactions]
NewDir(log) == Dir(log, {v - 1 : v \in DOMAIN log}, None, [v \in {} |-> {}], [r \in {} |-> {}])

Actions(adds, removes, header) == [adds |-> adds, removes |-> removes, header |-> header]

\* ReconciledCheckpointState: `base` with the actions of parts[p] applied for
\* each position p in order.
Reconcile(base, parts) ==
    LET order == DOMAIN parts
        readded(f, q) == \E p \in order : p > q /\ f \in parts[p].adds
        removed(f) == \E q \in order : f \in parts[q].removes /\ ~readded(f, q)
        headers == {p \in order : parts[p].header # NoHeader}
    IN  [adds |-> {f \in base.adds \cup UNION {parts[p].adds : p \in order} : ~removed(f)},
         removes |-> {f \in UNION {parts[p].removes : p \in order} : removed(f)},
         header |-> IF headers = {} THEN base.header ELSE parts[Max(headers)].header]

Nothing == Actions({}, {}, NoHeader)
Commit(dir, v) == Actions(dir.log[v + 1].adds, dir.log[v + 1].removes, dir.log[v + 1].header)
Commits(dir, versions) == [v \in versions |-> Commit(dir, v)]

\* What version v is: all that was ever committed up to it.
Version(dir, v) == Reconcile(Nothing, Commits(dir, 0 .. v))

-----------------------------------------------------------------------------
(* Reading a version.                                                      *)

\* Listings start just before the last checkpoint, or before v if that is lower.
Offset(dir, v) == IF dir.hint = None THEN 0 ELSE Min({dir.hint, v}) - 1

Listed(dir, v) == {c \in dir.commits : c >= Offset(dir, v) /\ c <= v}
CheckpointFor(dir, v) ==
    LET found == {c \in DOMAIN dir.checkpoints : c >= Offset(dir, v) /\ c <= v}
    IN  IF found = {} THEN None ELSE Max(found)

LatestVersion(dir) ==
    LET from == IF dir.hint = None THEN 0 ELSE dir.hint - 1
        found == {v \in dir.commits \cup DOMAIN dir.checkpoints
                         \cup {r[2] : r \in DOMAIN dir.compactions} : v >= from}
    IN  IF found = {} THEN None ELSE Max(found)

\* LogSegmentResolver: the checkpoint, the compactions after it and the commits
\* that none of these covers.  Ranges of one compaction interval never overlap.
Segment(dir, v) ==
    LET checkpoint == CheckpointFor(dir, v)
        ranges == {r \in DOMAIN dir.compactions :
                     r[1] >= Offset(dir, v) /\ r[1] > checkpoint /\ r[2] <= v}
        covered == UNION {r[1] .. r[2] : r \in ranges}
    IN  [checkpoint |-> checkpoint, ranges |-> ranges, covered |-> covered,
         commits |-> {c \in Listed(dir, v) : c > checkpoint} \ covered]

Base(dir, checkpoint) == IF checkpoint = None THEN Nothing ELSE dir.checkpoints[checkpoint]

\* The positions of a segment, those of its commits and of the first versions of
\* its compactions, and what is read at each.
Starts(segment) == {r[1] : r \in segment.ranges}
Part(dir, segment, p) ==
    IF p \in Starts(segment)
    THEN LET c == dir.compactions[CHOOSE r \in segment.ranges : r[1] = p]
         IN  Actions(c.adds, c.removes, c.header)
    ELSE Commit(dir, p)

\* The checkpoint, and the positions from `start` on.
Replay(dir, segment, start) ==
    LET positions == {p \in Starts(segment) \cup segment.commits : p >= start}
    IN  Reconcile(Base(dir, segment.checkpoint), [p \in positions |-> Part(dir, segment, p)])

\* start_commit_version: after a checkpoint, the first commit that no compaction
\* covers, even if a compaction comes before it.
StartCommitVersion(segment, v) ==
    CASE segment.checkpoint = None -> 0
      [] segment.checkpoint # None /\ segment.commits # {} -> Min(segment.commits)
      [] segment.checkpoint # None /\ segment.commits = {} /\ segment.ranges # {} ->
           Min(Starts(segment))
      [] OTHER -> v + 1

Contiguous(segment, v) ==
    segment.commits \cup segment.covered = segment.checkpoint + 1 .. v

\* load_replayed_table_state, which refuses a segment with a gap.
LoadState(dir, v) ==
    LET segment == Segment(dir, v) IN Replay(dir, segment, StartCommitVersion(segment, v))
CanLoadState(dir, v) == Contiguous(Segment(dir, v), v) /\ LoadState(dir, v).header # NoHeader

\* The replay pipeline in the plan of a scan, which reads every file of the
\* segment and does not look for gaps.
ScanFiles(dir, v) == Replay(dir, Segment(dir, v), 0).adds

\* The commit timestamp of v in a snapshot that was replayed: a version that a
\* compaction covers has the time at which the compaction file was written.
ReplayedTimestamp(dir, v) ==
    LET ends == {r \in Segment(dir, v).ranges : r[2] = v}
    IN  IF ends = {} THEN dir.log[v + 1].timestamp
        ELSE dir.compactions[CHOOSE r \in ends : TRUE].modified

-----------------------------------------------------------------------------
(* Writing the directory.                                                  *)

\* PutMode::Create.
CommitExists(dir, v) == v \in dir.commits
WriteCommitEntry(dir, v, entry) ==
    LET log == IF v = Len(dir.log) THEN Append(dir.log, entry)
               ELSE [dir.log EXCEPT ![v + 1] = entry]
    IN  Dir(log, dir.commits \cup {v}, dir.hint, dir.checkpoints, dir.compactions)

\* create_checkpoint reads commits only, never compactions.
CanCheckpoint(dir, v) ==
    {c \in Listed(dir, v) : c > CheckpointFor(dir, v)} = CheckpointFor(dir, v) + 1 .. v
WriteCheckpoint(dir, v) ==
    LET base == CheckpointFor(dir, v)
        state == Reconcile(Base(dir, base), Commits(dir, base + 1 .. v))
    IN  [dir EXCEPT !.checkpoints = [c \in DOMAIN @ \cup {v} |->
            IF c = v THEN Actions(state.adds, {}, state.header) ELSE @[c]]]
WriteHint(dir, v) == [dir EXCEPT !.hint = v]

\* DeltaLogFile: a commit, a checkpoint or a compaction, by its range of versions.
DeltaLogFile(dir) ==
    [type : {"commit"}, range : {<<v, v>> : v \in dir.commits}]
      \cup [type : {"checkpoint"}, range : {<<v, v>> : v \in DOMAIN dir.checkpoints}]
      \cup [type : {"compaction"}, range : DOMAIN dir.compactions]

\* delete_logs_before_checkpoint_version
Expired(dir, boundary) == {file \in DeltaLogFile(dir) : file.range[2] < boundary}
Delete(dir, file) ==
    LET is(type, range) == file = [type |-> type, range |-> range]
    IN  Dir(dir.log, {v \in dir.commits : ~is("commit", <<v, v>>)}, dir.hint,
            Restrict(dir.checkpoints, {v \in DOMAIN dir.checkpoints : ~is("checkpoint", <<v, v>>)}),
            Restrict(dir.compactions, {r \in DOMAIN dir.compactions : ~is("compaction", r)}))

Tombstones(dir) == UNION {dir.log[i].removes : i \in DOMAIN dir.log}

\* create_log_compaction_for; a remove whose retention is over is left out.
CanCompact(dir, range) == range[1] .. range[2] \subseteq dir.commits
PutCompaction(dir, range, content) ==
    [dir EXCEPT !.compactions = [r \in DOMAIN @ \cup {range} |->
        IF r \in DOMAIN @ THEN @[r] ELSE content]]

\* Mutant: the removes of the range are left out.
CompactionLosesRemoves(dir, range, expired, now) ==
    LET state == Reconcile(Nothing, Commits(dir, range[1] .. range[2]))
    IN  [adds |-> state.adds, removes |-> {}, header |-> state.header, modified |-> now]

Compaction(dir, range, expired, now) ==
    LET state == Reconcile(Nothing, Commits(dir, range[1] .. range[2]))
    IN  [adds |-> state.adds, removes |-> state.removes \ expired, header |-> state.header,
         modified |-> now]

-----------------------------------------------------------------------------
(* What the files of a directory must say.                                 *)

\* A checkpoint is the version that it is named after.
CheckpointsAreExact(dir) ==
    \A v \in DOMAIN dir.checkpoints :
        /\ dir.checkpoints[v].adds = Version(dir, v).adds
        /\ dir.checkpoints[v].header = Version(dir, v).header

\* A compaction is what the commits of its range come to, and no two overlap.
CompactionsAreExact(dir) ==
    /\ \A r \in DOMAIN dir.compactions :
         LET state == Reconcile(Nothing, Commits(dir, r[1] .. r[2]))
             content == dir.compactions[r]
         IN  /\ content.adds = state.adds /\ content.removes = state.removes
             /\ content.header = state.header
    /\ \A r, s \in DOMAIN dir.compactions : r = s \/ r[2] < s[1] \/ s[2] < r[1]

\* Every file is about versions of the log.
FilesAreInLog(dir) ==
    /\ dir.commits \subseteq 0 .. Len(dir.log) - 1
    /\ DOMAIN dir.checkpoints \subseteq 0 .. Len(dir.log) - 1
    /\ dir.hint \in -1 .. Len(dir.log) - 1
    /\ \A r \in DOMAIN dir.compactions :
         r[1] \in 0 .. Len(dir.log) - 1 /\ r[2] \in r[1] .. Len(dir.log) - 1

\* A commit that is gone is under a checkpoint, and so is what the hint names.
NothingIsMissing(dir) ==
    /\ \A v \in 0 .. Len(dir.log) - 1 :
         v \in dir.commits \/ \E c \in DOMAIN dir.checkpoints : c > v
    /\ dir.hint # None => \E c \in DOMAIN dir.checkpoints : c >= dir.hint

\* No compaction starts right after a checkpoint.
NoneIsSkipped(dir) == \A r \in DOMAIN dir.compactions : r[1] - 1 \notin DOMAIN dir.checkpoints

\* A directory is made of its parts, and its log is a sequence.
IsDirectory(dir) ==
    /\ dir = Dir(dir.log, dir.commits, dir.hint, dir.checkpoints, dir.compactions)
    /\ dir.log \in Seq({dir.log[i] : i \in DOMAIN dir.log})

\* The table was created, and its files are right and enough.
WellKept(dir) ==
    /\ dir.log # <<>> => dir.log[1].header # NoHeader
    /\ FilesAreInLog(dir) /\ NothingIsMissing(dir)
    /\ CheckpointsAreExact(dir) /\ CompactionsAreExact(dir)
=============================================================================
