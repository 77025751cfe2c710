------------------------------- MODULE SinkLog -------------------------------
(***************************************************************************)
(* The commit log of a streaming file sink (_spark_metadata) and the data  *)
(* files it governs, as functions on the state of the object store.        *)
(*                                                                         *)
(* A data file is a record whose field `batch` names its directory.  The   *)
(* log maps the id of a batch to the files its metadata file lists; the    *)
(* metadata file of a compaction batch is named <id>.compact and lists the *)
(* whole live set.  A put of one object is atomic.                         *)
(***************************************************************************)
EXTENDS Integers, FiniteSets, FiniteSetsExt

CONSTANT CompactInterval   \* COMPACT_INTERVAL

ASSUME CompactIntervalAssumption == CompactInterval \in Nat \ {0}

NoLog == [b \in {} |-> {}]

IsCompaction(batch) == (batch + 1) % CompactInterval = 0

ListBatchFiles(store, batch) == {f \in store : f.batch = batch}
CleanBatchDir(store, batch) == store \ ListBatchFiles(store, batch)

\* The newest compaction file is a snapshot of all that was before it.
ReadLiveEntries(log, ids) ==
    LET known == DOMAIN log \cap ids
        compact == {b \in known : IsCompaction(b)}
    IN  UNION {log[b] : b \in {x \in known : \A c \in compact : x >= c}}

\* Mutant: a compaction batch lists its own files only.
CommitBatchNoCarry(log, batch, files) ==
    [b \in DOMAIN log \cup {batch} |-> IF b = batch THEN files ELSE log[b]]

\* A compaction batch rolls forward the live set up to and including what an
\* earlier attempt at the same batch logged.
CommitBatch(log, batch, files) ==
    LET entries == files \cup (IF IsCompaction(batch)
                               THEN ReadLiveEntries(log, 0 .. batch) ELSE {})
    IN  [b \in DOMAIN log \cup {batch} |-> IF b = batch THEN entries ELSE log[b]]

\* What a reader of the output directory is given.
ReadCommittedFiles(log) == ReadLiveEntries(log, DOMAIN log)

\* Recovery in realtime mode removes what is beyond the recovery line.
TruncateLog(log, last) == [b \in {x \in DOMAIN log : x <= last} |-> log[b]]
TruncateFiles(store, last) == {f \in store : f.batch <= last}
=============================================================================
