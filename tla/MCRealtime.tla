----------------------------- MODULE MCRealtime -----------------------------
(***************************************************************************)
(* Instances of Realtime.                                                  *)
(***************************************************************************)
EXTENDS Realtime

\* Two partitions.  The second row of the first one closes the window of both
\* the first row and the only row of the other partition.
TwoPartitions == <<<<1, 2>>, <<3>>>>
Times == <<3, 6, 2>>

Aligned == {<<"window", "align">>}
Merged == {<<"window", "merge">>}
Parallel == {<<"map", "parallel">>}
AllPipelines == Aligned \cup Merged \cup Parallel

\* Only the aligned pipeline is crashed.
CrashAligned == [align |-> 1, merge |-> 0, parallel |-> 0]
=============================================================================
