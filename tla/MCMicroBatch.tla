---------------------------- MODULE MCMicroBatch ----------------------------
(***************************************************************************)
(* Instances of MicroBatch.                                                *)
(***************************************************************************)
EXTENDS MicroBatch

\* Three files whose rows fall into two windows; the third one closes the
\* first window, or the second row comes when it is closed.
Times == <<3, 2, 6>>

\* The stops and the storage faults that each query survives.
SurvivedStops ==
    [map |-> Points \ {"source put"},
     window |-> Points \ {"source put", "source promoted"}]
SurvivedFaults == [map |-> {"marker", "source commit"}, window |-> {"marker"}]
=============================================================================
