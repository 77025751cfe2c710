----------------------------- MODULE DeltaTable -----------------------------
(***************************************************************************)
(* What concurrent writers of a Delta table promise: the versions form one *)
(* history that only grows, each version was decided on the version just   *)
(* before it wherever that matters, and a writer that reports a commit has *)
(* made one.                                                               *)
(***************************************************************************)
EXTENDS Integers, Sequences, FiniteSets, FiniteSetsExt

CONSTANTS Writer, Headers, NoHeader

VARIABLES
    history,    \* what was committed, oldest first
    reported    \* the writers that reported a commit to their callers

vars == <<history, reported>>

\* The files and the header of the table as the history leaves it.
Live ==
    {f \in UNION {history[i].adds : i \in DOMAIN history} :
       \E i \in DOMAIN history :
          /\ f \in history[i].adds
          /\ \A j \in DOMAIN history : j >= i => f \notin history[j].removes}
Header ==
    history[Max({i \in DOMAIN history : history[i].header # NoHeader})].header

Init == history # <<>> => history[1].header # NoHeader

\* Only the first version creates the table.
Create(c) == history = <<>> /\ c.header \in Headers /\ c.removes = {}

\* Rows are written under the header they were planned for.
AppendFiles(c) ==
    /\ history # <<>>
    /\ c.kind \in {"create", "append", "overwrite"}
    /\ c.header = NoHeader /\ c.removes = {} /\ c.planned = Header

\* An overwrite that removes files removes every one that is live.
Replace(c) ==
    /\ history # <<>>
    /\ c.kind = "overwrite"
    /\ c.header = NoHeader /\ c.removes = Live /\ c.planned = Header

\* What a rewrite takes out is there to be taken out.
Rewrite(c) ==
    /\ history # <<>>
    /\ c.kind = "rewrite"
    /\ c.header = NoHeader /\ c.removes # {} /\ c.removes \subseteq Live /\ c.planned = Header

\* The properties of a table change from those that were read.
Alter(c) ==
    /\ history # <<>>
    /\ c.kind = "alter"
    /\ c.header \in Headers /\ c.removes = {} /\ c.adds = {} /\ c.planned = Header

Commit ==
    /\ Len(history') = Len(history) + 1
    /\ SubSeq(history', 1, Len(history)) = history
    /\ LET c == history'[Len(history')]
       IN  Create(c) \/ AppendFiles(c) \/ Replace(c) \/ Rewrite(c) \/ Alter(c)
    /\ reported' = reported

Report ==
    /\ history' = history
    /\ reported \subseteq reported'
    /\ reported' \subseteq {history[i].writer : i \in DOMAIN history}

Next == Commit \/ Report

Spec == Init /\ [][Next]_vars
=============================================================================
