--------------------------- MODULE MCDeltaCommit ---------------------------
(* Instances of DeltaCommit for TLC.                                       *)
EXTENDS DeltaCommit, TLC

\* Tables as one writer at a time leaves them.
Past(kind, adds, removes, header, timestamp) ==
    [writer |-> "past", kind |-> kind, adds |-> adds, removes |-> removes, header |-> header,
     planned |-> "h1", timestamp |-> timestamp]
Created == <<Past("create", {"f0"}, {}, "h1", 1)>>
Written == Created \o <<Past("append", {"f1"}, {}, NoHeader, 2)>>
Emptied == Created \o <<Past("rewrite", {}, {"f0"}, NoHeader, 2)>>
Long ==
    Written \o <<Past("overwrite", {"f2"}, {"f0", "f1"}, NoHeader, 3),
                 Past("rewrite", {"f3"}, {"f2"}, NoHeader, 4),
                 Past("append", {"f4"}, {}, NoHeader, 5)>>

\* A checkpoint at version v, its hint, and a clean-up of what is before it.
Cleaned(v) == [WriteHint(WriteCheckpoint(NewDir(Long), v), v) EXCEPT !.commits = v .. 4]

Tables == {NewDir(<<>>), NewDir(Emptied), Cleaned(2)}
OnlyCleaned == {Cleaned(3)}
OnlyWritten == {NewDir(Written)}

AnyOrder == Permutations(Writer)
=============================================================================
