----------------------------- MODULE ExactlyOnce -----------------------------
(***************************************************************************)
(* What a checkpointed streaming query promises: every row of the source   *)
(* has its effect on the output, or on the state of the query, exactly     *)
(* once.  A row that comes too late for its window may have none.          *)
(***************************************************************************)
CONSTANT Row

VARIABLE fate   \* what has become of each row

Fate == {"absent", "arrived", "late", "delivered"}

Init == fate \in [Row -> {"absent", "arrived"}]

\* Rows become `to` that were `from` before; the others stay as they are.
Turn(from, to) == \A r \in Row : fate'[r] = fate[r] \/ (fate[r] = from /\ fate'[r] \in to)

\* Rows arrive; one commit settles a number of them.
Arrive == Turn("absent", {"arrived"})
Settle == Turn("arrived", {"late", "delivered"})

Next == Arrive \/ Settle

Spec == Init /\ [][Next]_fate
=============================================================================
