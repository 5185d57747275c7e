--------------------------- MODULE MCFaissRebuild ---------------------------
(* FaissRebuild for TLC: two batches, one killed owner, one change of       *)
(* release.                                                                  *)
EXTENDS FaissRebuild

CONSTANTS b1, b2

MCBatches == {b1, b2}

\* One time unit for the first failure, two afterwards.
MCBackoff == [n \in 0 .. 7 |-> IF n = 0 THEN 1 ELSE 2]
=============================================================================
