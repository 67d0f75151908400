----------------------------- MODULE MCJobQueue -----------------------------
(***************************************************************************)
(* Small instances of JobQueue for TLC: two worker processes whose loops   *)
(* claim jobs of one type, and requests that share a key.                  *)
(***************************************************************************)
EXTENDS JobQueue

CONSTANTS p1, p2, t1, t2, k1, l1, l2

MCLoops == {l1, l2}
MCProcOf == [c \in MCLoops |-> IF c = l1 THEN p1 ELSE p2]
MCTypeOf == [c \in MCLoops |-> t1]
MCRequests == {[type |-> t1, key |-> k1, priority |-> 0, max |-> 2]}
=============================================================================
