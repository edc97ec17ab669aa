--------------------------- MODULE MCOperationRuns --------------------------
(* A service run and two CLI runs or resumes.  A worker succeeds or ends   *)
(* without its declared outputs: the ending that looks most like a success.*)
EXTENDS OperationRuns

CONSTANTS a1, c1, c2, other

MCEndings ==
  {[rc |-> 0, claim |-> "", outputs |-> TRUE],
   [rc |-> 0, claim |-> "", outputs |-> FALSE]}
=============================================================================
