-------------------------- MODULE MCOperationLocks --------------------------
(* Three runs, two of them in the runner service, one from the CLI.        *)
EXTENDS OperationLocks

CONSTANTS r1, r2, r3, service, cli

MCHostOf == [r \in Runs |-> IF r = r3 THEN cli ELSE service]
MCNeed   == [r \in Runs |-> IF r = r1 THEN {2} ELSE {1, 2}]
=============================================================================
