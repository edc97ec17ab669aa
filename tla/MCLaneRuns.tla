---------------------------- MODULE MCLaneRuns -----------------------------
(* One lane and another that runs after it, on one model.                  *)
EXTENDS LaneRuns, TLC

CONSTANTS up, down

MCAfter == (up :> {}) @@ (down :> {up})
MCLimit == (up :> 1) @@ (down :> 2)
=============================================================================
