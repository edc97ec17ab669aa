---------------------------- MODULE MCProjection ----------------------------
(* Two pages, one content: a page is there or not, and a page that comes   *)
(* back under the other path has only moved.                               *)
EXTENDS Projection

CONSTANTS g1, g2, c1, service, deploy

MCInitialWiki == [p \in Pages |-> IF p = g1 THEN c1 ELSE Absent]
MCIdOf == [c \in Contents |-> c]
=============================================================================
