------------------------ MODULE MCCorpusTransaction ------------------------
(* Model values for the small instances of CorpusTransaction.              *)
EXTENDS CorpusTransaction, TLC

CONSTANTS p1, p2, g1, g2, c1

MCInitialWiki  == [q \in Pages |-> IF q = g1 THEN c1 ELSE Absent]
MCFragmentOnly == {"fragment"}
=============================================================================
