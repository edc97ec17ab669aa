--------------------------- MODULE MCCorpusBackup ---------------------------
(* One backup of a page and a log over several attempts, or two at once.   *)
EXTENDS CorpusBackup, TLC

CONSTANTS b1, b2

\* There is room for the copy of one file.
MCFits == {S \in SUBSET Files : Cardinality(S) <= 1}

MCSymmetry == Permutations({b1, b2})
=============================================================================
