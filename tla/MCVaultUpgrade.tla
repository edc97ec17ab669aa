--------------------------- MODULE MCVaultUpgrade ---------------------------
(* Two releases, two migrations of the first and one of the second.        *)
EXTENDS VaultUpgrade

CONSTANTS p, q, a

MCFlags == {{}, {"noSnapshot"}, {"noValidate"}}
MCTo    == <<1, 1, 2>>
MCTouch == <<{p}, {p}, {}>>
MCMake  == <<{a}, {}, {}>>
MCDrop  == <<{}, {}, {q}>>
=============================================================================
