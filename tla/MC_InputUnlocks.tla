-------------------------- MODULE MC_InputUnlocks --------------------------
(* Model-checking instance of InputUnlocks.                                *)
EXTENDS InputUnlocks

CONSTANTS r1, r2, x1, n1

\* The transaction spends (a prefix of) these UTXO references.
MCUTXORefs == <<r1, r2>>

\* AliasIDFromOutputID: every output id derives the one AliasID of the model.
MCAliasIdFromOutputID(r) == x1

MCSymmetry == Permutations(EdAddrs)
=============================================================================
