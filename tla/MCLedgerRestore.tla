--------------------------- MODULE MCLedgerRestore ---------------------------
(***************************************************************************)
(* One data root with up to two backup files and two restore runs.         *)
(***************************************************************************)
EXTENDS LedgerRestore, TLC

CONSTANTS b1, b2, r1, r2

MCSymmetry == Permutations(Restore)
=============================================================================
