--------------------------- MODULE MCReceiptChain ---------------------------
(* Instances of ReceiptChain for TLC.                                      *)
EXTENDS ReceiptChain, TLC

CONSTANTS t1, t2, w1, w2

Symmetry == Permutations(Writer)
=============================================================================
