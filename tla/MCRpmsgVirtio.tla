---------------------------- MODULE MCRpmsgVirtio ---------------------------
(* Model-checking instance of RpmsgVirtio. *)
EXTENDS RpmsgVirtio

TxSymmetry == Permutations(TxBufs)
RxSymmetry == Permutations(RxBufs)
Symmetry   == TxSymmetry \cup RxSymmetry
=============================================================================
