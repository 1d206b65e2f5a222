---------------------------- MODULE MCVirtqueue -----------------------------
(* Virtqueue on small rings.  The buffers are interchangeable. *)
EXTENDS Virtqueue, TLC

BufferSymmetry == Permutations(Buffers)
=============================================================================
