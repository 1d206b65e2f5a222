---------------------------- MODULE MCMetalMutex ----------------------------
(* MetalMutex for a handful of contexts. *)
EXTENDS MetalMutex
=============================================================================
