-------------------------- MODULE MCVectorFactory --------------------------
(* Small instance of VectorFactory for TLC.                                *)
EXTENDS VectorFactory
=============================================================================
