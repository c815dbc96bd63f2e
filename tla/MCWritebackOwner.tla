-------------------------- MODULE MCWritebackOwner --------------------------
(* Bounds for WritebackOwner.                                              *)
EXTENDS WritebackOwner
=============================================================================
