--------------------------- MODULE MCFileObjectIo ---------------------------
(* Model values for FileObjectIo.                                          *)
EXTENDS FileObjectIo, TLC

CONSTANTS t1, t2, t3

ThreadSymmetry == Permutations(Thread)
=============================================================================
