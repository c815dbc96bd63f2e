-------------------------- MODULE MCObjectWaitReply --------------------------
EXTENDS ObjectWaitReply, TLC

CONSTANTS t1, t2
Symmetry == Permutations(Threads)
=============================================================================
