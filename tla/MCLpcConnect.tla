---------------------------- MODULE MCLpcConnect ----------------------------
(* Instances of LpcConnect: a server process, and threads of a client      *)
(* process that connect to it.                                             *)
EXTENDS LpcConnect, TLC

CONSTANTS c1, c2, client, server

MCProcOf == [t \in Threads |-> client]
MCSymmetry == Permutations(Threads)
=============================================================================
