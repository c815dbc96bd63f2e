----------------------------- MODULE MCLpcWaits -----------------------------
(* Two processes: two threads of the server, one of the client.            *)
EXTENDS LpcWaits, TLC

CONSTANTS s1, s2, c1

Owner == [t \in Threads |-> IF t = c1 THEN Client ELSE Server]
Symmetric == Permutations({s1, s2})
=============================================================================
