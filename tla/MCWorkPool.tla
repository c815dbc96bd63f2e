---------------------------- MODULE MCWorkPool ----------------------------
(***************************************************************************)
(* Instances of WorkPool.                                                  *)
(***************************************************************************)
EXTENDS WorkPool, TLC

CONSTANTS c1, c2

Plain == [lane |-> "normal", long |-> FALSE, persistent |-> FALSE, token |-> FALSE]
LongIo == [lane |-> "io", long |-> TRUE, persistent |-> FALSE, token |-> TRUE]

MixedKinds == {Plain, LongIo}
=============================================================================
