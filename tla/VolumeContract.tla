--------------------------- MODULE VolumeContract ---------------------------
(***************************************************************************)
(* What the durable volume promises its callers about registry records,    *)
(* whatever the disk, the boot and the WAL do below.                       *)
(*                                                                         *)
(* A record is in doubt from the moment its commit marker may reach the    *)
(* disk until its caller is told; a crash decides it either way, once.     *)
(* Everything reported stays, in its order, exactly once.                  *)
(***************************************************************************)
EXTENDS Sequences

VARIABLES registry,  \* the reported records of SYSTEM and of another hive
          inDoubt,   \* at most one record that is being committed
          serving    \* the volume is mounted

contractVars == <<registry, inDoubt, serving>>

Apply(reg, r) == [reg EXCEPT ![r.type] = Append(@, r.id)]

ContractInit ==
    /\ registry = [system |-> <<>>, hive |-> <<>>]
    /\ inDoubt = {} /\ serving = FALSE

Submit(r) ==
    /\ serving /\ inDoubt = {}
    /\ inDoubt' = {r}
    /\ UNCHANGED <<registry, serving>>

Report ==
    /\ serving
    /\ \E r \in inDoubt : registry' = Apply(registry, r)
    /\ inDoubt' = {}
    /\ UNCHANGED serving

Crash ==
    /\ serving /\ serving' = FALSE
    /\ UNCHANGED <<registry, inDoubt>>

Restart ==
    /\ ~serving /\ serving' = TRUE
    /\ registry' \in {registry} \cup {Apply(registry, r) : r \in inDoubt}
    /\ inDoubt' = {}

ContractNext ==
    \/ \E r \in inDoubt' : Submit(r)
    \/ Report \/ Crash \/ Restart

ContractSpec == ContractInit /\ [][ContractNext]_contractVars
=============================================================================
