-------------------------- MODULE MCDurableVolume --------------------------
(* Records of one sector: the WAL of SectorCount sectors holds two of them,  *)
(* and the second one crosses the rollover threshold.                        *)
EXTENDS DurableVolume

Workload(system, hive, version, cuts, legacy) ==
    [system |-> system, hive |-> hive, version |-> version, cuts |-> cuts, legacy |-> legacy]

(* Three mutations and two power cuts, so that a boot follows an interrupted *)
(* boot; and two appends of one hive, the least with which replay can meet a *)
(* log that is too long or too short.                                        *)
RegistryWorkloads == {Workload(3, 1, 0, 2, FALSE), Workload(1, 2, 0, 1, FALSE)}

(* One of everything, and the migration of a legacy reserve with two cuts.   *)
FileWorkloads == {Workload(1, 1, 1, 1, FALSE), Workload(1, 0, 1, 2, TRUE)}

MCPayload ==
    [type : {"system"}, id : 1 .. 3, at : {0}, seq : {0}]
    \cup [type : {"hive"}, id : 1 .. 2, at : 0 .. 2, seq : 1 .. 3]

MCPayloadSectors == [p \in MCPayload |-> 1]

MCNoPayload == [type |-> "none", id |-> 0, at |-> 0, seq |-> 0]
=============================================================================
