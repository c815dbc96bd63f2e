---------------------------- MODULE MCRegistryWal ----------------------------
(* Two payloads, of one and of two sectors, on a WAL of SectorCount sectors. *)
EXTENDS RegistryWal

CONSTANTS short, long

MCPayload == {short, long}
MCPayloadSectors == [p \in MCPayload |-> IF p = short THEN 1 ELSE 2]
=============================================================================
