---------------------------- MODULE SectorDevice ----------------------------
(***************************************************************************)
(* The block device below the snapshot slots and the registry WAL          *)
(* (trait SnapshotBlockDevice, crates/nt-fs/src/snapshot_store.rs).        *)
(*                                                                         *)
(* A range of sectors is a pair of functions from sector addresses to      *)
(* sector contents: what a read returns (the media, with the drive's write *)
(* cache) and what a power cut is certain to leave (the stable copy).  A   *)
(* write changes the media only; flush makes every preceding write stable; *)
(* a power cut keeps an arbitrary subset of the writes no flush covered.   *)
(* One sector is written atomically.                                       *)
(***************************************************************************)

\* A sector no one has written.
Zero == [kind |-> "zero"]

\* write_sector for each address of the partial function ws.
WriteSectors(media, ws) ==
    [l \in DOMAIN media |-> IF l \in DOMAIN ws THEN ws[l] ELSE media[l]]

\* Sectors written since the last flush.
DirtySectors(stable, media) == {l \in DOMAIN media : stable[l] # media[l]}

\* Everything a power cut may leave behind.
PowerCutOutcomes(stable, media) ==
    {[l \in DOMAIN media |-> IF l \in kept THEN media[l] ELSE stable[l]] :
        kept \in SUBSET DirtySectors(stable, media)}
=============================================================================
