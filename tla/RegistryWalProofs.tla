-------------------------- MODULE RegistryWalProofs --------------------------
(***************************************************************************)
(* Proofs about RegistryWal, for every set of payloads, every payload size *)
(* and every device size.                                                  *)
(*                                                                         *)
(* The inductive invariant WalInv says, besides the types, that the frames *)
(* of the settled records are intact, that the two copies of the device    *)
(* agree on them, and what the sectors after them hold: TailShape covers   *)
(* every state, the shapes after it sharpen it for the states in which the *)
(* owner knows more.                                                       *)
(***************************************************************************)
EXTENDS RegistryWal, TLAPS, SequenceTheorems, NaturalsInduction,
        WellFoundedInduction

Cursor == PrefixEnd(settledEnds)

Serial == Len(settledEnds) + 1

-----------------------------------------------------------------------------
(* What a copy d of the device holds from sector c on, where the frame of  *)
(* record s begins.                                                        *)

Fits(c, p) == c + FrameLength(p) <= SectorCount

\* Every sector of the frame of p is there or still zero, and zeros follow.
PartialFrame(d, c, s, p) ==
    /\ Fits(c, p)
    /\ \A k \in 0 .. PayloadSectors[p] + 1 :
          d[c + k] = Zero \/ d[c + k] = FrameSector(Incarnation, s, p, k)
    /\ ZeroFrom(d, c + FrameLength(p))

\* Header and payload are there.
FrameWritten(d, c, s, p) ==
    \A k \in 0 .. PayloadSectors[p] : d[c + k] = FrameSector(Incarnation, s, p, k)

Unmarked(d, c, p) == d[c + 1 + PayloadSectors[p]] = Zero

PreparedFrame(d, c, s, p) ==
    /\ Fits(c, p)
    /\ FrameWritten(d, c, s, p)
    /\ ZeroFrom(d, c + 1 + PayloadSectors[p])

MarkedFrame(d, c, s, p) ==
    /\ HoldsFrame(d, c, Incarnation, s, p)
    /\ ZeroFrom(d, c + FrameLength(p))

HeaderOnly(d, c, s, p) ==
    /\ Fits(c, p)
    /\ d[c] = PrepareSector(Incarnation, s, p)
    /\ ZeroFrom(d, c + 1)

\* Zeros, or one frame in the making.  A marker is found on a copy only when
\* both copies hold all of header and payload, and the marker was issued.
TailShape(m, d, c, s, mb) ==
    \/ ZeroFrom(m, c) /\ ZeroFrom(d, c)
    \/ \E p \in Payload :
          /\ PartialFrame(m, c, s, p) /\ PartialFrame(d, c, s, p)
          /\ \/ Unmarked(m, c, p) /\ Unmarked(d, c, p)
             \/ FrameWritten(m, c, s, p) /\ FrameWritten(d, c, s, p) /\ mb = <<p>>

-----------------------------------------------------------------------------
(* The inductive invariant *)

Synced == walMedia = walStable

QuietShape ==
    /\ wal.state \in {"Absent", "Refused", "ReadFailed"} => Synced /\ wal.io = "idle"
    /\ wal.state = "Uncertain" => wal.io = "idle"
    /\ wal.state = "Ready" =>
          Synced /\ wal.io = "idle" /\ ZeroFrom(walMedia, Cursor) /\ maybe = <<>>
    /\ token.held =>
          wal.state = "Absent" /\ ZeroFrom(walMedia, Cursor) /\ maybe = <<>>

PendingShape ==
    wal.state = "PendingPrepare" =>
        /\ wal.io \in {"idle", "prepare"} /\ maybe = <<>>
        /\ wal.pending \in Payload /\ Fits(Cursor, wal.pending)
        /\ ZeroFrom(walStable, Cursor)
        /\ wal.io = "idle" => Synced
        /\ wal.io = "prepare" => PreparedFrame(walMedia, Cursor, Serial, wal.pending)

PreparedShape ==
    wal.state = "Prepared" =>
        /\ wal.io \in {"idle", "marker", "clear_suffix", "clear_header"}
        /\ wal.pending \in Payload
        /\ wal.io # "marker" => maybe = <<>>
        /\ wal.io = "idle" => Synced
        /\ wal.io \in {"idle", "marker", "clear_suffix"} =>
              PreparedFrame(walStable, Cursor, Serial, wal.pending)
        /\ wal.io = "marker" =>
              /\ MarkedFrame(walMedia, Cursor, Serial, wal.pending)
              /\ maybe = <<wal.pending>>
        /\ wal.io = "clear_suffix" => HeaderOnly(walMedia, Cursor, Serial, wal.pending)
        /\ wal.io = "clear_header" =>
              /\ HeaderOnly(walStable, Cursor, Serial, wal.pending)
              /\ ZeroFrom(walMedia, Cursor)

RecoveredShape ==
    wal.state = "RecoveredUncommitted" =>
        /\ wal.io \in {"idle", "clear_suffix", "clear_header"}
        /\ maybe = <<>>
        /\ \E p \in Payload :
              /\ wal.tail = PayloadSectors[p]
              /\ PartialFrame(walStable, Cursor, Serial, p)
              /\ Unmarked(walStable, Cursor, p)
              /\ walStable[Cursor] = PrepareSector(Incarnation, Serial, p)
              /\ wal.io = "idle" => Synced
              /\ wal.io = "clear_suffix" => HeaderOnly(walMedia, Cursor, Serial, p)
              /\ wal.io = "clear_header" =>
                    /\ HeaderOnly(walStable, Cursor, Serial, p)
                    /\ ZeroFrom(walMedia, Cursor)

LiveStates == {"Ready", "PendingPrepare", "Prepared", "RecoveredUncommitted"}

\* The fields of a live owner, or of the token, are those of the history.
OwnerAgrees ==
    /\ wal.state \in LiveStates =>
          /\ wal.incarnation = Incarnation /\ wal.record_end_lbas = settledEnds
          /\ wal.cursor = Cursor /\ wal.next_serial = Serial
    /\ token.held =>
          token.incarnation = Incarnation /\ token.record_end_lbas = settledEnds

\* The settled frames lie below the cursor, where the two copies agree.
PrefixShape ==
    /\ \A i \in 1 .. Len(settledEnds) : settledEnds[i] <= Cursor
    /\ \A l \in Lba : l < Cursor => walMedia[l] = walStable[l]

WalInv ==
    /\ WalTypeOK
    /\ SettledFramesIntact
    /\ PrefixShape
    /\ TailShape(walMedia, walStable, Cursor, Serial, maybe)
    /\ QuietShape
    /\ PendingShape
    /\ PreparedShape
    /\ RecoveredShape
    /\ OwnerAgrees
-----------------------------------------------------------------------------
(* Arithmetic of frames and cursors *)

NatLess == OpToRel(<, Nat)

\* A set of naturals that is not empty has a least element.
LEMMA LeastNatural ==
    ASSUME NEW T \in SUBSET Nat, T # {}
    PROVE  \E x \in T : \A y \in T : x <= y
<1>1. IsWellFoundedOn(NatLess, Nat)
  BY NatLessThanWellFounded DEF NatLess
<1>2. PICK x \in T : \A y \in T : ~ (<<y, x>> \in NatLess)
  BY ZenonT(30), <1>1, WFMin
<1>3. ASSUME NEW y \in T PROVE x <= y
  <2>1. x \in Nat /\ y \in Nat
    OBVIOUS
  <2>2. y < x => <<y, x>> \in NatLess
    BY <2>1 DEF NatLess, OpToRel
  <2> QED BY <1>2, <2>1, <2>2
<1> QED BY <1>3

\* Sizes are positive naturals (payload_sectors is never zero).
LEMMA FrameSizes ==
    ASSUME NEW p \in Payload
    PROVE  /\ PayloadSectors[p] \in Nat /\ PayloadSectors[p] >= 1
           /\ FrameLength(p) = PayloadSectors[p] + 2
           /\ FrameLength(p) \in Nat
BY WalAssumption DEF FrameLength

\* A written sector is not zero, and a header names its payload.
LEMMA FrameSectorKinds ==
    ASSUME NEW inc, NEW s, NEW p, NEW q, NEW k
    PROVE  /\ FrameSector(inc, s, p, k) # Zero
           /\ FrameSector(inc, s, p, 0) = PrepareSector(inc, s, p)
           /\ PrepareSector(inc, s, p).payload = p
           /\ PrepareSector(inc, s, p) = PrepareSector(inc, s, q) => p = q
<1>1. PrepareSector(inc, s, p).payload = p /\ PrepareSector(inc, s, q).payload = q
  BY DEF PrepareSector
<1>2. PrepareSector(inc, s, p) # Zero
  BY DEF PrepareSector, Zero
<1>3. DataSector(p, k) # Zero
  BY DEF DataSector, Zero
<1>4. CommitSector(inc, s, p) # Zero
  BY DEF CommitSector, Zero
<1> QED BY <1>1, <1>2, <1>3, <1>4 DEF FrameSector

\* The cursor lies on the device or one past it.
LEMMA CursorFacts ==
    ASSUME WalTypeOK, SettledFramesIntact
    PROVE  /\ Cursor \in Nat /\ Cursor <= SectorCount
           /\ Serial \in Nat /\ Serial >= 1
           /\ Len(settledEnds) \in Nat /\ Len(settledEnds) = Len(settled)
           /\ \A i \in 1 .. Len(settledEnds) :
                 /\ settled[i] \in Payload /\ settledEnds[i] \in Nat
                 /\ FrameStart(settledEnds, i) \in Nat
                 /\ settledEnds[i] = FrameStart(settledEnds, i) + FrameLength(settled[i])
                 /\ settledEnds[i] <= SectorCount
<1>1. /\ settledEnds \in Seq(Nat) /\ settled \in Seq(Payload)
      /\ Len(settledEnds) \in Nat /\ Len(settledEnds) = Len(settled)
  BY DEF WalTypeOK, SettledFramesIntact
<1>2. ASSUME NEW i \in 1 .. Len(settledEnds)
      PROVE  /\ settled[i] \in Payload /\ settledEnds[i] \in Nat
             /\ FrameStart(settledEnds, i) \in Nat
             /\ settledEnds[i] = FrameStart(settledEnds, i) + FrameLength(settled[i])
             /\ settledEnds[i] <= SectorCount
  <2>1. settled[i] \in Payload /\ settledEnds[i] \in Nat
    BY <1>1
  <2>2. FrameStart(settledEnds, i) \in Nat
    BY <1>1 DEF FrameStart
  <2>3. /\ settledEnds[i] = FrameStart(settledEnds, i) + FrameLength(settled[i])
        /\ HoldsFrame(walMedia, FrameStart(settledEnds, i), Incarnation, i, settled[i])
    BY <1>1 DEF SettledFramesIntact
  <2> QED BY <2>1, <2>2, <2>3 DEF HoldsFrame
<1>3. Cursor \in Nat /\ Cursor <= SectorCount
  BY <1>1, <1>2, WalAssumption DEF Cursor, PrefixEnd, FrameStart
<1> QED BY <1>1, <1>2, <1>3 DEF Serial
-----------------------------------------------------------------------------
(* What the steps have in common *)

\* A step that leaves the history alone and writes at or after the cursor
\* only keeps every settled frame on both copies.
LEMMA PrefixKept ==
    ASSUME WalTypeOK, SettledFramesIntact, PrefixShape,
           UNCHANGED <<settled, settledEnds>>,
           \A l \in Lba : l < Cursor =>
               walMedia'[l] = walMedia[l] /\ walStable'[l] = walMedia[l]
    PROVE  /\ SettledFramesIntact' /\ PrefixShape'
           /\ Cursor' = Cursor /\ Serial' = Serial
<1>1. Cursor' = Cursor /\ Serial' = Serial
  BY DEF Cursor, Serial, PrefixEnd, FrameStart
<1>2. PrefixShape'
  BY <1>1 DEF PrefixShape
<1>3. ASSUME NEW i \in 1 .. Len(settled), NEW d,
             \A l \in Lba : l < Cursor => d[l] = walMedia[l]
      PROVE  HoldsFrame(d, FrameStart(settledEnds, i), Incarnation, i, settled[i])
  <2> DEFINE b == FrameStart(settledEnds, i)
  <2>1. /\ settled[i] \in Payload /\ b \in Nat
        /\ settledEnds[i] = b + FrameLength(settled[i])
        /\ settledEnds[i] <= Cursor /\ Cursor \in Nat /\ Cursor <= SectorCount
    BY CursorFacts DEF PrefixShape
  <2>2. HoldsFrame(walMedia, b, Incarnation, i, settled[i])
    BY DEF SettledFramesIntact
  <2>3. ASSUME NEW k \in 0 .. PayloadSectors[settled[i]] + 1
        PROVE  d[b + k] = walMedia[b + k]
    <3>1. b + k \in Lba /\ b + k < Cursor
      BY SMTT(30), <2>1, FrameSizes, WalAssumption DEF Lba
    <3> QED BY <3>1, <1>3
  <2> QED BY <2>2, <2>3 DEF HoldsFrame
<1>4. SettledFramesIntact'
  <2>1. Len(settledEnds) = Len(settled)
    BY DEF SettledFramesIntact
  <2>2. ASSUME NEW i \in 1 .. Len(settled)
        PROVE  /\ settledEnds[i] = FrameStart(settledEnds, i) + FrameLength(settled[i])
               /\ HoldsFrame(walMedia', FrameStart(settledEnds, i), Incarnation, i, settled[i])
               /\ HoldsFrame(walStable', FrameStart(settledEnds, i), Incarnation, i, settled[i])
    BY <1>3 DEF SettledFramesIntact
  <2> QED BY <2>1, <2>2 DEF SettledFramesIntact, FrameStart
<1> QED BY <1>1, <1>2, <1>4

\* A power cut turns every tail the invariant allows into one it allows.
LEMMA TailAfterPowerCut ==
    ASSUME NEW m, NEW d, NEW c \in Nat, NEW s, NEW mb, NEW e,
           DOMAIN m = Lba,
           \A l \in Lba : e[l] = m[l] \/ e[l] = d[l],
           TailShape(m, d, c, s, mb)
    PROVE  TailShape(e, e, c, s, mb)
<1>1. CASE ZeroFrom(m, c) /\ ZeroFrom(d, c)
  <2>1. ZeroFrom(e, c)
    BY <1>1 DEF ZeroFrom
  <2> QED BY <2>1 DEF TailShape
<1>2. ASSUME NEW p \in Payload,
             PartialFrame(m, c, s, p), PartialFrame(d, c, s, p),
             \/ Unmarked(m, c, p) /\ Unmarked(d, c, p)
             \/ FrameWritten(m, c, s, p) /\ FrameWritten(d, c, s, p) /\ mb = <<p>>
      PROVE  TailShape(e, e, c, s, mb)
  <2>1. \A k \in 0 .. PayloadSectors[p] + 1 : c + k \in Lba
    BY <1>2, FrameSizes, WalAssumption DEF PartialFrame, Fits, Lba
  <2>2. PartialFrame(e, c, s, p)
    BY <1>2, <2>1 DEF PartialFrame, ZeroFrom
  <2>3. CASE Unmarked(m, c, p) /\ Unmarked(d, c, p)
    <3>1. c + 1 + PayloadSectors[p] \in Lba
      BY <1>2, FrameSizes, WalAssumption DEF PartialFrame, Fits, Lba
    <3>2. Unmarked(e, c, p)
      BY <2>3, <3>1 DEF Unmarked
    <3> QED BY <2>2, <3>2 DEF TailShape
  <2>4. CASE FrameWritten(m, c, s, p) /\ FrameWritten(d, c, s, p) /\ mb = <<p>>
    <3>1. \A k \in 0 .. PayloadSectors[p] : k \in 0 .. PayloadSectors[p] + 1
      BY FrameSizes
    <3>2. FrameWritten(e, c, s, p)
      BY <2>4, <2>1, <3>1 DEF FrameWritten
    <3> QED BY <2>2, <2>4, <3>2 DEF TailShape
  <2> QED BY <1>2, <2>3, <2>4
<1> QED BY <1>1, <1>2 DEF TailShape

\* The named shapes are partial frames.
LEMMA ShapesArePartial ==
    ASSUME NEW d, NEW c \in Nat, NEW s, NEW p \in Payload
    PROVE  /\ PreparedFrame(d, c, s, p) =>
                 PartialFrame(d, c, s, p) /\ Unmarked(d, c, p) /\ FrameWritten(d, c, s, p)
           /\ MarkedFrame(d, c, s, p) =>
                 PartialFrame(d, c, s, p) /\ FrameWritten(d, c, s, p)
           /\ HeaderOnly(d, c, s, p) => PartialFrame(d, c, s, p) /\ Unmarked(d, c, p)
           /\ Fits(c, p) /\ ZeroFrom(d, c) =>
                 PartialFrame(d, c, s, p) /\ Unmarked(d, c, p)
<1> DEFINE n == PayloadSectors[p]
<1>1. /\ n \in Nat /\ n >= 1 /\ FrameLength(p) = n + 2
      /\ SectorCount \in Nat
  BY FrameSizes, WalAssumption
<1>2. ASSUME Fits(c, p)
      PROVE  \A k \in 0 .. n + 1 : c + k \in Lba
  BY <1>1, <1>2 DEF Fits, Lba
<1>3. \A k \in 0 .. n + 1 : k = n + 1 \/ k \in 0 .. n
  BY <1>1
<1>4. FrameSector(Incarnation, s, p, 0) = PrepareSector(Incarnation, s, p)
  BY FrameSectorKinds
<1>5. ASSUME PreparedFrame(d, c, s, p)
      PROVE  PartialFrame(d, c, s, p) /\ Unmarked(d, c, p) /\ FrameWritten(d, c, s, p)
  <2>1. d[c + (n + 1)] = Zero
    BY <1>1, <1>2, <1>5 DEF PreparedFrame, ZeroFrom
  <2>2. Unmarked(d, c, p)
    BY <2>1, <1>1 DEF Unmarked
  <2>3. ZeroFrom(d, c + FrameLength(p))
    BY <1>1, <1>5 DEF PreparedFrame, ZeroFrom, Lba
  <2>4. \A k \in 0 .. n + 1 :
            d[c + k] = Zero \/ d[c + k] = FrameSector(Incarnation, s, p, k)
    BY <1>3, <1>5, <2>1 DEF PreparedFrame, FrameWritten
  <2> QED BY <1>5, <2>2, <2>3, <2>4 DEF PreparedFrame, PartialFrame
<1>6. ASSUME MarkedFrame(d, c, s, p)
      PROVE  PartialFrame(d, c, s, p) /\ FrameWritten(d, c, s, p)
  <2>1. \A k \in 0 .. n : k \in 0 .. n + 1
    BY <1>1
  <2> QED BY <1>6, <2>1 DEF MarkedFrame, HoldsFrame, PartialFrame, FrameWritten, Fits
<1>7. ASSUME HeaderOnly(d, c, s, p)
      PROVE  PartialFrame(d, c, s, p) /\ Unmarked(d, c, p)
  <2>1. \A k \in 1 .. n + 1 : d[c + k] = Zero
    BY <1>1, <1>2, <1>7 DEF HeaderOnly, ZeroFrom
  <2>2. Unmarked(d, c, p)
    BY <1>1, <2>1 DEF Unmarked
  <2>3. ZeroFrom(d, c + FrameLength(p))
    BY <1>1, <1>7 DEF HeaderOnly, ZeroFrom, Lba
  <2>4. ASSUME NEW k \in 0 .. n + 1
        PROVE  d[c + k] = Zero \/ d[c + k] = FrameSector(Incarnation, s, p, k)
    <3>1. CASE k = 0
      BY <3>1, <1>4, <1>7 DEF HeaderOnly
    <3>2. CASE k \in 1 .. n + 1
      BY <3>2, <2>1
    <3> QED BY <1>1, <3>1, <3>2
  <2> QED BY <1>7, <2>2, <2>3, <2>4 DEF HeaderOnly, PartialFrame
<1>8. ASSUME Fits(c, p), ZeroFrom(d, c)
      PROVE  PartialFrame(d, c, s, p) /\ Unmarked(d, c, p)
  <2>1. \A k \in 0 .. n + 1 : d[c + k] = Zero
    BY <1>1, <1>2, <1>8 DEF ZeroFrom
  <2>2. Unmarked(d, c, p)
    BY <1>1, <2>1 DEF Unmarked
  <2>3. ZeroFrom(d, c + FrameLength(p))
    BY <1>1, <1>8 DEF ZeroFrom, Lba
  <2> QED BY <1>8, <2>1, <2>2, <2>3 DEF PartialFrame
<1> QED BY <1>5, <1>6, <1>7, <1>8

\* The batches of writes the owner issues, on a device laid out as expected.
LEMMA PrepareBatch ==
    ASSUME NEW d, DOMAIN d = Lba, NEW c \in Nat, NEW s, NEW p \in Payload,
           Fits(c, p), ZeroFrom(d, c), NEW e,
           \A l \in Lba : e[l] = IF l \in c .. c + PayloadSectors[p]
                                 THEN FrameSector(Incarnation, s, p, l - c) ELSE d[l]
    PROVE  /\ PreparedFrame(e, c, s, p)
           /\ \A l \in Lba : l < c => e[l] = d[l]
           /\ \A l \in Lba : \/ e[l] = d[l]
                             \/ \E k \in 0 .. PayloadSectors[p] :
                                   e[l] = FrameSector(Incarnation, s, p, k)
<1> DEFINE n == PayloadSectors[p]
<1>1. /\ n \in Nat /\ n >= 1 /\ FrameLength(p) = n + 2
      /\ SectorCount \in Nat /\ c + n + 2 <= SectorCount
  BY FrameSizes, WalAssumption DEF Fits
<1>3. \A l \in Lba : e[l] = IF l \in c .. c + n THEN FrameSector(Incarnation, s, p, l - c)
                            ELSE d[l]
  OBVIOUS
<1>4. ASSUME NEW k \in 0 .. n PROVE e[c + k] = FrameSector(Incarnation, s, p, k)
  <2>1. c + k \in Lba /\ c + k \in c .. c + n /\ (c + k) - c = k
    BY <1>1 DEF Lba
  <2> QED BY <2>1, <1>3
<1>5. ZeroFrom(e, c + 1 + n)
  BY SMTT(30), <1>1, <1>3 DEF ZeroFrom, Lba
<1>6. \A l \in Lba : l < c => e[l] = d[l]
  BY <1>1, <1>3 DEF Lba
<1>7. ASSUME NEW l \in Lba
      PROVE  e[l] = d[l] \/ \E k \in 0 .. n : e[l] = FrameSector(Incarnation, s, p, k)
  <2>1. CASE l \in c .. c + n
    <3>1. l - c \in 0 .. n
      BY <1>1, <2>1 DEF Lba
    <3> QED BY <1>3, <2>1, <3>1
  <2> QED BY <1>3, <2>1
<1> QED BY <1>4, <1>5, <1>6, <1>7 DEF PreparedFrame, FrameWritten

MarkerWritten(d, c, s, p) ==
    WriteSectors(d, [l \in {c + 1 + PayloadSectors[p]} |-> CommitSector(Incarnation, s, p)])

\* What the marker's batch leaves of content d.
MarkerEffect(d, e, c, s, p) ==
    /\ DOMAIN e = Lba /\ MarkedFrame(e, c, s, p)
    /\ \A l \in Lba : l < c => e[l] = d[l]
    /\ \A l \in Lba : e[l] = d[l] \/ e[l] = CommitSector(Incarnation, s, p)

\* commit() writes one sector: the marker that completes the prepared frame.
LEMMA MarkerBatch ==
    ASSUME NEW d, DOMAIN d = Lba, NEW c \in Nat, NEW s, NEW p \in Payload,
           PreparedFrame(d, c, s, p)
    PROVE  MarkerEffect(d, MarkerWritten(d, c, s, p), c, s, p)
<1> DEFINE n == PayloadSectors[p]
           e == MarkerWritten(d, c, s, p)
<1>1. /\ n \in Nat /\ n >= 1 /\ FrameLength(p) = n + 2
      /\ SectorCount \in Nat /\ c + n + 2 <= SectorCount
  BY FrameSizes, WalAssumption DEF Fits, PreparedFrame
<1>2. DOMAIN e = Lba
  BY DEF MarkerWritten, WriteSectors
<1>3. \A l \in Lba : e[l] = IF l = c + 1 + n THEN CommitSector(Incarnation, s, p) ELSE d[l]
  BY DEF MarkerWritten, WriteSectors
<1> HIDE DEF e
<1>4. ASSUME NEW k \in 0 .. n + 1 PROVE e[c + k] = FrameSector(Incarnation, s, p, k)
  <2>1. c + k \in Lba
    BY <1>1 DEF Lba
  <2>2. CASE k = n + 1
    BY <1>1, <1>3, <2>1, <2>2 DEF FrameSector
  <2>3. CASE k \in 0 .. n
    BY <1>1, <1>3, <2>1, <2>3 DEF PreparedFrame, FrameWritten
  <2> QED BY <1>1, <2>2, <2>3
<1>5. ZeroFrom(e, c + FrameLength(p))
  BY SMTT(30), <1>1, <1>3 DEF PreparedFrame, ZeroFrom, Lba
<1>6. \A l \in Lba : l < c => e[l] = d[l]
  BY <1>1, <1>3 DEF Lba
<1>7. MarkedFrame(e, c, s, p)
  BY <1>1, <1>4, <1>5 DEF MarkedFrame, HoldsFrame
<1>8. MarkerEffect(d, e, c, s, p)
  BY <1>2, <1>3, <1>6, <1>7 DEF MarkerEffect
<1> QED BY <1>8 DEF e

\* The first batch of clear_frame leaves the PREPARE header alone.
LEMMA ClearSuffixBatch ==
    ASSUME NEW d, DOMAIN d = Lba, NEW c \in Nat, NEW s, NEW p \in Payload,
           PartialFrame(d, c, s, p), d[c] = PrepareSector(Incarnation, s, p), NEW e,
           e = WriteSectors(d, ZeroSectors(c + 1, c + 1 + PayloadSectors[p]))
    PROVE  /\ DOMAIN e = Lba /\ HeaderOnly(e, c, s, p)
           /\ \A l \in Lba : l < c => e[l] = d[l]
           /\ \A l \in Lba : e[l] = d[l] \/ e[l] = Zero
<1> DEFINE n == PayloadSectors[p]
<1>1. /\ n \in Nat /\ n >= 1 /\ FrameLength(p) = n + 2
      /\ SectorCount \in Nat /\ c + n + 2 <= SectorCount
  BY FrameSizes, WalAssumption DEF Fits, PartialFrame
<1>2. DOMAIN e = Lba
  BY DEF WriteSectors
<1>3. \A l \in Lba : e[l] = IF l \in c + 1 .. c + 1 + n THEN Zero ELSE d[l]
  BY DEF WriteSectors, ZeroSectors
<1>4. e[c] = PrepareSector(Incarnation, s, p)
  BY <1>1, <1>3 DEF Lba
<1>5. ZeroFrom(e, c + 1)
  BY <1>1, <1>3 DEF PartialFrame, ZeroFrom, Lba
<1>6. \A l \in Lba : l < c => e[l] = d[l]
  BY <1>1, <1>3 DEF Lba
<1> QED BY <1>2, <1>3, <1>4, <1>5, <1>6 DEF HeaderOnly, PartialFrame

\* The second batch of clear_frame leaves zeros from the cursor on.
LEMMA ClearHeaderBatch ==
    ASSUME NEW d, DOMAIN d = Lba, NEW c \in Nat, NEW s, NEW p \in Payload,
           HeaderOnly(d, c, s, p), NEW e,
           e = WriteSectors(d, ZeroSectors(c, c))
    PROVE  /\ DOMAIN e = Lba /\ ZeroFrom(e, c)
           /\ \A l \in Lba : l < c => e[l] = d[l]
           /\ \A l \in Lba : e[l] = d[l] \/ e[l] = Zero
<1>1. DOMAIN e = Lba
  BY DEF WriteSectors
<1>2. \A l \in Lba : e[l] = IF l \in c .. c THEN Zero ELSE d[l]
  BY DEF WriteSectors, ZeroSectors
<1>3. ZeroFrom(e, c)
  BY <1>2, WalAssumption DEF HeaderOnly, ZeroFrom, Lba
<1>4. \A l \in Lba : l < c => e[l] = d[l]
  BY <1>2, WalAssumption DEF Lba
<1> QED BY <1>1, <1>2, <1>3, <1>4
-----------------------------------------------------------------------------
(* recover: what the scan returns *)

\* The lists of frame ends the scan ranges over.
LEMMA EndListFacts ==
    ASSUME NEW ends \in EndLists
    PROVE  /\ ends \in Seq(Nat) /\ Len(ends) \in Nat
           /\ PrefixEnd(ends) \in Nat
           /\ \A i \in 1 .. Len(ends) :
                 FrameStart(ends, i) \in Nat /\ ends[i] \in Nat
<1>1. PICK n \in 0 .. SectorCount \div 3 : ends \in [1 .. n -> 1 .. SectorCount]
  BY DEF EndLists
<1>2. n \in Nat
  BY <1>1, WalAssumption
<1>3. ends \in Seq(Nat)
  BY <1>1, <1>2, WalAssumption
<1>4. Len(ends) \in Nat /\ \A i \in 1 .. Len(ends) : ends[i] \in Nat
  BY <1>3
<1> QED BY <1>3, <1>4 DEF PrefixEnd, FrameStart

\* Two frames that begin at one sector of one device, under one serial, are
\* frames of the same payload.
LEMMA SameFrame ==
    ASSUME NEW d, NEW b \in Nat, NEW inc, NEW i, NEW p \in Payload, NEW q \in Payload,
           HoldsFrame(d, b, inc, i, p),
           HoldsFrame(d, b, inc, i, q) \/ d[b] = PrepareSector(inc, i, q)
    PROVE  p = q
<1>1. 0 \in 0 .. PayloadSectors[p] + 1 /\ 0 \in 0 .. PayloadSectors[q] + 1 /\ b + 0 = b
  BY FrameSizes
<1>2. d[b] = PrepareSector(inc, i, p)
  BY <1>1, FrameSectorKinds DEF HoldsFrame
<1>3. HoldsFrame(d, b, inc, i, q) => d[b] = PrepareSector(inc, i, q)
  BY <1>1, FrameSectorKinds DEF HoldsFrame
<1> QED BY <1>2, <1>3, FrameSectorKinds

\* As far as both lists go, the scan finds the frames the history names.
LEMMA ScanAgrees ==
    ASSUME WalTypeOK, SettledFramesIntact, NEW ends \in EndLists,
           CommittedPrefix(walMedia, Incarnation, ends),
           NEW i \in 1 .. Len(ends), i <= Len(settledEnds)
    PROVE  ends[i] = settledEnds[i]
<1> DEFINE T == {j \in Nat : /\ j \in 1 .. Len(ends) /\ j \in 1 .. Len(settledEnds)
                             /\ ends[j] # settledEnds[j]}
<1>1. Len(ends) \in Nat /\ Len(settledEnds) \in Nat
  BY EndListFacts, CursorFacts
<1>2. SUFFICES ASSUME T # {} PROVE FALSE
  BY <1>1
<1>3. PICK j \in T : \A y \in T : j <= y
  BY ZenonT(30), <1>2, LeastNatural
<1>4. j \in Nat /\ j \in 1 .. Len(ends) /\ j \in 1 .. Len(settledEnds) /\ ends[j] # settledEnds[j]
  BY <1>3
<1>5. FrameStart(ends, j) = FrameStart(settledEnds, j)
  <2>1. CASE j = 1
    BY <2>1 DEF FrameStart
  <2>2. CASE j # 1
    <3>1. j - 1 \in Nat /\ j - 1 \in 1 .. Len(ends) /\ j - 1 \in 1 .. Len(settledEnds) /\ ~(j <= j - 1)
      BY <1>1, <1>4, <2>2
    <3>2. j - 1 \notin T
      BY <3>1, <1>3
    <3>3. ends[j - 1] = settledEnds[j - 1]
      BY <3>1, <3>2
    <3> QED BY <2>2, <3>3 DEF FrameStart
  <2> QED BY <2>1, <2>2
<1> DEFINE b == FrameStart(settledEnds, j)
<1>6. PICK p \in Payload : ends[j] = b + FrameLength(p) /\ HoldsFrame(walMedia, b, Incarnation, j, p)
  BY <1>4, <1>5 DEF CommittedPrefix
<1>7. /\ settled[j] \in Payload /\ b \in Nat
      /\ settledEnds[j] = b + FrameLength(settled[j])
      /\ HoldsFrame(walMedia, b, Incarnation, j, settled[j])
  BY <1>4, CursorFacts DEF SettledFramesIntact
<1>8. p = settled[j]
  BY ZenonT(30), <1>6, <1>7, SameFrame
<1> QED BY <1>4, <1>6, <1>7, <1>8

\* The scan does not stop inside the settled prefix.
LEMMA ScanCoversSettled ==
    ASSUME WalTypeOK, SettledFramesIntact, NEW ends \in EndLists, NEW t,
           CommittedPrefix(walMedia, Incarnation, ends),
           ScanStops(walMedia, Incarnation, ends, t)
    PROVE  Len(settledEnds) <= Len(ends)
<1> DEFINE n == Len(ends)
<1>1. n \in Nat /\ Len(settledEnds) \in Nat /\ Len(settledEnds) = Len(settled)
  BY EndListFacts, CursorFacts
<1>2. SUFFICES ASSUME n < Len(settledEnds) PROVE FALSE
  BY <1>1
<1> DEFINE j == n + 1
           b == FrameStart(settledEnds, j)
<1>3. j \in 1 .. Len(settledEnds) /\ j \in 1 .. Len(settled)
  BY <1>1, <1>2
<1>4. PrefixEnd(ends) = b
  <2>1. CASE n = 0
    BY <2>1 DEF PrefixEnd, FrameStart
  <2>2. CASE n # 0
    <3>1. n \in 1 .. Len(ends) /\ n <= Len(settledEnds) /\ n + 1 # 1 /\ (n + 1) - 1 = n
      BY <1>1, <1>2, <2>2
    <3>2. ends[n] = settledEnds[n]
      BY <3>1, ScanAgrees
    <3> QED BY <3>1, <3>2 DEF PrefixEnd, FrameStart
  <2> QED BY <2>1, <2>2
<1> DEFINE q == settled[j]
<1>5. /\ q \in Payload /\ b \in Nat
      /\ HoldsFrame(walMedia, b, Incarnation, j, q)
  BY <1>3, CursorFacts DEF SettledFramesIntact
<1>6. /\ PayloadSectors[q] \in Nat /\ FrameLength(q) = PayloadSectors[q] + 2
      /\ b + FrameLength(q) <= SectorCount /\ SectorCount \in Nat
  BY <1>5, FrameSizes, WalAssumption DEF HoldsFrame
<1> DEFINE mark == b + (PayloadSectors[q] + 1)
<1>7. /\ b \in Lba /\ walMedia[b + 0] = FrameSector(Incarnation, j, q, 0)
      /\ mark \in Lba /\ walMedia[mark] = FrameSector(Incarnation, j, q, PayloadSectors[q] + 1)
  BY SMTT(30), <1>5, <1>6 DEF HoldsFrame, Lba
<1>8. walMedia[b] # Zero /\ walMedia[mark] # Zero
  BY <1>5, <1>7, FrameSectorKinds
<1>9. CASE ZeroFrom(walMedia, b)
  BY <1>5, <1>7, <1>8, <1>9 DEF ZeroFrom
<1>10. ASSUME NEW p \in Payload, t = PayloadSectors[p],
              walMedia[b] = PrepareSector(Incarnation, j, p),
              ZeroFrom(walMedia, b + 1 + t)
       PROVE  FALSE
  <2>1. p = q
    BY <1>5, <1>10, SameFrame
  <2>2. mark >= b + 1 + t
    BY <1>5, <1>6, <1>10, <2>1
  <2> QED BY <1>7, <1>8, <1>10, <2>2 DEF ZeroFrom
<1> QED BY <1>4, <1>9, <1>10 DEF ScanStops

\* The scan returns the settled records, or these and the record whose
\* marker was issued.
LEMMA ScanResult ==
    ASSUME WalTypeOK, SettledFramesIntact,
           TailShape(walMedia, walStable, Cursor, Serial, maybe),
           NEW ends \in EndLists, NEW t,
           CommittedPrefix(walMedia, Incarnation, ends),
           ScanStops(walMedia, Incarnation, ends, t)
    PROVE  \/ ends = settledEnds
           \/ \E p \in Payload :
                 /\ maybe = <<p>> /\ MarkedFrame(walMedia, Cursor, Serial, p)
                 /\ ends = Append(settledEnds, Cursor + FrameLength(p))
<1> DEFINE m == Len(settledEnds)
           n == Len(ends)
<1>1. /\ n \in Nat /\ m \in Nat /\ m <= n /\ Cursor \in Nat
      /\ ends \in Seq(Nat) /\ settledEnds \in Seq(Nat)
  BY EndListFacts, CursorFacts, ScanCoversSettled DEF WalTypeOK
<1>2. \A i \in 1 .. m : ends[i] = settledEnds[i]
  BY <1>1, ScanAgrees
<1>3. CASE n = m
  <2>1. ends = settledEnds
    BY <1>1, <1>2, <1>3
  <2> QED BY <2>1
<1>4. CASE n > m
  <2>1. m + 1 \in 1 .. n /\ Serial = m + 1
    BY <1>1, <1>4 DEF Serial
  <2>2. FrameStart(ends, m + 1) = Cursor
    <3>1. CASE m = 0
      BY <3>1 DEF Cursor, PrefixEnd, FrameStart
    <3>2. CASE m # 0
      <4>1. ends[m] = settledEnds[m] /\ m + 1 # 1 /\ (m + 1) - 1 = m
        BY <1>1, <1>2, <3>2
      <4> QED BY <4>1 DEF Cursor, PrefixEnd, FrameStart
    <3> QED BY <3>1, <3>2
  <2>3. PICK p \in Payload : /\ ends[m + 1] = Cursor + FrameLength(p)
                             /\ HoldsFrame(walMedia, Cursor, Incarnation, Serial, p)
    BY <2>1, <2>2 DEF CommittedPrefix
  <2>4. /\ PayloadSectors[p] \in Nat /\ FrameLength(p) = PayloadSectors[p] + 2
        /\ Cursor + FrameLength(p) <= SectorCount /\ SectorCount \in Nat
    BY <2>3, FrameSizes, WalAssumption DEF HoldsFrame
  <2> DEFINE mark == Cursor + 1 + PayloadSectors[p]
  <2>5. Cursor \in Lba /\ walMedia[Cursor] # Zero /\ walMedia[mark] # Zero
    <3>1. Cursor \in Lba /\ Cursor + 0 = Cursor /\ Cursor + (PayloadSectors[p] + 1) = mark
      BY <1>1, <2>4 DEF Lba
    <3>2. /\ walMedia[Cursor + 0] = FrameSector(Incarnation, Serial, p, 0)
          /\ walMedia[Cursor + (PayloadSectors[p] + 1)]
                = FrameSector(Incarnation, Serial, p, PayloadSectors[p] + 1)
      BY <2>3, <2>4 DEF HoldsFrame
    <3> QED BY <3>1, <3>2, FrameSectorKinds
  <2>6. ~ ZeroFrom(walMedia, Cursor)
    BY <1>1, <2>5 DEF ZeroFrom
  <2>7. PICK q \in Payload :
           /\ PartialFrame(walMedia, Cursor, Serial, q)
           /\ Unmarked(walMedia, Cursor, q) \/ maybe = <<q>>
    BY <2>6 DEF TailShape
  <2>8. q = p
    <3>1. walMedia[Cursor] = PrepareSector(Incarnation, Serial, q)
      <4>1. 0 \in 0 .. PayloadSectors[q] + 1 /\ Cursor + 0 = Cursor
        BY <1>1, FrameSizes
      <4> QED BY <2>5, <2>7, <4>1, FrameSectorKinds DEF PartialFrame
    <3> QED BY <1>1, <2>3, <3>1, SameFrame
  <2>9. maybe = <<p>> /\ ZeroFrom(walMedia, Cursor + FrameLength(p))
    BY <2>5, <2>7, <2>8 DEF Unmarked, PartialFrame
  <2>10. n = m + 1
    <3>1. SUFFICES ASSUME n > m + 1 PROVE FALSE
      BY <1>1, <1>4
    <3>2. m + 2 \in 1 .. n /\ m + 2 # 1 /\ (m + 2) - 1 = m + 1
      BY <1>1, <3>1
    <3>3. FrameStart(ends, m + 2) = Cursor + FrameLength(p)
      BY <2>3, <3>2 DEF FrameStart
    <3> DEFINE b == Cursor + FrameLength(p)
    <3>4. PICK r \in Payload : HoldsFrame(walMedia, b, Incarnation, m + 2, r)
      BY <3>2, <3>3 DEF CommittedPrefix
    <3>5. /\ 0 \in 0 .. PayloadSectors[r] + 1 /\ b + 0 = b /\ b \in Lba
      <4>1. /\ PayloadSectors[r] \in Nat /\ FrameLength(r) = PayloadSectors[r] + 2
            /\ b \in Nat /\ b + FrameLength(r) <= SectorCount
        <5>1. PayloadSectors[r] \in Nat /\ FrameLength(r) = PayloadSectors[r] + 2
          BY FrameSizes
        <5>2. b + FrameLength(r) <= SectorCount
          BY <3>4 DEF HoldsFrame
        <5>3. b \in Nat
          BY <1>1, FrameSizes
        <5> QED BY <5>1, <5>2, <5>3
      <4> HIDE DEF b
      <4> QED BY <2>4, <4>1 DEF Lba
    <3>6. walMedia[b] # Zero
      BY <3>4, <3>5, FrameSectorKinds DEF HoldsFrame
    <3> QED BY <1>1, <2>4, <2>9, <3>5, <3>6 DEF ZeroFrom
  <2>11. ends = Append(settledEnds, Cursor + FrameLength(p))
    BY <1>1, <1>2, <2>3, <2>10
  <2> QED BY <2>3, <2>9, <2>11 DEF MarkedFrame
<1> QED BY <1>1, <1>3, <1>4

\* The records read from the prefix are the payloads of its frames.
LEMMA ParsedSettled ==
    ASSUME WalTypeOK, SettledFramesIntact
    PROVE  ParsedRecords(walMedia, settledEnds) = settled
<1>1. settled \in Seq(Payload) /\ Len(settledEnds) = Len(settled) /\ Len(settled) \in Nat
  BY CursorFacts DEF WalTypeOK
<1>2. ASSUME NEW i \in 1 .. Len(settled)
      PROVE  walMedia[FrameStart(settledEnds, i)].payload = settled[i]
  <2>1. /\ settled[i] \in Payload /\ FrameStart(settledEnds, i) \in Nat
        /\ HoldsFrame(walMedia, FrameStart(settledEnds, i), Incarnation, i, settled[i])
    BY <1>1, CursorFacts DEF SettledFramesIntact
  <2>2. 0 \in 0 .. PayloadSectors[settled[i]] + 1
        /\ FrameStart(settledEnds, i) + 0 = FrameStart(settledEnds, i)
    BY <2>1, FrameSizes
  <2>3. walMedia[FrameStart(settledEnds, i)] = PrepareSector(Incarnation, i, settled[i])
    BY <2>1, <2>2, FrameSectorKinds DEF HoldsFrame
  <2> QED BY <2>3, FrameSectorKinds
<1> QED BY <1>1, <1>2 DEF ParsedRecords

-----------------------------------------------------------------------------
(* The invariant is inductive: one lemma per action *)

\* The owners and the token that hold nothing are well typed.
LEMMA OwnerTypes ==
    /\ NoWal \in WalOwner /\ NoWal.state = "Absent" /\ NoWal.io = "idle"
    /\ [NoWal EXCEPT !.state = "Refused"] \in WalOwner
    /\ [NoWal EXCEPT !.state = "ReadFailed"] \in WalOwner
    /\ NoToken \in WalToken /\ ~ NoToken.held
<1>1. NoWal \in WalOwner /\ NoWal.state = "Absent" /\ NoWal.io = "idle"
  BY DEF NoWal, WalOwner, WalStates, WalEffects
<1>2. /\ [NoWal EXCEPT !.state = "Refused"] \in WalOwner
      /\ [NoWal EXCEPT !.state = "ReadFailed"] \in WalOwner
  BY ZenonT(30), <1>1 DEF WalOwner, WalStates
<1>3. NoToken \in WalToken /\ ~ NoToken.held
  BY DEF NoToken, WalToken
<1> QED BY <1>1, <1>2, <1>3

\* An unwritten device holds no record.
LEMMA InitEstablishesInv == WalInit => WalInv
<1> SUFFICES ASSUME WalInit PROVE WalInv
  OBVIOUS
<1>1. settledEnds = <<>> /\ settled = <<>> /\ Len(settledEnds) = 0 /\ Len(settled) = 0 /\ maybe = <<>>
  BY DEF WalInit
<1>2. Cursor = 0
  BY <1>1 DEF Cursor, PrefixEnd, FrameStart
<1>3. /\ wal = NoWal /\ wal.state = "Absent" /\ wal.io = "idle" /\ ~ token.held
      /\ token = NoToken
  BY OwnerTypes DEF WalInit
<1>4. /\ walMedia = walStable /\ DOMAIN walMedia = Lba
      /\ \A l \in Lba : walMedia[l] = Zero
  BY DEF WalInit
<1>5. WalTypeOK
  BY <1>1, <1>3, <1>4, OwnerTypes DEF WalTypeOK, SectorType
<1>6. SettledFramesIntact /\ PrefixShape
  BY <1>1, <1>4 DEF SettledFramesIntact, PrefixShape
<1>7. ZeroFrom(walMedia, Cursor)
  BY <1>4 DEF ZeroFrom
<1>8. TailShape(walMedia, walStable, Cursor, Serial, maybe)
  BY <1>4, <1>7 DEF TailShape
<1>9. QuietShape /\ PendingShape /\ PreparedShape /\ RecoveredShape /\ OwnerAgrees
  BY <1>3, <1>4, <1>7 DEF QuietShape, PendingShape, PreparedShape, RecoveredShape,
     OwnerAgrees, Synced, LiveStates
<1> QED BY <1>5, <1>6, <1>8, <1>9 DEF WalInv

\* A step that touches neither the device nor the history.
LEMMA DeviceUntouched ==
    ASSUME WalInv, UNCHANGED <<walMedia, walStable, settled, settledEnds, maybe>>
    PROVE  /\ SettledFramesIntact' /\ PrefixShape'
           /\ TailShape(walMedia, walStable, Cursor, Serial, maybe)'
           /\ Cursor' = Cursor /\ Serial' = Serial
           /\ (wal' \in WalOwner /\ token' \in WalToken => WalTypeOK')
<1>1. SettledFramesIntact' /\ PrefixShape' /\ Cursor' = Cursor /\ Serial' = Serial
  <2>1. \A l \in Lba : l < Cursor =>
               walMedia'[l] = walMedia[l] /\ walStable'[l] = walMedia[l]
    BY DEF WalInv, PrefixShape
  <2>2. WalTypeOK /\ SettledFramesIntact /\ PrefixShape
    BY DEF WalInv
  <2> QED BY <2>1, <2>2, PrefixKept
<1>2. TailShape(walMedia', walStable', Cursor', Serial', maybe')
  BY <1>1 DEF WalInv
<1>3. wal' \in WalOwner /\ token' \in WalToken => WalTypeOK'
  BY DEF WalInv, WalTypeOK
<1> QED BY <1>1, <1>2, <1>3

\* recover() refused or failed, or into_device(): the owner is gone.
LEMMA OwnerGoneKeepsInv ==
    ASSUME WalInv,
           RecoverRefused(Incarnation) \/ RecoverReadFailed \/ IntoDevice
    PROVE  WalInv'
<1>1. UNCHANGED <<walMedia, walStable, token, settled, settledEnds, maybe>>
  BY DEF RecoverRefused, RecoverReadFailed, IntoDevice, walHistory
<1>2. /\ wal' \in WalOwner /\ token' \in WalToken
      /\ wal'.state \in {"Absent", "Refused", "ReadFailed"} /\ wal'.io = "idle"
  <2>1. \/ wal' = NoWal \/ wal' = [NoWal EXCEPT !.state = "Refused"]
        \/ wal' = [NoWal EXCEPT !.state = "ReadFailed"]
    BY DEF RecoverRefused, RecoverReadFailed, IntoDevice
  <2>2. token' \in WalToken
    BY <1>1 DEF WalInv, WalTypeOK
  <2> QED BY <2>1, <2>2, OwnerTypes DEF NoWal
<1>3. /\ SettledFramesIntact' /\ PrefixShape' /\ WalTypeOK'
      /\ TailShape(walMedia, walStable, Cursor, Serial, maybe)'
  BY <1>1, <1>2, DeviceUntouched
<1>4. walMedia = walStable /\ ~ token.held
  BY SMTT(30) DEF RecoverRefused, RecoverReadFailed, IntoDevice, WalInv, QuietShape, Synced
<1>5. QuietShape' /\ PendingShape' /\ PreparedShape' /\ RecoveredShape' /\ OwnerAgrees'
  BY <1>1, <1>2, <1>4 DEF QuietShape, PendingShape, PreparedShape, RecoveredShape,
     OwnerAgrees, Synced, LiveStates
<1> QED BY <1>3, <1>5 DEF WalInv

\* into_continuation() hands the settled prefix to the token.
LEMMA IntoContinuationKeepsInv ==
    ASSUME WalInv, IntoContinuation
    PROVE  WalInv'
<1>1. UNCHANGED <<walMedia, walStable, settled, settledEnds, maybe>>
  BY DEF IntoContinuation, walHistory
<1>2. /\ wal.state = "Ready" /\ wal' = NoWal /\ wal'.state = "Absent" /\ wal'.io = "idle"
      /\ token' = [held |-> TRUE, incarnation |-> wal.incarnation,
                   record_end_lbas |-> wal.record_end_lbas]
  BY OwnerTypes DEF IntoContinuation
<1>3. wal' \in WalOwner /\ token' \in WalToken
  BY <1>2, OwnerTypes DEF WalInv, WalTypeOK, WalOwner, WalToken
<1>4. /\ SettledFramesIntact' /\ PrefixShape' /\ WalTypeOK'
      /\ TailShape(walMedia, walStable, Cursor, Serial, maybe)'
      /\ Cursor' = Cursor /\ Serial' = Serial
  BY <1>1, <1>3, DeviceUntouched
<1>5. /\ walMedia = walStable /\ ZeroFrom(walMedia, Cursor) /\ maybe = <<>>
      /\ wal.incarnation = Incarnation /\ wal.record_end_lbas = settledEnds
  BY <1>2 DEF WalInv, QuietShape, Synced, OwnerAgrees, LiveStates
<1>6. QuietShape' /\ OwnerAgrees'
  BY SMTT(30), <1>1, <1>2, <1>4, <1>5 DEF QuietShape, OwnerAgrees, Synced, LiveStates
<1>7. PendingShape' /\ PreparedShape' /\ RecoveredShape'
  BY <1>2 DEF PendingShape, PreparedShape, RecoveredShape
<1> QED BY <1>4, <1>6, <1>7 DEF WalInv

\* resume_from_continuation() rebuilds the owner from the token.
LEMMA ResumeKeepsInv ==
    ASSUME WalInv, ResumeFromContinuation
    PROVE  WalInv'
<1>1. UNCHANGED <<walMedia, walStable, settled, settledEnds, maybe>>
  BY DEF ResumeFromContinuation, walHistory
<1>2. /\ wal' = ReadyWal(Incarnation, settledEnds) /\ token' = NoToken
      /\ walMedia = walStable /\ ZeroFrom(walMedia, Cursor) /\ maybe = <<>>
  BY DEF ResumeFromContinuation, WalInv, QuietShape, Synced, OwnerAgrees
<1>3. /\ wal'.state = "Ready" /\ wal'.io = "idle" /\ wal'.incarnation = Incarnation
      /\ wal'.record_end_lbas = settledEnds /\ wal'.cursor = Cursor
      /\ wal'.next_serial = Serial
      /\ wal' \in WalOwner /\ token' \in WalToken /\ ~ token'.held
  <2>1. Cursor \in Nat /\ Serial \in Nat /\ settledEnds \in Seq(Nat) /\ Incarnation \in Nat
    BY CursorFacts, WalAssumption DEF WalInv, WalTypeOK
  <2>2. wal' = [NoWal EXCEPT !.state = "Ready", !.incarnation = Incarnation,
                  !.cursor = Cursor, !.next_serial = Serial,
                  !.record_end_lbas = settledEnds]
    BY <1>2 DEF ReadyWal, Cursor, Serial
  <2>3. NoWal \in WalOwner /\ NoWal.io = "idle" /\ "Ready" \in WalStates
    BY OwnerTypes DEF WalStates
  <2>4. wal' \in WalOwner
    BY <2>1, <2>2, <2>3, ZenonT(30) DEF WalOwner
  <2>5. /\ wal'.state = "Ready" /\ wal'.io = "idle" /\ wal'.incarnation = Incarnation
        /\ wal'.record_end_lbas = settledEnds /\ wal'.cursor = Cursor
        /\ wal'.next_serial = Serial
    BY <2>2, <2>3 DEF WalOwner
  <2> QED BY <1>2, <2>4, <2>5, OwnerTypes
<1>4. /\ SettledFramesIntact' /\ PrefixShape' /\ WalTypeOK'
      /\ TailShape(walMedia, walStable, Cursor, Serial, maybe)'
      /\ Cursor' = Cursor /\ Serial' = Serial
  BY <1>1, <1>3, DeviceUntouched
<1>5. QuietShape' /\ OwnerAgrees'
  BY SMTT(30), <1>1, <1>2, <1>3, <1>4 DEF QuietShape, OwnerAgrees, Synced, LiveStates
<1>6. PendingShape' /\ PreparedShape' /\ RecoveredShape'
  BY <1>3 DEF PendingShape, PreparedShape, RecoveredShape
<1> QED BY <1>4, <1>5, <1>6 DEF WalInv

\* begin() reserves a frame that fits.
LEMMA BeginKeepsInv ==
    ASSUME WalInv, NEW p \in Payload, Begin(p)
    PROVE  WalInv'
<1>1. UNCHANGED <<walMedia, walStable, token, settled, settledEnds, maybe>>
  BY DEF Begin, walHistory
<1>2. /\ wal.state = "Ready" /\ wal.cursor + FrameLength(p) <= SectorCount
      /\ wal' = [wal EXCEPT !.state = "PendingPrepare", !.pending = p]
  BY DEF Begin
<1>3. /\ wal \in WalOwner /\ token \in WalToken /\ ~ token.held
      /\ walMedia = walStable /\ wal.io = "idle" /\ ZeroFrom(walMedia, Cursor) /\ maybe = <<>>
      /\ wal.incarnation = Incarnation /\ wal.record_end_lbas = settledEnds
      /\ wal.cursor = Cursor /\ wal.next_serial = Serial
  BY <1>2 DEF WalInv, WalTypeOK, QuietShape, Synced, OwnerAgrees, LiveStates
<1>4. /\ wal'.state = "PendingPrepare" /\ wal'.pending = p /\ wal'.io = "idle"
      /\ wal'.incarnation = Incarnation /\ wal'.record_end_lbas = settledEnds
      /\ wal'.cursor = Cursor /\ wal'.next_serial = Serial
      /\ wal' \in WalOwner
  BY ZenonT(30), <1>2, <1>3 DEF WalOwner, WalStates
<1>5. /\ SettledFramesIntact' /\ PrefixShape' /\ WalTypeOK'
      /\ TailShape(walMedia, walStable, Cursor, Serial, maybe)'
      /\ Cursor' = Cursor /\ Serial' = Serial
  BY SMTT(30), <1>1, <1>3, <1>4, DeviceUntouched
<1>6. QuietShape' /\ OwnerAgrees'
  BY <1>1, <1>3, <1>4, <1>5 DEF QuietShape, OwnerAgrees, LiveStates
<1>7. PendingShape'
  BY SMTT(30), <1>1, <1>2, <1>3, <1>4, <1>5 DEF PendingShape, Fits, Synced
<1>8. PreparedShape' /\ RecoveredShape'
  BY <1>4 DEF PreparedShape, RecoveredShape
<1> QED BY <1>5, <1>6, <1>7, <1>8 DEF WalInv

\* cancel_pending() gives the reservation up.
LEMMA CancelPendingKeepsInv ==
    ASSUME WalInv, CancelPending
    PROVE  WalInv'
<1>1. UNCHANGED <<walMedia, walStable, token, settled, settledEnds, maybe>>
  BY DEF CancelPending, walHistory
<1>2. /\ wal.state = "PendingPrepare" /\ wal.io = "idle"
      /\ wal' = [wal EXCEPT !.state = "Ready", !.pending = NoPayload]
  BY DEF CancelPending
<1>3. /\ wal \in WalOwner /\ token \in WalToken /\ ~ token.held
      /\ walMedia = walStable /\ ZeroFrom(walMedia, Cursor) /\ maybe = <<>>
      /\ wal.incarnation = Incarnation /\ wal.record_end_lbas = settledEnds
      /\ wal.cursor = Cursor /\ wal.next_serial = Serial
  BY <1>2 DEF WalInv, WalTypeOK, QuietShape, PendingShape, Synced, OwnerAgrees, LiveStates
<1>4. /\ wal'.state = "Ready" /\ wal'.io = "idle"
      /\ wal'.incarnation = Incarnation /\ wal'.record_end_lbas = settledEnds
      /\ wal'.cursor = Cursor /\ wal'.next_serial = Serial
      /\ wal' \in WalOwner
  BY ZenonT(30), <1>2, <1>3 DEF WalOwner, WalStates
<1>5. /\ SettledFramesIntact' /\ PrefixShape' /\ WalTypeOK'
      /\ TailShape(walMedia, walStable, Cursor, Serial, maybe)'
      /\ Cursor' = Cursor /\ Serial' = Serial
  BY <1>1, <1>3, <1>4, DeviceUntouched
<1>6. QuietShape' /\ OwnerAgrees'
  BY SMTT(30), <1>1, <1>3, <1>4, <1>5 DEF QuietShape, OwnerAgrees, LiveStates, Synced
<1>7. PendingShape' /\ PreparedShape' /\ RecoveredShape'
  BY <1>4 DEF PendingShape, PreparedShape, RecoveredShape
<1> QED BY <1>5, <1>6, <1>7 DEF WalInv

\* A failed write or flush leaves the owner uncertain.
LEMMA EffectFailsKeepsInv ==
    ASSUME WalInv, EffectFails
    PROVE  WalInv'
<1>1. UNCHANGED <<walMedia, walStable, token, settled, settledEnds, maybe>>
  BY DEF EffectFails, walHistory
<1>2. /\ wal.io # "idle" /\ wal' = [wal EXCEPT !.state = "Uncertain", !.io = "idle"]
      /\ wal \in WalOwner /\ token \in WalToken
  BY DEF EffectFails, WalInv, WalTypeOK
<1>3. wal'.state = "Uncertain" /\ wal'.io = "idle" /\ wal' \in WalOwner
  BY ZenonT(30), <1>2 DEF WalOwner, WalStates, WalEffects
<1>4. ~ token.held
  BY <1>2 DEF WalInv, QuietShape
<1>5. /\ SettledFramesIntact' /\ PrefixShape' /\ WalTypeOK'
      /\ TailShape(walMedia, walStable, Cursor, Serial, maybe)'
  BY SMTT(30), <1>1, <1>2, <1>3, DeviceUntouched
<1>6. QuietShape' /\ PendingShape' /\ PreparedShape' /\ RecoveredShape' /\ OwnerAgrees'
  BY SMTT(30), <1>1, <1>3, <1>4 DEF QuietShape, PendingShape, PreparedShape, RecoveredShape,
     OwnerAgrees, LiveStates
<1> QED BY <1>5, <1>6 DEF WalInv

\* What holds of an owner between begin() and its barrier, in one place.
LEMMA LiveOwner ==
    ASSUME WalInv, wal.state \in LiveStates
    PROVE  /\ wal \in WalOwner /\ token \in WalToken /\ ~ token.held
           /\ wal.incarnation = Incarnation /\ wal.record_end_lbas = settledEnds
           /\ wal.cursor = Cursor /\ wal.next_serial = Serial
           /\ Cursor \in Nat /\ Serial \in Nat
           /\ DOMAIN walMedia = Lba /\ DOMAIN walStable = Lba
BY CursorFacts DEF WalInv, WalTypeOK, QuietShape, OwnerAgrees, LiveStates

\* The sectors of a frame are sectors.
LEMMA FrameSectorType ==
    ASSUME NEW s \in Nat, NEW p \in Payload, NEW k \in Nat
    PROVE  FrameSector(Incarnation, s, p, k) \in SectorType
BY WalAssumption DEF FrameSector, PrepareSector, DataSector, CommitSector, SectorType

\* A step that writes sectors of one batch after the cursor.
LEMMA BatchIssued ==
    ASSUME WalInv, UNCHANGED <<settled, settledEnds>>,
           \A l \in Lba : l < Cursor =>
               walMedia'[l] = walMedia[l] /\ walStable'[l] = walMedia[l],
           DOMAIN walMedia' = Lba, DOMAIN walStable' = Lba,
           \A l \in Lba : walMedia'[l] \in SectorType /\ walStable'[l] \in SectorType,
           wal' \in WalOwner, token' \in WalToken, maybe' \in Seq(Payload)
    PROVE  /\ SettledFramesIntact' /\ PrefixShape' /\ WalTypeOK'
           /\ Cursor' = Cursor /\ Serial' = Serial
<1>1. WalTypeOK /\ SettledFramesIntact /\ PrefixShape
  BY DEF WalInv
<1>2. WalTypeOK'
  BY <1>1 DEF WalTypeOK
<1> QED BY <1>1, <1>2, PrefixKept

\* prepare() issues header and payload.
LEMMA PrepareWriteKeepsInv ==
    ASSUME WalInv, PrepareWrite
    PROVE  WalInv'
<1> DEFINE p == wal.pending
<1>1. /\ wal.state = "PendingPrepare" /\ wal.io = "idle"
      /\ wal' = [wal EXCEPT !.io = "prepare"]
      /\ UNCHANGED <<walStable, token, settled, settledEnds, maybe>>
  BY DEF PrepareWrite, walHistory
<1>2. /\ wal \in WalOwner /\ token \in WalToken /\ ~ token.held
      /\ wal.incarnation = Incarnation /\ wal.record_end_lbas = settledEnds
      /\ wal.cursor = Cursor /\ wal.next_serial = Serial
      /\ Cursor \in Nat /\ Serial \in Nat
      /\ DOMAIN walMedia = Lba /\ DOMAIN walStable = Lba
  BY <1>1, LiveOwner DEF LiveStates
<1>3. /\ p \in Payload /\ Fits(Cursor, p) /\ walMedia = walStable
      /\ ZeroFrom(walMedia, Cursor) /\ maybe = <<>>
  BY <1>1 DEF WalInv, PendingShape, Synced
<1>4. /\ DOMAIN walMedia' = Lba
      /\ \A l \in Lba : walMedia'[l] = IF l \in Cursor .. Cursor + PayloadSectors[p]
                                       THEN FrameSector(Incarnation, Serial, p, l - Cursor)
                                       ELSE walMedia[l]
  BY <1>2 DEF PrepareWrite, WriteSectors
<1>5. /\ DOMAIN walMedia' = Lba /\ PreparedFrame(walMedia', Cursor, Serial, p)
      /\ \A l \in Lba : l < Cursor => walMedia'[l] = walMedia[l]
      /\ \A l \in Lba : \/ walMedia'[l] = walMedia[l]
                        \/ \E k \in 0 .. PayloadSectors[p] :
                              walMedia'[l] = FrameSector(Incarnation, Serial, p, k)
  BY <1>2, <1>3, <1>4, PrepareBatch
<1>6. \A l \in Lba : walMedia'[l] \in SectorType /\ walStable'[l] \in SectorType
  <2>1. \A k \in 0 .. PayloadSectors[p] : k \in Nat
    BY <1>3, FrameSizes
  <2>2. \A l \in Lba : walMedia[l] \in SectorType /\ walStable[l] \in SectorType
    BY DEF WalInv, WalTypeOK
  <2> QED BY SMTT(30), <1>1, <1>2, <1>3, <1>5, <2>1, <2>2, FrameSectorType
<1>7. /\ wal'.state = "PendingPrepare" /\ wal'.io = "prepare" /\ wal'.pending = p
      /\ wal'.incarnation = Incarnation /\ wal'.record_end_lbas = settledEnds
      /\ wal'.cursor = Cursor /\ wal'.next_serial = Serial
      /\ wal' \in WalOwner
  BY SMTT(30), <1>1, <1>2 DEF WalOwner, WalEffects
<1>8. /\ SettledFramesIntact' /\ PrefixShape' /\ WalTypeOK'
      /\ Cursor' = Cursor /\ Serial' = Serial
  <2>1. \A l \in Lba : l < Cursor =>
               walMedia'[l] = walMedia[l] /\ walStable'[l] = walMedia[l]
    BY <1>1, <1>3, <1>5
  <2>2. maybe' \in Seq(Payload)
    BY <1>1 DEF WalInv, WalTypeOK
  <2> QED BY <1>1, <1>2, <1>5, <1>6, <1>7, <2>1, <2>2, BatchIssued
<1>9. TailShape(walMedia, walStable, Cursor, Serial, maybe)'
  <2>1. /\ PartialFrame(walMedia', Cursor, Serial, p) /\ Unmarked(walMedia', Cursor, p)
        /\ PartialFrame(walStable', Cursor, Serial, p) /\ Unmarked(walStable', Cursor, p)
    BY ZenonT(30), <1>1, <1>2, <1>3, <1>5, ShapesArePartial
  <2>2. TailShape(walMedia', walStable', Cursor, Serial, maybe')
    BY <1>3, <2>1 DEF TailShape
  <2> QED BY <1>8, <2>2
<1>10. PendingShape'
  BY <1>1, <1>3, <1>5, <1>7, <1>8 DEF PendingShape
<1>11. QuietShape' /\ PreparedShape' /\ RecoveredShape' /\ OwnerAgrees'
  BY <1>1, <1>2, <1>7, <1>8 DEF QuietShape, PreparedShape, RecoveredShape, OwnerAgrees, LiveStates
<1> QED BY <1>8, <1>9, <1>10, <1>11 DEF WalInv

\* prepare()'s flush makes them stable.
LEMMA PrepareBarrierKeepsInv ==
    ASSUME WalInv, PrepareBarrier
    PROVE  WalInv'
<1> DEFINE p == wal.pending
<1>1. /\ wal.io = "prepare" /\ walStable' = walMedia
      /\ wal' = [wal EXCEPT !.state = "Prepared", !.io = "idle"]
      /\ UNCHANGED <<walMedia, token, settled, settledEnds, maybe>>
  BY DEF PrepareBarrier, walHistory
<1>2. wal.state = "PendingPrepare"
  BY <1>1 DEF WalInv, WalTypeOK, WalOwner, WalStates, QuietShape, PreparedShape, RecoveredShape
<1>3. /\ wal \in WalOwner /\ token \in WalToken /\ ~ token.held
      /\ wal.incarnation = Incarnation /\ wal.record_end_lbas = settledEnds
      /\ wal.cursor = Cursor /\ wal.next_serial = Serial
      /\ Cursor \in Nat /\ Serial \in Nat
      /\ DOMAIN walMedia = Lba /\ DOMAIN walStable = Lba
  BY <1>2, LiveOwner DEF LiveStates
<1>4. p \in Payload /\ PreparedFrame(walMedia, Cursor, Serial, p) /\ maybe = <<>>
  BY <1>1, <1>2 DEF WalInv, PendingShape
<1>5. /\ wal'.state = "Prepared" /\ wal'.io = "idle" /\ wal'.pending = p
      /\ wal'.incarnation = Incarnation /\ wal'.record_end_lbas = settledEnds
      /\ wal'.cursor = Cursor /\ wal'.next_serial = Serial
      /\ wal' \in WalOwner
  BY ZenonT(30), <1>1, <1>3 DEF WalOwner, WalEffects, WalStates
<1>6. /\ SettledFramesIntact' /\ PrefixShape' /\ WalTypeOK'
      /\ Cursor' = Cursor /\ Serial' = Serial
  <2>1. maybe' \in Seq(Payload) /\ \A l \in Lba : walMedia[l] \in SectorType
    BY <1>1 DEF WalInv, WalTypeOK
  <2> QED BY <1>1, <1>3, <1>5, <2>1, BatchIssued
<1>7. TailShape(walMedia, walStable, Cursor, Serial, maybe)'
  <2>1. PartialFrame(walMedia, Cursor, Serial, p) /\ Unmarked(walMedia, Cursor, p)
    BY ZenonT(30), <1>3, <1>4, ShapesArePartial
  <2>2. TailShape(walMedia', walStable', Cursor, Serial, maybe')
    BY <1>1, <1>4, <2>1 DEF TailShape
  <2> QED BY <1>6, <2>2
<1>8. PreparedShape'
  BY <1>1, <1>4, <1>5, <1>6 DEF PreparedShape, Synced
<1>9. QuietShape' /\ PendingShape' /\ RecoveredShape' /\ OwnerAgrees'
  BY <1>1, <1>3, <1>5, <1>6 DEF QuietShape, PendingShape, RecoveredShape, OwnerAgrees, LiveStates
<1> QED BY <1>6, <1>7, <1>8, <1>9 DEF WalInv

\* commit() issues the marker.
LEMMA CommitWriteKeepsInv ==
    ASSUME WalInv, CommitWrite
    PROVE  WalInv'
<1> DEFINE p == wal.pending
<1>1. /\ wal.state = "Prepared" /\ wal.io = "idle"
      /\ wal' = [wal EXCEPT !.io = "marker"] /\ maybe' = <<p>>
      /\ UNCHANGED <<walStable, token, settled, settledEnds>>
  BY DEF CommitWrite
<1>2. /\ wal \in WalOwner /\ token \in WalToken /\ ~ token.held
      /\ wal.incarnation = Incarnation /\ wal.record_end_lbas = settledEnds
      /\ wal.cursor = Cursor /\ wal.next_serial = Serial
      /\ Cursor \in Nat /\ Serial \in Nat
      /\ DOMAIN walMedia = Lba /\ DOMAIN walStable = Lba
  BY <1>1, LiveOwner DEF LiveStates
<1>3. p \in Payload /\ walMedia = walStable /\ PreparedFrame(walMedia, Cursor, Serial, p)
  BY <1>1 DEF WalInv, PreparedShape, Synced
<1>4. walMedia' = MarkerWritten(walMedia, Cursor, Serial, p)
  BY <1>2 DEF CommitWrite, MarkerLba, MarkerWritten
<1>5. /\ DOMAIN walMedia' = Lba /\ MarkedFrame(walMedia', Cursor, Serial, p)
      /\ \A l \in Lba : l < Cursor => walMedia'[l] = walMedia[l]
      /\ \A l \in Lba : \/ walMedia'[l] = walMedia[l]
                        \/ walMedia'[l] = CommitSector(Incarnation, Serial, p)
  <2>1. DOMAIN walMedia = Lba /\ Cursor \in Nat
    BY <1>2
  <2>2. p \in Payload /\ PreparedFrame(walMedia, Cursor, Serial, p)
    BY <1>3
  <2> HIDE DEF p
  <2>3. MarkerEffect(walMedia, walMedia', Cursor, Serial, p)
    BY <1>4, <2>1, <2>2, MarkerBatch
  <2> QED BY <2>3 DEF MarkerEffect
<1>6. \A l \in Lba : walMedia'[l] \in SectorType /\ walStable'[l] \in SectorType
  <2>1. CommitSector(Incarnation, Serial, p) \in SectorType
    BY <1>2, <1>3, WalAssumption DEF CommitSector, SectorType
  <2>2. \A l \in Lba : walMedia[l] \in SectorType /\ walStable[l] \in SectorType
    BY DEF WalInv, WalTypeOK
  <2> QED BY <1>1, <1>5, <2>1, <2>2
<1>7. /\ wal'.state = "Prepared" /\ wal'.io = "marker" /\ wal'.pending = p
      /\ wal'.incarnation = Incarnation /\ wal'.record_end_lbas = settledEnds
      /\ wal'.cursor = Cursor /\ wal'.next_serial = Serial
      /\ wal' \in WalOwner
  BY SMTT(30), <1>1, <1>2 DEF WalOwner, WalEffects
<1>8. /\ SettledFramesIntact' /\ PrefixShape' /\ WalTypeOK'
      /\ Cursor' = Cursor /\ Serial' = Serial
  <2>1. \A l \in Lba : l < Cursor =>
               walMedia'[l] = walMedia[l] /\ walStable'[l] = walMedia[l]
    BY <1>1, <1>3, <1>5
  <2>2. maybe' \in Seq(Payload)
    BY <1>1, <1>3
  <2> QED BY <1>1, <1>2, <1>5, <1>6, <1>7, <2>1, <2>2, BatchIssued
<1>9. TailShape(walMedia, walStable, Cursor, Serial, maybe)'
  <2>1. /\ PartialFrame(walMedia', Cursor, Serial, p) /\ FrameWritten(walMedia', Cursor, Serial, p)
        /\ PartialFrame(walStable', Cursor, Serial, p) /\ FrameWritten(walStable', Cursor, Serial, p)
    BY ZenonT(30), <1>1, <1>2, <1>3, <1>5, ShapesArePartial
  <2>2. TailShape(walMedia', walStable', Cursor, Serial, maybe')
    BY <1>1, <1>3, <2>1 DEF TailShape
  <2> QED BY <1>8, <2>2
<1>10. PreparedShape'
  BY <1>1, <1>3, <1>5, <1>7, <1>8 DEF PreparedShape
<1>11. QuietShape' /\ PendingShape' /\ RecoveredShape' /\ OwnerAgrees'
  BY <1>1, <1>2, <1>7, <1>8 DEF QuietShape, PendingShape, RecoveredShape, OwnerAgrees, LiveStates
<1> QED BY <1>8, <1>9, <1>10, <1>11 DEF WalInv

\* A marked frame that is stable on the device becomes part of the prefix.
LEMMA FrameSettles ==
    ASSUME WalTypeOK, SettledFramesIntact, PrefixShape, NEW p \in Payload,
           MarkedFrame(walMedia, Cursor, Serial, p),
           walMedia' = walMedia, walStable' = walMedia,
           settled' = Append(settled, p),
           settledEnds' = Append(settledEnds, Cursor + FrameLength(p))
    PROVE  /\ SettledFramesIntact' /\ PrefixShape'
           /\ Cursor' = Cursor + FrameLength(p) /\ Serial' = Serial + 1
           /\ settled' \in Seq(Payload) /\ settledEnds' \in Seq(Nat)
<1> DEFINE m == Len(settledEnds)
           z == Cursor + FrameLength(p)
<1>1. /\ settledEnds \in Seq(Nat) /\ settled \in Seq(Payload) /\ m \in Nat
      /\ m = Len(settled) /\ Cursor \in Nat /\ z \in Nat /\ z >= Cursor
      /\ Serial = m + 1
  BY CursorFacts, FrameSizes DEF WalTypeOK, Serial
<1>2. /\ settled' \in Seq(Payload) /\ settledEnds' \in Seq(Nat)
      /\ Len(settled') = m + 1 /\ Len(settledEnds') = m + 1
      /\ settled'[m + 1] = p /\ settledEnds'[m + 1] = z
      /\ \A i \in 1 .. m : settled'[i] = settled[i] /\ settledEnds'[i] = settledEnds[i]
  BY <1>1
<1>3. Cursor' = z /\ Serial' = Serial + 1
  <2>1. (m + 1) + 1 # 1 /\ ((m + 1) + 1) - 1 = m + 1
    BY <1>1
  <2> QED BY <1>1, <1>2, <2>1 DEF Cursor, Serial, PrefixEnd, FrameStart
<1>4. ASSUME NEW i \in 1 .. m + 1
      PROVE  FrameStart(settledEnds', i) = IF i = m + 1 THEN Cursor ELSE FrameStart(settledEnds, i)
  <2>1. CASE i = 1
    <3>1. m = 0 => Cursor = 0
      BY DEF Cursor, PrefixEnd, FrameStart
    <3> QED BY <1>1, <2>1, <3>1 DEF FrameStart
  <2>2. CASE i # 1
    <3>1. i - 1 \in 1 .. m /\ (i = m + 1 => i - 1 = m)
      BY <1>1, <2>2
    <3>2. settledEnds'[i - 1] = settledEnds[i - 1]
      BY <1>2, <3>1
    <3>3. i = m + 1 => Cursor = settledEnds[i - 1]
      BY <2>2, <3>1 DEF Cursor, PrefixEnd, FrameStart
    <3> QED BY <2>2, <3>2, <3>3 DEF FrameStart
  <2> QED BY <2>1, <2>2
<1>5. ASSUME NEW i \in 1 .. m + 1
      PROVE  /\ settledEnds'[i] = FrameStart(settledEnds', i) + FrameLength(settled'[i])
             /\ HoldsFrame(walMedia, FrameStart(settledEnds', i), Incarnation, i, settled'[i])
  <2>1. CASE i = m + 1
    BY SMTT(30), <1>1, <1>2, <1>4, <2>1 DEF MarkedFrame
  <2>2. CASE i # m + 1
    <3>1. i \in 1 .. m /\ i \in 1 .. Len(settled)
      BY <1>1, <2>2
    <3>2. /\ settledEnds[i] = FrameStart(settledEnds, i) + FrameLength(settled[i])
          /\ HoldsFrame(walMedia, FrameStart(settledEnds, i), Incarnation, i, settled[i])
      BY <3>1 DEF SettledFramesIntact
    <3> QED BY <1>2, <1>4, <2>2, <3>1, <3>2
  <2> QED BY ZenonT(30), <2>1, <2>2
<1>6. SettledFramesIntact'
  <2>1. \A d \in {walMedia', walStable'} : d = walMedia
    OBVIOUS
  <2> QED BY <1>2, <1>5, <2>1 DEF SettledFramesIntact
<1>7. PrefixShape'
  <2>1. \A i \in 1 .. m : settledEnds[i] <= Cursor /\ settledEnds[i] \in Nat
    BY <1>1 DEF PrefixShape
  <2>2. \A i \in 1 .. m + 1 : settledEnds'[i] <= z
    BY <1>1, <1>2, <2>1
  <2> QED BY <1>2, <1>3, <2>2 DEF PrefixShape
<1> QED BY <1>2, <1>3, <1>6, <1>7

\* commit()'s flush settles the record.
LEMMA CommitBarrierKeepsInv ==
    ASSUME WalInv, CommitBarrier
    PROVE  WalInv'
<1> DEFINE p == wal.pending
           z == Cursor + FrameLength(p)
<1>1. wal.io = "marker" /\ wal.state = "Prepared"
  BY DEF CommitBarrier, WalInv, WalTypeOK, WalOwner, WalStates, QuietShape, PendingShape,
     RecoveredShape
<1>2. /\ wal \in WalOwner /\ token \in WalToken /\ ~ token.held
      /\ wal.incarnation = Incarnation /\ wal.record_end_lbas = settledEnds
      /\ wal.cursor = Cursor /\ wal.next_serial = Serial
      /\ Cursor \in Nat /\ Serial \in Nat
      /\ DOMAIN walMedia = Lba /\ DOMAIN walStable = Lba
  BY <1>1, LiveOwner DEF LiveStates
<1>3. p \in Payload /\ MarkedFrame(walMedia, Cursor, Serial, p)
  BY <1>1 DEF WalInv, PreparedShape
<1>4. MarkerLba(wal) + 1 = z /\ z \in Nat
  BY <1>2, <1>3, FrameSizes DEF MarkerLba
<1>5. /\ UNCHANGED <<walMedia, token>> /\ walStable' = walMedia
      /\ settled' = Append(settled, p) /\ settledEnds' = Append(settledEnds, z)
      /\ maybe' = <<>>
      /\ wal' = [wal EXCEPT !.state = "Ready", !.pending = NoPayload,
                          !.record_end_lbas = Append(@, z),
                          !.next_serial = @ + 1,
                          !.cursor = z,
                          !.io = "idle"]
  BY ZenonT(30), <1>4 DEF CommitBarrier
<1>6. /\ SettledFramesIntact' /\ PrefixShape'
      /\ Cursor' = z /\ Serial' = Serial + 1
      /\ settled' \in Seq(Payload) /\ settledEnds' \in Seq(Nat)
  BY <1>3, <1>5, FrameSettles DEF WalInv
<1>7. /\ wal'.state = "Ready" /\ wal'.io = "idle" /\ wal'.incarnation = Incarnation
      /\ wal'.record_end_lbas = settledEnds' /\ wal'.cursor = Cursor'
      /\ wal'.next_serial = Serial'
  BY <1>2, <1>5, <1>6 DEF WalOwner
<1>8. wal' \in WalOwner
  <2>1. Append(wal.record_end_lbas, z) \in Seq(Nat) /\ wal.next_serial + 1 \in Nat
    BY <1>2, <1>4, <1>5, <1>6
  <2> QED BY ZenonT(30), <1>2, <1>4, <1>5, <2>1 DEF WalOwner, WalStates, WalEffects
<1>9. WalTypeOK'
  <2>1. \A l \in Lba : walMedia[l] \in SectorType
    BY DEF WalInv, WalTypeOK
  <2> QED BY <1>2, <1>5, <1>6, <1>8, <2>1 DEF WalTypeOK
<1>10. ZeroFrom(walMedia', Cursor')
  BY <1>3, <1>5, <1>6 DEF MarkedFrame
<1>11. TailShape(walMedia, walStable, Cursor, Serial, maybe)'
  BY <1>5, <1>10 DEF TailShape
<1>12. QuietShape' /\ PendingShape' /\ PreparedShape' /\ RecoveredShape' /\ OwnerAgrees'
  BY <1>2, <1>5, <1>7, <1>10 DEF QuietShape, PendingShape, PreparedShape, RecoveredShape,
     OwnerAgrees, Synced, LiveStates
<1> QED BY <1>6, <1>9, <1>11, <1>12 DEF WalInv

\* A power cut keeps any mixture of the two copies.
LEMMA PowerCutKeepsInv ==
    ASSUME WalInv, WalPowerCut
    PROVE  WalInv'
<1>1. /\ walMedia' = walStable' /\ wal' = NoWal /\ token' = NoToken
      /\ UNCHANGED <<settled, settledEnds, maybe>>
      /\ DOMAIN walMedia' = DOMAIN walMedia
      /\ \A l \in DOMAIN walMedia : walMedia'[l] = walMedia[l] \/ walMedia'[l] = walStable[l]
  BY DEF WalPowerCut, PowerCutOutcomes, walHistory
<1>2. /\ DOMAIN walMedia = Lba /\ DOMAIN walStable = Lba
      /\ \A l \in Lba : walMedia[l] \in SectorType /\ walStable[l] \in SectorType
      /\ maybe \in Seq(Payload)
  BY DEF WalInv, WalTypeOK
<1>3. wal' \in WalOwner /\ token' \in WalToken
      /\ wal'.state = "Absent" /\ wal'.io = "idle" /\ ~ token'.held
  BY <1>1, OwnerTypes
<1>4. /\ SettledFramesIntact' /\ PrefixShape' /\ WalTypeOK'
      /\ Cursor' = Cursor /\ Serial' = Serial
  <2>1. \A l \in Lba : l < Cursor =>
               walMedia'[l] = walMedia[l] /\ walStable'[l] = walMedia[l]
    BY <1>1, <1>2 DEF WalInv, PrefixShape
  <2>2. \A l \in Lba : walMedia'[l] \in SectorType /\ walStable'[l] \in SectorType
    BY <1>1, <1>2
  <2>3. DOMAIN walMedia' = Lba /\ DOMAIN walStable' = Lba /\ maybe' \in Seq(Payload)
    BY <1>1, <1>2
  <2> QED BY SMTT(30), <1>1, <1>3, <2>1, <2>2, <2>3, BatchIssued
<1>5. TailShape(walMedia, walStable, Cursor, Serial, maybe)'
  <2>1. Cursor \in Nat /\ TailShape(walMedia, walStable, Cursor, Serial, maybe)
    BY CursorFacts DEF WalInv
  <2>2. TailShape(walMedia', walMedia', Cursor, Serial, maybe)
    BY SMTT(30), <1>1, <1>2, <2>1, TailAfterPowerCut
  <2> QED BY <1>1, <1>4, <2>2
<1>6. QuietShape' /\ PendingShape' /\ PreparedShape' /\ RecoveredShape' /\ OwnerAgrees'
  BY <1>1, <1>3 DEF QuietShape, PendingShape, PreparedShape, RecoveredShape,
     OwnerAgrees, Synced, LiveStates
<1> QED BY <1>4, <1>5, <1>6 DEF WalInv

\* clear_frame on a frame of p that no marker ends: both callers.
LEMMA ClearSuffixWritten ==
    ASSUME WalInv, NEW p \in Payload,
           wal.state \in {"Prepared", "RecoveredUncommitted"}, wal.io = "idle",
           walMedia = walStable, maybe = <<>>,
           PartialFrame(walStable, Cursor, Serial, p), Unmarked(walStable, Cursor, p),
           walStable[Cursor] = PrepareSector(Incarnation, Serial, p),
           ClearSuffixWrite(PayloadSectors[p])
    PROVE  /\ WalTypeOK' /\ SettledFramesIntact' /\ PrefixShape'
           /\ TailShape(walMedia, walStable, Cursor, Serial, maybe)'
           /\ QuietShape' /\ OwnerAgrees'
           /\ Cursor' = Cursor /\ Serial' = Serial
           /\ HeaderOnly(walMedia', Cursor, Serial, p)
           /\ UNCHANGED <<walStable, maybe>>
           /\ wal' = [wal EXCEPT !.io = "clear_suffix"] /\ wal \in WalOwner
<1>1. UNCHANGED <<walStable, token, settled, settledEnds, maybe>>
  BY DEF ClearSuffixWrite, walHistory
<1>2. /\ wal \in WalOwner /\ token \in WalToken /\ ~ token.held
      /\ wal.incarnation = Incarnation /\ wal.record_end_lbas = settledEnds
      /\ wal.cursor = Cursor /\ wal.next_serial = Serial
      /\ Cursor \in Nat /\ Serial \in Nat
      /\ DOMAIN walMedia = Lba /\ DOMAIN walStable = Lba
  BY LiveOwner DEF LiveStates
<1>3. /\ wal' = [wal EXCEPT !.io = "clear_suffix"]
      /\ walMedia' = WriteSectors(walMedia,
                        ZeroSectors(Cursor + 1, Cursor + 1 + PayloadSectors[p]))
  BY <1>2 DEF ClearSuffixWrite
<1>4. /\ DOMAIN walMedia' = Lba /\ HeaderOnly(walMedia', Cursor, Serial, p)
      /\ \A l \in Lba : l < Cursor => walMedia'[l] = walMedia[l]
      /\ \A l \in Lba : walMedia'[l] = walMedia[l] \/ walMedia'[l] = Zero
  BY SMTT(30), <1>2, <1>3, ClearSuffixBatch
<1>5. \A l \in Lba : walMedia'[l] \in SectorType /\ walStable'[l] \in SectorType
  <2>1. \A l \in Lba : walMedia[l] \in SectorType /\ walStable[l] \in SectorType
    BY DEF WalInv, WalTypeOK
  <2> QED BY <1>1, <1>4, <2>1 DEF SectorType
<1>6. /\ wal'.state = wal.state /\ wal'.io = "clear_suffix"
      /\ wal'.incarnation = Incarnation /\ wal'.record_end_lbas = settledEnds
      /\ wal'.cursor = Cursor /\ wal'.next_serial = Serial
      /\ wal' \in WalOwner
  BY SMTT(30), <1>2, <1>3 DEF WalOwner, WalEffects
<1>7. /\ SettledFramesIntact' /\ PrefixShape' /\ WalTypeOK'
      /\ Cursor' = Cursor /\ Serial' = Serial
  <2>1. \A l \in Lba : l < Cursor =>
               walMedia'[l] = walMedia[l] /\ walStable'[l] = walMedia[l]
    BY <1>1, <1>4
  <2>2. maybe' \in Seq(Payload)
    BY <1>1 DEF WalInv, WalTypeOK
  <2> QED BY SMTT(30), <1>1, <1>2, <1>4, <1>5, <1>6, <2>1, <2>2, BatchIssued
<1>8. TailShape(walMedia, walStable, Cursor, Serial, maybe)'
  <2>1. PartialFrame(walMedia', Cursor, Serial, p) /\ Unmarked(walMedia', Cursor, p)
    BY ZenonT(30), <1>2, <1>4, ShapesArePartial
  <2>2. TailShape(walMedia', walStable', Cursor, Serial, maybe')
    BY SMTT(30), <1>1, <2>1 DEF TailShape
  <2> QED BY <1>7, <2>2
<1>9. QuietShape' /\ OwnerAgrees'
  BY <1>1, <1>2, <1>6, <1>7 DEF QuietShape, OwnerAgrees, LiveStates
<1> QED BY <1>1, <1>2, <1>3, <1>4, <1>7, <1>8, <1>9

\* abort_prepared() starts to clear its frame.
LEMMA AbortPreparedKeepsInv ==
    ASSUME WalInv, AbortPrepared
    PROVE  WalInv'
<1> DEFINE p == wal.pending
<1>1. /\ wal.state = "Prepared" /\ wal.io = "idle"
      /\ ClearSuffixWrite(PayloadSectors[p])
  BY DEF AbortPrepared
<1>2. /\ p \in Payload /\ walMedia = walStable /\ maybe = <<>>
      /\ PreparedFrame(walStable, Cursor, Serial, p) /\ Cursor \in Nat
  BY <1>1, CursorFacts DEF WalInv, PreparedShape, Synced
<1>3. PartialFrame(walStable, Cursor, Serial, p) /\ Unmarked(walStable, Cursor, p)
  BY ZenonT(30), <1>2, ShapesArePartial
<1>4. walStable[Cursor] = PrepareSector(Incarnation, Serial, p)
  <2>1. 0 \in 0 .. PayloadSectors[p] /\ Cursor + 0 = Cursor
    BY <1>2, FrameSizes
  <2> QED BY SMTT(30), <1>2, <2>1, FrameSectorKinds DEF PreparedFrame, FrameWritten
<1>5. /\ WalTypeOK' /\ SettledFramesIntact' /\ PrefixShape'
      /\ TailShape(walMedia, walStable, Cursor, Serial, maybe)'
      /\ QuietShape' /\ OwnerAgrees'
      /\ Cursor' = Cursor /\ Serial' = Serial
      /\ HeaderOnly(walMedia', Cursor, Serial, p)
      /\ UNCHANGED <<walStable, maybe>>
      /\ wal' = [wal EXCEPT !.io = "clear_suffix"] /\ wal \in WalOwner
  BY <1>1, <1>2, <1>3, <1>4, ClearSuffixWritten
<1>6. wal'.state = "Prepared" /\ wal'.io = "clear_suffix" /\ wal'.pending = p
  BY <1>1, <1>5 DEF WalOwner
<1>7. PreparedShape' /\ PendingShape' /\ RecoveredShape'
  BY <1>2, <1>5, <1>6 DEF PreparedShape, PendingShape, RecoveredShape
<1> QED BY <1>5, <1>7 DEF WalInv

\* clear_recovered_tail() starts to clear the tail a scan found.
LEMMA ClearRecoveredTailKeepsInv ==
    ASSUME WalInv, ClearRecoveredTail
    PROVE  WalInv'
<1>1. wal.state = "RecoveredUncommitted" /\ wal.io = "idle" /\ ClearSuffixWrite(wal.tail)
  BY SMTT(30) DEF ClearRecoveredTail
<1>2. PICK p \in Payload :
          /\ wal.tail = PayloadSectors[p]
          /\ PartialFrame(walStable, Cursor, Serial, p)
          /\ Unmarked(walStable, Cursor, p)
          /\ walStable[Cursor] = PrepareSector(Incarnation, Serial, p)
          /\ walMedia = walStable
  BY SMTT(30), <1>1 DEF WalInv, RecoveredShape, Synced
<1>3. maybe = <<>>
  BY <1>1 DEF WalInv, RecoveredShape
<1>4. /\ WalTypeOK' /\ SettledFramesIntact' /\ PrefixShape'
      /\ TailShape(walMedia, walStable, Cursor, Serial, maybe)'
      /\ QuietShape' /\ OwnerAgrees'
      /\ Cursor' = Cursor /\ Serial' = Serial
      /\ HeaderOnly(walMedia', Cursor, Serial, p)
      /\ UNCHANGED <<walStable, maybe>>
      /\ wal' = [wal EXCEPT !.io = "clear_suffix"] /\ wal \in WalOwner
  BY <1>1, <1>2, <1>3, ClearSuffixWritten
<1>5. wal'.state = "RecoveredUncommitted" /\ wal'.io = "clear_suffix" /\ wal'.tail = wal.tail
  BY SMTT(30), <1>1, <1>4 DEF WalOwner
<1>6. PreparedShape' /\ PendingShape'
  BY <1>5 DEF PreparedShape, PendingShape
<1>7. RecoveredShape'
  BY SMTT(30), <1>2, <1>3, <1>4, <1>5 DEF RecoveredShape
<1> QED BY <1>4, <1>6, <1>7 DEF WalInv

\* In the middle of clear_frame the header stands alone on the media.
LEMMA ClearingFrame ==
    ASSUME WalInv, wal.io \in {"clear_suffix", "clear_header"}
    PROVE  /\ wal.state \in {"Prepared", "RecoveredUncommitted"} /\ maybe = <<>>
           /\ \E p \in Payload :
                 /\ wal.state = "Prepared" => p = wal.pending
                 /\ wal.state = "RecoveredUncommitted" => wal.tail = PayloadSectors[p]
                 /\ wal.io = "clear_suffix" => HeaderOnly(walMedia, Cursor, Serial, p)
                 /\ wal.io = "clear_header" => ZeroFrom(walMedia, Cursor)
<1>1. wal.state \in {"Prepared", "RecoveredUncommitted"}
  BY SMTT(30) DEF WalInv, WalTypeOK, WalOwner, WalStates, QuietShape, PendingShape
<1>2. CASE wal.state = "Prepared"
  <2>1. /\ wal.pending \in Payload /\ maybe = <<>>
        /\ wal.io = "clear_suffix" => HeaderOnly(walMedia, Cursor, Serial, wal.pending)
        /\ wal.io = "clear_header" => ZeroFrom(walMedia, Cursor)
    BY SMTT(30), <1>2 DEF WalInv, PreparedShape
  <2> QED BY <1>1, <1>2, <2>1
<1>3. CASE wal.state = "RecoveredUncommitted"
  BY <1>1, <1>3 DEF WalInv, RecoveredShape
<1> QED BY <1>1, <1>2, <1>3

\* clear_frame() between its two batches.
LEMMA ClearSuffixBarrierKeepsInv ==
    ASSUME WalInv, ClearSuffixBarrier
    PROVE  WalInv'
<1>1. /\ wal.io = "clear_suffix" /\ walStable' = walMedia
      /\ wal' = [wal EXCEPT !.io = "clear_header"]
      /\ UNCHANGED <<token, settled, settledEnds, maybe>>
  BY DEF ClearSuffixBarrier, walHistory
<1>2. PICK p \in Payload :
          /\ wal.state = "Prepared" => p = wal.pending
          /\ wal.state = "RecoveredUncommitted" => wal.tail = PayloadSectors[p]
          /\ HeaderOnly(walMedia, Cursor, Serial, p)
  BY <1>1, ClearingFrame
<1>3. wal.state \in {"Prepared", "RecoveredUncommitted"} /\ maybe = <<>>
  BY <1>1, ClearingFrame
<1>4. /\ wal \in WalOwner /\ token \in WalToken /\ ~ token.held
      /\ wal.incarnation = Incarnation /\ wal.record_end_lbas = settledEnds
      /\ wal.cursor = Cursor /\ wal.next_serial = Serial
      /\ Cursor \in Nat /\ Serial \in Nat
      /\ DOMAIN walMedia = Lba /\ DOMAIN walStable = Lba
  BY <1>3, LiveOwner DEF LiveStates
<1>5. walMedia' = WriteSectors(walMedia, ZeroSectors(Cursor, Cursor))
  BY <1>4 DEF ClearSuffixBarrier
<1>6. /\ DOMAIN walMedia' = Lba /\ ZeroFrom(walMedia', Cursor)
      /\ \A l \in Lba : l < Cursor => walMedia'[l] = walMedia[l]
      /\ \A l \in Lba : walMedia'[l] = walMedia[l] \/ walMedia'[l] = Zero
  BY <1>2, <1>4, <1>5, ClearHeaderBatch
<1>7. \A l \in Lba : walMedia'[l] \in SectorType /\ walStable'[l] \in SectorType
  <2>1. \A l \in Lba : walMedia[l] \in SectorType
    BY DEF WalInv, WalTypeOK
  <2> QED BY <1>1, <1>6, <2>1 DEF SectorType
<1>8. /\ wal'.state = wal.state /\ wal'.io = "clear_header"
      /\ wal'.pending = wal.pending /\ wal'.tail = wal.tail
      /\ wal'.incarnation = Incarnation /\ wal'.record_end_lbas = settledEnds
      /\ wal'.cursor = Cursor /\ wal'.next_serial = Serial
      /\ wal' \in WalOwner
  BY <1>1, <1>4 DEF WalOwner, WalEffects
<1>9. /\ SettledFramesIntact' /\ PrefixShape' /\ WalTypeOK'
      /\ Cursor' = Cursor /\ Serial' = Serial
  <2>1. \A l \in Lba : l < Cursor =>
               walMedia'[l] = walMedia[l] /\ walStable'[l] = walMedia[l]
    BY <1>1, <1>6
  <2>2. maybe' \in Seq(Payload) /\ DOMAIN walStable' = Lba
    BY <1>1, <1>4 DEF WalInv, WalTypeOK
  <2> QED BY <1>1, <1>4, <1>6, <1>7, <1>8, <2>1, <2>2, BatchIssued
<1>10. /\ PartialFrame(walStable', Cursor, Serial, p) /\ Unmarked(walStable', Cursor, p)
       /\ PartialFrame(walMedia', Cursor, Serial, p) /\ Unmarked(walMedia', Cursor, p)
       /\ walStable'[Cursor] = PrepareSector(Incarnation, Serial, p)
       /\ HeaderOnly(walStable', Cursor, Serial, p)
  BY <1>1, <1>2, <1>4, <1>6, ShapesArePartial DEF HeaderOnly
<1>11. TailShape(walMedia, walStable, Cursor, Serial, maybe)'
  BY <1>9, <1>10 DEF TailShape
<1>12. QuietShape' /\ PendingShape' /\ OwnerAgrees'
  BY <1>1, <1>3, <1>4, <1>8, <1>9 DEF QuietShape, PendingShape, OwnerAgrees, LiveStates
<1>13. PreparedShape'
  BY <1>1, <1>2, <1>3, <1>6, <1>8, <1>9, <1>10 DEF PreparedShape
<1>14. RecoveredShape'
  BY SMTT(30), <1>1, <1>2, <1>3, <1>6, <1>8, <1>9, <1>10 DEF RecoveredShape
<1> QED BY <1>9, <1>11, <1>12, <1>13, <1>14 DEF WalInv

\* clear_frame() returns.
LEMMA ClearHeaderBarrierKeepsInv ==
    ASSUME WalInv, ClearHeaderBarrier
    PROVE  WalInv'
<1>1. /\ wal.io = "clear_header" /\ walStable' = walMedia
      /\ wal' = [wal EXCEPT !.state = "Ready", !.pending = NoPayload, !.tail = 0,
                            !.io = "idle"]
      /\ UNCHANGED <<walMedia, token, settled, settledEnds, maybe>>
  BY DEF ClearHeaderBarrier, walHistory
<1>2. wal.state \in {"Prepared", "RecoveredUncommitted"} /\ maybe = <<>>
      /\ ZeroFrom(walMedia, Cursor)
  BY <1>1, ClearingFrame
<1>3. /\ wal \in WalOwner /\ token \in WalToken /\ ~ token.held
      /\ wal.incarnation = Incarnation /\ wal.record_end_lbas = settledEnds
      /\ wal.cursor = Cursor /\ wal.next_serial = Serial
      /\ Cursor \in Nat /\ Serial \in Nat
      /\ DOMAIN walMedia = Lba /\ DOMAIN walStable = Lba
  BY <1>2, LiveOwner DEF LiveStates
<1>4. /\ wal'.state = "Ready" /\ wal'.io = "idle"
      /\ wal'.incarnation = Incarnation /\ wal'.record_end_lbas = settledEnds
      /\ wal'.cursor = Cursor /\ wal'.next_serial = Serial
      /\ wal' \in WalOwner
  BY ZenonT(30), <1>1, <1>3 DEF WalOwner, WalEffects, WalStates
<1>5. /\ SettledFramesIntact' /\ PrefixShape' /\ WalTypeOK'
      /\ Cursor' = Cursor /\ Serial' = Serial
  <2>1. maybe' \in Seq(Payload) /\ \A l \in Lba : walMedia[l] \in SectorType
    BY <1>1 DEF WalInv, WalTypeOK
  <2> QED BY <1>1, <1>3, <1>4, <2>1, BatchIssued
<1>6. TailShape(walMedia, walStable, Cursor, Serial, maybe)'
  BY <1>1, <1>2, <1>5 DEF TailShape
<1>7. QuietShape' /\ PendingShape' /\ PreparedShape' /\ RecoveredShape' /\ OwnerAgrees'
  BY <1>1, <1>2, <1>3, <1>4, <1>5 DEF QuietShape, PendingShape, PreparedShape,
     RecoveredShape, OwnerAgrees, Synced, LiveStates
<1> QED BY <1>5, <1>6, <1>7 DEF WalInv

\* The records of a prefix one frame longer.
LEMMA ParsedAppended ==
    ASSUME WalTypeOK, SettledFramesIntact, NEW p \in Payload,
           MarkedFrame(walMedia, Cursor, Serial, p)
    PROVE  ParsedRecords(walMedia, Append(settledEnds, Cursor + FrameLength(p)))
               = Append(settled, p)
<1> DEFINE m == Len(settledEnds)
           ends == Append(settledEnds, Cursor + FrameLength(p))
<1>1. /\ settledEnds \in Seq(Nat) /\ settled \in Seq(Payload) /\ m \in Nat
      /\ m = Len(settled) /\ Cursor \in Nat /\ Cursor + FrameLength(p) \in Nat
  BY CursorFacts, FrameSizes DEF WalTypeOK
<1>2. Len(ends) = m + 1 /\ \A i \in 1 .. m : ends[i] = settledEnds[i]
  BY <1>1
<1>3. \A i \in 1 .. m : FrameStart(ends, i) = FrameStart(settledEnds, i)
  BY <1>1, <1>2 DEF FrameStart
<1>4. FrameStart(ends, m + 1) = Cursor
  <2>1. CASE m = 0
    BY <2>1 DEF FrameStart, Cursor, PrefixEnd
  <2>2. CASE m # 0
    <3>1. m \in 1 .. m /\ m + 1 # 1 /\ (m + 1) - 1 = m
      BY <1>1, <2>2
    <3> QED BY <1>2, <3>1 DEF FrameStart, Cursor, PrefixEnd
  <2> QED BY <2>1, <2>2
<1>5. walMedia[Cursor].payload = p
  <2>1. 0 \in 0 .. PayloadSectors[p] + 1 /\ Cursor + 0 = Cursor
    BY SMTT(30), <1>1, FrameSizes
  <2>2. walMedia[Cursor] = PrepareSector(Incarnation, Serial, p)
    BY SMTT(30), <2>1, FrameSectorKinds DEF MarkedFrame, HoldsFrame
  <2> QED BY <2>2, FrameSectorKinds
<1>6. ASSUME NEW i \in 1 .. m
      PROVE  walMedia[FrameStart(settledEnds, i)].payload = settled[i]
  <2>1. ParsedRecords(walMedia, settledEnds)[i] = settled[i]
    BY ParsedSettled
  <2> QED BY <2>1 DEF ParsedRecords
<1> DEFINE r == Append(settled, p)
<1>7. /\ r \in Seq(Payload) /\ Len(r) = m + 1 /\ r[m + 1] = p
      /\ \A i \in 1 .. m : r[i] = settled[i]
  BY <1>1
<1> HIDE DEF ends, r
<1>8. \A i \in 1 .. m + 1 : walMedia[FrameStart(ends, i)].payload = r[i]
  <2>1. \A i \in 1 .. m + 1 : i = m + 1 \/ i \in 1 .. m
    BY <1>1
  <2> QED BY <1>3, <1>4, <1>5, <1>6, <1>7, <2>1
<1>9. ParsedRecords(walMedia, ends) = [i \in 1 .. m + 1 |-> walMedia[FrameStart(ends, i)].payload]
  BY <1>2 DEF ParsedRecords
<1>10. r = [i \in 1 .. m + 1 |-> r[i]]
  BY <1>1, <1>7
<1>11. ParsedRecords(walMedia, ends) = r
  BY <1>8, <1>9, <1>10
<1> QED BY <1>11 DEF ends, r

\* Where the scan stops after the settled prefix, a tail it reports is one
\* unmarked frame.
LEMMA ScanTail ==
    ASSUME WalInv, walMedia = walStable, NEW t,
           ScanStops(walMedia, Incarnation, settledEnds, t)
    PROVE  \/ t = 0 /\ ZeroFrom(walMedia, Cursor)
           \/ \E p \in Payload :
                 /\ t = PayloadSectors[p] /\ t # 0
                 /\ PartialFrame(walMedia, Cursor, Serial, p)
                 /\ Unmarked(walMedia, Cursor, p)
                 /\ walMedia[Cursor] = PrepareSector(Incarnation, Serial, p)
<1>1. /\ Cursor \in Nat /\ SectorCount \in Nat
      /\ TailShape(walMedia, walStable, Cursor, Serial, maybe)
  BY CursorFacts, WalAssumption DEF WalInv
<1>2. ASSUME NEW p \in Payload, t = PayloadSectors[p], Cursor + 1 + t < SectorCount,
             walMedia[Cursor] = PrepareSector(Incarnation, Serial, p),
             ZeroFrom(walMedia, Cursor + 1 + t)
      PROVE  /\ t # 0 /\ PartialFrame(walMedia, Cursor, Serial, p)
             /\ Unmarked(walMedia, Cursor, p)
  <2>1. t \in Nat /\ t >= 1
    BY <1>2, FrameSizes
  <2>2. Cursor \in Lba /\ Cursor + 1 + t \in Lba /\ Cursor + 1 + t >= Cursor + 1 + t
    BY <1>1, <1>2, <2>1 DEF Lba
  <2>3. Unmarked(walMedia, Cursor, p)
    BY <1>2, <2>2 DEF ZeroFrom, Unmarked
  <2>4. ~ ZeroFrom(walMedia, Cursor)
    <3>1. walMedia[Cursor] # Zero
      BY <1>2 DEF PrepareSector, Zero
    <3> QED BY SMTT(30), <1>1, <2>2, <3>1 DEF ZeroFrom
  <2>5. PICK q \in Payload : PartialFrame(walMedia, Cursor, Serial, q)
    BY <1>1, <2>4 DEF TailShape
  <2>6. 0 \in 0 .. PayloadSectors[q] + 1 /\ Cursor + 0 = Cursor
    BY SMTT(30), <1>1, FrameSizes
  <2>7. walMedia[Cursor] = Zero \/ walMedia[Cursor] = PrepareSector(Incarnation, Serial, q)
    BY SMTT(30), <2>5, <2>6, FrameSectorKinds DEF PartialFrame
  <2>8. q = p
    <3>1. PrepareSector(Incarnation, Serial, p) # Zero
      BY DEF PrepareSector, Zero
    <3> QED BY SMTT(30), <1>2, <2>7, <3>1, FrameSectorKinds
  <2> QED BY <2>1, <2>3, <2>5, <2>8
<1> QED BY <1>2 DEF ScanStops, Cursor, Serial

\* The fields of the owner that recover and resume_from_continuation build.
LEMMA ReadyFields ==
    ASSUME NEW e \in Seq(Nat), PrefixEnd(e) \in Nat
    PROVE  /\ ReadyWal(Incarnation, e) \in WalOwner
           /\ ReadyWal(Incarnation, e).io = "idle"
           /\ ReadyWal(Incarnation, e).incarnation = Incarnation
           /\ ReadyWal(Incarnation, e).record_end_lbas = e
           /\ ReadyWal(Incarnation, e).cursor = PrefixEnd(e)
           /\ ReadyWal(Incarnation, e).next_serial = Len(e) + 1
<1> DEFINE c == PrefixEnd(e)
           n == Len(e) + 1
           r == ReadyWal(Incarnation, e)
<1>1. NoWal \in WalOwner /\ NoWal.io = "idle" /\ Incarnation \in Nat
  BY OwnerTypes, WalAssumption
<1>2. "Ready" \in WalStates /\ c \in Nat /\ n \in Nat
  BY DEF WalStates
<1>3. r = [NoWal EXCEPT !.state = "Ready", !.incarnation = Incarnation,
                      !.cursor = c, !.next_serial = n, !.record_end_lbas = e]
  BY DEF ReadyWal
<1> HIDE DEF c, n, r
<1>4. r \in WalOwner
  BY ZenonT(30), <1>1, <1>2, <1>3 DEF WalOwner
<1>5. /\ r.io = "idle" /\ r.incarnation = Incarnation
      /\ r.record_end_lbas = e /\ r.cursor = c /\ r.next_serial = n
  BY <1>1, <1>3 DEF WalOwner
<1> QED BY <1>4, <1>5 DEF c, n, r

\* recover() keeps the invariant, and returns the settled records and at most
\* the one whose marker was issued.
LEMMA RecoverOkKeepsInv ==
    ASSUME WalInv, RecoverOk(Incarnation)
    PROVE  /\ WalInv' /\ settled' \in {settled, settled \o maybe}
           /\ wal'.state \in {"Ready", "RecoveredUncommitted"}
<1>1. /\ wal.state = "Absent" /\ ~ token.held /\ walMedia = walStable
      /\ UNCHANGED <<walMedia, walStable, token>> /\ maybe' = <<>>
  BY DEF WalInv, QuietShape, Synced, RecoverOk
<1> DEFINE Scanned(ends, t) ==
               /\ ScanStops(walMedia, Incarnation, ends, t)
               /\ wal' = [ReadyWal(Incarnation, ends) EXCEPT
                         !.state = IF t = 0 THEN "Ready" ELSE "RecoveredUncommitted",
                         !.tail = t]
               /\ settled' = ParsedRecords(walMedia, ends)
               /\ settledEnds' = ends
<1>a. PICK ends \in EndLists : /\ CommittedPrefix(walMedia, Incarnation, ends)
                               /\ \E t \in TailSizes : Scanned(ends, t)
  BY Zenon DEF RecoverOk
<1>b. PICK t \in TailSizes : Scanned(ends, t)
  BY <1>a, Zenon
<1>2. /\ CommittedPrefix(walMedia, Incarnation, ends)
      /\ ScanStops(walMedia, Incarnation, ends, t)
      /\ wal' = [ReadyWal(Incarnation, ends) EXCEPT
                         !.state = IF t = 0 THEN "Ready" ELSE "RecoveredUncommitted",
                         !.tail = t]
      /\ settled' = ParsedRecords(walMedia, ends)
      /\ settledEnds' = ends
  BY <1>a, <1>b, Zenon
<1> HIDE DEF Scanned
<1>3. /\ ends \in Seq(Nat) /\ Len(ends) + 1 \in Nat /\ PrefixEnd(ends) \in Nat
      /\ t \in Nat /\ Incarnation \in Nat
  <2>1. t \in Nat
    BY FrameSizes DEF TailSizes
  <2> QED BY <2>1, EndListFacts, WalAssumption
<1>4. /\ wal' \in WalOwner /\ wal'.io = "idle" /\ wal'.tail = t
      /\ wal'.incarnation = Incarnation /\ wal'.record_end_lbas = ends
      /\ wal'.cursor = PrefixEnd(ends) /\ wal'.next_serial = Len(ends) + 1
      /\ wal'.state = IF t = 0 THEN "Ready" ELSE "RecoveredUncommitted"
  <2> DEFINE r == ReadyWal(Incarnation, ends)
             st == IF t = 0 THEN "Ready" ELSE "RecoveredUncommitted"
  <2>1. /\ r \in WalOwner /\ r.io = "idle" /\ r.incarnation = Incarnation
        /\ r.record_end_lbas = ends /\ r.cursor = PrefixEnd(ends)
        /\ r.next_serial = Len(ends) + 1
    BY <1>3, ReadyFields, Zenon
  <2>2. st \in WalStates
    BY DEF WalStates
  <2>3. wal' = [r EXCEPT !.state = st, !.tail = t]
    BY <1>2, Zenon
  <2> HIDE DEF r, st
  <2>4. wal' \in WalOwner
    <3>1. r \in WalOwner /\ st \in WalStates /\ t \in Nat
      BY <1>3, <2>1, <2>2
    <3> QED BY ZenonT(30), <2>3, <3>1 DEF WalOwner
  <2>5. /\ wal'.state = st /\ wal'.tail = t /\ wal'.io = r.io
        /\ wal'.incarnation = r.incarnation /\ wal'.record_end_lbas = r.record_end_lbas
        /\ wal'.cursor = r.cursor /\ wal'.next_serial = r.next_serial
    BY <2>1, <2>3 DEF WalOwner
  <2> QED BY <2>1, <2>4, <2>5, Zenon DEF st
<1>5. OwnerAgrees'
  BY SMTT(30), <1>1, <1>2, <1>4 DEF OwnerAgrees, Cursor, Serial, PrefixEnd, FrameStart
<1>6. /\ WalTypeOK /\ SettledFramesIntact /\ PrefixShape
      /\ TailShape(walMedia, walStable, Cursor, Serial, maybe)
      /\ settled \in Seq(Payload) /\ token \in WalToken
      /\ \A l \in Lba : walMedia[l] \in SectorType /\ walStable[l] \in SectorType
      /\ DOMAIN walMedia = Lba /\ DOMAIN walStable = Lba
  BY DEF WalInv, WalTypeOK
<1>7. CASE ends = settledEnds
  <2>1. UNCHANGED <<settled, settledEnds>>
    BY SMTT(30), <1>2, <1>6, <1>7, ParsedSettled
  <2>2. /\ SettledFramesIntact' /\ PrefixShape' /\ WalTypeOK'
        /\ Cursor' = Cursor /\ Serial' = Serial
    <3>1. <<>> \in Seq(Payload)
      OBVIOUS
    <3> QED BY <1>1, <1>4, <1>6, <2>1, <3>1, BatchIssued
  <2>3. CASE t = 0
    <3>1. ZeroFrom(walMedia, Cursor)
      BY SMTT(30), <1>1, <1>2, <1>7, <2>3, ScanTail
    <3>2. TailShape(walMedia, walStable, Cursor, Serial, maybe)'
      BY SMTT(30), <1>1, <2>2, <3>1 DEF TailShape
    <3>3. QuietShape' /\ PendingShape' /\ PreparedShape' /\ RecoveredShape'
      BY ZenonT(30), <1>1, <1>4, <2>2, <2>3, <3>1 DEF QuietShape, PendingShape, PreparedShape,
         RecoveredShape, Synced
    <3> QED BY SMTT(30), <1>4, <1>5, <2>1, <2>2, <2>3, <3>2, <3>3 DEF WalInv
  <2>4. CASE t # 0
    <3>1. PICK p \in Payload :
              /\ t = PayloadSectors[p]
              /\ PartialFrame(walMedia, Cursor, Serial, p)
              /\ Unmarked(walMedia, Cursor, p)
              /\ walMedia[Cursor] = PrepareSector(Incarnation, Serial, p)
      BY SMTT(30), <1>1, <1>2, <1>7, <2>4, ScanTail
    <3>2. TailShape(walMedia, walStable, Cursor, Serial, maybe)'
      BY SMTT(30), <1>1, <2>2, <3>1 DEF TailShape
    <3>3. QuietShape' /\ PendingShape' /\ PreparedShape'
      BY SMTT(30), <1>1, <1>4, <2>4 DEF QuietShape, PendingShape, PreparedShape
    <3>4. RecoveredShape'
      BY SMTT(30), <1>1, <1>4, <2>2, <2>4, <3>1 DEF RecoveredShape, Synced
    <3> QED BY SMTT(30), <1>4, <1>5, <2>1, <2>2, <2>4, <3>2, <3>3, <3>4 DEF WalInv
  <2> QED BY <2>3, <2>4
<1>8. ASSUME NEW p \in Payload, maybe = <<p>>, MarkedFrame(walMedia, Cursor, Serial, p),
             ends = Append(settledEnds, Cursor + FrameLength(p))
      PROVE  WalInv' /\ settled' \in {settled, settled \o maybe}
  <2>1. settled' = Append(settled, p)
    BY SMTT(30), <1>2, <1>6, <1>8, ParsedAppended
  <2>2. settled \o maybe = Append(settled, p)
    BY <1>6, <1>8
  <2>3. /\ SettledFramesIntact' /\ PrefixShape'
        /\ Cursor' = Cursor + FrameLength(p)
        /\ settled' \in Seq(Payload) /\ settledEnds' \in Seq(Nat)
    BY SMTT(30), <1>1, <1>2, <1>6, <1>8, <2>1, FrameSettles
  <2>4. WalTypeOK'
    <3>1. <<>> \in Seq(Payload)
      OBVIOUS
    <3> QED BY <1>1, <1>4, <1>6, <2>3, <3>1 DEF WalTypeOK
  <2>5. ZeroFrom(walMedia, Cursor') /\ PrefixEnd(ends) = Cursor'
    BY SMTT(30), <1>2, <1>8, <2>3 DEF MarkedFrame, Cursor
  <2>6. t = 0
    <3>1. SUFFICES ASSUME NEW q \in Payload, PrefixEnd(ends) + 1 + t < SectorCount,
                          walMedia[PrefixEnd(ends)]
                              = PrepareSector(Incarnation, Len(ends) + 1, q)
                   PROVE  FALSE
      BY <1>2 DEF ScanStops
    <3>2. PrefixEnd(ends) \in Lba /\ PrefixEnd(ends) >= PrefixEnd(ends)
      BY <1>3, <3>1, WalAssumption DEF Lba
    <3>3. walMedia[PrefixEnd(ends)] = Zero
      BY <2>5, <3>2 DEF ZeroFrom
    <3> QED BY <3>1, <3>3 DEF PrepareSector, Zero
  <2>7. TailShape(walMedia, walStable, Cursor, Serial, maybe)'
    BY SMTT(30), <1>1, <2>5 DEF TailShape
  <2>8. QuietShape' /\ PendingShape' /\ PreparedShape' /\ RecoveredShape'
    BY ZenonT(30), <1>1, <1>4, <2>5, <2>6 DEF QuietShape, PendingShape, PreparedShape,
       RecoveredShape, Synced
  <2> QED BY SMTT(30), <1>5, <2>1, <2>2, <2>3, <2>4, <2>7, <2>8 DEF WalInv
<1>9. wal'.state \in {"Ready", "RecoveredUncommitted"}
  BY <1>4
<1> QED BY <1>2, <1>6, <1>7, <1>8, <1>9, ScanResult

-----------------------------------------------------------------------------
(* The theorems *)

\* Every step of the specification keeps the invariant.
LEMMA NextKeepsInv == WalInv /\ [WalNext]_walVars => WalInv'
<1> SUFFICES ASSUME WalInv, [WalNext]_walVars PROVE WalInv'
  OBVIOUS
<1>1. CASE RecoverOk(Incarnation)
  BY <1>1, RecoverOkKeepsInv
<1>2. CASE RecoverRefused(Incarnation) \/ RecoverReadFailed \/ IntoDevice
  BY <1>2, OwnerGoneKeepsInv
<1>3. CASE IntoContinuation
  BY <1>3, IntoContinuationKeepsInv
<1>4. CASE ResumeFromContinuation
  BY <1>4, ResumeKeepsInv
<1>5. CASE \E p \in Payload : Begin(p)
  BY SMTT(30), <1>5, BeginKeepsInv
<1>6. CASE CancelPending
  BY <1>6, CancelPendingKeepsInv
<1>7. CASE PrepareWrite
  BY <1>7, PrepareWriteKeepsInv
<1>8. CASE PrepareBarrier
  BY <1>8, PrepareBarrierKeepsInv
<1>9. CASE CommitWrite
  BY <1>9, CommitWriteKeepsInv
<1>10. CASE CommitBarrier
  BY <1>10, CommitBarrierKeepsInv
<1>11. CASE ClearRecoveredTail
  BY <1>11, ClearRecoveredTailKeepsInv
<1>12. CASE AbortPrepared
  BY <1>12, AbortPreparedKeepsInv
<1>13. CASE ClearSuffixBarrier
  BY <1>13, ClearSuffixBarrierKeepsInv
<1>14. CASE ClearHeaderBarrier
  BY <1>14, ClearHeaderBarrierKeepsInv
<1>15. CASE EffectFails
  BY <1>15, EffectFailsKeepsInv
<1>16. CASE WalPowerCut
  BY <1>16, PowerCutKeepsInv
<1>17. CASE UNCHANGED walVars
  <2>1. UNCHANGED <<walMedia, walStable, wal, token, settled, settledEnds, maybe>>
    BY <1>17 DEF walVars
  <2>2. Cursor' = Cursor /\ Serial' = Serial
    BY <2>1 DEF Cursor, Serial
  <2>3. WalTypeOK'
    BY <2>1 DEF WalInv, WalTypeOK
  <2>4. SettledFramesIntact'
    BY <2>1 DEF WalInv, SettledFramesIntact
  <2>5. PrefixShape' /\ QuietShape'
    BY <2>1, <2>2 DEF WalInv, PrefixShape, QuietShape, Synced
  <2>6. TailShape(walMedia, walStable, Cursor, Serial, maybe)'
    BY SMTT(30), <2>1, <2>2 DEF WalInv
  <2>7. PendingShape' /\ OwnerAgrees'
    BY SMTT(30), <2>1, <2>2 DEF WalInv, PendingShape, OwnerAgrees, Synced
  <2>8. PreparedShape'
    BY SMTT(30), <2>1, <2>2 DEF WalInv, PreparedShape, Synced
  <2>9. RecoveredShape'
    BY ZenonT(30), <2>1, <2>2 DEF WalInv, RecoveredShape, Synced
  <2> QED BY SMTT(30), <2>3, <2>4, <2>5, <2>6, <2>7, <2>8, <2>9 DEF WalInv
<1> QED BY <1>1, <1>2, <1>3, <1>4, <1>5, <1>6, <1>7, <1>8, <1>9, <1>10, <1>11,
           <1>12, <1>13, <1>14, <1>15, <1>16, <1>17, Zenon DEF WalNext

\* The inductive invariant holds in every reachable state.
THEOREM WalInvariance == WalSpec => []WalInv
BY InitEstablishesInv, NextKeepsInv, PTL DEF WalSpec

\* The fields of the WAL owner and the sectors keep their types.
THEOREM WalTypeCorrect == WalSpec => []WalTypeOK
<1>1. WalInv => WalTypeOK
  BY DEF WalInv
<1> QED BY <1>1, WalInvariance, PTL

\* No step of the WAL, and no power cut, damages the frame of a record whose
\* commit() returned or that recover() reported.
THEOREM SettledFramesSurvive == WalSpec => []SettledFramesIntact
<1>1. WalInv => SettledFramesIntact
  BY DEF WalInv
<1> QED BY <1>1, WalInvariance, PTL

\* recover() returns exactly the settled records, or these and the one whose
\* marker was issued without a reply.
THEOREM RecoveryExact == WalSpec => RecoveryIsExact
<1> DEFINE A == wal.state = "Absent" /\ wal'.state \in {"Ready", "RecoveredUncommitted"}
                    => settled' \in {settled, settled \o maybe}
<1>1. WalInv /\ [WalNext]_walVars => [A]_walVars
  <2> SUFFICES ASSUME WalInv, WalNext PROVE A
    OBVIOUS
  <2>1. CASE RecoverOk(Incarnation)
    BY <2>1, RecoverOkKeepsInv
  <2>2. CASE ~ RecoverOk(Incarnation)
    <3>1. wal.state = "Absent" => wal.io = "idle"
      BY DEF WalInv, QuietShape
    <3>2. CASE RecoverRefused(Incarnation) \/ RecoverReadFailed \/ WalPowerCut \/ EffectFails
      BY <3>1, <3>2, OwnerTypes DEF RecoverRefused, RecoverReadFailed, WalPowerCut,
         EffectFails, NoWal
    <3>3. CASE \/ IntoContinuation \/ IntoDevice \/ \E p \in Payload : Begin(p)
               \/ CancelPending \/ PrepareWrite \/ CommitWrite \/ ClearRecoveredTail
               \/ AbortPrepared
      BY <3>3 DEF IntoContinuation, IntoDevice, Begin, CancelPending, PrepareWrite,
         CommitWrite, ClearRecoveredTail, AbortPrepared
    <3>4. CASE PrepareBarrier \/ CommitBarrier \/ ClearSuffixBarrier \/ ClearHeaderBarrier
      BY <3>1, <3>4 DEF PrepareBarrier, CommitBarrier, ClearSuffixBarrier,
         ClearHeaderBarrier
    <3>5. CASE ResumeFromContinuation
      BY <3>5 DEF ResumeFromContinuation, walHistory
    <3> QED BY <2>2, <3>2, <3>3, <3>4, <3>5, Zenon DEF WalNext
  <2> QED BY <2>1, <2>2
<1>2. WalSpec => [][A]_walVars
  BY <1>1, WalInvariance, PTL DEF WalSpec
<1> QED BY <1>2 DEF RecoveryIsExact

\* A continuation token stands for exactly what a scan of the stable sectors
\* would return, so that resume_from_continuation needs none.
THEOREM ContinuationIsScan == WalSpec => []ContinuationMatchesScan
<1>1. WalInv => ContinuationMatchesScan
  <2> SUFFICES ASSUME WalInv, token.held PROVE ContinuationMatchesScan
    BY DEF ContinuationMatchesScan
  <2>1. /\ wal.state = "Absent" /\ walMedia = walStable /\ ZeroFrom(walStable, Cursor)
        /\ token.incarnation = Incarnation /\ token.record_end_lbas = settledEnds
    BY DEF WalInv, QuietShape, Synced, OwnerAgrees
  <2>2. CommittedPrefix(walStable, Incarnation, settledEnds)
    <3>1. ASSUME NEW i \in 1 .. Len(settledEnds)
          PROVE  /\ settled[i] \in Payload
                 /\ settledEnds[i] = FrameStart(settledEnds, i) + FrameLength(settled[i])
                 /\ HoldsFrame(walStable, FrameStart(settledEnds, i), Incarnation, i,
                               settled[i])
      BY CursorFacts DEF WalInv, SettledFramesIntact
    <3> QED BY SMTT(30), <3>1 DEF CommittedPrefix
  <2>3. ScanStops(walStable, Incarnation, settledEnds, 0)
    BY <2>1 DEF ScanStops, Cursor
  <2> QED BY <2>1, <2>2, <2>3 DEF ContinuationMatchesScan, ScanYields
<1> QED BY <1>1, WalInvariance, PTL

\* Every parsed prefix is one the scan considers: a frame takes three sectors
\* at least, so that a device holds SectorCount \div 3 of them at most.
LEMMA CommittedIsList ==
    ASSUME NEW d, NEW ends \in Seq(Nat), CommittedPrefix(d, Incarnation, ends)
    PROVE  ends \in EndLists
<1> DEFINE n == Len(ends)
<1>1. n \in Nat /\ SectorCount \in Nat /\ \A i \in 1 .. n : ends[i] \in Nat
  BY WalAssumption
<1>2. ASSUME NEW i \in 1 .. n
      PROVE  /\ FrameStart(ends, i) \in Nat
             /\ ends[i] >= FrameStart(ends, i) + 3 /\ ends[i] <= SectorCount
  <2>1. PICK p \in Payload :
            /\ ends[i] = FrameStart(ends, i) + FrameLength(p)
            /\ HoldsFrame(d, FrameStart(ends, i), Incarnation, i, p)
    BY DEF CommittedPrefix
  <2>2. FrameStart(ends, i) \in Nat
    BY <1>1 DEF FrameStart
  <2>3. FrameLength(p) \in Nat /\ FrameLength(p) >= 3
    BY FrameSizes
  <2> QED BY <2>1, <2>2, <2>3 DEF HoldsFrame
<1> DEFINE T == {j \in Nat : j \in 1 .. n /\ ends[j] < 3 * j}
<1>3. T = {}
  <2>1. SUFFICES ASSUME T # {} PROVE FALSE
    OBVIOUS
  <2>2. PICK j \in T : \A y \in T : j <= y
    BY ZenonT(30), <2>1, LeastNatural
  <2>3. j \in Nat /\ j \in 1 .. n /\ ends[j] < 3 * j
    BY <2>2
  <2>4. CASE j = 1
    BY <1>1, <1>2, <2>3, <2>4 DEF FrameStart
  <2>5. CASE j # 1
    <3>1. j - 1 \in Nat /\ j - 1 \in 1 .. n /\ ~ (j <= j - 1)
      BY <1>1, <2>3, <2>5
    <3>2. j - 1 \notin T
      BY <2>2, <3>1
    <3>3. ends[j - 1] >= 3 * (j - 1)
      BY <1>1, <3>1, <3>2
    <3>4. ends[j] >= ends[j - 1] + 3
      BY <1>2, <2>3, <2>5 DEF FrameStart
    <3> QED BY <1>1, <2>3, <3>1, <3>3, <3>4
  <2> QED BY <2>4, <2>5
<1>4. n <= SectorCount \div 3
  <2>1. CASE n = 0
    BY <1>1, <2>1
  <2>2. CASE n # 0
    <3>1. n \in 1 .. n /\ n \notin T
      BY <1>1, <1>3, <2>2
    <3>2. 3 * n <= ends[n] /\ ends[n] <= SectorCount /\ ends[n] \in Nat
      BY <1>1, <1>2, <3>1
    <3> HIDE DEF n
    <3> QED BY <1>1, <3>2
  <2> QED BY <2>1, <2>2
<1>5. ends \in [1 .. n -> 1 .. SectorCount]
  <2>1. \A i \in 1 .. n : ends[i] \in 1 .. SectorCount
    BY <1>1, <1>2
  <2>2. ends \in [1 .. n -> Nat]
    OBVIOUS
  <2> QED BY <2>1, <2>2
<1>6. n \in 0 .. SectorCount \div 3
  BY <1>1, <1>4
<1> QED BY <1>5, <1>6 DEF EndLists

\* The settled prefix parses.
LEMMA SettledPrefixParses ==
    ASSUME WalTypeOK, SettledFramesIntact
    PROVE  /\ CommittedPrefix(walMedia, Incarnation, settledEnds)
           /\ settledEnds \in EndLists
<1>1. ASSUME NEW i \in 1 .. Len(settledEnds)
      PROVE  /\ settled[i] \in Payload
             /\ settledEnds[i] = FrameStart(settledEnds, i) + FrameLength(settled[i])
             /\ HoldsFrame(walMedia, FrameStart(settledEnds, i), Incarnation, i, settled[i])
  BY CursorFacts DEF SettledFramesIntact
<1>2. CommittedPrefix(walMedia, Incarnation, settledEnds)
  BY <1>1 DEF CommittedPrefix
<1> QED BY SMTT(30), <1>2, CommittedIsList DEF WalTypeOK

\* So does the prefix one marked frame longer, and zeros follow it.
LEMMA MarkedPrefixParses ==
    ASSUME WalTypeOK, SettledFramesIntact, NEW p \in Payload,
           MarkedFrame(walMedia, Cursor, Serial, p)
    PROVE  ~ ScanFails(walMedia, Incarnation)
<1> DEFINE m == Len(settledEnds)
           z == Cursor + FrameLength(p)
           ends == Append(settledEnds, z)
<1>1. /\ settledEnds \in Seq(Nat) /\ m \in Nat /\ Cursor \in Nat /\ z \in Nat
      /\ Serial = m + 1
  BY CursorFacts, FrameSizes DEF WalTypeOK, Serial
<1>2. /\ ends \in Seq(Nat) /\ Len(ends) = m + 1 /\ ends[m + 1] = z
      /\ \A i \in 1 .. m : ends[i] = settledEnds[i]
  BY <1>1
<1>3. CommittedPrefix(walMedia, Incarnation, settledEnds)
  BY SettledPrefixParses
<1> HIDE DEF ends, z
<1>4. ASSUME NEW i \in 1 .. m
      PROVE  FrameStart(ends, i) = FrameStart(settledEnds, i)
  <2>1. i # 1 => i - 1 \in 1 .. m
    BY <1>1
  <2> QED BY SMTT(30), <1>2, <2>1 DEF FrameStart
<1>5. FrameStart(ends, m + 1) = Cursor
  <2>1. CASE m = 0
    BY <2>1 DEF FrameStart, Cursor, PrefixEnd
  <2>2. CASE m # 0
    <3>1. m \in 1 .. m /\ m + 1 # 1 /\ (m + 1) - 1 = m
      BY <1>1, <2>2
    <3> QED BY <1>2, <3>1 DEF FrameStart, Cursor, PrefixEnd
  <2> QED BY <2>1, <2>2
<1>6. ASSUME NEW i \in 1 .. Len(ends)
      PROVE  \E q \in Payload :
                /\ ends[i] = FrameStart(ends, i) + FrameLength(q)
                /\ HoldsFrame(walMedia, FrameStart(ends, i), Incarnation, i, q)
  <2>1. CASE i = m + 1
    BY <1>1, <1>2, <1>5, <2>1 DEF MarkedFrame, z
  <2>2. CASE i # m + 1
    <3>1. i \in 1 .. m
      BY SMTT(30), <1>1, <1>2, <2>2
    <3> QED BY <1>2, <1>3, <1>4, <3>1 DEF CommittedPrefix
  <2> QED BY <2>1, <2>2
<1>7. CommittedPrefix(walMedia, Incarnation, ends) /\ ends \in EndLists
  <2>1. CommittedPrefix(walMedia, Incarnation, ends)
    BY <1>6 DEF CommittedPrefix
  <2> QED BY <1>2, <2>1, CommittedIsList
<1>8. PrefixEnd(ends) = z
  <2>1. (m + 1) + 1 # 1 /\ ((m + 1) + 1) - 1 = m + 1
    BY SMTT(30), <1>1
  <2> QED BY <1>2, <2>1 DEF PrefixEnd, FrameStart
<1>9. ScanStops(walMedia, Incarnation, ends, 0) /\ 0 \in TailSizes
  BY SMTT(30), <1>8 DEF ScanStops, MarkedFrame, z, TailSizes
<1> QED BY SMTT(30), <1>7, <1>9 DEF ScanFails

\* Why a scan of the device fails.
LEMMA FailedScan ==
    ASSUME WalInv, walMedia = walStable, ScanFails(walMedia, Incarnation)
    PROVE  /\ Cursor < SectorCount /\ walMedia[Cursor] = Zero
           /\ \E l \in Lba : l > Cursor /\ walMedia[l] # Zero
           /\ \A l \in Lba : l > Cursor => walMedia[l].kind \in {"zero", "data"}
<1>1. /\ WalTypeOK /\ SettledFramesIntact /\ Cursor \in Nat /\ SectorCount \in Nat
      /\ TailShape(walMedia, walStable, Cursor, Serial, maybe)
      /\ CommittedPrefix(walMedia, Incarnation, settledEnds)
      /\ settledEnds \in EndLists
  BY CursorFacts, SettledPrefixParses, WalAssumption DEF WalInv
<1>2. ASSUME NEW t \in TailSizes PROVE ~ ScanStops(walMedia, Incarnation, settledEnds, t)
  BY <1>1 DEF ScanFails
<1>3. ~ ZeroFrom(walMedia, Cursor)
  BY <1>2 DEF ScanStops, Cursor, TailSizes
<1>4. PICK p \in Payload :
          /\ PartialFrame(walMedia, Cursor, Serial, p)
          /\ Unmarked(walMedia, Cursor, p) \/ FrameWritten(walMedia, Cursor, Serial, p)
  BY SMTT(30), <1>1, <1>3 DEF TailShape
<1> DEFINE n == PayloadSectors[p]
           mark == Cursor + 1 + n
<1>5. /\ n \in Nat /\ n >= 1 /\ FrameLength(p) = n + 2
      /\ Cursor + (n + 2) <= SectorCount /\ mark \in Lba /\ Cursor \in Lba
      /\ \A k \in 0 .. n + 1 :
            walMedia[Cursor + k] = Zero
              \/ walMedia[Cursor + k] = FrameSector(Incarnation, Serial, p, k)
      /\ ZeroFrom(walMedia, Cursor + (n + 2))
  BY <1>1, <1>4, FrameSizes DEF PartialFrame, Fits, Lba
<1> HIDE DEF n
<1>6. walMedia[mark] = Zero
  <2>1. SUFFICES ASSUME walMedia[mark] # Zero PROVE FALSE
    OBVIOUS
  <2>2. FrameWritten(walMedia, Cursor, Serial, p)
    BY <1>4, <2>1 DEF Unmarked, n
  <2>3. walMedia[mark] = FrameSector(Incarnation, Serial, p, n + 1)
    <3>1. n + 1 \in 0 .. n + 1 /\ Cursor + (n + 1) = mark
      BY <1>1, <1>5
    <3> QED BY <1>5, <2>1, <3>1
  <2>4. ASSUME NEW k \in 0 .. n + 1
        PROVE  walMedia[Cursor + k] = FrameSector(Incarnation, Serial, p, k)
    <3>1. CASE k = n + 1
      <4>1. Cursor + k = mark
        BY <1>1, <1>5, <3>1
      <4> QED BY <2>3, <3>1, <4>1
    <3>2. CASE k # n + 1
      <4>1. k \in 0 .. n
        BY SMTT(30), <1>5, <3>2
      <4> QED BY <2>2, <4>1 DEF FrameWritten, n
    <3> QED BY <3>1, <3>2
  <2>5. MarkedFrame(walMedia, Cursor, Serial, p)
    BY <1>5, <2>4 DEF MarkedFrame, HoldsFrame, n
  <2> QED BY <1>1, <2>5, MarkedPrefixParses
<1>7. ZeroFrom(walMedia, mark)
  <2>1. \A l \in Lba : l >= mark => l = mark \/ l >= Cursor + (n + 2)
    BY <1>1, <1>5 DEF Lba
  <2> QED BY <1>5, <1>6, <2>1 DEF ZeroFrom
<1>8. walMedia[Cursor] = Zero
  <2>1. 0 \in 0 .. n + 1 /\ Cursor + 0 = Cursor
    BY <1>1, <1>5
  <2>2. walMedia[Cursor] = Zero \/ walMedia[Cursor] = PrepareSector(Incarnation, Serial, p)
    BY <1>5, <2>1, FrameSectorKinds
  <2>3. SUFFICES ASSUME walMedia[Cursor] = PrepareSector(Incarnation, Serial, p)
                 PROVE  FALSE
    BY <2>2
  <2>4. n \in TailSizes
    BY DEF TailSizes, n
  <2>5. mark < SectorCount
    BY <1>1, <1>5
  <2>6. ScanStops(walMedia, Incarnation, settledEnds, n)
    BY <1>7, <2>3, <2>5 DEF ScanStops, Cursor, Serial, n
  <2> QED BY <1>2, <2>4, <2>6
<1>9. \E l \in Lba : l > Cursor /\ walMedia[l] # Zero
  <2>1. PICK l \in Lba : l >= Cursor /\ walMedia[l] # Zero
    BY <1>3 DEF ZeroFrom
  <2>2. l # Cursor /\ l \in Nat
    BY SMTT(30), <1>8, <2>1 DEF Lba
  <2> QED BY <1>1, <2>1, <2>2
<1>10. ASSUME NEW l \in Lba, l > Cursor
       PROVE  walMedia[l].kind \in {"zero", "data"}
  <2>1. Zero.kind = "zero" /\ l \in Nat
    BY DEF Zero, Lba
  <2>2. CASE l >= mark
    BY SMTT(30), <1>7, <2>1, <2>2 DEF ZeroFrom
  <2>3. CASE l < mark
    <3> DEFINE k == l - Cursor
    <3>1. k \in 0 .. n + 1 /\ Cursor + k = l /\ k # 0 /\ k <= n
      BY SMTT(30), <1>1, <1>5, <1>10, <2>1, <2>3
    <3> HIDE DEF k
    <3>2. FrameSector(Incarnation, Serial, p, k) = DataSector(p, k)
      BY <3>1 DEF FrameSector, n
    <3>3. DataSector(p, k).kind = "data"
      BY DEF DataSector
    <3>4. walMedia[l] = Zero \/ walMedia[l] = DataSector(p, k)
      BY SMTT(30), <1>5, <3>1, <3>2
    <3> QED BY SMTT(30), <2>1, <3>3, <3>4
  <2> QED BY SMTT(30), <1>1, <1>5, <2>1, <2>2, <2>3
<1>11. Cursor < SectorCount
  BY <1>1, <1>5
<1> QED BY SMTT(30), <1>8, <1>9, <1>10, <1>11

\* recover() refuses a device only because the PREPARE header of an
\* unacknowledged frame was lost while a payload sector of it was kept.
THEOREM RefusalCause == WalSpec => []RefusedOnlyForLostHeader
<1>1. WalInit => RefusedOnlyForLostHeader
  BY OwnerTypes DEF WalInit, RefusedOnlyForLostHeader
<1>2. WalInv /\ RefusedOnlyForLostHeader /\ [WalNext]_walVars => RefusedOnlyForLostHeader'
  <2> SUFFICES ASSUME WalInv, RefusedOnlyForLostHeader, [WalNext]_walVars,
                      wal'.state = "Refused"
               PROVE  RefusedOnlyForLostHeader'
    BY SMTT(30) DEF RefusedOnlyForLostHeader
  <2>1. CASE RecoverRefused(Incarnation)
    <3>1. /\ UNCHANGED <<walMedia, walStable, settled, settledEnds>>
          /\ ScanFails(walMedia, Incarnation) /\ walMedia = walStable
      BY <2>1 DEF RecoverRefused, walHistory, WalInv, QuietShape, Synced
    <3>2. /\ Cursor < SectorCount /\ walMedia[Cursor] = Zero
          /\ \E l \in Lba : l > Cursor /\ walMedia[l] # Zero
          /\ \A l \in Lba : l > Cursor => walMedia[l].kind \in {"zero", "data"}
      BY <3>1, FailedScan
    <3>3. PrefixEnd(settledEnds') = Cursor
      BY <3>1 DEF Cursor
    <3> QED BY <3>1, <3>2, <3>3 DEF RefusedOnlyForLostHeader
  <2>2. CASE UNCHANGED walVars
    BY <2>2 DEF walVars, RefusedOnlyForLostHeader
  <2>3. ~ (WalNext /\ ~ RecoverRefused(Incarnation))
    <3>1. SUFFICES ASSUME WalNext, ~ RecoverRefused(Incarnation) PROVE FALSE
      OBVIOUS
    <3>2. wal.state = "Refused" => wal.io = "idle"
      BY SMTT(30) DEF WalInv, QuietShape
    <3>3. wal \in WalOwner
      BY DEF WalInv, WalTypeOK
    <3>4. CASE RecoverOk(Incarnation)
      BY <3>4, RecoverOkKeepsInv
    <3>5. CASE RecoverReadFailed \/ IntoContinuation \/ IntoDevice
               \/ ResumeFromContinuation \/ WalPowerCut
      <4>1. CASE ResumeFromContinuation
        <5>1. wal' = [NoWal EXCEPT !.state = "Ready", !.incarnation = token.incarnation,
                          !.cursor = PrefixEnd(token.record_end_lbas),
                          !.next_serial = Len(token.record_end_lbas) + 1,
                          !.record_end_lbas = token.record_end_lbas]
          BY <4>1 DEF ResumeFromContinuation, ReadyWal
        <5>2. wal'.state = "Ready"
          BY <5>1 DEF NoWal
        <5> QED BY <5>2
      <4>2. CASE RecoverReadFailed
        BY <4>2 DEF RecoverReadFailed, NoWal
      <4>3. CASE IntoContinuation \/ IntoDevice \/ WalPowerCut
        <5>1. wal' = NoWal
          BY SMTT(30), <4>3 DEF IntoContinuation, IntoDevice, WalPowerCut
        <5> QED BY SMTT(30), <5>1, OwnerTypes
      <4> QED BY <3>5, <4>1, <4>2, <4>3
    <3>6. CASE \/ \E p \in Payload : Begin(p)
               \/ CancelPending \/ EffectFails \/ PrepareBarrier \/ CommitBarrier
               \/ ClearHeaderBarrier
      BY ZenonT(30), <3>3, <3>6 DEF Begin, CancelPending, EffectFails, PrepareBarrier, CommitBarrier,
         ClearHeaderBarrier, WalOwner
    <3>7. CASE PrepareWrite \/ CommitWrite \/ ClearRecoveredTail \/ AbortPrepared
               \/ ClearSuffixBarrier
      BY <3>2, <3>3, <3>7 DEF PrepareWrite, CommitWrite, ClearRecoveredTail,
         AbortPrepared, ClearSuffixWrite, ClearSuffixBarrier, WalOwner
    <3> QED BY <3>1, <3>4, <3>5, <3>6, <3>7, Zenon DEF WalNext
  <2> QED BY SMTT(30), <2>1, <2>2, <2>3
<1> QED BY <1>1, <1>2, WalInvariance, PTL DEF WalSpec

=============================================================================
