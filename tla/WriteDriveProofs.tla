-------------------------- MODULE WriteDriveProofs --------------------------
(***************************************************************************)
(* WriteDrive of format.c, the ways it takes that do not read ahead.       *)
(*                                                                         *)
(* A compressed image (SectorWrite): its invariants hold for every sector  *)
(* size, every length of the stream and every way the decompressor cuts it *)
(* into pieces. The argument: a piece is cut in three, what completes the  *)
(* sector in sec_buf, whole sectors, and less than a sector (CutPiece).    *)
(* The first two extend what the drive holds by whole sectors, from where  *)
(* it ends (CompletedEffect); the third becomes the new sec_buf.           *)
(*                                                                         *)
(* Zeroing (ZeroDrive): a drive that counts as zeroed holds no data, for   *)
(* every size of drive and block, every throttling and every number of     *)
(* retries. The argument: once the drive was rewound, the file pointer is  *)
(* where the next block goes whenever a block is read or about to be       *)
(* written (PointerAtBlock), so that everything before wb has been skipped *)
(* because it was empty, or written as a whole (ClearSoFar).               *)
(***************************************************************************)
EXTENDS SectorWrite, ZeroDrive, TLAPS

-----------------------------------------------------------------------------
\* Sizes in whole sectors.

\* A number of sectors is a size in whole sectors.
LEMMA SectorMultiple ==
    ASSUME NEW k \in Nat
    PROVE  (k * SectorSize) % SectorSize = 0
  BY StreamAssumption

\* Two runs of whole sectors are together a run of whole sectors, so the drive
\* stays aligned from one _write() of sector_write to the next (format.c).
LEMMA SectorsAdd ==
    ASSUME NEW a \in Nat, NEW b \in Nat,
           a % SectorSize = 0, b % SectorSize = 0
    PROVE  (a + b) % SectorSize = 0
<1> DEFINE i == a \div SectorSize
           j == b \div SectorSize
<1>1. a = SectorSize * i /\ i \in Nat
  BY StreamAssumption
<1>2. b = SectorSize * j /\ j \in Nat
  BY StreamAssumption
<1> HIDE DEF i, j
<1>3. a + b = (i + j) * SectorSize /\ i + j \in Nat
  BY <1>1, <1>2, StreamAssumption
<1>. QED
  BY <1>3, SectorMultiple

\* WholeSectors (sector_write's rounding down, format.c) leaves less than a
\* sector over.
LEMMA WholeSectorsRounds ==
    ASSUME NEW n \in Nat
    PROVE  /\ WholeSectors(n) \in 0..n
           /\ n - WholeSectors(n) \in 0..(SectorSize - 1)
           /\ WholeSectors(n) % SectorSize = 0
<1>1. n % SectorSize \in 0..(SectorSize - 1) /\ n % SectorSize <= n
  BY StreamAssumption
<1>2. (n - (n % SectorSize)) % SectorSize = 0
  <2> DEFINE k == n \div SectorSize
  <2>1. n - (n % SectorSize) = k * SectorSize /\ k \in Nat
    BY StreamAssumption
  <2> HIDE DEF k
  <2>. QED
    BY <2>1, SectorMultiple
<1>. QED
  BY <1>1, <1>2, StreamAssumption DEF WholeSectors

-----------------------------------------------------------------------------
\* One call of sector_write (format.c).

\* How sector_write cuts a piece when it does write: fill completes sec_buf, the
\* rest is whole sectors and less than one sector.
LEMMA CutPiece ==
    ASSUME TypeOK, NEW count \in Nat,
           sec_buf_pos + FillSize(count) >= SectorSize \/ sec_buf_pos = 0
    PROVE  /\ FillSize(count) \in 0..count
           /\ sec_buf_pos = 0 => FillSize(count) = 0
           /\ sec_buf_pos > 0 => sec_buf_pos + FillSize(count) = SectorSize
           /\ WholeSectors(count - FillSize(count)) \in 0..(count - FillSize(count))
           /\ count - FillSize(count) - WholeSectors(count - FillSize(count))
                  \in 0..(SectorSize - 1)
           /\ WholeSectors(count - FillSize(count)) % SectorSize = 0
<1>1. sec_buf_pos \in 0..(SectorSize - 1)
  BY DEF TypeOK, sec_buf_pos
<1>2. /\ FillSize(count) \in 0..count
      /\ sec_buf_pos = 0 => FillSize(count) = 0
      /\ sec_buf_pos > 0 => sec_buf_pos + FillSize(count) = SectorSize
  BY <1>1, StreamAssumption DEF FillSize
<1>3. count - FillSize(count) \in Nat
  BY <1>2
<1>. QED
  BY <1>2, <1>3, WholeSectorsRounds

\* Completing and writing the sector in sec_buf takes the drive to where the rest
\* of the piece starts, on a sector.
LEMMA CompletedEffect ==
    ASSUME IInv, pc = "bled", NEW count \in Nat, taken + count <= StreamSize,
           sec_buf_pos + FillSize(count) >= SectorSize \/ sec_buf_pos = 0
    PROVE  /\ Completed(count) = taken + FillSize(count)
           /\ Completed(count) \in 0..StreamSize
           /\ Completed(count) % SectorSize = 0
<1>1. /\ drive \in Nat /\ drive % SectorSize = 0
      /\ taken \in Nat /\ drive + sec_buf_pos = taken
      /\ sec_buf_pos > 0 => sec_buf.off = drive
      /\ sec_buf_pos \in 0..(SectorSize - 1)
  BY StreamAssumption DEF IInv, TypeOK, NothingLost, DriveHoldsPrefix, WholeSectorsOnly,
         Spoiled, sec_buf_pos
<1>2. /\ FillSize(count) \in 0..count
      /\ sec_buf_pos = 0 => FillSize(count) = 0
      /\ sec_buf_pos > 0 => sec_buf_pos + FillSize(count) = SectorSize
  BY CutPiece DEF IInv
<1>3. CASE sec_buf_pos = 0
  BY <1>1, <1>2, <1>3, StreamAssumption DEF Completed
<1>4. CASE sec_buf_pos > 0
  <2>1. Completed(count) = drive + SectorSize
    BY <1>1, <1>2, <1>4, StreamAssumption DEF Completed, Appended
  <2>2. SectorSize % SectorSize = 0
    BY StreamAssumption
  <2>3. (drive + SectorSize) % SectorSize = 0
    BY <1>1, <2>2, SectorsAdd, StreamAssumption
  <2>. QED
    BY <1>1, <1>2, <1>4, <2>1, <2>3, StreamAssumption
<1>. QED
  BY <1>1, <1>3, <1>4

\* Writing n units, in whole sectors, of what follows takes the drive on by n.
LEMMA AppendedEffect ==
    ASSUME NEW d \in Nat, d % SectorSize = 0, NEW n \in Nat, n % SectorSize = 0
    PROVE  /\ Appended(d, d, n) = d + n
           /\ Appended(d, d, n) % SectorSize = 0
  BY SectorsAdd DEF Appended

\* A piece that does not complete a sector only grows sec_buf.
LEMMA KeepPieceKeeps ==
    ASSUME IInv, pc = "bled", NEW count \in 1..MaxCount,
           taken + count <= StreamSize, KeepPiece(count),
           UNCHANGED <<pc, bled_ret, flushed, ErrorStatus, ret>>
    PROVE  IInv'
<1>1. FillSize(count) = count
  BY StreamAssumption DEF IInv, TypeOK, KeepPiece, FillSize, sec_buf_pos
<1>2. /\ sec_buf' = [sec_buf EXCEPT !.len = sec_buf.len + count]
      /\ sec_buf.len > 0 /\ sec_buf.len + count < SectorSize
      /\ taken' = taken + count /\ drive' = drive
  BY <1>1 DEF KeepPiece, sec_buf_pos
<1>3. TypeOK'
  BY <1>2, StreamAssumption DEF IInv, TypeOK
<1>4. NothingLost'
  BY <1>2, StreamAssumption DEF IInv, TypeOK, NothingLost, DriveHoldsPrefix, Spoiled, sec_buf_pos
<1>. QED
  BY <1>2, <1>3, <1>4
  DEF IInv, DriveHoldsPrefix, WholeSectorsOnly, ImageComplete, Phases, Spoiled

\* A piece that completes the sector in sec_buf, or starts on one, goes to the
\* drive up to its last sector boundary, and its tail to sec_buf.
LEMMA WriteRestKeeps ==
    ASSUME IInv, pc = "bled", NEW count \in 1..MaxCount,
           taken + count <= StreamSize,
           sec_buf_pos + FillSize(count) >= SectorSize \/ sec_buf_pos = 0,
           WriteRest(count, Completed(count)),
           UNCHANGED <<pc, bled_ret, flushed, ErrorStatus, ret>>
    PROVE  IInv'
<1> DEFINE fill == FillSize(count)
           whole == WholeSectors(count - fill)
<1>1. count \in Nat /\ taken \in Nat
  BY StreamAssumption DEF IInv, TypeOK
<1>2. /\ fill \in 0..count
      /\ whole \in 0..(count - fill)
      /\ count - fill - whole \in 0..(SectorSize - 1)
      /\ whole % SectorSize = 0
  BY <1>1, CutPiece DEF IInv
<1>3. /\ Completed(count) = taken + fill
      /\ taken + fill \in 0..StreamSize
      /\ (taken + fill) % SectorSize = 0
  BY <1>1, CompletedEffect
<1>4. /\ drive' = Appended(taken + fill, taken + fill, whole)
      /\ sec_buf' = Piece(taken + fill + whole, count - fill - whole)
      /\ taken' = taken + count
  BY <1>3 DEF WriteRest
<1> HIDE DEF fill, whole
<1>5. /\ drive' = taken + fill + whole
      /\ drive' % SectorSize = 0
  BY <1>2, <1>3, <1>4, AppendedEffect, StreamAssumption
<1>6. TypeOK'
  BY <1>1, <1>2, <1>3, <1>4, <1>5, StreamAssumption DEF IInv, TypeOK, Piece
<1>7. NothingLost' /\ DriveHoldsPrefix' /\ WholeSectorsOnly'
  BY <1>1, <1>2, <1>3, <1>4, <1>5, StreamAssumption
  DEF NothingLost, DriveHoldsPrefix, WholeSectorsOnly, Spoiled, Piece, sec_buf_pos
<1>. QED
  BY <1>6, <1>7 DEF IInv, ImageComplete, Phases

\* After a short write the drive holds whole sectors of the stream up to
\* somewhere, and the decompressor is told.
LEMMA WriteShortKeeps ==
    ASSUME IInv, pc = "bled", NEW count \in 1..MaxCount,
           taken + count <= StreamSize, WriteShort(count),
           bled_ret' = "error", pc' = "finish",
           UNCHANGED <<flushed, ErrorStatus, ret>>
    PROVE  IInv'
<1> DEFINE fill == FillSize(count)
           whole == WholeSectors(count - fill)
<1>1. /\ count \in Nat /\ taken \in Nat
      /\ sec_buf_pos + fill >= SectorSize \/ sec_buf_pos = 0
      /\ sec_buf' = [sec_buf EXCEPT !.len = 0] /\ taken' = taken
  BY StreamAssumption DEF IInv, TypeOK, WriteShort
<1>2. fill \in 0..count /\ whole \in 0..(count - fill)
  BY <1>1, CutPiece DEF IInv
<1>3. /\ Completed(count) = taken + fill
      /\ taken + fill \in 0..StreamSize
      /\ (taken + fill) % SectorSize = 0
  BY <1>1, CompletedEffect
<1>4. /\ drive \in 0..StreamSize
      /\ drive % SectorSize = 0
  BY StreamAssumption DEF IInv, TypeOK, DriveHoldsPrefix, WholeSectorsOnly, Spoiled
<1>5. \/ drive' = drive
      \/ \E n \in 0..(count - fill) :
             /\ n % SectorSize = 0
             /\ drive' = Appended(taken + fill, taken + fill, n)
  BY <1>3 DEF WriteShort
<1> HIDE DEF fill, whole
<1>6. /\ drive' \in 0..StreamSize
      /\ drive' % SectorSize = 0
  <2>1. CASE drive' = drive
    BY <1>4, <2>1
  <2>2. ASSUME NEW n \in 0..(count - fill), n % SectorSize = 0,
               drive' = Appended(taken + fill, taken + fill, n)
        PROVE  /\ drive' \in 0..StreamSize
               /\ drive' % SectorSize = 0
    <3>1. n \in Nat /\ taken + fill \in Nat
      BY <1>1, <1>2, <1>3
    <3>2. drive' = taken + fill + n /\ drive' % SectorSize = 0
      BY <1>3, <2>2, <3>1, AppendedEffect
    <3>. QED
      BY <1>1, <1>2, <3>1, <3>2, StreamAssumption
  <2>. QED
    BY <1>5, <2>1, <2>2
<1>7. TypeOK'
  BY <1>1, <1>6, StreamAssumption DEF IInv, TypeOK
<1>8. drive' # Spoiled
  BY <1>6 DEF Spoiled
<1>9. NothingLost' /\ DriveHoldsPrefix' /\ WholeSectorsOnly'
  BY <1>6, <1>8 DEF NothingLost, DriveHoldsPrefix, WholeSectorsOnly
<1>. QED
  BY <1>7, <1>9 DEF IInv, ImageComplete, Phases

-----------------------------------------------------------------------------
\* WriteDrive around it (format.c).

\* Nothing was written before the source is opened.
LEMMA OpenSourceKeeps ==
    ASSUME IInv, OpenSource
    PROVE  IInv'
<1>1. TypeOK'
  BY StreamAssumption DEF IInv, TypeOK, OpenSource, Piece
<1>2. NothingLost' /\ Phases' /\ ImageComplete'
  BY StreamAssumption
  DEF IInv, TypeOK, NothingLost, Phases, ImageComplete, OpenSource, Piece, sec_buf_pos
<1>. QED
  BY <1>1, <1>2 DEF IInv, DriveHoldsPrefix, WholeSectorsOnly, OpenSource

\* The last, unfinished sector follows what is on the drive, and completes the
\* image if it is written.
LEMMA FinishImageKeeps ==
    ASSUME IInv, FinishImage
    PROVE  IInv'
<1>1. /\ drive \in 0..StreamSize /\ sec_buf_pos \in 0..(SectorSize - 1)
      /\ bled_ret \in {"ok", "error"}
      /\ bled_ret = "ok" => /\ drive + sec_buf_pos = StreamSize
                            /\ sec_buf_pos > 0 => sec_buf.off = drive
  BY DEF IInv, TypeOK, NothingLost, DriveHoldsPrefix, Phases, Spoiled,
         FinishImage, sec_buf_pos
<1>2. /\ drive' \in 0..StreamSize
      /\ bled_ret = "ok" /\ flushed' # "lost" => drive' = StreamSize
  BY <1>1, StreamAssumption DEF FinishImage, Appended
<1>3. TypeOK'
  BY <1>2 DEF IInv, TypeOK, FinishImage
<1>4. ImageComplete'
  BY <1>1, <1>2 DEF ImageComplete, FinishImage
<1>. QED
  BY <1>2, <1>3, <1>4, StreamAssumption
  DEF IInv, NothingLost, DriveHoldsPrefix, WholeSectorsOnly, Phases, Spoiled, FinishImage

\* Every step of WriteDrive preserves the inductive invariant.
LEMMA NextKeeps ==
    ASSUME IInv, [Next]_vars
    PROVE  IInv'
<1>1. CASE OpenSource
  BY <1>1, OpenSourceKeeps
<1>2. CASE BledWrite
  <2>1. PICK count \in 1..MaxCount :
            /\ taken + count <= StreamSize
            /\ \/ sector_write(count) /\ UNCHANGED <<pc, bled_ret>>
               \/ /\ WriteShort(count)
                  /\ bled_ret' = "error" /\ pc' = "finish"
    BY <1>2 DEF BledWrite
  <2>2. pc = "bled" /\ UNCHANGED <<flushed, ErrorStatus, ret>>
    BY <1>2 DEF BledWrite
  <2>3. CASE KeepPiece(count) /\ UNCHANGED <<pc, bled_ret>>
    BY <2>1, <2>2, <2>3, KeepPieceKeeps
  <2>4. CASE /\ sec_buf_pos + FillSize(count) >= SectorSize \/ sec_buf_pos = 0
             /\ WriteRest(count, Completed(count))
             /\ UNCHANGED <<pc, bled_ret>>
    BY <2>1, <2>2, <2>4, WriteRestKeeps
  <2>5. CASE WriteShort(count) /\ bled_ret' = "error" /\ pc' = "finish"
    BY <2>1, <2>2, <2>5, WriteShortKeeps
  <2>. QED
    BY <2>1, <2>3, <2>4, <2>5 DEF sector_write
<1>3. CASE BledEnds
  BY <1>3 DEF IInv, TypeOK, NothingLost, DriveHoldsPrefix, WholeSectorsOnly,
              ImageComplete, Phases, BledEnds, sec_buf_pos
<1>4. CASE FinishImage
  BY <1>4, FinishImageKeeps
<1>5. CASE UserCancel
  BY <1>5 DEF IInv, TypeOK, NothingLost, DriveHoldsPrefix, WholeSectorsOnly,
              ImageComplete, Phases, UserCancel, sec_buf_pos
<1>6. CASE UNCHANGED vars
  BY <1>6 DEF IInv, TypeOK, NothingLost, DriveHoldsPrefix, WholeSectorsOnly,
              ImageComplete, Phases, vars, sec_buf_pos
<1>. QED
  BY <1>1, <1>2, <1>3, <1>4, <1>5, <1>6 DEF Next, Finished

\* The inductive invariant of WriteDrive for a compressed image always holds.
THEOREM Inductive == Spec => []IInv
<1>1. ASSUME Init
      PROVE  IInv
  <2>1. TypeOK
    <3>1. /\ 0 \in 0..StreamSize /\ 0 \in 0..(SectorSize - 1)
      BY StreamAssumption
    <3>. QED
      BY <1>1, <3>1 DEF Init, TypeOK, Piece
  <2>2. WholeSectorsOnly
    BY <1>1, StreamAssumption DEF Init, WholeSectorsOnly
  <2>3. NothingLost /\ DriveHoldsPrefix /\ ImageComplete /\ Phases
    BY <1>1 DEF Init, NothingLost, DriveHoldsPrefix, ImageComplete, Phases, Spoiled
  <2>. QED
    BY <2>1, <2>2, <2>3 DEF IInv
<1>2. IInv /\ [Next]_vars => IInv'
  BY NextKeeps
<1>. QED
  BY <1>1, <1>2, PTL DEF Spec

\* The buffers of sector_write and what has gone to the drive always have their
\* type: in particular sec_buf never holds a whole sector (format.c).
THEOREM TypeCorrect == Spec => []TypeOK
<1>1. IInv => TypeOK
  BY DEF IInv
<1>. QED
  BY <1>1, Inductive, PTL

\* What sector_write has accepted is on the drive or in sec_buf, in order and
\* without a gap, whatever the sizes of the pieces and of a sector.
THEOREM SectorWriteLosesNothing == Spec => []NothingLost
<1>1. IInv => NothingLost
  BY DEF IInv
<1>. QED
  BY <1>1, Inductive, PTL

\* Before the final flush of WriteDrive the drive was only written whole sectors
\* of the stream, in order, failed and cancelled writes included.
THEOREM SectorWriteAligned == Spec => [](DriveHoldsPrefix /\ WholeSectorsOnly)
<1>1. IInv => DriveHoldsPrefix /\ WholeSectorsOnly
  BY DEF IInv
<1>. QED
  BY <1>1, Inductive, PTL

\* If WriteDrive ends and reports nothing, the drive holds the whole image, but
\* for a last sector whose unchecked write failed.
THEOREM SectorWriteComplete == Spec => []ImageComplete
<1>1. IInv => ImageComplete
  BY DEF IInv
<1>. QED
  BY <1>1, Inductive, PTL

-----------------------------------------------------------------------------
\* What a sector may hold when it counts as cleared.
ClearContents == IF fast_zeroing THEN {"zeros", "ones"} ELSE {"zeros"}

\* The file pointer is at the block in hand, but for a failed attempt to write it.
PointerAtBlock ==
    (rewound /\ pc \in {"loop", "compare", "write"}) => position = wb

\* Everything before the block in hand is clear.
ClearSoFar == rewound => \A s \in Sectors : s < wb => disk[s] \in ClearContents

\* Blocks are compared in fast mode only, and success means the end was reached.
Course ==
    /\ pc = "compare" => fast_zeroing
    /\ pc = "start" => ~ rewound /\ wb = 0
    /\ ret => wb = DiskSize

\* The inductive invariant of ZeroDrive.
ZeroInv == ZeroTypeOK /\ PointerAtBlock /\ ClearSoFar /\ Course

-----------------------------------------------------------------------------
\* A block (read_size in format.c) ends where the drive ends, or before.
LEMMA BlockFits ==
    ASSUME ZeroTypeOK
    PROVE  read_size \in Nat /\ wb + read_size \in 0..DiskSize
  BY ZeroAssumption DEF ZeroTypeOK, read_size

\* WriteFile on the drive: the sectors it touches are filled, no other changes.
LEMMA WrittenEffect ==
    ASSUME ZeroTypeOK, NEW n \in Nat
    PROVE  /\ Written(n) \in [Sectors -> Contents]
           /\ \A s \in Sectors : /\ s \in position..(position + n - 1) => Written(n)[s] = Fill
                                 /\ s \notin position..(position + n - 1) => Written(n)[s] = disk[s]
<1>1. Fill \in Contents
  BY DEF Fill, Contents
<1>. QED
  BY <1>1 DEF ZeroTypeOK, Written, At

\* What is written counts as clear.
LEMMA FillIsClear == Fill \in ClearContents
  BY DEF Fill, ClearContents

-----------------------------------------------------------------------------
\* The rewind and the buffers (Start).
LEMMA ZeroStartKeeps == ZeroInv /\ Start => ZeroInv'
<1> SUFFICES ASSUME ZeroInv, Start PROVE ZeroInv'
  OBVIOUS
<1>1. ZeroTypeOK'
  <2>1. rewound' \in BOOLEAN /\ ret' \in BOOLEAN
    BY Zenon DEF ZeroInv, ZeroTypeOK, Start
  <2>. QED
    BY <2>1, ZeroAssumption DEF ZeroInv, ZeroTypeOK, Start
<1>2. ClearSoFar'
  BY ZeroAssumption DEF ZeroInv, ZeroTypeOK, Course, ClearSoFar, Start, Sectors
<1>3. PointerAtBlock' /\ Course'
  BY ZeroAssumption DEF ZeroInv, ZeroTypeOK, PointerAtBlock, Course, Start
<1>. QED
  BY <1>1, <1>2, <1>3 DEF ZeroInv

\* The head of the loop (LoopTest).
LEMMA ZeroLoopTestKeeps == ZeroInv /\ LoopTest => ZeroInv'
<1> SUFFICES ASSUME ZeroInv, LoopTest PROVE ZeroInv'
  OBVIOUS
<1>1. ZeroTypeOK'
  <2>1. rewound' \in BOOLEAN /\ ret' \in BOOLEAN
    BY Zenon DEF ZeroInv, ZeroTypeOK, LoopTest
  <2>. QED
    BY <2>1, ZeroAssumption DEF ZeroInv, ZeroTypeOK, LoopTest
<1>2. ClearSoFar'
  BY DEF ZeroInv, ClearSoFar, LoopTest, ClearContents
<1>3. PointerAtBlock' /\ Course'
  BY ZeroAssumption DEF ZeroInv, ZeroTypeOK, PointerAtBlock, Course, LoopTest
<1>. QED
  BY <1>1, <1>2, <1>3 DEF ZeroInv

\* The block that was read (Compare): skipping one is sound because all of it is
\* zeros or all of it ones.
LEMMA ZeroCompareKeeps == ZeroInv /\ Compare => ZeroInv'
<1> SUFFICES ASSUME ZeroInv, Compare PROVE ZeroInv'
  OBVIOUS
<1>1. /\ pc = "compare" /\ fast_zeroing
      /\ UNCHANGED <<fast_zeroing, tries, disk, rewound, ErrorStatus, ret>>
  BY DEF ZeroInv, Compare, Course
<1>2. CASE Cancelled /\ pc' = "done" /\ UNCHANGED <<wb, position, throttle>>
  BY <1>1, <1>2 DEF ZeroInv, ZeroTypeOK, PointerAtBlock, ClearSoFar, Course, ClearContents
<1>3. CASE SkipBlock
  <2>1. ZeroTypeOK'
    BY <1>1, <1>3, BlockFits DEF ZeroInv, ZeroTypeOK, SkipBlock
  <2>2. ClearSoFar'
    <3> SUFFICES ASSUME rewound, NEW s \in Sectors, s < wb + read_size
                 PROVE  disk[s] \in {"zeros", "ones"}
      BY <1>1, <1>3 DEF ClearSoFar, ClearContents, SkipBlock
    <3>1. CASE s < wb
      BY <1>1, <3>1 DEF ZeroInv, ClearSoFar, ClearContents
    <3>2. CASE s >= wb
      <4>1. s \in At(read_size)
        BY <1>1, <3>2, BlockFits DEF ZeroInv, ZeroTypeOK, PointerAtBlock, At, Sectors
      <4>. QED
        BY <1>3, <4>1 DEF SkipBlock, BlockIsEmpty
    <3>. QED
      BY <3>1, <3>2 DEF ZeroInv, ZeroTypeOK, Sectors
  <2>3. PointerAtBlock' /\ Course'
    BY <1>1, <1>3, BlockFits DEF ZeroInv, ZeroTypeOK, PointerAtBlock, Course, SkipBlock
  <2>. QED
    BY <2>1, <2>2, <2>3 DEF ZeroInv
<1>4. CASE KeepBlock
  BY <1>1, <1>4, ZeroAssumption
  DEF ZeroInv, ZeroTypeOK, PointerAtBlock, ClearSoFar, Course, ClearContents, KeepBlock
<1>5. CASE CompareFails
  BY <1>1, <1>5
  DEF ZeroInv, ZeroTypeOK, PointerAtBlock, ClearSoFar, Course, ClearContents, CompareFails
<1>. QED
  BY <1>2, <1>3, <1>4, <1>5 DEF Compare

\* An attempt to write the block (Write), whole or cut short.
LEMMA ZeroWriteKeeps == ZeroInv /\ Write => ZeroInv'
<1> SUFFICES ASSUME ZeroInv, Write PROVE ZeroInv'
  OBVIOUS
<1>1. /\ pc = "write"
      /\ UNCHANGED <<fast_zeroing, throttle, tries, rewound, ErrorStatus, ret>>
  BY DEF Write
<1>2. CASE Cancelled /\ pc' = "done" /\ UNCHANGED <<wb, position, disk>>
  BY <1>1, <1>2 DEF ZeroInv, ZeroTypeOK, PointerAtBlock, ClearSoFar, Course, ClearContents
<1>3. CASE ~ Cancelled
  <2>1. PICK n \in 0..read_size :
            /\ position + n <= DiskSize
            /\ disk' = Written(n)
            /\ position' = position + n
            /\ \/ n = read_size /\ wb' = wb + n /\ pc' = "loop"
               \/ n < read_size /\ UNCHANGED wb /\ pc' = "reseek"
    BY <1>3 DEF Write
  <2>2. n \in Nat /\ wb + n <= DiskSize
    <3>1. read_size \in Nat /\ wb + read_size \in 0..DiskSize
      BY BlockFits DEF ZeroInv
    <3>. QED
      BY <3>1, ZeroAssumption DEF ZeroInv, ZeroTypeOK
  <2>3. ZeroTypeOK'
    BY <1>1, <2>1, <2>2, WrittenEffect DEF ZeroInv, ZeroTypeOK
  <2>4. ClearSoFar'
    <3> SUFFICES ASSUME rewound, NEW s \in Sectors, s < wb'
                 PROVE  Written(n)[s] \in ClearContents
      BY <1>1, <2>1 DEF ClearSoFar, ClearContents
    <3>1. position = wb /\ wb' <= wb + n
      BY <1>1, <2>1, <2>2 DEF ZeroInv, ZeroTypeOK, PointerAtBlock
    <3>2. CASE s < wb
      <4>1. s \notin position..(position + n - 1)
        BY <3>1, <3>2 DEF ZeroInv, ZeroTypeOK, Sectors
      <4>. QED
        BY <2>2, <3>2, <4>1, WrittenEffect DEF ZeroInv, ClearSoFar
    <3>3. CASE s >= wb
      <4>1. s \in position..(position + n - 1)
        BY <2>2, <2>3, <3>1, <3>3 DEF ZeroInv, ZeroTypeOK, Sectors
      <4>. QED
        BY <2>2, <4>1, WrittenEffect, FillIsClear DEF ZeroInv
    <3>. QED
      BY <3>2, <3>3 DEF ZeroInv, ZeroTypeOK, Sectors
  <2>5. PointerAtBlock' /\ Course'
    BY <1>1, <2>1, <2>2, <2>3 DEF ZeroInv, ZeroTypeOK, PointerAtBlock, Course
  <2>. QED
    BY <2>3, <2>4, <2>5 DEF ZeroInv
<1>. QED
  BY <1>2, <1>3 DEF Write

\* The step back after a failed attempt (Reseek).
LEMMA ZeroReseekKeeps == ZeroInv /\ Reseek => ZeroInv'
  BY ZeroAssumption
  DEF ZeroInv, ZeroTypeOK, PointerAtBlock, ClearSoFar, Course, ClearContents, Reseek

\* Any step of WriteDrive or of the user.
LEMMA ZeroNextKeeps == ZeroInv /\ [ZeroNext]_zero_vars => ZeroInv'
<1> SUFFICES ASSUME ZeroInv, [ZeroNext]_zero_vars PROVE ZeroInv'
  OBVIOUS
<1>1. CASE ZeroUserCancel
  BY <1>1 DEF ZeroInv, ZeroTypeOK, PointerAtBlock, ClearSoFar, Course, ClearContents, ZeroUserCancel
<1>2. CASE UNCHANGED zero_vars
  BY <1>2 DEF ZeroInv, ZeroTypeOK, PointerAtBlock, ClearSoFar, Course, ClearContents, zero_vars
<1>. QED
  BY <1>1, <1>2, ZeroStartKeeps, ZeroLoopTestKeeps, ZeroCompareKeeps, ZeroWriteKeeps, ZeroReseekKeeps
  DEF ZeroNext, WriteDrive, ZeroFinished

-----------------------------------------------------------------------------
\* The inductive invariant holds in every state of WriteDrive(drive, TRUE).
THEOREM ZeroingInvariance == ZeroSpec => []ZeroInv
<1>1. ZeroInit => ZeroInv
  <2> SUFFICES ASSUME ZeroInit PROVE ZeroInv
    OBVIOUS
  <2>1. ZeroTypeOK
    <3>1. rewound \in BOOLEAN /\ ret \in BOOLEAN
      BY Zenon DEF ZeroInit
    <3>. QED
      BY <3>1, ZeroAssumption DEF ZeroInit, ZeroTypeOK
  <2>2. PointerAtBlock /\ ClearSoFar /\ Course
    BY DEF ZeroInit, PointerAtBlock, ClearSoFar, Course
  <2>. QED
    BY <2>1, <2>2 DEF ZeroInv
<1>. QED
  BY <1>1, ZeroNextKeeps, PTL DEF ZeroSpec

\* The loop of WriteDrive keeps its counters in range: wb and the file pointer
\* never pass the end of the drive, and the back-off does not underflow.
THEOREM ZeroingTypeCorrect == ZeroSpec => []ZeroTypeOK
<1>1. ZeroInv => ZeroTypeOK
  BY DEF ZeroInv
<1>. QED
  BY <1>1, ZeroingInvariance, PTL

\* A drive that WriteDrive reports as zeroed holds no data, whatever was skipped,
\* throttled, cut short or retried.
THEOREM ZeroedDriveIsClear == ZeroSpec => []ClearedOnSuccess
<1>1. ZeroInv => ClearedOnSuccess
  BY ZeroAssumption
  DEF ZeroInv, ZeroTypeOK, ClearSoFar, Course, ClearContents, ClearedOnSuccess, Sectors
<1>. QED
  BY <1>1, ZeroingInvariance, PTL
=============================================================================
