-------------------------- MODULE WriteImageProofs --------------------------
(***************************************************************************)
(* WriteDrive's safety properties hold for every drive, image, sector and  *)
(* buffer size, whatever is retried, cut short or cancelled.               *)
(*                                                                         *)
(* The argument: the reads are never short, because they ask for no more   *)
(* than what is left of target_size, which is no more than the file holds; *)
(* so a buffer that is about to be written holds the part of the image     *)
(* that starts at wb (BuffersHold), the read in flight asks for the part   *)
(* that follows it (ReadAhead), and each write extends what is on the      *)
(* drive, from its start, by that part (DriveSoFar).                       *)
(***************************************************************************)
EXTENDS WriteImage, TLAPS

\* What one pass of the loop takes from the image at w.
Chunk(w) == Min2(buf_size, target_size - w)

\* Before the loop.
Early == {"rewind", "mount", "open", "first_read"}

\* A read is in flight, or its result is not yet looked at.
Reading == {"loop", "wait_read", "write", "reseek"}

\* What the data in hand amounts to, in whole sectors, while it is being written.
InHand == IF pc \in {"write", "reseek"} THEN read_size[proc_bufnum] ELSE 0

\* The transfer in flight was made at the present offset, for the buffer to read.
TransferAtOffset ==
    /\ op.st # "complete" => op.len = 0
    /\ (op.st \in {"complete", "eof"} /\ ~ bOffsetUpdated) => op.len = Transfer(op.want)
    /\ (op.st = "complete" /\ ~ bOffsetUpdated) =>
           buffer[op.buf] = [off |-> Offset, len |-> op.len]
    /\ pc \in Early => op.st = "none" /\ Offset = 0
    /\ pc \in Reading => op.buf = read_bufnum /\ ~ bOffsetUpdated
    /\ pc = "next_read" => op.st # "pending"

\* Unless all of target_size is read, the read in flight is for what follows the
\* data in hand.
ReadAhead ==
    /\ (pc \in Reading /\ wb + InHand <= target_size) =>
           Offset = wb + InHand /\ op.want = Chunk(wb + InHand)
    /\ NeverReadsPastSource

\* The two buffers: what is in hand is the part of the image that starts at wb.
BuffersHold ==
    /\ read_bufnum # proc_bufnum
    /\ pc \in {"loop", "wait_read"} => read_size[proc_bufnum] # 0
    /\ pc \in {"wait_read", "next_read", "write", "reseek"} => wb < target_size
    /\ pc = "next_read" =>
           /\ buffer[read_bufnum] = [off |-> wb, len |-> Chunk(wb)]
           /\ read_size[read_bufnum] = HiAlign(Chunk(wb), SectorSize)
           /\ Offset = wb + Chunk(wb)
    /\ pc \in {"write", "reseek"} =>
           /\ buffer[proc_bufnum] = [off |-> wb, len |-> Chunk(wb)]
           /\ read_size[proc_bufnum] = HiAlign(Chunk(wb), SectorSize)

\* The file pointer is never before what is written, and never beyond the drive.
PointerInDrive ==
    /\ wb <= position /\ position <= DiskSize
    /\ pc \in Early => wb = 0
    /\ pc \notin {"out", "done"} =>
           wb % SectorSize = 0 /\ wb <= HiAlign(target_size, SectorSize)
    /\ (rewound /\ pc \notin {"reseek", "out", "done"}) => position = wb

\* What is on the drive: the image up to wb, and nothing after the data in hand.
DriveSoFar ==
    /\ ret => pc \in {"out", "done"}
    /\ pc \in Early => \A u \in 0..(DiskSize - 1) : disk[u] = Old
    /\ (rewound /\ pc \notin {"out", "done"}) =>
           \A u \in 0..(DiskSize - 1) :
               /\ (u < wb /\ u < target_size) => disk[u] = u
               /\ u >= wb + InHand => disk[u] = Old
    /\ ImageOnDrive

\* The inductive invariant.
IInv ==
    /\ TypeOK
    /\ TransferAtOffset
    /\ ReadAhead
    /\ BuffersHold
    /\ PointerInDrive
    /\ DriveSoFar

-----------------------------------------------------------------------------
\* Sizes in whole sectors.

\* A number of sectors is a size in whole sectors.
LEMMA SectorMultiple ==
    ASSUME NEW k \in Nat
    PROVE  (k * SectorSize) % SectorSize = 0
  BY SizesAssumption

\* A size in whole sectors is a number of sectors.
LEMMA InSectors ==
    ASSUME NEW a \in Nat, a % SectorSize = 0
    PROVE  \E k \in Nat : a = k * SectorSize
<1> DEFINE k == a \div SectorSize
<1>1. k \in Nat /\ a = k * SectorSize
  BY SizesAssumption
<1>. QED
  BY <1>1

\* Sums and differences of whole sectors are whole sectors.
LEMMA SectorsAdd ==
    ASSUME NEW a \in Nat, NEW b \in Nat,
           a % SectorSize = 0, b % SectorSize = 0
    PROVE  /\ (a + b) % SectorSize = 0
           /\ a >= b => (a - b) % SectorSize = 0
<1>1. PICK i \in Nat : a = i * SectorSize
  BY InSectors
<1>2. PICK j \in Nat : b = j * SectorSize
  BY InSectors
<1>3. a + b = (i + j) * SectorSize /\ i + j \in Nat
  BY <1>1, <1>2, SizesAssumption
<1>4. a - b = (i - j) * SectorSize
  BY <1>1, <1>2, SizesAssumption
<1>5. a >= b => i - j \in Nat
  BY <1>4, SizesAssumption
<1>. QED
  BY <1>3, <1>4, <1>5, SectorMultiple

\* HI_ALIGN_X_TO_Y (rufus.h) rounds up to whole sectors, and to no more of them
\* than are needed.
LEMMA HiAlignRounds ==
    ASSUME NEW x \in Nat
    PROVE  /\ HiAlign(x, SectorSize) \in Nat
           /\ HiAlign(x, SectorSize) >= x
           /\ HiAlign(x, SectorSize) % SectorSize = 0
           /\ \A a \in Nat : (a % SectorSize = 0 /\ a >= x)
                  => HiAlign(x, SectorSize) <= a
<1> DEFINE y == x + SectorSize - 1
           k == y \div SectorSize
<1>1. y \in Nat
  BY SizesAssumption
<1>2. k \in Nat /\ y % SectorSize \in 0..(SectorSize - 1)
      /\ y = k * SectorSize + (y % SectorSize)
  BY <1>1, SizesAssumption
<1>3. HiAlign(x, SectorSize) = k * SectorSize
  BY DEF HiAlign
<1> HIDE DEF k
<1>4. k * SectorSize \in Nat /\ k * SectorSize >= x /\ k * SectorSize <= x + SectorSize - 1
  BY <1>2, SizesAssumption
<1>5. ASSUME NEW a \in Nat, a % SectorSize = 0, a >= x
      PROVE  k * SectorSize <= a
  <2>1. PICK j \in Nat : a = j * SectorSize
    BY <1>5, InSectors
  <2>2. SUFFICES ASSUME k >= j + 1 PROVE FALSE
    BY <1>2, <2>1, SizesAssumption
  <2>3. k * SectorSize >= (j + 1) * SectorSize
    BY <1>2, <2>2, SizesAssumption
  <2>4. (j + 1) * SectorSize = a + SectorSize
    BY <2>1, SizesAssumption
  <2>. QED
    BY <1>4, <1>5, <2>3, <2>4, SizesAssumption
<1>. QED
  BY <1>2, <1>3, <1>4, <1>5, SectorMultiple

-----------------------------------------------------------------------------
\* The sizes that WriteDrive (format.c) works with.

\* target_size is no more than the file holds; one that ends on a sector of the
\* drive is not rounded up.
LEMMA TargetFits ==
    /\ target_size \in Nat /\ target_size <= FileSize
    /\ target_size % SectorSize = 0 => HiAlign(target_size, SectorSize) = target_size
<1>1. target_size \in Nat /\ target_size <= FileSize
  BY FileSizeAssumption, SizesAssumption DEF target_size, Min2
<1>2. ASSUME target_size % SectorSize = 0
      PROVE  HiAlign(target_size, SectorSize) = target_size
  BY <1>1, <1>2, HiAlignRounds
<1>. QED
  BY <1>1, <1>2

\* One pass of the loop, from a sector before target_size: what it takes, and what
\* that is on the drive.
LEMMA ChunkFits ==
    ASSUME NEW w \in Nat, w < target_size, w % SectorSize = 0
    PROVE  /\ Chunk(w) \in 1..buf_size
           /\ w + Chunk(w) <= target_size
           /\ HiAlign(Chunk(w), SectorSize) \in Chunk(w)..buf_size
           /\ (w + HiAlign(Chunk(w), SectorSize)) % SectorSize = 0
           /\ w + HiAlign(Chunk(w), SectorSize) <= HiAlign(target_size, SectorSize)
           /\ w + HiAlign(Chunk(w), SectorSize) <= target_size =>
                  HiAlign(Chunk(w), SectorSize) = Chunk(w)
           /\ w + HiAlign(Chunk(w), SectorSize) >= target_size
                  \/ Chunk(w) = HiAlign(Chunk(w), SectorSize)
           /\ w + HiAlign(Chunk(w), SectorSize) > target_size =>
                  w + Chunk(w) = target_size
<1> DEFINE H(x) == HiAlign(x, SectorSize)
<1>1. target_size \in Nat
  BY TargetFits
<1>2. /\ Chunk(w) \in 1..buf_size /\ w + Chunk(w) <= target_size
      /\ Chunk(w) = buf_size \/ w + Chunk(w) = target_size
  BY <1>1, SizesAssumption DEF Chunk, Min2
<1>3. /\ H(Chunk(w)) \in Nat /\ H(Chunk(w)) >= Chunk(w)
      /\ H(Chunk(w)) % SectorSize = 0
      /\ \A a \in Nat : (a % SectorSize = 0 /\ a >= Chunk(w)) => H(Chunk(w)) <= a
  BY <1>2, HiAlignRounds
<1>4. /\ H(target_size) \in Nat /\ H(target_size) >= target_size
      /\ H(target_size) % SectorSize = 0
  BY <1>1, HiAlignRounds
<1> HIDE DEF H
<1>5. H(Chunk(w)) <= buf_size
  BY <1>2, <1>3, SizesAssumption
<1>6. (H(target_size) - w) \in Nat /\ (H(target_size) - w) % SectorSize = 0
  <2>1. H(target_size) >= w /\ H(target_size) - w \in Nat
    BY <1>1, <1>4
  <2>2. (H(target_size) - w) % SectorSize = 0
    BY <1>4, <2>1, SectorsAdd
  <2>. QED
    BY <2>1, <2>2
<1>7. w + H(Chunk(w)) <= H(target_size)
  BY <1>1, <1>2, <1>3, <1>4, <1>6
<1>8. (w + H(Chunk(w))) % SectorSize = 0
  BY <1>3, SectorsAdd
<1>9. /\ w + H(Chunk(w)) <= target_size => H(Chunk(w)) = Chunk(w)
      /\ w + H(Chunk(w)) >= target_size \/ Chunk(w) = H(Chunk(w))
      /\ w + H(Chunk(w)) > target_size => w + Chunk(w) = target_size
  BY <1>1, <1>2, <1>3, <1>5
<1>. QED
  BY <1>2, <1>3, <1>5, <1>7, <1>8, <1>9 DEF H

\* What the kernel moves (external) fits into the file.
LEMMA TransferBound ==
    ASSUME FdTypeOK, NEW n \in Nat
    PROVE  Transfer(n) \in 0..FileSize /\ Offset + Transfer(n) <= FileSize
           /\ (Offset + n <= FileSize => Transfer(n) = n)
  BY FileSizeAssumption DEF FdTypeOK, Transfer

\* NextSize, in 64-bit unsigned arithmetic: what is left after the data in hand, and
\* never more than a buffer when that is negative.
LEMMA NextSizeFits ==
    ASSUME TypeOK, wb < target_size
    PROVE  /\ NextSize \in 0..buf_size
           /\ wb + read_size[read_bufnum] <= target_size =>
                  NextSize = Chunk(wb + read_size[read_bufnum])
<1> DEFINE w == wb + read_size[read_bufnum]
           d == target_size - w
<1>1. w \in Nat /\ target_size \in Nat /\ target_size <= FileSize /\ d \in Int
  BY TargetFits, SizesAssumption DEF TypeOK
<1>2. WORD \in Nat /\ WORD > 0 /\ target_size < WORD
  BY <1>1, SizesAssumption, FileSizeAssumption
<1>3. d % WORD \in Nat
  BY <1>1, <1>2
<1>4. ASSUME w <= target_size PROVE d % WORD = d
  <2>1. d \in Nat /\ d < WORD
    BY <1>1, <1>2, <1>4
  <2> HIDE DEF d
  <2>. QED
    BY <1>2, <2>1
<1> HIDE DEF d, w
<1>5. NextSize = Min2(buf_size, d % WORD)
  BY DEF NextSize, d, w
<1>6. w <= target_size => Chunk(w) = Min2(buf_size, d)
  BY DEF Chunk, d
<1>. QED
  BY <1>3, <1>4, <1>5, <1>6, SizesAssumption DEF Min2, w

-----------------------------------------------------------------------------
\* The flags among the variables.
Flags ==
    /\ vhd \in BOOLEAN /\ bOffsetUpdated \in BOOLEAN /\ rewound \in BOOLEAN
    /\ mounted \in BOOLEAN /\ ret \in BOOLEAN

\* The flags of WriteDrive (format.c) and of the descriptor (winio.c) stay flags.
LEMMA FlagsStep == TypeOK /\ [Next]_vars => Flags'
<1> SUFFICES ASSUME TypeOK, [Next]_vars PROVE Flags'
  OBVIOUS
<1>1. CASE Rewind
  BY <1>1, Zenon DEF TypeOK, FdTypeOK, Flags, Rewind, fdVars, loopVars, driveVars,
        sourceVars
<1>2. CASE MountSource
  BY <1>2, Zenon DEF TypeOK, FdTypeOK, Flags, MountSource, fdVars, loopVars,
        driveVars, sourceVars
<1>3. CASE OpenSource
  BY <1>3, Zenon DEF TypeOK, FdTypeOK, Flags, OpenSource, CreateFileAsync, fdVars,
        loopVars, driveVars, sourceVars
<1>4. CASE FirstRead
  BY <1>4, Zenon DEF TypeOK, FdTypeOK, Flags, FirstRead, ReadFileAsync, fdVars,
        loopVars, driveVars, sourceVars
<1>5. CASE LoopTest
  BY <1>5, Zenon DEF TypeOK, FdTypeOK, Flags, LoopTest, fdVars, loopVars, driveVars,
        sourceVars
<1>6. CASE WaitRead
  BY <1>6, Zenon DEF TypeOK, FdTypeOK, Flags, WaitRead, GetSizeAsyncTrue, fdVars,
        loopVars, driveVars, sourceVars
<1>7. CASE ReadFails
  BY <1>7, Zenon DEF TypeOK, FdTypeOK, Flags, ReadFails, GetSizeAsyncFalse, fdVars,
        loopVars, driveVars, sourceVars
<1>8. CASE NextRead
  BY <1>8, Zenon DEF TypeOK, FdTypeOK, Flags, NextRead, ReadFileAsync, fdVars,
        loopVars, driveVars, sourceVars
<1>9. CASE Write
  BY <1>9, Zenon DEF TypeOK, FdTypeOK, Flags, Write, fdVars, loopVars, driveVars,
        sourceVars
<1>10. CASE Reseek
  BY <1>10, Zenon DEF TypeOK, FdTypeOK, Flags, Reseek, fdVars, loopVars, driveVars,
        sourceVars
<1>11. CASE CloseSource
  BY <1>11, Zenon DEF TypeOK, FdTypeOK, Flags, CloseSource, CloseFileAsync, fdVars,
        loopVars, driveVars, sourceVars
<1>12. CASE UserCancel
  BY <1>12, Zenon DEF TypeOK, FdTypeOK, Flags, UserCancel, fdVars, loopVars,
        driveVars, sourceVars
<1>13. CASE Kernel
  BY <1>13, Zenon DEF TypeOK, FdTypeOK, Flags, Kernel, KernelComplete, fdVars,
        loopVars, driveVars, sourceVars
<1>14. CASE UNCHANGED vars
  BY <1>14, Zenon DEF TypeOK, FdTypeOK, Flags, vars, fdVars, loopVars, driveVars,
        sourceVars
<1>. QED
  BY <1>1, <1>2, <1>3, <1>4, <1>5, <1>6, <1>7, <1>8, <1>9, <1>10, <1>11, <1>12,
        <1>13, <1>14
  DEF Next, WriteDrive, Finished

\* Nothing changes what WriteDrive was called for, nor what it is to write.
LEMMA SameTarget == [Next]_vars => vhd' = vhd /\ target_size' = target_size
<1> SUFFICES ASSUME [Next]_vars PROVE vhd' = vhd
  BY DEF target_size
<1>. QED
  BY DEF Next, WriteDrive, Finished, Rewind, MountSource, OpenSource, FirstRead,
        LoopTest, WaitRead, ReadFails, NextRead, Write, Reseek, CloseSource, UserCancel,
        Kernel, vars, sourceVars

\* The rewind (format.c) leaves the file pointer at 0, where wb is, or where it was.
LEMMA RewindKeeps == IInv /\ Rewind => IInv'
<1> SUFFICES ASSUME IInv, Rewind PROVE IInv'
  OBVIOUS
<1>0. Flags' /\ vhd' = vhd /\ target_size' = target_size
  BY FlagsStep, SameTarget DEF IInv, Next, WriteDrive
<1>1. TypeOK'
  BY <1>0, FileSizeAssumption, SizesAssumption DEF IInv, TypeOK, FdTypeOK, Flags,
        Errors, Rewind, fdVars, loopVars, driveVars, sourceVars
<1>2. TransferAtOffset'
  BY <1>0 DEF IInv, TransferAtOffset, Transfer, Early, Reading, Rewind, fdVars,
        loopVars, driveVars, sourceVars
<1>3. ReadAhead'
  BY <1>0 DEF IInv, ReadAhead, NeverReadsPastSource, Reading, InHand, Chunk, Rewind,
        fdVars, loopVars, driveVars, sourceVars
<1>4. BuffersHold'
  BY <1>0 DEF IInv, BuffersHold, Chunk, Rewind, fdVars, loopVars, driveVars,
        sourceVars
<1>5. PointerInDrive'
  BY <1>0, SizesAssumption DEF IInv, TypeOK, PointerInDrive, Early, Rewind, fdVars,
        loopVars, sourceVars
<1>6. DriveSoFar'
  <2>1. wb = 0 /\ ~ ret /\ \A u \in 0..(DiskSize - 1) : disk[u] = Old
    BY DEF IInv, PointerInDrive, DriveSoFar, Early, Rewind
  <2>2. pc' \in Early \ {"rewind"} /\ UNCHANGED <<wb, ret, disk>>
    BY DEF Rewind, Early, loopVars
  <2>3. DOMAIN disk = 0..(DiskSize - 1)
    BY DEF IInv, TypeOK
  <2>. QED
    BY <1>0, <2>1, <2>2, <2>3 DEF DriveSoFar, ImageOnDrive, Early
<1>. QED
  BY <1>1, <1>2, <1>3, <1>4, <1>5, <1>6 DEF IInv

\* VhdMountImageAndGetSize (vhd.c) attaches the VHD or not.
LEMMA MountSourceKeeps == IInv /\ MountSource => IInv'
<1> SUFFICES ASSUME IInv, MountSource PROVE IInv'
  OBVIOUS
<1>0. Flags' /\ vhd' = vhd /\ target_size' = target_size
  BY FlagsStep, SameTarget DEF IInv, Next, WriteDrive
<1>1. TypeOK'
  BY <1>0, FileSizeAssumption, SizesAssumption DEF IInv, TypeOK, FdTypeOK, Flags,
        Errors, MountSource, fdVars, loopVars, driveVars, sourceVars
<1>2. TransferAtOffset'
  BY <1>0 DEF IInv, TransferAtOffset, Transfer, Early, Reading, MountSource, fdVars,
        loopVars, driveVars, sourceVars
<1>3. ReadAhead'
  BY <1>0 DEF IInv, ReadAhead, NeverReadsPastSource, Reading, InHand, Chunk,
        MountSource, fdVars, loopVars, driveVars, sourceVars
<1>4. BuffersHold'
  BY <1>0 DEF IInv, BuffersHold, Chunk, MountSource, fdVars, loopVars, driveVars,
        sourceVars
<1>5. PointerInDrive'
  BY <1>0 DEF IInv, PointerInDrive, Early, MountSource, fdVars, loopVars, driveVars,
        sourceVars
<1>6. DriveSoFar'
  BY <1>0 DEF IInv, DriveSoFar, ImageOnDrive, InHand, Early, MountSource, fdVars,
        loopVars, driveVars, sourceVars
<1>. QED
  BY <1>1, <1>2, <1>3, <1>4, <1>5, <1>6 DEF IInv

\* Opening the image and allocating the buffers start no transfer.
LEMMA OpenSourceKeeps == IInv /\ OpenSource => IInv'
<1> SUFFICES ASSUME IInv, OpenSource PROVE IInv'
  OBVIOUS
<1>0. Flags' /\ vhd' = vhd /\ target_size' = target_size
  BY FlagsStep, SameTarget DEF IInv, Next, WriteDrive
<1>1. TypeOK'
  BY <1>0, FileSizeAssumption, SizesAssumption DEF IInv, TypeOK, FdTypeOK, Flags,
        Errors, OpenSource, CreateFileAsync, fdVars, loopVars, driveVars, sourceVars
<1>2. TransferAtOffset'
  BY <1>0 DEF IInv, TransferAtOffset, Transfer, Early, Reading, OpenSource,
        CreateFileAsync, fdVars, loopVars, driveVars, sourceVars
<1>3. ReadAhead'
  BY <1>0 DEF IInv, ReadAhead, NeverReadsPastSource, Reading, InHand, Chunk,
        OpenSource, CreateFileAsync, fdVars, loopVars, driveVars, sourceVars
<1>4. BuffersHold'
  BY <1>0 DEF IInv, BuffersHold, Chunk, OpenSource, CreateFileAsync, fdVars,
        loopVars, driveVars, sourceVars
<1>5. PointerInDrive'
  BY <1>0 DEF IInv, PointerInDrive, Early, OpenSource, CreateFileAsync, fdVars,
        loopVars, driveVars, sourceVars
<1>6. DriveSoFar'
  BY <1>0 DEF IInv, DriveSoFar, ImageOnDrive, InHand, Early, OpenSource,
        CreateFileAsync, fdVars, loopVars, driveVars, sourceVars
<1>. QED
  BY <1>1, <1>2, <1>3, <1>4, <1>5, <1>6 DEF IInv

\* The loop of WriteDrive ends only with all of target_size written.
LEMMA LoopTestKeeps == IInv /\ LoopTest => IInv'
<1> SUFFICES ASSUME IInv, LoopTest PROVE IInv'
  OBVIOUS
<1>0. Flags' /\ vhd' = vhd /\ target_size' = target_size
  BY FlagsStep, SameTarget DEF IInv, Next, WriteDrive
<1>1. TypeOK'
  BY <1>0, FileSizeAssumption, SizesAssumption DEF IInv, TypeOK, FdTypeOK, Flags,
        Errors, LoopTest, fdVars, loopVars, driveVars, sourceVars
<1>2. TransferAtOffset'
  BY <1>0 DEF IInv, TransferAtOffset, Transfer, Early, Reading, LoopTest, fdVars,
        loopVars, driveVars, sourceVars
<1>3. ReadAhead'
  BY <1>0 DEF IInv, ReadAhead, NeverReadsPastSource, Reading, InHand, Chunk, LoopTest,
        fdVars, loopVars, driveVars, sourceVars
<1>4. BuffersHold'
  BY <1>0 DEF IInv, BuffersHold, Chunk, LoopTest, fdVars, loopVars, driveVars,
        sourceVars
<1>5. PointerInDrive'
  BY <1>0 DEF IInv, PointerInDrive, Early, LoopTest, fdVars, loopVars, driveVars,
        sourceVars
<1>6. DriveSoFar'
  <2> SUFFICES ASSUME rewound PROVE DriveSoFar'
    BY DEF IInv, DriveSoFar, ImageOnDrive, Early, LoopTest, driveVars
  <2>1. /\ wb <= HiAlign(target_size, SectorSize) /\ wb <= DiskSize
        /\ read_size[proc_bufnum] # 0
        /\ wb \in Nat /\ target_size \in Nat /\ DiskSize \in Nat
        /\ HiAlign(target_size, SectorSize) \in Nat
    BY TargetFits, HiAlignRounds, SizesAssumption DEF IInv, TypeOK, PointerInDrive,
          BuffersHold, LoopTest
  <2>2. \A u \in 0..(DiskSize - 1) : /\ (u < wb /\ u < target_size) => disk[u] = u
                                     /\ u >= wb => disk[u] = Old
    BY <2>1 DEF IInv, DriveSoFar, InHand, LoopTest
  <2>3. CASE wb >= target_size /\ ret' = TRUE /\ pc' = "out"
    BY <1>0, <2>1, <2>2, <2>3 DEF IInv, DriveSoFar, ImageOnDrive, Early, LoopTest,
          loopVars, driveVars
  <2>4. CASE pc' = "wait_read" /\ UNCHANGED ret
    BY <1>0, <2>1, <2>2, <2>4 DEF IInv, DriveSoFar, ImageOnDrive, InHand, Early, LoopTest,
          loopVars, driveVars
  <2>. QED
    BY <2>1, <2>3, <2>4 DEF LoopTest
<1>. QED
  BY <1>1, <1>2, <1>3, <1>4, <1>5, <1>6 DEF IInv

\* A read that fails or does not end in time leaves through out.
LEMMA ReadFailsKeeps == IInv /\ ReadFails => IInv'
<1> SUFFICES ASSUME IInv, ReadFails PROVE IInv'
  OBVIOUS
<1>0. Flags' /\ vhd' = vhd /\ target_size' = target_size
  BY FlagsStep, SameTarget DEF IInv, Next, WriteDrive
<1>1. TypeOK'
  BY <1>0, FileSizeAssumption, SizesAssumption DEF IInv, TypeOK, FdTypeOK, Flags,
        Errors, ReadFails, GetSizeAsyncFalse, fdVars, loopVars, driveVars,
        sourceVars
<1>2. TransferAtOffset'
  BY <1>0 DEF IInv, TransferAtOffset, Transfer, Early, Reading, ReadFails,
        GetSizeAsyncFalse, fdVars, loopVars, driveVars, sourceVars
<1>3. ReadAhead'
  BY <1>0 DEF IInv, ReadAhead, NeverReadsPastSource, Reading, InHand, Chunk, ReadFails,
        GetSizeAsyncFalse, fdVars, loopVars, driveVars, sourceVars
<1>4. BuffersHold'
  BY <1>0 DEF IInv, BuffersHold, Chunk, ReadFails, GetSizeAsyncFalse, fdVars,
        loopVars, driveVars, sourceVars
<1>5. PointerInDrive'
  BY <1>0 DEF IInv, PointerInDrive, Early, ReadFails, GetSizeAsyncFalse, fdVars,
        loopVars, driveVars, sourceVars
<1>6. DriveSoFar'
  BY <1>0 DEF IInv, DriveSoFar, ImageOnDrive, InHand, Early, ReadFails,
        GetSizeAsyncFalse, fdVars, loopVars, driveVars, sourceVars
<1>. QED
  BY <1>1, <1>2, <1>3, <1>4, <1>5, <1>6 DEF IInv

\* out: closes the image, and its transfer with it (format.c).
LEMMA CloseSourceKeeps == IInv /\ CloseSource => IInv'
<1> SUFFICES ASSUME IInv, CloseSource PROVE IInv'
  OBVIOUS
<1>0. Flags' /\ vhd' = vhd /\ target_size' = target_size
  BY FlagsStep, SameTarget DEF IInv, Next, WriteDrive
<1>1. TypeOK'
  <2>1. AnyBuf \in Bufs
    BY BufsAssumption DEF AnyBuf, NUM_BUFFERS
  <2>2. NoOp \in Ops
    BY <2>1, FileSizeAssumption DEF NoOp, Ops, OpStates
  <2>. QED
    BY <1>0, <2>2, FileSizeAssumption DEF IInv, TypeOK, FdTypeOK, Flags, Errors,
          CloseSource, CloseFileAsync, loopVars, driveVars
<1>2. TransferAtOffset'
  BY <1>0 DEF IInv, TransferAtOffset, Early, Reading, CloseSource, CloseFileAsync,
        NoOp
<1>3. ReadAhead'
  BY <1>0 DEF IInv, ReadAhead, NeverReadsPastSource, Reading, CloseSource,
        CloseFileAsync, NoOp
<1>4. BuffersHold'
  BY <1>0 DEF IInv, BuffersHold, Chunk, CloseSource, CloseFileAsync, fdVars,
        loopVars, driveVars, sourceVars
<1>5. PointerInDrive'
  BY <1>0 DEF IInv, PointerInDrive, Early, CloseSource, CloseFileAsync, fdVars,
        loopVars, driveVars, sourceVars
<1>6. DriveSoFar'
  BY <1>0 DEF IInv, DriveSoFar, ImageOnDrive, InHand, Early, CloseSource,
        CloseFileAsync, fdVars, loopVars, driveVars, sourceVars
<1>. QED
  BY <1>1, <1>2, <1>3, <1>4, <1>5, <1>6 DEF IInv

\* The user's cancellation only sets ErrorStatus.
LEMMA UserCancelKeeps == IInv /\ UserCancel => IInv'
<1> SUFFICES ASSUME IInv, UserCancel PROVE IInv'
  OBVIOUS
<1>0. Flags' /\ vhd' = vhd /\ target_size' = target_size
  BY FlagsStep, SameTarget DEF IInv, Next, WriteDrive
<1>1. TypeOK'
  BY <1>0, FileSizeAssumption, SizesAssumption DEF IInv, TypeOK, FdTypeOK, Flags,
        Errors, UserCancel, fdVars, loopVars, driveVars, sourceVars
<1>2. TransferAtOffset'
  BY <1>0 DEF IInv, TransferAtOffset, Transfer, Early, Reading, UserCancel, fdVars,
        loopVars, driveVars, sourceVars
<1>3. ReadAhead'
  BY <1>0 DEF IInv, ReadAhead, NeverReadsPastSource, Reading, InHand, Chunk,
        UserCancel, fdVars, loopVars, driveVars, sourceVars
<1>4. BuffersHold'
  BY <1>0 DEF IInv, BuffersHold, Chunk, UserCancel, fdVars, loopVars, driveVars,
        sourceVars
<1>5. PointerInDrive'
  BY <1>0 DEF IInv, PointerInDrive, Early, UserCancel, fdVars, loopVars, driveVars,
        sourceVars
<1>6. DriveSoFar'
  BY <1>0 DEF IInv, DriveSoFar, ImageOnDrive, InHand, Early, UserCancel, fdVars,
        loopVars, driveVars, sourceVars
<1>. QED
  BY <1>1, <1>2, <1>3, <1>4, <1>5, <1>6 DEF IInv

\* After a failed attempt the file pointer goes back to wb, or WriteDrive gives up.
LEMMA ReseekKeeps == IInv /\ Reseek => IInv'
<1> SUFFICES ASSUME IInv, Reseek PROVE IInv'
  OBVIOUS
<1>0. Flags' /\ vhd' = vhd /\ target_size' = target_size
  BY FlagsStep, SameTarget DEF IInv, Next, WriteDrive
<1>1. TypeOK'
  BY <1>0, FileSizeAssumption, SizesAssumption DEF IInv, TypeOK, FdTypeOK, Flags,
        Errors, Reseek, fdVars, loopVars, driveVars, sourceVars
<1>2. TransferAtOffset'
  BY <1>0 DEF IInv, TransferAtOffset, Transfer, Early, Reading, Reseek, fdVars,
        loopVars, driveVars, sourceVars
<1>3. ReadAhead'
  BY <1>0 DEF IInv, ReadAhead, NeverReadsPastSource, Reading, InHand, Chunk, Reseek,
        fdVars, loopVars, driveVars, sourceVars
<1>4. BuffersHold'
  BY <1>0 DEF IInv, BuffersHold, Chunk, Reseek, fdVars, loopVars, driveVars,
        sourceVars
<1>5. PointerInDrive'
  BY <1>0, SizesAssumption DEF IInv, TypeOK, PointerInDrive, Early, Reseek
<1>6. DriveSoFar'
  BY <1>0 DEF IInv, DriveSoFar, ImageOnDrive, InHand, Early, Reseek, fdVars,
        loopVars, driveVars, sourceVars
<1>. QED
  BY <1>1, <1>2, <1>3, <1>4, <1>5, <1>6 DEF IInv

\* What a ReadFile() of winio.c leaves: the transfer it was asked for, at the present
\* offset, and the other buffers as they were.
LEMMA ReadFileAsyncEffect ==
    ASSUME TypeOK, Flags', NEW b \in Bufs, NEW n \in Nat, ReadFileAsync(b, n)
    PROVE  /\ FdTypeOK'
           /\ op'.buf = b /\ op'.want = n /\ ~ bOffsetUpdated' /\ Offset' = Offset
           /\ op'.st # "complete" => op'.len = 0
           /\ op'.st \in {"complete", "eof"} => op'.len = Transfer(n)
           /\ op'.st = "complete" => buffer'[b] = [off |-> Offset, len |-> op'.len]
           /\ \A c \in Bufs : c # b => buffer'[c] = buffer[c]
<1> DEFINE m == Transfer(n)
<1>1. m \in 0..FileSize /\ Offset \in 0..FileSize /\ 0 \in 0..FileSize
  BY TransferBound, FileSizeAssumption DEF TypeOK, FdTypeOK
<1>2. [off |-> Offset, len |-> m] \in Fragments /\ Torn \in Fragments
  BY <1>1 DEF Fragments, Torn
<1>3. buffer \in [Bufs -> Fragments] /\ hFile \in {"none", "open"}
  BY DEF TypeOK, FdTypeOK
<1>4. bOffsetUpdated' \in BOOLEAN /\ ~ bOffsetUpdated' /\ Offset' = Offset /\ hFile' = hFile
  BY Zenon DEF Flags, ReadFileAsync
<1> HIDE DEF m
<1>5. CASE /\ iStatus' = 1
           /\ op' = [st |-> "complete", buf |-> b, want |-> n, len |-> m]
           /\ buffer' = [buffer EXCEPT ![b] = [off |-> Offset, len |-> m]]
  BY <1>1, <1>2, <1>3, <1>4, <1>5 DEF FdTypeOK, Ops, OpStates, m
<1>6. CASE /\ iStatus' = -1
           /\ op' = [st |-> "pending", buf |-> b, want |-> n, len |-> 0]
           /\ buffer' = [buffer EXCEPT ![b] = Torn]
  BY <1>1, <1>2, <1>3, <1>4, <1>6 DEF FdTypeOK, Ops, OpStates
<1>7. CASE /\ iStatus' = 0
           /\ op' = [st |-> "none", buf |-> b, want |-> n, len |-> 0]
           /\ UNCHANGED buffer
  BY <1>1, <1>3, <1>4, <1>7 DEF FdTypeOK, Ops, OpStates
<1>. QED
  BY <1>5, <1>6, <1>7 DEF ReadFileAsync, m

\* The first read asks for the first part of the image.
LEMMA FirstReadKeeps == IInv /\ FirstRead => IInv'
<1> SUFFICES ASSUME IInv, FirstRead PROVE IInv'
  OBVIOUS
<1>0. Flags' /\ vhd' = vhd /\ target_size' = target_size
  BY FlagsStep, SameTarget DEF IInv, Next, WriteDrive
<1> DEFINE n == Min2(buf_size, target_size)
<1>1. /\ wb = 0 /\ wb' = 0 /\ pc = "first_read" /\ pc' = "loop" /\ Offset = 0
      /\ UNCHANGED <<read_bufnum, proc_bufnum, driveVars, ret>>
      /\ ReadFileAsync(read_bufnum, n)
  BY DEF FirstRead, Early, IInv, PointerInDrive, TransferAtOffset
<1>2. /\ n \in Nat /\ n = Chunk(0) /\ n <= target_size
      /\ target_size \in Nat /\ target_size <= FileSize
  BY TargetFits, SizesAssumption DEF Chunk, Min2
<1> HIDE DEF n
<1>3. /\ FdTypeOK'
      /\ op'.buf = read_bufnum /\ op'.want = n /\ ~ bOffsetUpdated' /\ Offset' = Offset
      /\ op'.st # "complete" => op'.len = 0
      /\ op'.st \in {"complete", "eof"} => op'.len = Transfer(n)
      /\ op'.st = "complete" => buffer'[read_bufnum] = [off |-> Offset, len |-> op'.len]
  BY <1>0, <1>1, <1>2, ReadFileAsyncEffect DEF IInv, TypeOK
<1>4. TypeOK'
  <2>1. read_size' \in [Bufs -> 0..buf_size]
    BY SizesAssumption DEF IInv, TypeOK, FirstRead
  <2>. QED
    BY <1>0, <1>1, <1>3, <2>1, SizesAssumption DEF IInv, TypeOK, Flags, FirstRead,
          driveVars, sourceVars
<1>5. TransferAtOffset'
  BY <1>1, <1>3 DEF TransferAtOffset, Transfer, Early, Reading
<1>6. ReadAhead'
  BY <1>0, <1>1, <1>2, <1>3 DEF ReadAhead, NeverReadsPastSource, Reading, InHand, Chunk
<1>7. BuffersHold'
  BY <1>0, <1>1 DEF IInv, TypeOK, BuffersHold, FirstRead
<1>8. PointerInDrive'
  BY <1>0, <1>1 DEF IInv, PointerInDrive, Early, driveVars
<1>9. DriveSoFar'
  BY <1>0, <1>1 DEF IInv, DriveSoFar, ImageOnDrive, InHand, Early, driveVars
<1>. QED
  BY <1>4, <1>5, <1>6, <1>7, <1>8, <1>9 DEF IInv

\* The read gave exactly the part of the image it was asked for.
LEMMA WaitReadKeeps == IInv /\ WaitRead => IInv'
<1> SUFFICES ASSUME IInv, WaitRead PROVE IInv'
  OBVIOUS
<1>0. Flags' /\ vhd' = vhd /\ target_size' = target_size
  BY FlagsStep, SameTarget DEF IInv, Next, WriteDrive
<1>1. /\ pc = "wait_read" /\ pc' = "next_read" /\ wb < target_size /\ wb \in Nat
      /\ wb % SectorSize = 0
      /\ UNCHANGED <<read_bufnum, proc_bufnum, wb, tries, driveVars, ret, op, buffer>>
  BY SizesAssumption DEF WaitRead, GetSizeAsyncTrue, IInv, TypeOK, BuffersHold,
        PointerInDrive
<1>2. /\ Chunk(wb) \in 1..buf_size /\ wb + Chunk(wb) <= target_size
      /\ HiAlign(Chunk(wb), SectorSize) \in Chunk(wb)..buf_size
  BY <1>1, ChunkFits
<1>3. /\ Offset = wb /\ op.want = Chunk(wb) /\ op.buf = read_bufnum /\ ~ bOffsetUpdated
  BY <1>1, TargetFits DEF IInv, ReadAhead, Reading, InHand, TransferAtOffset
<1>4. Transfer(op.want) = Chunk(wb)
  BY <1>1, <1>2, <1>3, TransferBound, TargetFits, FileSizeAssumption, SizesAssumption
     DEF IInv, TypeOK
<1>5. op.st = "complete" /\ op.len = Chunk(wb)
  BY <1>2, <1>3, <1>4, SizesAssumption DEF WaitRead, GetSizeAsyncTrue, IInv,
        TransferAtOffset
<1>6. /\ Offset' = wb + Chunk(wb)
      /\ read_size' = [read_size EXCEPT ![read_bufnum] = HiAlign(Chunk(wb), SectorSize)]
  BY <1>3, <1>5 DEF WaitRead, GetSizeAsyncTrue
<1>7. TypeOK'
  <2>1. Offset' \in 0..FileSize
    BY <1>1, <1>2, <1>6, TargetFits, FileSizeAssumption, SizesAssumption
  <2>2. read_size' \in [Bufs -> 0..buf_size]
    BY <1>2, <1>6, SizesAssumption DEF IInv, TypeOK
  <2>. QED
    BY <1>0, <1>1, <2>1, <2>2 DEF IInv, TypeOK, FdTypeOK, Flags, WaitRead,
          GetSizeAsyncTrue, driveVars, sourceVars
<1>8. TransferAtOffset' /\ ReadAhead'
  <2>1. bOffsetUpdated'
    BY DEF WaitRead, GetSizeAsyncTrue
  <2>. QED
    BY <1>1, <1>5, <2>1 DEF TransferAtOffset, ReadAhead, NeverReadsPastSource, Early, Reading
<1>9. BuffersHold'
  <2>1. Chunk(wb)' = Chunk(wb)
    BY <1>0, <1>1 DEF Chunk
  <2>2. buffer[read_bufnum] = [off |-> wb, len |-> Chunk(wb)]
    BY <1>3, <1>5 DEF IInv, TransferAtOffset
  <2>3. read_size'[read_bufnum] = HiAlign(Chunk(wb), SectorSize)
    BY <1>6 DEF IInv, TypeOK
  <2>. QED
    BY <1>0, <1>1, <1>6, <2>1, <2>2, <2>3 DEF IInv, BuffersHold
<1>10. PointerInDrive'
  BY <1>0, <1>1 DEF IInv, PointerInDrive, Early, driveVars
<1>11. DriveSoFar'
  BY <1>0, <1>1 DEF IInv, DriveSoFar, ImageOnDrive, InHand, Early, driveVars
<1>. QED
  BY <1>7, <1>8, <1>9, <1>10, <1>11 DEF IInv

\* The next read goes to the other buffer, and asks for what follows the data in
\* hand, or for nothing that matters once that is the end of the image.
LEMMA NextReadKeeps == IInv /\ NextRead => IInv'
<1> SUFFICES ASSUME IInv, NextRead PROVE IInv'
  OBVIOUS
<1>0. Flags' /\ vhd' = vhd /\ target_size' = target_size
  BY FlagsStep, SameTarget DEF IInv, Next, WriteDrive
<1> DEFINE c == Chunk(wb)
           s == read_size[read_bufnum]
<1>1. /\ pc = "next_read" /\ pc' = "write" /\ wb < target_size /\ wb \in Nat
      /\ wb % SectorSize = 0 /\ read_size[read_bufnum] = HiAlign(Chunk(wb), SectorSize)
      /\ Offset = wb + Chunk(wb)
      /\ buffer[read_bufnum] = [off |-> wb, len |-> Chunk(wb)]
      /\ UNCHANGED <<read_size, wb, driveVars, ret>>
  BY SizesAssumption DEF NextRead, IInv, TypeOK, BuffersHold, PointerInDrive
<1>2. /\ proc_bufnum' = read_bufnum /\ read_bufnum' \in Bufs
      /\ read_bufnum' # read_bufnum /\ read_bufnum \in Bufs
  BY BufsAssumption DEF NextRead, NUM_BUFFERS, IInv, TypeOK
<1>3. /\ c \in 1..buf_size /\ wb + c <= target_size /\ s \in c..buf_size
      /\ wb + s <= HiAlign(target_size, SectorSize)
      /\ wb + s <= target_size => s = c
      /\ wb + s > target_size => wb + c = target_size
  BY <1>1, ChunkFits
<1>4. NextSize \in Nat /\ (wb + s <= target_size => NextSize = Chunk(wb + s))
  BY <1>1, NextSizeFits, SizesAssumption DEF IInv
<1>5. ReadFileAsync(read_bufnum', NextSize)
  BY DEF NextRead
<1>6. /\ FdTypeOK'
      /\ op'.buf = read_bufnum' /\ op'.want = NextSize /\ ~ bOffsetUpdated'
      /\ Offset' = Offset
      /\ op'.st # "complete" => op'.len = 0
      /\ op'.st \in {"complete", "eof"} => op'.len = Transfer(NextSize)
      /\ op'.st = "complete" =>
             buffer'[read_bufnum'] = [off |-> Offset, len |-> op'.len]
      /\ \A b \in Bufs : b # read_bufnum' => buffer'[b] = buffer[b]
  BY <1>0, <1>2, <1>4, <1>5, ReadFileAsyncEffect DEF IInv
<1> HIDE DEF c, s
<1>7. TypeOK'
  BY <1>0, <1>1, <1>2, <1>6, SizesAssumption DEF IInv, TypeOK, Flags, NextRead,
        driveVars, sourceVars
<1>8. TransferAtOffset'
  BY <1>1, <1>6 DEF TransferAtOffset, Transfer, Early, Reading
<1>9. InHand' = s
  BY <1>1, <1>2 DEF InHand, s
<1>10. ReadAhead'
  <2>1. wb + s <= target_size => Offset' = wb + s /\ op'.want = Chunk(wb + s)
    BY <1>1, <1>3, <1>4, <1>6 DEF c
  <2>2. wb + s > target_size =>
            Offset' = target_size /\ target_size % SectorSize # 0
    BY <1>1, <1>3, <1>6, TargetFits DEF c
  <2>3. wb + s <= target_size => wb + s + Chunk(wb + s) <= target_size
    BY <1>1, <1>3, TargetFits, SizesAssumption DEF Chunk, Min2
  <2>4. wb + s <= target_size \/ wb + s > target_size
    BY <1>1, <1>3, TargetFits, SizesAssumption
  <2>5. NeverReadsPastSource'
    BY <1>0, <1>6, <2>1, <2>2, <2>3, <2>4 DEF NeverReadsPastSource
  <2>. QED
    BY <1>0, <1>1, <1>9, <2>1, <2>5 DEF ReadAhead, Chunk
<1>11. BuffersHold'
  <2>1. Chunk(wb)' = Chunk(wb)
    BY <1>0, <1>1 DEF Chunk
  <2>. QED
    BY <1>0, <1>1, <1>2, <1>6, <2>1 DEF BuffersHold
<1>12. PointerInDrive'
  BY <1>0, <1>1 DEF IInv, PointerInDrive, Early, driveVars
<1>13. DriveSoFar'
  BY <1>0, <1>1, <1>3, <1>9, SizesAssumption DEF IInv, DriveSoFar, ImageOnDrive, InHand,
        Early, driveVars
<1>. QED
  BY <1>7, <1>8, <1>10, <1>11, <1>12, <1>13 DEF IInv

\* A read that ends fills only the buffer it was started for, which is not the one
\* being written.
LEMMA KernelKeeps == IInv /\ Kernel => IInv'
<1> SUFFICES ASSUME IInv, Kernel PROVE IInv'
  OBVIOUS
<1>0. Flags' /\ vhd' = vhd /\ target_size' = target_size
  BY FlagsStep, SameTarget DEF IInv, Next
<1> DEFINE n == Transfer(op.want)
<1>1. /\ op.st = "pending" /\ op \in Ops /\ op.len = 0
      /\ UNCHANGED <<hFile, iStatus, bOffsetUpdated, Offset, pc, loopVars, driveVars,
                     ErrorStatus, ret>>
      /\ buffer \in [Bufs -> Fragments]
  BY DEF Kernel, KernelComplete, IInv, TypeOK, FdTypeOK, TransferAtOffset
<1>2. n \in 0..FileSize /\ Offset \in 0..FileSize
  BY <1>1, TransferBound DEF IInv, TypeOK, FdTypeOK, Ops
<1>3. /\ op'.buf = op.buf /\ op'.want = op.want /\ op' \in Ops
      /\ op'.st \in {"complete", "eof", "error"}
      /\ op'.st # "complete" => op'.len = 0
      /\ op'.st \in {"complete", "eof"} => op'.len = n
      /\ op'.st = "complete" => buffer'[op.buf] = [off |-> Offset, len |-> n]
      /\ buffer' \in [Bufs -> Fragments]
      /\ \A b \in Bufs : b # op.buf => buffer'[b] = buffer[b]
  <2>1. [off |-> Offset, len |-> n] \in Fragments
    BY <1>2 DEF Fragments
  <2> HIDE DEF n
  <2>2. CASE /\ op' = [op EXCEPT !.st = "complete", !.len = n]
             /\ buffer' = [buffer EXCEPT ![op.buf] = [off |-> Offset, len |-> n]]
    BY <1>1, <1>2, <2>1, <2>2 DEF Ops, OpStates
  <2>3. CASE n = 0 /\ op' = [op EXCEPT !.st = "eof"] /\ UNCHANGED buffer
    BY <1>1, <1>2, <2>3 DEF Ops, OpStates
  <2>4. CASE op' = [op EXCEPT !.st = "error"] /\ UNCHANGED buffer
    BY <1>1, <1>2, <2>4 DEF Ops, OpStates
  <2>. QED
    BY <2>2, <2>3, <2>4 DEF Kernel, KernelComplete, n
<1>4. n' = n
  BY <1>1, <1>3 DEF Transfer
<1> HIDE DEF n
<1>5. TypeOK'
  BY <1>0, <1>1, <1>3 DEF IInv, TypeOK, FdTypeOK, Flags, loopVars, driveVars
<1>6. TransferAtOffset'
  BY <1>1, <1>3, <1>4 DEF IInv, TransferAtOffset, Early, Reading, loopVars, n
<1>7. ReadAhead'
  BY <1>0, <1>1, <1>3 DEF IInv, ReadAhead, NeverReadsPastSource, Reading, InHand, Chunk,
        loopVars
<1>8. BuffersHold'
  <2>1. Chunk(wb)' = Chunk(wb)
    BY <1>0, <1>1 DEF Chunk, loopVars
  <2>2. pc # "next_read" /\ (pc \in {"write", "reseek"} => op.buf = read_bufnum)
    BY <1>1 DEF IInv, TransferAtOffset, Reading
  <2>3. pc \in {"write", "reseek"} => buffer'[proc_bufnum] = buffer[proc_bufnum]
    BY <1>3, <2>2 DEF IInv, TypeOK, BuffersHold
  <2>. QED
    BY <1>0, <1>1, <2>1, <2>2, <2>3 DEF IInv, BuffersHold, loopVars
<1>9. PointerInDrive'
  BY <1>0, <1>1 DEF IInv, PointerInDrive, Early, loopVars, driveVars
<1>10. DriveSoFar'
  BY <1>0, <1>1 DEF IInv, DriveSoFar, ImageOnDrive, InHand, Early, loopVars, driveVars
<1>. QED
  BY <1>5, <1>6, <1>7, <1>8, <1>9, <1>10 DEF IInv

\* What is on the drive after n units of the buffer in hand are written at the file
\* pointer: what was there before it, and, of what follows, the image.
LEMMA WrittenEffect ==
    ASSUME IInv, pc = "write",
           NEW n \in 0..read_size[proc_bufnum], position + n <= DiskSize
    PROVE  /\ Written(n) \in [0..(DiskSize - 1) -> {Old, Padding} \cup 0..(FileSize - 1)]
           /\ rewound => \A u \in 0..(DiskSize - 1) :
                  /\ (u < wb + n /\ u < target_size) => Written(n)[u] = u
                  /\ u >= wb + read_size[proc_bufnum] => Written(n)[u] = Old
<1> DEFINE s == read_size[proc_bufnum]
<1>1. /\ wb \in Nat /\ wb < target_size /\ wb % SectorSize = 0
      /\ s = HiAlign(Chunk(wb), SectorSize)
      /\ buffer[proc_bufnum] = [off |-> wb, len |-> Chunk(wb)]
      /\ position \in Nat /\ DOMAIN disk = 0..(DiskSize - 1) /\ InHand = s
      /\ rewound => position = wb
      /\ disk \in [0..(DiskSize - 1) -> {Old, Padding} \cup 0..(FileSize - 1)]
  BY SizesAssumption DEF IInv, TypeOK, BuffersHold, PointerInDrive, InHand
<1>2. /\ Chunk(wb) \in 1..buf_size /\ wb + Chunk(wb) <= target_size
      /\ s \in Nat
      /\ wb + s <= target_size => s = Chunk(wb)
      /\ wb + s > target_size => wb + Chunk(wb) = target_size
  BY <1>1, ChunkFits, SizesAssumption
<1>3. target_size \in Nat /\ target_size <= FileSize /\ DiskSize \in Nat
  BY TargetFits, SizesAssumption
<1> HIDE DEF s
<1>4. n \in Nat /\ n <= s
  BY <1>2 DEF s
<1>5. ASSUME NEW u \in 0..(DiskSize - 1)
      PROVE  Written(n)[u] = IF u - position \in 0..(n - 1)
                             THEN IF u - position < Chunk(wb) THEN wb + (u - position)
                                  ELSE Padding
                             ELSE disk[u]
  BY <1>1 DEF Written
<1>6. ASSUME NEW u \in 0..(DiskSize - 1)
      PROVE  Written(n)[u] \in {Old, Padding} \cup 0..(FileSize - 1)
  BY <1>1, <1>2, <1>3, <1>4, <1>5, FileSizeAssumption
<1>7. Written(n) \in [0..(DiskSize - 1) -> {Old, Padding} \cup 0..(FileSize - 1)]
  BY <1>1, <1>6 DEF Written
<1>8. ASSUME rewound, NEW u \in 0..(DiskSize - 1)
      PROVE  /\ (u < wb + n /\ u < target_size) => Written(n)[u] = u
             /\ u >= wb + s => Written(n)[u] = Old
  <2>1. /\ (u < wb /\ u < target_size) => disk[u] = u
        /\ u >= wb + s => disk[u] = Old
    BY <1>1, <1>8 DEF IInv, DriveSoFar
  <2>. QED
    BY <1>1, <1>2, <1>3, <1>4, <1>5, <1>8, <2>1
<1>. QED
  BY <1>7, <1>8 DEF s

\* Each attempt at a write, complete, short or failed, leaves the image on the drive
\* up to wb, and nothing after the data in hand.
LEMMA WriteKeeps == IInv /\ Write => IInv'
<1> SUFFICES ASSUME IInv, Write PROVE IInv'
  OBVIOUS
<1>0. Flags' /\ vhd' = vhd /\ target_size' = target_size
  BY FlagsStep, SameTarget DEF IInv, Next, WriteDrive
<1> DEFINE s == read_size[proc_bufnum]
<1>1. /\ pc = "write" /\ wb \in Nat /\ wb < target_size /\ wb % SectorSize = 0
      /\ s = HiAlign(Chunk(wb), SectorSize) /\ InHand = s
      /\ position \in Nat /\ wb <= position /\ position <= DiskSize
      /\ rewound => position = wb
      /\ UNCHANGED <<fdVars, read_bufnum, proc_bufnum, read_size, tries, rewound,
                     ErrorStatus, ret>>
  BY SizesAssumption DEF Write, IInv, TypeOK, BuffersHold, PointerInDrive, InHand
<1>2. /\ s \in 1..buf_size /\ wb + s <= HiAlign(target_size, SectorSize)
      /\ (wb + s) % SectorSize = 0
  BY <1>1, ChunkFits, SizesAssumption
<1>3. target_size \in Nat /\ DiskSize \in Nat /\ HiAlign(target_size, SectorSize) \in Nat
  BY TargetFits, HiAlignRounds, SizesAssumption
<1>4. DOMAIN disk = 0..(DiskSize - 1)
  BY DEF IInv, TypeOK
<1>5. CASE Cancelled /\ pc' = "out" /\ UNCHANGED <<position, disk, wb>>
  <2>1. TypeOK'
    BY <1>0, <1>1, <1>5 DEF IInv, TypeOK, FdTypeOK, Flags, fdVars
  <2>2. TransferAtOffset' /\ ReadAhead' /\ BuffersHold' /\ PointerInDrive'
    BY <1>0, <1>1, <1>5 DEF IInv, TransferAtOffset, Transfer, ReadAhead,
          NeverReadsPastSource, BuffersHold, PointerInDrive, Early, Reading, fdVars
  <2>3. DriveSoFar'
    BY <1>0, <1>1, <1>5 DEF IInv, DriveSoFar, ImageOnDrive, Early
  <2>. QED
    BY <2>1, <2>2, <2>3 DEF IInv
<1>6. CASE /\ position + s <= DiskSize /\ disk' = Written(s)
           /\ position' = position + s /\ wb' = wb + s /\ pc' = "loop"
  <2>1. /\ disk' \in [0..(DiskSize - 1) -> {Old, Padding} \cup 0..(FileSize - 1)]
        /\ rewound => \A u \in 0..(DiskSize - 1) :
               /\ (u < wb + s /\ u < target_size) => disk'[u] = u
               /\ u >= wb + s => disk'[u] = Old
    BY <1>1, <1>2, <1>6, WrittenEffect
  <2>2. TypeOK'
    <3>1. wb' \in 0..(DiskSize + buf_size) /\ position' \in 0..(DiskSize + buf_size)
      BY <1>1, <1>2, <1>3, <1>6, SizesAssumption
    <3>. QED
      BY <1>0, <1>1, <1>6, <2>1, <3>1 DEF IInv, TypeOK, FdTypeOK, Flags, fdVars
  <2>3. InHand' = 0
    BY <1>6 DEF InHand
  <2>4. TransferAtOffset'
    BY <1>0, <1>1, <1>6 DEF IInv, TransferAtOffset, Transfer, Early, Reading, fdVars
  <2>5. ReadAhead'
    <3>1. wb' + InHand' = wb + InHand
      BY <1>1, <1>2, <1>6, <2>3
    <3>2. Chunk(wb + InHand)' = Chunk(wb + InHand)
      BY <1>0, <3>1 DEF Chunk
    <3>. QED
      BY <1>0, <1>1, <1>6, <3>1, <3>2 DEF IInv, ReadAhead, NeverReadsPastSource, Reading,
            fdVars
  <2>6. BuffersHold'
    BY <1>0, <1>1, <1>2, <1>6 DEF IInv, BuffersHold
  <2>7. PointerInDrive'
    BY <1>0, <1>1, <1>2, <1>3, <1>6 DEF IInv, PointerInDrive, Early
  <2>8. DriveSoFar'
    <3>1. ~ ret'
      BY <1>1 DEF IInv, DriveSoFar
    <3>. QED
      BY <1>0, <1>1, <1>2, <1>3, <1>4, <1>6, <2>1, <2>3, <3>1 DEF DriveSoFar,
            ImageOnDrive, Early
  <2>. QED
    BY <2>2, <2>4, <2>5, <2>6, <2>7, <2>8 DEF IInv
<1>7. CASE /\ \E n \in 0..s : /\ position + n <= DiskSize
                              /\ disk' = Written(n) /\ position' = position + n
           /\ pc' = "reseek" /\ UNCHANGED wb
  <2>0. PICK n \in 0..s : /\ position + n <= DiskSize
                          /\ disk' = Written(n) /\ position' = position + n
    BY <1>7
  <2>1. /\ disk' \in [0..(DiskSize - 1) -> {Old, Padding} \cup 0..(FileSize - 1)]
        /\ rewound => \A u \in 0..(DiskSize - 1) :
               /\ (u < wb + n /\ u < target_size) => disk'[u] = u
               /\ u >= wb + s => disk'[u] = Old
    BY <1>1, <2>0, WrittenEffect
  <2>2. n \in Nat
    BY <1>2
  <2>3. TypeOK'
    <3>1. wb' \in 0..(DiskSize + buf_size) /\ position' \in 0..(DiskSize + buf_size)
      BY <1>1, <1>3, <1>7, <2>0, <2>2, SizesAssumption
    <3>. QED
      BY <1>0, <1>1, <1>7, <2>1, <3>1 DEF IInv, TypeOK, FdTypeOK, Flags, fdVars
  <2>4. InHand' = InHand
    BY <1>1, <1>7 DEF InHand
  <2>5. TransferAtOffset'
    BY <1>0, <1>1, <1>7 DEF IInv, TransferAtOffset, Transfer, Early, Reading, fdVars
  <2>6. ReadAhead'
    BY <1>0, <1>1, <1>7, <2>4 DEF IInv, ReadAhead, NeverReadsPastSource, Reading, Chunk,
          fdVars
  <2>7. BuffersHold'
    BY <1>0, <1>1, <1>7 DEF IInv, BuffersHold, Chunk, fdVars
  <2>8. PointerInDrive'
    BY <1>0, <1>1, <1>3, <1>7, <2>0, <2>2 DEF IInv, PointerInDrive, Early
  <2>9. DriveSoFar'
    <3>1. ~ ret'
      BY <1>1 DEF IInv, DriveSoFar
    <3>. QED
      BY <1>0, <1>1, <1>2, <1>3, <1>4, <1>7, <2>1, <2>2, <2>4, <3>1 DEF DriveSoFar,
            ImageOnDrive, Early
  <2>. QED
    BY <2>3, <2>5, <2>6, <2>7, <2>8, <2>9 DEF IInv
<1>. QED
  BY <1>5, <1>6, <1>7 DEF Write

-----------------------------------------------------------------------------
\* WriteDrive starts with nothing read and nothing written.
LEMMA InitIInv == Init => IInv
<1> SUFFICES ASSUME Init PROVE IInv
  OBVIOUS
<1>1. Flags
  BY Zenon DEF Init, FdInit, Flags
<1>2. Bufs = {0, 1}
  BY BufsAssumption DEF NUM_BUFFERS
<1>3. NoOp \in Ops
  BY <1>2, FileSizeAssumption DEF NoOp, Ops, OpStates, AnyBuf
<1>4. TypeOK
  <2>1. FdTypeOK
    BY <1>1, <1>3, FileSizeAssumption DEF Init, FdInit, FdTypeOK, Flags, Fragments
  <2>2. position \in 0..(DiskSize + buf_size)
    BY SizesAssumption DEF Init
  <2>. QED
    BY <1>1, <1>2, <2>1, <2>2, SizesAssumption DEF Init, TypeOK, Flags, Errors
<1>5. TransferAtOffset /\ ReadAhead
  BY DEF Init, FdInit, NoOp, TransferAtOffset, ReadAhead, NeverReadsPastSource, Early, Reading
<1>6. BuffersHold
  BY DEF Init, BuffersHold
<1>7. PointerInDrive
  <2>1. 0 % SectorSize = 0
    BY SizesAssumption
  <2>2. HiAlign(target_size, SectorSize) >= 0
    BY TargetFits, HiAlignRounds
  <2>. QED
    BY <2>1, <2>2, SizesAssumption DEF Init, PointerInDrive
<1>8. DriveSoFar
  BY DEF Init, DriveSoFar, ImageOnDrive
<1>. QED
  BY <1>4, <1>5, <1>6, <1>7, <1>8 DEF IInv

\* The invariant of WriteDrive holds whatever the kernel, the drive and the user do.
THEOREM Invariance == Spec => []IInv
<1>1. Init => IInv
  BY InitIInv
<1>2. IInv /\ [Next]_vars => IInv'
  <2> SUFFICES ASSUME IInv, [Next]_vars PROVE IInv'
    OBVIOUS
  <2>1. CASE UNCHANGED vars
    BY <2>1 DEF vars, fdVars, sourceVars, loopVars, driveVars, IInv, TypeOK, FdTypeOK,
          TransferAtOffset, ReadAhead, BuffersHold, PointerInDrive, DriveSoFar,
          ImageOnDrive, NeverReadsPastSource, InHand, Chunk, Transfer, target_size
  <2>. QED
    BY <2>1, RewindKeeps, MountSourceKeeps, OpenSourceKeeps, FirstReadKeeps,
          LoopTestKeeps, WaitReadKeeps, ReadFailsKeeps, NextReadKeeps, WriteKeeps,
          ReseekKeeps, CloseSourceKeeps, UserCancelKeeps, KernelKeeps
       DEF Next, WriteDrive, Finished
<1>. QED
  BY <1>1, <1>2, PTL DEF Spec

\* The state of WriteDrive always has its type: in particular what is read, rounded
\* up to a sector, fits the buffer, and the file pointer and wb stay on the drive.
THEOREM TypeCorrect == Spec => []TypeOK
<1>1. IInv => TypeOK
  BY DEF IInv
<1>. QED
  BY <1>1, Invariance, PTL

\* An image that WriteDrive counts as written is on the drive unit for unit, and
\* nothing is written beyond its last sector.
THEOREM ImageIsOnDrive == Spec => []ImageOnDrive
<1>1. IInv => ImageOnDrive
  BY DEF IInv, DriveSoFar
<1>. QED
  BY <1>1, Invariance, PTL

\* No read of WriteDrive can be filling the buffer that is being written.
THEOREM BuffersNeverCross == Spec => []NoReadIntoWrittenBuffer
<1>1. IInv => NoReadIntoWrittenBuffer
  BY DEF IInv, TransferAtOffset, BuffersHold, Reading, NoReadIntoWrittenBuffer
<1>. QED
  BY <1>1, Invariance, PTL

\* WriteDrive reads no source past target_size ("It is VERY IMPORTANT here that we
\* don't attempt to read past the source or target sizes", format.c), but for the
\* read that is started at its very end when it does not end on a sector of the drive.
THEOREM ReadsWithinSource == Spec => []NeverReadsPastSource
<1>1. IInv => NeverReadsPastSource
  BY DEF IInv, ReadAhead
<1>. QED
  BY <1>1, Invariance, PTL
=============================================================================
