----------------------------- MODULE WriteImage -----------------------------
(***************************************************************************)
(* format.c: WriteDrive(hPhysicalDrive, FALSE) for an image that needs no  *)
(* decompression. The next part of the image is read asynchronously into   *)
(* one buffer while the other is written to the drive, with retries.       *)
(*                                                                         *)
(* A unit of data is the number of the unit of the image it is a copy of.  *)
(* The sizes are 64-bit unsigned in the code: WORD stands for 2^64.        *)
(***************************************************************************)
EXTENDS WinAsyncFile

CONSTANTS
    SectorSize,      \* of the drive
    buf_size,        \* DD_BUFFER_SIZE, rounded up to a multiple of SectorSize
    DiskSize,        \* of the drive
    image_size,      \* of the image file, as scanned before
    WRITE_RETRIES,
    WORD

NUM_BUFFERS == 2
Min2(a, b) == IF a <= b THEN a ELSE b

\* HI_ALIGN_X_TO_Y
HiAlign(x, y) == ((x + y - 1) \div y) * y

ASSUME SizesAssumption ==
    /\ SectorSize \in Nat \ {0} /\ DiskSize \in Nat /\ image_size \in Nat
    /\ buf_size \in Nat \ {0} /\ buf_size % SectorSize = 0
    /\ DiskSize % SectorSize = 0
    /\ image_size <= FileSize       \* the file may have grown since
    /\ WORD \in Nat /\ WORD > 2 * (DiskSize + FileSize + buf_size)
    /\ WRITE_RETRIES \in Nat \ {0}
ASSUME BufsAssumption == Bufs = 0..(NUM_BUFFERS - 1)

VARIABLES
    vhd,           \* the source is a VHD, mounted to be read
    pc,
    read_bufnum, proc_bufnum, read_size,
    wb,            \* how much has been written
    tries,         \* of the write in hand
    position,      \* of the file pointer of the physical drive
    rewound,       \* whether the initial rewind succeeded
    mounted,       \* the VHD is attached (vhd.c's mounted_handle)
    disk,          \* the content of the drive
    ErrorStatus,
    ret

\* A mounted VHD tells its own size.
target_size == IF vhd THEN FileSize ELSE Min2(DiskSize, image_size)

driveVars == <<position, rewound, disk>>
loopVars == <<read_bufnum, proc_bufnum, read_size, wb, tries>>
sourceVars == <<vhd, mounted>>
vars == <<fdVars, sourceVars, pc, loopVars, driveVars, ErrorStatus, ret>>

Old == -1        \* a unit of the drive that was not written to
Padding == -2    \* what is in a buffer after the data that was read

Errors == {"none", "cancelled", "open_failed", "no_memory", "read_fault",
           "write_fault"}

\* The state of the buffers, the loop and the drive has its type.
TypeOK ==
    /\ FdTypeOK
    /\ vhd \in BOOLEAN
    /\ pc \in {"rewind", "mount", "open", "first_read", "loop", "wait_read",
               "next_read", "write", "reseek", "out", "done"}
    /\ read_bufnum \in Bufs /\ proc_bufnum \in Bufs
    /\ read_size \in [Bufs -> 0..buf_size]
    /\ wb \in 0..(DiskSize + buf_size)
    /\ tries \in 1..WRITE_RETRIES
    /\ position \in 0..(DiskSize + buf_size)
    /\ rewound \in BOOLEAN /\ mounted \in BOOLEAN
    /\ disk \in [0..(DiskSize - 1) -> {Old, Padding} \cup 0..(FileSize - 1)]
    /\ ErrorStatus \in Errors
    /\ ret \in BOOLEAN

\* The file pointer was left anywhere by what was done to the drive before.
Init ==
    /\ FdInit
    /\ vhd \in BOOLEAN
    /\ pc = "rewind"
    /\ read_bufnum = 0 /\ proc_bufnum = 1
    /\ read_size = [b \in Bufs |-> 0]
    /\ wb = 0 /\ tries = 1
    /\ position \in {p \in 0..DiskSize : p % SectorSize = 0}
    /\ rewound = FALSE /\ mounted = FALSE
    /\ disk = [u \in 0..(DiskSize - 1) |-> Old]
    /\ ErrorStatus = "none"
    /\ ret = FALSE

\* CHECK_FOR_USER_CANCEL
Cancelled == ErrorStatus = "cancelled"

-----------------------------------------------------------------------------
\* A failure to rewind is only a warning.
Rewind ==
    /\ pc = "rewind"
    /\ \/ position' = 0 /\ rewound' = TRUE
       \/ UNCHANGED <<position, rewound>>
    /\ pc' = IF vhd THEN "mount" ELSE "open"
    /\ UNCHANGED <<fdVars, loopVars, disk, sourceVars, ErrorStatus, ret>>

\* VhdMountImageAndGetSize: opening, attaching or sizing the virtual disk can
\* fail, which detaches it again and records no error.
MountSource ==
    /\ pc = "mount"
    /\ \/ mounted' = TRUE /\ pc' = "open"
       \/ mounted' = FALSE /\ pc' = "out"
    /\ UNCHANGED <<fdVars, vhd, loopVars, driveVars, ErrorStatus, ret>>

\* Opening the image and allocating the buffers, and the failures of each.
OpenSource ==
    /\ pc = "open"
    /\ \/ CreateFileAsync /\ pc' = "first_read" /\ UNCHANGED ErrorStatus
       \/ /\ ErrorStatus' \in {"open_failed", "no_memory"}
          /\ pc' = "out"
          /\ UNCHANGED fdVars
    /\ UNCHANGED <<loopVars, driveVars, sourceVars, ret>>

FirstRead ==
    /\ pc = "first_read"
    /\ ReadFileAsync(read_bufnum, Min2(buf_size, target_size))
    /\ read_size' = [read_size EXCEPT ![proc_bufnum] = 1]
    /\ wb' = 0
    /\ pc' = "loop"
    /\ UNCHANGED <<read_bufnum, proc_bufnum, tries, driveVars, sourceVars,
                   ErrorStatus, ret>>

\* Mutant: the loop stops one sector early.
LoopTestEarly ==
    /\ pc = "loop"
    /\ \/ /\ read_size[proc_bufnum] = 0 \/ wb + SectorSize >= target_size
          /\ ret' = TRUE
          /\ pc' = "out"
       \/ /\ read_size[proc_bufnum] # 0 /\ wb + SectorSize < target_size
          /\ pc' = "wait_read"
          /\ UNCHANGED ret
    /\ UNCHANGED <<fdVars, loopVars, driveVars, sourceVars, ErrorStatus>>

\* The loop ends when a read gave nothing or all of target_size is written:
\* the layout is refreshed and the image counts as written.
LoopTest ==
    /\ pc = "loop"
    /\ \/ /\ read_size[proc_bufnum] = 0 \/ wb >= target_size
          /\ ret' = TRUE
          /\ pc' = "out"
       \/ /\ read_size[proc_bufnum] # 0 /\ wb < target_size
          /\ pc' = "wait_read"
          /\ UNCHANGED ret
    /\ UNCHANGED <<fdVars, loopVars, driveVars, sourceVars, ErrorStatus>>

\* 1 and 2: wait for the read, take its size and round it up to the sector.
WaitRead ==
    /\ pc = "wait_read"
    /\ WaitFileAsyncTrue
    /\ \E n \in 0..FileSize :
           /\ GetSizeAsyncTrue(n)
           /\ read_size' =
                  [read_size EXCEPT ![read_bufnum] = HiAlign(n, SectorSize)]
    /\ pc' = "next_read"
    /\ UNCHANGED <<read_bufnum, proc_bufnum, wb, tries, driveVars, sourceVars,
                   ErrorStatus, ret>>

ReadFails ==
    /\ pc = "wait_read"
    /\ \/ WaitFileAsyncTrue /\ GetSizeAsyncFalse
       \/ WaitFileAsyncFalse /\ UNCHANGED fdVars
    /\ ErrorStatus' = "read_fault"
    /\ pc' = "out"
    /\ UNCHANGED <<loopVars, driveVars, sourceVars, ret>>

\* Mutant: the data in hand is not accounted for.
NextSizeForgetsHand == Min2(buf_size, (target_size - wb) % WORD)

\* How much the next read asks for: what is left of target_size after the data
\* in hand, in unsigned arithmetic, and at most a buffer.
NextSize ==
    Min2(buf_size, (target_size - (wb + read_size[read_bufnum])) % WORD)

\* Mutant: the next read goes to the buffer that is about to be written.
NextReadSameBuffer ==
    /\ pc = "next_read"
    /\ proc_bufnum' = read_bufnum
    /\ read_bufnum' = (read_bufnum + 1) % NUM_BUFFERS
    /\ ReadFileAsync(read_bufnum, NextSize)
    /\ tries' = 1
    /\ pc' = "write"
    /\ UNCHANGED <<read_size, wb, driveVars, sourceVars, ErrorStatus, ret>>

\* Mutant: the index of the buffer does not wrap.
NextReadUnwrapped ==
    /\ pc = "next_read"
    /\ proc_bufnum' = read_bufnum
    /\ read_bufnum' = read_bufnum + 1
    /\ ReadFileAsync(read_bufnum', NextSize)
    /\ tries' = 1
    /\ pc' = "write"
    /\ UNCHANGED <<read_size, wb, driveVars, sourceVars, ErrorStatus, ret>>

\* 3: the buffer just read is the one to write, the other one is read into.
NextRead ==
    /\ pc = "next_read"
    /\ proc_bufnum' = read_bufnum
    /\ read_bufnum' = (read_bufnum + 1) % NUM_BUFFERS
    /\ ReadFileAsync(read_bufnum', NextSize)
    /\ tries' = 1
    /\ pc' = "write"
    /\ UNCHANGED <<read_size, wb, driveVars, sourceVars, ErrorStatus, ret>>

\* The drive after n units of the buffer to write went to the file pointer.
Written(n) ==
    [u \in DOMAIN disk |->
        LET k == u - position
            data == buffer[proc_bufnum]
        IN  IF k \in 0..(n - 1)
            THEN IF k < data.len THEN data.off + k ELSE Padding
            ELSE disk[u]]

\* 4: write the buffer. Cancelling is looked at before every attempt; an
\* attempt writes all, or only some sectors of it, or fails.
Write ==
    /\ pc = "write"
    /\ \/ /\ Cancelled
          /\ pc' = "out"
          /\ UNCHANGED <<position, disk, wb>>
       \/ /\ ~ Cancelled
          /\ position + read_size[proc_bufnum] <= DiskSize
          /\ disk' = Written(read_size[proc_bufnum])
          /\ position' = position + read_size[proc_bufnum]
          /\ wb' = wb + read_size[proc_bufnum]
          /\ pc' = "loop"
       \/ /\ ~ Cancelled
          /\ \E n \in 0..read_size[proc_bufnum] :
                 /\ n % SectorSize = 0 /\ position + n <= DiskSize
                 /\ n = 0 \/ n < read_size[proc_bufnum]
                 /\ disk' = Written(n)
                 /\ position' = position + n
          /\ pc' = "reseek"
          /\ UNCHANGED wb
    /\ UNCHANGED <<fdVars, read_bufnum, proc_bufnum, read_size, tries, rewound,
                   sourceVars, ErrorStatus, ret>>

\* Mutant: the attempts are not counted.
ReseekForever ==
    /\ pc = "reseek"
    /\ position' = wb
    /\ pc' = "write"
    /\ UNCHANGED <<fdVars, loopVars, rewound, disk, sourceVars, ErrorStatus, ret>>

\* After a failed attempt: back to where the buffer goes and try again, give up
\* after WRITE_RETRIES of them, or when the file pointer cannot be set.
Reseek ==
    /\ pc = "reseek"
    /\ \/ /\ tries < WRITE_RETRIES
          /\ position' = wb
          /\ tries' = tries + 1
          /\ pc' = "write"
          /\ UNCHANGED ErrorStatus
       \/ /\ tries < WRITE_RETRIES
          /\ pc' = "out"
          /\ UNCHANGED <<position, tries, ErrorStatus>>
       \/ /\ tries = WRITE_RETRIES
          /\ ErrorStatus' = "write_fault"
          /\ pc' = "out"
          /\ UNCHANGED <<position, tries>>
    /\ UNCHANGED <<fdVars, read_bufnum, proc_bufnum, read_size, wb, rewound,
                   disk, sourceVars, ret>>

\* out: the source is closed, and the VHD detached.
CloseSource ==
    /\ pc = "out"
    /\ CloseFileAsync
    /\ mounted' = FALSE
    /\ pc' = "done"
    /\ UNCHANGED <<vhd, loopVars, driveVars, ErrorStatus, ret>>

WriteDrive ==
    \/ Rewind \/ MountSource \/ OpenSource \/ FirstRead \/ LoopTest
    \/ WaitRead \/ ReadFails \/ NextRead \/ Write \/ Reseek \/ CloseSource

-----------------------------------------------------------------------------
UserCancel ==
    /\ pc # "done"
    /\ ErrorStatus' = "cancelled"
    /\ UNCHANGED <<fdVars, pc, loopVars, driveVars, sourceVars, ret>>

Kernel ==
    /\ KernelComplete
    /\ UNCHANGED <<pc, loopVars, driveVars, sourceVars, ErrorStatus, ret>>

Finished == pc = "done" /\ UNCHANGED vars

Next == WriteDrive \/ UserCancel \/ Kernel \/ Finished

\* The format thread is scheduled; the waits have timeouts, so nothing is asked
\* of the kernel.
Spec == Init /\ [][Next]_vars /\ WF_vars(WriteDrive)

-----------------------------------------------------------------------------
\* Whatever was retried, cut short or cancelled before, an image that counts as
\* written is on the drive unit for unit, up to the size of the drive; and nothing
\* is ever written beyond it, but to complete its last sector.
ImageOnDrive ==
    rewound =>
        /\ ret => \A u \in 0..(target_size - 1) : disk[u] = u
        /\ \A u \in DOMAIN disk :
               u >= HiAlign(target_size, SectorSize) => disk[u] = Old

\* The two buffers never cross: the one being written to the drive is not the
\* one a read may be filling.
NoReadIntoWrittenBuffer ==
    pc \in {"write", "reseek"} =>
        ~ (op.st = "pending" /\ op.buf = proc_bufnum)

\* WriteDrive ends, whatever the drive, the image and the user do.
WriteDriveEnds == <>(pc = "done")

\* "It is VERY IMPORTANT here that we don't attempt to read past the source or
\* target sizes, as mounted VHDs will SCREW YOU if you attempt to do so": no read
\* goes past target_size. The one exception is the read ahead that is started when
\* all of a source that does not end on a sector of the drive is in hand: rounding
\* that up to the sector makes what is left negative, the unsigned difference wraps,
\* and a whole buffer is asked for at the very end of the source.
NeverReadsPastSource ==
    (op.st \in {"pending", "complete", "eof"} /\ ~ bOffsetUpdated) =>
        \/ Offset + op.want <= target_size
        \/ Offset = target_size /\ target_size % SectorSize # 0
=============================================================================
