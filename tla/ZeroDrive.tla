------------------------------ MODULE ZeroDrive ------------------------------
(***************************************************************************)
(* format.c: WriteDrive(hPhysicalDrive, TRUE). The drive is cleared block  *)
(* by block. In fast mode a block is read first and left alone when all    *)
(* its bits are equal already; a block that has to be written is followed  *)
(* by THROTTLE writes without a read.                                      *)
(*                                                                         *)
(* Sizes are in sectors. A sector holds "zeros", "ones" (erased flash) or  *)
(* "data" (anything else).                                                 *)
(***************************************************************************)
EXTENDS WriteDriveState, Integers

CONSTANTS
    DiskSize,         \* sectors of the drive
    buf_size,         \* sectors of a block, DD_BUFFER_SIZE in the code
    THROTTLE,         \* 15 in the code
    WRITE_RETRIES

ASSUME ZeroAssumption ==
    /\ DiskSize \in Nat \ {0} /\ buf_size \in Nat \ {0}
    /\ THROTTLE \in Nat /\ WRITE_RETRIES \in Nat \ {0}

VARIABLES
    fast_zeroing,  \* a setting, which does not change while the thread runs
    wb,            \* sectors done
    position,      \* of the file pointer
    throttle,      \* throttle_fast_zeroing
    tries,         \* of the write in hand
    disk,
    rewound        \* whether the initial rewind succeeded

zero_vars == <<fast_zeroing, pc, wb, position, throttle, tries, disk, rewound,
          ErrorStatus, ret>>

Sectors == 0..(DiskSize - 1)
Contents == {"zeros", "ones", "data"}
Fill == IF fast_zeroing THEN "ones" ELSE "zeros"

\* The state of the loop and of the drive has its type.
ZeroTypeOK ==
    /\ fast_zeroing \in BOOLEAN
    /\ pc \in {"start", "loop", "compare", "write", "reseek", "done"}
    /\ wb \in 0..DiskSize /\ position \in 0..DiskSize
    /\ throttle \in 0..THROTTLE
    /\ tries \in 1..WRITE_RETRIES
    /\ disk \in [Sectors -> Contents]
    /\ rewound \in BOOLEAN /\ ret \in BOOLEAN
    /\ ErrorStatus \in {"none", "cancelled", "no_memory", "write_fault"}

\* The file pointer was left anywhere by what was done to the drive before.
ZeroInit ==
    /\ fast_zeroing \in BOOLEAN
    /\ pc = "start" /\ wb = 0 /\ throttle = 0 /\ tries = 1
    /\ position \in 0..DiskSize
    /\ disk \in [Sectors -> Contents]
    /\ rewound = FALSE /\ ErrorStatus = "none" /\ ret = FALSE

\* read_size[0], which does not go past the end of the drive.
read_size == IF wb + buf_size > DiskSize THEN DiskSize - wb ELSE buf_size

\* The sectors that a transfer of n of them at the file pointer touches.
At(n) == position..(position + n - 1)

\* Compared with its first word, which must be all zeros or all ones.
BlockIsEmpty == \E c \in {"zeros", "ones"} : \A s \in At(read_size) : disk[s] = c

-----------------------------------------------------------------------------
\* The rewind, whose failure is only a warning, and the buffers.
Start ==
    /\ pc = "start"
    /\ \/ position' = 0 /\ rewound' = TRUE
       \/ UNCHANGED <<position, rewound>>
    /\ \/ pc' = "loop" /\ UNCHANGED ErrorStatus
       \/ pc' = "done" /\ ErrorStatus' = "no_memory"
    /\ UNCHANGED <<fast_zeroing, wb, throttle, tries, disk, ret>>

\* The next block: read it first, or write it at once while throttled.
LoopTest ==
    /\ pc = "loop"
    /\ tries' = 1
    /\ \/ /\ wb >= DiskSize
          /\ pc' = "done" /\ ret' = TRUE
          /\ UNCHANGED throttle
       \/ /\ wb < DiskSize
          /\ IF throttle > 0
             THEN throttle' = throttle - 1 /\ pc' = "write"
             ELSE UNCHANGED throttle
                  /\ pc' = IF fast_zeroing THEN "compare" ELSE "write"
          /\ UNCHANGED ret
    /\ UNCHANGED <<fast_zeroing, wb, position, disk, rewound, ErrorStatus>>

\* The block was read, and is empty.
SkipBlock ==
    /\ position + read_size <= DiskSize
    /\ BlockIsEmpty
    /\ position' = position + read_size
    /\ wb' = wb + read_size
    /\ pc' = "loop"
    /\ UNCHANGED throttle

\* The block was read and must be written: the file pointer goes back.
KeepBlock ==
    /\ position + read_size <= DiskSize
    /\ ~ BlockIsEmpty
    /\ position' = wb
    /\ throttle' = THROTTLE
    /\ pc' = "write"
    /\ UNCHANGED wb

\* The read, or the seek after it, failed: no error is recorded.
CompareFails ==
    /\ position' \in position..(position + read_size) \cap 0..DiskSize
    /\ pc' = "done"
    /\ UNCHANGED <<wb, throttle>>

Compare ==
    /\ pc = "compare"
    /\ \/ Cancelled /\ pc' = "done" /\ UNCHANGED <<wb, position, throttle>>
       \/ ~ Cancelled /\ (SkipBlock \/ KeepBlock \/ CompareFails)
    /\ UNCHANGED <<fast_zeroing, tries, disk, rewound, ErrorStatus, ret>>

Written(n) == [s \in Sectors |-> IF s \in At(n) THEN Fill ELSE disk[s]]

\* Mutant: the size that WriteFile reports is not looked at.
WriteUnchecked ==
    /\ pc = "write"
    /\ \/ Cancelled /\ pc' = "done" /\ UNCHANGED <<wb, position, disk>>
       \/ /\ ~ Cancelled
          /\ \E n \in 0..read_size :
                 /\ position + n <= DiskSize
                 /\ disk' = Written(n)
                 /\ position' = position + n
          /\ wb' = wb + read_size
          /\ pc' = "loop"
    /\ UNCHANGED <<fast_zeroing, throttle, tries, rewound, ErrorStatus, ret>>

\* Write the block: all of it, or fewer sectors, or nothing.
Write ==
    /\ pc = "write"
    /\ \/ /\ Cancelled
          /\ pc' = "done"
          /\ UNCHANGED <<wb, position, disk>>
       \/ /\ ~ Cancelled
          /\ \E n \in 0..read_size :
                 /\ position + n <= DiskSize
                 /\ disk' = Written(n)
                 /\ position' = position + n
                 /\ \/ n = read_size /\ wb' = wb + n /\ pc' = "loop"
                    \/ n < read_size /\ UNCHANGED wb /\ pc' = "reseek"
    /\ UNCHANGED <<fast_zeroing, throttle, tries, rewound, ErrorStatus, ret>>

\* Mutant: the attempts are not counted.
ReseekForever ==
    /\ pc = "reseek"
    /\ position' = wb
    /\ pc' = "write"
    /\ UNCHANGED <<fast_zeroing, tries, ErrorStatus, wb, throttle, disk, rewound,
                   ret>>

\* After a failed attempt: back to where the block goes and try again, or give
\* up after WRITE_RETRIES of them, or when the file pointer cannot be set.
Reseek ==
    /\ pc = "reseek"
    /\ \/ /\ tries < WRITE_RETRIES
          /\ position' = wb /\ tries' = tries + 1 /\ pc' = "write"
          /\ UNCHANGED ErrorStatus
       \/ /\ tries < WRITE_RETRIES
          /\ pc' = "done"
          /\ UNCHANGED <<position, tries, ErrorStatus>>
       \/ /\ tries = WRITE_RETRIES
          /\ ErrorStatus' = "write_fault" /\ pc' = "done"
          /\ UNCHANGED <<position, tries>>
    /\ UNCHANGED <<fast_zeroing, wb, throttle, disk, rewound, ret>>

\* IDCANCEL, at any time while the thread runs.
ZeroUserCancel ==
    /\ pc # "done"
    /\ ErrorStatus' = "cancelled"
    /\ UNCHANGED <<fast_zeroing, pc, wb, position, throttle, tries, disk, rewound,
                   ret>>

ZeroFinished == pc = "done" /\ UNCHANGED zero_vars

WriteDrive == Start \/ LoopTest \/ Compare \/ Write \/ Reseek

ZeroNext == WriteDrive \/ ZeroUserCancel \/ ZeroFinished

\* The format thread is scheduled; none of its calls here waits for ever.
ZeroSpec == ZeroInit /\ [][ZeroNext]_zero_vars /\ WF_zero_vars(WriteDrive)

-----------------------------------------------------------------------------
\* A drive that counts as cleared holds no data, whatever was on it, whatever
\* was skipped and whatever had to be retried; and a drive zeroed the normal way
\* holds nothing but zeros.
ClearedOnSuccess ==
    (ret /\ rewound) =>
        \A s \in Sectors :
            disk[s] \in IF fast_zeroing THEN {"zeros", "ones"} ELSE {"zeros"}

\* Zeroing ends, whatever the drive and the user do.
ZeroingEnds == <>(pc = "done")
=============================================================================
