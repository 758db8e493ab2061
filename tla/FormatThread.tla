---------------------------- MODULE FormatThread ----------------------------
(***************************************************************************)
(* format.c: FormatThread, the thread behind the Start button. It takes    *)
(* and gives up the handles of the drive and of its volume, deletes what   *)
(* is on the drive, writes an image or partitions, formats, makes bootable *)
(* and fills it, and leaves through out: on every failure.                 *)
(*                                                                         *)
(* What a step writes is abstracted to its name in done_steps. The steps   *)
(* that other modules detail (WriteDrive, BadBlocks...) are their          *)
(* outcomes here. ErrorStatus is shared with the user interface.           *)
(***************************************************************************)
EXTENDS Integers, FiniteSets

CONSTANTS
    MaxRetry,    \* how often the user asks for another bad blocks check
    WRITE_RETRIES

ASSUME FormatAssumption ==
    MaxRetry \in Nat /\ WRITE_RETRIES \in Nat \ {0}

VARIABLES
    job,               \* what the user asked for
    pc,
    hPhysicalDrive,    \* "none", "read" or "rw"
    hLogicalVolume,    \* "none", "null" or "open"
    physical,          \* handles of the drive that Windows holds for us
    logical,           \* handles of its volume
    actual_lock_drive,
    need_logical,
    alt_mounted,       \* AltMountVolume() has given the volume a letter
    dirty,             \* what a bad blocks check left on the drive
    done_steps,
    tries,             \* of FormatEx, or of the bad blocks check
    ErrorStatus,
    cancel             \* history: "no", or what the user's cancellation met

handleVars == <<hPhysicalDrive, hLogicalVolume, physical, logical>>
vars == <<job, pc, handleVars, actual_lock_drive, need_logical, alt_mounted,
          dirty, done_steps, tries, ErrorStatus, cancel>>

\* boot: what makes the drive bootable. alt: an ESP or a fixed ext volume, which
\* must be mounted by hand. mbr: WriteMBR and WriteSBR are called for.
Jobs == [mode : {"zero", "image", "ffu"}, boot : {"none"}, lock : BOOLEAN,
         must_unlock : {FALSE}, alt : {FALSE}, bad_blocks : BOOLEAN,
         persistence : {FALSE}, mbr : {FALSE}]
     \cup
        {j \in [mode : {"files"}, boot : {"none", "uefi", "syslinux", "pbr"},
                lock : BOOLEAN, must_unlock : BOOLEAN, alt : BOOLEAN,
                bad_blocks : BOOLEAN, persistence : BOOLEAN, mbr : BOOLEAN] :
            /\ j.boot # "none" => j.mbr
            /\ j.persistence => ~ j.lock /\ j.boot # "none"
            /\ j.alt => ~ j.lock}

\* What must have happened to the drive for the job to be complete.
Required(j) ==
    CASE j.mode = "zero" -> {"zero"}
      [] j.mode \in {"image", "ffu"} -> {"image"}
      [] j.mode = "files" ->
             {"partition", "format"}
             \cup (IF j.persistence THEN {"persistence"} ELSE {})
             \cup (IF j.mbr THEN {"mbr"} ELSE {})
             \cup (IF j.boot = "syslinux" THEN {"syslinux"} ELSE {})
             \cup (IF j.boot = "pbr" THEN {"pbr"} ELSE {})
             \cup (IF j.boot # "none" THEN {"files"} ELSE {})

PCs == {"open", "letters", "delete", "reopen", "logical", "begin", "clear",
    "bad_blocks", "bb_clear", "image", "partition", "wait_volume",
    "persistence", "format", "get_back", "mbr", "mount", "boot", "remount",
    "files", "zip", "out", "done"}

\* The state of the thread, its handles and the drive has its type.
TypeOK ==
    /\ job \in Jobs /\ pc \in PCs
    /\ hPhysicalDrive \in {"none", "read", "rw"}
    /\ hLogicalVolume \in {"none", "null", "open"}
    /\ physical \in 0..1 /\ logical \in 0..1
    /\ actual_lock_drive \in BOOLEAN /\ need_logical \in BOOLEAN
    /\ alt_mounted \in BOOLEAN /\ dirty \in BOOLEAN
    /\ done_steps \subseteq {"zero", "image", "clear", "partition", "persistence",
                             "format", "mbr", "syslinux", "pbr", "files",
                             "unreported"}
    /\ tries \in 0..(MaxRetry + WRITE_RETRIES)
    /\ ErrorStatus \in {"none", "cancelled", "error"}
    /\ cancel \in {"no", "asked", "lost"}

\* ErrorStatus is not cleared between the boot check and this thread: a download of
\* the check may have left an error in it, or the user a cancellation.
Init ==
    /\ job \in Jobs
    /\ pc = "open"
    /\ hPhysicalDrive = "none" /\ hLogicalVolume = "none"
    /\ physical = 0 /\ logical = 0
    /\ actual_lock_drive = job.lock /\ need_logical = FALSE
    /\ alt_mounted = FALSE /\ dirty = FALSE
    /\ done_steps = {} /\ tries = 0
    /\ \/ ErrorStatus \in {"none", "error"} /\ cancel = "no"
       \/ ErrorStatus = "cancelled" /\ cancel = "asked"

-----------------------------------------------------------------------------
IsError == ErrorStatus # "none"

\* CHECK_FOR_USER_CANCEL, then the next step.
CheckedGoto(next) == pc' = IF ErrorStatus = "cancelled" THEN "out" ELSE next

\* goto out with an ErrorStatus, or with the one that is set already.
FailWith == ErrorStatus' = "error" /\ pc' = "out"
FailIfNone == ErrorStatus' = (IF IsError THEN ErrorStatus ELSE "error") /\ pc' = "out"

\* safe_unlockclose(hPhysicalDrive)
ClosePhysical ==
    /\ hPhysicalDrive' = "none"
    /\ physical' = IF hPhysicalDrive = "none" THEN physical ELSE physical - 1

\* safe_unlockclose(hLogicalVolume): a NULL handle stays.
CloseLogical ==
    /\ hLogicalVolume' = IF hLogicalVolume = "open" THEN "none" ELSE hLogicalVolume
    /\ logical' = IF hLogicalVolume = "open" THEN logical - 1 ELSE logical

\* GetPhysicalHandle(): waits for access and, if asked, for the lock. It fails
\* when it gets neither in time, or when the user cancels the wait.
GetPhysicalHandle(access, next) ==
    /\ \/ /\ hPhysicalDrive' = access /\ physical' = physical + 1
          /\ pc' = next
          /\ UNCHANGED ErrorStatus
       \/ FailWith /\ hPhysicalDrive' = "none" /\ UNCHANGED physical
    /\ UNCHANGED <<hLogicalVolume, logical>>

\* A step of the drive succeeded.
Did(step) == done_steps' = done_steps \cup {step}

\* A step failed without an ErrorStatus to report.
Unreported == Did("unreported")

-----------------------------------------------------------------------------
OpenDrive ==
    /\ pc = "open"
    /\ GetPhysicalHandle("read", "letters")
    /\ UNCHANGED <<job, actual_lock_drive, need_logical, alt_mounted, dirty,
                   done_steps, tries, cancel>>

\* GetDriveLetters and RemoveDriveLetters.
Letters ==
    /\ pc = "letters"
    /\ \/ pc' = "delete" /\ UNCHANGED ErrorStatus
       \/ FailWith
    /\ UNCHANGED <<job, handleVars, actual_lock_drive, need_logical,
                   alt_mounted, dirty, done_steps, tries, cancel>>

\* VDS deletes the partitions, for which access to the drive is given up; when
\* it cannot, ErrorStatus is cleared and the rest is done without a lock.
DeletePartitions ==
    /\ pc = "delete"
    /\ ClosePhysical
    /\ \/ UNCHANGED <<ErrorStatus, need_logical, actual_lock_drive, cancel>>
       \/ /\ ErrorStatus' = "none"
          /\ need_logical' = TRUE
          /\ actual_lock_drive' = FALSE
          /\ cancel' = IF ErrorStatus = "cancelled" THEN "lost" ELSE cancel
    /\ pc' = "reopen"
    /\ UNCHANGED <<job, hLogicalVolume, logical, alt_mounted, dirty, done_steps,
                   tries>>

ReopenDrive ==
    /\ pc = "reopen"
    /\ GetPhysicalHandle("rw", "logical")
    /\ UNCHANGED <<job, actual_lock_drive, need_logical, alt_mounted, dirty,
                   done_steps, tries, cancel>>

\* The volume is opened too when an image is written or partitions remain; an
\* unpartitioned drive has none (NULL).
LogicalHandle ==
    /\ pc = "logical"
    /\ \/ /\ job.mode \in {"image", "ffu"} \/ need_logical
          /\ \/ /\ hLogicalVolume' = "open" /\ logical' = logical + 1
                /\ CheckedGoto("begin") /\ UNCHANGED ErrorStatus
             \/ /\ hLogicalVolume' = "null"
                /\ CheckedGoto("begin") /\ UNCHANGED <<logical, ErrorStatus>>
             \/ FailWith /\ UNCHANGED <<hLogicalVolume, logical>>
       \/ /\ ~ (job.mode \in {"image", "ffu"} \/ need_logical)
          /\ CheckedGoto("begin")
          /\ UNCHANGED <<hLogicalVolume, logical, ErrorStatus>>
    /\ UNCHANGED <<job, hPhysicalDrive, physical, actual_lock_drive,
                   need_logical, alt_mounted, dirty, done_steps, tries, cancel>>

\* WriteDrive(): its result is not looked at, and it does not always set
\* ErrorStatus when it fails (ZeroDrive, WriteImage).
WriteDrive(step) ==
    \/ Did(step) /\ UNCHANGED ErrorStatus
    \/ ErrorStatus' = "error" /\ UNCHANGED done_steps
    \/ ErrorStatus = "cancelled" /\ UNCHANGED <<done_steps, ErrorStatus>>
    \/ Unreported /\ UNCHANGED ErrorStatus

\* What comes after the clearing of the partition records.
AfterClearing ==
    IF job.bad_blocks THEN "bad_blocks"
    ELSE IF job.mode = "files" THEN "partition" ELSE "image"

\* The partition records are cleared for all files but those of an image that is
\* not an ISO (a Windows image to be applied).
BeginJob ==
    /\ pc = "begin"
    /\ \/ /\ job.mode = "zero"
          /\ WriteDrive("zero")
          /\ pc' = "out"
       \/ /\ job.mode = "files" /\ pc' = "clear"
          /\ UNCHANGED <<done_steps, ErrorStatus>>
       \/ /\ job.mode \in {"image", "ffu"} \/ job.boot # "none"
          /\ pc' = AfterClearing
          /\ UNCHANGED <<done_steps, ErrorStatus>>
    /\ UNCHANGED <<job, handleVars, actual_lock_drive, need_logical, alt_mounted,
                   dirty, tries, cancel>>

\* ClearMBRGPT and InitializeDisk, whose failure, a cancellation seen there
\* included, is reported as a partition failure.
ClearPartitions ==
    /\ pc = "clear"
    /\ \/ /\ Did("clear")
          /\ pc' = AfterClearing
          /\ UNCHANGED ErrorStatus
       \/ FailWith /\ UNCHANGED done_steps
    /\ UNCHANGED <<job, handleVars, actual_lock_drive, need_logical, alt_mounted,
                   dirty, tries, cancel>>

\* BadBlocks(), which overwrites the drive, and what the user makes of it: go on
\* (none found, or Ignore), check again, or abort. After a failed check the
\* partition records are cleared, if they can be. Without a log file the thread
\* leaves at once.
BadBlocksCheck ==
    /\ pc = "bad_blocks"
    /\ \/ /\ dirty' = TRUE /\ pc' = "bb_clear"
          /\ UNCHANGED <<tries, done_steps, ErrorStatus>>
       \/ /\ tries < MaxRetry
          /\ dirty' = TRUE /\ tries' = tries + 1
          /\ UNCHANGED <<pc, done_steps, ErrorStatus>>
       \/ /\ ErrorStatus' = "cancelled" /\ pc' = "out" /\ dirty' = TRUE
          /\ UNCHANGED <<tries, done_steps>>
       \/ FailIfNone /\ dirty' \in BOOLEAN /\ UNCHANGED <<tries, done_steps>>
       \/ /\ Unreported /\ pc' = "out"
          /\ UNCHANGED <<dirty, tries, ErrorStatus>>
    /\ UNCHANGED <<job, handleVars, actual_lock_drive, need_logical, alt_mounted,
                   cancel>>

\* Mutant: the partition records are not cleared after the check.
ClearAfterCheckSkipped ==
    /\ pc = "bb_clear"
    /\ pc' = IF job.mode = "files" THEN "partition" ELSE "image"
    /\ UNCHANGED <<job, handleVars, actual_lock_drive, need_logical, alt_mounted,
                   dirty, done_steps, tries, ErrorStatus, cancel>>

\* "you must zero the MBR/GPT completely before repartitioning"
ClearAfterCheck ==
    /\ pc = "bb_clear"
    /\ \/ /\ dirty' = FALSE
          /\ pc' = IF job.mode = "files" THEN "partition" ELSE "image"
          /\ UNCHANGED ErrorStatus
       \/ FailIfNone /\ UNCHANGED dirty
    /\ tries' = 0
    /\ UNCHANGED <<job, handleVars, actual_lock_drive, need_logical, alt_mounted,
                   done_steps, cancel>>

\* WriteDrive, or dism for an FFU image, which needs the drive to itself.
WriteImageFile ==
    /\ pc = "image"
    /\ \/ /\ job.mode = "image"
          /\ WriteDrive("image")
          /\ UNCHANGED handleVars
       \/ /\ job.mode = "ffu"
          /\ ClosePhysical
          /\ \/ Did("image") /\ UNCHANGED ErrorStatus
             \/ /\ ErrorStatus' = (IF IsError THEN ErrorStatus ELSE "error")
                /\ UNCHANGED done_steps
          /\ UNCHANGED <<hLogicalVolume, logical>>
    /\ pc' = "out"
    /\ UNCHANGED <<job, actual_lock_drive, need_logical, alt_mounted, dirty,
                   tries, cancel>>

\* Mutant: the volume's handle is kept through the formatting.
PartitionKeepsVolume ==
    /\ pc = "partition"
    /\ \/ /\ ErrorStatus = "cancelled" /\ pc' = "out"
          /\ UNCHANGED <<handleVars, done_steps>>
       \/ /\ ErrorStatus # "cancelled"
          /\ Did("partition")
          /\ IF job.must_unlock THEN ClosePhysical
             ELSE UNCHANGED <<hPhysicalDrive, physical>>
          /\ pc' = "wait_volume"
          /\ UNCHANGED <<hLogicalVolume, logical>>
    /\ UNCHANGED <<job, actual_lock_drive, need_logical, alt_mounted, dirty,
                   tries, ErrorStatus, cancel>>

\* CreatePartition; then the volume is closed, and the drive too where Windows
\* would not format it otherwise. CloseHandle() fails for a handle that Windows
\* has invalidated.
Partition ==
    /\ pc = "partition"
    /\ \/ /\ ErrorStatus = "cancelled" /\ pc' = "out"
          /\ UNCHANGED <<handleVars, done_steps, ErrorStatus>>
       \/ /\ ErrorStatus # "cancelled" /\ FailWith
          /\ UNCHANGED <<handleVars, done_steps>>
       \/ /\ ErrorStatus # "cancelled"
          /\ Did("partition")
          /\ hLogicalVolume' = "none" /\ logical' = 0
          /\ \/ /\ IF job.must_unlock THEN ClosePhysical
                   ELSE UNCHANGED <<hPhysicalDrive, physical>>
                /\ pc' = "wait_volume"
                /\ UNCHANGED ErrorStatus
             \/ /\ hLogicalVolume = "open" /\ FailWith
                /\ UNCHANGED <<hPhysicalDrive, physical>>
    /\ UNCHANGED <<job, actual_lock_drive, need_logical, alt_mounted, dirty,
                   tries, cancel>>

\* AltMountVolume, or WaitForLogical, which the user can cut short.
WaitVolume ==
    /\ pc = "wait_volume"
    /\ \/ /\ job.alt
          /\ \/ /\ alt_mounted' = TRUE
                /\ CheckedGoto("persistence") /\ UNCHANGED ErrorStatus
             \/ FailWith /\ UNCHANGED alt_mounted
       \/ /\ ~ job.alt
          /\ \/ CheckedGoto("persistence") /\ UNCHANGED ErrorStatus
             \/ FailIfNone
          /\ UNCHANGED alt_mounted
    /\ UNCHANGED <<job, handleVars, actual_lock_drive, need_logical, dirty,
                   done_steps, tries, cancel>>

FormatPersistence ==
    /\ pc = "persistence"
    /\ \/ /\ job.persistence
          /\ \/ Did("persistence") /\ pc' = "format" /\ UNCHANGED ErrorStatus
             \/ FailIfNone /\ UNCHANGED done_steps
       \/ /\ ~ job.persistence
          /\ pc' = "format"
          /\ UNCHANGED <<done_steps, ErrorStatus>>
    /\ tries' = 0
    /\ UNCHANGED <<job, handleVars, actual_lock_drive, need_logical, alt_mounted,
                   dirty, cancel>>

\* Mutant: a failure of FormatEx is not recorded.
FormatVolumeSilently ==
    /\ pc = "format"
    /\ \/ Did("format") \/ UNCHANGED done_steps
    /\ pc' = "get_back"
    /\ UNCHANGED <<job, handleVars, actual_lock_drive, need_logical, alt_mounted,
                   dirty, tries, ErrorStatus, cancel>>

\* Mutant: the attempts are not counted.
FormatVolumeForever ==
    /\ pc = "format"
    /\ \/ ~ IsError /\ Did("format") /\ pc' = "get_back" /\ UNCHANGED ErrorStatus
       \/ ErrorStatus' = "error" /\ UNCHANGED <<pc, done_steps>>
    /\ UNCHANGED <<job, handleVars, actual_lock_drive, need_logical, alt_mounted,
                   dirty, tries, cancel>>

\* Mutant: the error of an attempt is reset before the next one, and so is a
\* cancellation.
FormatVolumeResets ==
    /\ pc = "format"
    /\ \/ Did("format") /\ pc' = "get_back" /\ ErrorStatus' = "none" /\ UNCHANGED tries
       \/ /\ ErrorStatus' = "error" /\ tries' = tries + 1 /\ UNCHANGED done_steps
          /\ pc' = IF tries' = WRITE_RETRIES THEN "out" ELSE pc
    /\ UNCHANGED <<job, handleVars, actual_lock_drive, need_logical, alt_mounted,
                   dirty, cancel>>

\* FormatPartition. FormatEx is tried WRITE_RETRIES times, but its callback
\* halts it at once while ErrorStatus is an error. FormatExtFs can fail without
\* an error.
FormatVolume ==
    /\ pc = "format"
    /\ \/ /\ ~ IsError
          /\ Did("format") /\ pc' = "get_back"
          /\ UNCHANGED <<tries, ErrorStatus>>
       \/ /\ tries < WRITE_RETRIES
          /\ ErrorStatus # "cancelled"
          /\ ErrorStatus' = "error" /\ tries' = tries + 1
          /\ UNCHANGED <<pc, done_steps>>
       \/ /\ IsError
          /\ ErrorStatus = "error" => tries = WRITE_RETRIES
          /\ pc' = "out"
          /\ UNCHANGED <<tries, done_steps, ErrorStatus>>
       \/ /\ ~ IsError
          /\ Unreported /\ pc' = "out"
          /\ UNCHANGED <<tries, ErrorStatus>>
    /\ UNCHANGED <<job, handleVars, actual_lock_drive, need_logical, alt_mounted,
                   dirty, cancel>>

\* Mutant: access to the drive is taken again although it was not given up.
GetBackAlways ==
    /\ pc = "get_back"
    /\ GetPhysicalHandle("rw", "mbr")
    /\ UNCHANGED <<job, actual_lock_drive, need_logical, alt_mounted, dirty,
                   done_steps, tries, cancel>>

\* "Get RW access back to the physical drive..."
GetBackDrive ==
    /\ pc = "get_back"
    /\ IF job.must_unlock THEN GetPhysicalHandle("rw", "mbr")
       ELSE pc' = "mbr" /\ UNCHANGED <<handleVars, ErrorStatus>>
    /\ UNCHANGED <<job, actual_lock_drive, need_logical, alt_mounted, dirty,
                   done_steps, tries, cancel>>

WriteBootRecord ==
    /\ pc = "mbr"
    /\ \/ job.mbr /\ Did("mbr") /\ pc' = "mount" /\ UNCHANGED ErrorStatus
       \/ job.mbr /\ FailIfNone /\ UNCHANGED done_steps
       \/ ~ job.mbr /\ pc' = "mount" /\ UNCHANGED <<done_steps, ErrorStatus>>
    /\ UNCHANGED <<job, handleVars, actual_lock_drive, need_logical, alt_mounted,
                   dirty, tries, cancel>>

\* Unless it is mounted already: find the volume and mount it.
MountVolume ==
    /\ pc = "mount"
    /\ \/ job.alt /\ pc' = "boot" /\ UNCHANGED ErrorStatus
       \/ ~ job.alt /\ CheckedGoto("boot") /\ UNCHANGED ErrorStatus
       \/ ~ job.alt /\ ErrorStatus # "cancelled" /\ FailWith
    /\ UNCHANGED <<job, handleVars, actual_lock_drive, need_logical, alt_mounted,
                   dirty, done_steps, tries, cancel>>

\* WritePBR() through a handle of the volume. For FAT32 a boot sector that cannot
\* be confirmed or written only leaves the loop, and TRUE is returned.
WritePartitionBootRecord ==
    \/ /\ Did("pbr") /\ CheckedGoto("remount")
       /\ UNCHANGED <<hLogicalVolume, logical, ErrorStatus>>
    \/ /\ Unreported /\ CheckedGoto("remount")
       /\ UNCHANGED <<hLogicalVolume, logical, ErrorStatus>>
    \/ /\ FailIfNone /\ hLogicalVolume' = "open" /\ logical' = logical + 1
       /\ UNCHANGED done_steps
    \/ /\ FailWith /\ hLogicalVolume' \in {"none", "null"}
       /\ UNCHANGED <<logical, done_steps>>

InstallBoot ==
    /\ pc = "boot"
    /\ \/ /\ job.boot \in {"none", "uefi"}
          /\ CheckedGoto("remount")
          /\ UNCHANGED <<hLogicalVolume, logical, done_steps, ErrorStatus>>
       \/ /\ job.boot = "syslinux"
          /\ \/ Did("syslinux") /\ CheckedGoto("remount") /\ UNCHANGED ErrorStatus
             \/ FailWith /\ UNCHANGED done_steps
          /\ UNCHANGED <<hLogicalVolume, logical>>
       \/ job.boot = "pbr" /\ WritePartitionBootRecord
    /\ UNCHANGED <<job, hPhysicalDrive, physical, actual_lock_drive,
                   need_logical, alt_mounted, dirty, tries, cancel>>

RemountVolume ==
    /\ pc = "remount"
    /\ \/ CheckedGoto(IF job.boot = "none" THEN "zip" ELSE "files")
          /\ UNCHANGED ErrorStatus
       \/ FailWith
    /\ UNCHANGED <<job, handleVars, actual_lock_drive, need_logical, alt_mounted,
                   dirty, done_steps, tries, cancel>>

\* DOS files or the content of the image; patching them or the last remount may
\* fail, which is recorded and does not stop the thread. That grldr or the loader
\* of KolibriOS could not be copied is only logged.
CopyFiles ==
    /\ pc = "files"
    /\ \/ /\ Did("files") \/ Unreported
          /\ pc' = "zip" /\ ErrorStatus' \in {ErrorStatus, "error"}
       \/ FailIfNone /\ UNCHANGED done_steps
    /\ UNCHANGED <<job, handleVars, actual_lock_drive, need_logical, alt_mounted,
                   dirty, tries, cancel>>

\* Additional files, whose absence is only a warning.
ExtractZip ==
    /\ pc = "zip"
    /\ pc' = "out"
    /\ UNCHANGED <<job, handleVars, actual_lock_drive, need_logical, alt_mounted,
                   dirty, done_steps, tries, ErrorStatus, cancel>>

\* Mutant: the volume mounted by hand is left mounted.
LeaveMounted ==
    /\ pc = "out"
    /\ CloseLogical /\ ClosePhysical
    /\ pc' = "done"
    /\ UNCHANGED <<job, actual_lock_drive, need_logical, alt_mounted, dirty,
                   done_steps, tries, ErrorStatus, cancel>>

\* out: everything is given back and UM_FORMAT_COMPLETED is posted.
CleanUp ==
    /\ pc = "out"
    /\ alt_mounted' = FALSE
    /\ CloseLogical /\ ClosePhysical
    /\ pc' = "done"
    /\ UNCHANGED <<job, actual_lock_drive, need_logical, dirty, done_steps,
                   tries, ErrorStatus, cancel>>

\* IDCANCEL, at any time while the thread runs. The button is disabled then, and
\* enabled again only after UM_FORMAT_COMPLETED.
UserCancel ==
    /\ pc # "done" /\ cancel = "no"
    /\ ErrorStatus' = "cancelled"
    /\ cancel' = "asked"
    /\ UNCHANGED <<job, pc, handleVars, actual_lock_drive, need_logical,
                   alt_mounted, dirty, done_steps, tries>>

Finished == pc = "done" /\ UNCHANGED vars

Thread ==
    \/ OpenDrive \/ Letters \/ DeletePartitions \/ ReopenDrive \/ LogicalHandle
    \/ BeginJob \/ ClearPartitions \/ BadBlocksCheck \/ ClearAfterCheck
    \/ WriteImageFile \/ Partition \/ WaitVolume \/ FormatPersistence
    \/ FormatVolume \/ GetBackDrive \/ WriteBootRecord \/ MountVolume
    \/ InstallBoot \/ RemountVolume \/ CopyFiles \/ ExtractZip \/ CleanUp

Next == Thread \/ UserCancel \/ Finished

\* The thread is scheduled, and the dialog of the bad blocks check is answered.
Spec == Init /\ [][Next]_vars /\ WF_vars(Thread)

-----------------------------------------------------------------------------
\* However the thread ends, and at whichever step, it holds no handle (and so no
\* lock) of the drive or of its volume, and leaves no volume mounted by hand.
EverythingReleased ==
    pc = "done" => physical = 0 /\ logical = 0 /\ ~ alt_mounted

\* Whatever was given up and taken back before, the steps that write to the drive
\* itself have it open for writing; and "Close the (unmounted) volume before
\* formatting", and the drive too where Windows asks for it, so that nobody else
\* than the formatter has them open.
HandlesFitTheStep ==
    /\ pc \in {"begin", "clear", "bad_blocks", "bb_clear", "image", "partition", "mbr"}
           => hPhysicalDrive = "rw" /\ physical = 1
    /\ pc \in {"persistence", "format"} =>
           logical = 0 /\ (job.must_unlock => physical = 0)

\* "Especially after destructive badblocks test, you must zero the MBR/GPT
\* completely before repartitioning": no later step meets what a check left.
CleanAfterCheck ==
    pc \in {"image", "partition", "wait_volume", "format", "mbr"} => ~ dirty

\* When nothing is reported to the user (ErrorStatus is 0: "READY"), everything
\* the job calls for has been done to the drive, unless a step has failed that no
\* ErrorStatus tells of: a read, seek or last write of WriteDrive, a check without a
\* log file, FormatExtFs, a FAT32 boot record, grldr or the loader of KolibriOS.
ReadyMeansDone ==
    (pc = "done" /\ ErrorStatus = "none" /\ "unreported" \notin done_steps)
        => Required(job) \subseteq done_steps

\* "If you are sure you want to cancel, click YES" (MSG_105): what the user cancels
\* is not reported as complete, whichever step the cancellation falls into, but for
\* the one that a failing DeletePartition erases with its own error.
CancelIsReported ==
    (pc = "done" /\ cancel = "asked") => ErrorStatus # "none"

\* The thread always gets to post UM_FORMAT_COMPLETED.
FormatEnds == <>(pc = "done")

=============================================================================
