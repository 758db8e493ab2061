------------------------- MODULE FormatThreadProofs -------------------------
(***************************************************************************)
(* FormatThread's safety properties hold for every job, every number of    *)
(* retries and every point at which a step fails or the user cancels.      *)
(*                                                                         *)
(* The argument: at each step it is known which handles are held           *)
(* (HandlesHeld), which steps are behind (StepsBehind) and who may have    *)
(* written ErrorStatus (CancelKept); a step leaves for out: only with an   *)
(* ErrorStatus, with a failure nobody is told of, or with the job done.    *)
(***************************************************************************)
EXTENDS FormatThread, TLAPS

\* The steps at which the thread has the drive open for writing.
WithDrive == {"logical", "begin", "clear", "bad_blocks", "bb_clear", "image",
              "partition", "mbr", "mount", "boot", "remount", "files", "zip"}

\* The steps at which the drive is given up if Windows asks for it.
WhileFormatting == {"wait_volume", "persistence", "format", "get_back"}

\* The steps at which no volume is open.
WithoutVolume == {"open", "letters", "delete", "reopen", "logical", "mbr", "mount",
                  "boot", "remount", "files", "zip"} \cup WhileFormatting

\* Windows holds what the thread's variables say, and these fit the step.
HandlesHeld ==
    /\ physical = IF hPhysicalDrive = "none" THEN 0 ELSE 1
    /\ logical = IF hLogicalVolume = "open" THEN 1 ELSE 0
    /\ pc \in {"open", "reopen"} => hPhysicalDrive = "none"
    /\ pc \in WithDrive => hPhysicalDrive = "rw"
    /\ pc \in WhileFormatting =>
           hPhysicalDrive = IF job.must_unlock THEN "none" ELSE "rw"
    /\ pc \in WithoutVolume => hLogicalVolume = "none"
    /\ pc = "done" => physical = 0 /\ logical = 0 /\ ~ alt_mounted

\* The steps that only a job with files gets to, in their order.
AfterPartition == WhileFormatting \cup {"mbr", "mount", "boot", "remount", "files", "zip"}
AfterFormat == {"get_back", "mbr", "mount", "boot", "remount", "files", "zip"}
AfterBootRecord == {"mount", "boot", "remount", "files", "zip"}
AfterBoot == {"remount", "files", "zip"}

\* What the thread has been through is done, and the way out is an error, a failure
\* nobody is told of, or the end of the job.
StepsBehind ==
    /\ pc = "image" => job.mode \in {"image", "ffu"}
    /\ pc \in {"bad_blocks", "bb_clear"} => job.mode # "zero"
    /\ pc \in {"clear", "partition"} \cup AfterPartition => job.mode = "files"
    /\ pc \in AfterPartition => "partition" \in done_steps
    /\ pc \in AfterFormat \cup {"format"} =>
           (job.persistence => "persistence" \in done_steps)
    /\ pc \in AfterFormat => "format" \in done_steps
    /\ pc \in AfterBootRecord => (job.mbr => "mbr" \in done_steps)
    /\ pc \in AfterBoot => /\ job.boot = "syslinux" => "syslinux" \in done_steps
                           /\ job.boot = "pbr" => {"pbr", "unreported"} \cap done_steps # {}
    /\ pc = "zip" => (job.boot # "none" => {"files", "unreported"} \cap done_steps # {})
    /\ pc \in {"out", "done"} => \/ ErrorStatus # "none"
                                 \/ "unreported" \in done_steps
                                 \/ Required(job) \subseteq done_steps

\* What a bad blocks check left is met only by the steps that clear it.
DirtyWhere == dirty => pc \in {"bad_blocks", "bb_clear", "out", "done"}

\* A cancellation that is not lost is still an error, because before DeletePartition
\* no other error can have taken its place.
CancelKept ==
    /\ cancel = "asked" => ErrorStatus # "none"
    /\ pc \in {"open", "letters", "delete"} /\ cancel = "asked" => ErrorStatus = "cancelled"

\* The inductive invariant.
IInv == TypeOK /\ HandlesHeld /\ StepsBehind /\ DirtyWhere /\ CancelKept

-----------------------------------------------------------------------------
\* What each step of FormatThread (format.c) does to its handles: opening is matched
\* by closing on every path, and what a step needs is what the one before it left.
LEMMA HandlesStep == TypeOK /\ HandlesHeld /\ [Next]_vars => HandlesHeld'
<1> SUFFICES ASSUME TypeOK, HandlesHeld, [Next]_vars PROVE HandlesHeld'
  OBVIOUS
<1>1. CASE OpenDrive
  BY <1>1 DEF HandlesHeld, WithDrive, WhileFormatting, WithoutVolume, OpenDrive,
        GetPhysicalHandle, FailWith, handleVars
<1>2. CASE Letters
  BY <1>2 DEF HandlesHeld, WithDrive, WhileFormatting, WithoutVolume, Letters,
        FailWith, handleVars
<1>3. CASE DeletePartitions
  BY <1>3 DEF HandlesHeld, WithDrive, WhileFormatting, WithoutVolume,
        DeletePartitions, ClosePhysical, handleVars
<1>4. CASE ReopenDrive
  BY <1>4 DEF HandlesHeld, WithDrive, WhileFormatting, WithoutVolume, ReopenDrive,
        GetPhysicalHandle, FailWith, handleVars
<1>5. CASE LogicalHandle
  BY <1>5 DEF HandlesHeld, WithDrive, WhileFormatting, WithoutVolume, LogicalHandle,
        CheckedGoto, FailWith, handleVars
<1>6. CASE BeginJob
  BY <1>6 DEF HandlesHeld, WithDrive, WhileFormatting, WithoutVolume, BeginJob, AfterClearing,
        WriteDrive, Did, Unreported, handleVars
<1>7. CASE ClearPartitions
  BY <1>7 DEF HandlesHeld, WithDrive, WhileFormatting, WithoutVolume,
        ClearPartitions, AfterClearing, Did, FailWith, handleVars
<1>8. CASE BadBlocksCheck
  BY <1>8 DEF HandlesHeld, WithDrive, WhileFormatting, WithoutVolume,
        BadBlocksCheck, FailIfNone, IsError, Unreported, Did, handleVars
<1>9. CASE ClearAfterCheck
  BY <1>9 DEF HandlesHeld, WithDrive, WhileFormatting, WithoutVolume,
        ClearAfterCheck, FailIfNone, IsError, handleVars
<1>10. CASE WriteImageFile
  BY <1>10 DEF HandlesHeld, WithDrive, WhileFormatting, WithoutVolume,
        WriteImageFile, WriteDrive, ClosePhysical, Did, Unreported, IsError,
        handleVars
<1>11. CASE Partition
  BY <1>11 DEF HandlesHeld, WithDrive, WhileFormatting, WithoutVolume, Partition,
        FailWith, Did, ClosePhysical, handleVars
<1>12. CASE WaitVolume
  BY <1>12 DEF HandlesHeld, WithDrive, WhileFormatting, WithoutVolume, WaitVolume,
        CheckedGoto, FailWith, FailIfNone, IsError, handleVars
<1>13. CASE FormatPersistence
  BY <1>13 DEF HandlesHeld, WithDrive, WhileFormatting, WithoutVolume,
        FormatPersistence, Did, FailIfNone, IsError, handleVars
<1>14. CASE FormatVolume
  BY <1>14 DEF HandlesHeld, WithDrive, WhileFormatting, WithoutVolume, FormatVolume,
        IsError, Did, Unreported, handleVars
<1>15. CASE GetBackDrive
  BY <1>15 DEF HandlesHeld, WithDrive, WhileFormatting, WithoutVolume, GetBackDrive,
        GetPhysicalHandle, FailWith, handleVars
<1>16. CASE WriteBootRecord
  BY <1>16 DEF HandlesHeld, WithDrive, WhileFormatting, WithoutVolume,
        WriteBootRecord, Did, FailIfNone, IsError, handleVars
<1>17. CASE MountVolume
  BY <1>17 DEF HandlesHeld, WithDrive, WhileFormatting, WithoutVolume, MountVolume,
        CheckedGoto, FailWith, handleVars
<1>18. CASE InstallBoot
  BY <1>18 DEF HandlesHeld, WithDrive, WhileFormatting, WithoutVolume, InstallBoot,
        CheckedGoto, Did, FailWith, FailIfNone, IsError, Unreported,
        WritePartitionBootRecord, handleVars
<1>19. CASE RemountVolume
  BY <1>19 DEF HandlesHeld, WithDrive, WhileFormatting, WithoutVolume,
        RemountVolume, CheckedGoto, FailWith, handleVars
<1>20. CASE CopyFiles
  BY <1>20 DEF HandlesHeld, WithDrive, WhileFormatting, WithoutVolume, CopyFiles,
        Did, Unreported, FailIfNone, IsError, handleVars
<1>21. CASE ExtractZip
  BY <1>21 DEF HandlesHeld, WithDrive, WhileFormatting, WithoutVolume, ExtractZip,
        handleVars
<1>22. CASE CleanUp
  BY <1>22 DEF HandlesHeld, WithDrive, WhileFormatting, WithoutVolume, CleanUp,
        CloseLogical, ClosePhysical, handleVars
<1>23. CASE UserCancel
  BY <1>23 DEF HandlesHeld, WithDrive, WhileFormatting, WithoutVolume, UserCancel,
        handleVars
<1>24. CASE UNCHANGED vars
  BY <1>24 DEF HandlesHeld, WithDrive, WhileFormatting, WithoutVolume, vars,
        handleVars
<1>. QED
  BY <1>1, <1>2, <1>3, <1>4, <1>5, <1>6, <1>7, <1>8, <1>9, <1>10, <1>11, <1>12,
     <1>13, <1>14, <1>15, <1>16, <1>17, <1>18, <1>19, <1>20, <1>21, <1>22, <1>23,
     <1>24
  DEF Next, Thread, Finished

\* The parts of the type invariant, which are proved one by one.
BooleansOK ==
    /\ actual_lock_drive \in BOOLEAN /\ need_logical \in BOOLEAN
    /\ alt_mounted \in BOOLEAN /\ dirty \in BOOLEAN
StepNames == {"zero", "image", "clear", "partition", "persistence", "format", "mbr",
              "syslinux", "pbr", "files", "unreported"}
NamesOK == done_steps \subseteq StepNames
RestOK ==
    /\ job \in Jobs /\ pc \in PCs
    /\ hPhysicalDrive \in {"none", "read", "rw"}
    /\ hLogicalVolume \in {"none", "null", "open"}
    /\ physical \in 0..1 /\ logical \in 0..1
    /\ tries \in 0..(MaxRetry + WRITE_RETRIES)
    /\ ErrorStatus \in {"none", "cancelled", "error"}
    /\ cancel \in {"no", "asked", "lost"}

\* The flags of FormatThread (format.c) stay flags.
LEMMA BooleansStep == TypeOK /\ [Next]_vars => BooleansOK'
<1> SUFFICES ASSUME TypeOK, [Next]_vars PROVE BooleansOK'
  OBVIOUS
<1>1. CASE OpenDrive
  BY <1>1, Zenon DEF TypeOK, BooleansOK, OpenDrive, GetPhysicalHandle, FailWith,
        handleVars
<1>2. CASE Letters
  BY <1>2, Zenon DEF TypeOK, BooleansOK, Letters, FailWith, handleVars
<1>3. CASE DeletePartitions
  BY <1>3, Zenon DEF TypeOK, BooleansOK, DeletePartitions, ClosePhysical, handleVars
<1>4. CASE ReopenDrive
  BY <1>4, Zenon DEF TypeOK, BooleansOK, ReopenDrive, GetPhysicalHandle, FailWith,
        handleVars
<1>5. CASE LogicalHandle
  BY <1>5, Zenon DEF TypeOK, BooleansOK, LogicalHandle, CheckedGoto, FailWith,
        handleVars
<1>6. CASE BeginJob
  BY <1>6, Zenon DEF TypeOK, BooleansOK, BeginJob, AfterClearing, WriteDrive, Did, Unreported,
        handleVars
<1>7. CASE ClearPartitions
  BY <1>7, Zenon DEF TypeOK, BooleansOK, ClearPartitions, AfterClearing, Did, FailWith, handleVars
<1>8. CASE BadBlocksCheck
  BY <1>8, Zenon DEF TypeOK, BooleansOK, BadBlocksCheck, FailIfNone, IsError,
        Unreported, Did, handleVars
<1>9. CASE ClearAfterCheck
  BY <1>9, Zenon DEF TypeOK, BooleansOK, ClearAfterCheck, FailIfNone, IsError,
        handleVars
<1>10. CASE WriteImageFile
  BY <1>10, Zenon DEF TypeOK, BooleansOK, WriteImageFile, WriteDrive, ClosePhysical,
        Did, Unreported, IsError, handleVars
<1>11. CASE Partition
  BY <1>11, Zenon DEF TypeOK, BooleansOK, Partition, FailWith, Did, ClosePhysical,
        handleVars
<1>12. CASE WaitVolume
  BY <1>12, Zenon DEF TypeOK, BooleansOK, WaitVolume, CheckedGoto, FailWith,
        FailIfNone, IsError, handleVars
<1>13. CASE FormatPersistence
  BY <1>13, Zenon DEF TypeOK, BooleansOK, FormatPersistence, Did, FailIfNone,
        IsError, handleVars
<1>14. CASE FormatVolume
  BY <1>14, Zenon DEF TypeOK, BooleansOK, FormatVolume, IsError, Did, Unreported,
        handleVars
<1>15. CASE GetBackDrive
  BY <1>15, Zenon DEF TypeOK, BooleansOK, GetBackDrive, GetPhysicalHandle, FailWith,
        handleVars
<1>16. CASE WriteBootRecord
  BY <1>16, Zenon DEF TypeOK, BooleansOK, WriteBootRecord, Did, FailIfNone, IsError,
        handleVars
<1>17. CASE MountVolume
  BY <1>17, Zenon DEF TypeOK, BooleansOK, MountVolume, CheckedGoto, FailWith,
        handleVars
<1>18. CASE InstallBoot
  BY <1>18, Zenon DEF TypeOK, BooleansOK, InstallBoot, CheckedGoto, Did, FailWith,
        FailIfNone, IsError, Unreported, WritePartitionBootRecord, handleVars
<1>19. CASE RemountVolume
  BY <1>19, Zenon DEF TypeOK, BooleansOK, RemountVolume, CheckedGoto, FailWith,
        handleVars
<1>20. CASE CopyFiles
  BY <1>20, Zenon DEF TypeOK, BooleansOK, CopyFiles, Did, Unreported, FailIfNone, IsError,
        handleVars
<1>21. CASE ExtractZip
  BY <1>21, Zenon DEF TypeOK, BooleansOK, ExtractZip, handleVars
<1>22. CASE CleanUp
  BY <1>22, Zenon DEF TypeOK, BooleansOK, CleanUp, CloseLogical, ClosePhysical,
        handleVars
<1>23. CASE UserCancel
  BY <1>23, Zenon DEF TypeOK, BooleansOK, UserCancel, handleVars
<1>24. CASE UNCHANGED vars
  BY <1>24, Zenon DEF TypeOK, BooleansOK, vars, handleVars
<1>. QED
  BY <1>1, <1>2, <1>3, <1>4, <1>5, <1>6, <1>7, <1>8, <1>9, <1>10, <1>11, <1>12,
     <1>13, <1>14, <1>15, <1>16, <1>17, <1>18, <1>19, <1>20, <1>21, <1>22, <1>23,
     <1>24
  DEF Next, Thread, Finished

\* Every step of the drive that FormatThread can report as done has one of the names.
LEMMA NamesStep == TypeOK /\ [Next]_vars => NamesOK'
<1> SUFFICES ASSUME TypeOK, [Next]_vars PROVE NamesOK'
  OBVIOUS
<1>1. CASE OpenDrive
  BY <1>1 DEF TypeOK, NamesOK, StepNames, OpenDrive, GetPhysicalHandle, FailWith,
        handleVars
<1>2. CASE Letters
  BY <1>2 DEF TypeOK, NamesOK, StepNames, Letters, FailWith, handleVars
<1>3. CASE DeletePartitions
  BY <1>3 DEF TypeOK, NamesOK, StepNames, DeletePartitions, ClosePhysical,
        handleVars
<1>4. CASE ReopenDrive
  BY <1>4 DEF TypeOK, NamesOK, StepNames, ReopenDrive, GetPhysicalHandle, FailWith,
        handleVars
<1>5. CASE LogicalHandle
  BY <1>5 DEF TypeOK, NamesOK, StepNames, LogicalHandle, CheckedGoto, FailWith,
        handleVars
<1>6. CASE BeginJob
  BY <1>6 DEF TypeOK, NamesOK, StepNames, BeginJob, AfterClearing, WriteDrive, Did, Unreported,
        handleVars
<1>7. CASE ClearPartitions
  BY <1>7 DEF TypeOK, NamesOK, StepNames, ClearPartitions, AfterClearing, Did, FailWith, handleVars
<1>8. CASE BadBlocksCheck
  BY <1>8 DEF TypeOK, NamesOK, StepNames, BadBlocksCheck, FailIfNone, IsError,
        Unreported, Did, handleVars
<1>9. CASE ClearAfterCheck
  BY <1>9 DEF TypeOK, NamesOK, StepNames, ClearAfterCheck, FailIfNone, IsError,
        handleVars
<1>10. CASE WriteImageFile
  BY <1>10 DEF TypeOK, NamesOK, StepNames, WriteImageFile, WriteDrive,
        ClosePhysical, Did, Unreported, IsError, handleVars
<1>11. CASE Partition
  BY <1>11 DEF TypeOK, NamesOK, StepNames, Partition, FailWith, Did, ClosePhysical,
        handleVars
<1>12. CASE WaitVolume
  BY <1>12 DEF TypeOK, NamesOK, StepNames, WaitVolume, CheckedGoto, FailWith,
        FailIfNone, IsError, handleVars
<1>13. CASE FormatPersistence
  BY <1>13 DEF TypeOK, NamesOK, StepNames, FormatPersistence, Did, FailIfNone,
        IsError, handleVars
<1>14. CASE FormatVolume
  BY <1>14 DEF TypeOK, NamesOK, StepNames, FormatVolume, IsError, Did, Unreported,
        handleVars
<1>15. CASE GetBackDrive
  BY <1>15 DEF TypeOK, NamesOK, StepNames, GetBackDrive, GetPhysicalHandle,
        FailWith, handleVars
<1>16. CASE WriteBootRecord
  BY <1>16 DEF TypeOK, NamesOK, StepNames, WriteBootRecord, Did, FailIfNone,
        IsError, handleVars
<1>17. CASE MountVolume
  BY <1>17 DEF TypeOK, NamesOK, StepNames, MountVolume, CheckedGoto, FailWith,
        handleVars
<1>18. CASE InstallBoot
  BY <1>18 DEF TypeOK, NamesOK, StepNames, InstallBoot, CheckedGoto, Did, FailWith,
        FailIfNone, IsError, Unreported, WritePartitionBootRecord, handleVars
<1>19. CASE RemountVolume
  BY <1>19 DEF TypeOK, NamesOK, StepNames, RemountVolume, CheckedGoto, FailWith,
        handleVars
<1>20. CASE CopyFiles
  BY <1>20 DEF TypeOK, NamesOK, StepNames, CopyFiles, Did, Unreported, FailIfNone, IsError,
        handleVars
<1>21. CASE ExtractZip
  BY <1>21 DEF TypeOK, NamesOK, StepNames, ExtractZip, handleVars
<1>22. CASE CleanUp
  BY <1>22 DEF TypeOK, NamesOK, StepNames, CleanUp, CloseLogical, ClosePhysical,
        handleVars
<1>23. CASE UserCancel
  BY <1>23 DEF TypeOK, NamesOK, StepNames, UserCancel, handleVars
<1>24. CASE UNCHANGED vars
  BY <1>24 DEF TypeOK, NamesOK, StepNames, vars, handleVars
<1>. QED
  BY <1>1, <1>2, <1>3, <1>4, <1>5, <1>6, <1>7, <1>8, <1>9, <1>10, <1>11, <1>12,
     <1>13, <1>14, <1>15, <1>16, <1>17, <1>18, <1>19, <1>20, <1>21, <1>22, <1>23,
     <1>24
  DEF Next, Thread, Finished

\* The handles, the position of the thread, its retries (at most MaxRetry checks or
\* WRITE_RETRIES attempts at FormatEx) and ErrorStatus keep their types.
LEMMA RestStep == TypeOK /\ HandlesHeld /\ [Next]_vars => RestOK'
<1> SUFFICES ASSUME TypeOK, HandlesHeld, [Next]_vars PROVE RestOK'
  OBVIOUS
<1>a. physical' \in 0..1 /\ logical' \in 0..1
  BY HandlesStep DEF HandlesHeld
<1>1. CASE OpenDrive
  BY <1>1, <1>a, FormatAssumption DEF TypeOK, RestOK, PCs, OpenDrive,
        GetPhysicalHandle, FailWith, handleVars
<1>2. CASE Letters
  BY <1>2, <1>a, FormatAssumption DEF TypeOK, RestOK, PCs, Letters, FailWith,
        handleVars
<1>3. CASE DeletePartitions
  BY <1>3, <1>a, FormatAssumption DEF TypeOK, RestOK, PCs, DeletePartitions,
        ClosePhysical, handleVars
<1>4. CASE ReopenDrive
  BY <1>4, <1>a, FormatAssumption DEF TypeOK, RestOK, PCs, ReopenDrive,
        GetPhysicalHandle, FailWith, handleVars
<1>5. CASE LogicalHandle
  BY <1>5, <1>a, FormatAssumption DEF TypeOK, RestOK, PCs, LogicalHandle,
        CheckedGoto, FailWith, handleVars
<1>6. CASE BeginJob
  BY <1>6, <1>a, FormatAssumption DEF TypeOK, RestOK, PCs, BeginJob, AfterClearing, WriteDrive,
        Did, Unreported, handleVars
<1>7. CASE ClearPartitions
  BY <1>7, <1>a, FormatAssumption DEF TypeOK, RestOK, PCs, ClearPartitions, AfterClearing, Did,
        FailWith, handleVars
<1>8. CASE BadBlocksCheck
  BY <1>8, <1>a, FormatAssumption DEF TypeOK, RestOK, PCs, BadBlocksCheck,
        FailIfNone, IsError, Unreported, Did, handleVars
<1>9. CASE ClearAfterCheck
  BY <1>9, <1>a, FormatAssumption DEF TypeOK, RestOK, PCs, ClearAfterCheck,
        FailIfNone, IsError, handleVars
<1>10. CASE WriteImageFile
  BY <1>10, <1>a, FormatAssumption DEF TypeOK, RestOK, PCs, WriteImageFile,
        WriteDrive, ClosePhysical, Did, Unreported, IsError, handleVars
<1>11. CASE Partition
  BY <1>11, <1>a, FormatAssumption DEF TypeOK, RestOK, PCs, Partition, FailWith,
        Did, ClosePhysical, handleVars
<1>12. CASE WaitVolume
  BY <1>12, <1>a, FormatAssumption DEF TypeOK, RestOK, PCs, WaitVolume, CheckedGoto,
        FailWith, FailIfNone, IsError, handleVars
<1>13. CASE FormatPersistence
  BY <1>13, <1>a, FormatAssumption DEF TypeOK, RestOK, PCs, FormatPersistence, Did,
        FailIfNone, IsError, handleVars
<1>14. CASE FormatVolume
  BY <1>14, <1>a, FormatAssumption DEF TypeOK, RestOK, PCs, FormatVolume, IsError,
        Did, Unreported, handleVars
<1>15. CASE GetBackDrive
  BY <1>15, <1>a, FormatAssumption DEF TypeOK, RestOK, PCs, GetBackDrive,
        GetPhysicalHandle, FailWith, handleVars
<1>16. CASE WriteBootRecord
  BY <1>16, <1>a, FormatAssumption DEF TypeOK, RestOK, PCs, WriteBootRecord, Did,
        FailIfNone, IsError, handleVars
<1>17. CASE MountVolume
  BY <1>17, <1>a, FormatAssumption DEF TypeOK, RestOK, PCs, MountVolume,
        CheckedGoto, FailWith, handleVars
<1>18. CASE InstallBoot
  BY <1>18, <1>a, FormatAssumption DEF TypeOK, RestOK, PCs, InstallBoot,
        CheckedGoto, Did, FailWith, FailIfNone, IsError, Unreported,
        WritePartitionBootRecord, handleVars
<1>19. CASE RemountVolume
  BY <1>19, <1>a, FormatAssumption DEF TypeOK, RestOK, PCs, RemountVolume,
        CheckedGoto, FailWith, handleVars
<1>20. CASE CopyFiles
  BY <1>20, <1>a, FormatAssumption DEF TypeOK, RestOK, PCs, CopyFiles, Did, Unreported,
        FailIfNone, IsError, handleVars
<1>21. CASE ExtractZip
  BY <1>21, <1>a, FormatAssumption DEF TypeOK, RestOK, PCs, ExtractZip, handleVars
<1>22. CASE CleanUp
  BY <1>22, <1>a, FormatAssumption DEF TypeOK, RestOK, PCs, CleanUp, CloseLogical,
        ClosePhysical, handleVars
<1>23. CASE UserCancel
  BY <1>23, <1>a, FormatAssumption DEF TypeOK, RestOK, PCs, UserCancel, handleVars
<1>24. CASE UNCHANGED vars
  BY <1>24, <1>a, FormatAssumption DEF TypeOK, RestOK, PCs, vars, handleVars
<1>. QED
  BY <1>1, <1>2, <1>3, <1>4, <1>5, <1>6, <1>7, <1>8, <1>9, <1>10, <1>11, <1>12,
     <1>13, <1>14, <1>15, <1>16, <1>17, <1>18, <1>19, <1>20, <1>21, <1>22, <1>23,
     <1>24
  DEF Next, Thread, Finished

\* Every step of FormatThread keeps its variables in their types.
LEMMA TypeStep == TypeOK /\ HandlesHeld /\ [Next]_vars => TypeOK'
<1> SUFFICES ASSUME TypeOK, HandlesHeld, [Next]_vars PROVE TypeOK'
  OBVIOUS
<1>1. BooleansOK' /\ NamesOK' /\ RestOK'
  BY BooleansStep, NamesStep, RestStep
<1>. QED
  BY <1>1 DEF TypeOK, BooleansOK, NamesOK, StepNames, RestOK

\* What the job can ask for (FormatThread reads it from the settings in format.c).
LEMMA JobKinds ==
    ASSUME job \in Jobs
    PROVE  /\ job.mode \in {"zero", "image", "ffu", "files"}
           /\ job.boot \in {"none", "uefi", "syslinux", "pbr"}
           /\ job.boot # "none" => job.mbr /\ job.mode = "files"
  BY DEF Jobs

\* The steps that the job calls for, by its mode.
LEMMA RequiredSteps ==
    /\ job.mode = "zero" => Required(job) = {"zero"}
    /\ job.mode \in {"image", "ffu"} => Required(job) = {"image"}
    /\ job.mode = "files" =>
           \A step \in Required(job) :
               \/ step \in {"partition", "format"}
               \/ step = "persistence" /\ job.persistence
               \/ step = "mbr" /\ job.mbr
               \/ step = "syslinux" /\ job.boot = "syslinux"
               \/ step = "pbr" /\ job.boot = "pbr"
               \/ step = "files" /\ job.boot # "none"
  BY DEF Required

\* What each step of FormatThread adds to what is behind it, and with what it leaves
\* for out: an ErrorStatus, a failure it does not report, or a complete job.
LEMMA StepsStep == TypeOK /\ StepsBehind /\ [Next]_vars => StepsBehind'
<1> SUFFICES ASSUME TypeOK, StepsBehind, [Next]_vars PROVE StepsBehind'
  OBVIOUS
<1>1. CASE OpenDrive
  BY <1>1, JobKinds, RequiredSteps DEF TypeOK, StepsBehind, WhileFormatting,
        AfterPartition, AfterFormat, AfterBootRecord, AfterBoot, OpenDrive,
        GetPhysicalHandle, FailWith, handleVars
<1>2. CASE Letters
  BY <1>2, JobKinds, RequiredSteps DEF TypeOK, StepsBehind, WhileFormatting,
        AfterPartition, AfterFormat, AfterBootRecord, AfterBoot, Letters, FailWith,
        handleVars
<1>3. CASE DeletePartitions
  BY <1>3, JobKinds, RequiredSteps DEF TypeOK, StepsBehind, WhileFormatting,
        AfterPartition, AfterFormat, AfterBootRecord, AfterBoot, DeletePartitions,
        ClosePhysical, handleVars
<1>4. CASE ReopenDrive
  BY <1>4, JobKinds, RequiredSteps DEF TypeOK, StepsBehind, WhileFormatting,
        AfterPartition, AfterFormat, AfterBootRecord, AfterBoot, ReopenDrive,
        GetPhysicalHandle, FailWith, handleVars
<1>5. CASE LogicalHandle
  BY <1>5, JobKinds, RequiredSteps DEF TypeOK, StepsBehind, WhileFormatting,
        AfterPartition, AfterFormat, AfterBootRecord, AfterBoot, LogicalHandle,
        CheckedGoto, FailWith, handleVars
<1>6. CASE BeginJob
  BY <1>6, JobKinds, RequiredSteps DEF TypeOK, StepsBehind, WhileFormatting,
        AfterPartition, AfterFormat, AfterBootRecord, AfterBoot, BeginJob, AfterClearing,
        WriteDrive, Did, Unreported, handleVars
<1>7. CASE ClearPartitions
  BY <1>7, JobKinds, RequiredSteps DEF TypeOK, StepsBehind, WhileFormatting,
        AfterPartition, AfterFormat, AfterBootRecord, AfterBoot, ClearPartitions,
        AfterClearing, Did, FailWith, handleVars
<1>8. CASE BadBlocksCheck
  BY <1>8, JobKinds, RequiredSteps DEF TypeOK, StepsBehind, WhileFormatting,
        AfterPartition, AfterFormat, AfterBootRecord, AfterBoot, BadBlocksCheck,
        FailIfNone, IsError, Unreported, Did, handleVars
<1>9. CASE ClearAfterCheck
  BY <1>9, JobKinds, RequiredSteps DEF TypeOK, StepsBehind, WhileFormatting,
        AfterPartition, AfterFormat, AfterBootRecord, AfterBoot, ClearAfterCheck,
        FailIfNone, IsError, handleVars
<1>10. CASE WriteImageFile
  BY <1>10, JobKinds, RequiredSteps DEF TypeOK, StepsBehind, WhileFormatting,
        AfterPartition, AfterFormat, AfterBootRecord, AfterBoot, WriteImageFile,
        WriteDrive, ClosePhysical, Did, Unreported, IsError, handleVars
<1>11. CASE Partition
  BY <1>11, JobKinds, RequiredSteps DEF TypeOK, StepsBehind, WhileFormatting,
        AfterPartition, AfterFormat, AfterBootRecord, AfterBoot, Partition,
        FailWith, Did, ClosePhysical, handleVars
<1>12. CASE WaitVolume
  BY <1>12, JobKinds, RequiredSteps DEF TypeOK, StepsBehind, WhileFormatting,
        AfterPartition, AfterFormat, AfterBootRecord, AfterBoot, WaitVolume,
        CheckedGoto, FailWith, FailIfNone, IsError, handleVars
<1>13. CASE FormatPersistence
  BY <1>13, JobKinds, RequiredSteps DEF TypeOK, StepsBehind, WhileFormatting,
        AfterPartition, AfterFormat, AfterBootRecord, AfterBoot, FormatPersistence,
        Did, FailIfNone, IsError, handleVars
<1>14. CASE FormatVolume
  BY <1>14, JobKinds, RequiredSteps DEF TypeOK, StepsBehind, WhileFormatting,
        AfterPartition, AfterFormat, AfterBootRecord, AfterBoot, FormatVolume,
        IsError, Did, Unreported, handleVars
<1>15. CASE GetBackDrive
  BY <1>15, JobKinds, RequiredSteps DEF TypeOK, StepsBehind, WhileFormatting,
        AfterPartition, AfterFormat, AfterBootRecord, AfterBoot, GetBackDrive,
        GetPhysicalHandle, FailWith, handleVars
<1>16. CASE WriteBootRecord
  BY <1>16, JobKinds, RequiredSteps DEF TypeOK, StepsBehind, WhileFormatting,
        AfterPartition, AfterFormat, AfterBootRecord, AfterBoot, WriteBootRecord,
        Did, FailIfNone, IsError, handleVars
<1>17. CASE MountVolume
  BY <1>17, JobKinds, RequiredSteps DEF TypeOK, StepsBehind, WhileFormatting,
        AfterPartition, AfterFormat, AfterBootRecord, AfterBoot, MountVolume,
        CheckedGoto, FailWith, handleVars
<1>18. CASE InstallBoot
  BY <1>18, JobKinds, RequiredSteps DEF TypeOK, StepsBehind, WhileFormatting,
        AfterPartition, AfterFormat, AfterBootRecord, AfterBoot, InstallBoot,
        CheckedGoto, Did, FailWith, FailIfNone, IsError, Unreported,
        WritePartitionBootRecord, handleVars
<1>19. CASE RemountVolume
  BY <1>19, JobKinds, RequiredSteps DEF TypeOK, StepsBehind, WhileFormatting,
        AfterPartition, AfterFormat, AfterBootRecord, AfterBoot, RemountVolume,
        CheckedGoto, FailWith, handleVars
<1>20. CASE CopyFiles
  BY <1>20, JobKinds, RequiredSteps DEF TypeOK, StepsBehind, WhileFormatting,
        AfterPartition, AfterFormat, AfterBootRecord, AfterBoot, CopyFiles, Did, Unreported,
        FailIfNone, IsError, handleVars
<1>21. CASE ExtractZip
  BY <1>21, JobKinds, RequiredSteps DEF TypeOK, StepsBehind, WhileFormatting,
        AfterPartition, AfterFormat, AfterBootRecord, AfterBoot, ExtractZip,
        handleVars
<1>22. CASE CleanUp
  BY <1>22, JobKinds, RequiredSteps DEF TypeOK, StepsBehind, WhileFormatting,
        AfterPartition, AfterFormat, AfterBootRecord, AfterBoot, CleanUp,
        CloseLogical, ClosePhysical, handleVars
<1>23. CASE UserCancel
  BY <1>23, JobKinds, RequiredSteps DEF TypeOK, StepsBehind, WhileFormatting,
        AfterPartition, AfterFormat, AfterBootRecord, AfterBoot, UserCancel,
        handleVars
<1>24. CASE UNCHANGED vars
  BY <1>24, JobKinds, RequiredSteps DEF TypeOK, StepsBehind, WhileFormatting,
        AfterPartition, AfterFormat, AfterBootRecord, AfterBoot, vars, handleVars
<1>. QED
  BY <1>1, <1>2, <1>3, <1>4, <1>5, <1>6, <1>7, <1>8, <1>9, <1>10, <1>11, <1>12,
     <1>13, <1>14, <1>15, <1>16, <1>17, <1>18, <1>19, <1>20, <1>21, <1>22, <1>23,
     <1>24
  DEF Next, Thread, Finished

\* After the check the thread goes on only through the clearing of the partition
\* records ("you must zero the MBR/GPT completely before repartitioning").
LEMMA DirtyStep == TypeOK /\ DirtyWhere /\ [Next]_vars => DirtyWhere'
<1> SUFFICES ASSUME TypeOK, DirtyWhere, [Next]_vars PROVE DirtyWhere'
  OBVIOUS
<1>1. CASE OpenDrive
  BY <1>1 DEF DirtyWhere, OpenDrive, GetPhysicalHandle, FailWith, handleVars
<1>2. CASE Letters
  BY <1>2 DEF DirtyWhere, Letters, FailWith, handleVars
<1>3. CASE DeletePartitions
  BY <1>3 DEF DirtyWhere, DeletePartitions, ClosePhysical, handleVars
<1>4. CASE ReopenDrive
  BY <1>4 DEF DirtyWhere, ReopenDrive, GetPhysicalHandle, FailWith, handleVars
<1>5. CASE LogicalHandle
  BY <1>5 DEF DirtyWhere, LogicalHandle, CheckedGoto, FailWith, handleVars
<1>6. CASE BeginJob
  BY <1>6 DEF DirtyWhere, BeginJob, AfterClearing, WriteDrive, Did, Unreported, handleVars
<1>7. CASE ClearPartitions
  BY <1>7 DEF DirtyWhere, ClearPartitions, AfterClearing, Did, FailWith, handleVars
<1>8. CASE BadBlocksCheck
  BY <1>8 DEF DirtyWhere, BadBlocksCheck, FailIfNone, IsError, Unreported, Did,
        handleVars
<1>9. CASE ClearAfterCheck
  BY <1>9 DEF DirtyWhere, ClearAfterCheck, FailIfNone, IsError, handleVars
<1>10. CASE WriteImageFile
  BY <1>10 DEF DirtyWhere, WriteImageFile, WriteDrive, ClosePhysical, Did,
        Unreported, IsError, handleVars
<1>11. CASE Partition
  BY <1>11 DEF DirtyWhere, Partition, FailWith, Did, ClosePhysical, handleVars
<1>12. CASE WaitVolume
  BY <1>12 DEF DirtyWhere, WaitVolume, CheckedGoto, FailWith, FailIfNone, IsError,
        handleVars
<1>13. CASE FormatPersistence
  BY <1>13 DEF DirtyWhere, FormatPersistence, Did, FailIfNone, IsError, handleVars
<1>14. CASE FormatVolume
  BY <1>14 DEF DirtyWhere, FormatVolume, IsError, Did, Unreported, handleVars
<1>15. CASE GetBackDrive
  BY <1>15 DEF DirtyWhere, GetBackDrive, GetPhysicalHandle, FailWith, handleVars
<1>16. CASE WriteBootRecord
  BY <1>16 DEF DirtyWhere, WriteBootRecord, Did, FailIfNone, IsError, handleVars
<1>17. CASE MountVolume
  BY <1>17 DEF DirtyWhere, MountVolume, CheckedGoto, FailWith, handleVars
<1>18. CASE InstallBoot
  BY <1>18 DEF DirtyWhere, InstallBoot, CheckedGoto, Did, FailWith, FailIfNone,
        IsError, Unreported, WritePartitionBootRecord, handleVars
<1>19. CASE RemountVolume
  BY <1>19 DEF DirtyWhere, RemountVolume, CheckedGoto, FailWith, handleVars
<1>20. CASE CopyFiles
  BY <1>20 DEF DirtyWhere, CopyFiles, Did, Unreported, FailIfNone, IsError, handleVars
<1>21. CASE ExtractZip
  BY <1>21 DEF DirtyWhere, ExtractZip, handleVars
<1>22. CASE CleanUp
  BY <1>22 DEF DirtyWhere, CleanUp, CloseLogical, ClosePhysical, handleVars
<1>23. CASE UserCancel
  BY <1>23 DEF DirtyWhere, UserCancel, handleVars
<1>24. CASE UNCHANGED vars
  BY <1>24 DEF DirtyWhere, vars, handleVars
<1>. QED
  BY <1>1, <1>2, <1>3, <1>4, <1>5, <1>6, <1>7, <1>8, <1>9, <1>10, <1>11, <1>12,
     <1>13, <1>14, <1>15, <1>16, <1>17, <1>18, <1>19, <1>20, <1>21, <1>22, <1>23,
     <1>24
  DEF Next, Thread, Finished

\* ErrorStatus, once the user has set it, is overwritten by an error and never
\* cleared, but by DeletePartitions, which records that in cancel.
LEMMA CancelStep == TypeOK /\ CancelKept /\ [Next]_vars => CancelKept'
<1> SUFFICES ASSUME TypeOK, CancelKept, [Next]_vars PROVE CancelKept'
  OBVIOUS
<1>1. CASE OpenDrive
  BY <1>1 DEF TypeOK, CancelKept, OpenDrive, GetPhysicalHandle, FailWith, handleVars
<1>2. CASE Letters
  BY <1>2 DEF TypeOK, CancelKept, Letters, FailWith, handleVars
<1>3. CASE DeletePartitions
  BY <1>3 DEF TypeOK, CancelKept, DeletePartitions, ClosePhysical, handleVars
<1>4. CASE ReopenDrive
  BY <1>4 DEF TypeOK, CancelKept, ReopenDrive, GetPhysicalHandle, FailWith,
        handleVars
<1>5. CASE LogicalHandle
  BY <1>5 DEF TypeOK, CancelKept, LogicalHandle, CheckedGoto, FailWith, handleVars
<1>6. CASE BeginJob
  BY <1>6 DEF TypeOK, CancelKept, BeginJob, AfterClearing, WriteDrive, Did, Unreported, handleVars
<1>7. CASE ClearPartitions
  BY <1>7 DEF TypeOK, CancelKept, ClearPartitions, AfterClearing, Did, FailWith, handleVars
<1>8. CASE BadBlocksCheck
  BY <1>8 DEF TypeOK, CancelKept, BadBlocksCheck, FailIfNone, IsError, Unreported,
        Did, handleVars
<1>9. CASE ClearAfterCheck
  BY <1>9 DEF TypeOK, CancelKept, ClearAfterCheck, FailIfNone, IsError, handleVars
<1>10. CASE WriteImageFile
  BY <1>10 DEF TypeOK, CancelKept, WriteImageFile, WriteDrive, ClosePhysical, Did,
        Unreported, IsError, handleVars
<1>11. CASE Partition
  BY <1>11 DEF TypeOK, CancelKept, Partition, FailWith, Did, ClosePhysical,
        handleVars
<1>12. CASE WaitVolume
  BY <1>12 DEF TypeOK, CancelKept, WaitVolume, CheckedGoto, FailWith, FailIfNone,
        IsError, handleVars
<1>13. CASE FormatPersistence
  BY <1>13 DEF TypeOK, CancelKept, FormatPersistence, Did, FailIfNone, IsError,
        handleVars
<1>14. CASE FormatVolume
  BY <1>14 DEF TypeOK, CancelKept, FormatVolume, IsError, Did, Unreported,
        handleVars
<1>15. CASE GetBackDrive
  BY <1>15 DEF TypeOK, CancelKept, GetBackDrive, GetPhysicalHandle, FailWith,
        handleVars
<1>16. CASE WriteBootRecord
  BY <1>16 DEF TypeOK, CancelKept, WriteBootRecord, Did, FailIfNone, IsError,
        handleVars
<1>17. CASE MountVolume
  BY <1>17 DEF TypeOK, CancelKept, MountVolume, CheckedGoto, FailWith, handleVars
<1>18. CASE InstallBoot
  BY <1>18 DEF TypeOK, CancelKept, InstallBoot, CheckedGoto, Did, FailWith,
        FailIfNone, IsError, Unreported, WritePartitionBootRecord, handleVars
<1>19. CASE RemountVolume
  BY <1>19 DEF TypeOK, CancelKept, RemountVolume, CheckedGoto, FailWith, handleVars
<1>20. CASE CopyFiles
  BY <1>20 DEF TypeOK, CancelKept, CopyFiles, Did, Unreported, FailIfNone, IsError, handleVars
<1>21. CASE ExtractZip
  BY <1>21 DEF TypeOK, CancelKept, ExtractZip, handleVars
<1>22. CASE CleanUp
  BY <1>22 DEF TypeOK, CancelKept, CleanUp, CloseLogical, ClosePhysical, handleVars
<1>23. CASE UserCancel
  BY <1>23 DEF TypeOK, CancelKept, UserCancel, handleVars
<1>24. CASE UNCHANGED vars
  BY <1>24 DEF TypeOK, CancelKept, vars, handleVars
<1>. QED
  BY <1>1, <1>2, <1>3, <1>4, <1>5, <1>6, <1>7, <1>8, <1>9, <1>10, <1>11, <1>12,
     <1>13, <1>14, <1>15, <1>16, <1>17, <1>18, <1>19, <1>20, <1>21, <1>22, <1>23,
     <1>24
  DEF Next, Thread, Finished

-----------------------------------------------------------------------------
\* The thread starts with the drive closed, nothing done and nothing cancelled.
LEMMA Start == Init => IInv
<1> SUFFICES ASSUME Init PROVE IInv
  OBVIOUS
<1>1. job.lock \in BOOLEAN
  BY Zenon DEF Init, Jobs
<1>2. BooleansOK
  BY <1>1, Zenon DEF Init, BooleansOK
<1>3. RestOK
  BY FormatAssumption DEF Init, RestOK, PCs
<1>4. TypeOK
  BY <1>2, <1>3 DEF Init, TypeOK, BooleansOK, RestOK
<1>5. HandlesHeld
  BY Zenon DEF Init, HandlesHeld, WithDrive, WhileFormatting, WithoutVolume
<1>6. StepsBehind /\ DirtyWhere /\ CancelKept
  BY DEF Init, StepsBehind, DirtyWhere, CancelKept, WhileFormatting, AfterPartition,
        AfterFormat, AfterBootRecord, AfterBoot
<1>. QED
  BY <1>4, <1>5, <1>6 DEF IInv

\* The invariant of FormatThread holds, whatever the job, the failures of its steps
\* and the moment at which the user cancels.
THEOREM Invariance == Spec => []IInv
<1>1. Init => IInv
  BY Start
<1>2. IInv /\ [Next]_vars => IInv'
  BY TypeStep, HandlesStep, StepsStep, DirtyStep, CancelStep DEF IInv
<1>. QED
  BY <1>1, <1>2, PTL DEF Spec

\* The state of FormatThread always has its type: in particular there is never more
\* than one handle of the drive or of its volume, and the retries are bounded.
THEOREM TypeCorrect == Spec => []TypeOK
<1>1. IInv => TypeOK
  BY DEF IInv
<1>. QED
  BY <1>1, Invariance, PTL

\* out: gives everything back: when the thread has ended, by whichever of its exits,
\* it holds no handle and has left no volume mounted.
THEOREM ThreadLeavesNothing == Spec => []EverythingReleased
<1>1. IInv => EverythingReleased
  BY DEF IInv, HandlesHeld, EverythingReleased
<1>. QED
  BY <1>1, Invariance, PTL

\* The writing steps have the drive open for writing, and the formatter has it to
\* itself, however the handles were closed and reopened on the way.
THEOREM StepsHaveTheirHandles == Spec => []HandlesFitTheStep
<1>1. IInv => HandlesFitTheStep
  BY DEF IInv, HandlesHeld, HandlesFitTheStep, WithDrive, WhileFormatting, WithoutVolume
<1>. QED
  BY <1>1, Invariance, PTL

\* No step after the bad blocks check meets the patterns it wrote.
THEOREM CheckIsCleared == Spec => []CleanAfterCheck
<1>1. IInv => CleanAfterCheck
  BY DEF IInv, DirtyWhere, CleanAfterCheck
<1>. QED
  BY <1>1, Invariance, PTL

\* A thread that ends with no error to report, and with no failure of those it does
\* not report, has done all that the job calls for.
THEOREM ReadyIsComplete == Spec => []ReadyMeansDone
<1>1. IInv => ReadyMeansDone
  BY Zenon DEF IInv, StepsBehind, ReadyMeansDone
<1>. QED
  BY <1>1, Invariance, PTL

\* A cancellation that DeletePartition did not erase is still reported at the end.
THEOREM CancellationReported == Spec => []CancelIsReported
<1>1. IInv => CancelIsReported
  BY DEF IInv, CancelKept, CancelIsReported
<1>. QED
  BY <1>1, Invariance, PTL

=============================================================================
