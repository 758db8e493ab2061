---------------------------- MODULE DriveAccess ----------------------------
(***************************************************************************)
(* win_drive.c, GetHandle with bLockDrive: FormatThread opens the drive,   *)
(* with retries, and locks it. When it cannot, it asks the process search  *)
(* who has the drive open, and goes on without the lock if all that it saw *)
(* were readers. Composed with the search: the window sets it when a drive *)
(* is selected, asks it when Start is pressed (UM_FORMAT_START), and       *)
(* formats.                                                                *)
(***************************************************************************)
EXTENDS ProcessSearch

CONSTANT DRIVE_ACCESS_RETRIES

ASSUME RetriesAssumption == DRIVE_ACCESS_RETRIES \in Nat \ {0}

VARIABLES
    gh,              \* where GetHandle is
    i, bWriteShare, access_mask, hDrive, locked,
    ErrorStatus      \* the user has cancelled

ghVars == <<gh, i, bWriteShare, access_mask, hDrive, locked, ErrorStatus>>
vars == <<searchVars, ghVars>>

\* The search, the window and GetHandle have their types.
TypeOK ==
    /\ SearchTypeOK
    /\ gh \in {"idle", "open", "ask_open", "lock", "ask_lock", "have"}
    /\ i \in 0..DRIVE_ACCESS_RETRIES /\ bWriteShare \in BOOLEAN
    /\ access_mask \subseteq All /\ hDrive \in BOOLEAN /\ locked \in BOOLEAN
    /\ ErrorStatus \in BOOLEAN

Init ==
    /\ SearchInit
    /\ gh = "idle" /\ i = 0 /\ bWriteShare = FALSE /\ access_mask = {}
    /\ hDrive = FALSE /\ locked = FALSE /\ ErrorStatus = FALSE

-----------------------------------------------------------------------------
\* The window handles a selection only while nothing is in progress.
Select ==
    /\ gh = "idle"
    /\ \E d \in Drives \cup {None} : SelectDevice(d)
    /\ UNCHANGED ghVars

\* GetHandle returns with no handle; its locals are gone.
Fails == /\ gh' = "idle" /\ hDrive' = FALSE /\ i' = 0
         /\ access_mask' = {} /\ bWriteShare' = FALSE

\* UM_FORMAT_START: processes that write to the drive are warned of; then, or
\* after an earlier handle, FormatThread opens the drive.
WarnOfProcesses ==
    /\ gh = "idle" /\ main = "idle" /\ wanted # None
    /\ GetProcessSearch({"w"}, TRUE)
    /\ gh' = "open" /\ ErrorStatus' = FALSE
    /\ UNCHANGED <<i, access_mask, bWriteShare, hDrive, locked>>
    /\ UNCHANGED <<hSearchProcessThread, thread, shared, threadLocals, main, wanted,
                   holders, selects, changes, steady, ever, crowded, searched, terminated>>

\* CreateFile gives the drive without write sharing only if nobody writes to it.
OpenDrive ==
    /\ gh = "open" /\ i < DRIVE_ACCESS_RETRIES
    /\ \/ /\ bWriteShare \/ holders[wanted] \cap Writers = {}
          /\ hDrive' = TRUE /\ gh' = "lock" /\ i' = 0
          /\ UNCHANGED <<bWriteShare, access_mask>>
       \/ /\ IF ~ bWriteShare /\ i > 0 /\ i > DRIVE_ACCESS_RETRIES \div 3
             THEN gh' = "ask_open" /\ UNCHANGED i    \* access denied for some time
             ELSE gh' = "open" /\ i' = i + 1
          /\ UNCHANGED <<hDrive, bWriteShare, access_mask>>
       \/ Fails                                      \* another error
    /\ UNCHANGED <<searchVars, locked, ErrorStatus>>

\* access_mask = GetProcessSearch(SEARCH_PROCESS_TIMEOUT, 0x07, FALSE)
Seen == UNION {Rights(p) : p \in report'.pids}

Ask ==
    /\ GetProcessSearch(All, FALSE)
    /\ UNCHANGED <<hSearchProcessThread, thread, shared, threadLocals, main, wanted,
                   holders, selects, changes, steady, ever, crowded, searched, terminated>>

AskWhileOpening ==
    /\ gh = "ask_open" /\ Ask
    /\ access_mask' = Seen
    /\ bWriteShare' = TRUE /\ gh' = "open" /\ i' = i + 1
    /\ UNCHANGED <<hDrive, locked, ErrorStatus>>

OpenFails ==
    /\ gh = "open" /\ i = DRIVE_ACCESS_RETRIES
    /\ Fails
    /\ UNCHANGED <<searchVars, locked, ErrorStatus>>

\* "Try to continue if the only access rights we saw were for read-only."
MayContinueUnlocked(mask) == mask = {"r"}

GiveUpLock(mask) ==
    IF MayContinueUnlocked(mask)
    THEN gh' = "have" /\ UNCHANGED <<hDrive, i, access_mask, bWriteShare>>
    ELSE Fails

\* Mutant: the loop does not look at the time.
LockForever ==
    /\ gh = "lock"
    /\ \/ /\ holders[wanted] = {}
          /\ locked' = TRUE /\ gh' = "have"
          /\ UNCHANGED <<i, hDrive, bWriteShare, access_mask>>
       \/ /\ ~ ErrorStatus /\ i' = i + 1
          /\ UNCHANGED <<gh, hDrive, bWriteShare, access_mask, locked>>
    /\ UNCHANGED <<searchVars, ErrorStatus>>

\* FSCTL_LOCK_VOLUME needs a drive that nobody else has open. The loop ends when
\* the user cancels or the time is over; the search is asked unless the user has
\* cancelled or it has been asked before.
LockDrive ==
    /\ gh = "lock"
    /\ \/ /\ holders[wanted] = {}
          /\ locked' = TRUE /\ gh' = "have"
          /\ UNCHANGED <<i, hDrive, bWriteShare, access_mask>>
       \/ /\ ~ ErrorStatus /\ i < DRIVE_ACCESS_RETRIES
          /\ i' = i + 1
          /\ UNCHANGED <<gh, hDrive, bWriteShare, access_mask, locked>>
       \/ /\ ErrorStatus \/ i = DRIVE_ACCESS_RETRIES
          /\ IF ~ ErrorStatus /\ access_mask = {}
             THEN gh' = "ask_lock" /\ UNCHANGED <<hDrive, i, bWriteShare, access_mask>>
             ELSE GiveUpLock(access_mask)
          /\ UNCHANGED locked
    /\ UNCHANGED <<searchVars, ErrorStatus>>

AskAfterLock ==
    /\ gh = "ask_lock" /\ Ask
    /\ GiveUpLock(Seen)
    /\ UNCHANGED <<locked, ErrorStatus>>

\* The caller closes the handle when it is done.
CloseDrive ==
    /\ gh = "have" /\ Fails /\ locked' = FALSE
    /\ UNCHANGED <<searchVars, ErrorStatus>>

\* UM_FORMAT_COMPLETED: after an error the window shows what the search has.
ShowProcesses ==
    /\ gh = "idle" /\ main = "idle" /\ Ask
    /\ ErrorStatus' = FALSE
    /\ UNCHANGED <<gh, i, bWriteShare, access_mask, hDrive, locked>>

UserCancel ==
    /\ gh # "idle" /\ ~ ErrorStatus /\ ErrorStatus' = TRUE
    /\ UNCHANGED <<searchVars, gh, i, bWriteShare, access_mask, hDrive, locked>>

\* FSCTL_LOCK_VOLUME keeps others from opening the drive.
Environment ==
    /\ HandleChanges
    /\ locked => holders'[wanted] \subseteq holders[wanted]
    /\ UNCHANGED ghVars

Thread == SearchProcessThread /\ UNCHANGED ghVars
Leaves == ThreadLeaves /\ UNCHANGED ghVars
Window == (StartProcessSearch \/ SetProcessSearch \/ StopProcessSearch)
          /\ UNCHANGED ghVars
GetHandle == OpenDrive \/ AskWhileOpening \/ OpenFails \/ LockDrive \/ AskAfterLock

Next == Select \/ WarnOfProcesses \/ GetHandle \/ CloseDrive \/ ShowProcesses
        \/ UserCancel \/ Environment \/ Thread \/ Leaves \/ Window

\* The threads are scheduled, and a snapshot that is tried again and again succeeds;
\* the user and the other processes do as they like.
Spec == Init /\ [][Next]_vars /\ WF_vars(Thread) /\ WF_vars(Window)
        /\ WF_vars(Thread /\ thread = "loop" /\ thread' # "loop")

-----------------------------------------------------------------------------
\* A drive that a process has had open ever since it was selected is never reported
\* as free, whatever was selected before: results are given out after a whole pass
\* over the drive only, and entries of this drive push out those of another.
BlockedDriveIsNotFree ==
    (report.valid /\ report.mask = All /\ report.steady # {}) => report.pids # {}

\* GetHandle goes on without the lock only after a whole pass over this drive, and
\* with none but readers in the list. These may be left from the drive selected
\* before, as entries are pruned only when a process is stored; but not if anyone has
\* had this drive open since it was selected. And after two passes with room in the
\* list for all, nobody has had it open for writing since then.
UnlockedIsInformed ==
    (gh = "have" /\ ~ locked) =>
        /\ report.valid /\ report.searched
        /\ report.pids # {} /\ report.pids \cap Writers = {}
        /\ report.steady # {} => report.pids \subseteq report.ever
        /\ report.settled => report.steady \cap Writers = {}

\* Once set, the search gets through a pass over the selected drive, unless its
\* thread leaves or the selection changes. It does not if Windows has no names for
\* the drive, for which the thread only sleeps; and a thread that had to be
\* terminated leaves a lock behind that the next one does not survive.
SearchFollowsSelection ==
    (bActive /\ main = "idle" /\ wHandleName # None /\ ~ terminated) ~>
        (searched \/ main # "idle" \/ thread \in {"out", "none"})

\* win_rufus.c: "Detect processes that have write (0x2) or exec (0x4) permissions
\* against our drive", before the user is warned that its data will be destroyed.
WritersAreDetected ==
    (report.valid /\ report.mask = {"w"}) =>
        report.steady \cap Writers \subseteq report.pids
=============================================================================
