-------------------------- MODULE DriveAccessProofs --------------------------
(***************************************************************************)
(* The search for blocking processes (process.c) and GetHandle, which asks *)
(* it (win_drive.c), for any number of processes, drives and entries.      *)
(*                                                                         *)
(* The argument: as long as the two versions of the names differ, the      *)
(* thread has not seen the drive that was selected last; once they agree,  *)
(* it looks at that drive (NamesAgree). So when a result is given out, a   *)
(* pass over the selected drive has ended, and any process that had it     *)
(* open all the time was met in that pass, after which the list cannot be  *)
(* empty (PassFinds): the first process stored has pushed out the entries  *)
(* of another drive, and from the second pass on none is lost for whom     *)
(* there was an entry (PassRemembers). While GetHandle runs nothing can be *)
(* selected, so that what it was told remains what it goes by              *)
(* (HandleKnows).                                                          *)
(***************************************************************************)
EXTENDS DriveAccess, WellFoundedInduction, TLAPS

\* The thread has set up blocking_process and is in its loop, or on its way to it.
Ready == {"check", "await", "loop", "pass"}

\* Where the thread is, and what there is of it.
ThreadPlace ==
    /\ ~ hSearchProcessThread => thread = "none"
    /\ thread \in Ready => hLock
    /\ (hSearchProcessThread /\ thread = "none") => ~ hLock
    /\ thread = "pass" => nPass < MaxPass
    /\ main \in {"starting", "setting"} => wanted \in Drives
    /\ (thread \in {"check", "await"} /\ hStart /\ main # "stopping") => bActive
    /\ (thread \in {"loop", "pass"} /\ ~ bActive) => main = "stopping"

\* The versions count the selections, and tell whether the thread has the names of
\* the drive that was selected last.
NamesAgree ==
    /\ nVersion[1] <= nVersion[0]
    /\ nVersion[0] + (IF main \in {"starting", "setting"} THEN 1 ELSE 0) <= selects
    /\ (thread \in {"check", "await"} /\ nVersion[0] = nVersion[1]) => ~ bActive /\ ~ hStart
    /\ (thread \in Ready /\ nVersion[0] # nVersion[1]) =>
           (main = "idle" /\ wHandleName # None => wHandleName = wanted)
    /\ (thread \in {"loop", "pass"} /\ nVersion[0] = nVersion[1]) =>
           /\ my_names \in Drives
           /\ main = "idle" => my_names = wanted

\* GetProcessSearch has a result to give.
HasResult ==
    /\ hSearchProcessThread /\ hLock /\ main = "idle"
    /\ nVersion[0] = nVersion[1] /\ nPass >= 1

\* Whoever has had the drive open since it was selected is yet to be met in the
\* first pass, or was met and has left an entry.
PassFinds ==
    /\ wanted = None => steady = {}
    /\ wanted # None => steady \subseteq holders[wanted]
    /\ HasResult => searched /\ (steady = {} \/ Listed # {})
    /\ (thread = "pass" /\ main = "idle" /\ nVersion[0] = nVersion[1]) =>
           (steady \subseteq todo \/ Listed # {})

\* Process p has an entry, of pass n or a later one, among the entries e.
SeenIn(e, p, n) == \E s \in Slots : e[s].pid = p /\ e[s].seen_on_pass >= n

\* The first process that is stored for a drive pushes out the entries of another
\* drive; from the second pass on, an entry stays until its process has been met
\* again, unless there was no entry for it.
PassRemembers ==
    /\ wanted # None => holders[wanted] \subseteq ever
    /\ HasResult => (steady = {} \/ Listed \subseteq ever)
    /\ (HasResult /\ thread # "pass" /\ nPass >= 2 /\ ~ crowded) =>
           \A p \in steady : SeenIn(Process, p, nPass - 1)
    /\ (thread = "pass" /\ main = "idle" /\ nVersion[0] = nVersion[1]) =>
           /\ todo \subseteq ever
           /\ steady = {} \/ Listed \subseteq ever \/ (nPass = 0 /\ steady \subseteq todo)
           /\ (nPass >= 1 /\ ~ crowded) =>
                  \A p \in steady : \/ SeenIn(Process, p, nPass)
                                    \/ p \in todo /\ (nPass = 1 \/ SeenIn(Process, p, nPass - 1))

\* What the processes of a report may do to the drive.
ReportedRights == UNION {Rights(p) : p \in report.pids}

\* What a report tells of the drive that is selected.
ReportTells ==
    /\ report.valid => report.searched
    /\ ~ report.valid => report.pids = {}
    /\ report.steady # {} => report.pids \subseteq report.ever
    /\ report.mask = All /\ report.settled => report.steady \subseteq report.pids
    /\ BlockedDriveIsNotFree

\* What GetHandle goes by.
HandleKnows ==
    /\ gh # "idle" => main = "idle"
    /\ gh = "idle" => access_mask = {}
    /\ access_mask # {} => access_mask = ReportedRights /\ report.mask = All
    /\ gh = "ask_lock" => access_mask = {}
    /\ gh = "ask_open" => i < DRIVE_ACCESS_RETRIES
    /\ gh # "have" => ~ locked
    /\ ReportTells
    /\ UnlockedIsInformed

\* The inductive invariant.
IInv == TypeOK /\ ThreadPlace /\ NamesAgree /\ PassFinds /\ PassRemembers /\ HandleKnows

-----------------------------------------------------------------------------
\* The variables of the search but for the report that it gives out.
searchCore ==
    <<hSearchProcessThread, thread, shared, threadLocals, main, wanted, holders,
      selects, changes, steady, ever, crowded, searched, terminated>>

\* The steps of GetHandle and of its callers (win_drive.c, win_rufus.c).
HandleAction ==
    \/ WarnOfProcesses \/ OpenDrive \/ AskWhileOpening \/ OpenFails \/ LockDrive
    \/ AskAfterLock \/ CloseDrive \/ ShowProcesses \/ UserCancel

\* GetHandle only asks: it leaves the search as it is.
LEMMA HandleSteps == HandleAction \/ UNCHANGED vars => UNCHANGED searchCore
  BY DEF HandleAction, WarnOfProcesses, OpenDrive, AskWhileOpening, Ask, OpenFails,
        LockDrive, AskAfterLock, CloseDrive, ShowProcesses, UserCancel, vars, searchCore, searchVars,
        shared, threadLocals, history

\* The flags among the variables.
Flags ==
    /\ hSearchProcessThread \in BOOLEAN /\ bActive \in BOOLEAN /\ hLock \in BOOLEAN
    /\ hStart \in BOOLEAN /\ searched \in BOOLEAN /\ terminated \in BOOLEAN
    /\ crowded \in BOOLEAN
    /\ bWriteShare \in BOOLEAN /\ hDrive \in BOOLEAN /\ locked \in BOOLEAN
    /\ ErrorStatus \in BOOLEAN

\* The flags of the search (process.c) and of GetHandle (win_drive.c) stay flags.
LEMMA FlagsStep == TypeOK /\ [Next]_vars => Flags'
<1> SUFFICES ASSUME TypeOK, [Next]_vars PROVE Flags'
  OBVIOUS
<1>1. CASE Select
  BY <1>1, Zenon DEF TypeOK, SearchTypeOK, Flags, Select, SelectDevice, searchVars,
        shared, threadLocals, history, ghVars
<1>2. CASE ThreadInit /\ UNCHANGED ghVars
  BY <1>2, Zenon DEF TypeOK, SearchTypeOK, Flags, ThreadInit, searchVars, shared,
        threadLocals, history, ghVars
<1>3. CASE ThreadAwait /\ UNCHANGED ghVars
  BY <1>3, Zenon DEF TypeOK, SearchTypeOK, Flags, ThreadAwait, searchVars, shared,
        threadLocals, history, ghVars
<1>4. CASE ThreadLoop /\ UNCHANGED ghVars
  BY <1>4, Zenon DEF TypeOK, SearchTypeOK, Flags, ThreadLoop, UpdateNames, CopyNames, searchVars,
        shared, threadLocals, history, ghVars
<1>5. CASE StoreProcess /\ UNCHANGED ghVars
  BY <1>5, Zenon DEF TypeOK, SearchTypeOK, Flags, StoreProcess, Store, searchVars,
        shared, threadLocals, history, ghVars
<1>6. CASE EndPass /\ UNCHANGED ghVars
  BY <1>6, Zenon DEF TypeOK, SearchTypeOK, Flags, EndPass, searchVars, shared,
        threadLocals, history, ghVars
<1>7. CASE ThreadOut /\ UNCHANGED ghVars
  BY <1>7, Zenon DEF TypeOK, SearchTypeOK, Flags, ThreadOut, searchVars, shared,
        threadLocals, history, ghVars
<1>8. CASE Leaves
  BY <1>8, Zenon DEF TypeOK, SearchTypeOK, Flags, Leaves, ThreadLeaves, searchVars,
        shared, threadLocals, history, ghVars
<1>9. CASE StartProcessSearch /\ UNCHANGED ghVars
  BY <1>9, Zenon DEF TypeOK, SearchTypeOK, Flags, StartProcessSearch, Terminate,
        searchVars, shared, threadLocals, history, ghVars
<1>10. CASE SetProcessSearch /\ UNCHANGED ghVars
  BY <1>10, Zenon DEF TypeOK, SearchTypeOK, Flags, SetProcessSearch, searchVars,
        shared, threadLocals, history, ghVars
<1>11. CASE StopProcessSearch /\ UNCHANGED ghVars
  BY <1>11, Zenon DEF TypeOK, SearchTypeOK, Flags, StopProcessSearch, Terminate,
        searchVars, shared, threadLocals, history, ghVars
<1>12. CASE Environment
  BY <1>12, Zenon DEF TypeOK, SearchTypeOK, Flags, Environment, HandleChanges,
        searchVars, shared, threadLocals, history, ghVars
<1>13. CASE WarnOfProcesses
  BY <1>13, Zenon DEF TypeOK, SearchTypeOK, Flags, WarnOfProcesses,
        GetProcessSearch, searchVars, shared, threadLocals, history, ghVars
<1>14. CASE OpenDrive
  BY <1>14, Zenon DEF TypeOK, SearchTypeOK, Flags, OpenDrive, Fails, searchVars,
        shared, threadLocals, history, ghVars
<1>15. CASE AskWhileOpening
  BY <1>15, Zenon DEF TypeOK, SearchTypeOK, Flags, AskWhileOpening, Ask,
        GetProcessSearch, searchVars, shared, threadLocals, history, ghVars
<1>16. CASE OpenFails
  BY <1>16, Zenon DEF TypeOK, SearchTypeOK, Flags, OpenFails, Fails, searchVars,
        shared, threadLocals, history, ghVars
<1>17. CASE LockDrive
  BY <1>17, Zenon DEF TypeOK, SearchTypeOK, Flags, LockDrive, GiveUpLock,
        MayContinueUnlocked, Fails, searchVars, shared, threadLocals, history,
        ghVars
<1>18. CASE AskAfterLock
  BY <1>18, Zenon DEF TypeOK, SearchTypeOK, Flags, AskAfterLock, Ask,
        GetProcessSearch, GiveUpLock, MayContinueUnlocked, Fails, searchVars,
        shared, threadLocals, history, ghVars
<1>19. CASE CloseDrive
  BY <1>19, Zenon DEF TypeOK, SearchTypeOK, Flags, CloseDrive, Fails, searchVars,
        shared, threadLocals, history, ghVars
<1>20. CASE UserCancel
  BY <1>20, Zenon DEF TypeOK, SearchTypeOK, Flags, UserCancel, searchVars, shared,
        threadLocals, history, ghVars
<1>21. CASE UNCHANGED vars
  BY <1>21, Zenon DEF TypeOK, SearchTypeOK, Flags, vars, searchVars, shared,
        threadLocals, history, ghVars
<1>22. CASE ShowProcesses
  BY <1>22, Zenon DEF TypeOK, SearchTypeOK, Flags, ShowProcesses, Ask,
        GetProcessSearch, searchVars, shared, threadLocals, history, ghVars
<1>. QED
  BY <1>1, <1>2, <1>3, <1>4, <1>5, <1>6, <1>7, <1>8, <1>9, <1>10, <1>11, <1>12,
        <1>13, <1>14, <1>15, <1>16, <1>17, <1>18, <1>19, <1>20, <1>21, <1>22
  DEF Next, GetHandle, Thread, SearchProcessThread, Window

\* The thread, its lock and the main window stay together.
LEMMA PlaceStep == TypeOK /\ ThreadPlace /\ NamesAgree /\ [Next]_vars => ThreadPlace'
<1> SUFFICES ASSUME TypeOK, ThreadPlace, NamesAgree, [Next]_vars PROVE ThreadPlace'
  OBVIOUS
<1>1. CASE Select
  BY <1>1, SearchAssumption DEF TypeOK, SearchTypeOK, ThreadPlace, NamesAgree,
        Ready, Select, SelectDevice, searchVars, shared, threadLocals, history,
        ghVars
<1>2. CASE ThreadInit /\ UNCHANGED ghVars
  BY <1>2, SearchAssumption DEF TypeOK, SearchTypeOK, ThreadPlace, NamesAgree,
        Ready, ThreadInit, searchVars, shared, threadLocals, history, ghVars
<1>3. CASE ThreadAwait /\ UNCHANGED ghVars
  BY <1>3, SearchAssumption DEF TypeOK, SearchTypeOK, ThreadPlace, NamesAgree,
        Ready, ThreadAwait, searchVars, shared, threadLocals, history, ghVars
<1>4. CASE ThreadLoop /\ UNCHANGED ghVars
  BY <1>4, SearchAssumption DEF TypeOK, SearchTypeOK, ThreadPlace, NamesAgree,
        Ready, ThreadLoop, UpdateNames, CopyNames, searchVars, shared, threadLocals, history,
        ghVars
<1>5. CASE StoreProcess /\ UNCHANGED ghVars
  BY <1>5, SearchAssumption DEF TypeOK, SearchTypeOK, ThreadPlace, NamesAgree,
        Ready, StoreProcess, Store, searchVars, shared, threadLocals, history,
        ghVars
<1>6. CASE EndPass /\ UNCHANGED ghVars
  BY <1>6, SearchAssumption DEF TypeOK, SearchTypeOK, ThreadPlace, NamesAgree,
        Ready, EndPass, searchVars, shared, threadLocals, history, ghVars
<1>7. CASE ThreadOut /\ UNCHANGED ghVars
  BY <1>7, SearchAssumption DEF TypeOK, SearchTypeOK, ThreadPlace, NamesAgree,
        Ready, ThreadOut, searchVars, shared, threadLocals, history, ghVars
<1>8. CASE Leaves
  BY <1>8, SearchAssumption DEF TypeOK, SearchTypeOK, ThreadPlace, NamesAgree,
        Ready, Leaves, ThreadLeaves, searchVars, shared, threadLocals, history,
        ghVars
<1>9. CASE StartProcessSearch /\ UNCHANGED ghVars
  BY <1>9, SearchAssumption DEF TypeOK, SearchTypeOK, ThreadPlace, NamesAgree,
        Ready, StartProcessSearch, Terminate, searchVars, shared, threadLocals,
        history, ghVars
<1>10. CASE SetProcessSearch /\ UNCHANGED ghVars
  BY <1>10, SearchAssumption DEF TypeOK, SearchTypeOK, ThreadPlace, NamesAgree,
        Ready, SetProcessSearch, searchVars, shared, threadLocals, history, ghVars
<1>11. CASE StopProcessSearch /\ UNCHANGED ghVars
  BY <1>11, SearchAssumption DEF TypeOK, SearchTypeOK, ThreadPlace, NamesAgree,
        Ready, StopProcessSearch, Terminate, searchVars, shared, threadLocals,
        history, ghVars
<1>12. CASE Environment
  BY <1>12, SearchAssumption DEF TypeOK, SearchTypeOK, ThreadPlace, NamesAgree,
        Ready, Environment, HandleChanges, searchVars, shared, threadLocals,
        history, ghVars
<1>13. CASE UNCHANGED searchCore
  BY <1>13, SearchAssumption DEF TypeOK, SearchTypeOK, ThreadPlace, NamesAgree,
        Ready, searchCore, shared, threadLocals
<1>. QED
  BY <1>1, <1>2, <1>3, <1>4, <1>5, <1>6, <1>7, <1>8, <1>9, <1>10, <1>11, <1>12,
        <1>13, HandleSteps
  DEF HandleAction, Next, GetHandle, Thread, SearchProcessThread, Window

\* Selecting a drive, handing its names over and copying them keep the versions in order.
LEMMA NamesStep == TypeOK /\ ThreadPlace /\ NamesAgree /\ [Next]_vars => NamesAgree'
<1> SUFFICES ASSUME TypeOK, ThreadPlace, NamesAgree, [Next]_vars PROVE NamesAgree'
  OBVIOUS
<1>1. CASE Select
  BY <1>1, SearchAssumption DEF TypeOK, SearchTypeOK, ThreadPlace, NamesAgree,
        Ready, Select, SelectDevice, searchVars, shared, threadLocals, history,
        ghVars
<1>2. CASE ThreadInit /\ UNCHANGED ghVars
  BY <1>2, SearchAssumption DEF TypeOK, SearchTypeOK, ThreadPlace, NamesAgree,
        Ready, ThreadInit, searchVars, shared, threadLocals, history, ghVars
<1>3. CASE ThreadAwait /\ UNCHANGED ghVars
  BY <1>3, SearchAssumption DEF TypeOK, SearchTypeOK, ThreadPlace, NamesAgree,
        Ready, ThreadAwait, searchVars, shared, threadLocals, history, ghVars
<1>4. CASE ThreadLoop /\ UNCHANGED ghVars
  BY <1>4, SearchAssumption DEF TypeOK, SearchTypeOK, ThreadPlace, NamesAgree,
        Ready, ThreadLoop, UpdateNames, CopyNames, searchVars, shared, threadLocals, history,
        ghVars
<1>5. CASE StoreProcess /\ UNCHANGED ghVars
  BY <1>5, SearchAssumption DEF TypeOK, SearchTypeOK, ThreadPlace, NamesAgree,
        Ready, StoreProcess, Store, searchVars, shared, threadLocals, history,
        ghVars
<1>6. CASE EndPass /\ UNCHANGED ghVars
  BY <1>6, SearchAssumption DEF TypeOK, SearchTypeOK, ThreadPlace, NamesAgree,
        Ready, EndPass, searchVars, shared, threadLocals, history, ghVars
<1>7. CASE ThreadOut /\ UNCHANGED ghVars
  BY <1>7, SearchAssumption DEF TypeOK, SearchTypeOK, ThreadPlace, NamesAgree,
        Ready, ThreadOut, searchVars, shared, threadLocals, history, ghVars
<1>8. CASE Leaves
  BY <1>8, SearchAssumption DEF TypeOK, SearchTypeOK, ThreadPlace, NamesAgree,
        Ready, Leaves, ThreadLeaves, searchVars, shared, threadLocals, history,
        ghVars
<1>9. CASE StartProcessSearch /\ UNCHANGED ghVars
  BY <1>9, SearchAssumption DEF TypeOK, SearchTypeOK, ThreadPlace, NamesAgree,
        Ready, StartProcessSearch, Terminate, searchVars, shared, threadLocals,
        history, ghVars
<1>10. CASE SetProcessSearch /\ UNCHANGED ghVars
  BY <1>10, SearchAssumption DEF TypeOK, SearchTypeOK, ThreadPlace, NamesAgree,
        Ready, SetProcessSearch, searchVars, shared, threadLocals, history, ghVars
<1>11. CASE StopProcessSearch /\ UNCHANGED ghVars
  BY <1>11, SearchAssumption DEF TypeOK, SearchTypeOK, ThreadPlace, NamesAgree,
        Ready, StopProcessSearch, Terminate, searchVars, shared, threadLocals,
        history, ghVars
<1>12. CASE Environment
  BY <1>12, SearchAssumption DEF TypeOK, SearchTypeOK, ThreadPlace, NamesAgree,
        Ready, Environment, HandleChanges, searchVars, shared, threadLocals,
        history, ghVars
<1>13. CASE UNCHANGED searchCore
  BY <1>13, SearchAssumption DEF TypeOK, SearchTypeOK, ThreadPlace, NamesAgree,
        Ready, searchCore, shared, threadLocals
<1>. QED
  BY <1>1, <1>2, <1>3, <1>4, <1>5, <1>6, <1>7, <1>8, <1>9, <1>10, <1>11, <1>12,
        <1>13, HandleSteps
  DEF HandleAction, Next, GetHandle, Thread, SearchProcessThread, Window

\* The other variables of the search.
SearchRest ==
    /\ thread \in {"none", "init", "check", "await", "loop", "pass", "out"}
    /\ nVersion \in [{0, 1} -> 0..MaxSelect]
    /\ wHandleName \in Drives \cup {None} /\ my_names \in Drives \cup {None}
    /\ Process \in [Slots -> [pid : Pids \cup {None}, seen_on_pass : 0..MaxPass]]
    /\ nPass \in 0..MaxPass /\ todo \subseteq Pids
    /\ main \in {"idle", "starting", "setting", "stopping"} /\ wanted \in Drives \cup {None}
    /\ holders \in [Drives -> SUBSET Pids]
    /\ selects \in 0..MaxSelect /\ changes \in 0..MaxChange
    /\ steady \subseteq Pids /\ ever \subseteq Pids

\* A report of GetProcessSearch.
Reports == [valid : BOOLEAN, mask : Masks, pids : SUBSET Pids, steady : SUBSET Pids,
            ever : SUBSET Pids, settled : BOOLEAN, searched : BOOLEAN]

\* The variables of GetHandle.
HandleRest ==
    /\ gh \in {"idle", "open", "ask_open", "lock", "ask_lock", "have"}
    /\ i \in 0..DRIVE_ACCESS_RETRIES /\ access_mask \subseteq All

\* The type invariant is the sum of these.
LEMMA TypeParts ==
    TypeOK <=> Flags /\ SearchRest /\ report \in Reports /\ HandleRest
  BY Zenon DEF TypeOK, SearchTypeOK, Flags, SearchRest, Reports, HandleRest

\* An entry of the list is a process, seen on some pass, or empty.
LEMMA StoreType ==
    ASSUME SearchRest, NEW p \in Pids, Store(p)
    PROVE  Process' \in [Slots -> [pid : Pids \cup {None}, seen_on_pass : 0..MaxPass]]
<1> DEFINE Entries == [pid : Pids \cup {None}, seen_on_pass : 0..MaxPass]
<1>1. Empty \in Entries /\ [pid |-> p, seen_on_pass |-> nPass] \in Entries
  BY SearchAssumption DEF Empty, SearchRest
<1>2. \A s \in Slots : Process[s] \in Entries
  BY DEF SearchRest
<1> HIDE DEF Entries
<1>3. \A s \in Slots : Pruned[s] \in Entries
  BY <1>1, <1>2 DEF Pruned
<1>4. Process' \in [Slots -> Entries]
  BY <1>1, <1>3 DEF Store
<1>. QED
  BY <1>4 DEF Entries

\* The search keeps the types of its variables: passes and versions are bounded by what the
\* user does (MaxSelect), the list by its entries.
LEMMA SearchRestStep == SearchRest /\ ThreadPlace /\ NamesAgree /\ [Next]_vars => SearchRest'
<1> SUFFICES ASSUME SearchRest, ThreadPlace, NamesAgree, [Next]_vars PROVE SearchRest'
  OBVIOUS
<1>1. CASE Select
  BY <1>1, SearchAssumption DEF SearchRest, ThreadPlace, NamesAgree, Ready, Select,
        SelectDevice, searchVars, shared, threadLocals, history, ghVars
<1>2. CASE ThreadInit /\ UNCHANGED ghVars
  <2>1. Process' \in [Slots -> [pid : Pids \cup {None}, seen_on_pass : 0..MaxPass]]
    BY <1>2, SearchAssumption DEF ThreadInit, Empty
  <2>. QED
    BY <1>2, <2>1, SearchAssumption DEF SearchRest, ThreadInit, threadLocals, history
<1>3. CASE ThreadAwait /\ UNCHANGED ghVars
  BY <1>3, SearchAssumption DEF SearchRest, ThreadPlace, NamesAgree, Ready,
        ThreadAwait, searchVars, shared, threadLocals, history, ghVars
<1>4. CASE ThreadLoop /\ UNCHANGED ghVars
  BY <1>4, SearchAssumption DEF SearchRest, ThreadPlace, NamesAgree, Ready,
        ThreadLoop, UpdateNames, CopyNames, searchVars, shared, threadLocals, history, ghVars
<1>5. CASE StoreProcess /\ UNCHANGED ghVars
  <2>1. PICK p \in todo : /\ todo' = todo \ {p}
                          /\ Store(p) \/ UNCHANGED Process
    BY <1>5 DEF StoreProcess
  <2>2. Process' \in [Slots -> [pid : Pids \cup {None}, seen_on_pass : 0..MaxPass]]
    BY <2>1, StoreType DEF SearchRest
  <2>. QED
    BY <1>5, <2>1, <2>2 DEF SearchRest, StoreProcess, history
<1>6. CASE EndPass /\ UNCHANGED ghVars
  BY <1>6, SearchAssumption DEF SearchRest, ThreadPlace, NamesAgree, Ready, EndPass,
        searchVars, shared, threadLocals, history, ghVars
<1>7. CASE ThreadOut /\ UNCHANGED ghVars
  BY <1>7, SearchAssumption DEF SearchRest, ThreadPlace, NamesAgree, Ready,
        ThreadOut, searchVars, shared, threadLocals, history, ghVars
<1>8. CASE Leaves
  BY <1>8, SearchAssumption DEF SearchRest, ThreadPlace, NamesAgree, Ready, Leaves,
        ThreadLeaves, searchVars, shared, threadLocals, history, ghVars
<1>9. CASE StartProcessSearch /\ UNCHANGED ghVars
  BY <1>9, SearchAssumption DEF SearchRest, ThreadPlace, NamesAgree, Ready,
        StartProcessSearch, Terminate, searchVars, shared, threadLocals, history,
        ghVars
<1>10. CASE SetProcessSearch /\ UNCHANGED ghVars
  BY <1>10, SearchAssumption DEF SearchRest, ThreadPlace, NamesAgree, Ready,
        SetProcessSearch, searchVars, shared, threadLocals, history, ghVars
<1>11. CASE StopProcessSearch /\ UNCHANGED ghVars
  BY <1>11, SearchAssumption DEF SearchRest, ThreadPlace, NamesAgree, Ready,
        StopProcessSearch, Terminate, searchVars, shared, threadLocals, history,
        ghVars
<1>12. CASE Environment
  BY <1>12, SearchAssumption DEF SearchRest, ThreadPlace, NamesAgree, Ready,
        Environment, HandleChanges, searchVars, shared, threadLocals, history,
        ghVars
<1>13. CASE UNCHANGED searchCore
  BY <1>13, SearchAssumption DEF SearchRest, ThreadPlace, NamesAgree, Ready,
        searchCore, shared, threadLocals
<1>. QED
  BY <1>1, <1>2, <1>3, <1>4, <1>5, <1>6, <1>7, <1>8, <1>9, <1>10, <1>11, <1>12,
        <1>13, HandleSteps
  DEF HandleAction, Next, GetHandle, Thread, SearchProcessThread, Window

\* Whom GetProcessSearch can report.
LEMMA ListedType == SearchRest => Listed \subseteq Pids
  BY DEF SearchRest, Listed

\* A report of GetProcessSearch (process.c) is nothing, or what is listed.
LEMMA ReportType ==
    ASSUME SearchRest, Flags, NEW mask \in Masks, NEW stale,
           GetProcessSearch(mask, stale)
    PROVE  report' \in Reports
<1>1. CASE report' = [NoReport EXCEPT !.mask = mask]
  BY <1>1 DEF NoReport, Reports
<1>2. CASE \E pids \in SUBSET Listed :
               report' = [valid |-> TRUE, mask |-> mask, pids |-> pids,
                          steady |-> steady, ever |-> ever,
                          settled |-> (nPass >= 2 /\ ~ crowded), searched |-> searched]
  <2>1. PICK pids \in SUBSET Listed :
               report' = [valid |-> TRUE, mask |-> mask, pids |-> pids,
                          steady |-> steady, ever |-> ever,
                          settled |-> (nPass >= 2 /\ ~ crowded), searched |-> searched]
    BY <1>2
  <2>2. pids \in SUBSET Pids /\ steady \in SUBSET Pids /\ ever \in SUBSET Pids
    BY ListedType DEF SearchRest
  <2>3. searched \in BOOLEAN /\ TRUE \in BOOLEAN /\ (nPass >= 2 /\ ~ crowded) \in BOOLEAN
    BY Zenon DEF Flags
  <2>. QED
    BY <2>1, <2>2, <2>3 DEF Reports
<1>3. \/ report' = [NoReport EXCEPT !.mask = mask]
      \/ \E pids \in SUBSET Listed :
             report' = [valid |-> TRUE, mask |-> mask, pids |-> pids,
                        steady |-> steady, ever |-> ever,
                        settled |-> (nPass >= 2 /\ ~ crowded), searched |-> searched]
  BY Zenon DEF GetProcessSearch
<1>. QED
  BY <1>1, <1>2, <1>3

\* The report keeps its type.
LEMMA ReportStep ==
    TypeOK /\ [Next]_vars => report' \in Reports
<1> SUFFICES ASSUME TypeOK, [Next]_vars PROVE report' \in Reports
  OBVIOUS
<1>1. SearchRest /\ Flags /\ report \in Reports
  BY TypeParts
<1>2. {"w"} \in Masks /\ All \in Masks
  BY DEF Masks
<1>3. CASE WarnOfProcesses
  BY <1>1, <1>2, <1>3, ReportType DEF WarnOfProcesses
<1>4. CASE AskWhileOpening \/ AskAfterLock \/ ShowProcesses
  BY <1>1, <1>2, <1>4, ReportType DEF AskWhileOpening, AskAfterLock, ShowProcesses, Ask
<1>5. CASE Select
  BY <1>5, <1>2 DEF Select, SelectDevice, NoReport, Reports
<1>6. CASE UNCHANGED report
  BY <1>1, <1>6
<1>7. \/ WarnOfProcesses \/ AskWhileOpening \/ AskAfterLock \/ ShowProcesses \/ Select
      \/ UNCHANGED report
  BY DEF Next, GetHandle, Thread, SearchProcessThread, Window, Leaves, ThreadLeaves,
        ThreadInit, ThreadAwait, ThreadLoop, StoreProcess, EndPass, ThreadOut,
        StartProcessSearch, SetProcessSearch, StopProcessSearch, Environment,
        HandleChanges, OpenDrive, OpenFails, LockDrive, CloseDrive, UserCancel, vars,
        searchVars, history
<1>. QED
  BY <1>3, <1>4, <1>5, <1>6, <1>7

\* GetHandle keeps the types of its variables: in particular its attempts are
\* bounded by DRIVE_ACCESS_RETRIES.
LEMMA HandleRestStep == TypeOK /\ HandleKnows /\ [Next]_vars => HandleRest'
<1> SUFFICES ASSUME TypeOK, HandleKnows, [Next]_vars PROVE HandleRest'
  OBVIOUS
<1>1. HandleRest /\ report \in Reports /\ report' \in Reports
  BY TypeParts, ReportStep
<1>2. Seen \subseteq All
  BY DEF Seen, Rights, All
<1>3. CASE UNCHANGED ghVars
  BY <1>1, <1>3 DEF HandleRest, ghVars
<1>4. CASE WarnOfProcesses \/ OpenDrive \/ OpenFails
  <2>1. /\ gh' \in {"idle", "open", "ask_open", "lock"}
        /\ i' = i \/ i' = 0 \/ (i' = i + 1 /\ i < DRIVE_ACCESS_RETRIES)
        /\ access_mask' \in {access_mask, {}}
    BY <1>4 DEF WarnOfProcesses, OpenDrive, OpenFails, Fails
  <2>. QED
    BY <1>1, <2>1, RetriesAssumption DEF HandleRest
<1>5. CASE AskWhileOpening
  BY <1>1, <1>2, <1>5, RetriesAssumption DEF HandleRest, AskWhileOpening, HandleKnows
<1>6. CASE LockDrive \/ AskAfterLock \/ CloseDrive \/ ShowProcesses \/ UserCancel
  BY <1>1, <1>6, RetriesAssumption DEF HandleRest, LockDrive, AskAfterLock, CloseDrive,
        ShowProcesses, UserCancel, GiveUpLock, Fails
<1>7. HandleAction \/ UNCHANGED ghVars
  BY DEF Next, GetHandle, Thread, Window, Leaves, Environment, Select, vars, HandleAction
<1>. QED
  BY <1>3, <1>4, <1>5, <1>6, <1>7 DEF HandleAction

\* Every step keeps the types.
LEMMA TypeStep ==
    TypeOK /\ ThreadPlace /\ NamesAgree /\ HandleKnows /\ [Next]_vars => TypeOK'
<1> SUFFICES ASSUME TypeOK, ThreadPlace, NamesAgree, HandleKnows, [Next]_vars
             PROVE  TypeOK'
  OBVIOUS
<1>1. SearchRest
  BY TypeParts
<1>2. Flags' /\ SearchRest' /\ report' \in Reports /\ HandleRest'
  BY <1>1, FlagsStep, SearchRestStep, ReportStep, HandleRestStep
<1>. QED
  BY <1>2, Zenon DEF TypeOK, SearchTypeOK, Flags, SearchRest, Reports, HandleRest

-----------------------------------------------------------------------------
\* Every set of numbers that is not empty has a least one.
LEMMA Least ==
    ASSUME NEW T \in SUBSET Nat, T # {}
    PROVE  \E x \in T : \A y \in T : x <= y
<1> DEFINE R == OpToRel(<, Nat)
<1>1. IsWellFoundedOn(R, Nat)
  BY NatLessThanWellFounded
<1>2. \A x, y \in Nat : y < x => <<y, x>> \in R
  BY DEF OpToRel
<1> HIDE DEF R
<1>3. PICK x \in T : \A y \in T : ~ (<<y, x>> \in R)
  BY <1>1, WFMin
<1>4. ASSUME NEW y \in T PROVE x <= y
  <2>1. x \in Nat /\ y \in Nat
    OBVIOUS
  <2>2. ~ (y < x)
    BY <1>2, <1>3, <2>1
  <2>. QED
    BY <2>1, <2>2
<1>. QED
  BY <1>4

\* StoreProcess (process.c) never leaves the list empty: the process gets an entry,
\* or there was no free one.
LEMMA StoreLists ==
    ASSUME SearchRest, NEW p \in Pids, Store(p)
    PROVE  Listed' # {}
<1> DEFINE free == {s \in Slots : Pruned[s].pid = None}
<1>1. p # None
  BY NoneAssumption
<1>2. CASE \E s \in Slots : s \in SlotFor(p, Pruned)
  <2>1. PICK s \in Slots : s \in SlotFor(p, Pruned)
    BY <1>2
  <2>2. Process'[s] = [pid |-> p, seen_on_pass |-> nPass]
    BY <2>1 DEF Store
  <2>3. Process'[s].pid = p
    BY <2>2
  <2>. QED
    BY <1>1, <2>3 DEF Listed
<1>3. CASE ~ \E s \in Slots : s \in SlotFor(p, Pruned)
  <2>1. free = {}
    <3>1. SUFFICES ASSUME free # {} PROVE FALSE
      OBVIOUS
    <3>2. free \in SUBSET Nat
      BY DEF Slots
    <3>3. PICK x \in free : \A y \in free : x <= y
      BY <3>1, <3>2, Least
    <3>. QED
      BY <1>3, <3>3 DEF SlotFor
  <2>2. 1 \in Slots
    BY SearchAssumption DEF Slots
  <2>3. Process'[1] = Pruned[1] /\ Pruned[1].pid # None
    BY <1>3, <2>1, <2>2 DEF Store
  <2>. QED
    BY <2>2, <2>3 DEF Listed
<1>. QED
  BY <1>2, <1>3

\* A pass over the selected drive meets everyone who has had it open since it was
\* selected, and the result that can be asked for afterwards is of such a pass.
LEMMA PassStep == SearchRest /\ ThreadPlace /\ NamesAgree /\ PassFinds /\ [Next]_vars => PassFinds'
<1> SUFFICES ASSUME SearchRest, ThreadPlace, NamesAgree, PassFinds, [Next]_vars PROVE PassFinds'
  OBVIOUS
<1>1. CASE Select
  BY <1>1, NoneAssumption DEF PassFinds, HasResult, SearchRest, ThreadPlace,
        NamesAgree, Ready, Listed, Select, SelectDevice, searchVars, shared,
        threadLocals, history, ghVars
<1>2. CASE ThreadInit /\ UNCHANGED ghVars
  BY <1>2, NoneAssumption DEF PassFinds, HasResult, SearchRest, ThreadPlace,
        NamesAgree, Ready, Listed, ThreadInit, searchVars, shared, threadLocals,
        history, ghVars
<1>3. CASE ThreadAwait /\ UNCHANGED ghVars
  BY <1>3, NoneAssumption DEF PassFinds, HasResult, SearchRest, ThreadPlace,
        NamesAgree, Ready, Listed, ThreadAwait, searchVars, shared, threadLocals,
        history, ghVars
<1>4. CASE ThreadLoop /\ UNCHANGED ghVars
  BY <1>4, NoneAssumption DEF PassFinds, HasResult, SearchRest, ThreadPlace,
        NamesAgree, Ready, Listed, ThreadLoop, UpdateNames, CopyNames, searchVars, shared,
        threadLocals, history, ghVars
<1>5. CASE StoreProcess /\ UNCHANGED ghVars
  <2>1. /\ UNCHANGED <<hSearchProcessThread, hLock, main, nVersion, nPass, wanted,
                       holders, steady, searched, thread, my_names>>
        /\ thread = "pass"
    BY <1>5 DEF StoreProcess, history
  <2>2. PICK p \in todo : /\ todo' = todo \ {p}
                          /\ \/ Store(p)
                             \/ p \notin holders[my_names] /\ UNCHANGED Process
    BY <1>5 DEF StoreProcess
  <2>3. CASE Store(p)
    <3>1. Listed' # {}
      BY <2>2, <2>3, StoreLists DEF SearchRest
    <3>. QED
      BY <2>1, <3>1 DEF PassFinds, HasResult
  <2>4. CASE p \notin holders[my_names] /\ UNCHANGED Process
    <3>1. Listed' = Listed
      BY <2>4 DEF Listed
    <3>2. (main = "idle" /\ nVersion[0] = nVersion[1]) => p \notin steady
      BY <2>1, <2>4, NoneAssumption DEF PassFinds, NamesAgree
    <3>. QED
      BY <2>1, <2>2, <3>1, <3>2 DEF PassFinds, HasResult
  <2>. QED
    BY <2>2, <2>3, <2>4
<1>6. CASE EndPass /\ UNCHANGED ghVars
  <2>1. /\ UNCHANGED <<hSearchProcessThread, hLock, main, nVersion, wanted, holders,
                       steady, Process>>
        /\ thread = "pass" /\ thread' # "pass"
    BY <1>6 DEF EndPass
  <2>2. Listed' = Listed
    BY <2>1 DEF Listed
  <2>3. CASE ~ bActive
    <3>1. main' = "stopping"
      BY <2>1, <2>3 DEF ThreadPlace
    <3>. QED
      BY <2>1, <3>1 DEF PassFinds, HasResult
  <2>4. CASE bActive
    <3>1. todo = {} /\ searched' = (searched \/ (nVersion[0] = nVersion[1] /\ my_names = wanted))
      BY <1>6, <2>4 DEF EndPass
    <3>2. ASSUME HasResult' PROVE searched' /\ (steady' = {} \/ Listed' # {})
      <4>1. main = "idle" /\ nVersion[0] = nVersion[1]
        BY <2>1, <3>2 DEF HasResult
      <4>2. my_names = wanted
        BY <2>1, <4>1 DEF NamesAgree
      <4>3. steady = {} \/ Listed # {}
        BY <2>1, <3>1, <4>1 DEF PassFinds
      <4>. QED
        BY <2>1, <2>2, <3>1, <4>1, <4>2, <4>3
    <3>. QED
      BY <2>1, <3>2 DEF PassFinds
  <2>. QED
    BY <2>3, <2>4
<1>7. CASE ThreadOut /\ UNCHANGED ghVars
  BY <1>7, NoneAssumption DEF PassFinds, HasResult, SearchRest, ThreadPlace,
        NamesAgree, Ready, Listed, ThreadOut, searchVars, shared, threadLocals,
        history, ghVars
<1>8. CASE Leaves
  BY <1>8, NoneAssumption DEF PassFinds, HasResult, SearchRest, ThreadPlace,
        NamesAgree, Ready, Listed, Leaves, ThreadLeaves, searchVars, shared,
        threadLocals, history, ghVars
<1>9. CASE StartProcessSearch /\ UNCHANGED ghVars
  BY <1>9, NoneAssumption DEF PassFinds, HasResult, SearchRest, ThreadPlace,
        NamesAgree, Ready, Listed, StartProcessSearch, Terminate, searchVars,
        shared, threadLocals, history, ghVars
<1>10. CASE SetProcessSearch /\ UNCHANGED ghVars
  BY <1>10, NoneAssumption DEF PassFinds, HasResult, SearchRest, ThreadPlace,
        NamesAgree, Ready, Listed, SetProcessSearch, searchVars, shared,
        threadLocals, history, ghVars
<1>11. CASE StopProcessSearch /\ UNCHANGED ghVars
  BY <1>11, NoneAssumption DEF PassFinds, HasResult, SearchRest, ThreadPlace,
        NamesAgree, Ready, Listed, StopProcessSearch, Terminate, searchVars, shared,
        threadLocals, history, ghVars
<1>12. CASE Environment
  <2>1. /\ UNCHANGED <<hSearchProcessThread, thread, hLock, main, nVersion, nPass, wanted,
                       searched, todo, Process>>
        /\ \E d \in Drives, p \in Pids :
             /\ holders' = [holders EXCEPT ![d] = IF p \in @ THEN @ \ {p} ELSE @ \cup {p}]
             /\ steady' = IF d = wanted THEN steady \cap holders'[d] ELSE steady
    BY <1>12 DEF Environment, HandleChanges, shared, threadLocals
  <2>2. PICK d \in Drives, p \in Pids :
             /\ holders' = [holders EXCEPT ![d] = IF p \in @ THEN @ \ {p} ELSE @ \cup {p}]
             /\ steady' = IF d = wanted THEN steady \cap holders'[d] ELSE steady
    BY <2>1
  <2>3. Listed' = Listed
    BY <2>1 DEF Listed
  <2>4. steady' \subseteq steady
    BY <2>2
  <2>5. wanted # None => steady' \subseteq holders'[wanted]
    <3>1. CASE d = wanted
      BY <2>2, <3>1
    <3>2. CASE d # wanted
      <4>1. wanted # None => holders'[wanted] = holders[wanted]
        BY <2>2, <3>2 DEF SearchRest
      <4>. QED
        BY <2>2, <3>2, <4>1 DEF PassFinds
    <3>. QED
      BY <3>1, <3>2
  <2>. QED
    BY <2>1, <2>3, <2>4, <2>5 DEF PassFinds, HasResult
<1>13. CASE UNCHANGED searchCore
  <2>1. UNCHANGED <<hSearchProcessThread, thread, hLock, main, nVersion, nPass, wanted,
                    holders, steady, searched, todo, Process>>
    BY <1>13 DEF searchCore, shared, threadLocals
  <2>2. Listed' = Listed
    BY <2>1 DEF Listed
  <2>. QED
    BY <2>1, <2>2 DEF PassFinds, HasResult
<1>. QED
  BY <1>1, <1>2, <1>3, <1>4, <1>5, <1>6, <1>7, <1>8, <1>9, <1>10, <1>11, <1>12,
        <1>13, HandleSteps
  DEF HandleAction, Next, GetHandle, Thread, SearchProcessThread, Window

\* What storing a process does to the list (process.c:583-599): on the first pass it
\* pushes out all others; later it removes none that was met in the last pass.
LEMMA StoreKeeps ==
    ASSUME SearchRest, NEW p \in Pids, Store(p)
    PROVE  /\ Listed' \subseteq Listed \cup {p}
           /\ nPass = 0 => Listed' \subseteq {p}
           /\ SlotFor(p, Pruned) # {} => SeenIn(Process', p, nPass)
           /\ \A q \in Pids, n \in Nat :
                 nPass >= 1 /\ n >= nPass - 1 /\ q # p /\ SeenIn(Process, q, n)
                     => SeenIn(Process', q, n)
<1>1. \A s \in Slots : /\ Process[s].pid \in Pids \cup {None}
                       /\ Process[s].seen_on_pass \in 0..MaxPass
  BY DEF SearchRest
<1>2. nPass \in 0..MaxPass
  BY DEF SearchRest
<1>3. \A s \in Slots : Process'[s] = IF s \in SlotFor(p, Pruned)
                                     THEN [pid |-> p, seen_on_pass |-> nPass] ELSE Pruned[s]
  BY DEF Store
<1>4. \A s \in Slots : Pruned[s] = Empty \/ Pruned[s] = Process[s]
  BY DEF Pruned
<1>5. Listed' \subseteq Listed \cup {p}
  BY <1>3, <1>4 DEF Listed, Empty
<1>6. ASSUME nPass = 0 PROVE Listed' \subseteq {p}
  <2>1. (0 - 1) % WORD = WORD - 1
    BY SearchAssumption
  <2>2. \A s \in Slots : Process[s].seen_on_pass < (nPass - 1) % WORD
    BY <1>1, <1>6, <2>1, SearchAssumption
  <2>3. \A s \in Slots : Pruned[s] = Empty
    BY <2>2 DEF Pruned
  <2>. QED
    BY <1>3, <2>3 DEF Listed, Empty
<1>7. ASSUME SlotFor(p, Pruned) # {} PROVE SeenIn(Process', p, nPass)
  <2>1. PICK s \in Slots : s \in SlotFor(p, Pruned)
    BY <1>7 DEF SlotFor
  <2>2. Process'[s] = [pid |-> p, seen_on_pass |-> nPass]
    BY <1>3, <2>1
  <2>3. Process'[s].pid = p /\ Process'[s].seen_on_pass >= nPass
    BY <1>2, <2>2
  <2>. QED
    BY <2>3 DEF SeenIn
<1>8. ASSUME NEW q \in Pids, NEW n \in Nat, nPass >= 1, n >= nPass - 1, q # p,
             SeenIn(Process, q, n)
      PROVE  SeenIn(Process', q, n)
  <2>1. PICK s \in Slots : Process[s].pid = q /\ Process[s].seen_on_pass >= n
    BY <1>8 DEF SeenIn
  <2>2. (nPass - 1) % WORD = nPass - 1
    BY <1>2, <1>8, SearchAssumption
  <2>3. Pruned[s] = Process[s]
    BY <1>1, <1>2, <1>8, <2>1, <2>2 DEF Pruned
  <2>4. s \notin SlotFor(p, Pruned)
    BY <1>8, <2>1, <2>3, NoneAssumption DEF SlotFor
  <2>5. Process'[s] = Process[s]
    BY <1>3, <2>3, <2>4
  <2>. QED
    BY <2>1, <2>5 DEF SeenIn
<1>. QED
  BY <1>5, <1>6, <1>7, <1>8

\* The list, between two selections, is of the selected drive if anyone has it open,
\* and after two passes shows all who have had it open.
LEMMA RemembersStep ==
    /\ SearchRest /\ SearchRest' /\ ThreadPlace /\ NamesAgree /\ PassFinds /\ PassRemembers
    /\ [Next]_vars
    => PassRemembers'
<1> SUFFICES ASSUME SearchRest, SearchRest', ThreadPlace, NamesAgree, PassFinds,
                    PassRemembers, [Next]_vars
             PROVE  PassRemembers'
  OBVIOUS
<1>1. CASE Select
  <2>1. /\ UNCHANGED <<Process, nVersion, nPass, hLock, holders>>
        /\ UNCHANGED thread \/ thread' = "init"
        /\ main' # "idle" \/ ~ hSearchProcessThread'
        /\ wanted' # None => ever' = holders[wanted']
    BY <1>1 DEF Select, SelectDevice, SearchRest
  <2>2. hSearchProcessThread' \/ thread' = "none"
    BY <1>1 DEF Select, SelectDevice, ThreadPlace
  <2>. QED
    BY <2>1, <2>2 DEF PassRemembers, HasResult
<1>2. CASE ThreadInit /\ UNCHANGED ghVars
  <2>1. /\ UNCHANGED <<wanted, holders, ever>> /\ nPass' = 0 /\ thread' # "pass"
    BY <1>2 DEF ThreadInit, history
  <2>. QED
    BY <2>1 DEF PassRemembers, HasResult
<1>3. CASE ThreadLoop /\ UNCHANGED ghVars
  <2>0. /\ UNCHANGED <<hSearchProcessThread, hLock, main, wanted, holders, ever, steady,
                       crowded, Process>>
        /\ thread = "loop"
    BY <1>3 DEF ThreadLoop, history
  <2>1. Listed' = Listed
    BY <2>0 DEF Listed
  <2>2. CASE UNCHANGED <<nVersion, nPass>> /\ thread' # "pass"
    <3>1. HasResult' <=> HasResult
      BY <2>0, <2>2 DEF HasResult
    <3>. QED
      BY <2>0, <2>1, <2>2, <3>1 DEF PassRemembers
  <2>3. CASE CopyNames /\ wHandleName # None
    <3>1. nPass' = 0 /\ my_names' = wHandleName /\ wHandleName \in Drives
      BY <2>3 DEF CopyNames, SearchRest
    <3>2. CASE thread' = "pass"
        BY <1>3, <2>0, <2>1, <2>3, <3>1, <3>2 DEF PassRemembers, PassFinds, NamesAgree,
              HasResult, Ready, ThreadLoop, UpdateNames, ThreadPlace
    <3>3. CASE thread' # "pass"
      BY <2>0, <2>1, <3>1, <3>3 DEF PassRemembers, HasResult
    <3>. QED
      BY <3>2, <3>3
  <2>4. CASE /\ UNCHANGED <<nVersion, nPass, my_names>> /\ nVersion[0] = nVersion[1]
             /\ todo' = holders[my_names'] /\ thread' = "pass"
    <3>1. main = "idle" => my_names = wanted /\ wanted \in Drives
      BY <2>0, <2>4 DEF NamesAgree
    <3>2. main = "idle" => todo' \subseteq ever /\ steady \subseteq todo'
      BY <2>0, <2>4, <3>1, NoneAssumption DEF PassRemembers, PassFinds
    <3>3. hLock /\ hSearchProcessThread
      BY <2>0 DEF ThreadPlace, Ready
    <3>4. nPass \in Nat
      BY DEF SearchRest
    <3>5. CASE nPass = 0
      BY <2>0, <2>1, <2>4, <3>2, <3>5 DEF PassRemembers, HasResult
    <3>6. CASE nPass >= 1
      <4>1. main = "idle" => HasResult
        BY <2>4, <3>3, <3>6 DEF HasResult
      <4>2. (main = "idle" /\ nPass >= 2 /\ ~ crowded) =>
                \A p \in steady : SeenIn(Process, p, nPass - 1)
        BY <2>0, <4>1 DEF PassRemembers
      <4>3. main = "idle" => (steady = {} \/ Listed \subseteq ever)
        BY <4>1 DEF PassRemembers
      <4>4. nPass = 1 \/ nPass >= 2
        BY <3>4, <3>6
      <4>5. UNCHANGED Process
        BY <2>0
      <4>. QED
        BY <2>0, <2>1, <2>4, <3>2, <4>2, <4>3, <4>4, <4>5 DEF PassRemembers, HasResult
    <3>. QED
      BY <3>4, <3>5, <3>6
  <2>. QED
    BY <1>3, <2>0, <2>2, <2>3, <2>4 DEF ThreadLoop, UpdateNames
<1>4. CASE StoreProcess /\ UNCHANGED ghVars
  <2>1. /\ UNCHANGED <<hSearchProcessThread, hLock, main, nVersion, nPass, wanted,
                       holders, steady, ever, thread, my_names>>
        /\ thread = "pass"
    BY <1>4 DEF StoreProcess
  <2>2. PICK p \in todo :
            /\ todo' = todo \ {p}
            /\ \/ Store(p) /\ crowded' = (crowded \/ SlotFor(p, Pruned) = {})
               \/ p \notin holders[my_names] /\ UNCHANGED <<Process, crowded>>
    BY <1>4 DEF StoreProcess
  <2>3. p \in Pids /\ nPass \in Nat /\ steady \subseteq Pids
    BY <2>2 DEF SearchRest
  <2>4. HasResult' <=> HasResult
    BY <2>1 DEF HasResult
  <2>5. CASE Store(p) /\ crowded' = (crowded \/ SlotFor(p, Pruned) = {})
    <3>1. /\ Listed' \subseteq Listed \cup {p}
          /\ nPass = 0 => Listed' \subseteq {p}
          /\ SlotFor(p, Pruned) # {} => SeenIn(Process', p, nPass)
          /\ \A q \in Pids, n \in Nat :
                 nPass >= 1 /\ n >= nPass - 1 /\ q # p /\ SeenIn(Process, q, n)
                     => SeenIn(Process', q, n)
      BY <2>3, <2>5, StoreKeeps
    <3> DEFINE Current == main = "idle" /\ nVersion[0] = nVersion[1]
    <3>2. ASSUME Current PROVE steady = {} \/ Listed' \subseteq ever
      <4>1. p \in ever
        BY <2>1, <2>2, <3>2 DEF PassRemembers
      <4>. QED
        BY <2>1, <3>1, <3>2, <4>1 DEF PassRemembers
    <3>3. ASSUME Current, nPass >= 1, ~ crowded', NEW q \in steady
          PROVE  \/ SeenIn(Process', q, nPass)
                 \/ q \in todo' /\ (nPass = 1 \/ SeenIn(Process', q, nPass - 1))
      <4>1. ~ crowded /\ SlotFor(p, Pruned) # {}
        BY <2>5, <3>3
      <4>2. \/ SeenIn(Process, q, nPass)
            \/ q \in todo /\ (nPass = 1 \/ SeenIn(Process, q, nPass - 1))
        BY <2>1, <3>3, <4>1 DEF PassRemembers
      <4>3. nPass - 1 \in Nat /\ nPass >= nPass - 1 /\ q \in Pids
        BY <2>3, <3>3
      <4>4. CASE q = p
        BY <3>1, <4>1, <4>4
      <4>5. CASE q # p
        BY <2>2, <2>3, <3>1, <3>3, <4>2, <4>3, <4>5
      <4>. QED
        BY <4>4, <4>5
    <3>4. Current => todo' \subseteq ever
      BY <2>1, <2>2 DEF PassRemembers
    <3>. QED
      BY <2>1, <2>4, <3>2, <3>3, <3>4 DEF PassRemembers, HasResult
  <2>6. CASE p \notin holders[my_names] /\ UNCHANGED <<Process, crowded>>
    <3>1. Listed' = Listed
      BY <2>6 DEF Listed
    <3>2. (main = "idle" /\ nVersion[0] = nVersion[1]) => p \notin steady
      BY <2>1, <2>6, NoneAssumption DEF PassFinds, NamesAgree
    <3>3. UNCHANGED <<Process, crowded>>
      BY <2>6
    <3>. QED
      BY <2>1, <2>2, <2>4, <3>1, <3>2, <3>3 DEF PassRemembers
  <2>. QED
    BY <2>2, <2>5, <2>6
<1>5. CASE EndPass /\ UNCHANGED ghVars
  <2>1. /\ UNCHANGED <<hSearchProcessThread, hLock, main, nVersion, wanted, holders,
                       steady, ever, crowded, Process>>
        /\ thread = "pass" /\ thread' # "pass" /\ nPass' = (nPass + 1) % WORD
        /\ bActive => todo = {}
    BY <1>5 DEF EndPass
  <2>2. Listed' = Listed
    BY <2>1 DEF Listed
  <2>3. CASE ~ bActive
    <3>1. main' = "stopping"
      BY <2>1, <2>3 DEF ThreadPlace
    <3>. QED
      BY <2>1, <3>1 DEF PassRemembers, HasResult
  <2>4. CASE bActive
    <3>1. nPass \in Nat /\ nPass' = nPass + 1
      BY <2>1, SearchAssumption DEF ThreadPlace, SearchRest
    <3>2. ASSUME HasResult' PROVE steady = {} \/ Listed \subseteq ever
      BY <2>1, <2>4, <3>2 DEF PassRemembers, HasResult
    <3>3. ASSUME HasResult', nPass' >= 2, ~ crowded'
          PROVE  \A p \in steady : SeenIn(Process, p, nPass)
      <4>1. nPass >= 1 /\ main = "idle" /\ nVersion[0] = nVersion[1] /\ ~ crowded
        BY <2>1, <3>1, <3>3 DEF HasResult
      <4>. QED
        BY <2>1, <2>4, <4>1 DEF PassRemembers
    <3>4. nPass' - 1 = nPass /\ UNCHANGED Process
      BY <2>1, <3>1
    <3>. QED
      BY <2>1, <2>2, <3>2, <3>3, <3>4 DEF PassRemembers
  <2>. QED
    BY <2>3, <2>4
<1>6. CASE SetProcessSearch /\ UNCHANGED ghVars
  <2>1. /\ UNCHANGED <<thread, Process, wanted, holders, ever, steady>>
        /\ main' = "stopping" \/ nVersion' = [nVersion EXCEPT ![0] = @ + 1]
    BY <1>6 DEF SetProcessSearch, history
  <2>2. main' = "idle" => nVersion'[0] # nVersion'[1]
    BY <2>1 DEF NamesAgree, SearchRest
  <2>. QED
    BY <2>1, <2>2 DEF PassRemembers, HasResult
<1>7. CASE (StartProcessSearch \/ StopProcessSearch) /\ UNCHANGED ghVars
  <2>1. /\ UNCHANGED <<wanted, holders, ever>>
        /\ main' # "idle" \/ (~ hSearchProcessThread' /\ thread' = "none")
    BY <1>7 DEF StartProcessSearch, StopProcessSearch, Terminate, SearchRest
  <2>. QED
    BY <2>1 DEF PassRemembers, HasResult
<1>8. CASE Leaves \/ ((ThreadAwait \/ ThreadOut) /\ UNCHANGED ghVars)
  <2>1. /\ UNCHANGED <<hSearchProcessThread, main, wanted, holders, ever, steady, crowded,
                       Process, nPass, nVersion>>
        /\ thread # "pass" /\ thread' # "pass" /\ (hLock' => hLock)
    BY <1>8 DEF ThreadAwait, ThreadOut, Leaves, ThreadLeaves, shared, history
  <2>2. Listed' = Listed /\ (HasResult' => HasResult)
    BY <2>1 DEF Listed, HasResult
  <2>. QED
    BY <2>1, <2>2 DEF PassRemembers
<1>9. CASE Environment
  <2>1. /\ UNCHANGED <<hSearchProcessThread, thread, hLock, main, nVersion, nPass, wanted,
                       crowded, todo, Process>>
        /\ \E d \in Drives, p \in Pids :
             /\ holders' = [holders EXCEPT ![d] = IF p \in @ THEN @ \ {p} ELSE @ \cup {p}]
             /\ steady' = IF d = wanted THEN steady \cap holders'[d] ELSE steady
             /\ ever' = IF d = wanted THEN ever \cup holders'[d] ELSE ever
    BY <1>9 DEF Environment, HandleChanges, shared, threadLocals
  <2>2. PICK d \in Drives, p \in Pids :
             /\ holders' = [holders EXCEPT ![d] = IF p \in @ THEN @ \ {p} ELSE @ \cup {p}]
             /\ steady' = IF d = wanted THEN steady \cap holders'[d] ELSE steady
             /\ ever' = IF d = wanted THEN ever \cup holders'[d] ELSE ever
    BY <2>1
  <2>3. Listed' = Listed /\ (HasResult' <=> HasResult)
    BY <2>1 DEF Listed, HasResult
  <2>4. steady' \subseteq steady /\ ever \subseteq ever'
    BY <2>2
  <2>5. wanted # None => holders'[wanted] \subseteq ever'
    <3>1. CASE d = wanted
      BY <2>2, <3>1
    <3>2. CASE d # wanted
      <4>1. wanted # None => holders'[wanted] = holders[wanted]
        BY <2>2, <3>2 DEF SearchRest
      <4>. QED
        BY <2>2, <3>2, <4>1 DEF PassRemembers
    <3>. QED
      BY <3>1, <3>2
  <2>. QED
    BY <2>1, <2>3, <2>4, <2>5 DEF PassRemembers
<1>10. CASE UNCHANGED searchCore
  <2>1. UNCHANGED <<hSearchProcessThread, thread, hLock, main, nVersion, nPass, wanted,
                    holders, steady, ever, crowded, todo, Process>>
    BY <1>10 DEF searchCore, shared, threadLocals
  <2>2. Listed' = Listed /\ (HasResult' <=> HasResult)
    BY <2>1 DEF Listed, HasResult
  <2>. QED
    BY <2>1, <2>2 DEF PassRemembers
<1>. QED
  BY <1>1, <1>2, <1>3, <1>4, <1>5, <1>6, <1>7, <1>8, <1>9, <1>10, HandleSteps
  DEF HandleAction, Next, GetHandle, Thread, SearchProcessThread, Window

\* What GetProcessSearch can tell a caller while the window handles nothing else.
LEMMA ReportIsInformed ==
    ASSUME SearchRest, PassFinds, PassRemembers, main = "idle",
           NEW mask, NEW stale, stale => mask # All, GetProcessSearch(mask, stale)
    PROVE  ReportTells' /\ report'.mask = mask
<1>1. CASE report' = [NoReport EXCEPT !.mask = mask]
  <2>1. /\ report'.valid = FALSE /\ report'.pids = {} /\ report'.steady = {}
        /\ report'.mask = mask
    BY <1>1 DEF NoReport
  <2>. QED
    BY <2>1 DEF ReportTells, BlockedDriveIsNotFree
<1>2. CASE ~ (report' = [NoReport EXCEPT !.mask = mask])
  <2> DEFINE matching == {p \in Listed : Rights(p) \cap mask # {}}
             gone == {p \in matching : \A d \in Drives : p \notin holders[d]}
             settled == nPass >= 2 /\ ~ crowded
  <2>1. PICK ended \in (IF stale THEN SUBSET gone ELSE {{}}) :
            report' = [valid |-> TRUE, mask |-> mask, pids |-> matching \ ended,
                       steady |-> steady, ever |-> ever,
                       settled |-> settled, searched |-> searched]
    BY <1>2, Zenon DEF GetProcessSearch
  <2>2. HasResult
    BY <1>2 DEF GetProcessSearch, HasResult
  <2>3. /\ searched /\ (steady = {} \/ Listed # {})
        /\ steady = {} \/ Listed \subseteq ever
    BY <2>2 DEF PassFinds, PassRemembers
  <2>4. ASSUME settled, NEW p \in steady PROVE p \in Listed
    <3>1. p # None
      BY NoneAssumption DEF SearchRest
    <3>2. SeenIn(Process, p, nPass - 1) \/ SeenIn(Process, p, nPass)
      BY <2>2, <2>4 DEF PassRemembers, HasResult, SearchRest
    <3>. QED
      BY <3>1, <3>2 DEF SeenIn, Listed
  <2> HIDE DEF matching, gone, settled
  <2>5. /\ report'.valid = TRUE /\ report'.searched = searched /\ report'.mask = mask
        /\ report'.steady = steady /\ report'.pids = matching \ ended
        /\ report'.ever = ever /\ report'.settled = settled
    BY <2>1
  <2>6. mask = All => report'.pids = Listed
    BY <2>1, <2>5 DEF matching, Rights, All
  <2>7. report'.pids \subseteq Listed
    BY <2>5 DEF matching
  <2>. QED
    BY <2>3, <2>4, <2>5, <2>6, <2>7 DEF ReportTells, BlockedDriveIsNotFree
<1>. QED
  BY <1>1, <1>2

\* "the only access rights we saw were for read-only" (win_drive.c): then there were
\* processes, all of them readers.
LEMMA ReadersOnly ==
    ASSUME NEW pids, UNION {Rights(p) : p \in pids} = {"r"}
    PROVE  pids # {} /\ pids \cap Writers = {}
<1>1. pids # {}
  OBVIOUS
<1>2. ASSUME NEW p \in pids PROVE p \notin Writers
  <2>1. Rights(p) \subseteq {"r"}
    OBVIOUS
  <2>. QED
    BY <2>1 DEF Rights
<1>. QED
  BY <1>1, <1>2

\* GetHandle goes by what it was told, and nothing changes that under it.
LEMMA HandleStep ==
    TypeOK /\ PassFinds /\ PassRemembers /\ HandleKnows /\ [Next]_vars => HandleKnows'
<1> SUFFICES ASSUME TypeOK, PassFinds, PassRemembers, HandleKnows, [Next]_vars
             PROVE  HandleKnows'
  OBVIOUS
<1>0. SearchRest /\ HandleRest
  BY TypeParts
<1>1. CASE Select
  <2>1. report' = NoReport /\ gh = "idle" /\ UNCHANGED ghVars
    BY <1>1 DEF Select, SelectDevice
  <2>. QED
    BY <2>1 DEF HandleKnows, NoReport, ReportTells, BlockedDriveIsNotFree,
          UnlockedIsInformed, ghVars
<1>2. CASE UNCHANGED <<ghVars, report>> /\ (gh # "idle" => main' = main)
  BY <1>2 DEF HandleKnows, ReportTells, BlockedDriveIsNotFree, UnlockedIsInformed,
        ReportedRights, ghVars
<1>3. CASE WarnOfProcesses
  <2>1. ReportTells'
    <3>1. {"w"} # All
      BY DEF All
    <3>. QED
      BY <1>0, <1>3, <3>1, ReportIsInformed DEF WarnOfProcesses
  <2>2. gh' = "open" /\ main' = "idle" /\ access_mask' = {} /\ locked' = FALSE
    BY <1>3 DEF WarnOfProcesses, HandleKnows
  <2>. QED
    BY <2>1, <2>2 DEF HandleKnows, UnlockedIsInformed
<1>4. CASE AskWhileOpening
  <2>1. main = "idle"
    BY <1>4 DEF AskWhileOpening, HandleKnows
  <2>2. ReportTells' /\ report'.mask = All
    BY <1>0, <1>4, <2>1, ReportIsInformed DEF AskWhileOpening, Ask
  <2>3. access_mask' = ReportedRights' /\ gh' = "open" /\ main' = "idle" /\ ~ locked'
    BY <1>4, <2>1 DEF AskWhileOpening, Ask, Seen, ReportedRights, HandleKnows
  <2>. QED
    BY <2>2, <2>3 DEF HandleKnows, UnlockedIsInformed
<1>5. CASE AskAfterLock
  <2>1. main = "idle" /\ main' = "idle" /\ access_mask = {} /\ ~ locked /\ UNCHANGED locked
    BY <1>5 DEF AskAfterLock, Ask, HandleKnows
  <2>2. ReportTells' /\ report'.mask = All
    BY <1>0, <1>5, <2>1, ReportIsInformed DEF AskAfterLock, Ask
  <2>3. CASE Fails
    BY <2>1, <2>2, <2>3 DEF Fails, HandleKnows, UnlockedIsInformed
  <2>4. CASE /\ UNION {Rights(p) : p \in report'.pids} = {"r"}
             /\ gh' = "have" /\ UNCHANGED access_mask
    <3>1. report'.pids # {} /\ report'.pids \cap Writers = {}
      BY <2>4, ReadersOnly
    <3>2. UnlockedIsInformed'
      BY <2>2, <3>1 DEF UnlockedIsInformed, ReportTells
    <3>. QED
      BY <2>1, <2>2, <2>4, <3>2 DEF HandleKnows
  <2>. QED
    BY <1>5, <2>3, <2>4 DEF AskAfterLock, GiveUpLock, MayContinueUnlocked, Seen
<1>6. CASE ShowProcesses
  <2>1. /\ main = "idle" /\ main' = "idle" /\ gh = "idle" /\ gh' = "idle"
        /\ UNCHANGED <<access_mask, locked>>
    BY <1>6 DEF ShowProcesses, Ask
  <2>2. ReportTells'
    BY <1>0, <1>6, <2>1, ReportIsInformed DEF ShowProcesses, Ask
  <2>. QED
    BY <2>1, <2>2 DEF HandleKnows, UnlockedIsInformed
<1>7. CASE OpenDrive \/ OpenFails \/ CloseDrive \/ UserCancel
  <2>1. UNCHANGED report /\ UNCHANGED main
    BY <1>7 DEF OpenDrive, OpenFails, CloseDrive, UserCancel, searchVars, history
  <2>2. ReportedRights' = ReportedRights /\ (ReportTells <=> ReportTells')
    BY <2>1 DEF ReportedRights, ReportTells, BlockedDriveIsNotFree
  <2>3. CASE OpenDrive \/ OpenFails
    BY <1>0, <2>1, <2>2, <2>3 DEF OpenDrive, OpenFails, Fails, HandleKnows, HandleRest,
          UnlockedIsInformed
  <2>4. CASE CloseDrive \/ UserCancel
    BY <2>1, <2>2, <2>4 DEF CloseDrive, UserCancel, Fails, HandleKnows, UnlockedIsInformed
  <2>. QED
    BY <1>7, <2>3, <2>4
<1>8. CASE LockDrive
  <2>1. /\ UNCHANGED report /\ UNCHANGED main /\ ~ locked /\ gh = "lock" /\ main = "idle"
        /\ access_mask # {} => access_mask = ReportedRights /\ report.mask = All
    BY <1>8 DEF LockDrive, searchVars, history, HandleKnows
  <2>2. ReportedRights' = ReportedRights /\ (ReportTells <=> ReportTells')
    BY <2>1 DEF ReportedRights, ReportTells, BlockedDriveIsNotFree
  <2>3. CASE locked' = TRUE /\ gh' = "have" /\ UNCHANGED <<access_mask, i>>
    BY <2>1, <2>2, <2>3 DEF HandleKnows, UnlockedIsInformed
  <2>4. CASE gh' \in {"lock", "ask_lock"} /\ UNCHANGED <<access_mask, locked>>
             /\ (gh' = "ask_lock" => access_mask = {})
    BY <2>1, <2>2, <2>4 DEF HandleKnows, UnlockedIsInformed
  <2>5. CASE Fails /\ UNCHANGED locked
    BY <2>1, <2>2, <2>5 DEF HandleKnows, UnlockedIsInformed, Fails
  <2>6. CASE access_mask = {"r"} /\ gh' = "have" /\ UNCHANGED <<access_mask, locked>>
    <3>1. report.pids # {} /\ report.pids \cap Writers = {} /\ report.mask = All
      BY <2>1, <2>6, ReadersOnly DEF ReportedRights
    <3>2. ReportTells
      BY DEF HandleKnows
    <3>3. UnlockedIsInformed'
      BY <2>1, <3>1, <3>2 DEF UnlockedIsInformed, ReportTells
    <3>. QED
      BY <2>1, <2>2, <2>6, <3>3 DEF HandleKnows
  <2>. QED
    BY <1>8, <2>3, <2>4, <2>5, <2>6 DEF LockDrive, GiveUpLock, MayContinueUnlocked
<1>9. \/ Select \/ HandleAction
      \/ UNCHANGED <<ghVars, report>> /\ (gh # "idle" => main' = main)
  <2>1. CASE Thread \/ Leaves \/ Environment \/ UNCHANGED vars
    BY <2>1 DEF Thread, SearchProcessThread, Leaves, ThreadLeaves, ThreadInit, ThreadAwait,
          ThreadLoop, StoreProcess, EndPass, ThreadOut, Environment, HandleChanges, vars,
          searchVars, history
  <2>2. CASE Window
    BY <2>2 DEF Window, StartProcessSearch, SetProcessSearch, StopProcessSearch, history,
          HandleKnows
  <2>. QED
    BY <2>1, <2>2 DEF Next, GetHandle, HandleAction
<1>. QED
  BY <1>1, <1>2, <1>3, <1>4, <1>5, <1>6, <1>7, <1>8, <1>9 DEF HandleAction

-----------------------------------------------------------------------------
\* The invariant of the search and of GetHandle holds, whatever is selected and
\* whichever processes open and close which drives.
THEOREM Invariance == Spec => []IInv
<1>1. Init => IInv
  <2> SUFFICES ASSUME Init PROVE IInv
    OBVIOUS
  <2>1. Flags
    BY Zenon DEF Init, SearchInit, Flags
  <2>2. Empty \in [pid : Pids \cup {None}, seen_on_pass : 0..MaxPass]
    BY SearchAssumption DEF Empty
  <2>3. SearchRest
    BY <2>2, SearchAssumption DEF Init, SearchInit, SearchRest
  <2>4. report \in Reports
    BY DEF Init, SearchInit, NoReport, Reports, Masks
  <2>5. HandleRest
    BY RetriesAssumption DEF Init, HandleRest
  <2>6. TypeOK
    BY <2>1, <2>3, <2>4, <2>5, TypeParts
  <2>7. ThreadPlace /\ NamesAgree
    BY DEF Init, SearchInit, ThreadPlace, NamesAgree, Ready
  <2>8. PassFinds /\ PassRemembers
    BY DEF Init, SearchInit, PassFinds, PassRemembers, HasResult
  <2>9. HandleKnows
    BY DEF Init, SearchInit, NoReport, HandleKnows, ReportTells, BlockedDriveIsNotFree,
          UnlockedIsInformed
  <2>. QED
    BY <2>6, <2>7, <2>8, <2>9 DEF IInv
<1>2. IInv /\ [Next]_vars => IInv'
  <2> SUFFICES ASSUME IInv, [Next]_vars PROVE IInv'
    OBVIOUS
  <2>1. TypeOK'
    BY TypeStep DEF IInv
  <2>2. SearchRest /\ SearchRest'
    BY <2>1, TypeParts, TypeStep, SearchRestStep DEF IInv
  <2>. QED
    BY <2>1, <2>2, PlaceStep, NamesStep, PassStep, RemembersStep, HandleStep DEF IInv
<1>. QED
  BY <1>1, <1>2, PTL DEF Spec

\* The search and GetHandle always have their types: the versions and passes stay
\* in bounds, and a drive that is looked at is a drive.
THEOREM TypeCorrect == Spec => []TypeOK
<1>1. IInv => TypeOK
  BY DEF IInv
<1>. QED
  BY <1>1, Invariance, PTL

\* A drive that a process has had open ever since it was selected is never reported
\* as free by GetProcessSearch (process.c), however many processes and entries there
\* are and whatever was selected before.
THEOREM BlockedIsSeen == Spec => []BlockedDriveIsNotFree
<1>1. IInv => BlockedDriveIsNotFree
  BY DEF IInv, HandleKnows, ReportTells
<1>. QED
  BY <1>1, Invariance, PTL

\* GetHandle (win_drive.c) goes on without the lock only after a whole pass over this
\* drive and with none but readers listed; they are processes that have had this
\* drive open if any has had it open since it was selected, and after two passes with
\* an entry for each process nobody has had it open for writing all the time.
THEOREM UnlockedOnlyIfInformed == Spec => []UnlockedIsInformed
<1>1. IInv => UnlockedIsInformed
  BY DEF IInv, HandleKnows
<1>. QED
  BY <1>1, Invariance, PTL
=============================================================================
