--------------------------- MODULE ProcessSearch ---------------------------
(***************************************************************************)
(* process.c: the thread that looks, pass after pass, for processes with   *)
(* an open handle on the selected drive; how the main window starts, sets  *)
(* and stops it (IDC_DEVICE in win_rufus.c); and how its results are read. *)
(*                                                                         *)
(* What is done under the mutex hLock is one step. It is held for short,   *)
(* so that a wait for it fails only if a terminated thread left it owned.  *)
(* The handle names of a drive are the drive itself. uint32_t arithmetic   *)
(* is modulo WORD. Pids are the processes that can be looked into.         *)
(***************************************************************************)
EXTENDS Integers, FiniteSets

CONSTANTS
    Pids, Drives,
    Writers,       \* the processes that open drives for writing; others read
    MAX_BLOCKING_PROCESSES,
    WORD,          \* 2^32 in the code
    MaxPass,       \* bound on the passes over one drive
    MaxSelect,     \* how often the user selects a drive
    MaxChange      \* how often a process opens or closes a drive

ASSUME SearchAssumption ==
    /\ MAX_BLOCKING_PROCESSES \in Nat \ {0} /\ Writers \subseteq Pids
    /\ MaxPass \in Nat \ {0} /\ WORD \in Nat /\ WORD > MaxPass + 1
    /\ MaxSelect \in Nat /\ MaxChange \in Nat

VARIABLES
    hSearchProcessThread,   \* the main window has a handle of the thread
    thread,                 \* where the thread is
    \* blocking_process
    bActive, nVersion, hLock, hStart, wHandleName, Process, nPass,
    \* of the thread
    my_names, todo,
    \* of the main window
    main, wanted,
    \* Windows: which processes have which drive open
    holders,
    \* history
    selects, changes,
    steady,     \* had the drive open ever since it was selected
    ever,       \* had it open at some time since then
    crowded,    \* there was no entry left for a process since then
    searched,   \* a pass over it has ended
    terminated, \* a thread had to be terminated
    report      \* what the last GetProcessSearch came to

threadLocals == <<my_names, todo>>
shared == <<bActive, nVersion, hLock, hStart, wHandleName, Process, nPass>>
history == <<selects, changes, steady, ever, crowded, searched, terminated, report>>
searchVars == <<hSearchProcessThread, thread, shared, threadLocals, main, wanted,
                holders, history>>

None == "none"

\* Neither a process nor a drive: the pid 0 of a free entry, or no handle names.
ASSUME NoneAssumption == None \notin Pids /\ None \notin Drives

Slots == 1..MAX_BLOCKING_PROCESSES
Empty == [pid |-> None, seen_on_pass |-> 0]
All == {"r", "w"}
Masks == {All, {"w"}}
NoReport == [valid |-> FALSE, mask |-> All, pids |-> {}, steady |-> {},
             ever |-> {}, settled |-> FALSE, searched |-> FALSE]
Rights(p) == IF p \in Writers THEN {"w"} ELSE {"r"}
Listed == {Process[s].pid : s \in Slots} \ {None}

SearchTypeOK ==
    /\ hSearchProcessThread \in BOOLEAN
    /\ thread \in {"none", "init", "check", "await", "loop", "pass", "out"}
    /\ bActive \in BOOLEAN /\ hLock \in BOOLEAN /\ hStart \in BOOLEAN
    /\ nVersion \in [{0, 1} -> 0..MaxSelect]
    /\ wHandleName \in Drives \cup {None} /\ my_names \in Drives \cup {None}
    /\ Process \in [Slots -> [pid : Pids \cup {None}, seen_on_pass : 0..MaxPass]]
    /\ nPass \in 0..MaxPass /\ todo \subseteq Pids
    /\ main \in {"idle", "starting", "setting", "stopping"} /\ wanted \in Drives \cup {None}
    /\ holders \in [Drives -> SUBSET Pids]
    /\ selects \in 0..MaxSelect /\ changes \in 0..MaxChange
    /\ steady \subseteq Pids /\ ever \subseteq Pids
    /\ crowded \in BOOLEAN /\ searched \in BOOLEAN /\ terminated \in BOOLEAN
    /\ report \in [valid : BOOLEAN, mask : Masks, pids : SUBSET Pids, steady : SUBSET Pids,
                   ever : SUBSET Pids, settled : BOOLEAN, searched : BOOLEAN]

SearchInit ==
    /\ hSearchProcessThread = FALSE /\ thread = "none"
    /\ bActive = FALSE /\ nVersion = [v \in {0, 1} |-> 0]
    /\ hLock = FALSE /\ hStart = FALSE /\ wHandleName = None
    /\ Process = [s \in Slots |-> Empty] /\ nPass = 0
    /\ my_names = None /\ todo = {}
    /\ main = "idle" /\ wanted = None
    /\ holders \in [Drives -> SUBSET Pids]
    /\ selects = 0 /\ changes = 0
    /\ steady = {} /\ ever = {} /\ crowded = FALSE
    /\ searched = FALSE /\ terminated = FALSE
    /\ report = NoReport

-----------------------------------------------------------------------------
\* Mutant: entries stay for one more pass, and the second one wraps around too.
PrunedLater == [s \in Slots |-> IF Process[s].seen_on_pass < (nPass - 2) % WORD
                                THEN Empty ELSE Process[s]]

\* Entries "that have not been detected for a few passes": on the first pass over
\* a drive nPass - 1 wraps around, and every entry goes.
Pruned == [s \in Slots |-> IF Process[s].seen_on_pass < (nPass - 1) % WORD
                           THEN Empty ELSE Process[s]]

\* The slot for p among the entries e: its own, else the first that is free.
SlotFor(p, e) ==
    LET own == {s \in Slots : e[s].pid = p}
        free == {s \in Slots : e[s].pid = None}
    IN  IF own # {} THEN own
        ELSE {s \in free : \A t \in free : s <= t}

Store(p) ==
    Process' = [s \in Slots |-> IF s \in SlotFor(p, Pruned)
                                THEN [pid |-> p, seen_on_pass |-> nPass]
                                ELSE Pruned[s]]

\* SearchProcessThread sets up blocking_process, and only then its hLock.
ThreadInit ==
    /\ thread = "init"
    /\ bActive' = FALSE /\ nVersion' = [v \in {0, 1} |-> 0]
    /\ hStart' = FALSE /\ wHandleName' = None
    /\ Process' = [s \in Slots |-> Empty] /\ nPass' = 0
    /\ \/ hLock' = TRUE /\ thread' = "check"
       \/ hLock' = FALSE /\ thread' = "out"
    /\ UNCHANGED <<hSearchProcessThread, threadLocals, main, wanted, holders, history>>

\* It waits for its start, unless it finds itself active.
ThreadAwait ==
    /\ \/ thread = "check" /\ thread' = (IF bActive THEN "loop" ELSE "await")
       \/ thread = "await" /\ hStart /\ thread' = "loop"
    /\ UNCHANGED <<hSearchProcessThread, shared, threadLocals, main, wanted,
                   holders, history>>

\* Mutant: the counter of passes is not reset for new names.
CopyKeepsPass ==
    /\ my_names' = wHandleName
    /\ nVersion' = [nVersion EXCEPT ![1] = nVersion[0]]
    /\ UNCHANGED nPass

\* New names are copied, so that they can be compared without the lock.
CopyNames ==
    /\ my_names' = wHandleName
    /\ nVersion' = [nVersion EXCEPT ![1] = nVersion[0]]
    /\ nPass' = 0

\* "Update only if the version has changed." Passes are bounded.
UpdateNames ==
    IF nVersion[0] # nVersion[1] THEN CopyNames
    ELSE nPass < MaxPass /\ UNCHANGED <<nVersion, nPass, my_names>>

\* The loop: end; "No handles to check => just sleep for a while"; or update the
\* names and take a snapshot of the open handles, to be tried again if it fails.
ThreadLoop ==
    /\ thread = "loop"
    /\ \/ /\ ~ bActive /\ thread' = "out"
          /\ UNCHANGED <<nVersion, nPass, threadLocals>>
       \/ /\ bActive /\ wHandleName = None
          /\ UNCHANGED <<thread, nVersion, nPass, threadLocals>>
       \/ /\ bActive /\ wHandleName # None
          /\ UpdateNames
          /\ \/ todo' = holders[my_names'] /\ thread' = "pass"
             \/ UNCHANGED <<todo, thread>>
    /\ UNCHANGED <<hSearchProcessThread, bActive, hLock, hStart, wHandleName,
                   Process, main, wanted, holders, history>>

\* It leaves by itself for want of memory.
ThreadLeaves ==
    /\ thread \in {"check", "loop"} /\ thread' = "out"
    /\ UNCHANGED <<hSearchProcessThread, shared, threadLocals, main, wanted,
                   holders, history>>

\* One process of the snapshot: it is stored if its handle can still be looked at.
StoreProcess ==
    /\ thread = "pass" /\ bActive
    /\ \E p \in todo :
           /\ todo' = todo \ {p}
           /\ \/ /\ Store(p)
                 /\ crowded' = (crowded \/ SlotFor(p, Pruned) = {})
              \/ /\ p \notin holders[my_names]
                 /\ UNCHANGED <<Process, crowded>>
    /\ UNCHANGED <<hSearchProcessThread, thread, bActive, nVersion, hLock, hStart,
                   wHandleName, nPass, my_names, main, wanted, holders, selects,
                   changes, steady, ever, searched, terminated, report>>

\* The end of a pass, or of the thread in the middle of it.
EndPass ==
    /\ thread = "pass"
    /\ nPass' = (nPass + 1) % WORD
    /\ \/ ~ bActive /\ thread' = "out" /\ UNCHANGED searched
       \/ /\ bActive /\ todo = {} /\ thread' = "loop"
          /\ searched' = (searched \/ (nVersion[0] = nVersion[1] /\ my_names = wanted))
    /\ UNCHANGED <<hSearchProcessThread, bActive, nVersion, hLock, hStart,
                   wHandleName, Process, threadLocals, main, wanted, holders,
                   selects, changes, steady, ever, crowded, terminated, report>>

\* out: blocking_process is taken down; the handle of the thread remains.
ThreadOut ==
    /\ thread = "out" /\ thread' = "none"
    /\ hLock' = FALSE /\ bActive' = FALSE
    /\ wHandleName' = None /\ hStart' = FALSE
    /\ my_names' = None /\ todo' = {}
    /\ UNCHANGED <<hSearchProcessThread, nVersion, Process, nPass, main, wanted,
                   holders, history>>

SearchProcessThread ==
    ThreadInit \/ ThreadAwait \/ ThreadLoop \/ StoreProcess \/ EndPass \/ ThreadOut

-----------------------------------------------------------------------------
\* IDC_DEVICE, for d or for an empty list: StartProcessSearch, if no handle of a
\* thread is kept, SetProcessSearch, and StopProcessSearch when one of them fails.
SelectDevice(d) ==
    /\ main = "idle"
    /\ selects < MaxSelect /\ selects' = selects + 1
    /\ wanted' = d /\ searched' = FALSE /\ report' = NoReport
    /\ steady' = (IF d = None THEN {} ELSE holders[d])
    /\ ever' = steady' /\ crowded' = FALSE
    /\ \/ /\ d = None \/ ~ hSearchProcessThread   \* nothing to stop, or no thread
          /\ main' = IF hSearchProcessThread THEN "stopping" ELSE "idle"
          /\ bActive' = (bActive /\ ~ hSearchProcessThread)
          /\ UNCHANGED <<hSearchProcessThread, thread>>
       \/ /\ d # None /\ ~ hSearchProcessThread
          /\ hSearchProcessThread' = TRUE /\ thread' = "init"
          /\ main' = "starting"
          /\ UNCHANGED bActive
       \/ /\ d # None /\ hSearchProcessThread
          /\ main' = "setting"
          /\ UNCHANGED <<hSearchProcessThread, thread, bActive>>
    /\ UNCHANGED <<nVersion, hLock, hStart, wHandleName, Process, nPass,
                   threadLocals, holders, changes, terminated>>

\* TerminateThread, CloseHandle: what the thread has left in blocking_process stays.
Terminate ==
    /\ thread' = "none" /\ my_names' = None /\ todo' = {}
    /\ hSearchProcessThread' = FALSE /\ main' = "idle"
    /\ terminated' = TRUE

\* StartProcessSearch "waits until we have hLock", which one that a terminated
\* thread has left satisfies.
StartProcessSearch ==
    /\ main = "starting"
    /\ \/ /\ hLock /\ main' = "setting"
          /\ UNCHANGED <<hSearchProcessThread, thread, threadLocals, terminated>>
       \/ ~ hLock /\ Terminate
    /\ UNCHANGED <<shared, wanted, holders, selects, changes, steady, ever, crowded,
                   searched, report>>

LockIsStale == hLock /\ thread \in {"none", "init"}

\* Mutant: the start event is not signalled.
SetWithoutSignal ==
    /\ main = "setting"
    /\ \/ /\ hLock
          /\ wHandleName' = wanted
          /\ nVersion' = [nVersion EXCEPT ![0] = @ + 1]
          /\ bActive' = TRUE /\ main' = "idle"
       \/ /\ ~ hLock \/ LockIsStale
          /\ bActive' = FALSE /\ main' = "stopping"
          /\ UNCHANGED <<wHandleName, nVersion>>
    /\ UNCHANGED <<hSearchProcessThread, thread, hLock, hStart, Process, nPass,
                   threadLocals, wanted, holders, history>>

\* SetProcessSearch: new names for the thread, if Windows has any for the drive.
\* Without the lock it fails, also if the thread has left by itself and there is no
\* lock any more.
SetProcessSearch ==
    /\ main = "setting"
    /\ \/ /\ hLock
          /\ wHandleName' \in {wanted, None}
          /\ nVersion' = [nVersion EXCEPT ![0] = @ + 1]
          /\ bActive' = TRUE /\ hStart' = TRUE /\ main' = "idle"
       \/ /\ ~ hLock \/ LockIsStale
          /\ bActive' = FALSE /\ main' = "stopping"
          /\ UNCHANGED <<wHandleName, nVersion, hStart>>
    /\ UNCHANGED <<hSearchProcessThread, thread, hLock, Process, nPass,
                   threadLocals, wanted, holders, history>>

\* StopProcessSearch waits for the thread to end, or terminates it. A thread that
\* awaits its start does not hear that it is no longer active.
StopProcessSearch ==
    /\ main = "stopping"
    /\ \/ /\ thread = "none"
          /\ hSearchProcessThread' = FALSE /\ main' = "idle"
          /\ UNCHANGED <<thread, threadLocals, terminated>>
       \/ thread # "none" /\ Terminate
    /\ UNCHANGED <<shared, wanted, holders, selects, changes, steady, ever, crowded,
                   searched, report>>

\* GetProcessSearch(timeout, mask, ignore_stale): nothing without a thread and its
\* lock, or when no pass with the current names ends in time. A process that no
\* longer has a drive open may have ended.
GetProcessSearch(mask, ignore_stale) ==
    \/ report' = [NoReport EXCEPT !.mask = mask]
       /\ ~ (hSearchProcessThread /\ hLock /\ nVersion[0] = nVersion[1] /\ nPass >= 1)
    \/ /\ hSearchProcessThread /\ hLock
       /\ nVersion[0] = nVersion[1] /\ nPass >= 1
       /\ LET matching == {p \in Listed : Rights(p) \cap mask # {}}
              gone == {p \in matching : \A d \in Drives : p \notin holders[d]}
          IN  \E ended \in (IF ignore_stale THEN SUBSET gone ELSE {{}}) :
                  report' = [valid |-> TRUE, mask |-> mask,
                             pids |-> matching \ ended, steady |-> steady,
                             ever |-> ever, settled |-> (nPass >= 2 /\ ~ crowded),
                             searched |-> searched]

\* A process opens or closes a drive.
HandleChanges ==
    /\ changes < MaxChange /\ changes' = changes + 1
    /\ \E d \in Drives, p \in Pids :
           /\ holders' = [holders EXCEPT ![d] = IF p \in @ THEN @ \ {p}
                                                ELSE @ \cup {p}]
           /\ steady' = IF d = wanted THEN steady \cap holders'[d] ELSE steady
           /\ ever' = IF d = wanted THEN ever \cup holders'[d] ELSE ever
    /\ UNCHANGED <<hSearchProcessThread, thread, shared, threadLocals, main, wanted,
                   selects, crowded, searched, terminated, report>>
=============================================================================
