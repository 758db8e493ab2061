---------------------------- MODULE HashPipeline ----------------------------
(***************************************************************************)
(* common/hash.c: HashThread reads an image into three buffers with        *)
(* asynchronous I/O, while one IndividualHashThread per algorithm hashes   *)
(* the buffer that was read last. The threads meet at two families of      *)
(* auto-reset events: thread_ready ("I can take data") and data_ready      *)
(* ("there is data in buffer[proc_bufnum]").                               *)
(*                                                                         *)
(* A hash context is abstracted to how much of the image it has absorbed   *)
(* from the start and in order, or Spoiled when it absorbed anything else. *)
(***************************************************************************)
EXTENDS WinAsyncFile

CONSTANTS
    num_hashes,    \* how many algorithms are enabled
    BUFFER_SIZE,   \* units asked for by each read
    Faults         \* the failures of system calls that may be met

NUM_BUFFERS == 3
Hashes == 1..num_hashes

ASSUME NumHashesAssumption == num_hashes \in Nat \ {0}
ASSUME BufferSizeAssumption == BUFFER_SIZE \in Nat \ {0}
ASSUME BufsAssumption == Bufs = 0..(NUM_BUFFERS - 1)
ASSUME FaultsAssumption == Faults \subseteq {"timeout", "resource"}

VARIABLES
    faults,         \* the failures that this computation meets: none, or any
    pc,             \* where HashThread is
    i,              \* its loop index
    read_bufnum,    \* the buffer being read into
    proc_bufnum,    \* the buffer being hashed
    read_size,      \* how much each buffer holds
    thread_ready,   \* events
    data_ready,
    tpc,            \* where each IndividualHashThread is
    hash_ctx,
    hash_str,       \* the digests shown to the user
    ErrorStatus,
    r               \* HashThread's result

pipeVars == <<read_bufnum, proc_bufnum, read_size>>
threadVars == <<tpc, hash_ctx, hash_str>>
vars == <<faults, fdVars, pc, i, pipeVars, thread_ready, data_ready, threadVars,
          ErrorStatus, r>>

Spoiled == -1
Stale == -2            \* hash_str as the last computation left it

\* hash_write(): absorbing a fragment that does not follow what is there, or
\* that is not what was read, gives the digest of something else.
Absorb(ctx, frag, size) ==
    IF ctx = frag.off /\ size = frag.len THEN ctx + size ELSE Spoiled

Errors == {"none", "cancelled", "open_failed", "read_fault"}
HashThreadPCs == {"create", "open", "first_read", "loop", "wait_read", "next_read",
    "wait_ready", "set_proc", "signal", "join", "out", "done"}
ThreadPCs == {"none", "init", "wait", "hashing", "signal", "exit0", "exit1",
    "terminated"}

\* The state of the threads, the events and the buffers has its type.
TypeOK ==
    /\ FdTypeOK
    /\ faults \subseteq Faults
    /\ pc \in HashThreadPCs
    /\ i \in 1..(num_hashes + 1)
    /\ read_bufnum \in 0..(NUM_BUFFERS - 1)
    /\ proc_bufnum \in 0..(NUM_BUFFERS - 1)
    /\ read_size \in [0..(NUM_BUFFERS - 1) -> Nat]
    /\ thread_ready \in [Hashes -> BOOLEAN]
    /\ data_ready \in [Hashes -> BOOLEAN]
    /\ tpc \in [Hashes -> ThreadPCs]
    /\ hash_ctx \in [Hashes -> {Spoiled} \cup (0..FileSize)]
    /\ hash_str \in [Hashes -> {Spoiled, Stale} \cup (0..FileSize)]
    /\ ErrorStatus \in Errors
    /\ r \in {-1, 0}

Init ==
    /\ FdInit
    /\ faults \in {{}, Faults}
    /\ pc = "create" /\ i = 1
    /\ read_bufnum = 0 /\ proc_bufnum = 0
    /\ read_size = [b \in 0..(NUM_BUFFERS - 1) |-> 0]
    /\ thread_ready = [t \in Hashes |-> FALSE]
    /\ data_ready = [t \in Hashes |-> FALSE]
    /\ tpc = [t \in Hashes |-> "none"]
    /\ hash_ctx = [t \in Hashes |-> 0]
    /\ hash_str = [t \in Hashes |-> Stale]
    /\ ErrorStatus = "none"
    /\ r = -1

-----------------------------------------------------------------------------
\* IndividualHashThread(t)

\* hash_init and the first "ready". The event is a kernel object: setting it
\* may fail.
ThreadInit(t) ==
    /\ tpc[t] = "init"
    /\ \/ /\ thread_ready' = [thread_ready EXCEPT ![t] = TRUE]
          /\ tpc' = [tpc EXCEPT ![t] = "wait"]
       \/ /\ "resource" \in faults
          /\ tpc' = [tpc EXCEPT ![t] = "exit1"]
          /\ UNCHANGED thread_ready
    /\ UNCHANGED <<faults, fdVars, pc, i, pipeVars, data_ready, hash_ctx,
                   hash_str, ErrorStatus, r>>

\* Woken by data_ready, which resets: start on the data, or, when there is
\* none, publish the digest and end.
ThreadWake(t) ==
    /\ tpc[t] = "wait"
    /\ data_ready[t]
    /\ data_ready' = [data_ready EXCEPT ![t] = FALSE]
    /\ \/ /\ read_size[proc_bufnum] # 0
          /\ tpc' = [tpc EXCEPT ![t] = "hashing"]
          /\ UNCHANGED hash_str
       \/ /\ read_size[proc_bufnum] = 0
          /\ hash_str' = [hash_str EXCEPT ![t] = hash_ctx[t]]
          /\ tpc' = [tpc EXCEPT ![t] = "exit0"]
    /\ UNCHANGED <<faults, fdVars, pc, i, pipeVars, thread_ready, hash_ctx,
                   ErrorStatus, r>>

\* No data within WAIT_TIME: the thread gives up.
ThreadTimeout(t) ==
    /\ "timeout" \in faults
    /\ tpc[t] = "wait"
    /\ ~ data_ready[t]
    /\ tpc' = [tpc EXCEPT ![t] = "exit1"]
    /\ UNCHANGED <<faults, fdVars, pc, i, pipeVars, thread_ready, data_ready,
                   hash_ctx, hash_str, ErrorStatus, r>>

\* hash_write() has gone through the buffer.
ThreadHash(t) ==
    /\ tpc[t] = "hashing"
    /\ hash_ctx' = [hash_ctx EXCEPT
           ![t] = Absorb(@, buffer[proc_bufnum], read_size[proc_bufnum])]
    /\ tpc' = [tpc EXCEPT ![t] = "signal"]
    /\ UNCHANGED <<faults, fdVars, pc, i, pipeVars, thread_ready, data_ready,
                   hash_str, ErrorStatus, r>>

ThreadSignal(t) ==
    /\ tpc[t] = "signal"
    /\ \/ /\ thread_ready' = [thread_ready EXCEPT ![t] = TRUE]
          /\ tpc' = [tpc EXCEPT ![t] = "wait"]
       \/ /\ "resource" \in faults
          /\ tpc' = [tpc EXCEPT ![t] = "exit1"]
          /\ UNCHANGED thread_ready
    /\ UNCHANGED <<faults, fdVars, pc, i, pipeVars, data_ready, hash_ctx,
                   hash_str, ErrorStatus, r>>

IndividualHashThread(t) ==
    \/ ThreadInit(t) \/ ThreadWake(t) \/ ThreadTimeout(t)
    \/ ThreadHash(t) \/ ThreadSignal(t)

-----------------------------------------------------------------------------
\* HashThread

\* The events and the thread of one algorithm are created; or one of them
\* cannot be.
CreateHashThread ==
    /\ pc = "create"
    /\ \/ /\ tpc' = [tpc EXCEPT ![i] = "init"]
          /\ i' = IF i = num_hashes THEN 1 ELSE i + 1
          /\ pc' = IF i = num_hashes THEN "open" ELSE pc
       \/ /\ "resource" \in faults
          /\ pc' = "out"
          /\ UNCHANGED <<tpc, i>>
    /\ UNCHANGED <<faults, fdVars, pipeVars, thread_ready, data_ready, hash_ctx,
                   hash_str, ErrorStatus, r>>

OpenImage ==
    /\ pc = "open"
    /\ \/ /\ CreateFileAsync
          /\ read_bufnum' = 0
          /\ proc_bufnum' = 1
          /\ read_size' = [read_size EXCEPT ![1] = 1]
          /\ pc' = "first_read"
          /\ UNCHANGED ErrorStatus
       \/ /\ ErrorStatus' = "open_failed"
          /\ pc' = "out"
          /\ UNCHANGED <<fdVars, pipeVars>>
    /\ UNCHANGED <<faults, i, thread_ready, data_ready, threadVars, r>>

\* Start the initial read; like the others, its own result is not looked at.
FirstRead ==
    /\ pc = "first_read"
    /\ ReadFileAsync(read_bufnum, BUFFER_SIZE)
    /\ pc' = "loop"
    /\ UNCHANGED <<faults, i, pipeVars, thread_ready, data_ready, threadVars,
                   ErrorStatus, r>>

\* The loop's condition, and 0: CHECK_FOR_USER_CANCEL.
LoopTest ==
    /\ pc = "loop"
    /\ pc' = IF read_size[proc_bufnum] = 0 THEN "join"
             ELSE IF ErrorStatus = "cancelled" THEN "out" ELSE "wait_read"
    /\ UNCHANGED <<faults, fdVars, i, pipeVars, thread_ready, data_ready,
                   threadVars, ErrorStatus, r>>

\* 1: wait for the read (DRIVE_ACCESS_TIMEOUT) and take its size.
WaitRead ==
    /\ pc = "wait_read"
    /\ WaitFileAsyncTrue
    /\ \E n \in 0..FileSize :
           /\ GetSizeAsyncTrue(n)
           /\ read_size' = [read_size EXCEPT ![read_bufnum] = n]
    /\ pc' = "next_read"
    /\ UNCHANGED <<faults, i, read_bufnum, proc_bufnum, thread_ready,
                   data_ready, threadVars, ErrorStatus, r>>

\* Mutant: a read error is taken for the end of the image.
ReadFailsAsEnd ==
    /\ pc = "wait_read"
    /\ WaitFileAsyncTrue /\ GetSizeAsyncFalse
    /\ read_size' = [read_size EXCEPT ![read_bufnum] = 0]
    /\ pc' = "next_read"
    /\ UNCHANGED <<faults, i, read_bufnum, proc_bufnum, thread_ready,
                   data_ready, threadVars, ErrorStatus, r>>

\* A read that was not accepted leaves its size at 0 (GetSizeAsync).
ReadFails ==
    /\ pc = "wait_read"
    /\ \/ WaitFileAsyncTrue /\ GetSizeAsyncFalse
       \/ /\ "timeout" \in faults
          /\ WaitFileAsyncFalse
          /\ UNCHANGED fdVars
    /\ read_size' = IF iStatus = 0 THEN [read_size EXCEPT ![read_bufnum] = 0]
                    ELSE read_size
    /\ ErrorStatus' = "read_fault"
    /\ pc' = "out"
    /\ UNCHANGED <<faults, i, read_bufnum, proc_bufnum, thread_ready,
                   data_ready, threadVars, r>>

\* Mutant: "a mere double buffered async I/O".
NextReadDoubleBuffered ==
    /\ pc = "next_read"
    /\ read_bufnum' = (read_bufnum + 1) % 2
    /\ ReadFileAsync(read_bufnum', BUFFER_SIZE)
    /\ pc' = "wait_ready"
    /\ UNCHANGED <<faults, i, proc_bufnum, read_size, thread_ready, data_ready,
                   threadVars, ErrorStatus, r>>

\* Mutant: the buffer to process is switched before the threads are ready.
NextReadSwitchesProc ==
    /\ pc = "next_read"
    /\ proc_bufnum' = read_bufnum
    /\ read_bufnum' = (read_bufnum + 1) % NUM_BUFFERS
    /\ ReadFileAsync(read_bufnum', BUFFER_SIZE)
    /\ pc' = "wait_ready"
    /\ UNCHANGED <<faults, i, read_size, thread_ready, data_ready, threadVars,
                   ErrorStatus, r>>

\* Mutant: the index of the buffer does not wrap.
NextReadUnwrapped ==
    /\ pc = "next_read"
    /\ read_bufnum' = read_bufnum + 1
    /\ ReadFileAsync(read_bufnum', BUFFER_SIZE)
    /\ pc' = "wait_ready"
    /\ UNCHANGED <<faults, i, proc_bufnum, read_size, thread_ready, data_ready,
                   threadVars, ErrorStatus, r>>

\* 2 and 3: switch to the next buffer and start reading into it.
NextRead ==
    /\ pc = "next_read"
    /\ read_bufnum' = (read_bufnum + 1) % NUM_BUFFERS
    /\ ReadFileAsync(read_bufnum', BUFFER_SIZE)
    /\ pc' = "wait_ready"
    /\ UNCHANGED <<faults, i, proc_bufnum, read_size, thread_ready, data_ready,
                   threadVars, ErrorStatus, r>>

\* Mutant: the wait has no timeout.
WaitReadyForever ==
    /\ pc = "wait_ready"
    /\ \A t \in Hashes : thread_ready[t]
    /\ thread_ready' = [t \in Hashes |-> FALSE]
    /\ pc' = "set_proc"
    /\ UNCHANGED <<faults, fdVars, i, pipeVars, data_ready, threadVars,
                   ErrorStatus, r>>

\* 4: all the threads are ready (which resets the events), or WAIT_TIME passes.
WaitReady ==
    /\ pc = "wait_ready"
    /\ \/ /\ \A t \in Hashes : thread_ready[t]
          /\ thread_ready' = [t \in Hashes |-> FALSE]
          /\ pc' = "set_proc"
       \/ /\ "timeout" \in faults
          /\ \E t \in Hashes : ~ thread_ready[t]
          /\ pc' = "out"
          /\ UNCHANGED thread_ready
    /\ UNCHANGED <<faults, fdVars, i, pipeVars, data_ready, threadVars,
                   ErrorStatus, r>>

\* 5: the buffer to process is the one just read.
SetProc ==
    /\ pc = "set_proc"
    /\ proc_bufnum' = (read_bufnum + NUM_BUFFERS - 1) % NUM_BUFFERS
    /\ i' = 1
    /\ pc' = "signal"
    /\ UNCHANGED <<faults, fdVars, read_bufnum, read_size, thread_ready,
                   data_ready, threadVars, ErrorStatus, r>>

\* Mutant: the last thread is not woken.
SignalAllButLast ==
    /\ pc = "signal"
    /\ data_ready' = [data_ready EXCEPT ![i] = i < num_hashes]
    /\ i' = i + 1
    /\ pc' = IF i = num_hashes THEN "loop" ELSE pc
    /\ UNCHANGED <<faults, fdVars, pipeVars, thread_ready, threadVars,
                   ErrorStatus, r>>

\* 6: wake the threads one after the other.
SignalData ==
    /\ pc = "signal"
    /\ \/ /\ data_ready' = [data_ready EXCEPT ![i] = TRUE]
          /\ i' = i + 1
          /\ pc' = IF i = num_hashes THEN "loop" ELSE pc
       \/ /\ "resource" \in faults
          /\ pc' = "out"
          /\ UNCHANGED <<data_ready, i>>
    /\ UNCHANGED <<faults, fdVars, pipeVars, thread_ready, threadVars,
                   ErrorStatus, r>>

\* Every thread has ended, for whatever reason, or WAIT_TIME passes.
Ended(t) == tpc[t] \in {"exit0", "exit1"}

JoinThreads ==
    /\ pc = "join"
    /\ \/ (\A t \in Hashes : Ended(t)) /\ r' = 0
       \/ /\ "timeout" \in faults
          /\ \E t \in Hashes : ~ Ended(t)
          /\ UNCHANGED r
    /\ pc' = "out"
    /\ UNCHANGED <<faults, fdVars, i, pipeVars, thread_ready, data_ready,
                   threadVars, ErrorStatus>>

\* out: end the threads, close the events and the file, and post
\* UM_FORMAT_COMPLETED.
CleanUp ==
    /\ pc = "out"
    /\ tpc' = [t \in Hashes |->
                  IF tpc[t] = "none" \/ Ended(t) THEN tpc[t] ELSE "terminated"]
    /\ thread_ready' = [t \in Hashes |-> FALSE]
    /\ data_ready' = [t \in Hashes |-> FALSE]
    /\ CloseFileAsync
    /\ pc' = "done"
    /\ UNCHANGED <<faults, i, pipeVars, hash_ctx, hash_str, ErrorStatus, r>>

HashThread ==
    \/ CreateHashThread \/ OpenImage \/ FirstRead \/ LoopTest \/ WaitRead
    \/ ReadFails \/ NextRead \/ WaitReady \/ SetProc \/ SignalData
    \/ JoinThreads \/ CleanUp

-----------------------------------------------------------------------------
\* The user interface: the Cancel button, at any time while the thread runs.
UserCancel ==
    /\ pc # "done"
    /\ ErrorStatus' = "cancelled"
    /\ UNCHANGED <<faults, fdVars, pc, i, pipeVars, thread_ready, data_ready,
                   threadVars, r>>

Kernel ==
    /\ KernelComplete
    /\ UNCHANGED <<faults, pc, i, pipeVars, thread_ready, data_ready,
                   threadVars, ErrorStatus, r>>

Finished == pc = "done" /\ UNCHANGED vars

Next ==
    \/ HashThread
    \/ \E t \in Hashes : IndividualHashThread(t)
    \/ Kernel
    \/ UserCancel
    \/ Finished

\* Threads that can run are scheduled, and the kernel ends what it accepted.
Fairness ==
    /\ WF_vars(HashThread)
    /\ \A t \in Hashes : WF_vars(IndividualHashThread(t))
    /\ WF_vars(Kernel)

Spec == Init /\ [][Next]_vars
FairSpec == Spec /\ Fairness

-----------------------------------------------------------------------------
\* "a mere double buffered async I/O would modify the buffer being processed":
\* a buffer some thread has been told to hash, or is hashing, is never the one
\* a read may be writing to.
NoOverwriteWhileHashing ==
    \A t \in Hashes :
        (tpc[t] = "hashing" \/ (tpc[t] = "wait" /\ data_ready[t]))
            => ~ (op.st = "pending" /\ op.buf = proc_bufnum)

\* "this variable should only be updated AFTER all the threads have signalled":
\* proc_bufnum and the size it selects do not change under a thread that has
\* data to hash.
ProcBufferStable ==
    [][ \A t \in Hashes :
          (tpc[t] = "hashing" \/ (tpc[t] = "wait" /\ data_ready[t])) =>
              /\ proc_bufnum' = proc_bufnum
              /\ read_size'[proc_bufnum] = read_size[proc_bufnum] ]_vars

\* Whatever the interleaving, no context ever absorbs a unit out of order,
\* twice, or from a buffer that is being written to.
DigestsAreInOrder == \A t \in Hashes : hash_ctx[t] # Spoiled

\* A digest that a thread publishes is the digest of the whole image.
PublishedDigestIsWhole ==
    \A t \in Hashes : hash_str[t] \in {Stale, FileSize}

\* The comment at the end of HashThread: "Our last event with read_size=0
\* signaled the threads to exit - wait for that to happen". When that wait
\* succeeds (r = 0) the digests shown are those of this image.
SuccessMeansAllDigests ==
    (pc = "done" /\ r = 0) => \A t \in Hashes : hash_str[t] = FileSize

\* However the waits end, HashThread ends and posts UM_FORMAT_COMPLETED.
HashThreadEnds == <>(pc = "done")

\* Without a cancellation, an I/O error or a timeout, every algorithm gets its
\* digest: no signal between the threads is lost.
DigestsComputed ==
    <>(\/ ErrorStatus # "none" \/ faults # {}
       \/ pc = "done" /\ \A t \in Hashes : hash_str[t] = FileSize)

-----------------------------------------------------------------------------
\* The inductive invariant that the buffer and digest properties rest on.

\* t has been told of data it has not finished hashing.
HasData(t) == tpc[t] = "hashing" \/ (tpc[t] = "wait" /\ data_ready[t])

\* The buffer the last completed read went to, once its size is known and
\* until every thread is told of it.
Fresh == IF pc = "next_read" THEN read_bufnum ELSE (read_bufnum + 2) % 3

FreshPCs == {"next_read", "wait_ready", "set_proc", "signal"}

\* How much of the image t has been told of.
Told(t) == IF pc \in FreshPCs /\ ~ (pc = "signal" /\ t < i)
           THEN Offset - read_size[Fresh] ELSE Offset

\* Where the fragment a buffer holds lies in the file.
FragmentsInFile ==
    \A b \in Bufs : buffer[b].off + buffer[b].len <= FileSize

\* A transfer whose size has not been taken is at the current offset.
TransferAtOffset ==
    /\ op.st \in {"pending", "complete", "eof"} => op.want = BUFFER_SIZE
    /\ (op.st = "complete" /\ ~ bOffsetUpdated) =>
           /\ buffer[op.buf] = [off |-> Offset, len |-> op.len]
           /\ op.len > 0 /\ Offset + op.len <= FileSize
    /\ op.st = "eof" => Offset = FileSize

\* What a thread with data to hash finds in the processing buffer is what it
\* has not absorbed yet, and no read is writing there.
DataAwaited ==
    \A t \in Hashes : HasData(t) =>
        /\ ~ (op.st = "pending" /\ op.buf = proc_bufnum)
        /\ tpc[t] = "hashing" => read_size[proc_bufnum] # 0
        /\ IF read_size[proc_bufnum] = 0 THEN hash_ctx[t] = FileSize
           ELSE buffer[proc_bufnum] =
                    [off |-> hash_ctx[t], len |-> read_size[proc_bufnum]]

\* Reads go to the buffers that no thread has been told of.
BuffersApart ==
    /\ pc \in {"loop", "wait_read", "next_read", "wait_ready", "set_proc",
               "signal"} => op.buf = read_bufnum
    /\ (pc \in {"loop", "wait_read", "next_read"} /\ \E t \in Hashes : HasData(t))
           => read_bufnum = (proc_bufnum + 1) % 3
    /\ (pc = "wait_ready" /\ \E t \in Hashes : HasData(t))
           => read_bufnum = (proc_bufnum + 2) % 3
    /\ pc = "signal" => proc_bufnum = (read_bufnum + 2) % 3

\* The last buffer read holds the part of the image just before the offset.
FreshData ==
    pc \in FreshPCs =>
        IF read_size[Fresh] = 0 THEN Offset = FileSize
        ELSE /\ buffer[Fresh] = [off |-> Offset - read_size[Fresh],
                                 len |-> read_size[Fresh]]
             /\ ~ (op.st = "pending" /\ op.buf = Fresh)

\* A live thread has absorbed all it was told of, but for what it is hashing.
ThreadsCaughtUp ==
    pc \notin {"out", "done"} =>
        \A t \in Hashes :
            /\ HasData(t) => hash_ctx[t] + read_size[proc_bufnum] = Told(t)
            /\ (tpc[t] \in {"none", "init", "wait", "signal"} /\ ~ HasData(t))
                   => hash_ctx[t] = Told(t)

\* A ready thread waits (or has given up) with no data pending, and is told of
\* new data only after its "ready" was consumed.
ReadyThreads ==
    /\ \A t \in Hashes :
           /\ thread_ready[t] =>
                  tpc[t] \in {"wait", "exit1"} /\ ~ data_ready[t]
           /\ tpc[t] \in {"none", "init", "hashing", "signal"} =>
                  ~ data_ready[t]
           /\ (pc = "set_proc" \/ (pc = "signal" /\ t >= i)) =>
                  /\ tpc[t] \in {"wait", "exit1"}
                  /\ ~ data_ready[t] /\ ~ thread_ready[t]
    /\ pc = "signal" => i <= num_hashes

\* Before the first read nothing was read, and no thread has data.
Beginning ==
    /\ pc = "create" =>
           i <= num_hashes /\ \A t \in Hashes : t >= i => tpc[t] = "none"
    /\ pc \in {"create", "open", "first_read"} =>
           Offset = 0 /\ op = NoOp /\ \A t \in Hashes : ~ HasData(t)

\* What HashThread and its hash threads agree on at every step: the buffers that
\* are read, fresh and hashed, how far each context got, and who may be woken.
IInv ==
    /\ TypeOK
    /\ FragmentsInFile
    /\ TransferAtOffset
    /\ DataAwaited
    /\ BuffersApart
    /\ FreshData
    /\ ThreadsCaughtUp
    /\ ReadyThreads
    /\ Beginning
    /\ DigestsAreInOrder
    /\ PublishedDigestIsWhole
=============================================================================
