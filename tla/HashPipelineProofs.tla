-------------------------- MODULE HashPipelineProofs --------------------------
(***************************************************************************)
(* HashPipeline's invariants hold for every file and buffer size, every    *)
(* number of algorithms and every choice of faults.                        *)
(*                                                                         *)
(* The argument: reads and hashing never share a buffer (BuffersApart),    *)
(* so what a thread finds when it is woken is the fragment that was read   *)
(* (DataAwaited, FreshData), which starts where the thread's context ends  *)
(* (ThreadsCaughtUp) because a thread is told of each buffer once          *)
(* (ReadyThreads). There is one lemma per action.                          *)
(***************************************************************************)
EXTENDS HashPipeline, TLAPS

\* What a call of ReadFileAsync leaves: only its own buffer may change, and a
\* read that completed at once put there what follows the offset.
LEMMA ReadFileAsyncEffect ==
    ASSUME FdTypeOK, FragmentsInFile, NEW b \in Bufs,
           ReadFileAsync(b, BUFFER_SIZE)
    PROVE  /\ FdTypeOK' /\ FragmentsInFile' /\ TransferAtOffset'
           /\ op'.buf = b
           /\ \A c \in Bufs : c # b => buffer'[c] = buffer[c]
           /\ UNCHANGED <<hFile, Offset>>
<1> DEFINE m == Transfer(BUFFER_SIZE)
<1>1. /\ m \in 0..FileSize /\ Offset + m <= FileSize
      /\ BUFFER_SIZE \in Nat
      /\ [off |-> Offset, len |-> m] \in Fragments
  BY FileSizeAssumption, BufferSizeAssumption DEF FdTypeOK, Transfer, Fragments
<1>2. Torn \in Fragments /\ Torn.off + Torn.len <= FileSize
  BY FileSizeAssumption DEF Fragments, Torn
<1>3. /\ op' \in Ops /\ op'.buf = b /\ op'.want = BUFFER_SIZE
      /\ op'.st \in {"complete", "pending", "none"}
      /\ op'.st = "complete" => op'.len = m /\ m > 0
  BY <1>1, FileSizeAssumption, BufferSizeAssumption DEF ReadFileAsync, Ops, OpStates
<1>4. \/ buffer' = [buffer EXCEPT ![b] = [off |-> Offset, len |-> m]]
      \/ op'.st # "complete" /\ buffer' = [buffer EXCEPT ![b] = Torn]
      \/ op'.st # "complete" /\ buffer' = buffer
  BY DEF ReadFileAsync
<1>5. /\ iStatus' \in {-1, 0, 1} /\ bOffsetUpdated' = FALSE
      /\ UNCHANGED <<hFile, Offset>>
  BY DEF ReadFileAsync
<1> HIDE DEF m
<1>6. FdTypeOK'
  BY <1>1, <1>2, <1>3, <1>4, <1>5 DEF FdTypeOK
<1>7. FragmentsInFile'
  BY <1>1, <1>2, <1>4 DEF FragmentsInFile, FdTypeOK
<1>8. TransferAtOffset'
  BY <1>1, <1>3, <1>4, <1>5 DEF TransferAtOffset, FdTypeOK
<1>. QED
  BY <1>3, <1>4, <1>5, <1>6, <1>7, <1>8 DEF FdTypeOK

-----------------------------------------------------------------------------
\* HashThread.

\* Creating one more hash thread (hash.c: HashThread, its creation loop) reads
\* nothing and tells no thread of data.
LEMMA CreateHashThreadKeeps ==
    ASSUME IInv, CreateHashThread
    PROVE  IInv'
<1>1. TypeOK'
  BY FileSizeAssumption, NumHashesAssumption, BufferSizeAssumption
     DEF IInv, TypeOK, FdTypeOK, Beginning, Hashes, NUM_BUFFERS,
         HashThreadPCs, ThreadPCs, Errors, CreateHashThread, fdVars, pipeVars
<1>2. FragmentsInFile' /\ TransferAtOffset'
  BY DEF IInv, FragmentsInFile, TransferAtOffset,
         CreateHashThread, fdVars, pipeVars
<1>3. DataAwaited' /\ Beginning'
  BY NumHashesAssumption
     DEF IInv, TypeOK, DataAwaited, Beginning, ReadyThreads, HasData, Hashes,
         CreateHashThread, fdVars, pipeVars
<1>4. BuffersApart'
  BY DEF IInv, TypeOK, BuffersApart, Beginning, ReadyThreads, HasData,
         CreateHashThread, fdVars, pipeVars
<1>5. FreshData'
  BY DEF IInv, TypeOK, FreshData, Fresh, FreshPCs,
         CreateHashThread, fdVars, pipeVars
<1>6. ThreadsCaughtUp'
  BY FileSizeAssumption, NumHashesAssumption
     DEF IInv, TypeOK, FdTypeOK, ThreadsCaughtUp, Beginning, ReadyThreads,
         HasData, Told, Fresh, FreshPCs, Hashes,
         CreateHashThread, fdVars, pipeVars
<1>7. ReadyThreads'
  BY NumHashesAssumption
     DEF IInv, TypeOK, ReadyThreads, Beginning, Hashes,
         CreateHashThread, fdVars, pipeVars
<1>8. DigestsAreInOrder' /\ PublishedDigestIsWhole'
  BY DEF IInv, DigestsAreInOrder, PublishedDigestIsWhole,
         CreateHashThread, fdVars, pipeVars
<1>. QED
  BY <1>1, <1>2, <1>3, <1>4, <1>5, <1>6, <1>7, <1>8 DEF IInv

\* Opening the image (CreateFileAsync) leaves every thread waiting at offset 0.
LEMMA OpenImageKeeps ==
    ASSUME IInv, OpenImage
    PROVE  IInv'
<1>1. TypeOK'
  BY FileSizeAssumption, NumHashesAssumption, BufferSizeAssumption
     DEF IInv, TypeOK, FdTypeOK, Beginning, Hashes, NUM_BUFFERS,
         HashThreadPCs, ThreadPCs, Errors, OpenImage, CreateFileAsync, fdVars, pipeVars, threadVars
<1>2. FragmentsInFile' /\ TransferAtOffset'
  BY DEF IInv, FragmentsInFile, TransferAtOffset,
         OpenImage, CreateFileAsync, fdVars, pipeVars, threadVars
<1>3. DataAwaited' /\ Beginning'
  BY NumHashesAssumption
     DEF IInv, TypeOK, DataAwaited, Beginning, ReadyThreads, HasData, Hashes,
         OpenImage, CreateFileAsync, fdVars, pipeVars, threadVars
<1>4. BuffersApart'
  BY DEF IInv, TypeOK, BuffersApart, Beginning, ReadyThreads, HasData,
         OpenImage, CreateFileAsync, fdVars, pipeVars, threadVars
<1>5. FreshData'
  BY DEF IInv, TypeOK, FreshData, Fresh, FreshPCs,
         OpenImage, CreateFileAsync, fdVars, pipeVars, threadVars
<1>6. ThreadsCaughtUp'
  BY FileSizeAssumption, NumHashesAssumption
     DEF IInv, TypeOK, FdTypeOK, ThreadsCaughtUp, Beginning, ReadyThreads,
         HasData, Told, Fresh, FreshPCs, Hashes,
         OpenImage, CreateFileAsync, fdVars, pipeVars, threadVars
<1>7. ReadyThreads'
  BY NumHashesAssumption
     DEF IInv, TypeOK, ReadyThreads, Beginning, Hashes,
         OpenImage, CreateFileAsync, fdVars, pipeVars, threadVars
<1>8. DigestsAreInOrder' /\ PublishedDigestIsWhole'
  BY DEF IInv, DigestsAreInOrder, PublishedDigestIsWhole,
         OpenImage, CreateFileAsync, fdVars, pipeVars, threadVars
<1>. QED
  BY <1>1, <1>2, <1>3, <1>4, <1>5, <1>6, <1>7, <1>8 DEF IInv

\* The loop's condition and CHECK_FOR_USER_CANCEL only choose where to go next.
LEMMA LoopTestKeeps ==
    ASSUME IInv, LoopTest
    PROVE  IInv'
<1>1. TypeOK'
  BY FileSizeAssumption, NumHashesAssumption, BufferSizeAssumption
     DEF IInv, TypeOK, FdTypeOK, Beginning, Hashes, NUM_BUFFERS,
         HashThreadPCs, ThreadPCs, Errors, LoopTest, fdVars, pipeVars, threadVars
<1>2. FragmentsInFile' /\ TransferAtOffset'
  BY DEF IInv, FragmentsInFile, TransferAtOffset,
         LoopTest, fdVars, pipeVars, threadVars
<1>3. DataAwaited' /\ Beginning'
  BY NumHashesAssumption
     DEF IInv, TypeOK, DataAwaited, Beginning, ReadyThreads, HasData, Hashes,
         LoopTest, fdVars, pipeVars, threadVars
<1>4. BuffersApart'
  BY DEF IInv, TypeOK, BuffersApart, Beginning, ReadyThreads, HasData,
         LoopTest, fdVars, pipeVars, threadVars
<1>5. FreshData'
  BY DEF IInv, TypeOK, FreshData, Fresh, FreshPCs,
         LoopTest, fdVars, pipeVars, threadVars
<1>6. ThreadsCaughtUp'
  BY FileSizeAssumption, NumHashesAssumption
     DEF IInv, TypeOK, FdTypeOK, ThreadsCaughtUp, Beginning, ReadyThreads,
         HasData, Told, Fresh, FreshPCs, Hashes,
         LoopTest, fdVars, pipeVars, threadVars
<1>7. ReadyThreads'
  BY NumHashesAssumption
     DEF IInv, TypeOK, ReadyThreads, Beginning, Hashes,
         LoopTest, fdVars, pipeVars, threadVars
<1>8. DigestsAreInOrder' /\ PublishedDigestIsWhole'
  BY DEF IInv, DigestsAreInOrder, PublishedDigestIsWhole,
         LoopTest, fdVars, pipeVars, threadVars
<1>. QED
  BY <1>1, <1>2, <1>3, <1>4, <1>5, <1>6, <1>7, <1>8 DEF IInv

\* When WaitForMultipleObjects returns for all of thread_ready, no thread has
\* data left: whoever was told of a buffer has finished with it.
LEMMA WaitReadyKeeps ==
    ASSUME IInv, WaitReady
    PROVE  IInv'
<1>1. TypeOK'
  BY FileSizeAssumption, NumHashesAssumption, BufferSizeAssumption
     DEF IInv, TypeOK, FdTypeOK, Beginning, Hashes, NUM_BUFFERS,
         HashThreadPCs, ThreadPCs, Errors, WaitReady, fdVars, pipeVars, threadVars
<1>2. FragmentsInFile' /\ TransferAtOffset'
  BY DEF IInv, FragmentsInFile, TransferAtOffset,
         WaitReady, fdVars, pipeVars, threadVars
<1>3. DataAwaited' /\ Beginning'
  BY NumHashesAssumption
     DEF IInv, TypeOK, DataAwaited, Beginning, ReadyThreads, HasData, Hashes,
         WaitReady, fdVars, pipeVars, threadVars
<1>4. BuffersApart'
  BY DEF IInv, TypeOK, BuffersApart, Beginning, ReadyThreads, HasData,
         WaitReady, fdVars, pipeVars, threadVars
<1>5. FreshData'
  BY DEF IInv, TypeOK, FreshData, Fresh, FreshPCs,
         WaitReady, fdVars, pipeVars, threadVars
<1>6. ThreadsCaughtUp'
  BY FileSizeAssumption, NumHashesAssumption
     DEF IInv, TypeOK, FdTypeOK, ThreadsCaughtUp, Beginning, ReadyThreads,
         HasData, Told, Fresh, FreshPCs, Hashes,
         WaitReady, fdVars, pipeVars, threadVars
<1>7. ReadyThreads'
  BY NumHashesAssumption
     DEF IInv, TypeOK, ReadyThreads, Beginning, Hashes,
         WaitReady, fdVars, pipeVars, threadVars
<1>8. DigestsAreInOrder' /\ PublishedDigestIsWhole'
  BY DEF IInv, DigestsAreInOrder, PublishedDigestIsWhole,
         WaitReady, fdVars, pipeVars, threadVars
<1>. QED
  BY <1>1, <1>2, <1>3, <1>4, <1>5, <1>6, <1>7, <1>8 DEF IInv

\* proc_bufnum moves to the buffer just read while no thread looks at it.
LEMMA SetProcKeeps ==
    ASSUME IInv, SetProc
    PROVE  IInv'
<1>1. TypeOK'
  BY FileSizeAssumption, NumHashesAssumption, BufferSizeAssumption
     DEF IInv, TypeOK, FdTypeOK, Beginning, Hashes, NUM_BUFFERS,
         HashThreadPCs, ThreadPCs, Errors, SetProc, fdVars, threadVars, NUM_BUFFERS
<1>2. FragmentsInFile' /\ TransferAtOffset'
  BY DEF IInv, FragmentsInFile, TransferAtOffset,
         SetProc, fdVars, threadVars, NUM_BUFFERS
<1>3. DataAwaited' /\ Beginning'
  BY NumHashesAssumption
     DEF IInv, TypeOK, DataAwaited, Beginning, ReadyThreads, HasData, Hashes,
         SetProc, fdVars, threadVars, NUM_BUFFERS
<1>4. BuffersApart'
  BY DEF IInv, TypeOK, BuffersApart, Beginning, ReadyThreads, HasData,
         SetProc, fdVars, threadVars, NUM_BUFFERS
<1>5. FreshData'
  BY DEF IInv, TypeOK, FreshData, Fresh, FreshPCs,
         SetProc, fdVars, threadVars, NUM_BUFFERS
<1>6. ThreadsCaughtUp'
  BY FileSizeAssumption, NumHashesAssumption
     DEF IInv, TypeOK, FdTypeOK, ThreadsCaughtUp, Beginning, ReadyThreads,
         HasData, Told, Fresh, FreshPCs, Hashes,
         SetProc, fdVars, threadVars, NUM_BUFFERS
<1>7. ReadyThreads'
  BY NumHashesAssumption
     DEF IInv, TypeOK, ReadyThreads, Beginning, Hashes,
         SetProc, fdVars, threadVars, NUM_BUFFERS
<1>8. DigestsAreInOrder' /\ PublishedDigestIsWhole'
  BY DEF IInv, DigestsAreInOrder, PublishedDigestIsWhole,
         SetProc, fdVars, threadVars, NUM_BUFFERS
<1>. QED
  BY <1>1, <1>2, <1>3, <1>4, <1>5, <1>6, <1>7, <1>8 DEF IInv

\* The final wait for the threads changes nothing that they share.
LEMMA JoinThreadsKeeps ==
    ASSUME IInv, JoinThreads
    PROVE  IInv'
<1>1. TypeOK'
  BY FileSizeAssumption, NumHashesAssumption, BufferSizeAssumption
     DEF IInv, TypeOK, FdTypeOK, Beginning, Hashes, NUM_BUFFERS,
         HashThreadPCs, ThreadPCs, Errors, JoinThreads, fdVars, pipeVars, threadVars
<1>2. FragmentsInFile' /\ TransferAtOffset'
  BY DEF IInv, FragmentsInFile, TransferAtOffset,
         JoinThreads, fdVars, pipeVars, threadVars
<1>3. DataAwaited' /\ Beginning'
  BY NumHashesAssumption
     DEF IInv, TypeOK, DataAwaited, Beginning, ReadyThreads, HasData, Hashes,
         JoinThreads, fdVars, pipeVars, threadVars
<1>4. BuffersApart'
  BY DEF IInv, TypeOK, BuffersApart, Beginning, ReadyThreads, HasData,
         JoinThreads, fdVars, pipeVars, threadVars
<1>5. FreshData'
  BY DEF IInv, TypeOK, FreshData, Fresh, FreshPCs,
         JoinThreads, fdVars, pipeVars, threadVars
<1>6. ThreadsCaughtUp'
  BY FileSizeAssumption, NumHashesAssumption
     DEF IInv, TypeOK, FdTypeOK, ThreadsCaughtUp, Beginning, ReadyThreads,
         HasData, Told, Fresh, FreshPCs, Hashes,
         JoinThreads, fdVars, pipeVars, threadVars
<1>7. ReadyThreads'
  BY NumHashesAssumption
     DEF IInv, TypeOK, ReadyThreads, Beginning, Hashes,
         JoinThreads, fdVars, pipeVars, threadVars
<1>8. DigestsAreInOrder' /\ PublishedDigestIsWhole'
  BY DEF IInv, DigestsAreInOrder, PublishedDigestIsWhole,
         JoinThreads, fdVars, pipeVars, threadVars
<1>. QED
  BY <1>1, <1>2, <1>3, <1>4, <1>5, <1>6, <1>7, <1>8 DEF IInv

\* The first ReadFileAsync starts at offset 0, before any thread has data.
LEMMA FirstReadKeeps ==
    ASSUME IInv, FirstRead
    PROVE  IInv'
<1>a. read_bufnum \in Bufs /\ FdTypeOK /\ FragmentsInFile
  BY BufsAssumption DEF IInv, TypeOK
<1>b. /\ FdTypeOK' /\ FragmentsInFile' /\ TransferAtOffset'
      /\ op'.buf = read_bufnum
      /\ UNCHANGED <<hFile, Offset>>
  BY <1>a, ReadFileAsyncEffect DEF FirstRead
<1>c. /\ pc = "first_read" /\ pc' = "loop"
      /\ UNCHANGED <<faults, i, pipeVars, thread_ready, data_ready, threadVars,
                     ErrorStatus, r>>
  BY DEF FirstRead
<1>d. \A t \in Hashes : ~ HasData(t) /\ ~ HasData(t)'
  BY <1>c DEF IInv, Beginning, HasData, threadVars
<1>1. TypeOK'
  BY <1>b, <1>c DEF IInv, TypeOK, HashThreadPCs, pipeVars, threadVars
<1>2. DataAwaited'
  BY <1>d DEF DataAwaited
<1>3. BuffersApart'
  BY <1>b, <1>c, <1>d DEF BuffersApart, pipeVars
<1>4. FreshData' /\ Beginning'
  BY <1>c DEF FreshData, FreshPCs, Beginning
<1>5. ThreadsCaughtUp'
  BY <1>b, <1>c, <1>d
     DEF IInv, ThreadsCaughtUp, Told, FreshPCs, pipeVars, threadVars
<1>6. ReadyThreads'
  BY <1>c DEF IInv, ReadyThreads, threadVars
<1>7. DigestsAreInOrder' /\ PublishedDigestIsWhole'
  BY <1>c DEF IInv, DigestsAreInOrder, PublishedDigestIsWhole, threadVars
<1>. QED
  BY <1>b, <1>1, <1>2, <1>3, <1>4, <1>5, <1>6, <1>7 DEF IInv

\* The next buffer is neither the one just read nor, when some thread has
\* data, the one being hashed: three buffers are enough.
LEMMA NextReadKeeps ==
    ASSUME IInv, NextRead
    PROVE  IInv'
<1>a. /\ read_bufnum \in Bufs /\ proc_bufnum \in Bufs /\ read_bufnum' \in Bufs
      /\ read_bufnum' = (read_bufnum + 1) % 3
      /\ (read_bufnum' + 2) % 3 = read_bufnum /\ read_bufnum' # read_bufnum
      /\ FdTypeOK /\ FragmentsInFile
  BY BufsAssumption DEF IInv, TypeOK, NextRead, NUM_BUFFERS
<1>b. /\ FdTypeOK' /\ FragmentsInFile' /\ TransferAtOffset'
      /\ op'.buf = read_bufnum'
      /\ \A c \in Bufs : c # read_bufnum' => buffer'[c] = buffer[c]
      /\ UNCHANGED <<hFile, Offset>>
  BY <1>a, ReadFileAsyncEffect DEF NextRead
<1>c. /\ pc = "next_read" /\ pc' = "wait_ready"
      /\ UNCHANGED <<faults, i, proc_bufnum, read_size, thread_ready, data_ready,
                     threadVars, ErrorStatus, r>>
  BY DEF NextRead
<1>d. \A t \in Hashes : HasData(t)' = HasData(t)
  BY <1>c DEF HasData, threadVars
<1>e. Fresh = read_bufnum /\ Fresh' = read_bufnum
  BY <1>a, <1>c DEF Fresh
<1>1. TypeOK'
  BY <1>a, <1>b, <1>c, BufsAssumption DEF IInv, TypeOK, HashThreadPCs, threadVars
<1>2. DataAwaited'
  <2>1. ASSUME \E t \in Hashes : HasData(t)
        PROVE  proc_bufnum # read_bufnum'
    BY <2>1, <1>a, <1>c, BufsAssumption DEF IInv, BuffersApart, NUM_BUFFERS
  <2>. QED
    BY <2>1, <1>a, <1>b, <1>c, <1>d DEF IInv, DataAwaited, threadVars
<1>3. BuffersApart'
  BY <1>a, <1>b, <1>c, <1>d, BufsAssumption DEF IInv, BuffersApart, NUM_BUFFERS
<1>4. FreshData'
  BY <1>a, <1>b, <1>c, <1>e DEF IInv, FreshData, FreshPCs
<1>5. ThreadsCaughtUp'
  BY <1>b, <1>c, <1>d, <1>e DEF IInv, ThreadsCaughtUp, Told, FreshPCs, threadVars
<1>6. ReadyThreads' /\ Beginning'
  BY <1>c DEF IInv, ReadyThreads, Beginning, threadVars
<1>7. DigestsAreInOrder' /\ PublishedDigestIsWhole'
  BY <1>c DEF IInv, DigestsAreInOrder, PublishedDigestIsWhole, threadVars
<1>. QED
  BY <1>b, <1>1, <1>2, <1>3, <1>4, <1>5, <1>6, <1>7 DEF IInv

\* Taking the size of a read (WaitFileAsync, GetSizeAsync) makes its buffer the
\* fresh one, which ends at the new offset.
LEMMA WaitReadKeeps ==
    ASSUME IInv, WaitRead
    PROVE  IInv'
<1>a. PICK n \in 0..FileSize :
          /\ GetSizeAsyncTrue(n)
          /\ read_size' = [read_size EXCEPT ![read_bufnum] = n]
  BY DEF WaitRead
<1>b. /\ pc = "wait_read" /\ pc' = "next_read" /\ bOffsetUpdated' = TRUE
      /\ UNCHANGED <<faults, i, read_bufnum, proc_bufnum, thread_ready, data_ready,
                     threadVars, ErrorStatus, r, hFile, iStatus, op, buffer>>
  BY <1>a DEF WaitRead, GetSizeAsyncTrue
<1>c. /\ read_bufnum \in Bufs /\ proc_bufnum \in Bufs /\ op.buf = read_bufnum
      /\ Offset \in 0..FileSize /\ op.st \in {"complete", "eof"}
      /\ read_size'[read_bufnum] = n
  BY <1>a, <1>b, BufsAssumption
     DEF IInv, TypeOK, FdTypeOK, BuffersApart, GetSizeAsyncTrue
<1>d. /\ Offset' = Offset + n /\ Offset' \in 0..FileSize
      /\ n # 0 => buffer[read_bufnum] = [off |-> Offset, len |-> n]
      /\ n = 0 => Offset = FileSize
  BY <1>a, <1>c, FileSizeAssumption DEF IInv, TransferAtOffset, GetSizeAsyncTrue
<1>e. ASSUME \E t \in Hashes : HasData(t)
      PROVE  /\ proc_bufnum # read_bufnum
             /\ read_size'[proc_bufnum] = read_size[proc_bufnum]
  <2>1. proc_bufnum # read_bufnum
    BY <1>e, <1>b, <1>c, BufsAssumption DEF IInv, BuffersApart, NUM_BUFFERS
  <2>. QED
    BY <2>1, <1>a, <1>c DEF IInv, TypeOK
<1>f. \A t \in Hashes : HasData(t)' = HasData(t)
  BY <1>b DEF HasData, threadVars
<1>g. Fresh' = read_bufnum /\ \A t \in Hashes : Told(t) = Offset /\ Told(t)' = Offset
  BY <1>b, <1>c, <1>d DEF Fresh, Told, FreshPCs
<1>1. TypeOK'
  BY <1>a, <1>b, <1>d DEF IInv, TypeOK, FdTypeOK, HashThreadPCs, threadVars
<1>2. FragmentsInFile' /\ TransferAtOffset'
  BY <1>b, <1>c, <1>d DEF IInv, FragmentsInFile, TransferAtOffset
<1>3. DataAwaited'
  BY <1>b, <1>e, <1>f DEF IInv, DataAwaited, threadVars
<1>4. BuffersApart'
  BY <1>b, <1>f DEF IInv, BuffersApart
<1>5. FreshData'
  BY <1>b, <1>c, <1>d, <1>g DEF IInv, FreshData, FreshPCs
<1>6. ThreadsCaughtUp'
  BY <1>b, <1>e, <1>f, <1>g DEF IInv, ThreadsCaughtUp, threadVars
<1>7. ReadyThreads' /\ Beginning'
  BY <1>b DEF IInv, ReadyThreads, Beginning, threadVars
<1>8. DigestsAreInOrder' /\ PublishedDigestIsWhole'
  BY <1>b DEF IInv, DigestsAreInOrder, PublishedDigestIsWhole, threadVars
<1>. QED
  BY <1>1, <1>2, <1>3, <1>4, <1>5, <1>6, <1>7, <1>8 DEF IInv

\* A read that fails ends the loop and tells the threads of nothing.
LEMMA ReadFailsKeeps ==
    ASSUME IInv, ReadFails
    PROVE  IInv'
<1>a. /\ pc = "wait_read" /\ pc' = "out" /\ ErrorStatus' = "read_fault"
      /\ bOffsetUpdated' \in BOOLEAN /\ (bOffsetUpdated => bOffsetUpdated')
      /\ UNCHANGED <<faults, i, read_bufnum, proc_bufnum, thread_ready, data_ready,
                     threadVars, r, hFile, iStatus, Offset, op, buffer>>
  BY DEF ReadFails, GetSizeAsyncFalse, fdVars, IInv, TypeOK, FdTypeOK
<1>b. /\ read_bufnum \in Bufs /\ proc_bufnum \in Bufs
      /\ read_size' \in [Bufs -> Nat]
      /\ \A c \in Bufs : c # read_bufnum => read_size'[c] = read_size[c]
  BY FileSizeAssumption, BufsAssumption DEF ReadFails, IInv, TypeOK
<1>c. ASSUME \E t \in Hashes : HasData(t)
      PROVE  read_size'[proc_bufnum] = read_size[proc_bufnum]
  <2>1. proc_bufnum # read_bufnum
    BY <1>c, <1>a, <1>b, BufsAssumption DEF IInv, BuffersApart, NUM_BUFFERS
  <2>. QED
    BY <2>1, <1>b
<1>d. \A t \in Hashes : HasData(t)' = HasData(t)
  BY <1>a DEF HasData, threadVars
<1>1. TypeOK'
  BY <1>a, <1>b, BufsAssumption
     DEF IInv, TypeOK, FdTypeOK, HashThreadPCs, Errors, threadVars
<1>2. FragmentsInFile' /\ TransferAtOffset'
  BY <1>a DEF IInv, FragmentsInFile, TransferAtOffset
<1>3. DataAwaited'
  BY <1>a, <1>c, <1>d DEF IInv, DataAwaited, threadVars
<1>4. BuffersApart' /\ FreshData' /\ ThreadsCaughtUp' /\ Beginning'
  BY <1>a DEF BuffersApart, FreshData, FreshPCs, ThreadsCaughtUp, Beginning
<1>5. ReadyThreads'
  BY <1>a DEF IInv, ReadyThreads, threadVars
<1>6. DigestsAreInOrder' /\ PublishedDigestIsWhole'
  BY <1>a DEF IInv, DigestsAreInOrder, PublishedDigestIsWhole, threadVars
<1>. QED
  BY <1>1, <1>2, <1>3, <1>4, <1>5, <1>6 DEF IInv

\* The thread that is told of the new buffer had consumed everything before it.
LEMMA SignalDataKeeps ==
    ASSUME IInv, SignalData
    PROVE  IInv'
<1>a. /\ pc = "signal"
      /\ UNCHANGED <<hFile, iStatus, bOffsetUpdated, Offset, op, buffer,
                     read_bufnum, proc_bufnum, read_size, thread_ready,
                     tpc, hash_ctx, hash_str, ErrorStatus, r, faults>>
      /\ i \in Hashes /\ num_hashes \in Nat
  BY NumHashesAssumption
     DEF SignalData, fdVars, pipeVars, threadVars, IInv, TypeOK, ReadyThreads,
         Hashes
<1>1. CASE pc' = "out" /\ UNCHANGED <<data_ready, i>>
  BY <1>1, <1>a
     DEF IInv, TypeOK, FdTypeOK, HashThreadPCs, FragmentsInFile,
         TransferAtOffset, DataAwaited, HasData, BuffersApart, FreshData,
         FreshPCs, ThreadsCaughtUp, ReadyThreads, Beginning,
         DigestsAreInOrder, PublishedDigestIsWhole
<1>2. CASE /\ data_ready' = [data_ready EXCEPT ![i] = TRUE]
           /\ i' = i + 1
           /\ pc' = IF i = num_hashes THEN "loop" ELSE pc
  <2>. PICK k \in Hashes : k = i
    BY <1>a
  <2>a. /\ tpc[k] \in {"wait", "exit1"} /\ ~ data_ready[k] /\ ~ thread_ready[k]
        /\ ~ HasData(k)
    BY <1>a DEF IInv, ReadyThreads, HasData, Hashes
  <2>b. \A t \in Hashes : t # k => (HasData(t)' <=> HasData(t))
    BY <1>2, <1>a DEF HasData, IInv, TypeOK
  <2>c. HasData(k)' <=> tpc[k] = "wait"
    BY <1>2, <1>a, <2>a DEF HasData, IInv, TypeOK
  <2>d. /\ Fresh = proc_bufnum /\ proc_bufnum \in Bufs
        /\ read_bufnum = (proc_bufnum + 1) % 3
        /\ read_size[proc_bufnum] \in Nat /\ Offset \in 0..FileSize
    BY <1>a, BufsAssumption
       DEF Fresh, IInv, TypeOK, FdTypeOK, BuffersApart, NUM_BUFFERS
  <2>e. tpc[k] = "wait" => hash_ctx[k] = Offset - read_size[proc_bufnum]
    BY <1>a, <2>a, <2>d DEF IInv, ThreadsCaughtUp, Told, FreshPCs, HasData, Hashes
  <2>f. op.buf = read_bufnum /\ read_bufnum # proc_bufnum
    BY <1>a, <2>d, BufsAssumption DEF IInv, BuffersApart, TypeOK, NUM_BUFFERS
  <2>1. TypeOK'
    BY <1>2, <1>a, NumHashesAssumption
       DEF IInv, TypeOK, FdTypeOK, HashThreadPCs, Hashes
  <2>2. FragmentsInFile' /\ TransferAtOffset'
    BY <1>a DEF IInv, FragmentsInFile, TransferAtOffset
  <2>3. DataAwaited'
    <3>1. tpc[k] = "wait" =>
             IF read_size[proc_bufnum] = 0 THEN hash_ctx[k] = FileSize
             ELSE buffer[proc_bufnum] =
                      [off |-> hash_ctx[k], len |-> read_size[proc_bufnum]]
      BY <1>a, <2>d, <2>e, FileSizeAssumption DEF IInv, FreshData, FreshPCs
    <3>. QED
      BY <1>a, <2>a, <2>b, <2>c, <2>f, <3>1 DEF IInv, DataAwaited
  <2>4. BuffersApart'
    BY <1>2, <1>a, <2>d DEF IInv, BuffersApart
  <2>5. FreshData'
    BY <1>2, <1>a, <2>d DEF IInv, FreshData, FreshPCs, Fresh
  <2>6. ThreadsCaughtUp'
    <3>1. \A t \in Hashes : t # k => Told(t)' = Told(t)
      BY <1>2, <1>a, <2>d DEF Told, Fresh, FreshPCs, Hashes
    <3>2. Told(k)' = Offset
      BY <1>2, <1>a DEF Told, Fresh, FreshPCs, Hashes
    <3>. QED
      BY <1>2, <1>a, <2>a, <2>b, <2>c, <2>d, <2>e, <3>1, <3>2,
         FileSizeAssumption
         DEF IInv, TypeOK, ThreadsCaughtUp
  <2>7. ReadyThreads'
    BY <1>2, <1>a, <2>a DEF IInv, TypeOK, ReadyThreads, Hashes
  <2>8. Beginning' /\ DigestsAreInOrder' /\ PublishedDigestIsWhole'
    BY <1>2, <1>a DEF IInv, Beginning, DigestsAreInOrder, PublishedDigestIsWhole
  <2>. QED
    BY <2>1, <2>2, <2>3, <2>4, <2>5, <2>6, <2>7, <2>8 DEF IInv
<1>. QED
  BY <1>1, <1>2 DEF SignalData

\* The clean-up at out: terminates the threads where they are.
LEMMA CleanUpKeeps ==
    ASSUME IInv, CleanUp
    PROVE  IInv'
<1>a. /\ pc' = "done" /\ hFile' = "none" /\ iStatus' = 0
      /\ bOffsetUpdated' = FALSE /\ Offset' = 0 /\ op' = NoOp
      /\ UNCHANGED <<i, read_bufnum, proc_bufnum, read_size, hash_ctx,
                     hash_str, ErrorStatus, r, buffer, faults>>
  BY DEF CleanUp, CloseFileAsync, pipeVars
<1>b. /\ thread_ready' = [t \in Hashes |-> FALSE]
      /\ data_ready' = [t \in Hashes |-> FALSE]
      /\ tpc' \in [Hashes -> ThreadPCs]
      /\ \A t \in Hashes : tpc'[t] \notin {"wait", "hashing"}
  BY DEF CleanUp, Ended, IInv, TypeOK, ThreadPCs
<1>c. NoOp \in Ops /\ NoOp.st = "none"
  <2>1. AnyBuf \in Bufs
    BY BufsAssumption DEF AnyBuf, NUM_BUFFERS
  <2>. QED
    BY <2>1, FileSizeAssumption DEF NoOp, Ops, OpStates
<1>1. TypeOK'
  <2>1. FdTypeOK'
    <3>1. Offset' \in 0..FileSize /\ op' \in Ops
      BY <1>a, <1>c, FileSizeAssumption
    <3>2. bOffsetUpdated' \in BOOLEAN
      BY <1>a
    <3>3. buffer' \in [Bufs -> Fragments] /\ hFile' = "none" /\ iStatus' = 0
      BY <1>a DEF IInv, TypeOK, FdTypeOK
    <3>. QED
      BY <3>1, <3>2, <3>3 DEF FdTypeOK
  <2>. QED
    BY <2>1, <1>a, <1>b DEF IInv, TypeOK, HashThreadPCs
<1>2. FragmentsInFile' /\ TransferAtOffset'
  BY <1>a, <1>c DEF IInv, FragmentsInFile, TransferAtOffset
<1>3. DataAwaited' /\ ReadyThreads'
  BY <1>a, <1>b DEF DataAwaited, HasData, ReadyThreads
<1>4. BuffersApart' /\ FreshData' /\ ThreadsCaughtUp' /\ Beginning'
  BY <1>a DEF BuffersApart, FreshData, FreshPCs, ThreadsCaughtUp, Beginning
<1>5. DigestsAreInOrder' /\ PublishedDigestIsWhole'
  BY <1>a DEF IInv, DigestsAreInOrder, PublishedDigestIsWhole
<1>. QED
  BY <1>1, <1>2, <1>3, <1>4, <1>5 DEF IInv

-----------------------------------------------------------------------------
\* IndividualHashThread.

\* A hash thread that starts signals thread_ready with an empty context.
LEMMA ThreadInitKeeps ==
    ASSUME IInv, NEW t \in Hashes, ThreadInit(t)
    PROVE  IInv'
<1>1. TypeOK'
  BY DEF IInv, TypeOK, FdTypeOK, ThreadInit, fdVars, pipeVars, ThreadPCs
<1>2. /\ FragmentsInFile' /\ TransferAtOffset' /\ FreshData'
      /\ DigestsAreInOrder' /\ PublishedDigestIsWhole'
  BY DEF IInv, FragmentsInFile, TransferAtOffset, FreshData, Fresh, FreshPCs,
         DigestsAreInOrder, PublishedDigestIsWhole, ThreadInit, fdVars,
         pipeVars
<1>3. DataAwaited' /\ BuffersApart' /\ Beginning'
  BY DEF IInv, TypeOK, DataAwaited, BuffersApart, Beginning, ReadyThreads,
         HasData, ThreadInit, fdVars, pipeVars
<1>4. ThreadsCaughtUp'
  BY DEF IInv, TypeOK, ThreadsCaughtUp, ReadyThreads, HasData, Told, Fresh,
         ThreadInit, fdVars, pipeVars
<1>5. ReadyThreads'
  BY DEF IInv, TypeOK, ReadyThreads, ThreadInit
<1>. QED
  BY <1>1, <1>2, <1>3, <1>4, <1>5 DEF IInv

\* A hash thread that gives up after WAIT_TIME keeps its context and publishes
\* nothing.
LEMMA ThreadTimeoutKeeps ==
    ASSUME IInv, NEW t \in Hashes, ThreadTimeout(t)
    PROVE  IInv'
<1>1. TypeOK'
  BY DEF IInv, TypeOK, FdTypeOK, ThreadTimeout, fdVars, pipeVars, ThreadPCs
<1>2. /\ FragmentsInFile' /\ TransferAtOffset' /\ FreshData'
      /\ DigestsAreInOrder' /\ PublishedDigestIsWhole'
  BY DEF IInv, FragmentsInFile, TransferAtOffset, FreshData, Fresh, FreshPCs,
         DigestsAreInOrder, PublishedDigestIsWhole, ThreadTimeout, fdVars,
         pipeVars
<1>3. DataAwaited' /\ BuffersApart' /\ Beginning'
  BY DEF IInv, TypeOK, DataAwaited, BuffersApart, Beginning, ReadyThreads,
         HasData, ThreadTimeout, fdVars, pipeVars
<1>4. ThreadsCaughtUp'
  BY DEF IInv, TypeOK, ThreadsCaughtUp, ReadyThreads, HasData, Told, Fresh,
         ThreadTimeout, fdVars, pipeVars
<1>5. ReadyThreads'
  BY DEF IInv, TypeOK, ReadyThreads, ThreadTimeout
<1>. QED
  BY <1>1, <1>2, <1>3, <1>4, <1>5 DEF IInv

\* A hash thread that signals thread_ready again has no data left.
LEMMA ThreadSignalKeeps ==
    ASSUME IInv, NEW t \in Hashes, ThreadSignal(t)
    PROVE  IInv'
<1>1. TypeOK'
  BY DEF IInv, TypeOK, FdTypeOK, ThreadSignal, fdVars, pipeVars, ThreadPCs
<1>2. /\ FragmentsInFile' /\ TransferAtOffset' /\ FreshData'
      /\ DigestsAreInOrder' /\ PublishedDigestIsWhole'
  BY DEF IInv, FragmentsInFile, TransferAtOffset, FreshData, Fresh, FreshPCs,
         DigestsAreInOrder, PublishedDigestIsWhole, ThreadSignal, fdVars,
         pipeVars
<1>3. DataAwaited' /\ BuffersApart' /\ Beginning'
  BY DEF IInv, TypeOK, DataAwaited, BuffersApart, Beginning, ReadyThreads,
         HasData, ThreadSignal, fdVars, pipeVars
<1>4. ThreadsCaughtUp'
  BY DEF IInv, TypeOK, ThreadsCaughtUp, ReadyThreads, HasData, Told, Fresh,
         ThreadSignal, fdVars, pipeVars
<1>5. ReadyThreads'
  BY DEF IInv, TypeOK, ReadyThreads, ThreadSignal
<1>. QED
  BY <1>1, <1>2, <1>3, <1>4, <1>5 DEF IInv

\* A woken hash thread either starts on the fresh data or, at the end of the
\* file, publishes the digest of the whole image.
LEMMA ThreadWakeKeeps ==
    ASSUME IInv, NEW t \in Hashes, ThreadWake(t)
    PROVE  IInv'
<1>1. TypeOK'
  BY DEF IInv, TypeOK, FdTypeOK, ThreadWake, fdVars, pipeVars, ThreadPCs
<1>2. /\ FragmentsInFile' /\ TransferAtOffset' /\ FreshData'
      /\ DigestsAreInOrder'
  BY DEF IInv, FragmentsInFile, TransferAtOffset, FreshData, Fresh, FreshPCs,
         DigestsAreInOrder, PublishedDigestIsWhole, ThreadWake, fdVars,
         pipeVars
<1>3. DataAwaited' /\ BuffersApart' /\ Beginning'
  BY DEF IInv, TypeOK, DataAwaited, BuffersApart, Beginning, ReadyThreads,
         HasData, ThreadWake, fdVars, pipeVars
<1>4. ThreadsCaughtUp'
  BY DEF IInv, TypeOK, ThreadsCaughtUp, ReadyThreads, HasData, Told, Fresh,
         ThreadWake, fdVars, pipeVars
<1>5. ReadyThreads'
  BY DEF IInv, TypeOK, ReadyThreads, ThreadWake
<1>6. PublishedDigestIsWhole'
  BY DEF IInv, TypeOK, PublishedDigestIsWhole, DataAwaited, HasData, ThreadWake
<1>. QED
  BY <1>1, <1>2, <1>3, <1>4, <1>5, <1>6 DEF IInv

\* A woken thread's buffer is what its context lacks, so hashing it extends the
\* digest of a prefix of the image.
LEMMA ThreadHashKeeps ==
    ASSUME IInv, NEW t \in Hashes, ThreadHash(t)
    PROVE  IInv'
<1>a. /\ proc_bufnum \in Bufs
      /\ read_size[proc_bufnum] \in Nat
      /\ hash_ctx[t] \in 0..FileSize
  BY BufsAssumption DEF IInv, TypeOK, FdTypeOK, DigestsAreInOrder
<1>b. /\ HasData(t)
      /\ read_size[proc_bufnum] # 0
      /\ buffer[proc_bufnum] =
             [off |-> hash_ctx[t], len |-> read_size[proc_bufnum]]
  BY DEF IInv, DataAwaited, HasData, ThreadHash
<1>c. hash_ctx[t] + read_size[proc_bufnum] \in 0..FileSize
  BY <1>a, <1>b, FileSizeAssumption DEF IInv, FragmentsInFile
<1>d. hash_ctx' = [hash_ctx EXCEPT ![t] = hash_ctx[t] + read_size[proc_bufnum]]
  BY <1>b DEF ThreadHash, Absorb
<1>1. TypeOK'
  BY <1>c, <1>d
     DEF IInv, TypeOK, FdTypeOK, ThreadHash, fdVars, pipeVars, ThreadPCs
<1>2. /\ FragmentsInFile' /\ TransferAtOffset' /\ FreshData'
      /\ PublishedDigestIsWhole'
  BY DEF IInv, FragmentsInFile, TransferAtOffset, FreshData, Fresh, FreshPCs,
         PublishedDigestIsWhole, ThreadHash, fdVars, pipeVars
<1>3. DataAwaited' /\ BuffersApart' /\ ReadyThreads' /\ Beginning'
  <2>1. \A u \in Hashes : u # t =>
           tpc'[u] = tpc[u] /\ hash_ctx'[u] = hash_ctx[u] /\ HasData(u)' = HasData(u)
    BY <1>d DEF ThreadHash, HasData, IInv, TypeOK
  <2>2. tpc'[t] = "signal" /\ ~ HasData(t)' /\ ~ data_ready[t]
    BY DEF ThreadHash, HasData, IInv, TypeOK, ReadyThreads
  <2>3. DataAwaited' /\ BuffersApart'
    BY <2>1, <2>2 DEF IInv, DataAwaited, BuffersApart, ThreadHash, fdVars, pipeVars
  <2>4. ReadyThreads' /\ Beginning'
    BY <2>1, <2>2 DEF IInv, ReadyThreads, Beginning, ThreadHash, fdVars, pipeVars
  <2>. QED
    BY <2>3, <2>4
<1>4. ThreadsCaughtUp'
  BY <1>a, <1>b, <1>d, FileSizeAssumption
     DEF IInv, TypeOK, FdTypeOK, ThreadsCaughtUp, ReadyThreads, HasData, Told,
         Fresh, ThreadHash, fdVars, pipeVars
<1>5. DigestsAreInOrder'
  BY <1>c, <1>d DEF IInv, TypeOK, DigestsAreInOrder, Spoiled, Stale
<1>. QED
  BY <1>1, <1>2, <1>3, <1>4, <1>5 DEF IInv

-----------------------------------------------------------------------------
\* The kernel and the user interface.

\* A read completes into its own buffer, at the offset it was started at.
LEMMA KernelKeeps ==
    ASSUME IInv, Kernel
    PROVE  IInv'
<1> DEFINE n == Transfer(op.want)
<1>a. op \in Ops /\ buffer \in [Bufs -> Fragments] /\ Offset \in 0..FileSize
  BY DEF IInv, TypeOK, FdTypeOK
<1>b. /\ n \in 0..FileSize /\ Offset + n <= FileSize
      /\ n = 0 => Offset = FileSize
  BY <1>a, FileSizeAssumption, BufferSizeAssumption
     DEF IInv, TransferAtOffset, Kernel, KernelComplete, Transfer, Ops
<1>c. /\ op.st = "pending" /\ op' \in Ops
      /\ op'.buf = op.buf /\ op'.want = op.want
      /\ op'.st \in {"complete", "eof", "error"}
      /\ op'.st = "complete" =>
             /\ n > 0 /\ op'.len = n
             /\ buffer' = [buffer EXCEPT ![op.buf] = [off |-> Offset, len |-> n]]
      /\ op'.st # "complete" => buffer' = buffer
      /\ op'.st = "eof" => n = 0
  BY <1>a, <1>b DEF Kernel, KernelComplete, Ops, OpStates
<1>d. UNCHANGED <<hFile, iStatus, bOffsetUpdated, Offset, pc, i, pipeVars,
                  thread_ready, data_ready, threadVars, ErrorStatus, r, faults>>
  BY DEF Kernel, KernelComplete
<1>e. op.buf \in Bufs /\ [off |-> Offset, len |-> n] \in Fragments
  BY <1>a, <1>b, FileSizeAssumption DEF Ops, Fragments
<1> HIDE DEF n
<1>1. TypeOK'
  <2>1. buffer' \in [Bufs -> Fragments]
    BY <1>a, <1>c, <1>e
  <2>. QED
    BY <1>c, <1>d, <2>1 DEF IInv, TypeOK, FdTypeOK, pipeVars, threadVars
<1>2. FragmentsInFile'
  BY <1>a, <1>b, <1>c, <1>e DEF IInv, FragmentsInFile
<1>3. TransferAtOffset'
  BY <1>a, <1>b, <1>c, <1>d, <1>e DEF IInv, TransferAtOffset
<1>4. DataAwaited'
  BY <1>a, <1>c, <1>d, <1>e, BufsAssumption
     DEF IInv, TypeOK, DataAwaited, HasData, pipeVars, threadVars
<1>5. BuffersApart'
  BY <1>c, <1>d DEF IInv, BuffersApart, HasData, pipeVars, threadVars
<1>6. FreshData'
  <2>1. Fresh' = Fresh /\ (pc \in FreshPCs => Fresh \in Bufs)
    BY <1>d, BufsAssumption DEF Fresh, pipeVars, IInv, TypeOK, NUM_BUFFERS
  <2>2. pc \in FreshPCs => Fresh # op.buf \/ read_size[Fresh] = 0
    BY <1>c DEF IInv, FreshData
  <2>. QED
    BY <2>1, <2>2, <1>a, <1>c, <1>d, <1>e DEF IInv, FreshData, pipeVars
<1>7. Beginning'
  BY <1>c, <1>d DEF IInv, Beginning, NoOp, HasData, pipeVars, threadVars
<1>8. ThreadsCaughtUp' /\ ReadyThreads'
  BY <1>d DEF IInv, ThreadsCaughtUp, ReadyThreads, HasData, Told, Fresh,
              FreshPCs, pipeVars, threadVars
<1>9. DigestsAreInOrder' /\ PublishedDigestIsWhole'
  BY <1>d DEF IInv, DigestsAreInOrder, PublishedDigestIsWhole, threadVars
<1>. QED
  BY <1>1, <1>2, <1>3, <1>4, <1>5, <1>6, <1>7, <1>8, <1>9 DEF IInv

\* A cancellation only sets ErrorStatus.
LEMMA UserCancelKeeps ==
    ASSUME IInv, UserCancel
    PROVE  IInv'
<1>1. TypeOK'
  BY FileSizeAssumption, NumHashesAssumption, BufferSizeAssumption
     DEF IInv, TypeOK, FdTypeOK, Beginning, Hashes, NUM_BUFFERS,
         HashThreadPCs, ThreadPCs, Errors, UserCancel, fdVars, pipeVars, threadVars
<1>2. FragmentsInFile' /\ TransferAtOffset'
  BY DEF IInv, FragmentsInFile, TransferAtOffset,
         UserCancel, fdVars, pipeVars, threadVars
<1>3. DataAwaited' /\ Beginning'
  BY NumHashesAssumption
     DEF IInv, TypeOK, DataAwaited, Beginning, ReadyThreads, HasData, Hashes,
         UserCancel, fdVars, pipeVars, threadVars
<1>4. BuffersApart'
  BY DEF IInv, TypeOK, BuffersApart, Beginning, ReadyThreads, HasData,
         UserCancel, fdVars, pipeVars, threadVars
<1>5. FreshData'
  BY DEF IInv, TypeOK, FreshData, Fresh, FreshPCs,
         UserCancel, fdVars, pipeVars, threadVars
<1>6. ThreadsCaughtUp'
  BY FileSizeAssumption, NumHashesAssumption
     DEF IInv, TypeOK, FdTypeOK, ThreadsCaughtUp, Beginning, ReadyThreads,
         HasData, Told, Fresh, FreshPCs, Hashes,
         UserCancel, fdVars, pipeVars, threadVars
<1>7. ReadyThreads'
  BY NumHashesAssumption
     DEF IInv, TypeOK, ReadyThreads, Beginning, Hashes,
         UserCancel, fdVars, pipeVars, threadVars
<1>8. DigestsAreInOrder' /\ PublishedDigestIsWhole'
  BY DEF IInv, DigestsAreInOrder, PublishedDigestIsWhole,
         UserCancel, fdVars, pipeVars, threadVars
<1>. QED
  BY <1>1, <1>2, <1>3, <1>4, <1>5, <1>6, <1>7, <1>8 DEF IInv

-----------------------------------------------------------------------------
\* The state in which the user starts the computation satisfies the invariant.
LEMMA InitIInv ==
    ASSUME Init
    PROVE  IInv
<1>1. TypeOK
  <2>1. AnyBuf \in Bufs
    BY BufsAssumption DEF AnyBuf, NUM_BUFFERS
  <2>2. FdTypeOK
    <3>1. Offset \in 0..FileSize
      BY FileSizeAssumption DEF Init, FdInit
    <3>4. bOffsetUpdated \in BOOLEAN
      BY DEF Init, FdInit
    <3>2. op \in Ops
      BY <2>1, FileSizeAssumption DEF Init, FdInit, NoOp, Ops, OpStates
    <3>3. buffer \in [Bufs -> Fragments] /\ hFile = "none" /\ iStatus = 0
      BY DEF Init, FdInit, Fragments
    <3>. QED
      BY <3>1, <3>2, <3>3, <3>4 DEF FdTypeOK
  <2>. QED
    BY <2>2, FileSizeAssumption, NumHashesAssumption
       DEF Init, TypeOK, HashThreadPCs, ThreadPCs, Errors, NUM_BUFFERS
<1>2. FragmentsInFile /\ TransferAtOffset
  BY FileSizeAssumption
     DEF Init, FdInit, FragmentsInFile, TransferAtOffset, NoOp, Torn
<1>3. DataAwaited /\ BuffersApart /\ FreshData /\ ReadyThreads
  BY DEF Init, DataAwaited, BuffersApart, FreshData, FreshPCs, ReadyThreads,
         HasData
<1>4. ThreadsCaughtUp
  BY DEF Init, FdInit, ThreadsCaughtUp, Told, FreshPCs, HasData
<1>5. Beginning
  BY NumHashesAssumption DEF Init, FdInit, Beginning, HasData
<1>6. DigestsAreInOrder /\ PublishedDigestIsWhole
  BY DEF Init, DigestsAreInOrder, PublishedDigestIsWhole, Spoiled
<1>. QED
  BY <1>1, <1>2, <1>3, <1>4, <1>5, <1>6 DEF IInv

\* Every step of HashThread, of a hash thread, of the kernel and of the user
\* keeps the inductive invariant.
THEOREM Invariance == Spec => []IInv
<1>1. Init => IInv
  BY InitIInv
<1>2. IInv /\ [Next]_vars => IInv'
  <2>. SUFFICES ASSUME IInv, [Next]_vars PROVE IInv'
    OBVIOUS
  <2>1. CASE HashThread
    BY <2>1, CreateHashThreadKeeps, OpenImageKeeps, FirstReadKeeps,
       LoopTestKeeps, WaitReadKeeps, ReadFailsKeeps, NextReadKeeps,
       WaitReadyKeeps, SetProcKeeps, SignalDataKeeps, JoinThreadsKeeps,
       CleanUpKeeps DEF HashThread
  <2>2. ASSUME NEW t \in Hashes, IndividualHashThread(t)
        PROVE  IInv'
    BY <2>2, ThreadInitKeeps, ThreadWakeKeeps, ThreadTimeoutKeeps,
       ThreadHashKeeps, ThreadSignalKeeps DEF IndividualHashThread
  <2>3. CASE Kernel
    BY <2>3, KernelKeeps
  <2>4. CASE UserCancel
    BY <2>4, UserCancelKeeps
  <2>5. CASE UNCHANGED vars
    BY <2>5 DEF vars, fdVars, pipeVars, threadVars, IInv, TypeOK, FdTypeOK,
       FragmentsInFile, TransferAtOffset, DataAwaited, BuffersApart,
       FreshData, ThreadsCaughtUp, ReadyThreads, Beginning, HasData, Told,
       Fresh, FreshPCs, DigestsAreInOrder, PublishedDigestIsWhole
  <2>. QED
    BY <2>1, <2>2, <2>3, <2>4, <2>5 DEF Next, Finished
<1>. QED
  BY <1>1, <1>2, PTL DEF Spec

\* The state of the pipeline always has its type.
THEOREM TypeCorrect == Spec => []TypeOK
<1>1. IInv => TypeOK
  BY DEF IInv
<1>. QED
  BY <1>1, Invariance, PTL

\* With three buffers, no read in flight ever targets the buffer that some hash
\* thread has been told of or is hashing.
THEOREM BufferSafety == Spec => []NoOverwriteWhileHashing
<1>1. IInv => NoOverwriteWhileHashing
  BY DEF IInv, DataAwaited, HasData, NoOverwriteWhileHashing
<1>. QED
  BY <1>1, Invariance, PTL

\* Under every interleaving and every fault, a digest that a hash thread
\* publishes in hash_str is that of the whole image, and no context was ever
\* fed a byte out of order.
THEOREM DigestCorrect == Spec => [](DigestsAreInOrder /\ PublishedDigestIsWhole)
<1>1. IInv => DigestsAreInOrder /\ PublishedDigestIsWhole
  BY DEF IInv
<1>. QED
  BY <1>1, Invariance, PTL

\* The buffer under a thread that has data to hash does not change: neither
\* proc_bufnum nor the size it selects.
THEOREM StableBuffer == Spec => ProcBufferStable
<1>1. IInv /\ [Next]_vars =>
        [ \A t \in Hashes :
            (tpc[t] = "hashing" \/ (tpc[t] = "wait" /\ data_ready[t])) =>
              /\ proc_bufnum' = proc_bufnum
              /\ read_size'[proc_bufnum] = read_size[proc_bufnum] ]_vars
  <2>. SUFFICES ASSUME IInv, Next, NEW t \in Hashes, HasData(t)
                PROVE  /\ proc_bufnum' = proc_bufnum
                       /\ read_size'[proc_bufnum] = read_size[proc_bufnum]
    BY DEF HasData
  <2>1. pc \notin {"open", "set_proc"}
    BY DEF IInv, Beginning, ReadyThreads, HasData
  <2>2. ASSUME NEW n, pc = "wait_read",
               read_size' = [read_size EXCEPT ![read_bufnum] = n]
        PROVE  read_size'[proc_bufnum] = read_size[proc_bufnum]
    <3>1. proc_bufnum # read_bufnum
      BY <2>2 DEF IInv, TypeOK, BuffersApart, NUM_BUFFERS
    <3>. QED
      BY <2>2, <3>1 DEF IInv, TypeOK
  <2>3. CASE HashThread
    BY <2>1, <2>2, <2>3
       DEF HashThread, CreateHashThread, OpenImage, FirstRead, LoopTest,
           WaitRead, ReadFails, NextRead, WaitReady, SetProc, SignalData,
           JoinThreads, CleanUp, pipeVars
  <2>4. ASSUME NEW u \in Hashes, IndividualHashThread(u)
        PROVE  UNCHANGED pipeVars
    BY <2>4 DEF IndividualHashThread, ThreadInit, ThreadWake, ThreadTimeout,
                ThreadHash, ThreadSignal
  <2>5. CASE Kernel \/ UserCancel \/ Finished
    BY <2>5 DEF Kernel, UserCancel, Finished, vars, pipeVars
  <2>. QED
    BY <2>3, <2>4, <2>5 DEF Next, pipeVars
<1>. QED
  BY <1>1, Invariance, PTL DEF Spec, ProcBufferStable
=============================================================================
