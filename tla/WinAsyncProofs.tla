--------------------------- MODULE WinAsyncProofs ---------------------------
(***************************************************************************)
(* For every file and every order of calls, the descriptor of winio.c does *)
(* what winio.h promises: a refinement of AsyncFile, step by step, and     *)
(* that the data it reports is in the buffer.                              *)
(*                                                                         *)
(* The argument: iStatus says on which of its paths ReadFileAsync left,    *)
(* and so which results the kernel can hold for the transfer               *)
(* (StatusFitsTransfer); a transfer whose size has not been taken was made *)
(* at the present offset (TransferAtOffset), because only taking the size  *)
(* moves it.                                                               *)
(***************************************************************************)
EXTENDS WinAsyncClient, TLAPS

\* The variables of the descriptor, the transfer and the buffers have their types.
\* Before the first transfer there may be no buffer at all.
DescriptorType ==
    /\ hFile \in {"none", "open"}
    /\ iStatus \in {-1, 0, 1}
    /\ bOffsetUpdated \in BOOLEAN
    /\ Offset \in 0..FileSize
    /\ op \in [st : OpStates, buf : Bufs \cup {AnyBuf}, want : Nat, len : 0..FileSize]
    /\ buffer \in [Bufs -> Fragments]

\* What iStatus tells of the transfer.
StatusFitsTransfer ==
    /\ hFile = "none" => iStatus = 0
    /\ iStatus = 0 => op.st = "none"
    /\ iStatus = 1 => op.st = "complete"
    /\ iStatus = -1 => op.st # "none"
    /\ op.st # "none" => op.buf \in Bufs
    /\ op.st # "complete" => op.len = 0

\* What a transfer moved that has not been reported starts at the offset.
TransferAtOffset ==
    (op.st = "complete" /\ ~ bOffsetUpdated) =>
        /\ Offset + op.len <= FileSize
        /\ buffer[op.buf] = [off |-> Offset, len |-> op.len]

\* The inductive invariant.
IInv == DescriptorType /\ StatusFitsTransfer /\ TransferAtOffset

-----------------------------------------------------------------------------
\* What the kernel moves (external) fits into what is left of the file and into
\* what was asked for.
LEMMA TransferFits ==
    ASSUME DescriptorType, NEW n \in Nat
    PROVE  /\ Transfer(n) \in 0..FileSize
           /\ Offset + Transfer(n) <= FileSize
  BY FileSizeAssumption DEF DescriptorType, Transfer

\* A fragment of the file, or Torn, is what a buffer can hold.
LEMMA FragmentHeld ==
    ASSUME NEW o \in 0..FileSize, NEW m \in 0..FileSize
    PROVE  [off |-> o, len |-> m] \in Fragments /\ Torn \in Fragments
  BY DEF Fragments, Torn

\* The kernel's step.
LEMMA KernelStep == IInv /\ Kernel => IInv'
<1> SUFFICES ASSUME IInv, Kernel PROVE IInv'
  OBVIOUS
<1> DEFINE n == Transfer(op.want)
<1>1. n \in 0..FileSize /\ Offset + n <= FileSize
  BY TransferFits DEF IInv, DescriptorType
<1>2. op.buf \in Bufs
  BY DEF IInv, StatusFitsTransfer, Kernel, KernelComplete
<1>3. [off |-> Offset, len |-> n] \in Fragments
  BY <1>1, FragmentHeld DEF IInv, DescriptorType
<1>4. bOffsetUpdated' \in BOOLEAN
  BY DEF Kernel, KernelComplete, IInv, DescriptorType
<1> HIDE DEF n
<1>5. CASE /\ op' = [op EXCEPT !.st = "complete", !.len = n]
           /\ buffer' = [buffer EXCEPT ![op.buf] = [off |-> Offset, len |-> n]]
  BY <1>1, <1>2, <1>3, <1>4, <1>5 DEF Kernel, KernelComplete, IInv, DescriptorType,
        StatusFitsTransfer, TransferAtOffset, OpStates
<1>6. CASE (op' = [op EXCEPT !.st = "eof"] \/ op' = [op EXCEPT !.st = "error"])
           /\ UNCHANGED buffer
  BY <1>2, <1>4, <1>6 DEF Kernel, KernelComplete, IInv, DescriptorType,
        StatusFitsTransfer, TransferAtOffset, OpStates
<1>. QED
  BY <1>5, <1>6 DEF Kernel, KernelComplete, n

\* ReadFileAsync: at once, pending, or failed.
LEMMA ReadStep == IInv /\ Read => IInv'
<1> SUFFICES ASSUME IInv, NEW b \in Bufs, NEW n \in 1..MaxRead, ReadFileAsync(b, n)
             PROVE  IInv'
  BY DEF Read
<1> n \in Nat
  BY MaxReadAssumption
<1> DEFINE m == Transfer(n)
<1>1. m \in 0..FileSize /\ Offset + m <= FileSize
  BY TransferFits DEF IInv
<1>2. [off |-> Offset, len |-> m] \in Fragments /\ Torn \in Fragments
  BY <1>1, FragmentHeld DEF IInv, DescriptorType
<1>3. bOffsetUpdated' \in BOOLEAN
  BY Zenon DEF ReadFileAsync
<1>4. 0 \in 0..FileSize
  BY FileSizeAssumption
<1> HIDE DEF m
<1>5. CASE /\ iStatus' = 1
           /\ op' = [st |-> "complete", buf |-> b, want |-> n, len |-> m]
           /\ buffer' = [buffer EXCEPT ![b] = [off |-> Offset, len |-> m]]
  BY <1>1, <1>2, <1>3, <1>5 DEF ReadFileAsync, IInv, DescriptorType,
        StatusFitsTransfer, TransferAtOffset, OpStates
<1>6. CASE /\ iStatus' = -1
           /\ op' = [st |-> "pending", buf |-> b, want |-> n, len |-> 0]
           /\ buffer' = [buffer EXCEPT ![b] = Torn]
  BY <1>2, <1>3, <1>4, <1>6 DEF ReadFileAsync, IInv, DescriptorType,
        StatusFitsTransfer, TransferAtOffset, OpStates
<1>7. CASE /\ iStatus' = 0
           /\ op' = [st |-> "none", buf |-> b, want |-> n, len |-> 0]
           /\ UNCHANGED buffer
  BY <1>3, <1>4, <1>7 DEF ReadFileAsync, IInv, DescriptorType,
        StatusFitsTransfer, TransferAtOffset, OpStates
<1>. QED
  BY <1>5, <1>6, <1>7 DEF ReadFileAsync, m

\* GetSizeAsync: the offset moves by what was moved there, and then the size counts
\* as taken; so it does after a failure or too early a call.
LEMMA GetSizeStep == IInv /\ GetSize => IInv'
<1> SUFFICES ASSUME IInv, GetSize PROVE IInv'
  OBVIOUS
<1>1. bOffsetUpdated' \in BOOLEAN
  BY Zenon DEF GetSize, GetSizeAsyncTrue, GetSizeAsyncFalse, IInv, DescriptorType
<1>2. CASE \E n \in 0..FileSize : GetSizeAsyncTrue(n)
  BY <1>1, <1>2 DEF GetSizeAsyncTrue, IInv, DescriptorType, StatusFitsTransfer,
        TransferAtOffset
<1>3. CASE GetSizeAsyncFalse
  BY <1>1, <1>3 DEF GetSizeAsyncFalse, IInv, DescriptorType, StatusFitsTransfer,
        TransferAtOffset
<1>. QED
  BY <1>2, <1>3 DEF GetSize

\* CloseFileAsync leaves a descriptor without a transfer.
LEMMA CloseStep == IInv /\ Close => IInv'
<1> SUFFICES ASSUME IInv, Close PROVE IInv'
  OBVIOUS
<1>1. bOffsetUpdated' \in BOOLEAN
  BY Zenon DEF Close, CloseFileAsync
<1>. QED
  BY <1>1, FileSizeAssumption DEF Close, CloseFileAsync, NoOp, OpStates, IInv,
        DescriptorType, StatusFitsTransfer, TransferAtOffset

\* What winio.c knows of its descriptor holds whatever the caller does with it.
THEOREM Invariance == Spec => []IInv
<1>1. Init => IInv
  <2> SUFFICES ASSUME Init PROVE IInv
    OBVIOUS
  <2>1. bOffsetUpdated \in BOOLEAN
    BY Zenon DEF Init, FdInit
  <2>2. Torn \in Fragments
    BY DEF Fragments, Torn
  <2>. QED
    BY <2>1, <2>2, FileSizeAssumption DEF Init, FdInit, NoOp, OpStates, IInv,
          DescriptorType, StatusFitsTransfer, TransferAtOffset
<1>2. IInv /\ [Next]_vars => IInv'
  <2> SUFFICES ASSUME IInv, [Next]_vars PROVE IInv'
    OBVIOUS
  <2>1. CASE Open
    BY <2>1 DEF Open, CreateFileAsync, fdVars, IInv, DescriptorType,
          StatusFitsTransfer, TransferAtOffset
  <2>2. CASE Wait
    BY <2>2 DEF Wait, fdVars, IInv, DescriptorType, StatusFitsTransfer,
          TransferAtOffset
  <2>3. CASE UNCHANGED vars
    BY <2>3 DEF vars, IInv, DescriptorType, StatusFitsTransfer, TransferAtOffset
  <2>. QED
    BY <2>1, <2>2, <2>3, KernelStep, ReadStep, GetSizeStep, CloseStep DEF Next
<1>. QED
  BY <1>1, <1>2, PTL DEF Spec

-----------------------------------------------------------------------------
\* When GetSizeAsync reports a size, the buffer of that read holds exactly the
\* units that follow what was reported before.
THEOREM ReportedDataThere == Spec => ReportedDataIsInBuffer
<1> DEFINE Reported == Offset' > Offset =>
               /\ ret' = [ok |-> TRUE, size |-> Offset' - Offset]
               /\ buffer[op.buf] = [off |-> Offset, len |-> ret'.size]
<1>1. IInv /\ [Next]_vars => [Reported]_vars
  <2> SUFFICES ASSUME IInv, Next, Offset' > Offset PROVE Reported
    OBVIOUS
  <2>1. CASE GetSize
    BY <2>1 DEF GetSize, GetSizeAsyncTrue, GetSizeAsyncFalse, IInv, DescriptorType,
          TransferAtOffset
  <2>2. CASE Close
    BY <2>2 DEF Close, CloseFileAsync, IInv, DescriptorType
  <2>3. CASE Open \/ Read \/ Wait \/ Kernel
    BY <2>3 DEF Open, CreateFileAsync, Read, ReadFileAsync, Wait, Kernel,
          KernelComplete, fdVars, IInv, DescriptorType
  <2>. QED
    BY <2>1, <2>2, <2>3 DEF Next
<1>2. [][Next]_vars /\ []IInv => [][Reported]_vars
  BY <1>1, PTL
<1>. QED
  BY <1>2, Invariance, PTL DEF Spec, ReportedDataIsInBuffer

-----------------------------------------------------------------------------
\* Opening and closing are what winio.h says.
LEMMA OpenClosePromised ==
    ASSUME IInv, Open \/ Close
    PROVE  Promise!Open \/ Promise!Close
<1>1. CASE Open
  BY <1>1 DEF Open, CreateFileAsync, Promise!Open, Promise!Yes, Promise!No, Yes, No,
        phase, moved, fdVars, IInv, DescriptorType, StatusFitsTransfer
<1>2. CASE Close
  BY <1>2 DEF Close, CloseFileAsync, Promise!Close, phase, moved
<1>. QED
  BY <1>1, <1>2

\* A read starts, ends at once or fails.
LEMMA ReadPromised ==
    ASSUME IInv, Read
    PROVE  Promise!Start
<1>1. PICK b \in Bufs, n \in 1..MaxRead :
          /\ ReadFileAsync(b, n)
          /\ ret' = [ok |-> iStatus' # 0, size |-> 0]
  BY DEF Read
<1> n \in Nat
  BY MaxReadAssumption
<1>2. Transfer(n) \in 0..(FileSize - Offset)
  BY TransferFits, FileSizeAssumption DEF IInv, DescriptorType
<1>3. phase \in {"idle", "moved"} /\ phase' # "closed" /\ UNCHANGED Offset
  BY <1>1 DEF phase, ReadFileAsync
<1>4. CASE iStatus' = 1
  <2>1. phase' = "moved" /\ moved' = Transfer(n)
    BY <1>1, <1>4 DEF phase, moved, ReadFileAsync
  <2>2. (iStatus' # 0) = TRUE
    BY <1>4
  <2>3. ret' = Yes
    BY <1>1, <2>2, Zenon DEF Yes
  <2>. QED
    BY <2>1, <2>3, <1>2, <1>3 DEF Promise!Start, Promise!Yes, Yes
<1>5. CASE iStatus' = -1
  <2>1. phase' = "busy" /\ moved' = 0
    BY <1>1, <1>5 DEF phase, moved, ReadFileAsync
  <2>2. (iStatus' # 0) = TRUE
    BY <1>5
  <2>3. ret' = Yes
    BY <1>1, <2>2, Zenon DEF Yes
  <2>. QED
    BY <2>1, <2>3, <1>3 DEF Promise!Start, Promise!Yes, Yes
<1>6. CASE iStatus' = 0
  <2>1. phase' = "idle" /\ moved' = 0
    BY <1>1, <1>6 DEF phase, moved, ReadFileAsync
  <2>2. (iStatus' # 0) = FALSE
    BY <1>6
  <2>3. ret' = No
    BY <1>1, <2>2, Zenon DEF No
  <2>. QED
    BY <2>1, <2>3, <1>3 DEF Promise!Start, Promise!No, No
<1>. QED
  BY <1>1, <1>4, <1>5, <1>6 DEF ReadFileAsync

\* The kernel ends the transfer that the caller still waits for, or one that it
\* has given up, which the promise does not see.
LEMMA KernelPromised ==
    ASSUME IInv, Kernel
    PROVE  Promise!Finish \/ UNCHANGED Promise!vars
<1>1. Transfer(op.want) \in 0..(FileSize - Offset)
  BY TransferFits, FileSizeAssumption DEF IInv, DescriptorType
<1>2. CASE bOffsetUpdated
  BY <1>2 DEF Kernel, KernelComplete, Promise!vars, phase, moved
<1>3. CASE ~ bOffsetUpdated
  <2>1. phase = "busy" /\ UNCHANGED <<Offset, ret>>
    BY <1>3 DEF Kernel, KernelComplete, phase, IInv, StatusFitsTransfer, DescriptorType
  <2>2. \/ phase' = "moved" /\ moved' = Transfer(op.want)
        \/ phase' = "moved" /\ moved' = 0
        \/ phase' = "idle" /\ moved' = 0
    BY <1>3, <2>1 DEF Kernel, KernelComplete, phase, moved, IInv, StatusFitsTransfer,
          DescriptorType
  <2>. QED
    BY <1>1, <2>1, <2>2, FileSizeAssumption DEF Promise!Finish, IInv, DescriptorType
<1>. QED
  BY <1>2, <1>3

\* WaitFileAsync tells the truth about whether the transfer has ended.
LEMMA WaitPromised ==
    ASSUME IInv, Wait
    PROVE  Promise!Wait
  BY DEF Wait, WaitFileAsyncTrue, WaitFileAsyncFalse, fdVars, Promise!Wait, Promise!Yes,
        Promise!No, Yes, No, phase, moved, IInv, DescriptorType, StatusFitsTransfer

\* GetSizeAsync tells the size once, and moves the offset by it.
LEMMA GetSizePromised ==
    ASSUME IInv, GetSize
    PROVE  Promise!GetSize
<1>1. CASE \E n \in 0..FileSize :
               GetSizeAsyncTrue(n) /\ ret' = [ok |-> TRUE, size |-> n]
  <2>1. PICK n \in 0..FileSize :
               GetSizeAsyncTrue(n) /\ ret' = [ok |-> TRUE, size |-> n]
    BY <1>1
  <2>2. phase = "moved" /\ moved = n /\ Offset' = Offset + n
    BY <2>1 DEF GetSize, GetSizeAsyncTrue, phase, moved, IInv, DescriptorType,
          StatusFitsTransfer
  <2>3. phase' = "idle" /\ moved' = 0
    BY <2>1 DEF GetSize, GetSizeAsyncTrue, phase, moved
  <2>. QED
    BY <2>1, <2>2, <2>3 DEF Promise!GetSize
<1>2. CASE GetSizeAsyncFalse /\ ret' = No
  <2>1. phase \in {"idle", "busy"} /\ moved = 0
    BY <1>2 DEF GetSize, GetSizeAsyncFalse, phase, moved
  <2>2. phase' = "idle" /\ moved' = 0 /\ UNCHANGED Offset
    BY <1>2 DEF GetSize, GetSizeAsyncFalse, phase, moved
  <2>. QED
    BY <1>2, <2>1, <2>2 DEF Promise!GetSize, Promise!No, No
<1>. QED
  BY <1>1, <1>2 DEF GetSize

\* The descriptor of winio.c implements the promise of winio.h: each of its calls,
\* and each step of the kernel, is a step of AsyncFile or not seen there.
THEOREM DescriptorImplementsPromise == Spec => ImplementsPromise
<1>1. Init => Promise!Init
  BY DEF Init, FdInit, No, Promise!Init, Promise!No, phase, moved
<1>2. IInv /\ [Next]_vars => [Promise!Next]_(Promise!vars)
  <2> SUFFICES ASSUME IInv, [Next]_vars
               PROVE  Promise!Next \/ UNCHANGED Promise!vars
    OBVIOUS
  <2>1. CASE UNCHANGED vars
    BY <2>1 DEF vars, Promise!vars, phase, moved
  <2>. QED
    BY <2>1, OpenClosePromised, ReadPromised, KernelPromised, WaitPromised,
          GetSizePromised DEF Next, Promise!Next
<1>. QED
  BY <1>1, <1>2, Invariance, PTL DEF Spec, ImplementsPromise, Promise!Spec
=============================================================================
