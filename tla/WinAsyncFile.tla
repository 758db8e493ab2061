---------------------------- MODULE WinAsyncFile ----------------------------
(***************************************************************************)
(* windows_specific/winio.c: the ASYNC_FD behind an asynchronous handle,   *)
(* over the overlapped I/O of the Windows kernel (external).               *)
(*                                                                         *)
(* Data is abstracted to where in the file it came from: a buffer holds a  *)
(* fragment [off, len] of the file, or Torn while a read may be writing it *)
(* (and after a read that failed).                                         *)
(* HashThread extends this module: its actions call ReadFileAsync and the  *)
(* others as the code does.                                                *)
(***************************************************************************)
EXTENDS Integers

CONSTANTS
    FileSize,   \* units the file holds
    Bufs        \* the buffers a caller passes to ReadFileAsync

ASSUME FileSizeAssumption == FileSize \in Nat

VARIABLES
    hFile,            \* "open", or "none" when there is no ASYNC_FD
    iStatus,          \* 1 done synchronously, -1 pending, 0 error
    bOffsetUpdated,   \* has this transfer's size been taken
    Offset,           \* Overlapped.Offset
    op,               \* the kernel's side of the last transfer
    buffer            \* what each buffer holds

fdVars == <<hFile, iStatus, bOffsetUpdated, Offset, op, buffer>>

Torn == [off |-> -1, len |-> 0]
Fragments == [off : 0..FileSize, len : 0..FileSize] \cup {Torn}

\* The outcomes of a transfer: GetOverlappedResultEx succeeds ("complete"),
\* reports ERROR_HANDLE_EOF or ERROR_SECTOR_NOT_FOUND ("eof"), or any other
\* error ("error"). "none" is a transfer the kernel never accepted.
OpStates == {"none", "pending", "complete", "eof", "error"}
Ops == [st : OpStates, buf : Bufs, want : Nat, len : 0..FileSize]

AnyBuf == CHOOSE b \in Bufs : TRUE
NoOp == [st |-> "none", buf |-> AnyBuf, want |-> 0, len |-> 0]

FdTypeOK ==
    /\ hFile \in {"none", "open"}
    /\ iStatus \in {-1, 0, 1}
    /\ bOffsetUpdated \in BOOLEAN
    /\ Offset \in 0..FileSize
    /\ op \in Ops
    /\ buffer \in [Bufs -> Fragments]

FdInit ==
    /\ hFile = "none"
    /\ iStatus = 0
    /\ bOffsetUpdated = FALSE
    /\ Offset = 0
    /\ op = NoOp
    /\ buffer = [b \in Bufs |-> Torn]

-----------------------------------------------------------------------------
\* The kernel (external).

\* What a transfer of n units moves at the current offset.
Transfer(n) == IF n <= FileSize - Offset THEN n ELSE FileSize - Offset

\* A pending transfer ends: with data, at the end of the file, or in error.
KernelComplete ==
    /\ op.st = "pending"
    /\ LET n == Transfer(op.want) IN
       \/ /\ n > 0
          /\ op' = [op EXCEPT !.st = "complete", !.len = n]
          /\ buffer' = [buffer EXCEPT ![op.buf] = [off |-> Offset, len |-> n]]
       \/ /\ n = 0
          /\ op' = [op EXCEPT !.st = "eof"]
          /\ UNCHANGED buffer
       \/ /\ op' = [op EXCEPT !.st = "error"]
          /\ UNCHANGED buffer
    /\ UNCHANGED <<hFile, iStatus, bOffsetUpdated, Offset>>

-----------------------------------------------------------------------------
\* The functions of winio.c.

\* The allocation of the descriptor and the opening of the file succeeded; when
\* either fails there is no descriptor, and nothing here changes.
CreateFileAsync ==
    /\ hFile = "none"
    /\ hFile' = "open"
    /\ UNCHANGED <<iStatus, bOffsetUpdated, Offset, op, buffer>>

\* ReadFile() completes at once, is pending, or fails. The code asserts that it
\* does not report the end of the file here.
ReadFileAsync(b, n) ==
    /\ hFile = "open"
    /\ op.st # "pending"
    /\ bOffsetUpdated' = FALSE
    /\ \/ LET m == Transfer(n) IN
          /\ m > 0 \/ n = 0
          /\ iStatus' = 1
          /\ op' = [st |-> "complete", buf |-> b, want |-> n, len |-> m]
          /\ buffer' = [buffer EXCEPT ![b] = [off |-> Offset, len |-> m]]
       \/ /\ iStatus' = -1
          /\ op' = [st |-> "pending", buf |-> b, want |-> n, len |-> 0]
          /\ buffer' = [buffer EXCEPT ![b] = Torn]
       \/ /\ iStatus' = 0
          /\ op' = [st |-> "none", buf |-> b, want |-> n, len |-> 0]
          /\ UNCHANGED buffer
    /\ UNCHANGED <<hFile, Offset>>

\* Mutant: the wait does not look at whether the transfer has ended.
WaitNever == TRUE

\* WaitFileAsync() can return TRUE: the transfer ended, at once or since (the
\* event of a transfer that failed at once may be in either state).
WaitFileAsyncTrue == iStatus > 0 \/ op.st # "pending"

\* WaitFileAsync() can return FALSE: the timeout passes before the event is set.
WaitFileAsyncFalse == ~ iStatus > 0 /\ op.st \in {"pending", "none"}

\* Mutant: the size can be taken again.
GetSizeAgain(n) ==
    /\ iStatus # 0
    /\ bOffsetUpdated' = TRUE
    /\ op.st = "complete" /\ n = op.len /\ Offset' = Offset + n
    /\ UNCHANGED <<hFile, iStatus, op, buffer>>

\* GetSizeAsync() returns TRUE and the size n.
GetSizeAsyncTrue(n) ==
    /\ iStatus # 0 /\ ~ bOffsetUpdated
    /\ bOffsetUpdated' = TRUE
    /\ \/ op.st = "complete" /\ n = op.len /\ Offset' = Offset + n
       \/ op.st = "eof" /\ n = 0 /\ UNCHANGED Offset
    /\ UNCHANGED <<hFile, iStatus, op, buffer>>

\* GetSizeAsync() returns FALSE: nothing was started, the size has been taken
\* already, the transfer failed, or it is still pending after WRITE_TIMEOUT.
\* In the last two the size counts as taken.
GetSizeAsyncFalse ==
    /\ \/ (iStatus = 0 \/ bOffsetUpdated) /\ UNCHANGED bOffsetUpdated
       \/ /\ iStatus # 0 /\ ~ bOffsetUpdated
          /\ op.st \in {"error", "pending"}
          /\ bOffsetUpdated' = TRUE
    /\ UNCHANGED <<hFile, iStatus, Offset, op, buffer>>

\* Closing the handle ends the transfer that may be pending on it.
CloseFileAsync ==
    /\ hFile' = "none"
    /\ iStatus' = 0
    /\ bOffsetUpdated' = FALSE
    /\ Offset' = 0
    /\ op' = NoOp
    /\ UNCHANGED buffer
=============================================================================
