--------------------------- MODULE WinAsyncClient ---------------------------
(***************************************************************************)
(* Every order in which a caller may use the handle of WinAsyncFile, the   *)
(* answers it gets, and the promise of common/winio.h it implements.       *)
(***************************************************************************)
EXTENDS WinAsyncFile

CONSTANT MaxRead      \* the largest read a caller asks for

ASSUME MaxReadAssumption == MaxRead \in Nat

VARIABLE ret          \* what the last call returned: [ok, size]

vars == <<hFile, iStatus, bOffsetUpdated, Offset, op, buffer, ret>>

Yes == [ok |-> TRUE, size |-> 0]
No == [ok |-> FALSE, size |-> 0]

Init == FdInit /\ ret = No

Open ==
    \/ CreateFileAsync /\ ret' = Yes
    \/ hFile = "none" /\ ret' = No /\ UNCHANGED fdVars

Read ==
    \E b \in Bufs, n \in 1..MaxRead :
        /\ ReadFileAsync(b, n)
        /\ ret' = [ok |-> iStatus' # 0, size |-> 0]

Wait ==
    /\ hFile = "open"
    /\ \/ WaitFileAsyncTrue /\ ret' = Yes
       \/ WaitFileAsyncFalse /\ ret' = No
    /\ UNCHANGED fdVars

GetSize ==
    /\ hFile = "open"
    /\ \/ \E n \in 0..FileSize :
              GetSizeAsyncTrue(n) /\ ret' = [ok |-> TRUE, size |-> n]
       \/ GetSizeAsyncFalse /\ ret' = No

Close == hFile = "open" /\ CloseFileAsync /\ UNCHANGED ret

Kernel == KernelComplete /\ UNCHANGED ret

Next == Open \/ Read \/ Wait \/ GetSize \/ Close \/ Kernel

Spec == Init /\ [][Next]_vars

-----------------------------------------------------------------------------
\* The phase of winio.h's handle that a Windows descriptor is in. A transfer
\* whose size was asked for has nothing more to report, whatever the kernel
\* still does to it.
phase ==
    IF hFile = "none" THEN "closed"
    ELSE IF iStatus = 0 \/ bOffsetUpdated \/ op.st = "error" THEN "idle"
    ELSE IF op.st = "pending" THEN "busy"
    ELSE "moved"

moved == IF phase = "moved" THEN op.len ELSE 0

Promise == INSTANCE AsyncFile WITH pos <- Offset, answer <- ret

\* The descriptor of winio.c does what winio.h documents: a size is reported
\* once, it is what the transfer moved, and the offset moves with it.
ImplementsPromise == Promise!Spec

\* When GetSizeAsync reports n units, the buffer of that read holds exactly
\* the n units that follow everything reported before: no unit is skipped,
\* repeated or reported before it is there.
ReportedDataIsInBuffer ==
    [][ Offset' > Offset =>
            /\ ret' = [ok |-> TRUE, size |-> Offset' - Offset]
            /\ buffer[op.buf] = [off |-> Offset, len |-> ret'.size] ]_vars
=============================================================================
