--------------------------- MODULE LinuxAsyncFile ---------------------------
(***************************************************************************)
(* linux_specific/winio.c: the same interface over POSIX AIO (external).   *)
(* The caller waits for a transfer before it asks for its size, as both    *)
(* callers in the repository do; sizes of reads are all that is kept.      *)
(***************************************************************************)
EXTENDS Integers

CONSTANTS FileSize, MaxRead

VARIABLES
    fd,        \* "open" or "none"
    offset,    \* h->offset
    cb,        \* the aiocb: [st, len], "zero" after memset
    waited,    \* the caller has seen this transfer end
    total,     \* history: what all the transfers of this handle moved
    ret        \* what the last call returned: [ok, size]

vars == <<fd, offset, cb, waited, total, ret>>

Yes == [ok |-> TRUE, size |-> 0]
No == [ok |-> FALSE, size |-> 0]
Zero == [st |-> "zero", len |-> 0]

\* The state of the handle and of its control block has its type.
TypeOK ==
    /\ fd \in {"none", "open"}
    /\ offset \in 0..FileSize
    /\ cb \in [st : {"zero", "pending", "complete", "error"}, len : 0..FileSize]
    /\ waited \in BOOLEAN
    /\ total \in 0..FileSize
    /\ ret \in [ok : BOOLEAN, size : 0..FileSize]

Init ==
    /\ fd = "none" /\ offset = 0 /\ cb = Zero
    /\ waited = FALSE /\ total = 0 /\ ret = No

CreateFileAsync ==
    /\ fd = "none"
    /\ \/ fd' = "open" /\ ret' = Yes
       \/ fd' = "none" /\ ret' = No
    /\ UNCHANGED <<offset, cb, waited, total>>

\* aio_return() of the control block: what it moved, 0 once it is cleared.
Returned == IF cb.st = "complete" THEN cb.len ELSE 0

\* _IO_FUNC_GEN: refused while a transfer is in progress; otherwise a size
\* nobody asked for still moves the offset, and the next transfer starts.
ReadFileAsync ==
    /\ fd = "open"
    /\ \/ /\ cb.st = "pending"
          /\ ret' = No
          /\ UNCHANGED <<offset, cb, waited>>
       \/ /\ cb.st # "pending"
          /\ offset' = offset + Returned
          /\ waited' = FALSE
          /\ \/ cb' = [st |-> "pending", len |-> 0] /\ ret' = Yes
             \/ cb' = [st |-> "error", len |-> 0] /\ ret' = No
    /\ UNCHANGED <<fd, total>>

AioComplete ==
    /\ cb.st = "pending"
    /\ \/ \E n \in 0..MaxRead :
              /\ n <= FileSize - offset
              /\ n = 0 => offset = FileSize
              /\ cb' = [st |-> "complete", len |-> n]
              /\ total' = total + n
       \/ cb' = [st |-> "error", len |-> 0] /\ UNCHANGED total
    /\ UNCHANGED <<fd, offset, waited, ret>>

WaitFileAsync ==
    /\ fd = "open"
    /\ \/ cb.st \in {"complete", "zero"} /\ ret' = Yes /\ waited' = TRUE
       \/ cb.st \in {"pending", "error"} /\ ret' = No /\ UNCHANGED waited
    /\ UNCHANGED <<fd, offset, cb, total>>

\* The offset moves by what the transfer moved, the control block is cleared,
\* and the caller is given the offset.
GetSizeAsync ==
    /\ fd = "open" /\ waited
    /\ offset' = offset + Returned
    /\ cb' = Zero
    /\ ret' = [ok |-> TRUE, size |-> offset']
    /\ UNCHANGED <<fd, waited, total>>

CloseFileAsync ==
    /\ fd = "open"
    /\ fd' = "none" /\ offset' = 0 /\ cb' = Zero
    /\ waited' = FALSE /\ total' = 0
    /\ UNCHANGED ret

Next ==
    \/ CreateFileAsync \/ ReadFileAsync \/ AioComplete
    \/ WaitFileAsync \/ GetSizeAsync \/ CloseFileAsync

Spec == Init /\ [][Next]_vars

-----------------------------------------------------------------------------
\* common/winio.h on GetSizeAsync: "Return the number of bytes read or
\* written". A size taken from a transfer that moved n units is n, which is
\* what lets a reader see the end of the file as a size of 0.
ReportsBytesTransferred ==
    [][ (cb.st = "complete" /\ cb' = Zero /\ fd' = "open") =>
            ret'.size = cb.len ]_vars
=============================================================================
