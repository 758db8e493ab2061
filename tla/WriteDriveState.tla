--------------------------- MODULE WriteDriveState ---------------------------
(***************************************************************************)
(* format.c: WriteDrive. What all its ways through have in common: where   *)
(* the thread is, the error it leaves for its caller and for the user, and *)
(* what it returns.                                                        *)
(***************************************************************************)
VARIABLES
    pc,
    ErrorStatus,
    ret

\* CHECK_FOR_USER_CANCEL
Cancelled == ErrorStatus = "cancelled"
=============================================================================
