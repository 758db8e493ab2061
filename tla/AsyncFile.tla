------------------------------ MODULE AsyncFile ------------------------------
(***************************************************************************)
(* What common/winio.h promises the users of an asynchronous file handle:  *)
(* one transfer at a time, whose size is reported exactly once, and a      *)
(* position that moves by exactly what was reported.                       *)
(* Nothing here says how a platform keeps its bookkeeping: WinAsyncFile is *)
(* shown to implement this module, LinuxAsyncFile to fail to.              *)
(***************************************************************************)
EXTENDS Integers

CONSTANT FileSize          \* how many units the file or device holds

VARIABLES
    phase,    \* of the handle: closed, idle (nothing to report), busy, moved
    pos,      \* where the next transfer starts
    moved,    \* what the transfer in hand moved, once it has ended
    answer    \* of the last call: [ok, size]

vars == <<phase, pos, moved, answer>>

Phases == {"closed", "idle", "busy", "moved"}
Answers == [ok : BOOLEAN, size : 0..FileSize]
Yes == [ok |-> TRUE, size |-> 0]
No == [ok |-> FALSE, size |-> 0]

TypeOK ==
    /\ phase \in Phases
    /\ pos \in 0..FileSize
    /\ moved \in 0..FileSize
    /\ answer \in Answers

Init == phase = "closed" /\ pos = 0 /\ moved = 0 /\ answer = No

\* "Open a file for asynchronous access": "Non NULL on success".
Open ==
    /\ phase = "closed"
    /\ \/ phase' = "idle" /\ answer' = Yes
       \/ phase' = "closed" /\ answer' = No
    /\ UNCHANGED <<pos, moved>>

\* "Initiate a read [write] operation": it may end at once, later, or fail.
Start ==
    /\ phase \in {"idle", "moved"}
    /\ \/ phase' = "busy" /\ moved' = 0 /\ answer' = Yes
       \/ phase' = "moved" /\ moved' \in 0..(FileSize - pos) /\ answer' = Yes
       \/ phase' = "idle" /\ moved' = 0 /\ answer' = No
    /\ UNCHANGED pos

\* The transfer in progress ends, unseen by the caller.
Finish ==
    /\ phase = "busy"
    /\ \/ phase' = "moved" /\ moved' \in 0..(FileSize - pos)
       \/ phase' = "idle" /\ moved' = 0
    /\ UNCHANGED <<pos, answer>>

\* "Wait for an asynchronous operation to complete, with timeout": a wait that
\* succeeds has seen the transfer end.
Wait ==
    /\ phase # "closed"
    /\ \/ phase # "busy" /\ answer' = Yes
       \/ phase # "moved" /\ answer' = No
    /\ UNCHANGED <<phase, pos, moved>>

\* "Return the number of bytes read or written and keep track/update the
\* current offset": the size told is the size moved, it is told
\* once, and asking for it too early gives the transfer up.
GetSize ==
    /\ phase # "closed"
    /\ \/ /\ phase = "moved"
          /\ phase' = "idle"
          /\ answer' = [ok |-> TRUE, size |-> moved]
          /\ pos' = pos + moved
          /\ moved' = 0
       \/ /\ phase # "moved"
          /\ phase' = "idle"
          /\ answer' = No
          /\ UNCHANGED <<pos, moved>>

\* "Close a previously opened asynchronous file".
Close ==
    /\ phase' = "closed" /\ pos' = 0 /\ moved' = 0
    /\ UNCHANGED answer

Next == Open \/ Start \/ Finish \/ Wait \/ GetSize \/ Close

Spec == Init /\ [][Next]_vars
=============================================================================
