----------------------------- MODULE BadBlocks -----------------------------
(***************************************************************************)
(* badblocks.c: the destructive check of a drive. Each pass writes a       *)
(* pattern to all blocks and reads them back, BLOCKS_AT_ONCE blocks at a   *)
(* time; where that fails it goes on block by block for a while. On the    *)
(* first pass each block carries its number too, so that a drive that has  *)
(* less memory than it says gives itself away. The user cancels through a  *)
(* timer of the main window (alarm_intr).                                  *)
(*                                                                         *)
(* What is in a block is the pattern, the number and where in the pattern  *)
(* the block begins, and SPOILT if the drive does not keep it. The last is *)
(* because the buffer is filled as a whole: the patterns for TLC memory    *)
(* have three bytes, of which a block of 512 KB is no multiple.            *)
(* read_sectors and write_sectors are those of ms-sys/file_win.c or of     *)
(* ms-sys/file_unix.c.                                                     *)
(***************************************************************************)
EXTENDS Integers, Sequences, FiniteSets

CONSTANTS
    last_block,
    BLOCKS_AT_ONCE,
    nb_passes,
    TLCPasses,         \* the passes whose pattern for TLC has three bytes: 3 and 4
    ListSizes,         \* of the list when it must grow: 10, 110, 210...
    MaxBB,             \* BB_BAD_BLOCKS_THRESHOLD
    MaxFaults          \* bound on the blocks with a fault

ASSUME BadBlocksAssumption ==
    /\ last_block \in Nat \ {0} /\ BLOCKS_AT_ONCE \in Nat \ {0}
    /\ nb_passes \in Nat \ {0} /\ MaxBB \in Nat
    /\ MaxFaults \in Nat /\ TLCPasses \subseteq Nat \ {0, 1} /\ ListSizes \subseteq Nat

VARIABLES
    \* the drive and how the program was built
    faults,            \* what is wrong with each block
    size,              \* blocks it really has: the others are these again
    disk,              \* what is in them
    unix, large_drive, detect_fakes,
    tlc,               \* the user checks for TLC memory
    \* test_rw
    pc, pat_idx, currently_testing, tryout, recover_block,
    \* bb_output: the blocks a request has found bad and their kind of error, and
    \* the bounds of the search for the first of them (0: not begun)
    pending, error_type, low, high,
    bb_list, bb_count, num_errors,
    cancel_ops, ErrorStatus,
    result,            \* of BadBlocks
    \* history
    uncompared,        \* blocks that a short read has left unlooked at
    unlisted           \* blocks for which there was no memory in the list

drive == <<faults, size, unix, large_drive, detect_fakes, tlc>>
counts == <<bb_list, bb_count, num_errors, unlisted>>
position == <<pat_idx, currently_testing, tryout, recover_block>>
output == <<pending, error_type, low, high>>
vars == <<drive, disk, pc, position, output, counts, cancel_ops, ErrorStatus, result,
          uncompared>>

Blocks == 0..(last_block - 1)
Faults == {"none", "read", "write", "keep"}
NOWHERE == -1                            \* recover_block = ~0
BLANK == <<0, NOWHERE, 0>>               \* what was there before the first pass
SPOILT == <<-1, NOWHERE, 0>>             \* what no pass writes
Errors == {"READ_ERROR", "WRITE_ERROR", "CORRUPTION_ERROR"}

\* The block of the drive that answers for b.
Cell(b) == b % size

\* The drive, the position of the test and its results have their types.
TypeOK ==
    /\ faults \in [Blocks -> Faults] /\ size \in 1..last_block
    /\ disk \in [Blocks -> (-1..nb_passes) \X (Blocks \cup {NOWHERE}) \X (0..2)]
    /\ unix \in BOOLEAN /\ large_drive \in BOOLEAN /\ detect_fakes \in BOOLEAN
    /\ tlc \in BOOLEAN
    /\ pc \in {"start", "write", "read", "out", "done"} /\ pat_idx \in 0..nb_passes
    /\ currently_testing \in 0..last_block /\ tryout \in 1..BLOCKS_AT_ONCE
    /\ recover_block \in {NOWHERE} \cup 0..(last_block + BLOCKS_AT_ONCE)
    /\ pending \subseteq Blocks /\ error_type \in Errors
    /\ low \in 0..Len(bb_list) /\ high \in 0..Len(bb_list)
    /\ bb_list \in Seq(Blocks) /\ bb_count \in 0..last_block
    /\ num_errors \in [Errors -> 0..last_block]
    /\ cancel_ops \in BOOLEAN /\ ErrorStatus \in BOOLEAN
    /\ result \in {"none", "TRUE", "FALSE"}
    /\ uncompared \subseteq Blocks /\ unlisted \subseteq Blocks

\* A drive is fake, or has faults, or neither.
Init ==
    /\ size \in 1..last_block
    /\ faults \in [Blocks -> Faults]
    /\ Cardinality({b \in Blocks : faults[b] # "none"}) <= MaxFaults
    /\ size < last_block => \A b \in Blocks : faults[b] = "none"
    /\ disk = [b \in Blocks |-> BLANK]
    /\ unix \in BOOLEAN /\ large_drive \in BOOLEAN /\ detect_fakes \in BOOLEAN
    /\ tlc \in BOOLEAN
    /\ pc = "start" /\ pat_idx = 1 /\ currently_testing = 0
    /\ tryout = BLOCKS_AT_ONCE /\ recover_block = NOWHERE
    /\ pending = {} /\ error_type = "READ_ERROR" /\ low = 0 /\ high = 0
    /\ bb_list = <<>> /\ bb_count = 0 /\ num_errors = [e \in Errors |-> 0]
    /\ cancel_ops = FALSE /\ ErrorStatus = FALSE
    /\ result = "none" /\ uncompared = {} /\ unlisted = {}

-----------------------------------------------------------------------------
\* bb_u64_list_add: at the end, or before the first block that is greater.
ListAdd(list, blk) ==
    IF list # <<>> /\ list[Len(list)] = blk THEN list
    ELSE IF list = <<>> \/ list[Len(list)] < blk THEN Append(list, blk)
    ELSE IF \E i \in DOMAIN list : list[i] = blk THEN list
    ELSE LET j == CHOOSE i \in DOMAIN list :
                      list[i] > blk /\ \A k \in DOMAIN list : list[k] > blk => i <= k
         IN  [i \in 1..(Len(list) + 1) |->
                 IF i < j THEN list[i] ELSE IF i = j THEN blk ELSE list[i - 1]]

\* The block bb_output is called for: they come in their order.
IsNext(bad) == bad \in pending /\ \A c \in pending : bad <= c

\* bb_output is done with the block.
Reported(bad) == pending' = pending \ {bad} /\ low' = 0 /\ high' = 0

\* It was not seen before: it is listed and counted, or neither if the list must
\* grow and cannot.
NewBad(bad) ==
    /\ \/ /\ bb_list' = ListAdd(bb_list, bad)
          /\ bb_count' = bb_count + 1
          /\ num_errors' = [num_errors EXCEPT ![error_type] = @ + 1]
          /\ UNCHANGED unlisted
       \/ /\ Len(bb_list) \in ListSizes
          /\ unlisted' = unlisted \cup {bad}
          /\ UNCHANGED <<bb_list, bb_count, num_errors>>
    /\ Reported(bad)

SeenBad(bad) == Reported(bad) /\ UNCHANGED counts

Narrow(l, h) == low' = l /\ high' = h /\ UNCHANGED <<pending, counts>>

\* Mutant: the last entry of the list is not looked at.
FindEndsNotLast(bad) ==
    \/ bb_list = <<>> /\ NewBad(bad)
    \/ bb_list # <<>> /\ bad = bb_list[1] /\ SeenBad(bad)
    \/ bb_list # <<>> /\ bad # bb_list[1] /\ Narrow(1, Len(bb_list))

\* bb_u64_list_find looks at both ends of the list,
FindEnds(bad) ==
    \/ bb_list = <<>> /\ NewBad(bad)
    \/ /\ bb_list # <<>> /\ bad \in {bb_list[1], bb_list[Len(bb_list)]}
       /\ SeenBad(bad)
    \/ /\ bb_list # <<>> /\ bad \notin {bb_list[1], bb_list[Len(bb_list)]}
       /\ Narrow(1, Len(bb_list))

\* and then halves it until nothing is left between low and high.
FindBetween(bad) ==
    LET mid == (low + high) \div 2
    IN  \/ (low >= high \/ mid = low \/ mid = high) /\ NewBad(bad)
        \/ /\ low < high /\ mid # low /\ mid # high
           /\ \/ bad = bb_list[mid] /\ SeenBad(bad)
              \/ bad < bb_list[mid] /\ Narrow(low, mid)
              \/ bad > bb_list[mid] /\ Narrow(mid, high)

\* A turn of the search in bb_output, which no check for cancellation interrupts.
OutputStep ==
    /\ \E bad \in pending :
           /\ IsNext(bad)
           /\ \/ low = 0 /\ FindEnds(bad)
              \/ low # 0 /\ FindBetween(bad)
    /\ UNCHANGED <<drive, disk, pc, position, error_type, cancel_ops, ErrorStatus,
                   result, uncompared>>

-----------------------------------------------------------------------------
\* Where in its pattern the buffer is at the start of block b of the request.
Phase(b) == IF tlc /\ pat_idx \in TLCPasses THEN (b - currently_testing) % 3 ELSE 0

\* Mutant: no block numbers are written.
ContentNoNumber(b) == <<pat_idx, NOWHERE, Phase(b)>>

\* What the buffer holds for block b: the pattern and, on the first pass, b.
Content(b) == <<pat_idx, IF detect_fakes /\ pat_idx = 1 THEN b ELSE NOWHERE, Phase(b)>>

Span(n) == currently_testing..(currently_testing + n - 1)
\* Those of them that come before the first with a fault of the kind.
Before(kind, n) == {b \in Span(n) : \A c \in Span(n) : c <= b => faults[c] # kind}

\* "Some large drives return 0, even though all the data was written."
MayDeny == large_drive /\ ~ unix

\* write_sectors writes up to the first block that fails. On Windows it then says
\* so; on Linux it does not look at what write() returns.
Written(n) == Before("write", n)
DoWrite(n) == (IF unix \/ Written(n) = Span(n) THEN {n} ELSE {0})
              \cup (IF MayDeny THEN {0} ELSE {})

\* The disk after block after block of w has been written: the last one counts.
DiskAfter(w) ==
    [c \in Blocks |->
        LET here == {b \in w : Cell(b) = c}
            last == CHOOSE b \in here : \A d \in here : d <= b
        IN  IF here = {} THEN disk[c]
            ELSE IF faults[c] = "keep" THEN SPOILT ELSE Content(last)]

\* read_sectors returns what was read before the block that fails, or nothing.
Readable(n) == Cardinality(Before("read", n))
DoRead(n) == IF Readable(n) = n THEN {n} ELSE {0, Readable(n)}

Differs(b) == disk[Cell(b)] # Content(b)

-----------------------------------------------------------------------------
Continue == ~ cancel_ops /\ ~ (MaxBB # 0 /\ bb_count >= MaxBB)

\* The blocks of the next request.
Try == IF currently_testing + tryout > last_block
       THEN last_block - currently_testing ELSE tryout

\* Mutant: a request that fails is held against its first block.
FailsAloneAlways(got, n) == got = 0

\* got == 0 && tryout == 1: the block itself has failed.
FailsAlone(got, n) == got = 0 /\ n = 1

\* Mutant: a block that fails is counted twice in the position.
AdvanceTwice(got, n) ==
    LET next == currently_testing + got + (IF FailsAlone(got, n) THEN 2 ELSE 0)
    IN  /\ currently_testing' = next
        /\ IF got # n
           THEN /\ tryout' = 1
                /\ recover_block' = IF recover_block = NOWHERE
                                    THEN next - got + BLOCKS_AT_ONCE ELSE recover_block
           ELSE IF next = recover_block
           THEN tryout' = BLOCKS_AT_ONCE /\ recover_block' = NOWHERE
           ELSE tryout' = n /\ UNCHANGED recover_block

\* Mutant: a request that fails is tried again as it was.
AdvanceWhole(got, n) ==
    LET next == currently_testing + got + (IF FailsAlone(got, n) THEN 1 ELSE 0)
    IN  currently_testing' = next /\ tryout' = n /\ UNCHANGED recover_block

\* The move after a request of n blocks of which got were done: a failure means
\* block by block, from there to the end of the request; then full requests again.
Advance(got, n) ==
    LET next == currently_testing + got + (IF FailsAlone(got, n) THEN 1 ELSE 0)
    IN  /\ currently_testing' = next
        /\ IF got # n
           THEN /\ tryout' = 1
                /\ recover_block' = IF recover_block = NOWHERE
                                    THEN next - got + BLOCKS_AT_ONCE ELSE recover_block
           ELSE IF next = recover_block
           THEN tryout' = BLOCKS_AT_ONCE /\ recover_block' = NOWHERE
           ELSE tryout' = n /\ UNCHANGED recover_block

\* The list of bad blocks, the arguments and the buffers, and the failures of each.
Begin ==
    /\ pc = "start"
    /\ \/ pc' = "write" /\ UNCHANGED <<cancel_ops, result>>
       \/ pc' = "out" /\ cancel_ops' = TRUE /\ UNCHANGED result
       \/ pc' = "done" /\ result' = "FALSE" /\ UNCHANGED cancel_ops
    /\ UNCHANGED <<drive, disk, position, output, counts, ErrorStatus, uncompared>>

\* bb_output is to be called for the blocks, if there are any.
Report(blocks, error) ==
    /\ pending' = blocks /\ error_type' = error
    /\ UNCHANGED <<low, high, counts>>

WriteStep ==
    /\ pc = "write" /\ pending = {} /\ currently_testing < last_block /\ Continue
    /\ \E got \in DoWrite(Try) :
           /\ disk' = DiskAfter(Written(Try))
           /\ Advance(got, Try)
           /\ IF FailsAlone(got, Try) THEN Report({currently_testing}, "WRITE_ERROR")
              ELSE UNCHANGED <<output, counts>>
    /\ UNCHANGED <<drive, pc, pat_idx, cancel_ops, ErrorStatus, result, uncompared>>

\* What was read whole is compared; what came before a failure is not.
ReadStep ==
    /\ pc = "read" /\ pending = {} /\ currently_testing < last_block /\ Continue
    /\ \E got \in DoRead(Try) :
           /\ Advance(got, Try)
           /\ IF FailsAlone(got, Try)
              THEN Report({currently_testing}, "READ_ERROR") /\ UNCHANGED uncompared
              ELSE IF got # Try
              THEN /\ UNCHANGED <<output, counts>>
                   /\ uncompared' = uncompared \cup Span(got)
              ELSE /\ Report({b \in Span(got) : Differs(b)}, "CORRUPTION_ERROR")
                   /\ UNCHANGED uncompared
    /\ UNCHANGED <<drive, disk, pc, pat_idx, cancel_ops, ErrorStatus, result>>

\* From writing to reading, to the next pass, or to the end.
NextPhase ==
    /\ pc \in {"write", "read"} /\ pending = {} /\ currently_testing = last_block
    /\ currently_testing' = 0 /\ tryout' = BLOCKS_AT_ONCE
    /\ \/ pc = "write" /\ pc' = "read" /\ UNCHANGED pat_idx
       \/ /\ pc = "read" /\ pat_idx < nb_passes /\ ~ cancel_ops
          /\ pc' = "write" /\ pat_idx' = pat_idx + 1
       \/ /\ pc = "read" /\ (pat_idx = nb_passes \/ cancel_ops)
          /\ pc' = "out" /\ UNCHANGED pat_idx
    /\ UNCHANGED <<drive, disk, recover_block, output, counts, cancel_ops, ErrorStatus,
                   result, uncompared>>

\* Cancelled, or "Too many bad blocks, aborting test".
Stop ==
    /\ pc \in {"write", "read"} /\ pending = {}
    /\ currently_testing < last_block /\ ~ Continue
    /\ cancel_ops' = TRUE /\ pc' = "out"
    /\ UNCHANGED <<drive, disk, position, output, counts, ErrorStatus, result,
                   uncompared>>

\* BadBlocks returns.
Return ==
    /\ pc = "out" /\ pc' = "done"
    /\ result' = IF cancel_ops /\ bb_count = 0 THEN "FALSE" ELSE "TRUE"
    /\ UNCHANGED <<drive, disk, position, output, counts, cancel_ops, ErrorStatus,
                   uncompared>>

UserCancel ==
    /\ pc # "done" /\ ~ ErrorStatus /\ ErrorStatus' = TRUE
    /\ UNCHANGED <<drive, disk, pc, position, output, counts, cancel_ops, result,
                   uncompared>>

\* alarm_intr, a timer on Windows only; num_blocks is last_block - 1 while writing.
Alarm ==
    /\ ~ unix /\ pc \in {"write", "read"} /\ ErrorStatus /\ ~ cancel_ops
    /\ pc = "write" => last_block > 1
    /\ cancel_ops' = TRUE
    /\ UNCHANGED <<drive, disk, pc, position, output, counts, ErrorStatus, result,
                   uncompared>>

Done == pc = "done" /\ UNCHANGED vars

Next == Begin \/ WriteStep \/ ReadStep \/ OutputStep \/ NextPhase \/ Stop
        \/ Return \/ UserCancel \/ Alarm \/ Done

Spec == Init /\ [][Next]_vars

-----------------------------------------------------------------------------
\* The list is kept in order without duplicates, and each of its blocks is counted
\* once, as one kind of error, however often passes and retries come across it.
CountsAgree ==
    /\ \A i, j \in DOMAIN bb_list : i < j => bb_list[i] < bb_list[j]
    /\ bb_count = Len(bb_list)
    /\ bb_count = num_errors["READ_ERROR"] + num_errors["WRITE_ERROR"]
                  + num_errors["CORRUPTION_ERROR"]

Listed == {bb_list[i] : i \in DOMAIN bb_list}

\* A check that was not cut short has found every block that fails, and of blocks
\* that are one block of a fake drive all but one, if it looks for them. What a
\* short read has skipped is excepted, as test_rw does not compare it; so is what
\* bb_output had no memory for.
BadBlocksFound ==
    (pc = "done" /\ result = "TRUE" /\ ~ cancel_ops) =>
        /\ \A b \in Blocks : faults[b] # "none" => b \in Listed \cup uncompared \cup unlisted
        /\ detect_fakes => \A b, c \in Blocks :
               (b # c /\ Cell(b) = Cell(c)) => {b, c} \cap (Listed \cup unlisted) # {}

\* A pattern of three bytes has been in use.
Phased == tlc /\ \E p \in TLCPasses : p <= pat_idx

\* No good block of a drive that has the memory it says is listed, if all its blocks
\* are good. If some are not, retrying block by block lets their neighbours off; but
\* on Linux a write that fails goes unnoticed, and what follows it is found corrupt,
\* and with a pattern of three bytes a block that was written with others and is
\* read alone compares unequal. A large drive may deny what it has written.
GoodBlocksSpared ==
    (size = last_block /\ ~ MayDeny) =>
        /\ (\A b \in Blocks : faults[b] = "none") => Listed = {}
        /\ (~ unix /\ ~ Phased) => \A b \in Listed : faults[b] # "none"

\* How far the check is from its end, most significant first: the phases left, the
\* blocks left in this one, whether requests have more than one block, the blocks
\* to report and what is left to search for the first of them.
PhasesLeft ==
    CASE pc = "start" -> 2 * nb_passes + 2
      [] pc = "write" -> 2 * (nb_passes - pat_idx) + 3
      [] pc = "read" -> 2 * (nb_passes - pat_idx) + 2
      [] pc = "out" -> 1
      [] pc = "done" -> 0
BlocksLeft == last_block - currently_testing
SearchLeft == IF low = 0 THEN last_block ELSE high - low

\* What remains gets less.
ReportsLess ==
    \/ pending' \subseteq pending /\ pending' # pending
    \/ pending' = pending /\ SearchLeft' < SearchLeft
RequestsLess ==
    \/ tryout > 1 /\ tryout' = 1
    \/ tryout' = tryout /\ ReportsLess
LessLeft ==
    \/ PhasesLeft' < PhasesLeft
    \/ /\ PhasesLeft' = PhasesLeft
       /\ \/ BlocksLeft' < BlocksLeft
          \/ BlocksLeft' = BlocksLeft /\ RequestsLess

\* Every step of test_rw brings the check nearer to its end, whatever fails and
\* however often it is tried again, and neither the user nor the timer takes it
\* back: it cannot go on for ever.
CheckProgresses ==
    [][IF UserCancel \/ Alarm THEN UNCHANGED <<pc, position, output>> ELSE LessLeft]_vars
=============================================================================
