----------------------------- MODULE SectorWrite -----------------------------
(***************************************************************************)
(* format.c: WriteDrive(hPhysicalDrive, FALSE) for a compressed image. The *)
(* decompressor (bled, external) calls sector_write with pieces of any     *)
(* size; sector_write passes whole sectors on to the drive and keeps what  *)
(* is left of a sector in sec_buf for the next call.                       *)
(*                                                                         *)
(* A piece of the decompressed stream is where it starts and how long it   *)
(* is. The drive is abstracted to how much of the stream it holds from its *)
(* start, or Spoiled when something else was written there.                *)
(***************************************************************************)
EXTENDS WriteDriveState, Integers

CONSTANTS
    SectorSize,    \* SelectedDrive.SectorSize
    StreamSize,    \* how much the decompressor produces
    MaxCount       \* the largest piece it hands over

ASSUME StreamAssumption ==
    /\ SectorSize \in Nat \ {0} /\ StreamSize \in Nat /\ MaxCount \in Nat

VARIABLES
    taken,         \* how much of the stream sector_write has accepted
    sec_buf,       \* the unfinished sector: [off, len], len is sec_buf_pos
    drive,         \* how much of the stream is on the drive
    bled_ret,      \* of bled_uncompress_with_handles: "running", "ok", "error"
    flushed        \* what is known of the last, unfinished sector

vars == <<pc, taken, sec_buf, drive, bled_ret, flushed, ErrorStatus, ret>>

Spoiled == -1
Piece(o, n) == [off |-> o, len |-> n]
sec_buf_pos == sec_buf.len

\* The state of the stream, of the sector buffer and of the drive has its type.
TypeOK ==
    /\ pc \in {"open", "bled", "finish", "done"}
    /\ taken \in 0..StreamSize
    /\ sec_buf \in [off : 0..StreamSize, len : 0..(SectorSize - 1)]
    /\ drive \in {Spoiled} \cup (0..StreamSize)
    /\ bled_ret \in {"running", "ok", "error"}
    /\ flushed \in {"unneeded", "written", "lost"}
    /\ ErrorStatus \in {"none", "cancelled", "open_failed", "no_memory",
                        "write_fault"}
    /\ ret \in BOOLEAN

Init ==
    /\ pc = "open" /\ taken = 0 /\ sec_buf = Piece(0, 0) /\ drive = 0
    /\ bled_ret = "running" /\ flushed = "unneeded"
    /\ ErrorStatus = "none" /\ ret = FALSE

-----------------------------------------------------------------------------
\* Opening the source and allocating sec_buf, and the failures of each.
OpenSource ==
    /\ pc = "open"
    /\ \/ pc' = "bled" /\ sec_buf' = Piece(0, 0) /\ UNCHANGED ErrorStatus
       \/ /\ ErrorStatus' \in {"open_failed", "no_memory"}
          /\ pc' = "done"
          /\ UNCHANGED sec_buf
    /\ UNCHANGED <<taken, drive, bled_ret, flushed, ret>>

\* The drive after n units of the stream from o on were written at its file
\* pointer, which is behind what was written before.
Appended(d, o, n) == IF n = 0 THEN d ELSE IF d = o THEN d + n ELSE Spoiled

\* Mutant: the rest is not cut to whole sectors.
Unrounded(n) == n

\* How many of n units are in whole sectors.
WholeSectors(n) == n - (n % SectorSize)

\* How much of a piece of count units completes the sector in sec_buf.
FillSize(count) ==
    IF sec_buf_pos = 0 THEN 0
    ELSE IF SectorSize - sec_buf_pos <= count THEN SectorSize - sec_buf_pos
    ELSE count

\* Not even one sector: the piece joins what is in sec_buf.
KeepPiece(count) ==
    /\ sec_buf_pos > 0 /\ sec_buf_pos + FillSize(count) < SectorSize
    /\ sec_buf' = [sec_buf EXCEPT !.len = @ + count]
    /\ taken' = taken + count
    /\ UNCHANGED drive

\* Mutant: the leftover of the piece is dropped.
WriteRestDropsTail(count, d) ==
    LET fill == FillSize(count)
        whole == WholeSectors(count - fill)
    IN  /\ drive' = Appended(d, taken + fill, whole)
        /\ sec_buf' = Piece(taken + fill + whole, 0)
        /\ taken' = taken + count

\* Mutant: one sector too few goes to the drive.
WriteRestOneShort(count, d) ==
    LET fill == FillSize(count)
        whole == WholeSectors(count - fill - 1)
    IN  /\ drive' = Appended(d, taken + fill, whole)
        /\ sec_buf' = Piece(taken + fill + whole, count - fill - whole)
        /\ taken' = taken + count

\* What follows the first fill units: whole sectors to the drive, d being what it
\* holds by then, the rest to sec_buf.
WriteRest(count, d) ==
    LET fill == FillSize(count)
        whole == WholeSectors(count - fill)
    IN  /\ drive' = Appended(d, taken + fill, whole)
        /\ sec_buf' = Piece(taken + fill + whole, count - fill - whole)
        /\ taken' = taken + count

\* The drive once the sector in sec_buf was completed and written.
Completed(count) ==
    IF sec_buf_pos = 0 THEN drive
    ELSE Appended(drive, sec_buf.off, sec_buf_pos + FillSize(count))

\* One of the two _write() calls wrote fewer sectors than asked, or none: the
\* caller is told and the sector in sec_buf, if complete, is given up.
WriteShort(count) ==
    /\ sec_buf_pos + FillSize(count) >= SectorSize \/ sec_buf_pos = 0
    /\ sec_buf' = [sec_buf EXCEPT !.len = 0]
    /\ \/ sec_buf_pos > 0 /\ UNCHANGED drive
       \/ \E n \in 0..(count - FillSize(count)) :
              /\ n % SectorSize = 0
              /\ n < WholeSectors(count - FillSize(count))
              /\ drive' = Appended(Completed(count), taken + FillSize(count), n)
    /\ UNCHANGED taken

\* sector_write() returns count: the decompressor goes on. A piece of whole
\* sectors that starts on a sector is written as it is, which WriteRest covers.
sector_write(count) ==
    \/ KeepPiece(count)
    \/ /\ sec_buf_pos + FillSize(count) >= SectorSize \/ sec_buf_pos = 0
       /\ WriteRest(count, Completed(count))

\* The decompressor hands over the next piece of its stream.
BledWrite ==
    /\ pc = "bled"
    /\ \E count \in 1..MaxCount :
           /\ taken + count <= StreamSize
           /\ \/ sector_write(count) /\ UNCHANGED <<pc, bled_ret>>
              \/ /\ WriteShort(count)
                 /\ bled_ret' = "error" /\ pc' = "finish"
    /\ UNCHANGED <<flushed, ErrorStatus, ret>>

\* It ends: the stream is complete, or the source is unreadable or corrupt, or
\* it saw ErrorStatus (its cancel_request) when it read more of the source.
BledEnds ==
    /\ pc = "bled"
    /\ \/ taken = StreamSize /\ bled_ret' = "ok"
       \/ bled_ret' = "error"
    /\ pc' = "finish"
    /\ UNCHANGED <<taken, sec_buf, drive, flushed, ErrorStatus, ret>>

\* Mutant: what is left in sec_buf is not written.
FinishUnflushed ==
    /\ pc = "finish"
    /\ ret' = (bled_ret = "ok")
    /\ pc' = "done"
    /\ UNCHANGED <<taken, sec_buf, drive, bled_ret, flushed, ErrorStatus>>

\* The last, unfinished sector is written ("we dont bother checking the write
\* operation"); a failure is recorded, unless the user cancelled, in which case
\* WriteDrive goes on to return TRUE.
FinishImage ==
    /\ pc = "finish"
    /\ \/ /\ bled_ret = "ok" /\ sec_buf_pos # 0
          /\ \/ /\ drive' = Appended(drive, sec_buf.off, sec_buf_pos)
                /\ flushed' = "written"
             \/ flushed' = "lost" /\ UNCHANGED drive
       \/ /\ ~ (bled_ret = "ok" /\ sec_buf_pos # 0)
          /\ UNCHANGED <<drive, flushed>>
    /\ IF bled_ret = "error" /\ ErrorStatus # "cancelled"
       THEN ErrorStatus' = "write_fault" /\ UNCHANGED ret
       ELSE ret' = TRUE /\ UNCHANGED ErrorStatus
    /\ pc' = "done"
    /\ UNCHANGED <<taken, sec_buf, bled_ret>>

\* IDCANCEL, at any time while the thread runs.
UserCancel ==
    /\ pc # "done"
    /\ ErrorStatus' = "cancelled"
    /\ UNCHANGED <<pc, taken, sec_buf, drive, bled_ret, flushed, ret>>

Finished == pc = "done" /\ UNCHANGED vars

Next ==
    \/ OpenSource \/ BledWrite \/ BledEnds \/ FinishImage \/ UserCancel
    \/ Finished

Spec == Init /\ [][Next]_vars

-----------------------------------------------------------------------------
\* However the stream is cut into pieces, what sector_write has accepted is on
\* the drive, in order and without a gap, but for the tail that is in sec_buf.
NothingLost ==
    (pc = "bled" \/ (pc = "finish" /\ bled_ret = "ok")) =>
        /\ drive + sec_buf_pos = taken
        /\ sec_buf_pos > 0 => sec_buf.off = drive

\* Nothing but the next part of the stream is ever written to the drive, failed
\* and cancelled writes included.
DriveHoldsPrefix == drive # Spoiled

\* The drive is only ever written whole sectors ("streams that aren't multiple
\* of the sector size [...] cause write failures").
WholeSectorsOnly == pc # "done" => drive % SectorSize = 0

\* When nothing is reported to the user, the drive holds the whole image; the
\* one exception is the last sector, whose write is not checked.
ImageComplete ==
    (pc = "done" /\ ErrorStatus = "none" /\ flushed # "lost")
        => drive = StreamSize

\* How far WriteDrive has got and what the decompressor has returned by then: it
\* is told of success only for a whole stream.
Phases ==
    /\ pc = "open" => taken = 0 /\ drive = 0
    /\ pc \in {"open", "bled"} => bled_ret = "running"
    /\ pc = "finish" => bled_ret # "running"
    /\ pc = "finish" /\ bled_ret = "ok" => taken = StreamSize

\* The inductive invariant: what the drive holds, what is in sec_buf and how far
\* the stream was taken fit together at every step.
IInv ==
    /\ TypeOK /\ NothingLost /\ DriveHoldsPrefix /\ WholeSectorsOnly
    /\ ImageComplete /\ Phases
=============================================================================
