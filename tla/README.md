# A TLA+ model of Rufus

Rufus erases, partitions, formats and fills USB drives. This directory models
the parts of it that run concurrently, that retry and recover, and that must not
lose data or a cancellation on the way, checks them with TLC on small instances
and proves the safety properties of its passing runs, for every instance, with TLAPS.

## The system

Rufus is a Windows program (this repository also carries the beginning of a
Linux port). One main window runs the user interface; every long operation is a
thread of its own, and there is one operation at a time:

    main window (win_rufus.c) ------ boot check, image scan, download, update check (net.c)
      |        \--- process search (process.c), asked by Start, GetHandle and the report
      | Start: UM_FORMAT_START          | Hash
      v                                 v
    FormatThread (format.c)           HashThread (hash.c) --- IndividualHashThread x4
      |     |       |      |                |                  (events, shared buffers)
      |  WriteDrive |   FormatPartition     |
      |  /   |   \  | (format_*.c, VDS,     |
      | zero image  |  FormatEx)            |
      |       |  compressed (bled,          |
      |       |   sector_write)             |
      |       +------- winio.c: asynchronous reads of the image
      +--- badblocks.c: the check for bad blocks, through ms-sys/file_*.c
      +--- win_drive.c: handles, locks, partitions, mounting

The threads and the window share the global `ErrorStatus`: a thread stores why it
failed, the window stores ERROR_CANCELLED when the user cancels and reads the
result when the thread posts UM_FORMAT_COMPLETED (0 is shown as READY). Downloads write to it
too, those of the background checks for updates and for Fido included, which run beside operations.

### Inventory

| component | state | operations | hard because of | correct when |
|---|---|---|---|---|
| `windows_specific/winio.c` | status, offset and "offset updated" flag of a handle | open, read, wait, get size, close | transfers end at any time; sizes may be asked for twice or too early | a size is reported once, is what was moved, and the data is in the buffer |
| `linux_specific/winio.c` | aiocb, offset | the same | two functions advance the offset | the same |
| `common/hash.c` HashThread | three buffers and sizes, two families of events, one context per algorithm | read ahead, hand a buffer to all threads, collect digests | five threads, unlocked shared indices, timeouts of different lengths | no buffer is overwritten under a thread, digests are those of the whole image |
| `format.c` WriteDrive, image | two buffers, file pointer, bytes written | read ahead, round to sectors, write with retries | short writes, retries, unsigned sizes | the image, all of it and nothing else, is on the drive |
| `format.c` WriteDrive, compressed | unfinished sector | cut a stream into sectors | pieces of any size | nothing is lost, repeated or shifted |
| `format.c` WriteDrive, zeroing | file pointer, back-off counter | compare, skip, write | the comparison moves the file pointer | no data is left |
| `format.c` FormatThread | handles of the drive and of the volume, mounted volumes, ErrorStatus | some twenty stages | every stage can fail, access is given up and taken back, cancellation at any time | stages have the access they need, everything is released, READY means done |
| `win_drive.c` | handles, locks, letters, partition table | GetHandle, DeletePartition, CreatePartition, mounting | other programs hold the drive, retries, advice of another thread | an unlocked handle is returned only when it is safe |
| `win_rufus.c` | format_thread, op_in_progress, ErrorStatus, zero_drive, device list, boxes, timers | Start, Alt-Z, Cancel, Close, Hash, Save, Select, Download, drop, device changes | messages of threads, of devices and of the user interleave, also inside modal boxes | one operation at a time, on the confirmed drive, reported as it went; the controls come back |
| `badblocks.c` | pattern, block number, list of bad blocks and its counters | write phase, read phase, retries block by block | recovery of partial transfers, fake drives, cancellation by a timer | a bad block is reported, a good one is not, each is counted once |
| `format_fat32.c` | geometry | compute, zero, write | 32-bit arithmetic | regions fit and do not overlap |
| `process.c` | search thread, its lock and event, versions, passes, slots | start, set, stop, get | set and stopped while it searches; forced termination | results are given after a whole pass over this drive; a drive in use is not reported as free |
| `net.c` | download, update schedule | download, check | failures at each step | a partial file is not kept |
| `vhd.c` | mounted image, save thread | mount, save | asynchronous completion | an image is read past its end only where nothing is made of it |
| `iso.c`, `wue.c`, `syslinux.c`, `dos.c`, `icon.c`, `dev.c`, `smart.c`, `pki.c`, `parser.c`, `localization.c`, `re.c`, `stdlg.c`, `win_ui.c`, `stdfn.c`, `stdio.c`, `dos_locale.c` | see `PROJECT.json` | | mostly I/O, text and tables | |

`bled`, `ext2fs`, `libcdio`, `syslinux/*`, `getopt`, `ms-sys` are vendored.

### What is hard to test

`PROJECT.json` lists the hazards with their lines. Most are of three kinds:
orders of steps of the user, the threads and the kernel that no test sets up;
one step of several failing (a short write, a failed seek, a lost volume) and
what the steps after it make of that; and globals which several parties write:
`ErrorStatus`, which alone decides what the user is told, `zero_drive`,
`image_path`, the device list, and the results of the process search.

Smaller ones that no property covers: the timespec of the Linux `WaitFileAsync` is
invalid for a timeout that is not a whole number of seconds, which no caller uses;
an image that is truncated while it is written counts as written at its end
(format.c:1365); DeletePartition returns the result of its last partition only, which
FormatThread ignores anyway; `SetProcessSearch` asserts a lock that a search
thread that ended by itself has taken back (process.c:843; in the model, as in a build without assertions, it
fails); VhdSaveImage takes the path of the device before its file dialog and the size after it
(vhd.c:1159).

## The modules

| module | models | state and actions |
|---|---|---|
| `AsyncFile` | what `common/winio.h` promises | the phase of a handle, its position, the answer of the last call |
| `WinAsyncFile` | `windows_specific/winio.c` | the fields of ASYNC_FD, the kernel's side of the transfer (`op`), what each buffer holds; operators for each function, used by the modules that call them |
| `WinAsyncClient` | any caller of it | one action per call; refinement of `AsyncFile` |
| `WinAsyncProofs` | | theorems about `WinAsyncClient`, and the refinement |
| `LinuxAsyncFile` | `linux_specific/winio.c` | offset and aiocb; one action per function |
| `HashPipeline` | `HashThread`, `IndividualHashThread` | `pc`/`tpc` are the threads' places, the globals of hash.c keep their names; one action per numbered step of the loop |
| `HashPipelineProofs` | | theorems about `HashPipeline` |
| `WriteImage` | `WriteDrive` for images and VHDs | the drive is a function from units to the unit of the image they hold; reads through `WinAsyncFile` |
| `WriteImageProofs` | | theorems about `WriteImage` |
| `WriteDriveState` | what the next two share | the place of the thread, `ErrorStatus`, the result |
| `ZeroDrive` | `WriteDrive` for zeroing | the drive is a function from sectors to zeros, ones or data |
| `SectorWrite` | `WriteDrive` for compressed images, `sector_write` | how much of the stream is on the drive and in `sec_buf`; bled's writes are pieces of any size, and end with the first that is short |
| `WriteDriveProofs` | | theorems about `SectorWrite` and `ZeroDrive` |
| `FormatThread` | `FormatThread` | `pc` is the stage, the handles of the drive and volume and how many Windows holds for us, which stages were completed |
| `FormatThreadProofs` | | theorems about `FormatThread` |
| `Session` | the main window of `win_rufus.c`, the ends of the threads it starts (`net.c`, `vhd.c`, `hash.c`, `format.c`) | the globals keep their names; `posted` is the message queue, `boxes` the stack of modal boxes; one action per button, key, message, answer to a box, and per point at which a thread or a background check touches shared state |
| `SessionProofs` | | theorems about `Session` |
| `ProcessSearch` | `process.c` | `blocking_process` field by field, the place of the thread and of the window in the calls; what is done under hLock is one action |
| `DriveAccess` | `GetHandle`, composed with `ProcessSearch`, the selection of drives, the other callers of `GetProcessSearch` and other programs | the retries, write sharing, the lock and the access mask of GetHandle |
| `DriveAccessProofs` | | theorems about `DriveAccess` and the search it is composed with |
| `BadBlocks` | `badblocks.c`, `read_sectors`, `write_sectors` | what each cell of the drive holds (pattern, block number and the place in the request, which patterns of three bytes make visible) and what is wrong with it; the position and the pattern of test_rw, the bad blocks of a request that are still to be reported (`pending`), the bounds of the binary search for the first of them (`low`, `high`), the list and the counters; one action per request, per turn of the search and per end of a phase |
| `BadBlocksProofs` | | theorems about `BadBlocks` |

Data is abstracted to where it came from: a buffer holds a fragment of the
image given by offset and length, a hash context is how much of the image it has
absorbed in order (or `Spoiled`), a stage of the format is its name. All control
is kept: guards, early exits, retries, timeouts, the order of assignments.

Mutants, kept next to the definitions they change, are wrong versions of single
operations (a missing reset, a dropped check). Each property is violated by at
least one of them; no specification uses them.

## The runs

| run | what it asks |
|---|---|
| `win_async` | Does the Windows handle do what winio.h says, in every order of calls? Two buffers, reads of up to 2 units of a file of 4: enough for several reads, one across the end and one at the end. |
| `linux_async_size` | Does the Linux `GetSizeAsync` report the bytes transferred? It does not. |
| `hash` | Three algorithms and a file of three and a half buffers, so that all three buffers are reused, with timeouts of every wait and failures of every event or thread creation, or with none of either (`faults`, chosen at the start): are buffers and digests safe, does the thread end, and does every algorithm get its digest when nothing fails? |
| `hash_slow_read` | Does success mean that the digests were computed when reads are slow? It does not. |
| `write_image` | An image of two and a half buffers that ends on a sector of the drive, and a VHD of a little more that ends inside one; short writes at any sector, three attempts, cancellation: is the image on the drive, and nothing else? Is its source read past the end other than by the read that wraps around? |
| `zero_drive` | Every content of a drive of four blocks, the last one short, in both modes: is it clear? Four blocks are enough for a block to be compared, written, followed by throttled ones and a comparison again. |
| `sector_write` | Every way to cut a stream of almost four sectors into pieces of up to more than two: is it on the drive in order? |
| `format` | Every job, every failure at every stage, cancellation at any time: does each stage have the handles it needs, is everything released, is a failure or a cancellation reported? |
| `session` | Two operations, one image, one device event or background check and two devices, in any order: is an operation alone, is the user told how it ended (or what a background check left in ErrorStatus), is the confirmed drive the one that is erased, do the controls come back? Two operations are what an error, a flag or a cancel box of an earlier one needs to reach a later one. |
| `drive_access` | Two drives, two processes (one writes) that open or close a drive, two selections: is a drive that is in use ever reported as free, does GetHandle go on without its lock only when it was told of readers alone, readers of this drive if it has any, and does a search that was set get through its pass? |
| `process_writers` | Is a process that writes to the drive reported when Start is pressed? Not always. |
| `bad_blocks` | Every fault of up to two of five blocks, every size of a fake drive, large and small drives, patterns of one and of three bytes, a list that may fail to grow, both systems, two passes of two blocks at a time (so that the last group is short), a limit of four bad blocks (of which a fake drive, or one that denies its writes, has enough, for a list long enough to be searched by halving on both sides), cancellation: are the bad blocks found, the good ones spared, the counts right, and does each step bring the check nearer to its end? |

Bounds. `FileSize`, `BUFFER_SIZE`, `buf_size`, `SectorSize`, `DiskSize` and
`StreamSize` stand for the code's sizes at a scale at which every rounding case
occurs. `WRITE_RETRIES` is 2 or 3 for 4, `THROTTLE` 2 for 15, `MaxRetry` bounds how often a
user repeats the bad blocks check. `WORD` stands for 2^64 in the one
subtraction of `WriteImage` that can wrap, and for 2^32 in the pass counter of
`ProcessSearch`. `MaxOps`, `MaxScans`, `MaxEvents`, `MaxPass`, `MaxSelect` and `MaxChange` bound how
often the user, the devices and background checks, the search and other programs act. `MaxPass` is 2, as the second
pass is where entries of the first are kept or pruned; `DRIVE_ACCESS_RETRIES` is 4, the least for which
GetHandle can ask the search while it opens the drive and still open it. `MaxBB` is the
code's limit of bad blocks, `MaxFaults` bounds the faulty blocks of an instance: two are a fault in one group and
another in the same or the next one. `TLCPasses` (3 and 4 in the code, 2 in the run) are the passes with a pattern of
three bytes on drives checked for TLC, `ListSizes` (10, 110, 210 ... in the code, 2 in the run) the
lengths at which the list must grow. No relation is assumed between the size of a source
and the drive's sector: a VHD is made of 512-byte sectors and a raw image may have any length. `rewound` is whether the initial SetFilePointerEx
succeeded; the code only warns ("wrong data might be copied!") when it did
not, so the properties about the drive's content assume it did. SectorSize is at
least 512 in the code, or WriteDrive refuses the drive.

Fairness. The threads are scheduled (weak fairness on each), and in the hash runs
the kernel ends the transfers it accepted; `WriteImage` and `ZeroDrive` ask nothing
of the kernel, as their waits have timeouts. In `Session` the threads go on and the main
thread handles the messages posted to it; in `DriveAccess` the search thread and the
window are scheduled, and a snapshot of the handles that is tried again and again succeeds at
some time (the code sleeps a second and retries without limit). The user never has to do anything, but to answer the boxes
that are open (in `Session`) and the dialog of the bad blocks check.

Exceptions the properties make. `OperationIsAlone`, `ToldWhatHappened` and
`FormatsWhatWasConfirmed` speak of sessions in which no image was scanned or downloaded beside an
operation or another image (`overlap` is FALSE). That can happen: a file that is dropped during a
boot check starts a scan, and Start can be clicked before a scan has disabled the controls. The
model has those steps; what they lead to is listed under "hazards". `ToldWhatHappened` also lets through the
status that a background check wrote to ErrorStatus during the operation (`meddled` collects them): such a check
really can turn an error into READY or the reverse, and the property states that nothing else can. Two operations side by side
are not excepted: that there are none is what is claimed. `SearchFollowsSelection` leaves out a search that was ended with
TerminateThread, after which the lock may be owned by nobody, and one for which Windows has no names of
the drive, where the thread only sleeps. `UnlockedIsInformed` does not say that the readers in the list are
readers of this drive: entries are pruned only when a process is stored, so that those of the drive selected
before stay, and count, while nobody has this one open; if anybody has had it open since it was selected,
they are of this drive. `BadBlocksFound` leaves out the
blocks that a short read has left uncompared and those that the list had no memory for.
`GoodBlocksSpared` leaves out fake drives and large drives that may say that they wrote nothing; for drives with faulty blocks
it speaks of Windows only, as the Linux `write_sectors` does not report errors, and of
the passes before the first pattern of three bytes, as a neighbour of a faulty block that was written with others
and is read alone then compares unequal. `NeverReadsPastSource` leaves out the one read whose size wraps around.
`CancelIsReported` leaves out the cancellation that a failing DeletePartition erases, and knows only what
FormatThread writes to ErrorStatus; the background checks are in `Session`.

### Findings

The violation runs show where the code departs from what the repository says of it;
`PROJECT.json` quotes the lines.

* The Linux `GetSizeAsync` reports the offset instead of the size of the transfer.
* HashThread takes hash threads that gave up for hash threads that finished: after
  a last read of between 5 and 15 seconds, stale digests are shown as this image's.
* The prune of the process search compares with `nPass - 1`, which wraps around on the
  first pass: every process that is stored removes those stored before it, and a
  process that writes to the drive can be missing from the warning of Start.

More are modelled, and described under "hazards": a cancellation during the deletion of the
partitions is erased when the deletion fails, and the drive is then formatted; a FAT32 boot
record that could not be confirmed or written is taken for written; the size of the read after
the last part of an image or of a VHD wraps around when it does not end on a sector of the drive, and a
buffer is asked for past its end, which the comment at format.c:1396 forbids;
a background check that runs beside an operation can hide its error; with the TLC patterns, good blocks beside a
faulty one are listed as corrupt;
the retries of FormatEx run into the error of the first attempt; one failure of
FormatExtFs sets no ErrorStatus. `ReadyMeansDone` holds but for the failures that set no
ErrorStatus, which `FormatThread` records as "unreported": the log file of the
bad blocks check, reads, seeks and the last write of WriteDrive, FormatExtFs, WritePBR, and the copies of grldr (GRUB4DOS,
format.c:1929) and of the KolibriOS loader (format.c:1956), whose failure is only logged.

## The proofs

`HashPipelineProofs` proves, for every number of algorithms, file size and
buffer size and for every choice of faults (assumptions: the three sizes are
natural numbers, positive where the code has them so, and there are three
buffers), that
no thread is ever told to hash, or is hashing, the buffer that a read may be
writing to (`BufferSafety`), that no context absorbs data out of order and a published
digest is that of the whole image (`DigestCorrect`), that the processing buffer and its
size do not change under a thread (`StableBuffer`), and type correctness.

None of these is inductive. The invariant `IInv` adds what the threads agree on:

* `TransferAtOffset`: a transfer whose size was not taken starts at the offset;
* `FreshData`: between a read and the signal of the last thread, the buffer read
  last holds the part of the image just before the offset;
* `BuffersApart`: while some thread has data, the buffer being read is one or two
  places after the one being hashed, depending on the step: the fact that needs three
  buffers;
* `ReadyThreads`: a thread whose ready event is set has no data pending, and none is
  told of new data before its ready event was consumed;
* `ThreadsCaughtUp`: a live thread has absorbed all it was told of, but for the
  buffer it is hashing, hence `DataAwaited`: what it finds there is what comes next.

The proof has one lemma per action and per part of the invariant that the action can
disturb.

`WriteDriveProofs` proves, for every sector size but 0, every stream length and every
sequence of pieces, that `sector_write` loses and reorders nothing
(`SectorWriteLosesNothing`), that the drive only sees whole sectors of the stream in
order until the final flush (`SectorWriteAligned`), and that an image nobody complained about
is complete (`SectorWriteComplete`). The four invariants need each other: where the
next write goes follows from `NothingLost`, which needs the drive not spoiled, and the flush
at the end needs that the decompressor reports success only for a whole stream (`Phases`).
Their conjunction `IInv` is inductive. The arithmetic is in `SectorsAdd` (sums of whole
sectors are whole sectors) and `WholeSectorsRounds`; `CutPiece` says how a piece is divided.

It also proves, of `ZeroDrive`, that a drive of any size that counts as zeroed is clear
(`ZeroedDriveIsClear`), and type correctness
(`ZeroingTypeCorrect`, which no run repeats). It needs that the file pointer, which the
comparison moves too, is where the next block goes (`PointerAtBlock`), and that
everything before `wb` was empty or has been written whole (`ClearSoFar`).

`WriteImageProofs` proves, for every size of drive, image, sector and buffer and every
number of retries, that an image that counts as written is on the drive unit for unit
(`ImageIsOnDrive`), that no read fills the buffer being written (`BuffersNeverCross`),
that a source, VHD or not, is read past its end at most by the read ahead that is started when all of a source that
does not end on a sector of the drive is in hand (`ReadsWithinSource`), and type correctness. The
assumptions are those of the module: a sector divides a buffer and the drive, the file is no shorter than the
image was when it was scanned, and `WORD` (2^64) is more
than the sizes. The source may have any size. The invariant says where the two buffers are in the image: the buffer
about to be written holds the part that starts at `wb` (`BuffersHold`), the read in
flight asks for the part after it (`ReadAhead`) and was made at the offset
(`TransferAtOffset`), the file pointer is on the drive, and at `wb` when a write begins
(`PointerInDrive`), and what is on the drive is a prefix of the image followed by what was
there before (`DriveSoFar`). The step that needs care is the size of the read after the
last part, whose subtraction can wrap around: `NextSizeFits` shows that what it leads
to still fits the buffer, `HiAlignRounds` and `ChunkFits` are the rounding to sectors,
and `WrittenEffect` is what a write, short or whole, leaves on the drive.

`FormatThreadProofs` proves the five safety properties of `FormatThread` and type
correctness, for every job and every number of retries, whatever ErrorStatus the boot check has left when the thread starts. The properties speak of a few
stages; the invariant says for every stage which handles are held (`HandlesHeld`), which
stages are behind it for this job (`StepsBehind`), whether the patterns of the bad blocks
check can be on the drive (`DirtyWhere`) and when ErrorStatus still shows a cancellation
(`CancelKept`).

`WinAsyncProofs` proves that the Windows descriptor implements `AsyncFile`, for every
file size and every order of calls (`DescriptorImplementsPromise`: the initial states map
to initial states, and each call and each step of the kernel to a step or to none; neither
side has fairness), and the action property that what GetSizeAsync reports is in the
buffer (`ReportedDataThere`). The invariant relates iStatus to the results the kernel can
hold (`StatusFitsTransfer`), which decides what the promise sees of a call, and places a
transfer whose size was not taken at the offset (`TransferAtOffset`).

`DriveAccessProofs` proves, for any number of processes, drives and entries of the list,
that a drive somebody has open since it was selected is never reported as free
(`BlockedIsSeen`), that GetHandle goes on without a lock only after a whole pass over this drive and when told of readers and no
writer, which are readers of this drive if it has been open since it was selected (`UnlockedOnlyIfInformed`), and type correctness. Besides the assumptions on the
bounds it uses that `None` is neither a process nor a drive (`NoneAssumption`). The
invariant: where the thread is and what there is of it (`ThreadPlace`, for example that a
thread in its loop is inactive only while the window waits for it to stop); that the
thread has the names of the selected drive when the two versions agree and the window is
done setting them (`NamesAgree`); that whoever has the drive open since then is still to
be met in the pass or the list is not empty (`PassFinds`); that the first process stored for a drive
pushes out the entries of another, and that after a second pass with room for all whoever kept the drive open is listed (`PassRemembers`); and that what GetHandle was told
does not change under it (`HandleKnows`). `StoreLists` shows that StoreProcess never leaves the
list empty, whatever it prunes: the prune that wraps around loses entries (see the
findings) but never the last one.

`SessionProofs` proves, for any number of operations, images, devices, device events and background checks, that an
operation is alone (`OneOperation`), that the user is told what it came to, but for what a background check wrote
meanwhile (`ReportIsTrue`), that
the drive named in the warning is the one that is formatted (`ConfirmedDriveFormatted`), and
type correctness. An operation is a token that is in one of four places: `Starting` (boot check,
its message, the warning), `Failed`, `Working` (a thread) or `Reports` (a message on its way back). The
invariant:

* `Budget`: tokens and clicks of Alt-Z that have not arrived are no more than the operations the
  user began, which bounds the threads;
* `Alone`: at most one token; whoever could make a second one finds the controls disabled or
  messages or boxes ahead of him. The posted click of Alt-Z counts too: nothing begins before it
  is handled. `format_thread` is set while a thread works, and never without one or
  its report;
* `Reported`: until the report, a cancellation in ErrorStatus is one of this operation's user, and once
  the thread is done anything else in it is its verdict, unless a background check wrote it;
* `Chosen`: from the boot check on, the selection and `zero_drive` are the ones the operation
  was started with, which holds as the list is not refreshed while the controls are disabled.

The queue and the boxes are sequences; `NumAppend`, `NumTail` and `NumFront` say how the number of
times a message or a box is in them changes, `Accounts` and `Shifts` what that means for the four
places. Then there is one lemma per action.

`BadBlocksProofs` proves, for every number of blocks, size of a request, number of passes and limit
of bad blocks, every fault of every block and every size of a fake drive, that the list is
in order, without repetitions and as long as the counters say (`ListAndCountsAgree`), that every
bad block that was compared is listed unless the list had no memory for it, as is at least one of any two blocks of a fake drive that are
the same memory (`EveryBadBlockFound`), that nothing is listed of a genuine drive without faults, and no good neighbour of a bad block on Windows
before a pattern of three bytes is used (`GoodNeighboursSpared`, for drives that admit what they wrote), type correctness, and that the check always progresses
(`CheckAlwaysProgresses`). The invariant:

* `SearchInv`: the block being searched for is nowhere in the list but between `low` and `high`. It
  is what makes a list in order stay in order, as `bb_u64_list_add` is reached only when the two
  have met (`FindIsRight`, `AddedInOrder`);
* `DiskInv` and `KeptInv`: a block that fails never holds what was written, a good one does from
  when the writing has passed it, as long as it does not matter how the blocks were cut into requests (`Plain`: no
  pattern of three bytes, no write that is misreported). Together they say what a comparison finds;
* `CleanInv`: on a drive without faults all requests start at multiples of `BLOCKS_AT_ONCE`, so that a block is read back at
  the place in the request at which it was written, whatever the pattern;
* `SparedInv` and `FoundInv`: `GoodBlocksSpared` and `BadBlocksFound` of the moment, which count what
  is reported next (`pending`) and speak of the blocks the first reading has passed;
* `FakesInv`: as the first pass writes block numbers, at most one of the blocks that are the same
  memory holds its own (`FakesDiffer`), and the others are listed as the reading passes them;
* `PhaseInv`, `DriveInv`: where blocks are reported, and that a fake drive has no other fault.

`CheckProgresses` is the safety part of termination, which the prover can do: a lexicographic measure
(phases, blocks, size of a request, blocks to report, width of the search) decreases in each step of test_rw
and neither the user nor the timer changes it. That such a measure cannot decrease for ever, so that the
check ends when it is scheduled, is the usual argument and is not a theorem here. The step that
needs care is the retry: after a failed group the same blocks are tried again one at a time, which
is progress only because the size of the request then goes down, and goes up again only as blocks are
left behind (`AdvanceProgresses`).

Each of these invariants was checked with TLC on the instance of the component's run before
it was proved.

Only model-checked:

* liveness (`HashThreadEnds`, `DigestsComputed`, `WriteDriveEnds`, `ZeroingEnds`,
  `FormatEnds`, `ControlsComeBack`, `SearchFollowsSelection`), which is out of the prover's
  reach;
* the three violation runs, which show counterexamples.

## Not modelled

Most of the repository's lines are not Rufus's own logic: the decompressors of `bled` (how it writes and ends is modelled), `ext2fs`,
`libcdio`, the syslinux libraries, `ms-sys`'s boot records, `getopt`, Windows headers carried over for the
Linux port, and tables (`db.h`, `dos_locale.c`, `winerror.h`, `mini_winnt.h`). They are external here: what
Rufus sees of them is the outcome of a call. The share of all lines that the map covers stays small
for that reason.

Of Rufus's own code, these are left out:

* the hash algorithms as computations, and what the stages of FormatThread write;
* the choice of settings in the main window (file systems, schemes, options for a
  boot type), its layout, and the cheat keys but Alt-Z;
* ISO scan and extraction, the unattend.xml of `wue.c`, parsing and localization: walks over
  trees and texts, whose result is an outcome in `FormatThread` or `Session`;
* `dev.c`, `smart.c`, `pki.c`: calls of the system without state of their own;
* `WriteFileAsync` and `SearchProcessAlt`, which have no caller.

## Plan

1. Extend: `PartitionLayout` and `Fat32` (arithmetic against a reference), the hash table of
   `stdfn.c`, the dialogs in front of the save threads of `vhd.c`.
2. An abstract specification of WriteDrive ("a prefix of the image is on the
   drive, all of it on success") that `WriteImage` and `SectorWrite` implement.
