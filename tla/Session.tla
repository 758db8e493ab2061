------------------------------ MODULE Session ------------------------------
(***************************************************************************)
(* win_rufus.c: the main window. One thread handles the messages; it       *)
(* starts threads (boot check, image scan, download, and the format_thread *)
(* that formats, hashes or saves) which set shared globals, call           *)
(* EnableControls and post messages back. A modal box runs a message loop  *)
(* of its own inside the handler that opened it: boxes is the stack of     *)
(* these, and messages go on being handled under them.                     *)
(*                                                                         *)
(* Posted messages are handled before clicks and keys, and a box keeps     *)
(* clicks from the window. What a thread does meanwhile is left to the     *)
(* other modules: here it is the ErrorStatus that it leaves. The checks    *)
(* for updates and for Fido go on beside an operation, and write the same  *)
(* ErrorStatus.                                                            *)
(***************************************************************************)
EXTENDS Integers, Sequences, FiniteSets

CONSTANTS
    Devices,
    MaxOps,      \* how often the user starts an operation
    MaxScans,    \* how often the user selects, drops or downloads an image
    MaxEvents    \* how often a device comes or goes, or a background check
                 \* writes to ErrorStatus

ASSUME SessionAssumption ==
    Devices # {} /\ MaxOps \in Nat /\ MaxScans \in Nat /\ MaxEvents \in Nat

VARIABLES
    \* globals of the program
    format_thread,               \* "null", or what the thread was created for
    op_in_progress,              \* the controls are disabled (EnableControls)
    ErrorStatus,
    zero_drive,
    image_path,                  \* is there one
    no_confirmation_on_cancel,
    cancel_enabled,              \* the button IDCANCEL
    queued_hotplug_event,
    list, selected,              \* hDeviceList: what it shows, its selection
    \* Windows
    posted,                      \* message queue of the main thread
    boxes,                       \* modal boxes it has open, the last on top
    connected,
    refresh_timer,
    closed,
    \* threads that run
    boot_checks, scans_starting, scans, download, workers,
    \* history
    operations, images, events,  \* how often each has happened
    asked_zero,                  \* the user pressed Alt-Z for this operation
    user_cancelled,              \* the user cancelled it
    confirmed,                   \* the drive that its warning (MSG_003) named
    target,                      \* the drive that FormatThread was given
    verdict,                     \* ErrorStatus as its thread left it
    told,                        \* what the user was told of it
    meddled,                     \* what background checks wrote to ErrorStatus
                                 \* during it
    overlap                      \* an image was ever scanned or downloaded beside
                                 \* an operation or another image

controls == <<op_in_progress, cancel_enabled, no_confirmation_on_cancel>>
deviceVars == <<list, selected, queued_hotplug_event, refresh_timer>>
threadVars == <<boot_checks, scans_starting, scans, download, workers>>
countVars == <<operations, images, events>>
opHistory == <<asked_zero, user_cancelled, confirmed, target, verdict, told, meddled>>
vars == <<format_thread, controls, ErrorStatus, zero_drive, image_path,
          deviceVars, posted, boxes, connected, closed, threadVars, countVars,
          opHistory, overlap>>

NoDevice == "none"
Kinds == {"format", "hash", "save"}
Statuses == {"none", "cancelled", "error"}
Messages == {"IDC_START", "START_PROCEED", "START_CANCEL", "START_ERROR",
             "COMPLETED", "COMPLETED_REFRESH", "UM_SELECT_ISO", "WM_DROPFILES"}

\* The window, its queue, its boxes and its threads have their types.
TypeOK ==
    /\ format_thread \in Kinds \cup {"null"}
    /\ op_in_progress \in BOOLEAN /\ ErrorStatus \in Statuses
    /\ zero_drive \in BOOLEAN /\ image_path \in BOOLEAN
    /\ no_confirmation_on_cancel \in BOOLEAN /\ cancel_enabled \in BOOLEAN
    /\ queued_hotplug_event \in BOOLEAN /\ refresh_timer \in BOOLEAN
    /\ list \subseteq Devices /\ connected \subseteq Devices
    /\ selected \in list \cup {NoDevice}
    /\ \A i \in DOMAIN posted : posted[i] \in Messages
    /\ \A i \in DOMAIN boxes : boxes[i] \in {"cancel", "cancel_no", "confirm", "notify"}
    /\ closed \in BOOLEAN /\ download \in {"none", "running", "ending"}
    /\ boot_checks \in 0..MaxOps
    /\ scans_starting \in 0..MaxScans /\ scans \in 0..MaxScans
    /\ workers \in [Kinds -> 0..MaxOps]
    /\ operations \in 0..MaxOps /\ images \in 0..MaxScans /\ events \in 0..MaxEvents
    /\ asked_zero \in BOOLEAN /\ user_cancelled \in BOOLEAN
    /\ {confirmed, target} \subseteq Devices \cup {NoDevice}
    /\ verdict \in Statuses \cup {"open"}
    /\ told \in {"nothing", "ready", "cancelled", "error"}
    /\ meddled \subseteq Statuses /\ overlap \in BOOLEAN

Init ==
    /\ format_thread = "null" /\ op_in_progress = FALSE /\ ErrorStatus = "none"
    /\ zero_drive = FALSE /\ image_path = FALSE
    /\ no_confirmation_on_cancel = FALSE /\ cancel_enabled = TRUE
    /\ queued_hotplug_event = FALSE /\ refresh_timer = FALSE
    /\ connected \in SUBSET Devices /\ list = connected
    /\ IF list = {} THEN selected = NoDevice ELSE selected \in list
    /\ posted = <<>> /\ boxes = <<>> /\ closed = FALSE
    /\ boot_checks = 0 /\ scans_starting = 0 /\ scans = 0
    /\ download = "none" /\ workers = [k \in Kinds |-> 0]
    /\ operations = 0 /\ images = 0 /\ events = 0
    /\ asked_zero = FALSE /\ user_cancelled = FALSE
    /\ confirmed = NoDevice /\ target = NoDevice
    /\ verdict = "open" /\ told = "nothing" /\ meddled = {} /\ overlap = FALSE

-----------------------------------------------------------------------------
Post(m) == posted' = Append(posted, m)
Enabled(enable) == op_in_progress' = ~ enable
Pop == boxes' = SubSeq(boxes, 1, Len(boxes) - 1)
Push(box) == boxes' = Append(boxes, box)
BoxOnTop(box) == boxes # <<>> /\ boxes[Len(boxes)] = box

\* The window takes clicks and keys.
Input == ~ closed /\ posted = <<>> /\ boxes = <<>>

\* Mutant: the selection is kept although its device has gone.
GetDevicesKeepsSelection(devnum, present) ==
    /\ list' = present
    /\ selected' \in (IF devnum # NoDevice THEN {devnum}
                      ELSE IF present = {} THEN {NoDevice} ELSE present)

\* GetDevices(devnum): the list shows what is present; devnum stays selected if it
\* is there, else the first device is.
GetDevices(devnum, present) ==
    /\ list' = present
    /\ selected' \in (IF devnum \in present THEN {devnum}
                      ELSE IF present = {} THEN {NoDevice} ELSE present)

\* UM_MEDIA_CHANGE and the device events of WM_DEVICECHANGE.
MediaChange(present) ==
    IF format_thread # "null" THEN UNCHANGED deviceVars
    ELSE /\ refresh_timer' = FALSE
         /\ IF ~ op_in_progress
            THEN queued_hotplug_event' = FALSE /\ GetDevices(selected, present)
            ELSE queued_hotplug_event' = TRUE /\ UNCHANGED <<list, selected>>

\* A new operation: the history of the last one is dropped.
NewOperation(zero) ==
    /\ asked_zero' = zero /\ user_cancelled' = FALSE
    /\ confirmed' = NoDevice /\ target' = NoDevice
    /\ told' = "nothing" /\ meddled' = {}

-----------------------------------------------------------------------------
\* IDC_START, when no format_thread runs: a thread is created for the boot check,
\* which ends at once when no drive is selected.
StartBootCheck(queue) ==
    /\ Enabled(FALSE)
    /\ no_confirmation_on_cancel' = FALSE
    /\ \/ /\ IF selected = NoDevice
             THEN posted' = Append(queue, "START_CANCEL") /\ UNCHANGED boot_checks
             ELSE posted' = queue /\ boot_checks' = boot_checks + 1
          /\ ErrorStatus' = "none" /\ verdict' = "open"
       \/ /\ ErrorStatus' = "error" /\ verdict' = "error"
          /\ posted' = Append(queue, "COMPLETED")
          /\ UNCHANGED boot_checks

ClickStart ==
    /\ Input /\ ~ op_in_progress /\ selected # NoDevice
    /\ format_thread = "null"
    /\ operations < MaxOps /\ operations' = operations + 1
    /\ NewOperation(FALSE) /\ StartBootCheck(posted)
    /\ UNCHANGED <<format_thread, cancel_enabled, zero_drive, image_path,
                   deviceVars, boxes, connected, closed, scans_starting, scans,
                   download, workers, images, events>>

\* Alt-Z: zero the drive. Start is clicked with a posted message.
PressAltZ ==
    /\ Input /\ ~ op_in_progress
    /\ operations < MaxOps /\ operations' = operations + 1
    /\ zero_drive' = TRUE /\ Post("IDC_START")
    /\ UNCHANGED <<format_thread, controls, ErrorStatus, image_path, deviceVars,
                   boxes, connected, closed, threadVars, images, events, opHistory>>

\* The boot check ends. Its downloads clear ErrorStatus and may leave an error in
\* it that does not keep them from being done without.
BootCheckThread ==
    /\ boot_checks > 0 /\ boot_checks' = boot_checks - 1
    /\ \E ret \in {"START_PROCEED", "START_CANCEL", "START_ERROR"} : Post(ret)
    /\ ErrorStatus' \in {ErrorStatus, "none", "error"}
    /\ UNCHANGED <<format_thread, controls, zero_drive, image_path, deviceVars,
                   boxes, connected, closed, scans_starting, scans, download,
                   workers, countVars, opHistory>>

\* Mutant: the ErrorStatus of the last operation is not cleared.
StartWorkerKeepsStatus(kind) ==
    /\ Input /\ ~ op_in_progress /\ format_thread = "null"
    /\ kind = "hash" => image_path
    /\ operations < MaxOps /\ operations' = operations + 1
    /\ NewOperation(FALSE)
    /\ no_confirmation_on_cancel' = (IF kind = "hash" THEN TRUE ELSE
                                     no_confirmation_on_cancel)
    /\ Enabled(FALSE)
    /\ \/ /\ format_thread' = kind
          /\ workers' = [workers EXCEPT ![kind] = @ + 1]
          /\ verdict' = "open" /\ UNCHANGED <<ErrorStatus, posted>>
       \/ /\ ErrorStatus' = "error" /\ verdict' = "error" /\ Post("COMPLETED")
          /\ UNCHANGED <<format_thread, workers>>
    /\ UNCHANGED <<cancel_enabled, zero_drive, image_path, deviceVars, boxes,
                   connected, closed, boot_checks, scans_starting, scans, download,
                   images, events>>

\* IDC_HASH and IDC_SAVE (or Alt-O): a format_thread at once.
StartWorker(kind) ==
    /\ Input /\ ~ op_in_progress /\ format_thread = "null"
    /\ kind = "hash" => image_path
    /\ operations < MaxOps /\ operations' = operations + 1
    /\ NewOperation(FALSE)
    /\ no_confirmation_on_cancel' = (IF kind = "hash" THEN TRUE ELSE
                                     no_confirmation_on_cancel)
    /\ Enabled(FALSE)
    /\ \/ /\ format_thread' = kind
          /\ workers' = [workers EXCEPT ![kind] = @ + 1]
          /\ ErrorStatus' = "none" /\ verdict' = "open" /\ UNCHANGED posted
       \/ /\ ErrorStatus' = "error" /\ verdict' = "error" /\ Post("COMPLETED")
          /\ UNCHANGED <<format_thread, workers>>
    /\ UNCHANGED <<cancel_enabled, zero_drive, image_path, deviceVars, boxes,
                   connected, closed, boot_checks, scans_starting, scans, download,
                   images, events>>

\* FormatThread, HashThread or a save thread ends with an ErrorStatus of its own
\* or the one that it found; FormatThread clears one that it finds after VDS has
\* failed. Abort in its own boxes is a cancellation too. All but HashThread ask
\* for the devices to be listed again.
WorkerEnds(kind) ==
    /\ workers[kind] > 0 /\ workers' = [workers EXCEPT ![kind] = @ - 1]
    /\ ErrorStatus' \in {ErrorStatus, "error"}
                        \cup (IF kind = "format" THEN {"none", "cancelled"} ELSE {})
    /\ user_cancelled' = (user_cancelled
                          \/ (ErrorStatus' = "cancelled" /\ ErrorStatus # "cancelled"))
    /\ verdict' = ErrorStatus'
    /\ Post(IF kind = "hash" THEN "COMPLETED" ELSE "COMPLETED_REFRESH")
    /\ UNCHANGED <<format_thread, controls, zero_drive, image_path, deviceVars,
                   boxes, connected, closed, boot_checks, scans_starting, scans,
                   download, countVars, asked_zero, confirmed, target, told,
                   meddled>>

-----------------------------------------------------------------------------
\* IDC_SELECT with an image: the thread that scans it. ErrorStatus is cleared
\* whatever runs.
StartScan ==
    /\ image_path' = TRUE
    /\ \/ scans_starting' = scans_starting + 1 /\ ErrorStatus' = "none"
       \/ ErrorStatus' = "error" /\ UNCHANGED scans_starting

ClickSelect ==
    /\ Input /\ ~ op_in_progress
    /\ images < MaxScans /\ images' = images + 1
    /\ StartScan
    /\ UNCHANGED <<format_thread, controls, zero_drive, deviceVars, posted, boxes,
                   connected, closed, boot_checks, scans, download, workers,
                   operations, events, opHistory>>

\* A file is dropped on the window, which accepts it whatever is disabled in it.
DropFile ==
    /\ ~ closed /\ boxes = <<>>
    /\ images < MaxScans /\ images' = images + 1
    /\ Post("WM_DROPFILES")
    /\ UNCHANGED <<format_thread, controls, ErrorStatus, zero_drive, image_path,
                   deviceVars, boxes, connected, closed, threadVars, operations,
                   events, opHistory>>

\* ImageScanThread disables the controls once it runs, if there is an image still,
\* and enables them when it is done. A cancelled or failed scan drops the image.
ScanBegins ==
    /\ scans_starting > 0 /\ scans_starting' = scans_starting - 1
    /\ IF image_path
       THEN scans' = scans + 1 /\ Enabled(FALSE)
       ELSE UNCHANGED <<scans, op_in_progress>>
    /\ UNCHANGED <<format_thread, cancel_enabled, no_confirmation_on_cancel,
                   ErrorStatus, zero_drive, image_path, deviceVars, posted, boxes,
                   connected, closed, boot_checks, download, workers, countVars,
                   opHistory>>

\* ExtractISO records an error if there is none, and the look for a boot marker in a
\* compressed image clears it.
ScanEnds ==
    /\ scans > 0 /\ scans' = scans - 1
    /\ ErrorStatus' \in {ErrorStatus, "none"}
                        \cup (IF ErrorStatus = "none" THEN {"error"} ELSE {})
    /\ \/ ErrorStatus' # "cancelled" /\ UNCHANGED image_path
       \/ image_path' = FALSE
    /\ Enabled(TRUE)
    /\ UNCHANGED <<format_thread, cancel_enabled, no_confirmation_on_cancel,
                   zero_drive, deviceVars, posted, boxes, connected,
                   closed, boot_checks, scans_starting, download, workers,
                   countVars, opHistory>>

\* IDC_SELECT with "DOWNLOAD".
ClickDownload ==
    /\ Input /\ ~ op_in_progress /\ download = "none"
    /\ images < MaxScans /\ images' = images + 1
    /\ \/ Enabled(FALSE) /\ download' = "running" /\ UNCHANGED ErrorStatus
       \/ Enabled(TRUE) /\ ErrorStatus' = "error" /\ UNCHANGED download
    /\ UNCHANGED <<format_thread, cancel_enabled, no_confirmation_on_cancel,
                   zero_drive, image_path, deviceVars, posted, boxes, connected,
                   closed, boot_checks, scans_starting, scans, workers, operations,
                   events, opHistory>>

\* DownloadISOThread has the image, or has failed; ErrorStatus is cleared before
\* each of its downloads.
DownloadDone ==
    /\ download = "running" /\ download' = "ending"
    /\ \/ /\ ErrorStatus # "cancelled"
          /\ image_path' = TRUE /\ Post("UM_SELECT_ISO") /\ ErrorStatus' = "none"
       \/ /\ ErrorStatus' \in {ErrorStatus, "none", "error"}
          /\ UNCHANGED <<image_path, posted>>
    /\ UNCHANGED <<format_thread, controls, zero_drive, deviceVars, boxes,
                   connected, closed, boot_checks, scans_starting, scans, workers,
                   countVars, opHistory>>

\* It leaves with UM_ENABLE_CONTROLS, which is sent, not posted.
DownloadEnds ==
    /\ download = "ending" /\ download' = "none"
    /\ Enabled(TRUE)
    /\ UNCHANGED <<format_thread, cancel_enabled, no_confirmation_on_cancel,
                   ErrorStatus, zero_drive, image_path, deviceVars, posted, boxes,
                   connected, closed, boot_checks, scans_starting, scans, workers,
                   countVars, opHistory>>

-----------------------------------------------------------------------------
\* IDCANCEL while format_thread runs: at once, or after a box; during a boot
\* check, a scan or a download; or as CLOSE, when nothing is in progress.
ClickCancel ==
    /\ Input /\ cancel_enabled
    /\ \/ /\ format_thread # "null"
          /\ cancel_enabled' = FALSE
          /\ no_confirmation_on_cancel' = FALSE
          /\ IF no_confirmation_on_cancel
             THEN /\ ErrorStatus' = "cancelled" /\ user_cancelled' = TRUE
                  /\ UNCHANGED boxes
             ELSE Push("cancel") /\ UNCHANGED <<ErrorStatus, user_cancelled>>
          /\ UNCHANGED closed
       \/ /\ format_thread = "null" /\ op_in_progress
          /\ ErrorStatus' = "cancelled" /\ user_cancelled' = TRUE
          /\ UNCHANGED <<cancel_enabled, no_confirmation_on_cancel, boxes, closed>>
       \/ /\ format_thread = "null" /\ ~ op_in_progress
          /\ closed' = TRUE
          /\ UNCHANGED <<cancel_enabled, no_confirmation_on_cancel, boxes,
                         ErrorStatus, user_cancelled>>
    /\ UNCHANGED <<format_thread, op_in_progress, zero_drive, image_path,
                   deviceVars, posted, connected, threadVars, countVars,
                   asked_zero, confirmed, target, verdict, told, meddled>>

\* The box returns: the operation "may have completed in the meantime".
CancelAnswered ==
    /\ \/ /\ BoxOnTop("cancel")
          /\ \/ /\ format_thread # "null"
                /\ ErrorStatus' = "cancelled" /\ user_cancelled' = TRUE
             \/ /\ format_thread = "null"
                /\ UNCHANGED <<ErrorStatus, user_cancelled>>
          /\ UNCHANGED cancel_enabled
       \/ /\ BoxOnTop("cancel") \/ BoxOnTop("cancel_no")
          /\ cancel_enabled' = TRUE
          /\ UNCHANGED <<ErrorStatus, user_cancelled>>
    /\ Pop
    /\ no_confirmation_on_cancel' = FALSE
    /\ UNCHANGED <<format_thread, op_in_progress, zero_drive, image_path,
                   deviceVars, posted, connected, closed, threadVars, countVars,
                   asked_zero, confirmed, target, verdict, told, meddled>>

\* Mutant: WM_CLOSE ends the application at any time.
CloseAnyTime ==
    /\ Input
    /\ closed' = TRUE
    /\ UNCHANGED <<format_thread, controls, ErrorStatus, zero_drive, image_path,
                   deviceVars, posted, boxes, connected, threadVars, countVars,
                   opHistory>>

\* WM_CLOSE is ignored while an operation is in progress.
CloseWindow ==
    /\ Input /\ ~ op_in_progress
    /\ closed' = TRUE
    /\ UNCHANGED <<format_thread, controls, ErrorStatus, zero_drive, image_path,
                   deviceVars, posted, boxes, connected, threadVars, countVars,
                   opHistory>>

-----------------------------------------------------------------------------
\* A message is taken from the queue, also by the loop of a box.
Message(m) == ~ closed /\ posted # <<>> /\ Head(posted) = m

HandleStart ==
    /\ Message("IDC_START")
    /\ \/ /\ format_thread = "null"
          /\ NewOperation(TRUE) /\ StartBootCheck(Tail(posted))
       \/ /\ format_thread # "null"
          /\ posted' = Tail(posted)
          /\ UNCHANGED <<op_in_progress, no_confirmation_on_cancel, ErrorStatus,
                         boot_checks, opHistory>>
    /\ UNCHANGED <<format_thread, cancel_enabled, zero_drive, image_path,
                   deviceVars, boxes, connected, closed, scans_starting, scans,
                   download, workers, countVars>>

\* UM_FORMAT_START after a boot check that lets it proceed: "ALL DATA ON DEVICE
\* ... WILL BE DESTROYED" names the selected drive.
AskToProceed ==
    /\ Message("START_PROCEED") /\ posted' = Tail(posted)
    /\ Push("confirm") /\ confirmed' = selected
    /\ UNCHANGED <<format_thread, controls, ErrorStatus, zero_drive, image_path,
                   deviceVars, connected, closed, threadVars, countVars,
                   asked_zero, user_cancelled, target, verdict, told, meddled>>

\* Mutant: zero_drive survives a cancelled start.
AbortedKeepsZero ==
    /\ IF queued_hotplug_event THEN MediaChange(connected)
       ELSE UNCHANGED deviceVars
    /\ Enabled(TRUE)
    /\ UNCHANGED zero_drive

\* Mutant: the controls stay disabled after a cancelled start.
AbortedStaysDisabled ==
    /\ zero_drive' = FALSE
    /\ IF queued_hotplug_event THEN MediaChange(connected)
       ELSE UNCHANGED deviceVars
    /\ UNCHANGED op_in_progress

\* aborted_start: of a cancelled start. A queued hotplug event is handled before
\* the controls are enabled, and so is only queued again.
AbortedStart ==
    /\ zero_drive' = FALSE
    /\ IF queued_hotplug_event THEN MediaChange(connected)
       ELSE UNCHANGED deviceVars
    /\ Enabled(TRUE)

StartCancelled ==
    /\ Message("START_CANCEL") /\ posted' = Tail(posted)
    /\ AbortedStart
    /\ UNCHANGED <<format_thread, cancel_enabled, no_confirmation_on_cancel,
                   ErrorStatus, image_path, boxes, connected, closed, threadVars,
                   countVars, opHistory>>

\* The user declines, or agrees and format_thread is created for the drive that is
\* selected now. A thread that cannot be created is an error and, below it, a
\* cancelled start.
ConfirmAnswered ==
    /\ BoxOnTop("confirm") /\ Pop
    /\ \/ /\ AbortedStart
          /\ UNCHANGED <<format_thread, ErrorStatus, posted, workers, target, verdict>>
       \/ /\ format_thread' = "format"
          /\ workers' = [workers EXCEPT !["format"] = @ + 1]
          /\ target' = selected
          /\ UNCHANGED <<op_in_progress, zero_drive, ErrorStatus, posted,
                         deviceVars, verdict>>
       \/ /\ format_thread' = "null"
          /\ ErrorStatus' = "error" /\ verdict' = "error"
          /\ Post("COMPLETED")
          /\ AbortedStart
          /\ UNCHANGED <<workers, target>>
    /\ UNCHANGED <<cancel_enabled, no_confirmation_on_cancel, image_path, connected,
                   closed, boot_checks, scans_starting, scans, download, countVars,
                   asked_zero, user_cancelled, confirmed, told, meddled>>

\* UM_FORMAT_COMPLETED: an open cancel box is answered with No, the controls come
\* back, the devices are listed again if asked for, and the user is told what
\* status says, in a box unless it is "READY".
Completed(status, refresh) ==
    /\ zero_drive' = FALSE /\ format_thread' = "null"
    /\ cancel_enabled' = TRUE /\ Enabled(TRUE)
    /\ IF refresh THEN GetDevices(selected, connected) ELSE UNCHANGED <<list, selected>>
    /\ told' = (IF status = "none" THEN "ready" ELSE status)
    /\ ErrorStatus' = status
    /\ LET under == [i \in DOMAIN boxes |->
                        IF boxes[i] = "cancel" THEN "cancel_no" ELSE boxes[i]]
       IN  boxes' = IF status = "none" THEN under ELSE Append(under, "notify")

HandleCompleted ==
    /\ \/ Message("COMPLETED") /\ Completed(ErrorStatus, FALSE)
       \/ Message("COMPLETED_REFRESH") /\ Completed(ErrorStatus, TRUE)
    /\ posted' = Tail(posted)
    /\ UNCHANGED <<no_confirmation_on_cancel, image_path, queued_hotplug_event,
                   refresh_timer, connected, closed, threadVars, countVars,
                   asked_zero, user_cancelled, confirmed, target, verdict,
                   meddled>>

\* The boot check failed: aborted_start falls through to UM_FORMAT_COMPLETED.
StartFailed ==
    /\ Message("START_ERROR") /\ posted' = Tail(posted)
    /\ Completed("error", TRUE)
    /\ verdict' = "error"
    /\ refresh_timer' = (IF queued_hotplug_event THEN FALSE ELSE refresh_timer)
    /\ UNCHANGED <<no_confirmation_on_cancel, image_path, queued_hotplug_event,
                   connected, closed, threadVars, countVars, asked_zero,
                   user_cancelled, confirmed, target, meddled>>

\* The box of UM_FORMAT_COMPLETED returns, and the handler ends.
NotifyClosed ==
    /\ BoxOnTop("notify") /\ Pop
    /\ ErrorStatus' = "none"
    /\ UNCHANGED <<format_thread, controls, zero_drive, image_path, deviceVars,
                   posted, connected, closed, threadVars, countVars, opHistory>>

\* UM_SELECT_ISO, and WM_DROPFILES when no format_thread runs.
HandleSelect ==
    /\ \/ Message("UM_SELECT_ISO") /\ StartScan
       \/ Message("WM_DROPFILES") /\ format_thread = "null" /\ StartScan
       \/ /\ Message("WM_DROPFILES") /\ format_thread # "null"
          /\ UNCHANGED <<image_path, scans_starting, ErrorStatus>>
    /\ posted' = Tail(posted)
    /\ UNCHANGED <<format_thread, controls, zero_drive, deviceVars, boxes,
                   connected, closed, boot_checks, scans, download, workers,
                   countVars, opHistory>>

-----------------------------------------------------------------------------
\* A device comes or goes. Windows tells with an event of the device, or with
\* nothing but DBT_DEVNODES_CHANGED, which arms a timer, unless an image is scanned
\* or the list has just been refreshed.
HotPlug ==
    /\ ~ closed
    /\ events < MaxEvents /\ events' = events + 1
    /\ \E d \in Devices :
           connected' = IF d \in connected THEN connected \ {d} ELSE connected \cup {d}
    /\ \/ MediaChange(connected')
       \/ /\ refresh_timer' \in {refresh_timer,
                                 format_thread = "null" /\ scans_starting + scans = 0}
          /\ UNCHANGED <<list, selected, queued_hotplug_event>>
    /\ UNCHANGED <<format_thread, controls, ErrorStatus, zero_drive, image_path,
                   posted, boxes, closed, threadVars, operations, images, opHistory>>

RefreshTimer ==
    /\ ~ closed /\ refresh_timer /\ posted = <<>>
    /\ format_thread = "null"
    /\ MediaChange(connected)
    /\ UNCHANGED <<format_thread, controls, ErrorStatus, zero_drive, image_path,
                   posted, boxes, connected, closed, threadVars, countVars, opHistory>>

\* The checks for updates and for Fido, which wait for no operation to end, or only
\* before they begin, write to ErrorStatus: every download of theirs clears it when it
\* starts, and leaves an error in it when it gets less than the whole file. The
\* download of a new version, which the user may be offered during an operation, does
\* the same, and can be aborted.
BackgroundCheck ==
    /\ ~ closed
    /\ events < MaxEvents /\ events' = events + 1
    /\ ErrorStatus' \in {"none", "error", "cancelled"}
    /\ meddled' = meddled \cup {ErrorStatus'}
    /\ UNCHANGED <<format_thread, controls, zero_drive, image_path, deviceVars,
                   posted, boxes, connected, closed, threadVars, operations, images,
                   asked_zero, user_cancelled, confirmed, target, verdict, told>>

\* IDC_DEVICE
SelectDevice ==
    /\ Input /\ ~ op_in_progress
    /\ selected' \in list \ {selected}
    /\ UNCHANGED <<format_thread, controls, ErrorStatus, zero_drive, image_path,
                   list, queued_hotplug_event, refresh_timer, posted, boxes,
                   connected, closed, threadVars, countVars, opHistory>>

-----------------------------------------------------------------------------
Count(box) == Cardinality({i \in DOMAIN boxes : boxes[i] = box})

Posted(m) == Cardinality({i \in DOMAIN posted : posted[i] = m})

\* Where an operation can be between the click and the report: on its way to a
\* thread, given up, in a thread, or on its way back.
Starting == boot_checks + Posted("START_PROCEED") + Count("confirm")
Failed == Posted("START_CANCEL") + Posted("START_ERROR")
Working == workers["format"] + workers["hash"] + workers["save"]
Reports == Posted("COMPLETED") + Posted("COMPLETED_REFRESH")

Operations == Starting + Failed + Working + Reports

\* What can run beside an operation: scans of images, and a download.
ImageThreads == scans_starting + scans + (IF download = "none" THEN 0 ELSE 1)

\* One of these runs beside an operation, or beside another one.
SideBySide == ImageThreads > 0 /\ Operations + ImageThreads > 1

User == ClickStart \/ PressAltZ \/ (\E k \in {"hash", "save"} : StartWorker(k))
        \/ ClickSelect \/ DropFile \/ ClickDownload \/ ClickCancel \/ CloseWindow
        \/ SelectDevice

Threads == BootCheckThread \/ (\E k \in Kinds : WorkerEnds(k)) \/ ScanBegins
           \/ ScanEnds \/ DownloadDone \/ DownloadEnds

MainThread == HandleStart \/ AskToProceed \/ StartCancelled \/ StartFailed
              \/ ConfirmAnswered \/ HandleCompleted \/ NotifyClosed \/ HandleSelect
              \/ CancelAnswered \/ RefreshTimer

Closed == closed /\ UNCHANGED vars

Noted(A) == A /\ overlap' = (overlap \/ SideBySide')
ThreadStep == ~ closed /\ Noted(Threads)
MainStep == ~ closed /\ Noted(MainThread)

Next == Noted(User) \/ Noted(HotPlug) \/ ThreadStep \/ MainStep
        \/ Noted(BackgroundCheck) \/ Closed

\* Threads are scheduled and come to an end; the main thread handles messages, and
\* its boxes are answered.
Spec == Init /\ [][Next]_vars /\ WF_vars(ThreadStep) /\ WF_vars(MainStep)

-----------------------------------------------------------------------------
\* Unless an image was scanned or downloaded beside it, an operation is alone: the
\* controls stay disabled from Start to the report, so that no other one can be
\* started, no cheat mode is enacted, and the window cannot be closed on it.
OperationIsAlone ==
    ~ overlap => /\ Operations <= 1
                 /\ (Operations > 0 /\ Posted("COMPLETED") = 0) => op_in_progress
                 /\ closed => Operations = 0

\* What the user is told of an operation is what its thread came to: "READY" if it
\* left no error, a cancellation only if it was the user who cancelled this very
\* operation, an error only if there was one; cancel boxes that are answered late and
\* errors of earlier operations do not interfere. What does is a background check that
\* writes to ErrorStatus during the operation, and then only with the status that it
\* wrote: it can hide an error behind "READY" or make one up.
ToldWhatHappened ==
    ~ overlap =>
        /\ told = "ready" => verdict = "none" \/ "none" \in meddled
        /\ told = "cancelled" => user_cancelled \/ "cancelled" \in meddled
        /\ told = "error" => verdict = "error" \/ "error" \in meddled

\* The drive that is formatted is the one that the warning named, and it is zeroed
\* only if that is what the user asked for, whatever is plugged meanwhile.
FormatsWhatWasConfirmed ==
    (~ overlap /\ format_thread = "format") =>
        /\ target = confirmed /\ target # NoDevice
        /\ zero_drive = asked_zero

\* However an operation, a scan or a download goes, the controls come back.
ControlsComeBack == op_in_progress ~> (~ op_in_progress \/ closed)
=============================================================================
