--------------------------- MODULE CaptureSession ---------------------------
(***************************************************************************)
(* A reader session and the scans that use it: the controller              *)
(* (WorkerControl), the operations (WorkerEnrollVerify), the session       *)
(* watchdog, the suspend listener (WorkerPower) and the part of            *)
(* WorkerDevice that starts, stops and cancels operations (fpc9201.cpp).   *)
(*                                                                         *)
(* Everything runs on one cooperative loop, so a step of a task from one   *)
(* await to the next is atomic and only the order of steps is open. The    *)
(* tasks share two queues, events (to the controller) and images (to the   *)
(* operations), and the fields of FingerprintStorage. What a scan may use  *)
(* is decided by comparing generations: a capture belongs to the           *)
(* operation whose generation was current when the reader was armed.       *)
(*                                                                         *)
(* A stop lets go of an operation before the operation knows: the next one *)
(* may start while it still has its notice to read, or its signal to send. *)
(*                                                                         *)
(* A definition marked "Variant" is the next one with a plausible slip; no *)
(* behaviour uses it, it shows that the properties notice the slip.        *)
(***************************************************************************)
EXTENDS Integers, Sequences, FiniteSets

CONSTANTS
  Op,            \* operations: a WorkerEnrollVerify task each
  MaxAttempts,   \* recovery attempts before the controller gives up (6)
  MaxTouches, MaxFaults, MaxSleeps,   \* bounds: how often the environment acts
  None

ASSUME NoneAssumption  == None \notin Op
ASSUME BoundAssumption == {MaxTouches, MaxFaults, MaxSleeps} \subseteq Nat /\ MaxAttempts \in Nat \ {0}

VARIABLES
  storage,   \* FingerprintStorage: capture_generation, operation_active,
             \* sleeping, and ready (reader_ready, which equals WorkerControl::_ready)
  scan,      \* per operation: where its task is, its _generation, and what it was
             \* given and has yet to look at (_get_image's result), if anything
  task,      \* WorkerDevice::_enroll_verify_task
  ctl,       \* WorkerControl: where it is and its fields
  events,    \* _event_queue
  images,    \* _image_queue
  reader,    \* the hardware: its link, its sensor, touches latched at power-on
  used,      \* how much of the bounds is used up
  silent     \* history: operations that a teardown ended with no word to their client

vars == <<storage, scan, task, ctl, events, images, reader, used, silent>>

Gen == storage.capture_generation

EventTypes == {"InitResult", "TLS_Ready", "FingerDown", "Image", "StartSensor",
               "StopSensor", "TransportFailed", "Suspend", "Resume"}
ImageTypes == {"FingerDown", "Image", "EnrollVerifyStop", "TransportFailed"}

Event(t)      == [type |-> t, latched |-> FALSE]
Touch(t, l)   == [type |-> t, latched |-> l]
Notice(t)     == [type |-> t, gen |-> 0, latched |-> FALSE]
ImageItem     == [type : ImageTypes, gen : Nat, latched : BOOLEAN]

Live(o) == scan[o].pc \notin {"unborn", "done"}
\* Its get is pending in the image queue.
Pending(o) == scan[o].pc = "wait" /\ scan[o].got = <<>>
\* The loop has a step of this operation to run, or its D-Bus send to finish.
Moving(o) == Live(o) /\ ~Pending(o)

\* The guard of every capture step: armed, and for the current generation.
Capturing == ctl.active /\ ctl.gen = Gen

TypeOK ==
  /\ storage \in [capture_generation : Nat, operation_active : BOOLEAN,
                  sleeping : BOOLEAN, ready : BOOLEAN]
  /\ scan \in [Op -> [pc : {"unborn", "born", "wait", "sendMore", "sendLast", "done"},
                     gen : Nat, got : Seq(ImageItem)]]
  /\ task \in Op \cup {None}
  /\ ctl \in [pc : {"reopen", "init", "idle", "arm", "pause", "busy", "yield", "ended"},
              active : BOOLEAN, gen : Nat, awaiting : BOOLEAN, stale : BOOLEAN,
              suspended : BOOLEAN, attempt : 0..MaxAttempts, watchdog : BOOLEAN]
  /\ events \in Seq([type : EventTypes, latched : BOOLEAN])
  /\ images \in Seq(ImageItem)
  /\ reader \in [link : {"down", "booting", "asked", "tls", "up"},
                 sensor : {"off", "armed", "touched", "reading"},
                 latch : BOOLEAN, touch : BOOLEAN]
  /\ used \in [touches : 0..MaxTouches, faults : 0..MaxFaults, sleeps : 0..MaxSleeps]
  /\ silent \in SUBSET Op

LinkDown == [link |-> "down", sensor |-> "off", latch |-> FALSE, touch |-> FALSE]

\* device_attached(): the reader could be opened, or the first recovery starts.
Init ==
  /\ storage = [capture_generation |-> 0, operation_active |-> FALSE,
                sleeping |-> FALSE, ready |-> FALSE]
  /\ scan = [o \in Op |-> [pc |-> "unborn", gen |-> 0, got |-> <<>>]]
  /\ task = None
  /\ \E start \in {"init", "reopen"} :
       ctl = [pc |-> start, active |-> FALSE, gen |-> 0, awaiting |-> FALSE,
              stale |-> FALSE, suspended |-> FALSE, watchdog |-> FALSE,
              attempt |-> IF start = "init" THEN 0 ELSE 1]
  /\ events = <<>> /\ images = <<>>
  /\ reader = LinkDown
  /\ used = [touches |-> 0, faults |-> 0, sleeps |-> 0]
  /\ silent = {}

-----------------------------------------------------------------------------
(* Operations: WorkerEnrollVerify, and WorkerDevice around it. *)

Stopped(s) == [s EXCEPT !.pc = "done", !.got = <<>>]

\* The tasks of gone end: async_finalize() clears the flag, whoever set it, and
\* retires a generation that is still its own (g: the current one by then).
Finish(gone, g) ==
  /\ scan' = [o \in Op |-> IF o \in gone THEN Stopped(scan[o]) ELSE scan[o]]
  /\ storage' = [storage EXCEPT !.operation_active = @ /\ gone = {},
                   !.capture_generation = IF \E o \in gone : scan[o].gen = g THEN g + 1 ELSE g]

\* A put resumes a pending get with the item; without one the item is queued.
PutImage(e) ==
  \/ /\ \A o \in Op : ~Pending(o)
     /\ images' = Append(images, e)
     /\ UNCHANGED scan
  \/ \E o \in Op :
       /\ Pending(o)
       /\ scan' = [scan EXCEPT ![o].got = <<e>>]
       /\ UNCHANGED images

\* wait_image(): the get takes the first item, or is pending. s: the task as it
\* is otherwise.
WaitImage(o, s) ==
  /\ scan' = [scan EXCEPT ![o] = [s EXCEPT !.pc = "wait",
                                    !.got = IF images = <<>> THEN <<>> ELSE <<Head(images)>>]]
  /\ images' = IF images = <<>> THEN <<>> ELSE Tail(images)

\* enroll_verify_start() creates the task and operator() claims a generation.
StartScan(o) ==
  /\ scan[o].pc = "unborn" /\ task = None
  /\ storage.ready /\ ~storage.sleeping
  /\ storage' = [storage EXCEPT !.capture_generation = @ + 1, !.operation_active = TRUE]
  /\ scan' = [scan EXCEPT ![o].pc = "born", ![o].gen = Gen + 1]
  /\ task' = o
  /\ UNCHANGED <<ctl, events, images, reader, used, silent>>

\* enroll(), the task's first step: its reset of the queue cancels a pending get
\* of an operation before it.
Enroll(o) ==
  LET gone == {p \in Op : Pending(p)} IN
  /\ scan[o].pc = "born"
  /\ scan' = [p \in Op |-> IF p \in gone THEN Stopped(scan[p])
                           ELSE IF p = o THEN [scan[p] EXCEPT !.pc = "wait"] ELSE scan[p]]
  /\ storage' = [storage EXCEPT !.operation_active = @ /\ gone = {},
                   !.capture_generation = IF \E p \in gone : scan[p].gen = @ THEN @ + 1 ELSE @]
  /\ images' = <<>>
  /\ events' = Append(events, Event("StartSensor"))
  /\ UNCHANGED <<task, ctl, reader, used, silent>>

\* What parse_image() looks at.
Given(o, t) == scan[o].pc = "wait" /\ scan[o].got # <<>> /\ Head(scan[o].got).type = t

\* parse_image() of a finger-down, or of a capture of another generation.
ParseIgnored(o) ==
  /\ Given(o, "FingerDown") \/ (Given(o, "Image") /\ Head(scan[o].got).gen # scan[o].gen)
  /\ WaitImage(o, scan[o])
  /\ UNCHANGED <<storage, task, ctl, events, reader, used, silent>>

\* parse_image() of a capture: a terminal result, or a retry or a passed stage.
ParseCapture(o) ==
  /\ Given(o, "Image") /\ Head(scan[o].got).gen = scan[o].gen
  /\ \E p \in {"sendLast", "sendMore"} : scan' = [scan EXCEPT ![o].pc = p, ![o].got = <<>>]
  /\ UNCHANGED <<storage, task, ctl, events, images, reader, used, silent>>

\* parse_image() of FPP_TransportFailed: the client is told.
ParseFailure(o) ==
  /\ Given(o, "TransportFailed")
  /\ scan' = [scan EXCEPT ![o].pc = "sendLast", ![o].got = <<>>]
  /\ UNCHANGED <<storage, task, ctl, events, images, reader, used, silent>>

\* Variant: the ending operation does not clear operation_active.
ParseStopStayingActive(o) ==
  /\ Given(o, "EnrollVerifyStop")
  /\ scan' = [scan EXCEPT ![o] = Stopped(@)]
  /\ storage' = [storage EXCEPT !.capture_generation = @ + 1]
  /\ events' = Append(events, Event("StopSensor"))
  /\ UNCHANGED <<task, ctl, images, reader, used, silent>>

\* parse_image() of FPP_EnrollVerifyStop: stops the sensor and ends.
ParseStop(o) ==
  /\ Given(o, "EnrollVerifyStop")
  /\ Finish({o}, Gen + 1)
  /\ events' = Append(events, Event("StopSensor"))
  /\ UNCHANGED <<task, ctl, images, reader, used, silent>>

\* Variant: keeps waiting without arming the reader again.
NextCaptureUnarmed(o) ==
  /\ scan[o].pc = "sendMore"
  /\ storage' = [storage EXCEPT !.capture_generation = @ + 1]
  /\ WaitImage(o, [scan[o] EXCEPT !.gen = Gen + 1])
  /\ UNCHANGED <<task, ctl, events, reader, used, silent>>

\* next_capture(), once the status signal is sent.
NextCapture(o) ==
  /\ scan[o].pc = "sendMore"
  /\ storage' = [storage EXCEPT !.capture_generation = @ + 1]
  /\ WaitImage(o, [scan[o] EXCEPT !.gen = Gen + 1])
  /\ events' = Append(events, Event("StartSensor"))
  /\ UNCHANGED <<task, ctl, reader, used, silent>>

\* stop(), once the terminal status signal is sent.
StopAfterResult(o) ==
  /\ scan[o].pc = "sendLast"
  /\ Finish({o}, Gen + 1)
  /\ events' = Append(events, Event("StopSensor"))
  /\ UNCHANGED <<task, ctl, images, reader, used, silent>>

\* Variant: lets go of the task but tells it nothing.
StopScanSilently ==
  /\ task # None /\ ctl.pc # "ended" /\ scan[task].pc # "born"
  /\ task' = None
  /\ UNCHANGED <<storage, scan, ctl, events, images, reader, used, silent>>

\* send_enroll_stop(), once the reply is sent: back to run(), whatever the
\* operation is at. (It has taken its first step: two replies were sent since.)
StopScan ==
  /\ task # None /\ ctl.pc # "ended" /\ scan[task].pc # "born"
  /\ task' = None
  /\ PutImage(Notice("EnrollVerifyStop"))
  /\ UNCHANGED <<storage, ctl, events, reader, used, silent>>

\* The operation the device holds, if it is still alive.
Held == IF task # None /\ Live(task) THEN {task} ELSE {}

\* release(): the operation is cancelled where it is, the sensor is left as it is.
ReleaseScan ==
  /\ task # None /\ ctl.pc # "ended"
  /\ Finish(Held, Gen)
  /\ task' = None
  /\ UNCHANGED <<ctl, events, images, reader, used, silent>>

Queued(e) == \E i \in DOMAIN events : events[i] = e

\* name_owner_changed(): the operation is cancelled and the queue reset; the sensor
\* is stopped, with or without an operation (one such stop at a time without one,
\* which bounds the queue).
ClaimerGone ==
  /\ ctl.pc # "ended"
  /\ \/ /\ task # None /\ task' = None
        /\ Finish(Held \cup {o \in Op : Pending(o)}, Gen)
        /\ images' = <<>>
     \/ /\ task = None /\ storage.ready /\ ~Queued(Event("StopSensor"))
        /\ UNCHANGED <<scan, storage, task, images>>
  /\ events' = Append(events, Event("StopSensor"))
  /\ UNCHANGED <<ctl, reader, used, silent>>

-----------------------------------------------------------------------------
(* Teardown and recovery in the controller. *)

\* cleanup_device(): the session's tasks and the users of its queues are
\* cancelled, the queues emptied. ends: the controller ends too and cancels the
\* device task, which cancels the operation it holds. (A retired generation is
\* never used again; the second increment of a cancelled scan is left out.)
CleanupDevice(ends) ==
  LET gone == {o \in Op : Pending(o)} \cup IF ends THEN Held ELSE {} IN
  /\ scan' = [o \in Op |-> IF o \in gone THEN Stopped(scan[o]) ELSE scan[o]]
  /\ storage' = [storage EXCEPT !.ready = FALSE, !.capture_generation = @ + 1,
                   !.operation_active = @ /\ gone = {}]
  /\ silent' = silent \cup gone
  /\ events' = <<>> /\ images' = <<>>
  /\ reader' = LinkDown

\* schedule_recovery(): the next attempt, or the end.
Schedule(c) ==
  IF c.attempt >= MaxAttempts THEN [c EXCEPT !.pc = "ended"]
                              ELSE [c EXCEPT !.attempt = @ + 1, !.pc = "reopen"]

\* Variant: keeps the suspension it was told of.
BeginRecoveryKeepingSuspended(c) ==
  LET after == IF c.suspended THEN [c EXCEPT !.pc = "idle"] ELSE Schedule(c) IN
  /\ CleanupDevice(after.pc = "ended")
  /\ ctl' = [after EXCEPT !.active = FALSE, !.watchdog = FALSE]

\* begin_recovery(): asks anew whether the system sleeps, as a Resume may have
\* gone with the events.
BeginRecovery(c) ==
  LET after == IF storage.sleeping THEN [c EXCEPT !.pc = "idle"] ELSE Schedule(c) IN
  /\ CleanupDevice(after.pc = "ended")
  /\ ctl' = [after EXCEPT !.active = FALSE, !.watchdog = FALSE, !.suspended = storage.sleeping]

\* notify_operation_failed(): with an operation active its client comes first.
\* rest: the events that are left.
OperationFailed(c, rest) ==
  \/ /\ storage.operation_active
     /\ storage' = [storage EXCEPT !.ready = FALSE]
     /\ PutImage(Notice("TransportFailed"))
     /\ events' = rest
     /\ ctl' = [c EXCEPT !.pc = "yield"]
     /\ UNCHANGED <<reader, silent>>
  \/ /\ ~storage.operation_active
     /\ BeginRecovery(c)

\* resume_recovery(): once the operation is over, or after 5 s, by when it has
\* run whatever it could.
ResumeRecovery ==
  /\ ctl.pc = "yield"
  /\ storage.operation_active => \A o \in Op : ~Moving(o)
  /\ BeginRecovery(ctl)
  /\ UNCHANGED <<task, used>>

\* reopen() after the delay.
Reopen ==
  /\ ctl.pc = "reopen"
  /\ \/ /\ ctl' = [ctl EXCEPT !.pc = "init"]
        /\ UNCHANGED <<storage, scan, events, images, reader, silent>>
     \/ LET after == Schedule(ctl) IN
        /\ ctl' = IF after.pc = "ended" THEN [after EXCEPT !.active = FALSE] ELSE after
        /\ IF after.pc = "ended" THEN CleanupDevice(TRUE)
           ELSE UNCHANGED <<storage, scan, events, images, reader, silent>>
  /\ UNCHANGED <<task, used>>

\* init() to spawn(): the session's tasks start; or the firmware is not one the
\* driver knows; or a transfer fails.
InitDevice ==
  /\ ctl.pc = "init"
  /\ \/ /\ ctl' = [ctl EXCEPT !.pc = "idle", !.watchdog = TRUE]
        /\ \E l \in BOOLEAN : reader' = [LinkDown EXCEPT !.link = "booting", !.latch = l]
        /\ UNCHANGED <<storage, scan, events, images, silent>>
     \/ ctl' = [ctl EXCEPT !.pc = "ended", !.active = FALSE] /\ CleanupDevice(TRUE)
     \/ OperationFailed(ctl, events)
  /\ UNCHANGED <<task, used>>

-----------------------------------------------------------------------------
(* handle_event() *)

Gets(t) == ctl.pc = "idle" /\ events # <<>> /\ Head(events).type = t
Taken    == events' = Tail(events)

\* get_tls_key, then tls_init.
OnInitResult ==
  /\ Gets("InitResult") /\ Taken
  /\ reader' = [reader EXCEPT !.link = "tls"]
  /\ ctl' = [ctl EXCEPT !.pc = "busy"]
  /\ UNCHANGED <<storage, scan, task, images, used, silent>>

OnTLSReady ==
  /\ Gets("TLS_Ready") /\ Taken
  /\ storage' = [storage EXCEPT !.ready = TRUE]
  /\ ctl' = [ctl EXCEPT !.attempt = 0, !.awaiting = TRUE, !.stale = FALSE, !.pc = "busy"]
  /\ UNCHANGED <<scan, task, images, reader, used, silent>>

\* start_sensor() up to its pause; SubmitArm follows.
StartSensor(c) == [c EXCEPT !.active = TRUE, !.gen = Gen, !.pc = "arm"]

\* Variant: arms whether or not the system goes to sleep.
OnStartSensorAsleep ==
  /\ Gets("StartSensor") /\ Taken
  /\ ctl' = IF storage.ready THEN StartSensor(ctl) ELSE ctl
  /\ UNCHANGED <<storage, scan, task, images, reader, used, silent>>

OnStartSensor ==
  /\ Gets("StartSensor") /\ Taken
  /\ ctl' = IF storage.ready /\ ~storage.sleeping THEN StartSensor(ctl) ELSE ctl
  /\ UNCHANGED <<storage, scan, task, images, reader, used, silent>>

\* stop_sensor(): abort, end of enrolment, end of session.
OnStopSensor ==
  /\ Gets("StopSensor") /\ Taken
  /\ ctl' = [ctl EXCEPT !.active = FALSE, !.pc = IF storage.ready THEN "busy" ELSE @]
  /\ reader' = IF storage.ready THEN [reader EXCEPT !.sensor = "off"] ELSE reader
  /\ UNCHANGED <<storage, scan, task, images, used, silent>>

\* ev_finger_down: the first touch of a session is not trusted when it comes
\* within a second of the arm, as a latched one does.
OnFingerDown ==
  /\ Gets("FingerDown") /\ Taken
  /\ IF ~(storage.ready /\ Capturing) THEN UNCHANGED <<ctl, scan, images>>
     ELSE \E soon \in IF Head(events).latched THEN {TRUE} ELSE BOOLEAN :
            LET stale == ctl.awaiting /\ soon IN
            /\ ctl' = [ctl EXCEPT !.stale = stale, !.awaiting = FALSE, !.pc = "pause"]
            /\ IF stale THEN UNCHANGED <<scan, images>>
               ELSE PutImage([Notice("FingerDown") EXCEPT !.gen = ctl.gen])
  /\ UNCHANGED <<storage, task, reader, used, silent>>

\* Variant: the power-on capture is taken for a scan.
OnImageTrusting ==
  /\ Gets("Image") /\ Taken
  /\ IF ~Capturing THEN UNCHANGED <<ctl, scan, images>>
     ELSE /\ ctl' = [ctl EXCEPT !.active = FALSE]
          /\ PutImage([type |-> "Image", gen |-> ctl.gen, latched |-> Head(events).latched])
  /\ UNCHANGED <<storage, task, reader, used, silent>>

\* ev_image
OnImage ==
  /\ Gets("Image") /\ Taken
  /\ \/ ~Capturing /\ UNCHANGED <<ctl, scan, images>>
     \/ /\ Capturing /\ ctl.stale
        /\ ctl' = StartSensor([ctl EXCEPT !.stale = FALSE])
        /\ UNCHANGED <<scan, images>>
     \/ /\ Capturing /\ ~ctl.stale
        /\ ctl' = [ctl EXCEPT !.active = FALSE]
        /\ PutImage([type |-> "Image", gen |-> ctl.gen, latched |-> Head(events).latched])
  /\ UNCHANGED <<storage, task, reader, used, silent>>

OnTransportFailed ==
  /\ Gets("TransportFailed")
  /\ OperationFailed(ctl, Tail(events))
  /\ UNCHANGED <<task, used>>

OnSuspend ==
  /\ Gets("Suspend")
  /\ OperationFailed([ctl EXCEPT !.suspended = TRUE, !.active = FALSE], Tail(events))
  /\ UNCHANGED <<task, used>>

OnResume ==
  /\ Gets("Resume") /\ Taken
  /\ ctl' = IF ctl.suspended
              THEN [ctl EXCEPT !.suspended = FALSE, !.attempt = 0, !.pc = "reopen"] ELSE ctl
  /\ UNCHANGED <<storage, scan, task, images, reader, used, silent>>

-----------------------------------------------------------------------------
(* The controller between two events. *)

\* submit_arm(), after the pause that keeps arms 100 ms apart.
SubmitArm ==
  /\ ctl.pc = "arm"
  /\ ctl' = [ctl EXCEPT !.pc = IF Capturing THEN "busy" ELSE "idle"]
  /\ reader' = IF Capturing THEN [reader EXCEPT !.sensor = "armed"] ELSE reader
  /\ UNCHANGED <<storage, scan, task, events, images, used, silent>>

\* get_image(), after the pause that keeps captures 200 ms apart.
GetImage ==
  /\ ctl.pc = "pause"
  /\ ctl' = [ctl EXCEPT !.pc = IF Capturing THEN "busy" ELSE "idle"]
  /\ reader' = IF Capturing /\ reader.sensor = "touched"
                 THEN [reader EXCEPT !.sensor = "reading"] ELSE reader
  /\ UNCHANGED <<storage, scan, task, events, images, used, silent>>

\* A control transfer completes, back to get_event().
TransferDone ==
  /\ ctl.pc = "busy"
  /\ ctl' = [ctl EXCEPT !.pc = "idle"]
  /\ UNCHANGED <<storage, scan, task, events, images, reader, used, silent>>

\* A control transfer fails or times out; handle_error().
TransferFailed ==
  /\ ctl.pc = "busy" /\ used.faults < MaxFaults
  /\ OperationFailed(ctl, events)
  /\ used' = [used EXCEPT !.faults = @ + 1]
  /\ UNCHANGED task

\* Variant: asks the wrong way round.
WatchdogInverted ==
  /\ ctl.watchdog
  /\ ctl' = [ctl EXCEPT !.watchdog = FALSE]
  /\ events' = IF storage.ready THEN Append(events, Event("TransportFailed")) ELSE events
  /\ UNCHANGED <<storage, scan, task, images, reader, used, silent>>

\* SessionWatchdog::expired(), 15 s into the session. A TLS_Ready that is queued
\* by then comes too late to save it; as it also resets the attempts, such a
\* reader would be recovered for ever: it counts as a fault.
Watchdog ==
  LET late == ~storage.ready /\ Queued(Event("TLS_Ready")) IN
  /\ ctl.watchdog
  /\ late => used.faults < MaxFaults
  /\ used' = IF late THEN [used EXCEPT !.faults = @ + 1] ELSE used
  /\ ctl' = [ctl EXCEPT !.watchdog = FALSE]
  /\ events' = IF storage.ready THEN events ELSE Append(events, Event("TransportFailed"))
  /\ UNCHANGED <<storage, scan, task, images, reader, silent>>

-----------------------------------------------------------------------------
(* The system and the reader. *)

\* WorkerPower::power_changed()
PowerChanged ==
  LET sleeps == ~storage.sleeping IN
  /\ ctl.pc # "ended"
  /\ sleeps => used.sleeps < MaxSleeps
  /\ used' = IF sleeps THEN [used EXCEPT !.sleeps = @ + 1] ELSE used
  /\ storage' = [storage EXCEPT !.sleeping = sleeps,
                   !.capture_generation = IF sleeps THEN @ + 1 ELSE @]
  /\ events' = Append(events, Event(IF sleeps THEN "Suspend" ELSE "Resume"))
  /\ UNCHANGED <<scan, task, ctl, images, reader, silent>>

Reports(e, r) ==
  /\ events' = Append(events, e)
  /\ reader' = r
  /\ UNCHANGED <<storage, scan, task, ctl, images, silent>>

\* ev_init_result, and later the end of the TLS handshake.
Handshake ==
  /\ \/ reader.link = "booting" /\ Reports(Event("InitResult"), [reader EXCEPT !.link = "asked"])
     \/ reader.link = "tls" /\ Reports(Event("TLS_Ready"), [reader EXCEPT !.link = "up"])
  /\ UNCHANGED used

\* The armed sensor reports a finger: the one latched at power-on or a touch.
FingerTouches ==
  /\ reader.sensor = "armed" /\ used.touches < MaxTouches
  /\ Reports(Touch("FingerDown", reader.latch),
             [reader EXCEPT !.sensor = "touched", !.touch = reader.latch, !.latch = FALSE])
  /\ used' = [used EXCEPT !.touches = @ + 1]

\* The sensor answers get_image.
ImageArrives ==
  /\ reader.sensor = "reading"
  /\ Reports(Touch("Image", reader.touch), [reader EXCEPT !.sensor = "off"])
  /\ UNCHANGED used

\* USBInput, USBOutput, TLSEventReader or an event that makes no sense: the
\* session is reported failed.
TransportFails ==
  /\ reader.link # "down" /\ used.faults < MaxFaults
  /\ Reports(Event("TransportFailed"), reader)
  /\ used' = [used EXCEPT !.faults = @ + 1]

-----------------------------------------------------------------------------
Scan(o) ==
  Enroll(o) \/ ParseIgnored(o) \/ ParseCapture(o) \/ ParseFailure(o) \/ ParseStop(o)
    \/ NextCapture(o) \/ StopAfterResult(o)

Control ==
  \/ ResumeRecovery \/ Reopen \/ InitDevice
  \/ OnInitResult \/ OnTLSReady \/ OnStartSensor \/ OnStopSensor \/ OnFingerDown \/ OnImage
  \/ OnTransportFailed \/ OnSuspend \/ OnResume
  \/ SubmitArm \/ GetImage \/ TransferDone

Environment ==
  PowerChanged \/ Handshake \/ FingerTouches \/ ImageArrives \/ TransportFails \/ TransferFailed

Next ==
  \/ \E o \in Op : StartScan(o) \/ Scan(o)
  \/ StopScan \/ ReleaseScan \/ ClaimerGone
  \/ Control \/ Watchdog
  \/ Environment

\* The loop runs what is ready and its timers; the reader, the user and the
\* system owe nothing.
Fairness == WF_vars(Control) /\ WF_vars(Watchdog) /\ \A o \in Op : WF_vars(Scan(o))

Spec == Init /\ [][Next]_vars /\ Fairness
-----------------------------------------------------------------------------
(* What makes it correct. *)

\* Somebody has yet to read a stop notice.
StopUnderway ==
  \/ \E i \in DOMAIN images : images[i].type = "EnrollVerifyStop"
  \/ \E o \in Op : Given(o, "EnrollVerifyStop")

\* The controller puts off a recovery for whoever operation_active stands for:
\* while the flag is set somebody is alive to clear it, the operation the device
\* holds or, once the device has let go of it, one that a stop notice is yet to
\* reach, however stops, results, cancels, teardowns and next starts cross
\* (notify_operation_failed, async_finalize).
ActiveOperationReachable ==
  storage.operation_active =>
    IF task # None THEN Live(task) ELSE StopUnderway /\ \E o \in Op : Live(o)

\* The reader is not armed while the system sleeps or is about to: no capture
\* step passes its guard between PrepareForSleep and the resume, whatever was
\* queued before (power_changed, StartSensor, next_capture).
NoCaptureWhileSleeping == storage.sleeping => ~Capturing

\* A controller that waits for a Resume will get it: the event is queued, or the
\* teardown under way asks again, although cleanup_device empties the queue the
\* Resume may be in (begin_recovery).
NeverStuckSuspended ==
  ctl.suspended /\ ~storage.sleeping /\ ctl.pc # "ended" =>
    ctl.pc = "yield" \/ Queued(Event("Resume"))

\* A touch latched before the reader was powered on never becomes the capture of
\* an operation (ev_finger_down, ev_image).
LatchedTouchNotDelivered ==
  LET trusted(items) == \A i \in DOMAIN items : items[i].type = "Image" => ~items[i].latched IN
  trusted(images) /\ \A o \in Op : trusted(scan[o].got)

\* Nobody waits on everybody: when an operation waits, nothing is queued and the
\* controller is idle in a ready session, then the reader is armed for it; unless
\* another operation is alive, or ended after this one was created, which the
\* cleared flag shows: such a one retires generations under this one.
WaitingScanIsServed ==
  \A o \in Op :
    /\ Pending(o) /\ storage.operation_active /\ \A p \in Op : Live(p) => p = o
    /\ storage.ready /\ ctl.pc = "idle" /\ events = <<>>
    => Capturing /\ ctl.gen = scan[o].gen /\ reader.sensor # "off"

\* An operation is told that its session failed before the session is torn down
\* (comment in parse_image).
ToldBeforeTeardown == silent = {}

\* A session that is not ready gets ready, or the controller gives up, or it
\* waits for the system to resume (watchdog, schedule_recovery).
RecoverySettles == (~storage.ready) ~> (storage.ready \/ ctl.pc = "ended" \/ storage.sleeping)

\* An operation the device has let go of ends, whether the stop notice reaches
\* it or a teardown empties the queue first (enroll_verify_stop, parse_image).
StoppedScanEnds == \A o \in Op : (Live(o) /\ task # o) ~> ~Live(o)
=============================================================================
