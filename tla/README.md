# A specification of the fpc9201 fingerprint driver

This directory holds TLA+ models of the driver in `src/src/drv_fpc/` and of the
D-Bus service around it, the TLC runs that check them on small instances, and
proofs checked by TLAPS. `PROJECT.json` maps every definition to the lines it
models, lists the runs, the hazards and the properties that cover them.

## 1. The system

One process serves `net.reactivated.Fprint` on the system bus and drives one
kind of USB reader. It is single-threaded: everything is a task of the jinx
library on one event loop. A task runs from one await to the next without
interruption; libusb, libsystemd (D-Bus), timers and the tasks' own queues
resume it. So every hard behaviour is one of *order*: what else ran between two
awaits of a task, and what a callback finds when it comes late.

| Component (source) | State it keeps | Operations | What makes it hard |
|---|---|---|---|
| **USB lifetime** (`usb_transfer.hpp`; `cleanup_device`, `reopen`, `USBReaper`, `device_attached` of `fpc9201.cpp`) | per handle: a counter of submitted transfers and a closing mark; per transfer: struct, `user_data`, `_pending` | submit, complete, cancel, deferred close, drain, reopen, attach | awaitables die at a cancel, structs live until a kernel callback, handles must outlive both and addresses are used again |
| **Device access** (`WorkerDevice`, `WorkerListen`, `WorkerPolkitGate`) | claim, listener of the claimer, polkit gates, the operation in progress, message queue | `Claim`, `Release`, start/stop, list, delete; NameOwnerChanged; polkit answers | calls are handled one by one but polkit, listeners and departures interleave; calls are queued a second time after authorization |
| **Reader session and scans** (`WorkerControl`, `WorkerEnrollVerify`, `SessionWatchdog`, `WorkerPower`) | `FingerprintStorage` flags (generation, active, sleeping, ready), event and image queues, recovery state | arm, capture, stop, recover, suspend, resume | generations decide what a late image belongs to; teardown empties queues others wait on; suspend, recovery and operations cross |
| **TLS and USB pumps** (`TLSEventReader`, `USBInput`, `USBOutput`, `BIOPipe`) | a BIO pair, TLS state, frame buffers | move bytes, frame events | a failure anywhere must end the session once |
| **Print storage** (`fingerprint.cpp`, `fingerprint.hpp`) | records in memory, one file | insert, delete, verify, save, load | crash between write, sync, rename and directory sync; taking back a failed save |
| **Event framing** (`EventFramer` of `protocol.hpp`) | unread bytes and the length awaited | append, extract | partial and coalesced records, length limits |
| **Enrolment** (`native/enrollment.c`; groups and metrics of `native/fpc_recovered.c`) | captures, their matches, groups, placements, quality, a failure mark | create, add, reject, finish | groups are numbered anew with every capture; a failed add leaves the arrays half grown |
| **Retained graph, matcher, templates** (`native/fpc_recovered.c`) | per template: captures, a triangular array of scores, an order, ages | match, identify, update after a match, serialize, load | four fixed-size arrays that must stay about the same captures; data read back from disk |
| **Image preparation, features, tables** (`native/profile300.c`, `native/fpc_recovered.c`) | none | rank frames, correct defects, filter, normalize, mask, select and describe features | index arithmetic at edges, wraps of fixed-point words |
| **Keys, crypto** (`crypto.*`, `tls_key.hpp`) | none | unwrap the key | (data only) |
| **Manager, hotplug** (`manager.*`, `main.cpp`) | map of devices and their object paths | attach, detach, `GetDevices` | detach while a session runs |
| **Helpers** (`async.hpp`, `inotify.hpp`, ...) | – | – | – |
| **OpenCV matcher, test programs, tools, packaging** | – | – | not part of the driver at run time |

They interact as follows. `WorkerManager`/hotplug creates a `WorkerDevice` and a
`WorkerControl` per reader. `WorkerDevice` starts a `WorkerEnrollVerify` task per
operation. The operation talks to the controller through the *event queue*
(`StartSensor`, `StopSensor`); the controller, the pumps and `WorkerPower` put
their events in the same queue; the controller answers through the *image
queue*. Both also read and write the flags in `FingerprintStorage`. The
controller owns the pumps and the watchdog and, when it ends, `WorkerDevice`.

What makes each one correct:

* USB lifetime: no handle is closed under a transfer, no struct is freed twice
  or leaked, every deferred close happens.
* Device access: nothing that changes prints runs without the authorization of
  that very call; each call is answered once; operations and prompts do not
  outlive the claim they came from; a pending prompt blocks nobody.
* Session: one operation at a time and the controller knows; a capture goes to
  the operation that asked for it; no capture while the system sleeps; recovery
  ends; nobody is left waiting.
* Pumps: however transfers and TLS records cut the stream, its frames arrive
  whole, once and in order; a broken stream is reported and read no further.
* Storage: what is in memory is what is in the file; what was reported done
  survives; nothing unreadable is ever left behind.
* Enrolment: each match is kept for the pair it was made of; the groups are what
  the matches connect; the reference never changes; a rejected scan changes
  nothing; it completes neither early nor beyond its arrays.
* Templates: while one adapts, scores, order and ages stay those of the captures
  it holds, protected captures stay, and the one given up is the one that the
  rule names. A stored template is read as it was written or not at all.
* Native algorithms: matching finds a finger that was moved; what the sensor says
  of its defective pixels does not matter; features are the best there are and
  are described alike however the finger lies.

## 2. Modules

| Module | What it is |
|---|---|
| `UsbLifetime` | transfers, handles and the controller's open/cleanup/reopen cycle |
| `UsbLifetimeProofs` | its safety properties, proved |
| `DeviceAccess` | the device task with gates, listeners and clients |
| `DeviceAccessProofs` | its types and its four safety properties, proved |
| `CaptureSession` | controller, operations, watchdog, power, and the reader |
| `CaptureSessionProofs` | its types and its five safety properties, proved |
| `EventPump` | `USBInput` and `TLSEventReader`, their framers and the pipe between them |
| `EventPumpProofs` | its types, the exactness of both streams, the receive limit and the report of failures, proved |
| `PrintRecords` | the records of the print storage as a value, and what operations make of them |
| `PrintStore` | abstract: what the print storage promises its callers |
| `PrintStorage` | the storage in detail, refining `PrintStore` |
| `PrintStorageProofs` | its safety properties and the refinement, proved |
| `RetainedGraph` | the arrays of a template and the choice of the capture to give up |
| `RetainedGraphProofs` | its places, scores and order, proved; and what other proofs share: induction, recursive functions, sums and windows of them, quotients |
| `KeptCaptures` | abstract: an adapting template as a set of captures, their overlaps and ages |
| `TemplateUpdate` | a template over its life, refining `KeptCaptures` |
| `TemplateUpdateProofs` | its types, its safety properties and the refinement, proved |
| `CaptureGroups` | how matches put captures into groups, and which group is selected |
| `Enrollment` | an enrolment from its first scan to the template |
| `EnrollmentProofs` | its types, matches, end, rejected scans, groups, reference and template, proved; placements, matching and the preparation of images as well |
| `Placements` | where the captures of a group lie, the masks they cover together, area and movement |
| `FeatureMatching` | descriptors, mutual candidates, geometry, identification |
| `ImagePreparation` | ranking of frames, defects, stripes, normalization, mask |
| `CosineTransform` | the fast cosine transform and its tables, and the frequency filter |
| `FeatureSelection` | which points become features |
| `FeatureDescription` | orientation, patch and descriptor of a feature |
| `TemplateFormat` | checksum, writing and reading of a stored template |
| `NativeWork` | how a run goes through given inputs: the variable `work` |
| `LayoutCases`, `MatchingCases`, `ImageCases` | inputs for `Placements`, `FeatureMatching` and `ImagePreparation`, and what holds of them |
| `MCNative` | `Enrollment` on a small instance, with the inputs of those modules and others for the modules above |
| other `MC*` | symmetry sets and the view, for TLC |

In each module, a definition marked *Variant* is the definition after it with a
plausible slip. No behaviour uses variants; replacing the definition by its
variant makes TLC report the property that is meant to notice the slip.

### UsbLifetime

| Variable | Code |
|---|---|
| `opened` | handles between `libusb_open` and `libusb_close` |
| `tracked`, `transfers`, `closing` | the map `pending_usb_handles()` and the fields of its entries |
| `current`, `attached` | `WorkerControl::_handle`; whether a controller task exists |
| `xstate`, `xdev`, `xowner` | a `libusb_transfer`: free, allocated or submitted; `dev_handle`; `user_data` |
| `held`, `pc` | a `USBTransfer` awaitable: `_transfer`; where it is between call and result |
| `reapers` | `USBReaper` tasks |

`allocate`/`submit` are `Call`, then `SubmitOk` or `SubmitFail`. The callback
`resume()` is `TransferDone` for a struct whose awaitable still waits and
`OrphanDone` for one that was cancelled. `Cleanup` is `cleanup_device()`: it
cancels the awaitables, defers or makes the close and starts a reaper. `Reopen`,
`Attach` and `Reap` call `Drain` (`drain_usb_closes`) as the code does. Handles
are addresses: `Reopen` and `Attach` may return one that was closed before,
which is how a stale entry in the map would do harm.
`TransfersAccounted` and `HandlesAccounted` join what concerns transfers (the
counter is exact, each struct has one owner) and handles (none leaks, a deferred
close has a reaper).

### DeviceAccess

The device task is `pc`/`cur`: it runs, or awaits a uid (`get_uid`), or awaits
the reply of a stop before `send_enroll_stop`. `Dispatch` is one round of
`run()`: it takes a message and runs the whole handler up to its next await.
`gates` is `_auth_gates`, with `finished` for a gate whose task is over (denied,
or turned into a tombstone by `drop_auth_gates`). `CheckPolkit` has one disjunct
per branch of `check_polkit`. `listener` is a `WorkerListen` task: its match rule
is being added, installed, or being removed. `Vanish` delivers NameOwnerChanged
only where an installed rule would.

`granted`, `withdrawn`, `acted` and `unwatched` are history variables, read by
properties only. `DoStart` may refuse for reasons outside the module (recovering
reader, bad arguments), so refusal is always possible.

### CaptureSession

`storage` holds the fields of `FingerprintStorage` that tasks share. `ready`
stands for both `reader_ready` and `WorkerControl::_ready`, which the code always
sets together. `scan[o]` is one `WorkerEnrollVerify` task: created but not run
(`born`), waiting on the image queue, in a D-Bus send after which it goes on
(`sendMore`) or stops (`sendLast`), done. `ctl` is `WorkerControl`, its `pc`
naming what it awaits: the delay before a reopen, the initial transfers, an
event (`idle`), the pauses before an arm and before reading an image, a control
transfer (`busy`), or the end of the operation before a recovery (`yield`).
`reader` is the hardware.

Every handler is one action, with `cleanup_device`, `schedule_recovery`,
`begin_recovery` and `notify_operation_failed` as operators on the controller's
next state. A control transfer is begun by one action and ended by
`TransferDone` or `TransferFailed`; a timeout is a failure.

The part of `WorkerDevice` that matters here is small: `StartScan`
(`enroll_verify_start`), `StopScan` (`send_enroll_stop`), `ReleaseScan`
(`release`), `ClaimerGone` (`name_owner_changed`). Each has the conditions of its
handler and no other, except that a stop finds its task begun (see the assumption
on jinx), so a start may follow a stop at once. The operation that was let go of
may then still be alive (`Live`) while `task` is the next one, and everything the
two share can go wrong as it does in the code:

* the late end of the old one (`Finish`) clears `operation_active` and takes a
  generation, whoever they belong to by then;
* the first step of the new one (`Enroll`) resets the image queue, which erases
  what is queued, the stop notice of the old one included, and cancels a get that
  is pending;
* an item put while several gets are pending goes to any of them (`PutImage`), so
  the old one may get a capture and the new one a stop notice.

`got` is what an operation was handed by the queue and has yet to look at: a put
resumes a pending get with the item, and `parse_image` runs later.

### EventPump

`input` and `tls` are the two tasks: what they await (`pc`), the `pending` bytes
of their `EventFramer`, and for `USBInput` the rest of the `body` it is writing.
`Overflows` is the check of `feed()`; `Invalid` and `Whole` are the ways `next()`
ends. `InputDispatch` and `ReaderDispatch` are one call of `dispatch_frames()`
each: it throws, goes on reading, or takes a frame and awaits its `_put_event`
(`dispatch`) or, for an `ev_tls` frame, the writes of its buffers (`write`).
`InputReceive` and `ReaderReceive` take any packet and any part of the plain
text, so every cut is covered. `Respawn` is `cleanup_device()` with the next
`spawn()`. `wire` and `clear` are history: what the tasks have read, which
`BytesExact` parses as one sequence per task (`InputExact`, `ReaderExact`) and
compares with what was put in the queue. The parse knows nothing of framers:
`Starts` lists where frames begin, each behind the one before it, `FrameCount`
says how many are whole and valid, and of their sequence `Plain` are events and
`Bodies` go to TLS.

A cell stands for a run of bytes and the length counts cells; a frame's code and
length are its first two. TLS keeps the order and content of what goes through
the pipe, or fails (`TlsFails`); the records of the handshake are left out.
`events` is the sequence of completed puts of a session and does not show what
the controller has taken from the queue.

### PrintRecords, PrintStore, PrintStorage

The records are a function from user and finger to a registration number and an
opaque template. An operation changes `records`, remembers `before`, and then
`save()` runs one action per system call: `CreateTemp` (with the checks before
it), `WriteTemp`, `SyncTemp`, `Rename`, `SyncDir`; `Fail` is any of the first
four failing, which removes the temporary file and takes the change back. `file`
is what a restart of the process finds; `disk` is the set of contents a restart
after a power loss may find: the versions since the last directory sync, or
garbage (`Torn`) had a file been renamed unsynced. `save()` is synchronous, so no
other operation runs between its steps, but a crash may.

`PrintStore` has no memory, no temporary file and no system calls: prints change
by whole operations or not at all, and a power loss goes back to a whole earlier
version. `PrintStorage` implements it with `prints <- file`, `fallback <- disk`:
the rename is the abstract operation, everything else stutters.

### RetainedGraph, KeptCaptures, TemplateUpdate

`graph` is `fpc_retained_graph` with its arrays, counted from 0 as in C, and
`collection` says which capture sits in which slot. `measured` is history: what
the score of each pair was found to be. A verified scan is `AgeOnly` (it taught
nothing) or `Retain`, with `SelectCapture` as the code's walk over the order.
An update that fails part-way works on a copy the caller throws away, so it is
not a step of the stored template.

`KeptCaptures` knows no slots, order or triangular array: a set of captures, the
overlap of each pair, an age each, and the rule which capture may be replaced (an
aged one first, then the most redundant, protected ones never).
`TemplateUpdate` implements it (`KeepsCaptures`) and its choice is always one
the rule allows, and is none only if the rule allows none (`EvictsByRule`). Where
two captures are equally redundant the rule leaves the choice open.

### CaptureGroups, Enrollment, Placements

`Enrollment` is the session of `native/enrollment.c` with what
`WorkerEnrollVerify::parse_image` makes of its results. `TakeIn` is
`fpc_native_enrollment_add` as a whole: the matches of the new capture with the
earlier ones (any outcome of a small set each) are appended, the groups rebuilt
(`RebuildGroups`), progress computed, and a complete enrolment is finished in the
same step. `Break` is an add that fails on the way: its arrays stay half grown,
and `failed` makes the session of no more use. `Reject` is a scan of too little
quality. `found` is history.

`CaptureGroups` is `fpc_rebuild_capture_groups` without the geometry; the
reference it is compared with is connectivity (`Connected`). `Placements` is that
geometry, for quarter turns and whole pixels: `PlaceCaptures` follows the same
rounds and puts each capture where its matches say, weighed by their inliers;
masks are united on a canvas of bounded size, and area and movement are computed
from them.

### The other native algorithms

Each is a set of operators on small images, captures or streams. The bounds of
loops, the order of effects, widths of words and the treatment of edges are the
code's; sizes are constants. What each promises is an operator for given
inputs, `...Sound`. `LayoutCases`, `MatchingCases` and `ImageCases` name the inputs of
three of them, each with a specification of its own (`LayoutSpec`, `MatchingSpec`,
`ImagesSpec`) whose steps take one input; `MCNative` joins them and has the inputs
of the others. The three do not depend on what recurs or works on bits, so that the
prover can read them.

* `FeatureMatching`: mutual nearest descriptors, the fixed-point motion fitted to
  two sampled pairs, the search with its moving limit, thinning, movement and the
  grant of new members, the score of a template, identification. The sampled pairs
  are an input, since the generator only decides which pairs come when.
* `ImagePreparation`: the box filter and the choice of a frame, correction of
  defects in passes, stripes (`CorrectProjection`), percentile normalization with
  the width of its products, the mask with dilation and erosion, and
  `fpc_profile300_prepare`, which chains them. A corrected pixel is represented by
  the pixels its value is a mean of.
* `CosineTransform`: permutation, twiddles, the stages of the transform, packing
  and unpacking, both directions, and the filter with its padding. All steps are
  linear, so they are modelled over a field of 257 elements with a root of unity of
  order 256: cosines and sines are exact there, and an index, sign or factor that
  is wrong shows as plainly as over the reals. What is left out is rounding.
* `FeatureSelection`: maxima of a response, the two-index quicksort, and the
  selection of the best features of each ninth of an image.
* `FeatureDescription`: angles as bytes, the field of orientations with its
  smoothing and the interpolation, patches and their projection to bits, with the
  code's own fixed-point constants.
* `TemplateFormat`: blocks with tag, length and checksum, the word of flags and the
  limits on captures, capacity and features that reading checks. A cell of a stream holds
  one field; the checksum is the code's with a shorter generator.


### What is assumed of the environment

Code outside `src/` is modelled from how `src/` uses it.

* **jinx.** One loop; steps between awaits are atomic; a put into a queue
  without a limit completes at once and hands its item to a get that is pending, any
  one of them if there are several; the task that awaits it runs later; cancelling a
  task finalizes it and what it awaits before the call returns (the comment at
  `fpc9201.cpp:1961-1964` relies on that); resetting a queue cancels who waits on
  it. A created task takes its first step later, not within the creating call:
  `check_polkit` registers a gate after it has created the gate's task
  (`fpc9201.cpp:1009-1018`), and the task looks itself up there. It takes that
  step before any later bus message is handled.
* **libsystemd.** Messages of one connection are handled and sent in order; the
  comment at `fpc9201.cpp:1307-1311` relies on it. A send finishes within the
  5 s that a recovery waits for an operation.
* **libusb.** A submitted transfer gets one callback, also after a cancel; an
  address may be reused once closed; no two open handles share one.
* **The reader.** It may answer, stay silent, or send any event at any time its
  sensor state allows; it may have latched a touch before it was powered on.
  Aborting drops a pending image.
* **BIO pipe.** Writing to the memory pipe does not fail. (The
  `handle_error` of `USBInput` tells the controller of USB errors only.)
* **File system.** `rename` is atomic for the process; after a power loss a
  directory that was not synced may show any version since it last was, and a
  file that was not synced may hold anything.

## 3. Runs

| Run | Instance | Shows |
|---|---|---|
| `usb_lifetime` | 3 addresses, 4 structs, 3 awaitables, 2 reapers | `NoCloseInFlight`, `TransfersAccounted`, `HandlesAccounted`, `SubmitNeverSeesClosing`, `DeferredCloseHappens` |
| `access_safety` | 2 clients, 4 calls of 7 methods; symmetry | `ActsOnlyIfGranted`, `AnsweredOnce`, `OperationBelongsToClaimer`, `CancelledCheckIsFinal` |
| `access_dispatch` | 2 clients, 3 calls of 5 methods | `DispatchNeverParked`, `DeadClaimerReleased`, `CallsAnswered` |
| `capture_safety` | 2 operations, 2 attempts, 2 touches, 1 fault, 1 sleep; symmetry, view | `ActiveOperationReachable`, `NoCaptureWhileSleeping`, `NeverStuckSuspended`, `LatchedTouchNotDelivered`, `WaitingScanIsServed` |
| `capture_liveness` | 1 operation, 2 attempts, 1 touch, 1 fault, 1 sleep | `RecoverySettles`, `StoppedScanEnds` |
| `event_pump` | 5 cell values, header 2, frames up to 6, buffers of 3, 7 cells a session | `BytesExact`, `FailureIsLast`, `RoomToRead` |
| `print_storage` | 2 users, 2 fingers, 2 templates, 4 registrations, 3 records, 2 versions behind; symmetry | `FileLoads`, `MemoryMatchesFile`, `ReportedIsDurable`, `StoreKept` |
| `template_update` | 4 captures, 3 overlaps, room for 3, 1 protected, enrolled with 1 or 2; symmetry | `ArraysAgree`, `EvictsByRule`, `ProtectedStay`, `KeepsCaptures` |
| `native` | enrolments of up to 5 captures, 2 outcomes of a match; the inputs of `MCNative` | `EnrollmentSound`, `GroupsSound`, `FinishedTemplate`, `ReferenceStays`, `RejectionKeepsProgress`, `MatchingSound`, `ImagesSound`, `FeaturesFound`, `LayoutSound`, `StoredSound` |
| `access_dropped`, `access_tombstone`, `capture_silent` | small | a comment of the code each, refuted (section 5) |

The type invariants (`TypeOK`) of the seven modules with a specification of their
own are proved (section 4) and not checked again.

**Bounds.** *USB*: three addresses let one be the session's, one be closing and
one be reused; four structs leave one in flight from an earlier session while
all three awaitables of the next one hold theirs. `MaxReapers` only keeps the
state finite: a cleanup that would need a third reaper waits. *Access*: four
calls are enough for claim, gated call, release and another client's claim, and
for a re-queued call to wait behind another; calls are what bounds the run.
*Capture*: two operations show a stop, result or teardown of one crossing the
start of the next, with both alive for a while (8.5 million states in about three
minutes). `capture_liveness` has one, as with two a stop notice may be erased (section 5)
and nothing but another stop or the end of the session ends the operation it was for. `MaxTouches`, `MaxFaults`, `MaxSleeps` bound what the
environment does, never what the driver does; one failure during a recovery of
a suspended session is already reached with one fault and one sleep, as a
suspension is itself a session failure. `MaxAttempts` is 6 in the code; 2 has
both outcomes of `schedule_recovery`. *Pumps*: seven cells hold two tunnelled frames, whose bodies hold a frame that is
cut between them; a length may be below the header (1), just a header (2), larger
than a buffer (6) or beyond the limit (20), and a body of four cells takes two
buffers. *Storage*: three of four possible prints
reach the limit of `save()`; registrations go up to the last (`UINT32_MAX` in
the code) and beyond it nothing is inserted; `MaxBehind` versions may be waiting
for a directory sync.
*Template updates*: room for three with one protected leaves a choice of two
victims; ages reach the threshold (9) and the largest value, which is the same,
from the age of an enrolled capture (6). *Enrolment*: five captures make two groups
that a later capture merges, a reference whose group is renumbered, and an early
completion (4) as well as a full one (5); two rejections in a row end it. *Native
inputs*: images of 5 x 5 pixels with a box and margins of one pixel have corners,
edges and an inside; lists of defects hold up to 17 entries, in any order and repeated, with
more defects in a neighbourhood than good pixels; transforms have 8, 16, 32 and
64 points, so the first stage, one and several rounds of butterflies occur;
captures have five features, of which some move otherwise or look alike; the
damage to a stored template is one field changed, the end cut off, or two
neighbouring blocks swapped, at every place.

**Symmetry and view.** Clients, calls, operations, addresses, structs, users,
fingers, templates and captures are only compared for equality, so permuting them
is sound; only runs without liveness properties use it (`usb_lifetime` does not). `capture_safety` also uses
the view `Relative`: a generation is compared for equality with the current one,
or with that of a live operation, and new ones are fresh; so states that agree on
those comparisons have the same futures and satisfy the same invariants.

**Deadlock** is checked for USB, pumps, storage and template updates. In `native`
an enrolment that has ended, and an input that was taken, have no next step. `DeviceAccess` stops when all its
calls are sent and handled, `CaptureSession` when the controller has given up
and the bounded environment has nothing left to do.

**Fairness.** Weak fairness of a step says that the loop runs what is ready. For
the device task it covers the awaits that end by themselves (a reply is sent, a
uid arrives or times out after 5 s). `CallsAnswered` presumes besides that a
polkit check is answered or times out after 120 s (`ChecksEnd`); the other two
properties of `access_dispatch` do without that. For the controller it covers timers and control transfers, which have
timeouts; for the watchdog its 15 s timer. For the USB model it covers the
callback of a *cancelled* transfer and the reaper. Nothing is assumed of
clients, users, the reader, suspend and resume, or of a bulk read that nobody
cancelled.

`DeadClaimerReleased` leaves out clients that vanish before their match rule is
installed: for these no NameOwnerChanged arrives and the claim stays (listed as
a hazard). A `TLS_Ready` that is queued before the watchdog fires but handled
after it counts as a fault, because it resets the attempts; without a bound on
faults a reader that slow could be recovered for ever.

## 4. Proofs

**`UsbLifetimeProofs`** proves, for every set of addresses, structs and
awaitables, type correctness and the four safety properties of `usb_lifetime`, two
of which have two parts each. The
assumptions are those of `UsbLifetime`: the controller's awaitable is one of the
awaitables, the null pointer is none of the objects, structs are finitely many.
None of the properties is inductive alone. `IInv` adds `EntryNeeded` (an entry
exists exactly while it counts something or awaits its close; without it
`defer_usb_close` could close a handle in use), `HeldOnCurrent` (what a live
awaitable holds belongs to the session's handle; this is why `submit` never
meets a closing handle), `FlightsOpen` and `NoSessionUnattached`. Lemmas on
cardinalities (`CountSubmit`, `CountFinish`, `CountKept`) carry the counter, then
there is a lemma per action.

**`CaptureSessionProofs`** proves, for any operations, any number of recovery
attempts and any bounds on the environment, type correctness (so the attempts
stay within `MaxAttempts`) and the five properties of `capture_safety`:
`NoCaptureWhileSleeping`, `ActiveOperationReachable`, `NeverStuckSuspended`,
`LatchedTouchNotDelivered` and `WaitingScanIsServed`. The assumptions are `NoneAssumption` and
`BoundAssumption`. The first property rests on `ArmedGeneration`: generations only
grow (`GenerationGrows`), a sleep takes a new one, and a step arms nothing or the
current generation of a system that is awake (`ArmsAwake`). The second is part of
`ScanInv`, which is about operations that overlap. An operation that is let go of
before it has ended leaves a stop notice underway, and notices only vanish with
the flag: whoever takes one ends and clears it (`ClearedInv`), a reset of the queue
comes with a teardown, which cancels who waits, or with the first step of an
operation the device holds (`BornIsHeld`), which is then the one alive. `StopPut` and
`StopGot` follow a notice through the queue. `DownIsInactive` and `ReopensDown` say
that a session that is down has nobody to tell, so a teardown during a recovery
strands nobody (`CleanupScan`). `SuspendedIsDown` says that
nothing of the last session is left that could make a suspended controller
ready. `NeverStuckSuspended` is inductive relative to that invariant
(`NextResume`).

`LatchedTouchNotDelivered` rests on `LatchInv`, which follows a touch latched at
power-on until its end. The sensor holds it and the controller awaits the first
touch (`LatchHeld`); it is queued, before any other touch (`LatchReported`,
`LatchedFirst`); the controller takes it and marks what comes as stale before it
reads the sensor (`LatchTouched`); its image finds that mark (`LatchRead`). Between
these there is never a second touch the mark could be taken for, because a
session arms its reader only after `TLS_Ready` (`FreshIsUnarmed`) and each answer of the
handshake comes once (`HandshakeOnce`). That no operation gets such an image is then a fact about
hand-overs: in a step the items that are queued or given stay, or one is put, or
one operation takes the next one (`HandsOver`), and what is put was not latched
(`NextDelivered`).

`WaitingScanIsServed` speaks of a moment when nothing is queued, of an operation
that is the only one alive (`Alone`) and whose flag is set. What leads there
is `ServedInv`: while a session is ready and the flag is set, an operation that is alone and waits has its
answer queued or given, or the failure of its session is queued, or it has the current generation
and is served or going to be (`Serving` names each stage of a capture). An operation that was
only created may be of an earlier generation just if the session is failing. The
two conditions are needed, and TLC finds a counterexample when one of them is dropped. The late
end of an operation that was let go of retires the generation of the next one, whose captures are
then ignored until it is stopped (section 5); such an end clears the flag. Before it two
are alive: the old one may take a generation for another capture (`NextCapture`), or wait
although its stop notice was erased. `PendingIsEmpty` (a get is pending only while the queue is
empty) makes an answer that is put reach the one that waits.
`SleepIsTold` is needed beside it: a system that sleeps and a controller that does
not know it yet have a `Suspend` between them.

**`DeviceAccessProofs`** proves, for any clients and any number of calls, whatever
polkit, the users and the bus do, type correctness and the four properties of
`access_safety`. The assumptions are those of `DeviceAccess` (the null value is no
client, call or request). `OnePlace` is the heart: a call that waits in the
queue is there once (`Once`), has no check pending, is not with the device task and is
not answered; an authorized call does wait there. A gate exists only for a call
of a gated method that was sent, so `check_polkit` is the only way from a gate to a
method. `Awaits` says that the sender's uid is asked for before a call is
answered, `Authorizations` that an authorized gate is one polkit granted, also
across that await, and that a withdrawn check has neither gate nor place in the
queue. `QueueCall`, `QueueGone` and `QueueTaken` say what putting and taking a message do
to this, `HandleCases` reduces `handle_message` to five outcomes, and there is a lemma
for each.

**`RetainedGraphProofs`** proves what is true of any retained graph: `PairIndex` gives
every pair of slots a place in the array (`PlaceInArray`) and no two the same one
(`PairsApart`), for every capacity; a new graph has each score in its place
(`CreatedGraph`), and its order is a permutation of the slots by what they overlap
(`OrderPermutes`, `OrderSorts`). `RowsApart` compares two rows of the triangle in
doubled places, which avoids the division. The module also has what this and other
proofs need of definitions that recur. The induction theorems of the library take
an operator and cannot be used; here what is proved by induction is a *set*
(`IntervalInduction`, `SubsetInduction`), and a step of a recursion is a
*function*. From there `RecursionExists` says that a recursion along a
well-founded relation has a solution, `WalkExists` and `FoldExists` are its two
cases, and `SumSplits`, `SumRenamed` and `SumsAgree` are the laws of `SumFunction`. They
give facts of each step of a walk; an induction over the steps, with an invariant
found for the walk, says what its end is.

**`TemplateUpdateProofs`** proves, for any sizes with `SizesAssumption` (room for two
captures at least, ages that can grow to the threshold), any captures and
overlaps, type correctness, `ArraysAgree`, `ProtectedStay`, `EvictsByRule`, and
that `TemplateUpdate` implements `KeptCaptures` (`TemplateKeepsCaptures`). The
inductive invariant is `TInv`: types, `ArraysAgree`, and that the order is a
permutation (`OrderAgrees`; without it a protected slot could come up a second
time in the part of the order that the walk looks at). `WritesItsPairs` and
`RetainKeepsArraysAgree` keep the arrays in step. `WalkFinds` is about the walk of
`SelectCapture`: after each place of the order it holds the best of what it has
seen, an aged slot before all others (`Best`). `SlotRedundancy` and
`NewRedundancy` say that what the code adds up by slots is the redundancy of the
captures in them, so its choice is one of the rule (`WalkByRule`). In the refinement,
`RetainAdopts`, `RetainAges` and `AgeOnlyMatches` map a step of the arrays to one of the set of
captures.

**`EventPumpProofs`** proves, for any sizes with `SizeAssumption` (a header has a
length, a frame can hold a header, a buffer is no larger than a frame), type
correctness, `RoomToRead`, `FailureIsLast` and `BytesExact`. `PartFits` is the heart of the second:
what `next()` leaves for later is shorter than a frame of the maximum length, so
one more buffer stays below the limit of `feed()`. The invariant adds that the
framer of a reader which has not accepted is empty (`Unread`). `PutEvent` carries
the third: a put by a task that has not failed keeps failures last.

`BytesExact` compares the queue and the pipe with a parse of all that was read, and
rests on `CutInv`: each task is at some frame of its stream; the frames before
it are in the queue or went to TLS, and what follows it waits in the framer
(`InputAt`, `ReaderAt`). `Takes` says that what `next()` takes is the next frame of the
stream, `NoMore` that it waits or throws only when no whole frame is left. Reading
more changes the stream that is parsed: `Stable` says that the frames so far
stay what they are whatever follows, `RestGrows` that the new bytes are
appended to what waits. `ReadyInv` puts `TLS_Ready` before the first frame of the reader.
The parse is a walk over the stream; it exists by `RetainedGraphProofs`, and
`StartsFollow` and `CountIs` are the facts of it.

**`PrintStorageProofs`** proves, for any users, fingers, templates, limits and
number of registrations, type correctness, `FileLoads`, `MemoryMatchesFile`,
`ReportedIsDurable`, and that `PrintStorage` implements `PrintStore`
(`StoreKeptHolds`). The assumptions are `RecordsAssumption` (finitely many
users and fingers, limits that are numbers) and `TornAssumption` (garbage is not a version). The
invariant adds what is true within a save: `SaveInProgress` (until the rename
the file holds what the operation started from and would take back), `CountChecked` (only counted
records are written), `TempComplete` (what is renamed is whole and synced),
`Committed` and `DirectoryCurrent` (which versions a power loss may bring back).
`ChangedDistinct` carries "no registration twice" through every operation. In the
refinement `RenameStores` shows the rename to be the abstract operation, and
`StepStores` every other step to be a settling, a power loss or a stutter.

**`EnrollmentProofs`** proves type correctness and the five properties of
`Enrollment`, for any limits with `SizesAssumption`, any smallest size of a group, and
any outcomes of a match with `OutcomeAssumption`. The limits of the code (13 captures,
7 at least, settled from the third on, a template of 32) satisfy the first: a target that is
not zero, a minimum and an early end up to it, and room for the target in the template.
An outcome counts inliers, so they are numbers; `spatial` is a `uint16_t`. The theorems are about `Spec` of
`Enrollment`; the run checks the same definitions.

For `EnrollmentSound` and `RejectionKeepsProgress`, `IInv` says that the matches
are in place (`InPlace`), that a match is known for every pair (`PairsFound`, without
which a good scan could not keep the first), that quality and progress are what
they would be if they were computed anew (`ProgressCurrent`; this is why a rejected
scan, which does compute them anew, changes nothing), and that an enrolment which
goes on has room (`GoingOn`). Two facts of arithmetic carry it: the pairs of earlier captures
come before those of a later one (`PairsGrow`), and a share of 100 % is a share of
all (`ShareOfAll`).

`FinishedTemplate` follows from `IInv` and `TemplateMade` (the template of a
completed enrolment is what `Finish` makes of its matches) with `CreatedGraph` and
`OrderSorts`.

For `GroupsSound`, `GroupsAreComponents` is proved first, for any symmetric weights: after
as many rounds as there are captures, groups are the connected components. The
invariant of the rounds is `Grown`. A group is closed under links before
the next one is begun (`Complete`), what is in a group is connected (`Together`), each
group has a root of its own (`Rooted`), and each round places one capture or there is
none left with a link (`Advanced`). `SortedInv` says that the groups of an enrolment
are made so, and that the selected one holds the reference, as long as no add
failed; `StayTogether` (a further capture adds links and takes none away) keeps the
reference in one group. For `ReferenceStays`, groups are counted:
`GroupsCounted` says that a further capture merges those it matches into one, so
that their number stays just if it matches captures of one group.

`EnrollmentTypeCorrect` uses both invariants: that the numbers of groups stay below the
target is part of what `RebuildSorts` says, also in an add that fails after it has
regrouped.

The same module proves what three of the algorithms promise. `LayoutSound`,
`MatchingSound` and `ImagesSound` speak of the inputs of the run. Each is the last step
of general theorems, which hold for every input of the right type and every value of
the constants; the specifications with the inputs (`LayoutSpec`, `MatchingSpec`,
`ImagesSpec`) then only have to be shown to take such inputs.

*Placements.* The assumptions are `PlacementAssumption` (the canvas is as much wider
and higher than a mask as halves of it need) and `MinGroupAssumption`. Motions form a
group (`ComposeFacts`, `OppositeUndoes`, `ApplyComposed`), so a layout can be seen from
any of its captures. If the matches agree with a layout (`Agreeing`), the mean of the
motions that place a capture is a mean of equal ones (`MeanOfSame`), whichever of its
group were placed before (`PlacedByMatches`); following the rounds of the groups,
`PlacedAsLaid` says where each capture ends. `PlacementsAreSound` adds that a warped
mask is what it covers of the canvas, and that the corners of a capture bound all of
it in each of the four directions (`CornersReach`), which is all that the code looks at for
the bounds of a group. `MetricsAreSound` is about any areas and movements: the weights
of the last pairs add up to the divisor (`WeightsSum`).

*Matching.* The assumption is `MatchingAssumption`; it asks for positive `MinPairs`,
`MinMembers` and threshold, for a quota for buckets from zero on, and for fixed-point words wider
than twice their fraction. `CandidatesAreSound` rests on the symmetry of `Distance` under swapped
halves. `SearchIsSound` has the invariant `Tested` of an iteration: the best so far is what its
motion carries, and no valid sample up to the limit or up to now, whichever is
less, carries more, although the limit is another one after each better motion.
`EnoughIterations` says that the bound of the model on iterations is never what ends a search.
What is kept of the points by thinning is defined along their order
(`ThinnedIs`), which gives the spread (`ThinnedSpaced`). `GeometryIsSound` needs that the list of
pairs has each pair once (`ListedOnce`), so that counts of places are counts of pairs.
`IdentificationIsSound` walks over the templates with the invariant `Known`: each of those before was
compared, scored below the threshold, and left marks on the query. Matching
depends on the features of the query only, not on its marks (`MatchesAlike`,
`CollectionAlike`); this is why matching once more finds the same.

*Preparation of images.* The assumptions are `ImageAssumption` (the filter and the
inner part fit into an image, divisors are positive, and fewer than all pixels are too
dark to count: one in 1000 of the code's) and, for the inputs, `InputsFit`. `DefectsAreSound` has the invariant `Visited`:
what a pixel has become depends on which pixels are listed and not on the visits before,
since a visit takes nothing from a listed pixel (`VisitMeans`); so neither the order of a list
nor a repetition matters. `MaskIsSound` unrolls dilations and erosions into distances
(`DilateTimes`, `ErodeTimes`) and has the mask as what is not near a gap (`MaskIs`).
`FramesAreSound` says of the running sums that they are those of the
windows (`RunningIs`, `BoxIs`), and of the insertion of frame after frame that it
ranks them (`InsertRanks`). `NormalizationIsSound` is arithmetic of quotients; to prove it, the
exception for products that leave their word had to be stated on both sides, as they wrap
below as well as above. In `ProjectionIsSound` all sums and means are shifted by
the brightness (`SumShifted`, `MeanIs`), and turned with the image (`StripedTurns`). `PreparationIsSound`
combines these: what is listed flows into nothing.

Only model-checked:

* `FeaturesFound` and `StoredSound` of `native`. They quantify over the bounded inputs of
  `MCNative`. The first is about `FeatureSelection`, which has a RECURSIVE operator (the
  quicksort), `FeatureDescription` and `CosineTransform` (powers of a root of
  unity, whose order is a fact of numbers rather than a definition), and about the fixed point of a
  fitted motion (`FixedPointSound`), where what is carried along exactly depends on the
  code's constants. The second is about `TemplateFormat`, which uses `Bitwise`. The prover cannot
  work in a module that reaches either, and the checksum finds a change because of the
  polynomial it has, not for every value of it.
* All liveness properties (`DeferredCloseHappens`, `DispatchNeverParked`,
  `DeadClaimerReleased`, `CallsAnswered`, `RecoverySettles`, `StoppedScanEnds`): the prover
  does not reach fairness and ENABLED.

## 5. Where comments and code differ

* `access_dropped`: a comment in `check_polkit` says a re-queued call is dropped
  only after the denial path replied. A call that was authorized and then
  withdrawn by its sender's own `Release` is dropped without any reply.
* `access_tombstone`: the comment of `drop_auth_gates` says a tombstone keeps a
  queued call from spawning a fresh check. Any other gated call prunes finished
  gates, tombstones included; the withdrawn call behind it then gets a fresh
  check.
* `capture_silent`: a comment in `parse_image` says the client is told before
  the session is torn down. `enroll()` empties the image queue in the task's
  first step; a failure notice put there between the task's creation and that
  step is lost, and 5 s later the session is torn down without a word.

None of them lets a call act without authorization (`ActsOnlyIfGranted`) or
leaves the driver stuck (`RecoverySettles`).

Things that no comment contradicts, but that a reader of the code may want to
know; the models have them as they are:

* The inverse cosine transform gives back half of the middle coefficient: at
  `profile300.c:125` it is weighed by cos(pi/4), where the square root of two
  would undo the forward direction. The filter is smooth there, so every image
  has its middle frequency halved, along both axes. `TransformSound` and
  `EnhanceSound` say it that way.
* `fpc_weighted_group_transform` places a capture by composing the transform of an
  earlier one with that of their match, in this order, which is right if transforms
  lead from a capture to the root; `fpc_build_group_mask_union` warps masks as if
  they led from the root to a capture. Both are right as long as the motions commute,
  as shifts do, or a capture matches the root itself. `PlacementsSound` states the
  convention of the code.
* `fpc_retained_graph_reset_age` accepts the slot behind the last one in use; its
  callers never give it that.
* `send_enroll_stop` (`fpc9201.cpp:1374-1377`) lets go of a task before the task has
  read its notice, or while it sends its last signal. A start that is queued by then
  creates the next task, since `enroll_verify_start` looks at `reader_ready`,
  `sleeping` and the task pointer only. The late end of the old task
  (`async_finalize`, lines 218-219) then clears `operation_active` of the new one,
  so a failing session is torn down without waiting for it, and takes a generation,
  after which captures armed for the new one are dropped until its client stops
  it or the session ends. The reset of the image queue at the start of the new one (line 242)
  also erases the notice if the old one has yet to come to it; it then ends by another notice, or when
  a later reset or teardown cancels it. This is why `WaitingScanIsServed` has its two conditions.
* An enrolment that fails in the middle of an add keeps the captures and matches
  added by then. `failed` is all that keeps them from being used.

## 6. Not modelled

* The response planes of the feature detectors and the harris measure, and what
  rounding of floating point does anywhere: the operators take the responses as an
  input, and compare exact or integer values.
* Modes and helpers of the native code that the daemon never calls: defect modes 1
  to 4, `fill_saturated`, resizing, `circle9`, and the payloads of group and
  pair blocks.
* Which random pairs the matcher samples, and failing allocations (they lead to the
  error paths that `Break` and `Refused` stand for).
* Key unwrapping and encryption: functions of their input without state.
* The bytes of D-Bus messages, USB packets and TLS records; logging.
* OpenCV matcher, test programs, tools, packaging: not run by the driver.
* `WorkerManager` and hotplug beyond attach and controller end: a set of object
  paths with two read-only methods.
* `USBOutput`: it sends what TLS wants to write, packet by packet, and frames
  nothing; its failures are events of `CaptureSession`. The report of dead pixels
  and its parsing.

## 7. Plan

Done: `UsbLifetime`, `CaptureSession`, `DeviceAccess`, `EventPump`,
`PrintStorage`, `TemplateUpdate` and `Enrollment`, with proofs of every safety property and
both refinements; the native algorithms, with proofs of placements, matching and the
preparation of images.

Next, in this order:

1. The rest of the native algorithms in the prover's reach: the sort of `FeatureSelection` as
   a recursive function, and the words of `TemplateFormat` without `Bitwise`, for a
   stored stream of any size that is read back.
2. `DeviceSession`: `DeviceAccess` composed with `CaptureSession`, with the end of
   the device task while gates are pending and the reattach after it.
