------------------------ MODULE CaptureSessionProofs ------------------------
(***************************************************************************)
(* Safety of CaptureSession for any operations, any number of recovery     *)
(* attempts and any behaviour of the reader, the users and the system.     *)
(***************************************************************************)
EXTENDS CaptureSession, TLAPS

\* An operation that has yet to take its first step is the one the device holds.
BornIsHeld == \A o \in Op : scan[o].pc = "born" => task = o

\* A session that is down has nobody to tell, unless one is given time to end.
DownIsInactive == ~storage.ready /\ ctl.pc # "yield" => ~storage.operation_active

\* The controller reopens only what is down.
ReopensDown == ctl.pc \in {"reopen", "init"} => ~storage.ready /\ ~ctl.suspended

\* No event is queued that brings a session on.
Quiet == \A i \in DOMAIN events : events[i].type \notin {"InitResult", "TLS_Ready"}

\* A suspended controller is down and idle, and nothing of its last session is
\* left that could make it ready.
SuspendedIsDown ==
  ctl.suspended =>
    /\ ~storage.ready
    /\ ctl.pc # "yield" =>
         /\ ctl.pc = "idle" /\ ~ctl.active
         /\ reader.link = "down"
         /\ Quiet

\* No generation is armed that is still to come, and none that is current while
\* the system sleeps.
ArmedGeneration ==
  /\ ctl.gen <= Gen
  /\ NoCaptureWhileSleeping

ScanInv == ActiveOperationReachable /\ BornIsHeld /\ DownIsInactive /\ ReopensDown /\ SuspendedIsDown

IInv == TypeOK /\ ScanInv /\ ArmedGeneration
-----------------------------------------------------------------------------
(* Types. *)

\* device_attached() leaves every field typed.
LEMMA InitType == Init => TypeOK
  BY BoundAssumption, NoneAssumption DEF Init, TypeOK, LinkDown

\* What the queue operations keep of the type of a queue.
LEMMA SeqFacts ==
  ASSUME NEW S, NEW s \in Seq(S)
  PROVE  /\ <<>> \in Seq(S)
         /\ \A e \in S : Append(s, e) \in Seq(S)
         /\ s # <<>> => Head(s) \in S /\ Tail(s) \in Seq(S)
  OBVIOUS

StorageType == [capture_generation : Nat, operation_active : BOOLEAN, sleeping : BOOLEAN, ready : BOOLEAN]
Progress    == {"unborn", "born", "wait", "sendMore", "sendLast", "done"}
CtlType     == [pc : {"reopen", "init", "idle", "arm", "pause", "busy", "yield", "ended"},
                active : BOOLEAN, gen : Nat, awaiting : BOOLEAN, stale : BOOLEAN,
                suspended : BOOLEAN, attempt : 0..MaxAttempts, watchdog : BOOLEAN]
ReaderType  == [link : {"down", "booting", "asked", "tls", "up"},
                sensor : {"off", "armed", "touched", "reading"}, latch : BOOLEAN, touch : BOOLEAN]
EventType  == [type : EventTypes, latched : BOOLEAN]
TaskType   == [pc : Progress, gen : Nat, got : Seq(ImageItem)]
ScanType   == [Op -> TaskType]

\* The constructors of events and notices.
LEMMA MessageTypes ==
  /\ \A e \in EventTypes : Event(e) \in EventType
  /\ \A e \in EventTypes, l \in BOOLEAN : Touch(e, l) \in EventType
  /\ \A e \in ImageTypes : Notice(e) \in ImageItem
  BY DEF Event, Touch, Notice, EventType, ImageItem

\* Pushing to and popping from _event_queue and _image_queue.
LEMMA QueueTypes ==
  ASSUME TypeOK
  PROVE  /\ events \in Seq(EventType) /\ images \in Seq(ImageItem)
         /\ <<>> \in Seq(EventType) /\ <<>> \in Seq(ImageItem)
         /\ \A e \in EventTypes : Append(events, Event(e)) \in Seq(EventType)
         /\ \A e \in EventTypes, l \in BOOLEAN : Append(events, Touch(e, l)) \in Seq(EventType)
         /\ events # <<>> => Head(events) \in EventType /\ Tail(events) \in Seq(EventType)
         /\ \A n \in ImageItem : Append(images, n) \in Seq(ImageItem)
         /\ \A e \in ImageTypes : Append(images, Notice(e)) \in Seq(ImageItem)
         /\ images # <<>> => Tail(images) \in Seq(ImageItem)
  <1>1. events \in Seq(EventType) /\ images \in Seq(ImageItem)
    BY DEF TypeOK, EventType, ImageItem
  <1> HIDE DEF EventType, ImageItem
  <1>2. QED
    BY <1>1, SeqFacts, MessageTypes

\* What every step of the controller changes is typed.
ControlType ==
  /\ storage \in StorageType /\ scan \in ScanType /\ ctl \in CtlType
  /\ events \in Seq(EventType) /\ images \in Seq(ImageItem)
  /\ reader \in ReaderType /\ silent \in SUBSET Op

\* TypeOK gives it.
LEMMA TypeControl == TypeOK => ControlType
  BY DEF TypeOK, ControlType, StorageType, ScanType, TaskType, Progress, CtlType, EventType, ReaderType

\* A step that is typed there, and counts at most a fault, keeps TypeOK.
LEMMA ControlTypeOK ==
  ASSUME TypeOK, ControlType', task' = task \/ task' \in Op \cup {None},
         \/ used' = used
         \/ used.faults < MaxFaults /\ used' = [used EXCEPT !.faults = @ + 1]
  PROVE  TypeOK'
  <1>1. used' \in [touches : 0..MaxTouches, faults : 0..MaxFaults, sleeps : 0..MaxSleeps]
    <2>1. used \in [touches : 0..MaxTouches, faults : 0..MaxFaults, sleeps : 0..MaxSleeps] /\ MaxFaults \in Nat
      BY BoundAssumption DEF TypeOK
    <2>2. QED
      BY <2>1
  <1>2. task' \in Op \cup {None}
    BY DEF TypeOK
  <1>3. QED
    BY <1>1, <1>2 DEF TypeOK, ControlType, StorageType, ScanType, TaskType, Progress, CtlType, EventType, ReaderType

\* The operations by their fields.
LEMMA ScanTyped == TypeOK => scan \in ScanType /\ DOMAIN scan = Op
  BY DEF TypeOK, ScanType, TaskType, Progress

\* The fields of an operation, and those of one that ends.
LEMMA TaskFacts ==
  ASSUME TypeOK, NEW o \in Op
  PROVE  /\ scan[o] \in TaskType
         /\ scan[o].pc \in Progress /\ scan[o].gen \in Nat /\ scan[o].got \in Seq(ImageItem)
         /\ Stopped(scan[o]) \in TaskType
         /\ Stopped(scan[o]).pc = "done" /\ Stopped(scan[o]).got = <<>> /\ Stopped(scan[o]).gen = scan[o].gen
  <1>1. scan[o] \in TaskType
    BY ScanTyped DEF ScanType
  <1>2. <<>> \in Seq(ImageItem)
    OBVIOUS
  <1> HIDE DEF ImageItem
  <1>3. QED
    BY <1>1, <1>2 DEF TaskType, Progress, Stopped

\* One item.
LEMMA OneItem ==
  ASSUME NEW e \in ImageItem
  PROVE  <<e>> \in Seq(ImageItem) /\ <<e>> # <<>> /\ Head(<<e>>) = e
  <1> HIDE DEF ImageItem
  <1>1. QED
    OBVIOUS

\* The operations of gone end, the others go on.
Ends(gone) == scan' = [o \in Op |-> IF o \in gone THEN Stopped(scan[o]) ELSE scan[o]]

\* What that leaves of each.
LEMMA EndsFacts ==
  ASSUME TypeOK, NEW gone, Ends(gone)
  PROVE  /\ scan' \in ScanType
         /\ \A p \in Op : p \in gone => scan'[p] = Stopped(scan[p]) /\ ~Live(p)'
         /\ \A p \in Op : p \notin gone => scan'[p] = scan[p] /\ (Live(p)' <=> Live(p))
  <1>1. \A p \in Op : /\ p \in gone => scan'[p] = Stopped(scan[p])
                      /\ p \notin gone => scan'[p] = scan[p]
    BY DEF Ends
  <1>2. \A p \in Op : scan[p] \in TaskType /\ Stopped(scan[p]) \in TaskType /\ Stopped(scan[p]).pc = "done"
    BY TaskFacts
  <1>3. scan' \in ScanType
    BY <1>2 DEF Ends, ScanType
  <1>4. QED
    BY <1>1, <1>2, <1>3 DEF Live

\* The end of operations, with the generation that retires.
LEMMA FinishType ==
  ASSUME TypeOK, NEW gone, NEW g \in Nat, Finish(gone, g)
  PROVE  /\ storage' \in StorageType /\ scan' \in ScanType /\ Ends(gone)
         /\ storage'.ready = storage.ready /\ storage'.sleeping = storage.sleeping
         /\ storage'.operation_active = (storage.operation_active /\ gone = {})
         /\ Gen' = (IF \E o \in gone : scan[o].gen = g THEN g + 1 ELSE g)
  <1>1. Ends(gone)
    BY DEF Finish, Ends
  <1> DEFINE h == IF \E o \in gone : scan[o].gen = g THEN g + 1 ELSE g
             b == storage.operation_active /\ gone = {}
  <1>2. h \in Nat /\ b \in BOOLEAN
    BY DEF TypeOK
  <1>3. storage' = [storage EXCEPT !.operation_active = b, !.capture_generation = h]
    BY DEF Finish, TypeOK
  <1> HIDE DEF h, b
  <1>4. /\ storage' \in StorageType /\ storage'.ready = storage.ready /\ storage'.sleeping = storage.sleeping
        /\ storage'.operation_active = b /\ Gen' = h
    BY <1>2, <1>3 DEF TypeOK, StorageType, Gen
  <1>5. QED
    BY <1>1, <1>4, EndsFacts DEF h, b

\* What a put leaves: the item is in the queue, or one pending get has it.
LEMMA PutFacts ==
  ASSUME TypeOK, NEW e \in ImageItem, PutImage(e)
  PROVE  /\ scan' \in ScanType /\ images' \in Seq(ImageItem)
         /\ \A p \in Op : scan'[p].pc = scan[p].pc /\ scan'[p].gen = scan[p].gen /\ (Live(p)' <=> Live(p))
         /\ \/ (\A p \in Op : ~Pending(p)) /\ scan' = scan /\ images' = Append(images, e)
            \/ \E o \in Op :
                 /\ Pending(o) /\ scan'[o].got = <<e>> /\ images' = images
                 /\ \A p \in Op : p # o => scan'[p] = scan[p]
  <1>1. images \in Seq(ImageItem) /\ Append(images, e) \in Seq(ImageItem)
    BY QueueTypes
  <1> HIDE DEF ImageItem
  <1>2. CASE (\A p \in Op : ~Pending(p)) /\ images' = Append(images, e) /\ scan' = scan
    BY <1>1, <1>2, ScanTyped DEF Live
  <1>3. ASSUME NEW o \in Op, Pending(o), scan' = [scan EXCEPT ![o].got = <<e>>], images' = images
        PROVE  /\ scan' \in ScanType /\ scan'[o].got = <<e>>
               /\ \A p \in Op : /\ scan'[p].pc = scan[p].pc /\ scan'[p].gen = scan[p].gen /\ (Live(p)' <=> Live(p))
                                /\ p # o => scan'[p] = scan[p]
    <2>1. DOMAIN scan = Op /\ scan \in ScanType /\ scan[o] \in TaskType /\ <<e>> \in Seq(ImageItem)
      BY <1>3, ScanTyped, TaskFacts, OneItem
    <2> DEFINE r == [scan[o] EXCEPT !.got = <<e>>]
    <2>2. scan' = [scan EXCEPT ![o] = r]
      BY <1>3, <2>1
    <2>3. r \in TaskType /\ r.pc = scan[o].pc /\ r.gen = scan[o].gen /\ r.got = <<e>>
      BY <2>1 DEF TaskType
    <2> HIDE DEF r
    <2>4. scan' \in ScanType /\ scan'[o] = r /\ \A p \in Op : p # o => scan'[p] = scan[p]
      BY <2>1, <2>2, <2>3 DEF ScanType
    <2>5. QED
      BY <2>3, <2>4 DEF Live
  <1>4. QED
    BY <1>1, <1>2, <1>3 DEF PutImage

\* What a get leaves: the operation waits, with the first item or for one.
LEMMA WaitFacts ==
  ASSUME TypeOK, NEW o \in Op, NEW s \in TaskType, WaitImage(o, s)
  PROVE  /\ scan' \in ScanType /\ images' \in Seq(ImageItem)
         /\ scan'[o].pc = "wait" /\ scan'[o].gen = s.gen
         /\ \A p \in Op : p # o => scan'[p] = scan[p]
         /\ images = <<>> => scan'[o].got = <<>> /\ images' = <<>>
         /\ images # <<>> => /\ scan'[o].got = <<Head(images)>> /\ images' = Tail(images)
                             /\ Head(images) \in ImageItem
  <1> DEFINE given == IF images = <<>> THEN <<>> ELSE <<Head(images)>>
             r == [s EXCEPT !.pc = "wait", !.got = given]
  <1>1. images \in Seq(ImageItem) /\ DOMAIN scan = Op /\ scan \in ScanType
    BY QueueTypes, ScanTyped
  <1> HIDE DEF ImageItem
  <1>2. /\ images # <<>> => Head(images) \in ImageItem /\ Tail(images) \in Seq(ImageItem)
        /\ <<>> \in Seq(ImageItem)
    BY <1>1, SeqFacts
  <1>3. given \in Seq(ImageItem) /\ images' \in Seq(ImageItem)
    BY <1>2, OneItem DEF WaitImage
  <1>4. scan' = [scan EXCEPT ![o] = r]
    BY DEF WaitImage
  <1>5. images = <<>> => given = <<>> /\ images' = <<>>
    BY DEF WaitImage
  <1>6. images # <<>> => given = <<Head(images)>> /\ images' = Tail(images)
    BY DEF WaitImage
  <1> HIDE DEF given
  <1>7. r \in TaskType /\ r.pc = "wait" /\ r.gen = s.gen /\ r.got = given
    BY <1>3 DEF TaskType, Progress
  <1> HIDE DEF r
  <1>8. scan' \in ScanType /\ scan'[o] = r /\ \A p \in Op : p # o => scan'[p] = scan[p]
    BY <1>1, <1>4, <1>7 DEF ScanType
  <1>9. QED
    BY <1>2, <1>3, <1>5, <1>6, <1>7, <1>8

\* The task's first step: what becomes of it, of the operations whose get is
\* pending and of the session.
LEMMA EnrollFacts ==
  ASSUME TypeOK, NEW o \in Op, Enroll(o)
  PROVE  /\ storage' \in StorageType /\ scan' \in ScanType
         /\ storage'.ready = storage.ready /\ storage'.sleeping = storage.sleeping
         /\ scan[o].pc = "born" /\ scan'[o].pc = "wait" /\ scan'[o].gen = scan[o].gen /\ scan'[o].got = scan[o].got
         /\ \A p \in Op : p # o => IF Pending(p) THEN scan'[p] = Stopped(scan[p]) ELSE scan'[p] = scan[p]
         /\ Gen' = Gen \/ Gen' = Gen + 1
         /\ IF \E p \in Op : Pending(p) THEN storage'.operation_active = FALSE
            ELSE storage'.operation_active = storage.operation_active /\ Gen' = Gen
  <1> DEFINE gone == {p \in Op : Pending(p)}
             h == IF \E p \in gone : scan[p].gen = Gen THEN Gen + 1 ELSE Gen
             b == storage.operation_active /\ gone = {}
  <1>1. scan[o].pc = "born" /\ ~Pending(o)
    BY DEF Enroll, Pending
  <1>2. scan[o] \in TaskType /\ DOMAIN scan = Op
    BY TaskFacts, ScanTyped
  <1> DEFINE r == [scan[o] EXCEPT !.pc = "wait"]
  <1>3. r \in TaskType /\ r.pc = "wait" /\ r.gen = scan[o].gen /\ r.got = scan[o].got
    BY <1>2 DEF TaskType, Progress
  <1>4. scan'[o] = r /\ \A p \in Op : p # o => IF Pending(p) THEN scan'[p] = Stopped(scan[p]) ELSE scan'[p] = scan[p]
    BY <1>1 DEF Enroll
  <1>5. scan' \in ScanType
    <2>1. \A p \in Op : scan'[p] \in TaskType
      BY <1>3, <1>4, TaskFacts
    <2>2. scan' = [p \in Op |-> scan'[p]]
      BY DEF Enroll
    <2>3. QED
      BY <2>1, <2>2 DEF ScanType
  <1>6. h \in Nat /\ b \in BOOLEAN /\ (h = Gen \/ h = Gen + 1)
    BY DEF TypeOK, Gen
  <1>7. storage' = [storage EXCEPT !.operation_active = b, !.capture_generation = h]
    BY DEF Enroll, TypeOK, Gen
  <1> HIDE DEF h, b
  <1>8. /\ storage' \in StorageType /\ storage'.ready = storage.ready /\ storage'.sleeping = storage.sleeping
        /\ storage'.operation_active = b /\ Gen' = h
    BY <1>6, <1>7 DEF TypeOK, StorageType, Gen
  <1>9. IF \E p \in Op : Pending(p) THEN b = FALSE ELSE b = storage.operation_active /\ h = Gen
    BY DEF b, h, TypeOK
  <1> HIDE DEF r
  <1>10. QED
    BY <1>1, <1>3, <1>4, <1>5, <1>6, <1>8, <1>9

\* What parse_image() changes of the operation when it gives a result.
LEMMA ParsedFacts ==
  ASSUME TypeOK, NEW o \in Op, NEW p \in {"sendLast", "sendMore"},
         scan' = [scan EXCEPT ![o].pc = p, ![o].got = <<>>]
  PROVE  /\ scan' \in ScanType
         /\ scan'[o].pc = p /\ scan'[o].gen = scan[o].gen /\ scan'[o].got = <<>>
         /\ \A q \in Op : q # o => scan'[q] = scan[q]
  <1> DEFINE r == [scan[o] EXCEPT !.pc = p, !.got = <<>>]
  <1>1. scan \in ScanType /\ DOMAIN scan = Op /\ scan[o] \in TaskType
    BY ScanTyped, TaskFacts
  <1>2. scan' = [scan EXCEPT ![o] = r]
    BY <1>1
  <1>3. <<>> \in Seq(ImageItem)
    OBVIOUS
  <1> HIDE DEF ImageItem
  <1>4. r \in TaskType /\ r.pc = p /\ r.gen = scan[o].gen /\ r.got = <<>>
    BY <1>1, <1>3 DEF TaskType, Progress
  <1> HIDE DEF r
  <1>5. QED
    BY <1>1, <1>2, <1>4 DEF ScanType

\* What enroll_verify_start() changes.
LEMMA StartFacts ==
  ASSUME TypeOK, NEW o \in Op, StartScan(o)
  PROVE  /\ storage' \in StorageType /\ scan' \in ScanType
         /\ storage'.ready = storage.ready /\ storage'.sleeping = storage.sleeping
         /\ storage'.operation_active = TRUE /\ Gen' = Gen + 1
         /\ scan'[o].pc = "born" /\ scan'[o].gen = Gen + 1 /\ scan'[o].got = scan[o].got
         /\ \A q \in Op : q # o => scan'[q] = scan[q]
  <1>1. scan \in ScanType /\ DOMAIN scan = Op /\ scan[o] \in TaskType
    BY ScanTyped, TaskFacts
  <1>2. Gen + 1 \in Nat
    BY DEF Gen, TypeOK
  <1> DEFINE r == [scan[o] EXCEPT !.pc = "born", !.gen = Gen + 1]
             g == Gen + 1
  <1>3. scan' = [scan EXCEPT ![o] = r]
    BY <1>1 DEF StartScan
  <1>4. storage' = [storage EXCEPT !.capture_generation = g, !.operation_active = TRUE]
    BY DEF StartScan, TypeOK, Gen
  <1>5. r \in TaskType /\ r.pc = "born" /\ r.gen = g /\ r.got = scan[o].got
    BY <1>1, <1>2 DEF TaskType, Progress
  <1>6. g \in Nat
    BY <1>2
  <1> HIDE DEF r, g
  <1>7. /\ storage' \in StorageType /\ storage'.ready = storage.ready /\ storage'.sleeping = storage.sleeping
        /\ storage'.operation_active = TRUE /\ Gen' = g
    BY <1>4, <1>6 DEF TypeOK, StorageType, Gen
  <1>8. QED
    BY <1>1, <1>3, <1>5, <1>7 DEF ScanType, g

\* What next_capture() changes.
LEMMA NextCaptureFacts ==
  ASSUME TypeOK, NEW o \in Op, NextCapture(o)
  PROVE  /\ storage' \in StorageType /\ scan' \in ScanType /\ images' \in Seq(ImageItem)
         /\ storage'.ready = storage.ready /\ storage'.sleeping = storage.sleeping
         /\ storage'.operation_active = storage.operation_active /\ Gen' = Gen + 1
         /\ scan[o].pc = "sendMore" /\ scan'[o].pc = "wait" /\ scan'[o].gen = Gen + 1
         /\ \A q \in Op : q # o => scan'[q] = scan[q]
         /\ images = <<>> => scan'[o].got = <<>> /\ images' = <<>>
         /\ images # <<>> => /\ scan'[o].got = <<Head(images)>> /\ images' = Tail(images)
                             /\ Head(images) \in ImageItem
  <1> DEFINE g == Gen + 1
             r == [scan[o] EXCEPT !.gen = g]
  <1>1. g \in Nat
    BY DEF Gen, TypeOK
  <1>2. storage' = [storage EXCEPT !.capture_generation = g]
    BY DEF NextCapture, TypeOK, Gen
  <1>3. WaitImage(o, r) /\ scan[o].pc = "sendMore"
    BY DEF NextCapture
  <1> HIDE DEF g, ImageItem
  <1>4. r \in TaskType /\ r.gen = g
    BY <1>1, TaskFacts DEF TaskType
  <1> HIDE DEF r
  <1>5. /\ storage' \in StorageType /\ storage'.ready = storage.ready /\ storage'.sleeping = storage.sleeping
        /\ storage'.operation_active = storage.operation_active /\ Gen' = g
    BY <1>1, <1>2 DEF TypeOK, StorageType, Gen
  <1>6. QED
    BY <1>3, <1>4, <1>5, WaitFacts DEF g

\* The start of an operation and its steps.
LEMMA ScanStepsType ==
  ASSUME TypeOK, NEW o \in Op, Scan(o) \/ StartScan(o)
  PROVE  TypeOK'
  <1> USE DEF EventTypes, ImageTypes
  <1>0. Gen + 1 \in Nat /\ storage \in StorageType /\ <<>> \in Seq(ImageItem)
    BY QueueTypes, TypeControl DEF Gen, TypeOK, ControlType
  <1>1. events' \in Seq(EventType)
    BY QueueTypes DEF Scan, Enroll, ParseIgnored, ParseCapture, ParseFailure, ParseStop, NextCapture, StopAfterResult, StartScan
  <1>2. storage' \in StorageType /\ scan' \in ScanType /\ images' \in Seq(ImageItem)
    <2>1. CASE StartScan(o)
      BY <2>1, StartFacts, QueueTypes DEF StartScan
    <2>2. CASE NextCapture(o)
      BY <2>2, NextCaptureFacts
    <2>3. CASE ParseStop(o) \/ StopAfterResult(o)
      BY <2>3, <1>0, FinishType, QueueTypes DEF ParseStop, StopAfterResult
    <2>4. CASE Enroll(o)
      BY <2>4, <1>0, EnrollFacts DEF Enroll
    <2>5. CASE ParseIgnored(o)
      BY <2>5, <1>0, TaskFacts, WaitFacts DEF ParseIgnored
    <2>6. CASE ParseCapture(o) \/ ParseFailure(o)
      BY <2>6, <1>0, ParsedFacts, QueueTypes DEF ParseCapture, ParseFailure
    <2>7. QED
      BY <2>1, <2>2, <2>3, <2>4, <2>5, <2>6 DEF Scan
  <1>3. task' \in Op \cup {None} /\ UNCHANGED <<ctl, reader, used, silent>>
    BY DEF Scan, Enroll, ParseIgnored, ParseCapture, ParseFailure, ParseStop, NextCapture, StopAfterResult, StartScan, TypeOK
  <1>4. QED
    BY <1>1, <1>2, <1>3, TypeControl, ControlTypeOK DEF ControlType

\* VerifyStop, Release and the loss of the claimer.
LEMMA DeviceStepsType ==
  ASSUME TypeOK, StopScan \/ ReleaseScan \/ ClaimerGone
  PROVE  TypeOK'
  <1> USE DEF EventTypes, ImageTypes
  <1>0. Gen \in Nat /\ storage \in StorageType /\ scan \in ScanType
    BY TypeControl DEF Gen, TypeOK, ControlType
  <1>1. events' \in Seq(EventType)
    BY QueueTypes DEF StopScan, ReleaseScan, ClaimerGone
  <1>2. storage' \in StorageType /\ scan' \in ScanType /\ images' \in Seq(ImageItem)
    <2>1. CASE StopScan
      BY <2>1, <1>0, MessageTypes, PutFacts DEF StopScan
    <2>2. CASE (ReleaseScan \/ ClaimerGone) /\ \E gone : Finish(gone, Gen)
      <3>1. storage' \in StorageType /\ scan' \in ScanType
        BY <2>2, <1>0, FinishType
      <3>2. images' = images \/ images' = <<>>
        BY <2>2 DEF ReleaseScan, ClaimerGone
      <3>3. QED
        BY <3>1, <3>2, QueueTypes
    <2>3. CASE UNCHANGED <<scan, storage, images>>
      BY <2>3, <1>0, QueueTypes
    <2>4. QED
      BY <2>1, <2>2, <2>3 DEF ReleaseScan, ClaimerGone
  <1>3. task' \in Op \cup {None} /\ UNCHANGED <<ctl, reader, used, silent>>
    BY DEF StopScan, ReleaseScan, ClaimerGone, TypeOK
  <1>4. QED
    BY <1>1, <1>2, <1>3, TypeControl, ControlTypeOK DEF ControlType

\* schedule_recovery() counts an attempt only below the limit.
LEMMA ScheduleType ==
  ASSUME NEW c \in CtlType
  PROVE  Schedule(c) \in CtlType
  <1>1. CASE c.attempt >= MaxAttempts
    BY <1>1 DEF Schedule, CtlType
  <1>2. CASE ~(c.attempt >= MaxAttempts)
    <2>1. c.attempt + 1 \in 0..MaxAttempts
      BY <1>2, BoundAssumption DEF CtlType
    <2>2. Schedule(c) = [c EXCEPT !.attempt = c.attempt + 1, !.pc = "reopen"]
      BY <1>2 DEF Schedule, CtlType
    <2>3. QED
      BY <2>1, <2>2 DEF CtlType
  <1>3. QED
    BY <1>1, <1>2

\* Who ends at cleanup_device().
Gone(ends) == {o \in Op : Pending(o)} \cup IF ends THEN Held ELSE {}

\* cleanup_device() resets the queues and the link.
LEMMA CleanupType ==
  ASSUME TypeOK, NEW ends, CleanupDevice(ends)
  PROVE  /\ storage' \in StorageType /\ scan' \in ScanType /\ silent' \in SUBSET Op
         /\ events' = <<>> /\ images' = <<>> /\ reader' = LinkDown
         /\ Ends(Gone(ends))
         /\ storage'.ready = FALSE /\ storage'.sleeping = storage.sleeping /\ Gen' = Gen + 1
         /\ storage'.operation_active = (storage.operation_active /\ Gone(ends) = {})
  <1>1. Ends(Gone(ends)) /\ scan' \in ScanType
    <2>1. Ends(Gone(ends))
      BY DEF CleanupDevice, Gone, Ends
    <2>2. QED
      BY <2>1, EndsFacts
  <1>2. Gone(ends) \in SUBSET Op
    BY DEF Gone, Held, TypeOK
  <1>3. silent' \in SUBSET Op /\ events' = <<>> /\ images' = <<>> /\ reader' = LinkDown
    <2>1. silent' = silent \cup Gone(ends)
      BY DEF CleanupDevice, Gone
    <2>2. QED
      BY <1>2, <2>1 DEF CleanupDevice, TypeOK
  <1> DEFINE b == storage.operation_active /\ Gone(ends) = {}
             g == Gen + 1
  <1>4. storage' = [storage EXCEPT !.ready = FALSE, !.capture_generation = g, !.operation_active = b]
    BY DEF CleanupDevice, Gone, Gen, TypeOK
  <1>5. g \in Nat /\ b \in BOOLEAN
    BY DEF Gen, TypeOK
  <1> HIDE DEF b, g
  <1>6. /\ storage' \in StorageType /\ storage'.ready = FALSE /\ storage'.sleeping = storage.sleeping
        /\ storage'.operation_active = b /\ Gen' = g
    BY <1>4, <1>5 DEF TypeOK, StorageType, Gen
  <1>7. QED
    BY <1>1, <1>3, <1>6 DEF b, g

\* cleanup_device(), whatever the controller does next.
LEMMA CleanupControl ==
  ASSUME TypeOK, NEW ends, CleanupDevice(ends), ctl' \in CtlType
  PROVE  ControlType'
  <1>1. LinkDown \in ReaderType
    BY DEF LinkDown, ReaderType
  <1>2. QED
    BY <1>1, CleanupType, QueueTypes DEF ControlType

\* begin_recovery() from any fields of the controller.
LEMMA BeginRecoveryType ==
  ASSUME TypeOK, NEW c \in CtlType, BeginRecovery(c)
  PROVE  ControlType'
  <1> DEFINE after == IF storage.sleeping THEN [c EXCEPT !.pc = "idle"] ELSE Schedule(c)
  <1>1. after \in CtlType
    BY ScheduleType DEF CtlType
  <1>2. CleanupDevice(after.pc = "ended")
    BY DEF BeginRecovery
  <1>3. ctl' = [after EXCEPT !.active = FALSE, !.watchdog = FALSE, !.suspended = storage.sleeping]
    BY DEF BeginRecovery
  <1>4. storage.sleeping \in BOOLEAN
    BY DEF TypeOK
  <1> HIDE DEF after
  <1>5. ctl' \in CtlType
    BY <1>1, <1>3, <1>4 DEF CtlType
  <1>6. QED
    BY <1>2, <1>5, CleanupControl

\* What a controller with the fields c may do about a failed session.
LEMMA OperationFailedType ==
  ASSUME TypeOK, NEW c \in CtlType, NEW rest \in Seq(EventType), OperationFailed(c, rest)
  PROVE  ControlType'
  <1>1. CASE BeginRecovery(c)
    BY <1>1, BeginRecoveryType
  <1>2. CASE ~BeginRecovery(c)
    <2>1. storage' = [storage EXCEPT !.ready = FALSE] /\ ctl' = [c EXCEPT !.pc = "yield"]
      BY <1>2 DEF OperationFailed
    <2>2. storage' \in StorageType /\ ctl' \in CtlType
      BY <2>1, TypeControl DEF ControlType, StorageType, CtlType
    <2>3. images' \in Seq(ImageItem) /\ scan' \in ScanType /\ events' \in Seq(EventType)
      BY <1>2, MessageTypes, PutFacts DEF OperationFailed, ImageTypes
    <2>4. UNCHANGED <<reader, silent>>
      BY <1>2 DEF OperationFailed
    <2>5. QED
      BY <2>2, <2>3, <2>4, TypeControl DEF ControlType
  <1>3. QED
    BY <1>1, <1>2

\* resume_recovery(), reopen() and init() to spawn().
LEMMA RecoveryStepsType ==
  ASSUME TypeOK, ResumeRecovery \/ Reopen \/ InitDevice
  PROVE  TypeOK'
  <1> USE TypeControl
  <1>1. CASE ResumeRecovery
    <2>1. ctl \in CtlType
      BY DEF ControlType
    <2>2. QED
      BY <1>1, <2>1, BeginRecoveryType, ControlTypeOK DEF ResumeRecovery
  <1>2. CASE Reopen
    <2>1. Schedule(ctl) \in CtlType
      BY ScheduleType DEF ControlType
    <2>2. ctl' \in CtlType
      BY <1>2, <2>1 DEF Reopen, ControlType, CtlType
    <2>3. CASE CleanupDevice(TRUE)
      BY <1>2, <2>2, <2>3, CleanupControl, ControlTypeOK DEF Reopen
    <2>4. CASE ~CleanupDevice(TRUE)
      BY <1>2, <2>2, <2>4, ControlTypeOK DEF Reopen, ControlType
    <2>5. QED
      BY <2>3, <2>4
  <1>3. CASE InitDevice
    <2>1. CASE OperationFailed(ctl, events)
      BY <1>3, <2>1, OperationFailedType, ControlTypeOK DEF InitDevice, ControlType
    <2>2. CASE ctl' = [ctl EXCEPT !.pc = "ended", !.active = FALSE] /\ CleanupDevice(TRUE)
      <3>1. ctl' \in CtlType
        BY <2>2 DEF ControlType, CtlType
      <3>2. QED
        BY <1>3, <2>2, <3>1, CleanupControl, ControlTypeOK DEF InitDevice
    <2>3. CASE ctl' = [ctl EXCEPT !.pc = "idle", !.watchdog = TRUE] /\ UNCHANGED <<storage, scan, events, images, silent>>
               /\ \E l \in BOOLEAN : reader' = [LinkDown EXCEPT !.link = "booting", !.latch = l]
      <3>1. ctl' \in CtlType
        BY <2>3 DEF ControlType, CtlType
      <3>2. reader' \in ReaderType
        BY <2>3 DEF LinkDown, ReaderType
      <3>3. QED
        BY <1>3, <2>3, <3>1, <3>2, ControlTypeOK DEF InitDevice, ControlType
    <2>4. QED
      BY <1>3, <2>1, <2>2, <2>3 DEF InitDevice
  <1>4. QED
    BY <1>1, <1>2, <1>3

\* What a handler that takes an event and changes the controller leaves typed.
LEMMA HandlersType ==
  ASSUME TypeOK, OnInitResult \/ OnTLSReady \/ OnStartSensor \/ OnStopSensor
  PROVE  TypeOK'
  <1>0. Gen \in Nat /\ ControlType
    BY TypeControl DEF Gen, TypeOK
  <1>1. events' \in Seq(EventType)
    BY QueueTypes DEF OnInitResult, OnTLSReady, OnStartSensor, OnStopSensor, Gets, Taken
  <1>2. CASE OnInitResult
    <2>1. ctl' \in CtlType /\ reader' \in ReaderType
      BY <1>2, <1>0 DEF OnInitResult, ControlType, CtlType, ReaderType
    <2>2. QED
      BY <1>0, <1>1, <1>2, <2>1, ControlTypeOK DEF OnInitResult, ControlType
  <1>3. CASE OnTLSReady
    <2>1. 0 \in 0..MaxAttempts
      BY BoundAssumption
    <2>2. ctl' \in CtlType
      BY <1>3, <1>0, <2>1 DEF OnTLSReady, ControlType, CtlType
    <2>3. storage' \in StorageType
      BY <1>3, <1>0 DEF OnTLSReady, ControlType, StorageType
    <2>4. QED
      BY <1>0, <1>1, <1>3, <2>2, <2>3, ControlTypeOK DEF OnTLSReady, ControlType
  <1>4. CASE OnStartSensor
    <2>1. ctl' \in CtlType
      BY <1>4, <1>0 DEF OnStartSensor, StartSensor, ControlType, CtlType
    <2>2. QED
      BY <1>0, <1>1, <1>4, <2>1, ControlTypeOK DEF OnStartSensor, ControlType
  <1>5. CASE OnStopSensor
    <2>1. ctl' \in CtlType /\ reader' \in ReaderType
      BY <1>5, <1>0 DEF OnStopSensor, ControlType, CtlType, ReaderType
    <2>2. QED
      BY <1>0, <1>1, <1>5, <2>1, ControlTypeOK DEF OnStopSensor, ControlType
  <1>6. QED
    BY <1>2, <1>3, <1>4, <1>5

\* ev_finger_down and ev_image, which write to the operation's queue.
LEMMA CaptureHandlersType ==
  ASSUME TypeOK, OnFingerDown \/ OnImage
  PROVE  TypeOK'
  <1>0. Gen \in Nat /\ ControlType
    BY TypeControl DEF Gen, TypeOK
  <1>1. events' \in Seq(EventType) /\ Head(events) \in EventType
    BY QueueTypes DEF OnFingerDown, OnImage, Gets, Taken
  <1>2. ctl' \in CtlType
    <2>1. CASE OnFingerDown
      BY <2>1, <1>0, <1>1 DEF OnFingerDown, ControlType, CtlType
    <2>2. CASE OnImage
      BY <2>2, <1>0 DEF OnImage, StartSensor, ControlType, CtlType
    <2>3. QED
      BY <2>1, <2>2
  <1>3. images' \in Seq(ImageItem) /\ scan' \in ScanType
    <2>1. [Notice("FingerDown") EXCEPT !.gen = ctl.gen] \in ImageItem
      BY <1>0 DEF Notice, ImageItem, ImageTypes, ControlType, CtlType
    <2>2. [type |-> "Image", gen |-> ctl.gen, latched |-> Head(events).latched] \in ImageItem
      BY <1>0, <1>1 DEF ImageItem, EventType, ImageTypes, ControlType, CtlType
    <2> HIDE DEF ImageItem
    <2>3. CASE UNCHANGED <<scan, images>>
      BY <2>3, <1>0, QueueTypes DEF ControlType
    <2>4. CASE \E e \in ImageItem : PutImage(e)
      BY <2>4, PutFacts
    <2>5. QED
      BY <2>1, <2>2, <2>3, <2>4 DEF OnFingerDown, OnImage
  <1>4. QED
    BY <1>0, <1>1, <1>2, <1>3, ControlTypeOK DEF OnFingerDown, OnImage, ControlType

\* The handlers that report the session failed, suspended or resumed.
LEMMA FailureHandlersType ==
  ASSUME TypeOK, OnTransportFailed \/ OnSuspend \/ OnResume \/ TransferFailed
  PROVE  TypeOK'
  <1>0. ControlType
    BY TypeControl
  <1>1. CASE OnTransportFailed
    <2>1. Tail(events) \in Seq(EventType) /\ ctl \in CtlType
      BY <1>0, <1>1, QueueTypes DEF OnTransportFailed, Gets, ControlType
    <2>2. QED
      BY <1>1, <2>1, OperationFailedType, ControlTypeOK DEF OnTransportFailed
  <1>2. CASE OnSuspend
    <2>1. Tail(events) \in Seq(EventType)
      BY <1>2, QueueTypes DEF OnSuspend, Gets
    <2>2. [ctl EXCEPT !.suspended = TRUE, !.active = FALSE] \in CtlType
      BY <1>0 DEF ControlType, CtlType
    <2>3. QED
      BY <1>2, <2>1, <2>2, OperationFailedType, ControlTypeOK DEF OnSuspend
  <1>3. CASE OnResume
    <2>1. 0 \in 0..MaxAttempts
      BY BoundAssumption
    <2>2. ctl' \in CtlType
      BY <1>0, <1>3, <2>1 DEF OnResume, ControlType, CtlType
    <2>3. QED
      BY <1>0, <1>3, <2>2, QueueTypes, ControlTypeOK DEF OnResume, Gets, Taken, ControlType
  <1>4. CASE TransferFailed
    <2>1. ctl \in CtlType /\ events \in Seq(EventType)
      BY <1>0 DEF ControlType
    <2>2. ControlType'
      BY <1>4, <2>1, OperationFailedType DEF TransferFailed
    <2>3. QED
      BY <1>4, <2>2, ControlTypeOK DEF TransferFailed
  <1>5. QED
    BY <1>1, <1>2, <1>3, <1>4

\* The controller between two events, and the watchdog.
LEMMA PausesType ==
  ASSUME TypeOK, SubmitArm \/ GetImage \/ TransferDone \/ Watchdog
  PROVE  TypeOK'
  <1>0. ControlType
    BY TypeControl
  <1>1. ctl' \in CtlType
    BY <1>0 DEF SubmitArm, GetImage, TransferDone, Watchdog, ControlType, CtlType
  <1>2. reader' \in ReaderType
    BY <1>0 DEF SubmitArm, GetImage, TransferDone, Watchdog, ControlType, ReaderType
  <1>3. events' \in Seq(EventType)
    BY QueueTypes DEF SubmitArm, GetImage, TransferDone, Watchdog, EventTypes
  <1>4. QED
    BY <1>0, <1>1, <1>2, <1>3, ControlTypeOK DEF SubmitArm, GetImage, TransferDone, Watchdog, ControlType

\* WorkerPower::power_changed() retires a generation when the system sleeps.
LEMMA PowerChangedType ==
  ASSUME TypeOK, PowerChanged
  PROVE  TypeOK'
  <1>0. ControlType /\ Gen + 1 \in Nat
    BY TypeControl DEF Gen, TypeOK
  <1>1. events' \in Seq(EventType)
    <2>1. Event("Suspend") \in EventType /\ Event("Resume") \in EventType
      BY MessageTypes DEF EventTypes
    <2>2. QED
      BY <2>1, QueueTypes DEF PowerChanged, EventTypes
  <1>2. storage' \in StorageType
    <2>1. CASE storage.sleeping
      BY <1>0, <2>1 DEF PowerChanged, ControlType, StorageType
    <2>2. CASE ~storage.sleeping
      <3>1. storage' = [storage EXCEPT !.sleeping = TRUE, !.capture_generation = Gen + 1]
        BY <2>2, <1>0 DEF PowerChanged, Gen, ControlType, StorageType
      <3>2. QED
        BY <1>0, <3>1 DEF ControlType, StorageType
    <2>3. QED
      BY <2>1, <2>2
  <1>3. used' \in [touches : 0..MaxTouches, faults : 0..MaxFaults, sleeps : 0..MaxSleeps]
    <2>1. CASE storage.sleeping
      BY <2>1 DEF PowerChanged, TypeOK
    <2>2. CASE ~storage.sleeping
      <3>1. used.sleeps + 1 \in 0..MaxSleeps /\ used' = [used EXCEPT !.sleeps = used.sleeps + 1]
        BY <2>2, BoundAssumption DEF PowerChanged, TypeOK
      <3>2. QED
        BY <3>1 DEF TypeOK
    <2>3. QED
      BY <2>1, <2>2
  <1>4. UNCHANGED <<scan, task, ctl, images, reader, silent>>
    BY DEF PowerChanged
  <1>5. QED
    BY <1>1, <1>2, <1>3, <1>4 DEF TypeOK, StorageType, EventType

\* What the reader reports.
LEMMA ReaderStepsType ==
  ASSUME TypeOK, Handshake \/ FingerTouches \/ ImageArrives \/ TransportFails
  PROVE  TypeOK'
  <1>0. reader \in ReaderType
    BY TypeControl DEF ControlType
  <1>1. reader.latch \in BOOLEAN /\ reader.touch \in BOOLEAN
    BY <1>0 DEF ReaderType
  <1>2. events' \in Seq(EventType)
    BY <1>1, QueueTypes DEF Handshake, FingerTouches, ImageArrives, TransportFails, Reports, EventTypes
  <1>3. reader' \in ReaderType
    BY <1>0 DEF Handshake, FingerTouches, ImageArrives, TransportFails, Reports, ReaderType
  <1>4. used' \in [touches : 0..MaxTouches, faults : 0..MaxFaults, sleeps : 0..MaxSleeps]
    <2>1. CASE FingerTouches
      <3>1. used.touches + 1 \in 0..MaxTouches /\ used' = [used EXCEPT !.touches = used.touches + 1]
        BY <2>1, BoundAssumption DEF FingerTouches, TypeOK
      <3>2. QED
        BY <3>1 DEF TypeOK
    <2>2. CASE TransportFails
      <3>1. used.faults + 1 \in 0..MaxFaults /\ used' = [used EXCEPT !.faults = used.faults + 1]
        BY <2>2, BoundAssumption DEF TransportFails, TypeOK
      <3>2. QED
        BY <3>1 DEF TypeOK
    <2>3. CASE Handshake \/ ImageArrives
      BY <2>3 DEF Handshake, ImageArrives, TypeOK
    <2>4. QED
      BY <2>1, <2>2, <2>3
  <1>5. UNCHANGED <<storage, scan, task, ctl, images, silent>>
    BY DEF Handshake, FingerTouches, ImageArrives, TransportFails, Reports
  <1>6. QED
    BY <1>2, <1>3, <1>4, <1>5 DEF TypeOK, EventType, ReaderType

\* Every step of the loop and of its environment.
LEMMA NextType == TypeOK /\ [Next]_vars => TypeOK'
  <1> SUFFICES ASSUME TypeOK, [Next]_vars PROVE TypeOK'
    OBVIOUS
  <1>1. CASE UNCHANGED vars
    BY <1>1 DEF TypeOK, vars
  <1>2. CASE \E o \in Op : StartScan(o) \/ Scan(o)
    BY <1>2, ScanStepsType
  <1>3. CASE StopScan \/ ReleaseScan \/ ClaimerGone
    BY <1>3, DeviceStepsType
  <1>4. CASE Control
    BY <1>4, RecoveryStepsType, HandlersType, CaptureHandlersType, FailureHandlersType, PausesType DEF Control
  <1>5. CASE Watchdog
    BY <1>5, PausesType
  <1>6. CASE Environment
    BY <1>6, PowerChangedType, ReaderStepsType, FailureHandlersType DEF Environment
  <1>7. QED
    BY <1>1, <1>2, <1>3, <1>4, <1>5, <1>6 DEF Next
-----------------------------------------------------------------------------
(* The armed generation. *)

\* Generations only grow, and one ends when the system goes to sleep.
GenerationGrows == Gen' >= Gen /\ (storage'.sleeping => storage.sleeping \/ Gen' > Gen)

\* A step arms nothing, or the current generation of a system that is awake.
ArmsAwake ==
  \/ ctl'.gen = ctl.gen /\ (ctl'.active => ctl.active)
  \/ ctl'.gen = Gen /\ Gen' = Gen /\ ~storage.sleeping /\ ~storage'.sleeping

\* A step of these two kinds keeps the armed generation in its place.
LEMMA ArmedStep ==
  ASSUME TypeOK, TypeOK', ArmedGeneration, GenerationGrows, ArmsAwake
  PROVE  ArmedGeneration'
  <1>1. Gen \in Nat /\ Gen' \in Nat /\ ctl.gen \in Nat
    BY DEF TypeOK, Gen
  <1> USE DEF ArmedGeneration, NoCaptureWhileSleeping, Capturing
  <1>2. CASE ctl'.gen = ctl.gen /\ (ctl'.active => ctl.active)
    BY <1>1, <1>2 DEF GenerationGrows
  <1>3. CASE ctl'.gen = Gen /\ Gen' = Gen /\ ~storage.sleeping /\ ~storage'.sleeping
    BY <1>1, <1>3
  <1>4. QED
    BY <1>2, <1>3 DEF ArmsAwake

\* async_finalize() never takes a generation back.
LEMMA FinishGrows ==
  ASSUME TypeOK, NEW gone, NEW g \in Nat, Finish(gone, g), g >= Gen
  PROVE  GenerationGrows
  <1>1. storage'.sleeping = storage.sleeping /\ Gen' \in {g, g + 1} /\ Gen \in Nat
    BY FinishType DEF Gen, TypeOK
  <1>2. QED
    BY <1>1 DEF GenerationGrows

\* cleanup_device() takes a new generation.
LEMMA CleanupGrows ==
  ASSUME TypeOK, NEW ends, CleanupDevice(ends)
  PROVE  GenerationGrows
  <1>1. storage'.sleeping = storage.sleeping /\ Gen' = Gen + 1 /\ Gen \in Nat
    BY CleanupType DEF Gen, TypeOK
  <1>2. QED
    BY <1>1 DEF GenerationGrows

\* A step that leaves the generation and the sleep alone.
LEMMA StorageKeptGrows ==
  ASSUME TypeOK, Gen' = Gen, storage'.sleeping = storage.sleeping
  PROVE  GenerationGrows
  BY DEF GenerationGrows, TypeOK, Gen

\* The operations take generations and arm nothing themselves.
LEMMA ScanArmed ==
  ASSUME TypeOK, NEW o \in Op, StartScan(o) \/ Scan(o)
  PROVE  GenerationGrows /\ ArmsAwake
  <1>0. Gen \in Nat
    BY DEF TypeOK, Gen
  <1>1. ctl' = ctl
    BY DEF StartScan, Scan, Enroll, ParseIgnored, ParseCapture, ParseFailure, ParseStop, NextCapture, StopAfterResult
  <1>2. CASE StartScan(o) \/ NextCapture(o) \/ Enroll(o)
    <2>1. storage'.sleeping = storage.sleeping /\ Gen' \in {Gen, Gen + 1}
      BY <1>2, StartFacts, NextCaptureFacts, EnrollFacts
    <2>2. QED
      BY <1>0, <1>1, <2>1 DEF GenerationGrows, ArmsAwake
  <1>3. CASE ParseStop(o) \/ StopAfterResult(o)
    <2>1. Gen + 1 \in Nat /\ Gen + 1 >= Gen
      BY <1>0
    <2>2. QED
      BY <1>1, <1>3, <2>1, FinishGrows DEF ParseStop, StopAfterResult, ArmsAwake
  <1>4. CASE ParseIgnored(o) \/ ParseCapture(o) \/ ParseFailure(o)
    BY <1>1, <1>4, StorageKeptGrows DEF ParseIgnored, ParseCapture, ParseFailure, ArmsAwake, Gen
  <1>5. QED
    BY <1>2, <1>3, <1>4 DEF Scan

\* The device cancels operations and arms nothing.
LEMMA DeviceArmed ==
  ASSUME TypeOK, StopScan \/ ReleaseScan \/ ClaimerGone
  PROVE  GenerationGrows /\ ArmsAwake
  <1>1. ctl' = ctl
    BY DEF StopScan, ReleaseScan, ClaimerGone
  <1>2. CASE \E gone : Finish(gone, Gen)
    <2>1. Gen \in Nat /\ Gen >= Gen
      BY DEF TypeOK, Gen
    <2>2. QED
      BY <1>1, <1>2, <2>1, FinishGrows DEF ArmsAwake
  <1>3. CASE UNCHANGED storage
    BY <1>1, <1>3, StorageKeptGrows DEF ArmsAwake, Gen
  <1>4. QED
    BY <1>2, <1>3 DEF StopScan, ReleaseScan, ClaimerGone

\* begin_recovery() disarms.
LEMMA BeginRecoveryArmed ==
  ASSUME TypeOK, NEW c \in CtlType, c.gen = ctl.gen, BeginRecovery(c)
  PROVE  GenerationGrows /\ ArmsAwake
  <1> DEFINE after == IF storage.sleeping THEN [c EXCEPT !.pc = "idle"] ELSE Schedule(c)
  <1>1. after \in CtlType /\ after.gen = c.gen
    BY ScheduleType DEF CtlType, Schedule
  <1>2. CleanupDevice(after.pc = "ended")
    BY DEF BeginRecovery
  <1>3. ctl' = [after EXCEPT !.active = FALSE, !.watchdog = FALSE, !.suspended = storage.sleeping]
    BY DEF BeginRecovery
  <1> HIDE DEF after
  <1>4. ctl'.gen = ctl.gen /\ ctl'.active = FALSE
    BY <1>1, <1>3 DEF CtlType
  <1>5. QED
    BY <1>2, <1>4, CleanupGrows DEF ArmsAwake

\* notify_operation_failed() arms nothing.
LEMMA OperationFailedArmed ==
  ASSUME TypeOK, NEW c \in CtlType, c.gen = ctl.gen, c.active => ctl.active,
         NEW rest, OperationFailed(c, rest)
  PROVE  GenerationGrows /\ ArmsAwake
  <1>1. CASE BeginRecovery(c)
    BY <1>1, BeginRecoveryArmed
  <1>2. CASE ~BeginRecovery(c)
    <2>1. storage' = [storage EXCEPT !.ready = FALSE] /\ ctl' = [c EXCEPT !.pc = "yield"]
      BY <1>2 DEF OperationFailed
    <2>2. Gen' = Gen /\ storage'.sleeping = storage.sleeping /\ ctl'.gen = c.gen /\ ctl'.active = c.active
      BY <2>1 DEF TypeOK, Gen, CtlType
    <2>3. QED
      BY <2>2, StorageKeptGrows DEF ArmsAwake
  <1>3. QED
    BY <1>1, <1>2

\* StartSensor arms only when awake; the stale touch of ev_image arms again only for a
\* capture that is current, so awake too.
LEMMA ControlArmed ==
  ASSUME TypeOK, ArmedGeneration, Control \/ TransferFailed
  PROVE  GenerationGrows /\ ArmsAwake
  <1>0. ctl \in CtlType /\ ctl.gen = ctl.gen
    BY TypeControl DEF ControlType
  <1>1. CASE ResumeRecovery
    BY <1>0, <1>1, BeginRecoveryArmed DEF ResumeRecovery
  <1>2. CASE Reopen
    <2>1. ctl'.gen = ctl.gen /\ (ctl'.active => ctl.active)
      BY <1>0, <1>2 DEF Reopen, Schedule, CtlType
    <2>2. CleanupDevice(TRUE) \/ UNCHANGED storage
      BY <1>2 DEF Reopen
    <2>3. QED
      BY <2>1, <2>2, CleanupGrows, StorageKeptGrows DEF ArmsAwake, Gen
  <1>3. CASE InitDevice
    <2>1. CASE OperationFailed(ctl, events)
      BY <1>0, <2>1, OperationFailedArmed
    <2>2. CASE ~OperationFailed(ctl, events)
      <3>1. ctl'.gen = ctl.gen /\ (ctl'.active => ctl.active)
        BY <1>0, <1>3, <2>2 DEF InitDevice, CtlType
      <3>2. CleanupDevice(TRUE) \/ UNCHANGED storage
        BY <1>3, <2>2 DEF InitDevice
      <3>3. QED
        BY <3>1, <3>2, CleanupGrows, StorageKeptGrows DEF ArmsAwake, Gen
    <2>3. QED
      BY <2>1, <2>2
  <1>4. CASE OnInitResult \/ OnStopSensor \/ OnFingerDown \/ OnResume \/ SubmitArm \/ GetImage \/ TransferDone
    <2>1. storage' = storage
      BY <1>4 DEF OnInitResult, OnStopSensor, OnFingerDown, OnResume, SubmitArm, GetImage, TransferDone
    <2>2. ctl'.gen = ctl.gen /\ (ctl'.active => ctl.active)
      BY <1>0, <1>4 DEF OnInitResult, OnStopSensor, OnFingerDown, OnResume, SubmitArm, GetImage, TransferDone, CtlType
    <2>3. QED
      BY <2>1, <2>2, StorageKeptGrows DEF ArmsAwake, Gen
  <1>5. CASE OnTLSReady
    <2>1. Gen' = Gen /\ storage'.sleeping = storage.sleeping
      BY <1>5 DEF OnTLSReady, Gen, TypeOK
    <2>2. ctl'.gen = ctl.gen /\ ctl'.active = ctl.active
      BY <1>0, <1>5 DEF OnTLSReady, CtlType
    <2>3. QED
      BY <2>1, <2>2, StorageKeptGrows DEF ArmsAwake
  <1>6. CASE OnStartSensor
    <2>1. storage' = storage
      BY <1>6 DEF OnStartSensor
    <2>2. ctl' = ctl \/ (ctl'.gen = Gen /\ ~storage.sleeping)
      BY <1>0, <1>6 DEF OnStartSensor, StartSensor, CtlType
    <2>3. QED
      BY <2>1, <2>2, StorageKeptGrows DEF ArmsAwake, Gen
  <1>7. CASE OnImage
    <2>1. storage' = storage
      BY <1>7 DEF OnImage
    <2>2. Capturing => ~storage.sleeping
      BY DEF ArmedGeneration, NoCaptureWhileSleeping
    <2>3. \/ ctl'.gen = ctl.gen /\ (ctl'.active => ctl.active)
          \/ ctl'.gen = Gen /\ ~storage.sleeping
      BY <1>0, <1>7, <2>2 DEF OnImage, StartSensor, CtlType
    <2>4. QED
      BY <2>1, <2>3, StorageKeptGrows DEF ArmsAwake, Gen
  <1>8. CASE OnTransportFailed \/ TransferFailed
    BY <1>0, <1>8, OperationFailedArmed DEF OnTransportFailed, TransferFailed
  <1>9. CASE OnSuspend
    <2> DEFINE c == [ctl EXCEPT !.suspended = TRUE, !.active = FALSE]
    <2>1. c \in CtlType /\ c.gen = ctl.gen /\ ~c.active
      BY <1>0 DEF CtlType
    <2>2. OperationFailed(c, Tail(events))
      BY <1>9 DEF OnSuspend
    <2> HIDE DEF c
    <2>3. QED
      BY <2>1, <2>2, OperationFailedArmed
  <1>10. QED
    BY <1>1, <1>2, <1>3, <1>4, <1>5, <1>6, <1>7, <1>8, <1>9 DEF Control

\* PrepareForSleep takes a new generation; nothing else here touches it.
LEMMA EnvironmentArmed ==
  ASSUME TypeOK, Watchdog \/ PowerChanged \/ Handshake \/ FingerTouches \/ ImageArrives \/ TransportFails
  PROVE  GenerationGrows /\ ArmsAwake
  <1>1. ctl'.gen = ctl.gen /\ ctl'.active = ctl.active
    BY DEF TypeOK, Watchdog, PowerChanged, Handshake, FingerTouches, ImageArrives, TransportFails, Reports
  <1>2. CASE PowerChanged
    BY <1>1, <1>2 DEF PowerChanged, GenerationGrows, ArmsAwake, Gen, TypeOK
  <1>3. CASE ~PowerChanged
    BY <1>1, <1>3, StorageKeptGrows
       DEF Watchdog, Handshake, FingerTouches, ImageArrives, TransportFails, Reports, ArmsAwake, Gen
  <1>4. QED
    BY <1>2, <1>3

\* Every step keeps the armed generation in its place.
LEMMA NextArmed == TypeOK /\ ArmedGeneration /\ [Next]_vars => ArmedGeneration'
  <1> SUFFICES ASSUME TypeOK, ArmedGeneration, [Next]_vars PROVE ArmedGeneration'
    OBVIOUS
  <1>1. TypeOK'
    BY NextType
  <1>2. GenerationGrows /\ ArmsAwake
    <2>1. CASE UNCHANGED vars
      BY <2>1, StorageKeptGrows DEF vars, ArmsAwake, Gen
    <2>2. CASE \E o \in Op : StartScan(o) \/ Scan(o)
      BY <2>2, ScanArmed
    <2>3. CASE StopScan \/ ReleaseScan \/ ClaimerGone
      BY <2>3, DeviceArmed
    <2>4. CASE Control \/ TransferFailed
      BY <2>4, ControlArmed
    <2>5. CASE Watchdog \/ PowerChanged \/ Handshake \/ FingerTouches \/ ImageArrives \/ TransportFails
      BY <2>5, EnvironmentArmed
    <2>6. QED
      BY <2>1, <2>2, <2>3, <2>4, <2>5 DEF Next, Environment
  <1>3. QED
    BY <1>1, <1>2, ArmedStep
-----------------------------------------------------------------------------
(* The operations. *)

\* A put leaves a stop notice where it is, and a put notice is underway.
LEMMA StopPut ==
  ASSUME TypeOK, NEW e \in ImageItem, PutImage(e)
  PROVE  StopUnderway \/ e.type = "EnrollVerifyStop" => StopUnderway'
  <1>1. images \in Seq(ImageItem)
    BY QueueTypes
  <1> HIDE DEF ImageItem
  <1>2. CASE scan' = scan /\ images' = Append(images, e)
    <2>1. \A i \in DOMAIN images : i \in DOMAIN images' /\ images'[i] = images[i]
      BY <1>1, <1>2
    <2>2. Len(images) + 1 \in DOMAIN images' /\ images'[Len(images) + 1] = e
      BY <1>1, <1>2
    <2>3. QED
      BY <1>2, <2>1, <2>2 DEF StopUnderway, Given
  <1>3. ASSUME NEW o \in Op, Pending(o), scan'[o].pc = scan[o].pc, scan'[o].got = <<e>>, images' = images,
               \A p \in Op : p # o => scan'[p] = scan[p]
        PROVE  StopUnderway \/ e.type = "EnrollVerifyStop" => StopUnderway'
    <2>1. e.type = "EnrollVerifyStop" => Given(o, "EnrollVerifyStop")'
      BY <1>3, OneItem DEF Pending, Given
    <2>2. \A p \in Op : Given(p, "EnrollVerifyStop") => Given(p, "EnrollVerifyStop")'
      BY <1>3 DEF Pending, Given
    <2>3. QED
      BY <1>3, <2>1, <2>2 DEF StopUnderway
  <1>4. QED
    BY <1>2, <1>3, PutFacts

\* A get takes a stop notice from the queue, and nothing from who was given one.
LEMMA StopGot ==
  ASSUME TypeOK, NEW o \in Op, NEW s \in TaskType, WaitImage(o, s),
         StopUnderway, ~Given(o, "EnrollVerifyStop")
  PROVE  StopUnderway'
  <1>1. images \in Seq(ImageItem)
    BY QueueTypes
  <1>2. /\ scan'[o].pc = "wait"
        /\ \A p \in Op : p # o => scan'[p] = scan[p]
        /\ images # <<>> => scan'[o].got = <<Head(images)>> /\ images' = Tail(images) /\ Head(images) \in ImageItem
    BY WaitFacts
  <1>3. CASE \E p \in Op : Given(p, "EnrollVerifyStop")
    BY <1>2, <1>3 DEF StopUnderway, Given
  <1>4. ASSUME NEW i \in DOMAIN images, images[i].type = "EnrollVerifyStop"
        PROVE  StopUnderway'
    <2> HIDE DEF ImageItem
    <2>1. images # <<>>
      BY <1>1, <1>4
    <2>2. CASE i = 1
      <3>1. Head(images) = images[1]
        BY <1>1, <2>1
      <3>2. Given(o, "EnrollVerifyStop")'
        BY <1>2, <1>4, <2>1, <2>2, <3>1, OneItem DEF Given
      <3>3. QED
        BY <3>2 DEF StopUnderway
    <2>3. CASE i # 1
      <3>1. i - 1 \in DOMAIN images' /\ images'[i - 1] = images[i]
        BY <1>1, <1>2, <1>4, <2>1, <2>3
      <3>2. QED
        BY <1>4, <3>1 DEF StopUnderway
    <2>4. QED
      BY <2>2, <2>3
  <1>5. QED
    BY <1>3, <1>4 DEF StopUnderway

\* Quiet is lost only by an event that brings a session on.
LEMMA QuietKept ==
  ASSUME TypeOK, Quiet,
         \/ events' = events
         \/ events' = <<>>
         \/ events # <<>> /\ events' = Tail(events)
         \/ \E e \in EventType : e.type \notin {"InitResult", "TLS_Ready"} /\ events' = Append(events, e)
  PROVE  Quiet'
  <1>1. events \in Seq(EventType)
    BY QueueTypes
  <1> HIDE DEF EventType
  <1>2. CASE events' = events \/ events' = <<>>
    BY <1>2 DEF Quiet
  <1>3. CASE events # <<>> /\ events' = Tail(events)
    <2>1. \A i \in DOMAIN events' : i + 1 \in DOMAIN events /\ events'[i] = events[i + 1]
      BY <1>1, <1>3
    <2>2. QED
      BY <2>1 DEF Quiet
  <1>4. ASSUME NEW e \in EventType, e.type \notin {"InitResult", "TLS_Ready"}, events' = Append(events, e)
        PROVE  Quiet'
    <2>1. \A i \in DOMAIN events' : events'[i] = e \/ (i \in DOMAIN events /\ events'[i] = events[i])
      BY <1>1, <1>4
    <2>2. QED
      BY <1>4, <2>1 DEF Quiet
  <1>5. QED
    BY <1>2, <1>3, <1>4

\* A step that leaves the flag, and ends neither the operation that the device
\* holds nor a stop notice.
LEMMA ScanKept ==
  ASSUME ScanInv, task' = task,
         storage'.operation_active => storage.operation_active,
         storage.ready => storage'.ready,
         ctl'.pc = ctl.pc \/ ctl.pc # "yield",
         \A p \in Op : (Live(p) => Live(p)') /\ (scan'[p].pc = "born" => scan[p].pc = "born"),
         StopUnderway => StopUnderway' \/ task # None,
         task \in Op \cup {None}
  PROVE  ActiveOperationReachable' /\ BornIsHeld' /\ DownIsInactive'
  <1>1. BornIsHeld' /\ DownIsInactive'
    BY DEF ScanInv, BornIsHeld, DownIsInactive
  <1>2. ActiveOperationReachable'
    BY DEF ScanInv, ActiveOperationReachable
  <1>3. QED
    BY <1>1, <1>2

\* A step that clears the flag.
LEMMA ClearedInv ==
  ASSUME ScanInv, storage'.operation_active = FALSE,
         \A p \in Op : scan'[p].pc = "born" => scan[p].pc = "born" /\ task' = task
  PROVE  ActiveOperationReachable' /\ BornIsHeld' /\ DownIsInactive'
  BY DEF ScanInv, ActiveOperationReachable, BornIsHeld, DownIsInactive

\* The controller's part of ScanInv under steps of others.
LEMMA OthersKeepControl ==
  ASSUME TypeOK, ScanInv, ctl' = ctl, reader' = reader, storage'.ready = storage.ready,
         \/ events' = events
         \/ \E t \in EventTypes \ {"InitResult", "TLS_Ready"} : events' = Append(events, Event(t))
  PROVE  ReopensDown' /\ SuspendedIsDown'
  <1>1. Quiet => Quiet'
    <2>1. \A t \in EventTypes : Event(t) \in EventType /\ Event(t).type = t
      BY MessageTypes DEF Event
    <2>2. QED
      BY <2>1, QuietKept
  <1>2. QED
    BY <1>1 DEF ScanInv, ReopensDown, SuspendedIsDown

\* enroll_verify_start(): the new operation is the device's.
LEMMA StartScanInv ==
  ASSUME TypeOK, ScanInv, NEW o \in Op, StartScan(o)
  PROVE  ScanInv'
  <1>1. /\ storage'.operation_active = TRUE /\ storage'.ready = storage.ready
        /\ scan'[o].pc = "born" /\ \A q \in Op : q # o => scan'[q] = scan[q]
    BY StartFacts
  <1>2. storage.ready /\ task = None /\ task' = o /\ task' # None
    BY NoneAssumption DEF StartScan
  <1>3. ActiveOperationReachable'
    BY <1>1, <1>2 DEF ActiveOperationReachable, Live
  <1>4. BornIsHeld'
    BY <1>1, <1>2, NoneAssumption DEF ScanInv, BornIsHeld
  <1>5. DownIsInactive'
    BY <1>1, <1>2 DEF DownIsInactive
  <1>6. ReopensDown' /\ SuspendedIsDown'
    BY <1>1, OthersKeepControl DEF StartScan
  <1>7. QED
    BY <1>3, <1>4, <1>5, <1>6 DEF ScanInv

\* The end of operations among which is the device's, if that is alive.
LEMMA FinishInv ==
  ASSUME TypeOK, ScanInv, NEW gone, NEW g \in Nat, Finish(gone, g),
         gone # {} \/ ~storage.operation_active,
         \A p \in Op \ gone : scan[p].pc = "born" => task' = task
  PROVE  ActiveOperationReachable' /\ BornIsHeld' /\ DownIsInactive' /\ storage'.ready = storage.ready
  <1>1. storage'.operation_active = FALSE /\ storage'.ready = storage.ready /\ Ends(gone)
    BY FinishType DEF TypeOK
  <1>2. \A p \in Op : scan'[p].pc = "born" => scan[p].pc = "born" /\ task' = task
    <2> SUFFICES ASSUME NEW p \in Op, scan'[p].pc = "born" PROVE scan[p].pc = "born" /\ task' = task
      OBVIOUS
    <2>1. p \notin gone
      BY <1>1, EndsFacts, TaskFacts
    <2>2. QED
      BY <1>1, <2>1, EndsFacts
  <1>3. QED
    BY <1>1, <1>2, ClearedInv

\* The steps of an operation, and its end.
LEMMA ScanStepsInv ==
  ASSUME TypeOK, ScanInv, NEW o \in Op, Scan(o)
  PROVE  ScanInv'
  <1>0. task' = task /\ ctl' = ctl /\ reader' = reader /\ task \in Op \cup {None} /\ Gen + 1 \in Nat
    BY DEF Scan, Enroll, ParseIgnored, ParseCapture, ParseFailure, ParseStop, NextCapture, StopAfterResult, TypeOK, Gen
  <1>1. storage'.ready = storage.ready /\ ActiveOperationReachable' /\ BornIsHeld' /\ DownIsInactive'
    <2>1. CASE ParseStop(o) \/ StopAfterResult(o)
      BY <1>0, <2>1, FinishInv DEF ParseStop, StopAfterResult
    <2>2. CASE Enroll(o)
      <3>1. storage'.ready = storage.ready /\ scan[o].pc = "born" /\ task = o
        BY <2>2, EnrollFacts DEF ScanInv, BornIsHeld
      <3>2. \A p \in Op : scan'[p].pc = "born" => scan[p].pc = "born"
        BY <2>2, EnrollFacts, TaskFacts
      <3>3. CASE \E p \in Op : Pending(p)
        BY <1>0, <2>2, <3>1, <3>2, <3>3, EnrollFacts, ClearedInv
      <3>4. CASE \A p \in Op : ~Pending(p)
        <4>1. \A p \in Op : Live(p) => Live(p)'
          BY <2>2, <3>4, EnrollFacts DEF Live
        <4>2. task # None
          BY <3>1, NoneAssumption
        <4>3. storage'.operation_active = storage.operation_active
          BY <2>2, <3>4, EnrollFacts
        <4>4. QED
          BY <1>0, <3>1, <3>2, <4>1, <4>2, <4>3, ScanKept
      <3>5. QED
        BY <3>3, <3>4
    <2>3. CASE ParseIgnored(o) \/ NextCapture(o)
      <3> DEFINE s == IF ParseIgnored(o) THEN scan[o] ELSE [scan[o] EXCEPT !.gen = Gen + 1]
      <3>1. s \in TaskType
        BY <1>0, TaskFacts DEF TaskType
      <3>2. WaitImage(o, s) /\ ~Given(o, "EnrollVerifyStop") /\ scan[o].pc \in {"wait", "sendMore"}
        BY <2>3 DEF ParseIgnored, NextCapture, Given
      <3>3. storage'.ready = storage.ready /\ storage'.operation_active = storage.operation_active
        BY <2>3, NextCaptureFacts DEF ParseIgnored
      <3> HIDE DEF s
      <3>4. \A p \in Op : (Live(p) => Live(p)') /\ (scan'[p].pc = "born" => scan[p].pc = "born")
        BY <3>1, <3>2, WaitFacts DEF Live
      <3>5. StopUnderway => StopUnderway'
        BY <3>1, <3>2, StopGot
      <3>6. QED
        BY <1>0, <3>3, <3>4, <3>5, ScanKept
    <2>4. CASE ParseCapture(o) \/ ParseFailure(o)
      <3>1. PICK p \in {"sendLast", "sendMore"} : scan' = [scan EXCEPT ![o].pc = p, ![o].got = <<>>]
        BY <2>4 DEF ParseCapture, ParseFailure
      <3>2. scan'[o].pc = p /\ \A q \in Op : q # o => scan'[q] = scan[q]
        BY <3>1, ParsedFacts
      <3>3. images' = images /\ storage' = storage /\ ~Given(o, "EnrollVerifyStop") /\ scan[o].pc = "wait"
        BY <2>4 DEF ParseCapture, ParseFailure, Given
      <3>4. StopUnderway => StopUnderway'
        BY <3>2, <3>3 DEF StopUnderway, Given
      <3>5. \A q \in Op : (Live(q) => Live(q)') /\ (scan'[q].pc = "born" => scan[q].pc = "born")
        BY <3>2 DEF Live
      <3>6. QED
        BY <1>0, <3>3, <3>4, <3>5, ScanKept
    <2>5. QED
      BY <2>1, <2>2, <2>3, <2>4 DEF Scan
  <1>2. ReopensDown' /\ SuspendedIsDown'
    <2>1. \/ events' = events
          \/ \E t \in EventTypes \ {"InitResult", "TLS_Ready"} : events' = Append(events, Event(t))
      BY DEF Scan, Enroll, ParseIgnored, ParseCapture, ParseFailure, ParseStop, NextCapture, StopAfterResult, EventTypes
    <2>2. QED
      BY <1>0, <1>1, <2>1, OthersKeepControl
  <1>3. QED
    BY <1>1, <1>2 DEF ScanInv

\* What the device does to an operation: stop it, cancel it, let its client go.
LEMMA DeviceStepsInv ==
  ASSUME TypeOK, ScanInv, StopScan \/ ReleaseScan \/ ClaimerGone
  PROVE  ScanInv'
  <1>0. ctl' = ctl /\ reader' = reader /\ task \in Op \cup {None} /\ Gen \in Nat
    BY DEF StopScan, ReleaseScan, ClaimerGone, TypeOK, Gen
  <1>1. storage'.ready = storage.ready /\ ActiveOperationReachable' /\ BornIsHeld' /\ DownIsInactive'
    <2>1. CASE StopScan
      <3>1. storage' = storage /\ task' = None /\ task \in Op /\ task # None /\ scan[task].pc # "born"
        BY <1>0, <2>1 DEF StopScan
      <3>2. PutImage(Notice("EnrollVerifyStop")) /\ Notice("EnrollVerifyStop") \in ImageItem
            /\ Notice("EnrollVerifyStop").type = "EnrollVerifyStop"
        BY <2>1, MessageTypes DEF StopScan, ImageTypes, Notice
      <3>3. StopUnderway' /\ \A p \in Op : (Live(p)' <=> Live(p)) /\ scan'[p].pc = scan[p].pc
        BY <3>2, StopPut, PutFacts
      <3>4. ActiveOperationReachable'
        BY <3>1, <3>3 DEF ScanInv, ActiveOperationReachable
      <3>5. BornIsHeld'
        BY <3>1, <3>3 DEF ScanInv, BornIsHeld
      <3>6. QED
        BY <1>0, <3>1, <3>4, <3>5 DEF ScanInv, DownIsInactive
    <2>2. CASE task # None /\ (ReleaseScan \/ ClaimerGone)
      <3>1. PICK more : Finish(Held \cup more, Gen)
        <4>1. Held = Held \cup {}
          OBVIOUS
        <4>2. QED
          BY <2>2, <4>1 DEF ReleaseScan, ClaimerGone
      <3>2. Held # {} \/ ~storage.operation_active
        BY <2>2 DEF Held, ScanInv, ActiveOperationReachable
      <3>3. \A p \in Op : scan[p].pc = "born" => p \in Held
        BY <2>2 DEF Held, Live, ScanInv, BornIsHeld
      <3>4. QED
        BY <1>0, <3>1, <3>2, <3>3, FinishInv
    <2>3. CASE ClaimerGone /\ UNCHANGED <<scan, storage, task, images>>
      <3>1. \A p \in Op : (Live(p) => Live(p)') /\ (scan'[p].pc = "born" => scan[p].pc = "born")
        BY <2>3 DEF Live
      <3>2. StopUnderway => StopUnderway'
        BY <2>3 DEF StopUnderway, Given
      <3>3. QED
        BY <1>0, <2>3, <3>1, <3>2, ScanKept
    <2>4. QED
      BY <2>1, <2>2, <2>3 DEF ReleaseScan, ClaimerGone
  <1>2. ReopensDown' /\ SuspendedIsDown'
    <2>1. \/ events' = events
          \/ \E t \in EventTypes \ {"InitResult", "TLS_Ready"} : events' = Append(events, Event(t))
      BY DEF StopScan, ReleaseScan, ClaimerGone, EventTypes
    <2>2. QED
      BY <1>0, <1>1, <2>1, OthersKeepControl
  <1>3. QED
    BY <1>1, <1>2 DEF ScanInv
-----------------------------------------------------------------------------
(* Teardown and recovery. *)

\* cleanup_device() with the flag down, or with somebody to end, clears the flag.
LEMMA CleanupScan ==
  ASSUME TypeOK, ScanInv, NEW ends, CleanupDevice(ends), task' = task,
         storage.operation_active => \E o \in Op : Pending(o)
  PROVE  /\ ActiveOperationReachable' /\ BornIsHeld' /\ DownIsInactive'
         /\ ~storage'.ready /\ reader'.link = "down" /\ Quiet'
  <1>1. /\ storage'.operation_active = (storage.operation_active /\ Gone(ends) = {})
        /\ storage'.ready = FALSE /\ Ends(Gone(ends))
    BY CleanupType
  <1>2. storage'.operation_active = FALSE
    BY <1>1 DEF Gone, TypeOK
  <1>3. \A p \in Op : scan'[p].pc = "born" => scan[p].pc = "born" /\ task' = task
    <2> SUFFICES ASSUME NEW p \in Op, scan'[p].pc = "born" PROVE scan[p].pc = "born"
      OBVIOUS
    <2>1. p \notin Gone(ends)
      BY <1>1, EndsFacts, TaskFacts
    <2>2. QED
      BY <1>1, <2>1, EndsFacts
  <1>4. reader'.link = "down" /\ Quiet'
    BY DEF CleanupDevice, LinkDown, Quiet
  <1>5. QED
    BY <1>1, <1>2, <1>3, <1>4, ClearedInv

\* begin_recovery() leaves a session that is down, suspended only if the system
\* sleeps, and then idle.
LEMMA BeginRecoveryInv ==
  ASSUME TypeOK, ScanInv, NEW c \in CtlType, BeginRecovery(c), task' = task,
         storage.operation_active => \E o \in Op : Pending(o)
  PROVE  ScanInv'
  <1> DEFINE after == IF storage.sleeping THEN [c EXCEPT !.pc = "idle"] ELSE Schedule(c)
  <1>1. after \in CtlType /\ (storage.sleeping => after.pc = "idle") /\ (~storage.sleeping => after.pc # "yield")
    BY ScheduleType DEF CtlType, Schedule
  <1>2. CleanupDevice(after.pc = "ended")
    BY DEF BeginRecovery
  <1>3. ctl' = [after EXCEPT !.active = FALSE, !.watchdog = FALSE, !.suspended = storage.sleeping]
    BY DEF BeginRecovery
  <1>4. storage.sleeping \in BOOLEAN
    BY DEF TypeOK
  <1> HIDE DEF after
  <1>5. ctl'.pc = after.pc /\ ctl'.active = FALSE /\ ctl'.suspended = storage.sleeping
    BY <1>1, <1>3 DEF CtlType
  <1>6. /\ ActiveOperationReachable' /\ BornIsHeld' /\ DownIsInactive'
        /\ ~storage'.ready /\ reader'.link = "down" /\ Quiet'
    BY <1>2, CleanupScan
  <1>7. ReopensDown'
    BY <1>1, <1>4, <1>5, <1>6 DEF ReopensDown
  <1>8. SuspendedIsDown'
    BY <1>1, <1>4, <1>5, <1>6 DEF SuspendedIsDown
  <1>9. QED
    BY <1>6, <1>7, <1>8 DEF ScanInv

\* notify_operation_failed(): the operation is told and given time, or there is
\* none and the recovery begins at once.
LEMMA OperationFailedInv ==
  ASSUME TypeOK, ScanInv, NEW c \in CtlType, NEW rest, OperationFailed(c, rest), task' = task
  PROVE  ScanInv'
  <1>1. CASE storage.operation_active
    <2>1. /\ storage' = [storage EXCEPT !.ready = FALSE] /\ ctl' = [c EXCEPT !.pc = "yield"]
          /\ PutImage(Notice("TransportFailed")) /\ Notice("TransportFailed") \in ImageItem
      BY <1>1, MessageTypes DEF OperationFailed, ImageTypes
    <2>2. ~storage'.ready /\ storage'.operation_active = storage.operation_active /\ ctl'.pc = "yield"
      BY <2>1 DEF TypeOK, CtlType
    <2>3. /\ \A p \in Op : (Live(p)' <=> Live(p)) /\ scan'[p].pc = scan[p].pc
          /\ StopUnderway => StopUnderway'
      BY <2>1, PutFacts, StopPut
    <2>4. task \in Op \cup {None}
      BY DEF TypeOK
    <2>5. ActiveOperationReachable' /\ BornIsHeld'
      BY <2>2, <2>3, <2>4 DEF ScanInv, ActiveOperationReachable, BornIsHeld
    <2>6. DownIsInactive' /\ ReopensDown' /\ SuspendedIsDown'
      BY <2>2 DEF DownIsInactive, ReopensDown, SuspendedIsDown
    <2>7. QED
      BY <2>5, <2>6 DEF ScanInv
  <1>2. CASE ~storage.operation_active
    BY <1>2, BeginRecoveryInv DEF OperationFailed
  <1>3. QED
    BY <1>1, <1>2

\* The resumed recovery, the attempt to open the reader and its initialisation.
LEMMA RecoveryStepsInv ==
  ASSUME TypeOK, ScanInv, ResumeRecovery \/ Reopen \/ InitDevice
  PROVE  ScanInv'
  <1>0. ctl \in CtlType /\ task' = task
    BY TypeControl DEF ControlType, ResumeRecovery, Reopen, InitDevice
  <1>1. CASE ResumeRecovery
    <2>1. storage.operation_active => \E o \in Op : Live(o)
      BY DEF ScanInv, ActiveOperationReachable, TypeOK
    <2>2. storage.operation_active => \E o \in Op : Pending(o)
      BY <1>1, <2>1 DEF ResumeRecovery, Moving
    <2>3. QED
      BY <1>0, <1>1, <2>2, BeginRecoveryInv DEF ResumeRecovery
  <1> DEFINE Kept == UNCHANGED <<storage, scan, events, images>>
  <1>2. ASSUME ctl.pc \in {"reopen", "init"}
        PROVE  ~storage.ready /\ ~ctl.suspended /\ ~storage.operation_active
    BY <1>2 DEF ScanInv, ReopensDown, DownIsInactive
  <1>3. ASSUME ctl.pc \in {"reopen", "init"}, Kept, ctl'.pc # "yield", ctl'.suspended = ctl.suspended
        PROVE  ScanInv'
    <2>1. ActiveOperationReachable' /\ BornIsHeld' /\ DownIsInactive'
      BY <1>0, <1>2, <1>3 DEF ScanInv, ActiveOperationReachable, BornIsHeld, DownIsInactive
    <2>2. QED
      BY <1>2, <1>3, <2>1 DEF ScanInv, ReopensDown, SuspendedIsDown
  <1>4. ASSUME ctl.pc \in {"reopen", "init"}, CleanupDevice(TRUE), ctl'.pc = "ended",
               ctl'.suspended = ctl.suspended
        PROVE  ScanInv'
    <2>1. ActiveOperationReachable' /\ BornIsHeld' /\ DownIsInactive'
      BY <1>0, <1>2, <1>4, CleanupScan
    <2>2. ReopensDown' /\ SuspendedIsDown'
      BY <1>2, <1>4 DEF ReopensDown, SuspendedIsDown
    <2>3. QED
      BY <2>1, <2>2 DEF ScanInv
  <1>5. CASE Reopen
    <2>1. ctl.pc = "reopen" /\ ctl'.suspended = ctl.suspended /\ ctl'.pc # "yield"
      BY <1>0, <1>5 DEF Reopen, Schedule, CtlType
    <2>2. Kept \/ (CleanupDevice(TRUE) /\ ctl'.pc = "ended")
      BY <1>0, <1>5 DEF Reopen, Schedule, CtlType
    <2>3. QED
      BY <1>3, <1>4, <2>1, <2>2
  <1>6. CASE InitDevice
    <2>1. CASE OperationFailed(ctl, events)
      BY <1>0, <2>1, OperationFailedInv
    <2>2. CASE ~OperationFailed(ctl, events)
      <3>1. ctl.pc = "init" /\ ctl'.suspended = ctl.suspended /\ ctl'.pc # "yield"
        BY <1>0, <1>6, <2>2 DEF InitDevice, CtlType
      <3>2. Kept \/ (CleanupDevice(TRUE) /\ ctl'.pc = "ended")
        BY <1>0, <1>6, <2>2 DEF InitDevice, CtlType
      <3>3. QED
        BY <1>3, <1>4, <3>1, <3>2
    <2>3. QED
      BY <2>1, <2>2
  <1>7. QED
    BY <1>1, <1>5, <1>6
-----------------------------------------------------------------------------
(* The handlers, the pauses and the environment. *)

\* A step that leaves the operations alone, or gives one of them an item.
LEMMA HandlerKeeps ==
  ASSUME TypeOK, ScanInv, task' = task,
         storage'.operation_active = storage.operation_active,
         storage.ready => storage'.ready,
         ctl'.pc = ctl.pc \/ ctl.pc # "yield",
         UNCHANGED <<scan, images>> \/ \E e \in ImageItem : PutImage(e)
  PROVE  ActiveOperationReachable' /\ BornIsHeld' /\ DownIsInactive'
  <1>1. task \in Op \cup {None}
    BY DEF TypeOK
  <1>2. \A p \in Op : (Live(p) => Live(p)') /\ (scan'[p].pc = "born" => scan[p].pc = "born")
    <2>1. CASE UNCHANGED <<scan, images>>
      BY <2>1 DEF Live
    <2>2. CASE \E e \in ImageItem : PutImage(e)
      BY <2>2, PutFacts
    <2>3. QED
      BY <2>1, <2>2
  <1>3. StopUnderway => StopUnderway'
    <2>1. CASE UNCHANGED <<scan, images>>
      BY <2>1 DEF StopUnderway, Given
    <2>2. CASE \E e \in ImageItem : PutImage(e)
      BY <2>2, StopPut
    <2>3. QED
      BY <2>1, <2>2
  <1>4. QED
    BY <1>1, <1>2, <1>3, ScanKept

\* A handler runs in an idle controller; a suspended one gets no event that
\* brings the session on.
LEMMA HandlerFacts ==
  ASSUME TypeOK, ScanInv, NEW t \in EventTypes, Gets(t)
  PROVE  /\ ctl.pc = "idle" /\ events # <<>> /\ Head(events).type = t
         /\ ctl.suspended =>
              /\ ~storage.ready /\ ~ctl.active /\ reader.link = "down" /\ Quiet
              /\ t \notin {"InitResult", "TLS_Ready"}
         /\ Taken /\ Quiet => Quiet'
  <1>1. ctl.pc = "idle" /\ events # <<>> /\ Head(events).type = t
    BY DEF Gets
  <1>2. events \in Seq(EventType)
    BY QueueTypes
  <1>3. 1 \in DOMAIN events /\ Head(events) = events[1]
    <2> HIDE DEF EventType
    <2>1. QED
      BY <1>1, <1>2
  <1>4. ctl.suspended => ~storage.ready /\ ~ctl.active /\ reader.link = "down" /\ Quiet
    BY <1>1 DEF ScanInv, SuspendedIsDown
  <1>5. Quiet => t \notin {"InitResult", "TLS_Ready"}
    BY <1>1, <1>3 DEF Quiet
  <1>6. Taken /\ Quiet => Quiet'
    BY <1>1, QuietKept DEF Taken
  <1>7. QED
    BY <1>1, <1>4, <1>5, <1>6

\* The handlers of the events that bring a session on.
LEMMA HandshakeHandlersInv ==
  ASSUME TypeOK, ScanInv, OnInitResult \/ OnTLSReady
  PROVE  ScanInv'
  <1>1. ctl.pc = "idle" /\ ~ctl.suspended
    BY HandlerFacts DEF OnInitResult, OnTLSReady, EventTypes
  <1>2. ctl'.pc = "busy" /\ ctl'.suspended = ctl.suspended
    BY TypeControl DEF OnInitResult, OnTLSReady, ControlType, CtlType
  <1>3. storage'.operation_active = storage.operation_active /\ (storage.ready => storage'.ready)
    BY DEF OnInitResult, OnTLSReady, TypeOK
  <1>4. UNCHANGED <<scan, task, images>>
    BY DEF OnInitResult, OnTLSReady
  <1>5. ActiveOperationReachable' /\ BornIsHeld' /\ DownIsInactive'
    BY <1>1, <1>3, <1>4, HandlerKeeps
  <1>6. QED
    BY <1>1, <1>2, <1>5 DEF ScanInv, ReopensDown, SuspendedIsDown

\* The handlers of what operations and the sensor ask for.
LEMMA CaptureHandlersInv ==
  ASSUME TypeOK, ScanInv, OnStartSensor \/ OnStopSensor \/ OnFingerDown \/ OnImage
  PROVE  ScanInv'
  <1> DEFINE t == Head(events).type
  <1>1. Gets(t) /\ t \in EventTypes
    BY DEF OnStartSensor, OnStopSensor, OnFingerDown, OnImage, Gets, EventTypes
  <1>2. Taken /\ UNCHANGED <<storage, task>>
    BY DEF OnStartSensor, OnStopSensor, OnFingerDown, OnImage
  <1>3. UNCHANGED <<scan, images>> \/ \E e \in ImageItem : PutImage(e)
    <2>1. ctl.gen \in Nat /\ (events # <<>> => Head(events).latched \in BOOLEAN)
      BY QueueTypes DEF TypeOK, EventType
    <2>2. [Notice("FingerDown") EXCEPT !.gen = ctl.gen] \in ImageItem
      BY <2>1 DEF Notice, ImageItem, ImageTypes
    <2>3. events # <<>> => [type |-> "Image", gen |-> ctl.gen, latched |-> Head(events).latched] \in ImageItem
      BY <2>1 DEF ImageItem, ImageTypes
    <2> HIDE DEF ImageItem
    <2>4. QED
      BY <2>2, <2>3 DEF OnStartSensor, OnStopSensor, OnFingerDown, OnImage, Gets
  <1>4. ctl.pc = "idle"
    BY <1>1 DEF Gets
  <1>5. ActiveOperationReachable' /\ BornIsHeld' /\ DownIsInactive'
    BY <1>2, <1>3, <1>4, HandlerKeeps
  <1>6. ctl'.pc \in {"idle", "arm", "busy", "pause"} /\ ctl'.suspended = ctl.suspended
    BY <1>4, TypeControl DEF OnStartSensor, OnStopSensor, OnFingerDown, OnImage, StartSensor, ControlType, CtlType
  <1>7. ~storage.ready /\ ~ctl.active => ctl'.pc = "idle" /\ ctl'.active = FALSE /\ reader' = reader
    BY <1>4, TypeControl
       DEF OnStartSensor, OnStopSensor, OnFingerDown, OnImage, StartSensor, Capturing, ControlType, CtlType
  <1>8. ReopensDown'
    BY <1>6 DEF ReopensDown
  <1>9. SuspendedIsDown'
    <2>1. ctl.suspended => ~storage.ready /\ ~ctl.active /\ reader.link = "down" /\ Quiet'
      BY <1>1, <1>2, HandlerFacts
    <2>2. QED
      BY <1>2, <1>6, <1>7, <2>1 DEF SuspendedIsDown
  <1>10. QED
    BY <1>5, <1>8, <1>9 DEF ScanInv

\* The handlers of failures and of the system's sleep and resume.
LEMMA FailureHandlersInv ==
  ASSUME TypeOK, ScanInv, OnTransportFailed \/ OnSuspend \/ OnResume \/ TransferFailed
  PROVE  ScanInv'
  <1>0. ctl \in CtlType
    BY TypeControl DEF ControlType
  <1>1. CASE OnTransportFailed \/ TransferFailed
    BY <1>0, <1>1, OperationFailedInv DEF OnTransportFailed, TransferFailed
  <1>2. CASE OnSuspend
    <2> DEFINE c == [ctl EXCEPT !.suspended = TRUE, !.active = FALSE]
    <2>1. c \in CtlType
      BY <1>0 DEF CtlType
    <2>2. OperationFailed(c, Tail(events)) /\ task' = task
      BY <1>2 DEF OnSuspend
    <2> HIDE DEF c
    <2>3. QED
      BY <2>1, <2>2, OperationFailedInv
  <1>3. CASE OnResume
    <2>1. ctl.pc = "idle" /\ (ctl.suspended => ~storage.ready)
      BY <1>3, HandlerFacts DEF OnResume, EventTypes
    <2>2. UNCHANGED <<storage, scan, task, images, reader>>
      BY <1>3 DEF OnResume
    <2>3. ActiveOperationReachable' /\ BornIsHeld' /\ DownIsInactive'
      BY <2>1, <2>2, HandlerKeeps
    <2>4. ctl'.suspended = FALSE /\ (ctl' = ctl \/ ~storage'.ready)
      BY <1>0, <1>3, <2>1, <2>2 DEF OnResume, CtlType
    <2>5. ReopensDown' /\ SuspendedIsDown'
      BY <2>1, <2>4 DEF ReopensDown, SuspendedIsDown
    <2>6. QED
      BY <2>3, <2>5 DEF ScanInv
  <1>4. QED
    BY <1>1, <1>2, <1>3

\* The pauses before an arm and a capture, and the completed transfers.
LEMMA PausesInv ==
  ASSUME TypeOK, ScanInv, SubmitArm \/ GetImage \/ TransferDone
  PROVE  ScanInv'
  <1>1. ctl.pc \in {"arm", "pause", "busy"} /\ UNCHANGED <<storage, scan, task, events, images>>
    BY DEF SubmitArm, GetImage, TransferDone
  <1>2. ctl'.pc \in {"busy", "idle"} /\ ctl'.suspended = ctl.suspended
    BY TypeControl DEF SubmitArm, GetImage, TransferDone, ControlType, CtlType
  <1>3. ActiveOperationReachable' /\ BornIsHeld' /\ DownIsInactive'
    BY <1>1, HandlerKeeps
  <1>4. ~ctl.suspended
    BY <1>1 DEF ScanInv, SuspendedIsDown
  <1>5. QED
    BY <1>2, <1>3, <1>4 DEF ScanInv, ReopensDown, SuspendedIsDown

\* The watchdog, the system and the reader: a reader whose link is down is
\* silent, so nothing brings a suspended session on.
LEMMA EnvironmentInv ==
  ASSUME TypeOK, ScanInv,
         Watchdog \/ PowerChanged \/ Handshake \/ FingerTouches \/ ImageArrives \/ TransportFails
  PROVE  ScanInv'
  <1>1. UNCHANGED <<scan, task, images>>
    BY DEF Watchdog, PowerChanged, Handshake, FingerTouches, ImageArrives, TransportFails, Reports
  <1>2. ctl'.pc = ctl.pc /\ ctl'.suspended = ctl.suspended /\ ctl'.active = ctl.active
    BY DEF Watchdog, PowerChanged, Handshake, FingerTouches, ImageArrives, TransportFails, Reports, TypeOK
  <1>3. storage'.ready = storage.ready /\ storage'.operation_active = storage.operation_active
    BY DEF Watchdog, PowerChanged, Handshake, FingerTouches, ImageArrives, TransportFails, Reports, TypeOK
  <1>4. ActiveOperationReachable' /\ BornIsHeld' /\ DownIsInactive'
    BY <1>1, <1>2, <1>3, HandlerKeeps
  <1>5. ReopensDown'
    BY <1>2, <1>3 DEF ScanInv, ReopensDown
  <1>6. reader.link = "down" => reader'.link = "down"
    BY DEF Watchdog, PowerChanged, Handshake, FingerTouches, ImageArrives, TransportFails, Reports, TypeOK
  <1>7. reader.link = "down" /\ Quiet => Quiet'
    <2>1. \A e \in EventTypes : Event(e) \in EventType /\ Event(e).type = e
      BY MessageTypes DEF Event
    <2>2. \A e \in EventTypes, l \in BOOLEAN : Touch(e, l) \in EventType /\ Touch(e, l).type = e
      BY MessageTypes DEF Touch
    <2>3. reader.latch \in BOOLEAN /\ reader.touch \in BOOLEAN
      BY DEF TypeOK
    <2> HIDE DEF EventType
    <2>4. CASE Watchdog \/ PowerChanged \/ TransportFails
      <3>1. \/ events' = events
            \/ \E t \in {"TransportFailed", "Suspend", "Resume"} : events' = Append(events, Event(t))
        BY <2>4 DEF Watchdog, PowerChanged, TransportFails, Reports
      <3>2. QED
        BY <2>1, <3>1, QuietKept DEF EventTypes
    <2>5. CASE FingerTouches \/ ImageArrives
      <3>1. \E t \in {"FingerDown", "Image"}, l \in BOOLEAN : events' = Append(events, Touch(t, l))
        BY <2>3, <2>5 DEF FingerTouches, ImageArrives, Reports
      <3>2. QED
        BY <2>2, <3>1, QuietKept DEF EventTypes
    <2>6. CASE Handshake
      BY <2>6 DEF Handshake
    <2>7. QED
      BY <2>4, <2>5, <2>6
  <1>8. SuspendedIsDown'
    BY <1>2, <1>3, <1>6, <1>7 DEF ScanInv, SuspendedIsDown
  <1>9. QED
    BY <1>4, <1>5, <1>8 DEF ScanInv

\* Every step keeps ScanInv.
LEMMA NextScanInv == TypeOK /\ ScanInv /\ [Next]_vars => ScanInv'
  <1> SUFFICES ASSUME TypeOK, ScanInv, [Next]_vars PROVE ScanInv'
    OBVIOUS
  <1>1. CASE UNCHANGED vars
    <2>1. ActiveOperationReachable' /\ BornIsHeld' /\ DownIsInactive'
      BY <1>1, HandlerKeeps DEF vars
    <2>2. QED
      BY <1>1, <2>1 DEF vars, ScanInv, ReopensDown, SuspendedIsDown, Quiet
  <1>2. CASE \E o \in Op : StartScan(o) \/ Scan(o)
    BY <1>2, StartScanInv, ScanStepsInv
  <1>3. CASE StopScan \/ ReleaseScan \/ ClaimerGone
    BY <1>3, DeviceStepsInv
  <1>4. CASE Control \/ TransferFailed
    BY <1>4, RecoveryStepsInv, HandshakeHandlersInv, CaptureHandlersInv, FailureHandlersInv, PausesInv
       DEF Control
  <1>5. CASE Watchdog \/ PowerChanged \/ Handshake \/ FingerTouches \/ ImageArrives \/ TransportFails
    BY <1>5, EnvironmentInv
  <1>6. QED
    BY <1>1, <1>2, <1>3, <1>4, <1>5 DEF Next, Environment
-----------------------------------------------------------------------------
(* The Resume that a suspended controller waits for. *)

\* A queued Resume stays until it is taken.
LEMMA ResumeKept ==
  ASSUME TypeOK, Queued(Event("Resume")),
         \/ events' = events
         \/ \E e \in EventType : events' = Append(events, e)
         \/ events # <<>> /\ Head(events).type # "Resume" /\ events' = Tail(events)
  PROVE  Queued(Event("Resume"))'
  <1>1. events \in Seq(EventType)
    BY QueueTypes
  <1>2. PICK i \in DOMAIN events : events[i] = Event("Resume")
    BY DEF Queued
  <1> HIDE DEF EventType
  <1>3. CASE events' = events
    BY <1>2, <1>3 DEF Queued
  <1>4. CASE \E e \in EventType : events' = Append(events, e)
    <2>1. i \in DOMAIN events' /\ events'[i] = events[i]
      BY <1>1, <1>2, <1>4
    <2>2. QED
      BY <1>2, <2>1 DEF Queued
  <1>5. CASE events # <<>> /\ Head(events).type # "Resume" /\ events' = Tail(events)
    <2>1. i # 1
      BY <1>1, <1>2, <1>5 DEF Event
    <2>2. i - 1 \in DOMAIN events' /\ events'[i - 1] = events[i]
      BY <1>1, <1>2, <1>5, <2>1
    <2>3. QED
      BY <1>2, <2>2 DEF Queued
  <1>6. QED
    BY <1>3, <1>4, <1>5

\* The events anyone pushes.
LEMMA PushedEvents ==
  ASSUME TypeOK,
         \/ \E o \in Op : StartScan(o) \/ Scan(o)
         \/ StopScan \/ ReleaseScan \/ ClaimerGone \/ Watchdog
         \/ PowerChanged \/ Handshake \/ FingerTouches \/ ImageArrives \/ TransportFails
  PROVE  events' = events \/ \E e \in EventType : events' = Append(events, e)
  <1>1. reader.latch \in BOOLEAN /\ reader.touch \in BOOLEAN
    BY DEF TypeOK
  <1>2. \A t \in EventTypes : Event(t) \in EventType /\ \A l \in BOOLEAN : Touch(t, l) \in EventType
    BY MessageTypes
  <1> HIDE DEF EventType
  <1>3. \/ events' = events
        \/ \E t \in EventTypes : events' = Append(events, Event(t))
        \/ \E t \in EventTypes, l \in BOOLEAN : events' = Append(events, Touch(t, l))
    <2>1. CASE \E o \in Op : StartScan(o) \/ Scan(o)
      BY <2>1 DEF StartScan, Scan, Enroll, ParseIgnored, ParseCapture, ParseFailure, ParseStop, NextCapture,
                  StopAfterResult, EventTypes
    <2>2. CASE StopScan \/ ReleaseScan \/ ClaimerGone \/ Watchdog \/ TransportFails \/ Handshake
      BY <2>2 DEF StopScan, ReleaseScan, ClaimerGone, Watchdog, TransportFails, Handshake, Reports, EventTypes
    <2>3. CASE PowerChanged \/ FingerTouches \/ ImageArrives
      BY <1>1, <2>3 DEF PowerChanged, FingerTouches, ImageArrives, Reports, EventTypes
    <2>4. QED
      BY <2>1, <2>2, <2>3
  <1>4. QED
    BY <1>2, <1>3

\* begin_recovery() asks whether the system sleeps; a session that failed under
\* an operation is torn down by it later.
LEMMA OperationFailedResume ==
  ASSUME TypeOK, NEW c \in CtlType, NEW rest, OperationFailed(c, rest) \/ BeginRecovery(c)
  PROVE  NeverStuckSuspended'
  <1>1. CASE BeginRecovery(c)
    <2> DEFINE after == IF storage.sleeping THEN [c EXCEPT !.pc = "idle"] ELSE Schedule(c)
    <2>1. after \in CtlType
      BY ScheduleType DEF CtlType
    <2>2. ctl' = [after EXCEPT !.active = FALSE, !.watchdog = FALSE, !.suspended = storage.sleeping]
      BY <1>1 DEF BeginRecovery
    <2>3. storage'.sleeping = storage.sleeping
      BY <1>1 DEF BeginRecovery, CleanupDevice, TypeOK
    <2> HIDE DEF after
    <2>4. ctl'.suspended = storage.sleeping
      BY <2>1, <2>2 DEF CtlType
    <2>5. QED
      BY <2>3, <2>4 DEF NeverStuckSuspended
  <1>2. CASE ~BeginRecovery(c)
    <2>1. ctl' = [c EXCEPT !.pc = "yield"]
      BY <1>2 DEF OperationFailed
    <2>2. ctl'.pc = "yield"
      BY <2>1 DEF CtlType
    <2>3. QED
      BY <2>2 DEF NeverStuckSuspended
  <1>3. QED
    BY <1>1, <1>2

\* Operations and the device change neither whether the system sleeps nor
\* whether the session is ready.
LEMMA SleepAndReadyKept ==
  ASSUME TypeOK,
         (\E o \in Op : StartScan(o) \/ Scan(o)) \/ StopScan \/ ReleaseScan \/ ClaimerGone
  PROVE  storage'.sleeping = storage.sleeping /\ storage'.ready = storage.ready
  <1>0. Gen \in Nat /\ Gen + 1 \in Nat
    BY DEF TypeOK, Gen
  <1>1. CASE \E o \in Op : StartScan(o) \/ Enroll(o) \/ NextCapture(o)
    BY <1>1, StartFacts, EnrollFacts, NextCaptureFacts
  <1>2. CASE \E o \in Op : ParseStop(o) \/ StopAfterResult(o)
    BY <1>0, <1>2, FinishType DEF ParseStop, StopAfterResult
  <1>3. CASE \E o \in Op : ParseIgnored(o) \/ ParseCapture(o) \/ ParseFailure(o)
    BY <1>3 DEF ParseIgnored, ParseCapture, ParseFailure
  <1>4. CASE StopScan \/ ReleaseScan \/ ClaimerGone
    BY <1>0, <1>4, FinishType DEF StopScan, ReleaseScan, ClaimerGone
  <1>5. QED
    BY <1>1, <1>2, <1>3, <1>4 DEF Scan

\* Every step keeps the Resume coming.
LEMMA NextResume == TypeOK /\ ScanInv /\ NeverStuckSuspended /\ [Next]_vars => NeverStuckSuspended'
  <1> SUFFICES ASSUME TypeOK, ScanInv, NeverStuckSuspended, [Next]_vars PROVE NeverStuckSuspended'
    OBVIOUS
  <1>0. ctl \in CtlType
    BY TypeControl DEF ControlType
  <1>1. CASE PowerChanged
    <2>1. storage'.sleeping = ~storage.sleeping
      BY <1>1 DEF PowerChanged, TypeOK
    <2>2. ~storage'.sleeping => Queued(Event("Resume"))'
      <3> SUFFICES ASSUME ~storage'.sleeping PROVE Queued(Event("Resume"))'
        OBVIOUS
      <3>1. events' = Append(events, Event("Resume"))
        BY <1>1, <2>1 DEF PowerChanged
      <3>2. events \in Seq(EventType) /\ Event("Resume") \in EventType
        BY QueueTypes, MessageTypes DEF EventTypes
      <3> HIDE DEF EventType
      <3>3. Len(events) + 1 \in DOMAIN events' /\ events'[Len(events) + 1] = Event("Resume")
        BY <3>1, <3>2
      <3>4. QED
        BY <3>3 DEF Queued
    <2>3. QED
      BY <2>2 DEF NeverStuckSuspended
  <1>2. CASE \/ \E o \in Op : StartScan(o) \/ Scan(o)
             \/ StopScan \/ ReleaseScan \/ ClaimerGone \/ Watchdog
             \/ Handshake \/ FingerTouches \/ ImageArrives \/ TransportFails
             \/ UNCHANGED vars
    <2>1. Queued(Event("Resume")) => Queued(Event("Resume"))'
      <3>1. events' = events \/ \E e \in EventType : events' = Append(events, e)
        <4>1. CASE UNCHANGED vars
          BY <4>1 DEF vars
        <4>2. CASE ~UNCHANGED vars
          BY <1>2, <4>2, PushedEvents
        <4>3. QED
          BY <4>1, <4>2
      <3>2. QED
        BY <3>1, ResumeKept
    <2>2. ctl'.suspended = ctl.suspended /\ ctl'.pc = ctl.pc /\ storage'.sleeping = storage.sleeping
      <3>1. CASE \E o \in Op : StartScan(o) \/ Scan(o)
        BY <3>1, SleepAndReadyKept DEF StartScan, Scan, Enroll, ParseIgnored, ParseCapture, ParseFailure, ParseStop,
                               NextCapture, StopAfterResult
      <3>2. CASE StopScan \/ ReleaseScan \/ ClaimerGone
        BY <3>2, SleepAndReadyKept DEF StopScan, ReleaseScan, ClaimerGone
      <3>3. CASE Watchdog \/ Handshake \/ FingerTouches \/ ImageArrives \/ TransportFails \/ UNCHANGED vars
        BY <3>3 DEF Watchdog, Handshake, FingerTouches, ImageArrives, TransportFails, Reports, vars, TypeOK
      <3>4. QED
        BY <1>2, <3>1, <3>2, <3>3
    <2>3. QED
      BY <2>1, <2>2 DEF NeverStuckSuspended
  <1>3. CASE ResumeRecovery \/ OnTransportFailed \/ TransferFailed
    BY <1>0, <1>3, OperationFailedResume DEF ResumeRecovery, OnTransportFailed, TransferFailed
  <1>4. CASE OnSuspend
    <2> DEFINE c == [ctl EXCEPT !.suspended = TRUE, !.active = FALSE]
    <2>1. c \in CtlType /\ OperationFailed(c, Tail(events))
      BY <1>0, <1>4 DEF OnSuspend, CtlType
    <2> HIDE DEF c
    <2>2. QED
      BY <2>1, OperationFailedResume
  <1>5. CASE Reopen \/ InitDevice
    <2>1. CASE OperationFailed(ctl, events)
      BY <1>0, <2>1, OperationFailedResume
    <2>2. CASE ~OperationFailed(ctl, events)
      <3>1. ~ctl.suspended
        BY <1>5 DEF Reopen, InitDevice, ScanInv, ReopensDown
      <3>2. ctl'.suspended = ctl.suspended
        BY <1>0, <1>5, <2>2 DEF Reopen, InitDevice, Schedule, CtlType
      <3>3. QED
        BY <3>1, <3>2 DEF NeverStuckSuspended
    <2>3. QED
      BY <2>1, <2>2
  <1>6. CASE SubmitArm \/ GetImage \/ TransferDone
    <2>1. ~ctl.suspended
      BY <1>6 DEF SubmitArm, GetImage, TransferDone, ScanInv, SuspendedIsDown
    <2>2. ctl'.suspended = ctl.suspended
      BY <1>0, <1>6 DEF SubmitArm, GetImage, TransferDone, CtlType
    <2>3. QED
      BY <2>1, <2>2 DEF NeverStuckSuspended
  <1>7. CASE OnResume
    <2>1. ctl'.suspended = FALSE
      BY <1>0, <1>7 DEF OnResume, CtlType
    <2>2. QED
      BY <2>1 DEF NeverStuckSuspended
  <1>8. CASE OnInitResult \/ OnTLSReady \/ OnStartSensor \/ OnStopSensor \/ OnFingerDown \/ OnImage
    <2>1. events # <<>> /\ Head(events).type # "Resume" /\ events' = Tail(events) /\ ctl.pc = "idle"
      BY <1>8 DEF OnInitResult, OnTLSReady, OnStartSensor, OnStopSensor, OnFingerDown, OnImage, Gets, Taken
    <2>2. Queued(Event("Resume")) => Queued(Event("Resume"))'
      BY <2>1, ResumeKept
    <2>3. ctl'.suspended = ctl.suspended
      BY <1>0, <1>8
         DEF OnInitResult, OnTLSReady, OnStartSensor, OnStopSensor, OnFingerDown, OnImage, StartSensor, CtlType
    <2>4. storage'.sleeping = storage.sleeping
      BY <1>8 DEF OnInitResult, OnTLSReady, OnStartSensor, OnStopSensor, OnFingerDown, OnImage, TypeOK
    <2>5. QED
      BY <2>1, <2>2, <2>3, <2>4 DEF NeverStuckSuspended
  <1>9. QED
    BY <1>1, <1>2, <1>3, <1>4, <1>5, <1>6, <1>7, <1>8 DEF Next, Control, Environment
-----------------------------------------------------------------------------
(* The theorems. *)

\* The attached device satisfies the invariant.
LEMMA InitInv == Init => IInv
  <1> SUFFICES ASSUME Init PROVE IInv
    OBVIOUS
  <1>1. TypeOK
    BY InitType
  <1>2. /\ storage.capture_generation = 0 /\ storage.operation_active = FALSE
        /\ storage.sleeping = FALSE /\ storage.ready = FALSE
        /\ ctl.suspended = FALSE /\ ctl.gen = 0
    BY DEF Init
  <1>3. \A o \in Op : scan[o].pc = "unborn"
    BY DEF Init
  <1>4. ScanInv
    BY <1>2, <1>3
       DEF ScanInv, ActiveOperationReachable, BornIsHeld, DownIsInactive, ReopensDown, SuspendedIsDown
  <1>5. ArmedGeneration
    BY <1>2 DEF ArmedGeneration, NoCaptureWhileSleeping, Gen
  <1>6. QED
    BY <1>1, <1>4, <1>5 DEF IInv

\* The invariant holds in every state.
LEMMA Invariant == Spec => []IInv
  <1>1. Init => IInv
    BY InitInv
  <1>2. IInv /\ [Next]_vars => IInv'
    BY NextType, NextScanInv, NextArmed DEF IInv
  <1>3. QED
    BY <1>1, <1>2, PTL DEF Spec

\* Every field of the session, the operations and the queues keeps its type; in
\* particular the recovery attempts stay within the code's MaxAttempts.
THEOREM TypeCorrect == Spec => []TypeOK
  <1>1. IInv => TypeOK
    BY DEF IInv
  <1>2. QED
    BY <1>1, Invariant, PTL

\* No step of a capture passes its guard while the system sleeps or is about to
\* (power_changed retires the generation the reader is armed for, and nothing
\* arms for the new one before the resume).
THEOREM NoCaptureWhileSleepingHolds == Spec => []NoCaptureWhileSleeping
  <1>1. IInv => NoCaptureWhileSleeping
    BY DEF IInv, ArmedGeneration
  <1>2. QED
    BY <1>1, Invariant, PTL

\* operation_active, by which the controller puts off a recovery until a client
\* has been told, never stays behind: somebody alive is there to clear it, held
\* by the device or on its way to a stop, whatever operations overlap.
THEOREM ActiveOperationReachableHolds == Spec => []ActiveOperationReachable
  <1>1. IInv => ActiveOperationReachable
    BY DEF IInv, ScanInv
  <1>2. QED
    BY <1>1, Invariant, PTL

\* A suspended controller of a system that is awake has its Resume queued, or
\* is about to ask again (begin_recovery), although a teardown empties the queue.
THEOREM NeverStuckSuspendedHolds == Spec => []NeverStuckSuspended
  <1>1. Init => NeverStuckSuspended
    BY DEF Init, NeverStuckSuspended
  <1>2. IInv /\ NeverStuckSuspended /\ [Next]_vars => NeverStuckSuspended'
    BY NextResume DEF IInv
  <1>3. QED
    BY <1>1, <1>2, Invariant, PTL DEF Spec
-----------------------------------------------------------------------------
(* What is in a queue. *)

Has(q, t)        == \E i \in DOMAIN q : q[i].type = t
Once(q, t)       == \A i, j \in DOMAIN q : q[i].type = t /\ q[j].type = t => i = j
HasLatched(q, t) == \E i \in DOMAIN q : q[i].type = t /\ q[i].latched

Sensed  == {"FingerDown", "Image"}
Calm(q) == ~Has(q, "FingerDown") /\ ~Has(q, "Image")

\* All that the sensor reported comes from the touch latched at power-on.
OnlyLatched(q) == \A i \in DOMAIN q : q[i].type \in Sensed => q[i].latched

\* What comes from that touch was reported before anything else.
LatchedFirst(q) ==
  \A i, j \in DOMAIN q : q[i].type \in Sensed /\ q[i].latched /\ q[j].type \in Sensed => j = i \/ (j > i /\ ~q[j].latched)

\* No capture comes from it.
Delivers(q) == \A i \in DOMAIN q : q[i].type = "Image" => ~q[i].latched

\* What is pushed comes last.
LEMMA PushedFacts ==
  ASSUME NEW q \in Seq(EventType), NEW e \in EventType
  PROVE  LET r == Append(q, e)
         IN  /\ \A t : Has(r, t) <=> Has(q, t) \/ e.type = t
             /\ \A t : Once(q, t) /\ (e.type = t => ~Has(q, t)) => Once(r, t)
             /\ \A t : HasLatched(r, t) <=> HasLatched(q, t) \/ (e.type = t /\ e.latched)
             /\ OnlyLatched(q) /\ (e.type \in Sensed => e.latched) => OnlyLatched(r)
             /\ LatchedFirst(q) /\ (e.type \in Sensed /\ e.latched => Calm(q)) => LatchedFirst(r)
  <1> DEFINE r == Append(q, e)
             n == Len(q)
  <1> HIDE DEF EventType
  <1>1. /\ n \in Nat /\ DOMAIN q = 1 .. n /\ DOMAIN r = 1 .. n + 1
        /\ r[n + 1] = e /\ \A i \in 1 .. n : r[i] = q[i]
    OBVIOUS
  <1>2. DOMAIN r = DOMAIN q \cup {n + 1} /\ n + 1 \notin DOMAIN q /\ \A i \in DOMAIN q : i < n + 1 /\ ~(n + 1 < i)
    BY <1>1
  <1>3. r[n + 1] = e /\ \A i \in DOMAIN q : r[i] = q[i]
    BY <1>1
  <1> HIDE DEF r, n
  <1>4. \A t : Has(r, t) <=> Has(q, t) \/ e.type = t
    BY <1>2, <1>3 DEF Has
  <1>5. \A t : Once(q, t) /\ (e.type = t => ~Has(q, t)) => Once(r, t)
    BY <1>2, <1>3 DEF Has, Once
  <1>6. \A t : HasLatched(r, t) <=> HasLatched(q, t) \/ (e.type = t /\ e.latched)
    BY <1>2, <1>3 DEF HasLatched
  <1>7. OnlyLatched(q) /\ (e.type \in Sensed => e.latched) => OnlyLatched(r)
    BY <1>2, <1>3 DEF OnlyLatched
  <1>8. LatchedFirst(q) /\ (e.type \in Sensed /\ e.latched => Calm(q)) => LatchedFirst(r)
    <2> SUFFICES ASSUME LatchedFirst(q), e.type \in Sensed /\ e.latched => Calm(q),
                        NEW i \in DOMAIN r, NEW j \in DOMAIN r,
                        r[i].type \in Sensed, r[i].latched, r[j].type \in Sensed
                 PROVE  j = i \/ (j > i /\ ~r[j].latched)
      BY DEF LatchedFirst
    <2>1. CASE i \in DOMAIN q /\ j \in DOMAIN q
      BY <1>3, <2>1 DEF LatchedFirst
    <2>2. CASE i = n + 1
      <3>1. Calm(q)
        BY <1>3, <2>2
      <3>2. j \notin DOMAIN q
        BY <1>3, <3>1 DEF Calm, Has, Sensed
      <3>3. QED
        BY <1>2, <2>2, <3>2
    <2>3. CASE i \in DOMAIN q /\ j = n + 1
      <3>1. ~e.latched
        BY <1>3, <2>3 DEF Calm, Has, Sensed
      <3>2. QED
        BY <1>2, <1>3, <2>3, <3>1
    <2>4. QED
      BY <1>2, <2>1, <2>2, <2>3
  <1>9. QED
    BY <1>4, <1>5, <1>6, <1>7, <1>8 DEF r

\* What is popped was first.
LEMMA PoppedFacts ==
  ASSUME NEW q \in Seq(EventType), q # <<>>
  PROVE  LET r == Tail(q)
             e == Head(q)
         IN  /\ \A t : Has(q, t) <=> Has(r, t) \/ e.type = t
             /\ \A t : Once(q, t) => Once(r, t) /\ (e.type = t => ~Has(r, t))
             /\ \A t : HasLatched(q, t) <=> HasLatched(r, t) \/ (e.type = t /\ e.latched)
             /\ OnlyLatched(q) => OnlyLatched(r) /\ (e.type \in Sensed => e.latched)
             /\ LatchedFirst(q) => LatchedFirst(r)
             /\ LatchedFirst(q) /\ e.type \in Sensed =>
                  ~HasLatched(r, "FingerDown") /\ ~HasLatched(r, "Image")
  <1> DEFINE r == Tail(q)
             e == Head(q)
             n == Len(q)
  <1> HIDE DEF EventType
  <1>1. /\ n \in Nat \ {0} /\ DOMAIN q = 1 .. n /\ DOMAIN r = 1 .. n - 1
        /\ q[1] = e /\ \A i \in 1 .. n - 1 : r[i] = q[i + 1]
    OBVIOUS
  <1>2. /\ 1 \in DOMAIN q /\ q[1] = e
        /\ \A i \in DOMAIN r : i \in Nat /\ i + 1 \in DOMAIN q /\ i + 1 > 1 /\ i + 1 # 1 /\ r[i] = q[i + 1]
    BY <1>1
  <1>3. \A k \in DOMAIN q : k = 1 \/ \E i \in DOMAIN r : k = i + 1
    <2> SUFFICES ASSUME NEW k \in DOMAIN q, k # 1 PROVE k - 1 \in DOMAIN r /\ k = (k - 1) + 1
      OBVIOUS
    <2>1. QED
      BY <1>1
  <1> HIDE DEF r, e, n
  <1>4. \A t : Has(q, t) <=> Has(r, t) \/ e.type = t
    BY <1>2, <1>3 DEF Has
  <1>5. \A t : Once(q, t) => Once(r, t) /\ (e.type = t => ~Has(r, t))
    <2> SUFFICES ASSUME NEW t, Once(q, t) PROVE Once(r, t) /\ (e.type = t => ~Has(r, t))
      OBVIOUS
    <2>1. Once(r, t)
      <3> SUFFICES ASSUME NEW i \in DOMAIN r, NEW j \in DOMAIN r, r[i].type = t, r[j].type = t PROVE i = j
        BY DEF Once
      <3>1. i + 1 = j + 1
        BY <1>2 DEF Once
      <3>2. QED
        BY <1>2, <3>1
    <2>2. e.type = t => ~Has(r, t)
      BY <1>2 DEF Once, Has
    <2>3. QED
      BY <2>1, <2>2
  <1>6. \A t : HasLatched(q, t) <=> HasLatched(r, t) \/ (e.type = t /\ e.latched)
    BY <1>2, <1>3 DEF HasLatched
  <1>7. OnlyLatched(q) => OnlyLatched(r) /\ (e.type \in Sensed => e.latched)
    BY <1>2 DEF OnlyLatched
  <1>8. LatchedFirst(q) => LatchedFirst(r)
    <2> SUFFICES ASSUME LatchedFirst(q), NEW i \in DOMAIN r, NEW j \in DOMAIN r,
                        r[i].type \in Sensed, r[i].latched, r[j].type \in Sensed
                 PROVE  j = i \/ (j > i /\ ~r[j].latched)
      BY DEF LatchedFirst
    <2>1. j + 1 = i + 1 \/ (j + 1 > i + 1 /\ ~q[j + 1].latched)
      BY <1>2 DEF LatchedFirst
    <2>2. QED
      BY <1>2, <2>1
  <1>9. ASSUME LatchedFirst(q), e.type \in Sensed, NEW t \in Sensed, HasLatched(r, t)
        PROVE  FALSE
    <2>1. PICK i \in DOMAIN r : r[i].type = t /\ r[i].latched
      BY <1>9 DEF HasLatched
    <2>2. i + 1 \in DOMAIN q /\ q[i + 1].type \in Sensed /\ q[i + 1].latched
      BY <1>2, <1>9, <2>1
    <2>3. 1 = i + 1 \/ 1 > i + 1
      BY <1>2, <1>9, <2>2 DEF LatchedFirst
    <2>4. QED
      BY <1>2, <2>3
  <1>10. QED
    BY <1>4, <1>5, <1>6, <1>7, <1>8, <1>9 DEF r, e, Sensed

\* An empty queue.
LEMMA EmptyFacts ==
  /\ \A t : ~Has(<<>>, t) /\ Once(<<>>, t) /\ ~HasLatched(<<>>, t)
  /\ OnlyLatched(<<>>) /\ LatchedFirst(<<>>) /\ Delivers(<<>>)
  BY DEF Has, Once, HasLatched, OnlyLatched, LatchedFirst, Delivers

\* Captures on their way to an operation.
LEMMA DeliversFacts ==
  ASSUME NEW q \in Seq(ImageItem), Delivers(q)
  PROVE  /\ \A n \in ImageItem : (n.type = "Image" => ~n.latched) => Delivers(Append(q, n))
         /\ q # <<>> => Delivers(Tail(q))
  <1> HIDE DEF ImageItem
  <1>1. ASSUME NEW n \in ImageItem, n.type = "Image" => ~n.latched
        PROVE  Delivers(Append(q, n))
    <2> SUFFICES ASSUME NEW i \in DOMAIN Append(q, n), Append(q, n)[i].type = "Image"
                 PROVE  ~Append(q, n)[i].latched
      BY DEF Delivers
    <2>1. Append(q, n)[i] = n \/ (i \in DOMAIN q /\ Append(q, n)[i] = q[i])
      OBVIOUS
    <2>2. QED
      BY <1>1, <2>1 DEF Delivers
  <1>2. ASSUME q # <<>>
        PROVE  Delivers(Tail(q))
    <2> SUFFICES ASSUME NEW i \in DOMAIN Tail(q), Tail(q)[i].type = "Image"
                 PROVE  ~Tail(q)[i].latched
      BY DEF Delivers
    <2>1. i + 1 \in DOMAIN q /\ Tail(q)[i] = q[i + 1]
      BY <1>2
    <2>2. QED
      BY <2>1 DEF Delivers
  <1>3. QED
    BY <1>1, <1>2
-----------------------------------------------------------------------------
(* A touch that was latched at power-on. *)

\* A session that is not ready yet, or whose TLS_Ready is still to be handled.
Fresh == reader.link # "up" \/ Has(events, "TLS_Ready")

\* Each answer of the handshake comes once.
HandshakeOnce ==
  /\ Has(events, "InitResult") => reader.link = "asked"
  /\ Has(events, "TLS_Ready") => reader.link = "up"
  /\ Once(events, "InitResult") /\ Once(events, "TLS_Ready")

\* The controller reopens and ends with a reader that is down.
ClosedIsDown == ctl.pc \in {"reopen", "init", "ended"} => reader.link = "down"

\* A fresh session has not armed its reader.
FreshIsUnarmed ==
  Fresh => /\ ~storage.ready /\ ctl.pc \notin {"arm", "pause"}
           /\ reader.sensor = "off" /\ ~reader.touch /\ Calm(events)

\* The latched touch, from power-on to its end: the sensor holds it; then it is
\* reported, before any other touch; then it is read, by when the controller
\* knows that it is stale; and its image finds the controller in that state.
LatchHeld ==
  reader.latch => /\ ~reader.touch /\ reader.sensor \in {"off", "armed"}
                  /\ ctl.pc # "pause" /\ Calm(events)
                  /\ ~Fresh => ctl.awaiting

LatchReported ==
  HasLatched(events, "FingerDown") =>
    /\ ~reader.latch /\ ctl.awaiting
    /\ ctl.pc # "pause" /\ reader.sensor # "reading" /\ ~Has(events, "Image")

LatchTouched ==
  reader.touch => /\ ~reader.latch /\ OnlyLatched(events)
                  /\ ctl.pc = "pause" \/ reader.sensor = "reading" => ctl.stale /\ Calm(events)
                  /\ ~(ctl.pc = "pause" /\ reader.sensor = "reading")

LatchRead ==
  HasLatched(events, "Image") => ~reader.latch /\ ctl.stale /\ ctl.pc # "pause"

LatchInv ==
  /\ HandshakeOnce /\ ClosedIsDown /\ FreshIsUnarmed
  /\ LatchHeld /\ LatchReported /\ LatchTouched /\ LatchRead
  /\ LatchedFirst(events)

\* Events that neither the handshake nor the sensor sends.
Plain == {"StartSensor", "StopSensor", "TransportFailed", "Suspend", "Resume"}

\* A plain event, alone or pushed.
LEMMA PlainPushed ==
  ASSUME TypeOK, NEW t \in Plain, events' = Append(events, Event(t))
  PROVE  /\ \A u : u \notin Plain => (Has(events', u) <=> Has(events, u))
                                  /\ (Once(events, u) => Once(events', u))
                                  /\ (HasLatched(events', u) <=> HasLatched(events, u))
         /\ OnlyLatched(events) => OnlyLatched(events')
         /\ LatchedFirst(events) => LatchedFirst(events')
  <1>1. events \in Seq(EventType) /\ Event(t) \in EventType /\ Event(t).type = t /\ ~Event(t).latched
    BY QueueTypes, MessageTypes DEF Plain, EventTypes, Event
  <1>2. \A u : u \notin Plain => t # u
    OBVIOUS
  <1>3. t \notin Sensed
    BY DEF Plain, Sensed
  <1>4. QED
    BY <1>1, <1>2, <1>3, PushedFacts

\* The queue after a step that leaves it or pushes a plain event.
SameSensed ==
  /\ \A u \in {"InitResult", "TLS_Ready", "FingerDown", "Image"} :
       /\ Has(events', u) <=> Has(events, u)
       /\ Once(events, u) => Once(events', u)
       /\ HasLatched(events', u) <=> HasLatched(events, u)
  /\ OnlyLatched(events) => OnlyLatched(events')
  /\ LatchedFirst(events) => LatchedFirst(events')

\* Both leave what the handshake and the sensor sent.
LEMMA PlainIsSame ==
  ASSUME TypeOK, events' = events \/ \E t \in Plain : events' = Append(events, Event(t))
  PROVE  SameSensed
  <1>1. CASE events' = events
    BY <1>1 DEF SameSensed
  <1>2. CASE \E t \in Plain : events' = Append(events, Event(t))
    <2>1. \A u \in {"InitResult", "TLS_Ready", "FingerDown", "Image"} : u \notin Plain
      BY DEF Plain
    <2>2. QED
      BY <1>2, <2>1, PlainPushed DEF SameSensed
  <1>3. QED
    BY <1>1, <1>2

\* What the operations, the clients, the system and the timers do leaves the
\* touch where it is.
LEMMA LatchKept ==
  ASSUME LatchInv, SameSensed, reader' = reader,
         storage'.ready => storage.ready,
         ctl'.awaiting = ctl.awaiting, ctl'.stale = ctl.stale,
         ctl'.pc = ctl.pc \/ (ctl'.pc \notin {"arm", "pause"} /\ (ctl'.pc \in {"reopen", "init", "ended"} => reader.link = "down"))
  PROVE  LatchInv'
  <1>1. Fresh' <=> Fresh
    BY DEF SameSensed, Fresh
  <1>2. Calm(events') <=> Calm(events)
    BY DEF SameSensed, Calm
  <1>3. HandshakeOnce' /\ ClosedIsDown'
    BY DEF LatchInv, HandshakeOnce, ClosedIsDown, SameSensed
  <1>4. FreshIsUnarmed' /\ LatchHeld'
    BY <1>1, <1>2 DEF LatchInv, FreshIsUnarmed, LatchHeld
  <1>5. LatchReported' /\ LatchRead'
    BY DEF LatchInv, LatchReported, LatchRead, SameSensed
  <1>6. LatchTouched'
    BY <1>2 DEF LatchInv, LatchTouched, SameSensed
  <1>7. QED
    BY <1>3, <1>4, <1>5, <1>6 DEF LatchInv, SameSensed

\* A session that is torn down has no touch.
LEMMA LatchDown ==
  ASSUME reader' = LinkDown, events' = <<>>, ~storage'.ready,
         ctl'.pc \notin {"arm", "pause"}
  PROVE  LatchInv'
  <1>1. reader'.link = "down" /\ reader'.sensor = "off" /\ reader'.latch = FALSE /\ reader'.touch = FALSE
    BY DEF LinkDown
  <1>2. /\ \A t : ~Has(events', t) /\ Once(events', t) /\ ~HasLatched(events', t)
        /\ LatchedFirst(events')
    BY EmptyFacts
  <1>3. QED
    BY <1>1, <1>2 DEF LatchInv, HandshakeOnce, ClosedIsDown, FreshIsUnarmed, LatchHeld, LatchReported, LatchTouched,
                      LatchRead, Calm

\* Operations and the device.
LEMMA OperationsLatch ==
  ASSUME TypeOK, LatchInv,
         (\E o \in Op : StartScan(o) \/ Scan(o)) \/ StopScan \/ ReleaseScan \/ ClaimerGone
  PROVE  LatchInv'
  <1>1. ctl' = ctl /\ reader' = reader
    BY DEF StartScan, Scan, Enroll, ParseIgnored, ParseCapture, ParseFailure, ParseStop, NextCapture,
           StopAfterResult, StopScan, ReleaseScan, ClaimerGone
  <1>2. events' = events \/ \E t \in Plain : events' = Append(events, Event(t))
    BY DEF StartScan, Scan, Enroll, ParseIgnored, ParseCapture, ParseFailure, ParseStop, NextCapture,
           StopAfterResult, StopScan, ReleaseScan, ClaimerGone, Plain
  <1>3. storage'.ready = storage.ready
    BY SleepAndReadyKept
  <1>4. QED
    BY <1>1, <1>2, <1>3, PlainIsSame, LatchKept

\* Teardown, at once or after an operation had its time.
LEMMA BeginRecoveryLatch ==
  ASSUME TypeOK, NEW c \in CtlType, BeginRecovery(c)
  PROVE  LatchInv'
  <1> DEFINE after == IF storage.sleeping THEN [c EXCEPT !.pc = "idle"] ELSE Schedule(c)
  <1>1. after \in CtlType /\ after.pc \in {"idle", "reopen", "ended"}
    BY ScheduleType DEF CtlType, Schedule
  <1>2. CleanupDevice(after.pc = "ended")
    BY DEF BeginRecovery
  <1>3. ctl' = [after EXCEPT !.active = FALSE, !.watchdog = FALSE, !.suspended = storage.sleeping]
    BY DEF BeginRecovery
  <1> HIDE DEF after
  <1>4. ctl'.pc = after.pc
    BY <1>1, <1>3 DEF CtlType
  <1>5. reader' = LinkDown /\ events' = <<>> /\ ~storage'.ready
    BY <1>2 DEF CleanupDevice, TypeOK
  <1>6. QED
    BY <1>1, <1>4, <1>5, LatchDown

\* notify_operation_failed() keeps the touch where it is, or goes with the session.
LEMMA OperationFailedLatch ==
  ASSUME TypeOK, LatchInv, NEW c \in CtlType, NEW rest, OperationFailed(c, rest),
         c.awaiting = ctl.awaiting, c.stale = ctl.stale,
         \/ rest = events
         \/ events # <<>> /\ Head(events).type \in Plain /\ rest = Tail(events)
  PROVE  LatchInv'
  <1>1. CASE BeginRecovery(c)
    BY <1>1, BeginRecoveryLatch
  <1>2. CASE ~BeginRecovery(c)
    <2>1. /\ ctl' = [c EXCEPT !.pc = "yield"] /\ reader' = reader /\ events' = rest
          /\ storage' = [storage EXCEPT !.ready = FALSE]
      BY <1>2 DEF OperationFailed
    <2>2. ctl'.pc = "yield" /\ ctl'.awaiting = ctl.awaiting /\ ctl'.stale = ctl.stale /\ ~storage'.ready
      BY <2>1 DEF CtlType, TypeOK
    <2>3. CASE rest = events
      <3>1. SameSensed
        BY <2>1, <2>3, PlainIsSame
      <3>2. QED
        BY <2>1, <2>2, <3>1, LatchKept
    <2>4. CASE events # <<>> /\ Head(events).type \in Plain /\ rest = Tail(events)
      <3>1. events \in Seq(EventType)
        BY QueueTypes
      <3>2. \A u \in {"InitResult", "TLS_Ready", "FingerDown", "Image"} : Head(events).type # u
        BY <2>4 DEF Plain
      <3>3. Head(events).type \notin Sensed
        BY <3>2 DEF Sensed
      <3>4. SameSensed
        BY <2>1, <2>4, <3>1, <3>2, <3>3, PoppedFacts DEF SameSensed
      <3>5. QED
        BY <2>1, <2>2, <3>4, LatchKept
    <2>5. QED
      BY <2>3, <2>4
  <1>3. QED
    BY <1>1, <1>2

\* What a handler takes from the queue, whatever it is.
LEMMA TakenFacts ==
  ASSUME TypeOK, LatchInv, NEW t \in EventTypes, Gets(t), Taken
  PROVE  /\ ctl.pc = "idle" /\ Head(events).type = t /\ Head(events) \in EventType
         /\ \A u : Has(events, u) <=> Has(events', u) \/ t = u
         /\ \A u : Once(events, u) => Once(events', u) /\ (t = u => ~Has(events', u))
         /\ \A u : HasLatched(events, u) <=> HasLatched(events', u) \/ (t = u /\ Head(events).latched)
         /\ OnlyLatched(events) => OnlyLatched(events') /\ (t \in Sensed => Head(events).latched)
         /\ LatchedFirst(events')
         /\ t \in Sensed => ~HasLatched(events', "FingerDown") /\ ~HasLatched(events', "Image")
         /\ t \in Sensed => ~Calm(events)
         /\ Calm(events) => Calm(events')
  <1>1. ctl.pc = "idle" /\ events # <<>> /\ Head(events).type = t /\ events' = Tail(events)
    BY DEF Gets, Taken
  <1>2. events \in Seq(EventType) /\ Head(events) \in EventType
    BY <1>1, QueueTypes
  <1>3. /\ \A u : Has(events, u) <=> Has(events', u) \/ t = u
        /\ \A u : Once(events, u) => Once(events', u) /\ (t = u => ~Has(events', u))
        /\ \A u : HasLatched(events, u) <=> HasLatched(events', u) \/ (t = u /\ Head(events).latched)
        /\ OnlyLatched(events) => OnlyLatched(events') /\ (t \in Sensed => Head(events).latched)
        /\ LatchedFirst(events')
        /\ t \in Sensed => ~HasLatched(events', "FingerDown") /\ ~HasLatched(events', "Image")
    BY <1>1, <1>2, PoppedFacts DEF LatchInv
  <1>4. t \in Sensed => ~Calm(events)
    BY <1>3 DEF Calm, Sensed
  <1>5. Calm(events) => Calm(events')
    BY <1>3 DEF Calm
  <1>6. QED
    BY <1>1, <1>2, <1>3, <1>4, <1>5

\* tls_init follows the one InitResult of a session.
LEMMA InitResultLatch ==
  ASSUME TypeOK, LatchInv, OnInitResult
  PROVE  LatchInv'
  <1>1. /\ ctl.pc = "idle" /\ ~Has(events', "InitResult") /\ Has(events, "InitResult")
        /\ \A u : u # "InitResult" => (Has(events, u) <=> Has(events', u))
        /\ \A u : Once(events, u) => Once(events', u)
        /\ \A u : u # "InitResult" => (HasLatched(events, u) <=> HasLatched(events', u))
        /\ OnlyLatched(events) => OnlyLatched(events')
        /\ LatchedFirst(events')
    BY TakenFacts DEF OnInitResult, EventTypes, LatchInv, HandshakeOnce
  <1>2. /\ ctl'.pc = "busy" /\ ctl'.awaiting = ctl.awaiting /\ ctl'.stale = ctl.stale
        /\ reader'.link = "tls" /\ reader'.sensor = reader.sensor
        /\ reader'.latch = reader.latch /\ reader'.touch = reader.touch
        /\ storage' = storage
    BY DEF OnInitResult, TypeOK
  <1>3. reader.link = "asked" /\ Fresh
    BY <1>1 DEF LatchInv, HandshakeOnce, Fresh
  <1>4. ~storage.ready /\ reader.sensor = "off" /\ ~reader.touch /\ Calm(events)
    BY <1>3 DEF LatchInv, FreshIsUnarmed
  <1>5. Calm(events') /\ ~HasLatched(events', "FingerDown") /\ ~HasLatched(events', "Image")
    <2>1. Calm(events')
      BY <1>1, <1>4 DEF Calm
    <2>2. \A u : HasLatched(events', u) => Has(events', u)
      BY DEF HasLatched, Has
    <2>3. QED
      BY <2>1, <2>2 DEF Calm
  <1>6. HandshakeOnce' /\ ClosedIsDown'
    BY <1>1, <1>2, <1>3 DEF LatchInv, HandshakeOnce, ClosedIsDown
  <1>7. Fresh'
    BY <1>2 DEF Fresh
  <1>8. FreshIsUnarmed' /\ LatchHeld' /\ LatchReported' /\ LatchTouched' /\ LatchRead'
    BY <1>2, <1>4, <1>5, <1>7 DEF FreshIsUnarmed, LatchHeld, LatchReported, LatchTouched, LatchRead
  <1>9. QED
    BY <1>1, <1>2, <1>6, <1>8 DEF LatchInv

\* A session gets ready once, before its first touch, and then expects it.
LEMMA TLSReadyLatch ==
  ASSUME TypeOK, LatchInv, OnTLSReady
  PROVE  LatchInv'
  <1>1. /\ ctl.pc = "idle" /\ ~Has(events', "TLS_Ready") /\ Has(events, "TLS_Ready")
        /\ \A u : u # "TLS_Ready" => (Has(events, u) <=> Has(events', u))
        /\ \A u : Once(events, u) => Once(events', u)
        /\ LatchedFirst(events')
    BY TakenFacts DEF OnTLSReady, EventTypes, LatchInv, HandshakeOnce
  <1>2. ctl'.pc = "busy" /\ ctl'.awaiting = TRUE /\ reader' = reader
    BY DEF OnTLSReady, TypeOK
  <1>3. reader.link = "up" /\ Fresh
    BY <1>1 DEF LatchInv, HandshakeOnce, Fresh
  <1>4. reader.sensor = "off" /\ ~reader.touch /\ Calm(events)
    BY <1>3 DEF LatchInv, FreshIsUnarmed
  <1>5. Calm(events') /\ ~HasLatched(events', "FingerDown") /\ ~HasLatched(events', "Image")
    <2>1. Calm(events')
      BY <1>1, <1>4 DEF Calm
    <2>2. \A u : HasLatched(events', u) => Has(events', u)
      BY DEF HasLatched, Has
    <2>3. QED
      BY <2>1, <2>2 DEF Calm
  <1>6. HandshakeOnce' /\ ClosedIsDown'
    BY <1>1, <1>2, <1>3 DEF LatchInv, HandshakeOnce, ClosedIsDown
  <1>7. ~Fresh'
    BY <1>1, <1>2, <1>3 DEF Fresh
  <1>8. FreshIsUnarmed' /\ LatchHeld' /\ LatchReported' /\ LatchTouched' /\ LatchRead'
    BY <1>2, <1>4, <1>5, <1>7 DEF FreshIsUnarmed, LatchHeld, LatchReported, LatchTouched, LatchRead
  <1>9. QED
    BY <1>1, <1>2, <1>6, <1>8 DEF LatchInv

\* The handlers of plain events that keep the session.
LEMMA SensorHandlersLatch ==
  ASSUME TypeOK, ScanInv, LatchInv, OnStartSensor \/ OnStopSensor \/ OnResume
  PROVE  LatchInv'
  <1> DEFINE t == Head(events).type
  <1>1. Gets(t) /\ Taken /\ t \in EventTypes /\ t \in Plain
    BY DEF OnStartSensor, OnStopSensor, OnResume, Gets, EventTypes, Plain
  <1>2. t \notin Sensed /\ t \notin {"InitResult", "TLS_Ready"}
    BY <1>1 DEF Plain, Sensed
  <1> HIDE DEF t
  <1>3. SameSensed /\ ctl.pc = "idle"
    <2>1. \A u \in {"InitResult", "TLS_Ready", "FingerDown", "Image"} : t # u
      BY <1>2 DEF Sensed
    <2>2. QED
      BY <1>1, <1>2, <2>1, TakenFacts DEF SameSensed, LatchInv
  <1>4. storage' = storage
    BY DEF OnStartSensor, OnStopSensor, OnResume
  <1>5. CASE OnStopSensor
    <2>1. /\ ctl'.awaiting = ctl.awaiting /\ ctl'.stale = ctl.stale /\ ctl'.pc \in {"busy", "idle"}
          /\ reader'.link = reader.link /\ reader'.latch = reader.latch /\ reader'.touch = reader.touch
          /\ reader'.sensor = reader.sensor \/ reader'.sensor = "off"
      BY <1>3, <1>5 DEF OnStopSensor, TypeOK
    <2>2. (Fresh' <=> Fresh) /\ (Calm(events') <=> Calm(events))
      BY <1>3, <2>1 DEF SameSensed, Fresh, Calm
    <2>3. HandshakeOnce' /\ ClosedIsDown' /\ FreshIsUnarmed'
      BY <1>3, <1>4, <2>1, <2>2 DEF LatchInv, HandshakeOnce, ClosedIsDown, FreshIsUnarmed, SameSensed
    <2>4. LatchHeld'
      BY <2>1, <2>2 DEF LatchInv, LatchHeld
    <2>5. LatchReported' /\ LatchRead'
      BY <1>3, <2>1 DEF LatchInv, LatchReported, LatchRead, SameSensed
    <2>6. LatchTouched'
      BY <1>3, <2>1, <2>2 DEF LatchInv, LatchTouched, SameSensed
    <2>7. QED
      BY <1>3, <1>4, <2>3, <2>4, <2>5, <2>6 DEF LatchInv, SameSensed
  <1>6. CASE OnResume
    <2>1. /\ ctl'.awaiting = ctl.awaiting /\ ctl'.stale = ctl.stale /\ reader' = reader
          /\ ctl'.pc = ctl.pc \/ (ctl'.pc = "reopen" /\ ctl.suspended)
      BY <1>6 DEF OnResume, TypeOK
    <2>2. ctl.suspended => reader.link = "down"
      BY <1>3 DEF ScanInv, SuspendedIsDown
    <2>3. QED
      BY <1>3, <1>4, <2>1, <2>2, LatchKept DEF LatchInv
  <1>7. CASE OnStartSensor /\ storage.ready
    <2>1. /\ ctl'.awaiting = ctl.awaiting /\ ctl'.stale = ctl.stale /\ reader' = reader
          /\ ctl'.pc \in {"idle", "arm"}
      BY <1>3, <1>7 DEF OnStartSensor, StartSensor, TypeOK
    <2>2. ~Fresh
      BY <1>7 DEF LatchInv, FreshIsUnarmed
    <2>3. (Fresh' <=> Fresh) /\ (Calm(events') <=> Calm(events))
      BY <1>3, <2>1 DEF SameSensed, Fresh, Calm
    <2>4. HandshakeOnce' /\ ClosedIsDown' /\ FreshIsUnarmed'
      BY <1>3, <1>4, <2>1, <2>2, <2>3 DEF LatchInv, HandshakeOnce, ClosedIsDown, FreshIsUnarmed, SameSensed
    <2>5. LatchHeld'
      BY <2>1, <2>3 DEF LatchInv, LatchHeld
    <2>6. LatchReported' /\ LatchRead'
      BY <1>3, <2>1 DEF LatchInv, LatchReported, LatchRead, SameSensed
    <2>7. LatchTouched'
      BY <1>3, <2>1, <2>3 DEF LatchInv, LatchTouched, SameSensed
    <2>8. QED
      BY <1>3, <1>4, <2>4, <2>5, <2>6, <2>7 DEF LatchInv, SameSensed
  <1>8. CASE OnStartSensor /\ ~storage.ready
    <2>1. ctl' = ctl /\ reader' = reader
      BY <1>8 DEF OnStartSensor
    <2>2. QED
      BY <1>3, <1>4, <2>1, LatchKept DEF LatchInv
  <1>9. QED
    BY <1>5, <1>6, <1>7, <1>8

\* What is left of the queue when a report of the sensor is handled.
LEMMA SensedTaken ==
  ASSUME TypeOK, LatchInv, NEW t \in Sensed, Gets(t), Taken
  PROVE  /\ ~Fresh /\ (Fresh' <=> reader'.link # "up" \/ Has(events, "TLS_Ready")) /\ ~reader.latch
         /\ Head(events) \in EventType /\ Head(events).type = t
         /\ \A u \in {"InitResult", "TLS_Ready"} : (Has(events, u) <=> Has(events', u)) /\ Once(events', u)
         /\ LatchedFirst(events')
         /\ ~HasLatched(events', "FingerDown") /\ ~HasLatched(events', "Image")
         /\ reader.touch => /\ reader.sensor # "reading" /\ Head(events).latched
                            /\ OnlyLatched(events') /\ Calm(events')
         /\ Head(events).latched => HasLatched(events, t)
  <1>1. t \in EventTypes /\ t \notin {"InitResult", "TLS_Ready"}
    BY DEF Sensed, EventTypes
  <1>2. /\ Head(events) \in EventType /\ Head(events).type = t
        /\ \A u \in {"InitResult", "TLS_Ready"} : (Has(events, u) <=> Has(events', u)) /\ Once(events', u)
        /\ LatchedFirst(events')
        /\ ~HasLatched(events', "FingerDown") /\ ~HasLatched(events', "Image")
        /\ Head(events).latched => HasLatched(events, t)
        /\ OnlyLatched(events) => OnlyLatched(events') /\ Head(events).latched
        /\ ~Calm(events)
    BY <1>1, TakenFacts DEF LatchInv, HandshakeOnce
  <1>3. ~Fresh /\ ~reader.latch
    BY <1>2 DEF LatchInv, FreshIsUnarmed, LatchHeld
  <1>4. ASSUME reader.touch
        PROVE  /\ reader.sensor # "reading" /\ Head(events).latched
               /\ OnlyLatched(events') /\ Calm(events')
    <2>1. OnlyLatched(events) /\ reader.sensor # "reading"
      BY <1>2, <1>4 DEF LatchInv, LatchTouched
    <2>2. OnlyLatched(events') /\ Head(events).latched
      BY <1>2, <2>1
    <2>3. Calm(events')
      BY <1>2, <2>2 DEF OnlyLatched, HasLatched, Calm, Has, Sensed
    <2>4. QED
      BY <2>1, <2>2, <2>3
  <1>5. Fresh' <=> reader'.link # "up" \/ Has(events, "TLS_Ready")
    BY <1>2 DEF Fresh
  <1>6. QED
    BY <1>2, <1>3, <1>4, <1>5

\* A touch is handled: the latched one, which is the first of its session, as
\* stale.
LEMMA FingerDownLatch ==
  ASSUME TypeOK, LatchInv, OnFingerDown
  PROVE  LatchInv'
  <1>0. ctl \in CtlType /\ ctl.gen \in Nat
    BY TypeControl DEF ControlType, CtlType
  <1>1. Gets("FingerDown") /\ Taken /\ "FingerDown" \in Sensed /\ reader' = reader /\ storage' = storage
        /\ ctl.pc = "idle"
    BY DEF OnFingerDown, Sensed, Gets
  <1>2. /\ ~Fresh /\ ~Fresh' /\ ~reader.latch
        /\ \A u \in {"InitResult", "TLS_Ready"} : (Has(events, u) <=> Has(events', u)) /\ Once(events', u)
        /\ LatchedFirst(events')
        /\ ~HasLatched(events', "FingerDown") /\ ~HasLatched(events', "Image")
        /\ reader.touch => /\ reader.sensor # "reading" /\ Head(events).latched
                           /\ OnlyLatched(events') /\ Calm(events')
        /\ Head(events).latched => HasLatched(events, "FingerDown")
    BY <1>1, SensedTaken DEF Fresh
  <1>3. ctl' = ctl \/ (ctl'.pc = "pause" /\ (Head(events).latched => ctl'.stale))
    <2>1. Head(events).latched => ctl.awaiting
      BY <1>2 DEF LatchInv, LatchReported
    <2>2. ctl' = ctl \/ \E soon \in IF Head(events).latched THEN {TRUE} ELSE BOOLEAN :
                        ctl' = [ctl EXCEPT !.stale = (ctl.awaiting /\ soon), !.awaiting = FALSE, !.pc = "pause"]
      BY DEF OnFingerDown
    <2>3. CASE ctl' # ctl
      <3>1. PICK soon \in IF Head(events).latched THEN {TRUE} ELSE BOOLEAN :
               ctl' = [ctl EXCEPT !.stale = (ctl.awaiting /\ soon), !.awaiting = FALSE, !.pc = "pause"]
        BY <2>2, <2>3
      <3>2. ctl'.pc = "pause" /\ ctl'.stale = (ctl.awaiting /\ soon)
        BY <1>0, <3>1 DEF CtlType
      <3>3. Head(events).latched => soon = TRUE
        BY <3>1
      <3>4. QED
        BY <2>1, <3>2, <3>3
    <2>4. QED
      BY <2>3
  <1>4. HandshakeOnce' /\ ClosedIsDown' /\ FreshIsUnarmed'
    BY <1>1, <1>2, <1>3 DEF LatchInv, HandshakeOnce, ClosedIsDown, FreshIsUnarmed
  <1>5. LatchHeld' /\ LatchReported' /\ LatchRead'
    BY <1>1, <1>2 DEF LatchHeld, LatchReported, LatchRead
  <1>6. LatchTouched'
    BY <1>1, <1>2, <1>3 DEF LatchTouched
  <1>7. QED
    BY <1>2, <1>4, <1>5, <1>6 DEF LatchInv

\* An image is handled: what was latched finds the controller distrustful.
LEMMA ImageLatch ==
  ASSUME TypeOK, LatchInv, OnImage
  PROVE  LatchInv'
  <1>0. ctl \in CtlType /\ ctl.gen \in Nat
    BY TypeControl DEF ControlType, CtlType
  <1>1. Gets("Image") /\ Taken /\ "Image" \in Sensed /\ reader' = reader /\ storage' = storage
        /\ ctl.pc = "idle"
    BY DEF OnImage, Sensed, Gets
  <1>2. /\ ~Fresh /\ ~Fresh' /\ ~reader.latch
        /\ Head(events) \in EventType
        /\ \A u \in {"InitResult", "TLS_Ready"} : (Has(events, u) <=> Has(events', u)) /\ Once(events', u)
        /\ LatchedFirst(events')
        /\ ~HasLatched(events', "FingerDown") /\ ~HasLatched(events', "Image")
        /\ reader.touch => /\ reader.sensor # "reading" /\ Head(events).latched
                           /\ OnlyLatched(events') /\ Calm(events')
        /\ Head(events).latched => HasLatched(events, "Image")
    BY <1>1, SensedTaken DEF Fresh
  <1>3. ctl'.pc \in {"idle", "arm"}
    BY <1>0, <1>1 DEF OnImage, StartSensor, CtlType
  <1>4. HandshakeOnce' /\ ClosedIsDown' /\ FreshIsUnarmed'
    BY <1>1, <1>2, <1>3 DEF LatchInv, HandshakeOnce, ClosedIsDown, FreshIsUnarmed
  <1>5. LatchHeld' /\ LatchReported' /\ LatchRead'
    BY <1>1, <1>2 DEF LatchHeld, LatchReported, LatchRead
  <1>6. LatchTouched'
    BY <1>1, <1>2, <1>3 DEF LatchTouched
  <1>7. QED
    BY <1>2, <1>4, <1>5, <1>6 DEF LatchInv

\* Failures and the system's sleep, as events and as transfers that fail.
LEMMA FailureHandlersLatch ==
  ASSUME TypeOK, LatchInv, OnTransportFailed \/ OnSuspend \/ TransferFailed \/ ResumeRecovery
  PROVE  LatchInv'
  <1>0. ctl \in CtlType
    BY TypeControl DEF ControlType
  <1>1. CASE OnTransportFailed
    <2>1. OperationFailed(ctl, Tail(events)) /\ events # <<>> /\ Head(events).type \in Plain
      BY <1>1 DEF OnTransportFailed, Gets, Plain
    <2>2. QED
      BY <1>0, <2>1, OperationFailedLatch
  <1>2. CASE OnSuspend
    <2> DEFINE c == [ctl EXCEPT !.suspended = TRUE, !.active = FALSE]
    <2>1. OperationFailed(c, Tail(events)) /\ events # <<>> /\ Head(events).type \in Plain
      BY <1>2 DEF OnSuspend, Gets, Plain
    <2>2. c \in CtlType /\ c.awaiting = ctl.awaiting /\ c.stale = ctl.stale
      BY <1>0 DEF CtlType
    <2> HIDE DEF c
    <2>3. QED
      BY <2>1, <2>2, OperationFailedLatch
  <1>3. CASE TransferFailed
    BY <1>0, <1>3, OperationFailedLatch DEF TransferFailed
  <1>4. CASE ResumeRecovery
    BY <1>0, <1>4, BeginRecoveryLatch DEF ResumeRecovery
  <1>5. QED
    BY <1>1, <1>2, <1>3, <1>4

\* A session starts with whatever the sensor latched.
LEMMA SessionLatch ==
  ASSUME TypeOK, LatchInv, Reopen \/ InitDevice
  PROVE  LatchInv'
  <1>0. ctl \in CtlType /\ reader.link = "down"
    BY TypeControl DEF ControlType, Reopen, InitDevice, LatchInv, ClosedIsDown
  <1>1. CASE Reopen
    <2>1. Schedule(ctl) \in CtlType /\ Schedule(ctl).pc \in {"reopen", "ended"}
          /\ Schedule(ctl).awaiting = ctl.awaiting /\ Schedule(ctl).stale = ctl.stale
      BY <1>0, ScheduleType DEF CtlType, Schedule
    <2>2. CASE CleanupDevice(TRUE)
      <3>1. reader' = LinkDown /\ events' = <<>> /\ ~storage'.ready
        BY <2>2 DEF CleanupDevice, TypeOK
      <3>2. ctl'.pc \notin {"arm", "pause"}
        BY <1>0, <1>1, <2>1 DEF Reopen, CtlType
      <3>3. QED
        BY <3>1, <3>2, LatchDown
    <2>3. CASE UNCHANGED <<storage, scan, events, images, reader, silent>>
      <3>1. ctl'.awaiting = ctl.awaiting /\ ctl'.stale = ctl.stale /\ ctl'.pc \in {"init", "reopen", "ended"}
        BY <1>0, <1>1, <2>1 DEF Reopen, CtlType
      <3>2. SameSensed
        BY <2>3, PlainIsSame
      <3>3. QED
        BY <1>0, <2>3, <3>1, <3>2, LatchKept
    <2>4. QED
      BY <1>1, <2>2, <2>3 DEF Reopen
  <1>2. CASE InitDevice /\ OperationFailed(ctl, events)
    BY <1>0, <1>2, OperationFailedLatch
  <1>3. CASE InitDevice /\ ctl' = [ctl EXCEPT !.pc = "ended", !.active = FALSE] /\ CleanupDevice(TRUE)
    <2>1. reader' = LinkDown /\ events' = <<>> /\ ~storage'.ready
      BY <1>3 DEF CleanupDevice, TypeOK
    <2>2. ctl'.pc = "ended"
      BY <1>0, <1>3 DEF CtlType
    <2>3. QED
      BY <2>1, <2>2, LatchDown
  <1>4. CASE /\ ctl' = [ctl EXCEPT !.pc = "idle", !.watchdog = TRUE]
             /\ \E l \in BOOLEAN : reader' = [LinkDown EXCEPT !.link = "booting", !.latch = l]
             /\ UNCHANGED <<storage, scan, events, images, silent>>
    <2>1. ctl'.pc = "idle" /\ ctl'.stale = ctl.stale
      BY <1>0, <1>4 DEF CtlType
    <2>2. reader'.link = "booting" /\ reader'.sensor = "off" /\ reader'.touch = FALSE
      BY <1>4 DEF LinkDown
    <2>3. Fresh /\ Fresh'
      BY <1>0, <2>2 DEF Fresh
    <2>4. ~storage.ready /\ Calm(events)
      BY <2>3 DEF LatchInv, FreshIsUnarmed
    <2>5. ~Has(events, "InitResult") /\ ~Has(events, "TLS_Ready") /\ Once(events, "InitResult") /\ Once(events, "TLS_Ready")
      BY <1>0 DEF LatchInv, HandshakeOnce
    <2>6. ~HasLatched(events, "FingerDown") /\ ~HasLatched(events, "Image")
      BY <2>4 DEF Calm, Has, HasLatched
    <2>7. QED
      BY <1>4, <2>1, <2>2, <2>3, <2>4, <2>5, <2>6
         DEF LatchInv, HandshakeOnce, ClosedIsDown, FreshIsUnarmed, LatchHeld, LatchReported, LatchTouched, LatchRead
  <1>5. QED
    BY <1>1, <1>2, <1>3, <1>4 DEF InitDevice

\* The sensor is armed, or asked for its image, by a controller that has handled
\* the touch.
LEMMA PausesLatch ==
  ASSUME TypeOK, LatchInv, SubmitArm \/ GetImage \/ TransferDone
  PROVE  LatchInv'
  <1>0. ctl \in CtlType /\ reader \in ReaderType
    BY TypeControl DEF ControlType
  <1>1. /\ UNCHANGED <<storage, events>>
        /\ ctl'.pc \in {"busy", "idle"} /\ ctl'.awaiting = ctl.awaiting /\ ctl'.stale = ctl.stale
        /\ reader'.link = reader.link /\ reader'.latch = reader.latch /\ reader'.touch = reader.touch
    BY <1>0 DEF SubmitArm, GetImage, TransferDone, CtlType, ReaderType
  <1>2. \/ reader'.sensor = reader.sensor
        \/ reader'.sensor = "armed" /\ ctl.pc = "arm"
        \/ reader'.sensor = "reading" /\ ctl.pc = "pause"
    BY <1>0 DEF SubmitArm, GetImage, TransferDone, ReaderType
  <1>3. Fresh' <=> Fresh
    BY <1>1 DEF Fresh
  <1>4. HandshakeOnce' /\ ClosedIsDown' /\ FreshIsUnarmed'
    BY <1>1, <1>2, <1>3 DEF LatchInv, HandshakeOnce, ClosedIsDown, FreshIsUnarmed
  <1>5. LatchHeld'
    BY <1>1, <1>2, <1>3 DEF LatchInv, LatchHeld
  <1>6. LatchReported' /\ LatchRead'
    BY <1>1, <1>2 DEF LatchInv, LatchReported, LatchRead
  <1>7. LatchTouched'
    BY <1>1, <1>2 DEF LatchInv, LatchTouched
  <1>8. QED
    BY <1>1, <1>4, <1>5, <1>6, <1>7 DEF LatchInv

\* What the reader reports.
LEMMA ReportedFacts ==
  ASSUME TypeOK, NEW t \in EventTypes, NEW l \in BOOLEAN, events' = Append(events, Touch(t, l))
  PROVE  /\ \A u : Has(events', u) <=> Has(events, u) \/ t = u
         /\ \A u : Once(events, u) /\ (t = u => ~Has(events, u)) => Once(events', u)
         /\ \A u : HasLatched(events', u) <=> HasLatched(events, u) \/ (t = u /\ l)
         /\ OnlyLatched(events) /\ (t \in Sensed => l) => OnlyLatched(events')
         /\ LatchedFirst(events) /\ (t \in Sensed /\ l => Calm(events)) => LatchedFirst(events')
  <1>1. Touch(t, l) \in EventType /\ Touch(t, l).type = t /\ Touch(t, l).latched = l
    BY DEF Touch, EventType
  <1>2. events \in Seq(EventType)
    BY QueueTypes
  <1>3. QED
    BY <1>1, <1>2, PushedFacts

\* The handshake.
LEMMA HandshakeLatch ==
  ASSUME TypeOK, LatchInv, Handshake
  PROVE  LatchInv'
  <1>0. reader \in ReaderType
    BY TypeControl DEF ControlType
  <1> DEFINE t == IF reader.link = "booting" THEN "InitResult" ELSE "TLS_Ready"
  <1>1. /\ reader.link \in {"booting", "tls"} /\ events' = Append(events, Touch(t, FALSE))
        /\ UNCHANGED <<storage, ctl>>
        /\ reader'.link = IF reader.link = "booting" THEN "asked" ELSE "up"
        /\ reader'.sensor = reader.sensor /\ reader'.latch = reader.latch /\ reader'.touch = reader.touch
    BY <1>0 DEF Handshake, Reports, ReaderType, Event, Touch
  <1>2. t \in EventTypes /\ t \notin Sensed
    BY DEF EventTypes, Sensed
  <1>3. /\ \A u : Has(events', u) <=> Has(events, u) \/ t = u
        /\ \A u : Once(events, u) /\ (t = u => ~Has(events, u)) => Once(events', u)
        /\ \A u : HasLatched(events', u) <=> HasLatched(events, u)
        /\ OnlyLatched(events) => OnlyLatched(events')
        /\ LatchedFirst(events')
    BY <1>1, <1>2, ReportedFacts DEF LatchInv
  <1>4. Fresh /\ Fresh'
    BY <1>1, <1>3 DEF Fresh
  <1>5. ~Has(events, "InitResult") /\ ~Has(events, "TLS_Ready")
    BY <1>1 DEF LatchInv, HandshakeOnce
  <1>6. HandshakeOnce' /\ ClosedIsDown'
    BY <1>1, <1>3, <1>5 DEF LatchInv, HandshakeOnce, ClosedIsDown
  <1>7. Calm(events') <=> Calm(events)
    BY <1>3 DEF Calm
  <1>8. FreshIsUnarmed' /\ LatchHeld' /\ LatchReported' /\ LatchTouched' /\ LatchRead'
    BY <1>1, <1>3, <1>4, <1>7 DEF LatchInv, FreshIsUnarmed, LatchHeld, LatchReported, LatchTouched, LatchRead
  <1>9. QED
    BY <1>1, <1>3, <1>6, <1>8 DEF LatchInv

\* The sensor reports a finger, and the latched one first.
LEMMA TouchesLatch ==
  ASSUME TypeOK, LatchInv, FingerTouches
  PROVE  LatchInv'
  <1>0. reader \in ReaderType /\ reader.latch \in BOOLEAN
    BY TypeControl DEF ControlType, ReaderType
  <1>1. /\ reader.sensor = "armed" /\ events' = Append(events, Touch("FingerDown", reader.latch))
        /\ UNCHANGED <<storage, ctl>>
        /\ reader'.link = reader.link
        /\ reader'.sensor = "touched" /\ reader'.latch = FALSE /\ reader'.touch = reader.latch
    BY <1>0 DEF FingerTouches, Reports, ReaderType
  <1>2. ~Fresh
    BY <1>1 DEF LatchInv, FreshIsUnarmed
  <1>3. reader.latch => ctl.awaiting /\ ctl.pc # "pause" /\ Calm(events)
    BY <1>2 DEF LatchInv, LatchHeld
  <1>4. Calm(events) => OnlyLatched(events) /\ ~HasLatched(events, "FingerDown") /\ ~HasLatched(events, "Image")
    BY DEF Calm, Has, OnlyLatched, HasLatched, Sensed
  <1>5. /\ \A u : Has(events', u) <=> Has(events, u) \/ "FingerDown" = u
        /\ \A u : Once(events, u) /\ ("FingerDown" = u => ~Has(events, u)) => Once(events', u)
        /\ \A u : HasLatched(events', u) <=> HasLatched(events, u) \/ ("FingerDown" = u /\ reader.latch)
        /\ OnlyLatched(events) /\ reader.latch => OnlyLatched(events')
        /\ LatchedFirst(events')
    BY <1>0, <1>1, <1>3, ReportedFacts DEF LatchInv, EventTypes
  <1>6. ~Fresh'
    BY <1>1, <1>2, <1>5 DEF Fresh
  <1>7. HandshakeOnce' /\ ClosedIsDown' /\ FreshIsUnarmed' /\ LatchHeld'
    BY <1>1, <1>5, <1>6 DEF LatchInv, HandshakeOnce, ClosedIsDown, FreshIsUnarmed, LatchHeld
  <1>8. LatchReported'
    <2>1. reader.latch => ~Has(events, "Image")
      BY <1>3 DEF Calm
    <2>2. QED
      BY <1>1, <1>3, <1>5, <2>1 DEF LatchInv, LatchReported
  <1>9. LatchRead'
    BY <1>1, <1>5 DEF LatchInv, LatchRead
  <1>10. LatchTouched'
    BY <1>1, <1>3, <1>4, <1>5 DEF LatchTouched
  <1>11. QED
    BY <1>1, <1>5, <1>7, <1>8, <1>9, <1>10 DEF LatchInv

\* The image of the last touch arrives.
LEMMA ArrivesLatch ==
  ASSUME TypeOK, LatchInv, ImageArrives
  PROVE  LatchInv'
  <1>0. reader \in ReaderType /\ reader.touch \in BOOLEAN
    BY TypeControl DEF ControlType, ReaderType
  <1>1. /\ reader.sensor = "reading" /\ events' = Append(events, Touch("Image", reader.touch))
        /\ UNCHANGED <<storage, ctl>>
        /\ reader'.link = reader.link
        /\ reader'.sensor = "off" /\ reader'.latch = reader.latch /\ reader'.touch = reader.touch
    BY <1>0 DEF ImageArrives, Reports, ReaderType
  <1>2. ~Fresh /\ ~reader.latch /\ ~HasLatched(events, "FingerDown")
    BY <1>1 DEF LatchInv, FreshIsUnarmed, LatchHeld, LatchReported
  <1>3. reader.touch => ctl.stale /\ Calm(events) /\ OnlyLatched(events)
    BY <1>1 DEF LatchInv, LatchTouched
  <1>4. /\ \A u : Has(events', u) <=> Has(events, u) \/ "Image" = u
        /\ \A u : Once(events, u) /\ ("Image" = u => ~Has(events, u)) => Once(events', u)
        /\ \A u : HasLatched(events', u) <=> HasLatched(events, u) \/ ("Image" = u /\ reader.touch)
        /\ OnlyLatched(events) /\ reader.touch => OnlyLatched(events')
        /\ LatchedFirst(events')
    BY <1>0, <1>1, <1>3, ReportedFacts DEF LatchInv, EventTypes
  <1>5. ~Fresh'
    BY <1>1, <1>2, <1>4 DEF Fresh
  <1>6. HandshakeOnce' /\ ClosedIsDown' /\ FreshIsUnarmed' /\ LatchHeld' /\ LatchReported'
    BY <1>1, <1>2, <1>4, <1>5 DEF LatchInv, HandshakeOnce, ClosedIsDown, FreshIsUnarmed, LatchHeld, LatchReported
  <1>7. reader.touch => ctl.pc # "pause"
    BY <1>1 DEF LatchInv, LatchTouched
  <1>8. LatchRead' /\ LatchTouched'
    BY <1>1, <1>2, <1>3, <1>4, <1>7 DEF LatchInv, LatchRead, LatchTouched
  <1>9. QED
    BY <1>1, <1>4, <1>6, <1>8 DEF LatchInv

\* The watchdog, the system and failures of the transport push plain events.
LEMMA PlainReportsLatch ==
  ASSUME TypeOK, LatchInv, Watchdog \/ PowerChanged \/ TransportFails
  PROVE  LatchInv'
  <1>1. /\ reader' = reader /\ storage'.ready = storage.ready
        /\ ctl'.awaiting = ctl.awaiting /\ ctl'.stale = ctl.stale /\ ctl'.pc = ctl.pc
    BY DEF Watchdog, PowerChanged, TransportFails, Reports, TypeOK
  <1>2. events' = events \/ \E t \in Plain : events' = Append(events, Event(t))
    BY DEF Watchdog, PowerChanged, TransportFails, Reports, Plain
  <1>3. QED
    BY <1>1, <1>2, PlainIsSame, LatchKept DEF LatchInv

\* Every step keeps track of the latched touch.
LEMMA NextLatch == TypeOK /\ ScanInv /\ LatchInv /\ [Next]_vars => LatchInv'
  <1> SUFFICES ASSUME TypeOK, ScanInv, LatchInv, [Next]_vars PROVE LatchInv'
    OBVIOUS
  <1>1. CASE UNCHANGED vars
    <2>1. UNCHANGED <<storage, ctl, events, reader>>
      BY <1>1 DEF vars
    <2>2. QED
      BY <2>1, PlainIsSame, LatchKept DEF LatchInv
  <1>2. CASE (\E o \in Op : StartScan(o) \/ Scan(o)) \/ StopScan \/ ReleaseScan \/ ClaimerGone
    BY <1>2, OperationsLatch
  <1>3. CASE OnTransportFailed \/ OnSuspend \/ TransferFailed \/ ResumeRecovery
    BY <1>3, FailureHandlersLatch
  <1>4. CASE Reopen \/ InitDevice
    BY <1>4, SessionLatch
  <1>5. CASE OnInitResult \/ OnTLSReady
    BY <1>5, InitResultLatch, TLSReadyLatch
  <1>6. CASE OnStartSensor \/ OnStopSensor \/ OnResume
    BY <1>6, SensorHandlersLatch
  <1>7. CASE OnFingerDown \/ OnImage
    BY <1>7, FingerDownLatch, ImageLatch
  <1>8. CASE SubmitArm \/ GetImage \/ TransferDone
    BY <1>8, PausesLatch
  <1>9. CASE Handshake \/ FingerTouches \/ ImageArrives
    BY <1>9, HandshakeLatch, TouchesLatch, ArrivesLatch
  <1>10. CASE Watchdog \/ PowerChanged \/ TransportFails
    BY <1>10, PlainReportsLatch
  <1>11. QED
    BY <1>1, <1>2, <1>3, <1>4, <1>5, <1>6, <1>7, <1>8, <1>9, <1>10 DEF Next, Control, Environment

\* Nothing is latched before the first session.
LEMMA LatchInit == Init => LatchInv
  <1>1. ASSUME Init PROVE /\ reader = LinkDown /\ events = <<>> /\ ~storage.ready
                          /\ ctl.pc \notin {"arm", "pause"}
    BY <1>1 DEF Init
  <1>2. LinkDown.link = "down" /\ LinkDown.sensor = "off" /\ LinkDown.latch = FALSE /\ LinkDown.touch = FALSE
    BY DEF LinkDown
  <1>3. QED
    BY <1>1, <1>2, EmptyFacts
       DEF LatchInv, HandshakeOnce, ClosedIsDown, FreshIsUnarmed, LatchHeld, LatchReported, LatchTouched,
           LatchRead, Calm

\* Items stay where they are or go away, and no get becomes pending before a
\* queue that is not empty.
KeepsItems ==
  /\ images' \in {images, <<>>}
  /\ \A p \in Op : /\ scan'[p].got \in {scan[p].got, <<>>}
                   /\ Pending(p)' => Pending(p) \/ images' = <<>>

\* Ending operations have nothing left.
LEMMA EndsKeepsItems ==
  ASSUME TypeOK, NEW gone, Ends(gone), images' \in {images, <<>>}
  PROVE  KeepsItems
  <1> SUFFICES ASSUME NEW p \in Op PROVE scan'[p].got \in {scan[p].got, <<>>} /\ (Pending(p)' => Pending(p))
    BY DEF KeepsItems
  <1>1. CASE p \in gone
    BY <1>1, EndsFacts, TaskFacts DEF Pending
  <1>2. CASE p \notin gone
    BY <1>2, EndsFacts DEF Pending
  <1>3. QED
    BY <1>1, <1>2

\* What a step does with the items: it keeps them, or puts one, or an operation
\* gets one.
HandsOver ==
  \/ KeepsItems
  \/ \E e \in ImageItem :
       /\ PutImage(e)
       /\ e.type = "Image" => OnImage /\ ~ctl.stale /\ e.latched = Head(events).latched
  \/ \E o \in Op : \E s \in TaskType : WaitImage(o, s)

\* A notice is put.
LEMMA NoticeHandsOver ==
  ASSUME NEW t \in ImageTypes \ {"Image"}, PutImage(Notice(t))
  PROVE  HandsOver
  <1>1. Notice(t) \in ImageItem /\ Notice(t).type # "Image"
    BY MessageTypes DEF Notice
  <1>2. QED
    BY <1>1 DEF HandsOver

\* The operations and the device.
LEMMA OperationsHandOver ==
  ASSUME TypeOK,
         (\E o \in Op : StartScan(o) \/ Scan(o)) \/ StopScan \/ ReleaseScan \/ ClaimerGone
  PROVE  HandsOver
  <1>0. Gen \in Nat /\ Gen + 1 \in Nat
    BY DEF TypeOK, Gen
  <1>1. ASSUME NEW o \in Op, StartScan(o) PROVE HandsOver
    <2>1. images' = images /\ \A p \in Op : scan'[p].got = scan[p].got /\ (Pending(p)' => Pending(p))
      BY <1>1, StartFacts DEF StartScan, Pending
    <2>2. QED
      BY <2>1 DEF HandsOver, KeepsItems
  <1>2. ASSUME NEW o \in Op, Enroll(o) PROVE HandsOver
    <2>1. images' = <<>> /\ \A p \in Op : scan'[p].got \in {scan[p].got, <<>>}
      BY <1>2, EnrollFacts, TaskFacts DEF Enroll
    <2>2. QED
      BY <2>1 DEF HandsOver, KeepsItems
  <1>3. ASSUME NEW o \in Op, ParseIgnored(o) \/ NextCapture(o) PROVE HandsOver
    <2> DEFINE s == IF ParseIgnored(o) THEN scan[o] ELSE [scan[o] EXCEPT !.gen = Gen + 1]
    <2>1. s \in TaskType
      BY <1>0, TaskFacts DEF TaskType
    <2>2. WaitImage(o, s)
      BY <1>3 DEF ParseIgnored, NextCapture
    <2> HIDE DEF s
    <2>3. QED
      BY <2>1, <2>2 DEF HandsOver
  <1>4. ASSUME NEW o \in Op, ParseCapture(o) \/ ParseFailure(o) PROVE HandsOver
    <2>1. images' = images /\ \E p \in {"sendLast", "sendMore"} : scan' = [scan EXCEPT ![o].pc = p, ![o].got = <<>>]
      BY <1>4 DEF ParseCapture, ParseFailure
    <2>2. \A q \in Op : scan'[q].got \in {scan[q].got, <<>>} /\ (Pending(q)' => Pending(q))
      BY <2>1, ParsedFacts DEF Pending
    <2>3. QED
      BY <2>1, <2>2 DEF HandsOver, KeepsItems
  <1>5. ASSUME NEW gone, NEW g \in Nat, Finish(gone, g), images' \in {images, <<>>} PROVE HandsOver
    BY <1>5, FinishType, EndsKeepsItems DEF HandsOver
  <1>6. CASE StopScan
    BY <1>6, NoticeHandsOver DEF StopScan, ImageTypes
  <1>7. CASE UNCHANGED <<scan, images>>
    BY <1>7 DEF HandsOver, KeepsItems, Pending
  <1>8. CASE ReleaseScan \/ ClaimerGone
    BY <1>0, <1>5, <1>7, <1>8 DEF ReleaseScan, ClaimerGone
  <1>9. ASSUME NEW o \in Op, ParseStop(o) \/ StopAfterResult(o) PROVE HandsOver
    BY <1>0, <1>5, <1>9 DEF ParseStop, StopAfterResult
  <1>10. QED
    BY <1>1, <1>2, <1>3, <1>4, <1>6, <1>8, <1>9 DEF Scan

\* A teardown, and a failure that an operation is told of.
LEMMA FailureHandsOver ==
  ASSUME TypeOK, NEW c, NEW rest, OperationFailed(c, rest) \/ BeginRecovery(c) \/ CleanupDevice(TRUE)
  PROVE  HandsOver
  <1>1. ASSUME NEW ends, CleanupDevice(ends) PROVE HandsOver
    <2>1. Ends(Gone(ends)) /\ images' = <<>>
      BY <1>1, CleanupType DEF CleanupDevice
    <2>2. QED
      BY <2>1, EndsKeepsItems DEF HandsOver
  <1>2. CASE PutImage(Notice("TransportFailed"))
    BY <1>2, NoticeHandsOver DEF ImageTypes
  <1>3. CASE BeginRecovery(c)
    BY <1>1, <1>3 DEF BeginRecovery
  <1>4. QED
    BY <1>1, <1>2, <1>3 DEF OperationFailed

\* The reports of the sensor.
LEMMA SensedHandsOver ==
  ASSUME TypeOK, OnFingerDown \/ OnImage
  PROVE  HandsOver
  <1>0. ctl.gen \in Nat
    BY DEF TypeOK
  <1>1. CASE UNCHANGED <<scan, images>>
    BY <1>1 DEF HandsOver, KeepsItems, Pending
  <1>2. CASE PutImage([Notice("FingerDown") EXCEPT !.gen = ctl.gen])
    <2> DEFINE n == [Notice("FingerDown") EXCEPT !.gen = ctl.gen]
    <2>1. n \in ImageItem /\ n.type # "Image"
      BY <1>0 DEF Notice, ImageItem, ImageTypes
    <2> HIDE DEF n
    <2>2. PutImage(n)
      BY <1>2 DEF n
    <2>3. QED
      BY <2>1, <2>2 DEF HandsOver
  <1>3. CASE /\ OnImage /\ ~ctl.stale
             /\ PutImage([type |-> "Image", gen |-> ctl.gen, latched |-> Head(events).latched])
    <2> DEFINE n == [type |-> "Image", gen |-> ctl.gen, latched |-> Head(events).latched]
    <2>1. Head(events) \in EventType
      BY <1>3, QueueTypes DEF OnImage, Gets
    <2>2. n \in ImageItem /\ n.latched = Head(events).latched
      BY <1>0, <2>1 DEF ImageItem, ImageTypes, EventType
    <2> HIDE DEF n
    <2>3. PutImage(n)
      BY <1>3 DEF n
    <2>4. QED
      BY <1>3, <2>2, <2>3 DEF HandsOver
  <1>4. QED
    BY <1>1, <1>2, <1>3 DEF OnFingerDown, OnImage

\* Every step.
LEMMA NextHandsOver == TypeOK /\ [Next]_vars => HandsOver
  <1> SUFFICES ASSUME TypeOK, [Next]_vars PROVE HandsOver
    OBVIOUS
  <1>1. CASE UNCHANGED <<scan, images>>
    BY <1>1 DEF HandsOver, KeepsItems, Pending
  <1>2. CASE (\E o \in Op : StartScan(o) \/ Scan(o)) \/ StopScan \/ ReleaseScan \/ ClaimerGone
    BY <1>2, OperationsHandOver
  <1>3. CASE OnTransportFailed \/ OnSuspend \/ TransferFailed \/ ResumeRecovery
    BY <1>3, FailureHandsOver DEF OnTransportFailed, OnSuspend, TransferFailed, ResumeRecovery
  <1>4. CASE Reopen \/ InitDevice
    BY <1>1, <1>4, FailureHandsOver DEF Reopen, InitDevice
  <1>5. CASE OnFingerDown \/ OnImage
    BY <1>5, SensedHandsOver
  <1>6. CASE \/ OnInitResult \/ OnTLSReady \/ OnStartSensor \/ OnStopSensor \/ OnResume
             \/ SubmitArm \/ GetImage \/ TransferDone
             \/ Watchdog \/ PowerChanged \/ Handshake \/ FingerTouches \/ ImageArrives \/ TransportFails
             \/ UNCHANGED vars
    <2>1. UNCHANGED <<scan, images>>
      BY <1>6 DEF OnInitResult, OnTLSReady, OnStartSensor, OnStopSensor, OnResume, SubmitArm, GetImage, TransferDone,
                  Watchdog, PowerChanged, Handshake, FingerTouches, ImageArrives, TransportFails, Reports, vars
    <2>2. QED
      BY <1>1, <2>1
  <1>7. QED
    BY <1>2, <1>3, <1>4, <1>5, <1>6 DEF Next, Control, Environment

\* A get is pending only while the queue is empty.
PendingIsEmpty == \A o \in Op : Pending(o) => images = <<>>

\* A put serves it first, and a get looks into the queue first.
LEMMA NextPending == TypeOK /\ PendingIsEmpty /\ [Next]_vars => PendingIsEmpty'
  <1> SUFFICES ASSUME TypeOK, PendingIsEmpty, [Next]_vars PROVE PendingIsEmpty'
    OBVIOUS
  <1>1. CASE KeepsItems
    BY <1>1 DEF KeepsItems, PendingIsEmpty
  <1>2. ASSUME NEW e \in ImageItem, PutImage(e) PROVE PendingIsEmpty'
    <2>1. \A p \in Op : scan'[p].pc = scan[p].pc
      BY <1>2, PutFacts
    <2>2. CASE (\A p \in Op : ~Pending(p)) /\ scan' = scan
      BY <2>2 DEF PendingIsEmpty, Pending
    <2>3. CASE images' = images /\ \E o \in Op : Pending(o)
      BY <2>3 DEF PendingIsEmpty
    <2>4. QED
      BY <1>2, <2>2, <2>3, PutFacts
  <1>3. ASSUME NEW o \in Op, NEW s \in TaskType, WaitImage(o, s) PROVE PendingIsEmpty'
    <2>1. CASE images = <<>>
      BY <1>3, <2>1, WaitFacts DEF PendingIsEmpty
    <2>2. CASE images # <<>>
      <3>1. scan'[o].got = <<Head(images)>> /\ \A p \in Op : p # o => scan'[p] = scan[p]
        BY <1>3, <2>2, WaitFacts
      <3>2. <<Head(images)>> # <<>>
        OBVIOUS
      <3>3. QED
        BY <2>2, <3>1, <3>2 DEF PendingIsEmpty, Pending
    <2>3. QED
      BY <2>1, <2>2
  <1>4. QED
    BY <1>1, <1>2, <1>3, NextHandsOver DEF HandsOver

\* No operation was given a capture of the latched touch, and none is queued.
Delivered == Delivers(images) /\ \A o \in Op : Delivers(scan[o].got)

\* What is queued or given goes away.
LEMMA DeliveredKept == Delivered /\ KeepsItems => Delivered'
  BY EmptyFacts DEF Delivered, KeepsItems

\* A capture of another touch is handed over, or another item.
LEMMA DeliveredPut ==
  ASSUME TypeOK, Delivered, NEW e \in ImageItem, PutImage(e), e.type = "Image" => ~e.latched
  PROVE  Delivered'
  <1>1. images \in Seq(ImageItem)
    BY QueueTypes
  <1> HIDE DEF ImageItem
  <1>2. Delivers(<<e>>)
    BY DEF Delivers
  <1>3. Delivers(Append(images, e))
    BY <1>1, DeliversFacts DEF Delivered
  <1>4. CASE scan' = scan /\ images' = Append(images, e)
    BY <1>3, <1>4 DEF Delivered
  <1>5. CASE images' = images /\ \E o \in Op : scan'[o].got = <<e>> /\ \A p \in Op : p # o => scan'[p] = scan[p]
    BY <1>2, <1>5 DEF Delivered
  <1>6. QED
    BY <1>4, <1>5, PutFacts

\* An operation gets what is queued first.
LEMMA DeliveredWait ==
  ASSUME TypeOK, Delivered, NEW o \in Op, NEW s \in TaskType, WaitImage(o, s)
  PROVE  Delivered'
  <1>1. images \in Seq(ImageItem)
    BY QueueTypes
  <1>2. /\ \A p \in Op : p # o => scan'[p] = scan[p]
        /\ images = <<>> => scan'[o].got = <<>> /\ images' = <<>>
        /\ images # <<>> => scan'[o].got = <<Head(images)>> /\ images' = Tail(images)
    BY WaitFacts
  <1> HIDE DEF ImageItem
  <1>3. images # <<>> => Delivers(Tail(images)) /\ Delivers(<<Head(images)>>)
    <2>1. ASSUME images # <<>> PROVE Delivers(<<Head(images)>>)
      <3>1. 1 \in DOMAIN images /\ images[1] = Head(images)
        BY <1>1, <2>1
      <3>2. QED
        BY <3>1 DEF Delivered, Delivers
    <2>2. QED
      BY <1>1, <2>1, DeliversFacts DEF Delivered
  <1>4. QED
    BY <1>2, <1>3, EmptyFacts DEF Delivered

\* No step delivers it: a latched image finds a distrustful controller.
LEMMA NextDelivered == TypeOK /\ LatchInv /\ Delivered /\ [Next]_vars => Delivered'
  <1> SUFFICES ASSUME TypeOK, LatchInv, Delivered, [Next]_vars PROVE Delivered'
    OBVIOUS
  <1>1. OnImage /\ ~ctl.stale => ~Head(events).latched
    <2> SUFFICES ASSUME OnImage, ~ctl.stale PROVE ~Head(events).latched
      OBVIOUS
    <2>1. Gets("Image") /\ Taken /\ "Image" \in Sensed
      BY DEF OnImage, Sensed
    <2>2. Head(events).latched => HasLatched(events, "Image")
      BY <2>1, SensedTaken
    <2>3. QED
      BY <2>2 DEF LatchInv, LatchRead
  <1>2. ASSUME NEW e \in ImageItem, PutImage(e),
               e.type = "Image" => OnImage /\ ~ctl.stale /\ e.latched = Head(events).latched
        PROVE  Delivered'
    BY <1>1, <1>2, DeliveredPut
  <1>3. QED
    BY <1>2, NextHandsOver, DeliveredKept, DeliveredWait DEF HandsOver

\* A touch that was latched before the reader was powered on never becomes the
\* capture of an operation, however sessions, arms and touches follow each other
\* (ev_finger_down, ev_image).
THEOREM LatchedTouchNotDeliveredHolds == Spec => []LatchedTouchNotDelivered
  <1>1. Init => LatchInv /\ Delivered
    <2>1. Init => Delivered
      BY EmptyFacts DEF Init, Delivered
    <2>2. QED
      BY <2>1, LatchInit
  <1>2. Delivered => LatchedTouchNotDelivered
    BY DEF Delivered, Delivers, LatchedTouchNotDelivered
  <1>3. IInv /\ LatchInv /\ [Next]_vars => LatchInv'
    BY NextLatch DEF IInv
  <1>4. IInv /\ LatchInv /\ Delivered /\ [Next]_vars => Delivered'
    BY NextDelivered DEF IInv
  <1>5. QED
    BY <1>1, <1>2, <1>3, <1>4, Invariant, PTL DEF Spec
-----------------------------------------------------------------------------
(* Sleep. *)

\* A session under an operation that is to be told has failed.
YieldIsDown == ctl.pc = "yield" => ~storage.ready

\* A controller that does not know yet that the system sleeps will be told, and
\* not be resumed before.
SleepIsTold ==
  storage.sleeping /\ ctl.pc \notin {"yield", "ended"} =>
    Has(events, "Suspend") \/ (ctl.suspended /\ ~Has(events, "Resume"))

SleepInv == YieldIsDown /\ SleepIsTold

\* What steps that push or pop keep.
LEMMA SleepToldKept ==
  ASSUME SleepInv, storage'.sleeping = storage.sleeping, ctl'.suspended = ctl.suspended,
         Has(events, "Suspend") => Has(events', "Suspend"),
         Has(events', "Resume") => Has(events, "Resume"),
         ctl'.pc = ctl.pc \/ (ctl.pc \notin {"yield", "ended"} /\ ctl'.pc # "yield"),
         storage'.ready => storage.ready \/ ctl'.pc # "yield"
  PROVE  SleepInv'
  <1>1. YieldIsDown'
    BY DEF SleepInv, YieldIsDown
  <1>2. SleepIsTold'
    BY DEF SleepInv, SleepIsTold
  <1>3. QED
    BY <1>1, <1>2 DEF SleepInv

\* A pushed event.
LEMMA EventPushed ==
  ASSUME TypeOK, NEW e \in EventType, events' = events \/ events' = Append(events, e)
  PROVE  /\ \A t : Has(events, t) => Has(events', t)
         /\ \A t : t # e.type => (Has(events', t) => Has(events, t))
  <1>1. events \in Seq(EventType)
    BY QueueTypes
  <1>2. CASE events' = Append(events, e)
    <2>1. \A t : Has(Append(events, e), t) <=> Has(events, t) \/ e.type = t
      BY <1>1, PushedFacts
    <2>2. QED
      BY <1>2, <2>1
  <1>3. QED
    BY <1>2

\* Failures end in a teardown, which asks whether the system sleeps, or in a
\* controller that is going to.
LEMMA FailureSleep ==
  ASSUME TypeOK, NEW c \in CtlType, NEW rest, OperationFailed(c, rest) \/ BeginRecovery(c)
  PROVE  SleepInv' /\ ~storage'.ready
  <1>1. CASE BeginRecovery(c)
    <2> DEFINE after == IF storage.sleeping THEN [c EXCEPT !.pc = "idle"] ELSE Schedule(c)
    <2>1. after \in CtlType
      BY ScheduleType DEF CtlType
    <2>2. ctl' = [after EXCEPT !.active = FALSE, !.watchdog = FALSE, !.suspended = storage.sleeping]
      BY <1>1 DEF BeginRecovery
    <2>3. storage'.sleeping = storage.sleeping /\ ~storage'.ready /\ events' = <<>>
      BY <1>1 DEF BeginRecovery, CleanupDevice, TypeOK
    <2> HIDE DEF after
    <2>4. ctl'.suspended = storage.sleeping
      BY <2>1, <2>2 DEF CtlType
    <2>5. ~Has(events', "Resume")
      BY <2>3, EmptyFacts
    <2>6. QED
      BY <2>3, <2>4, <2>5 DEF SleepInv, YieldIsDown, SleepIsTold
  <1>2. CASE ~BeginRecovery(c)
    <2>1. ctl' = [c EXCEPT !.pc = "yield"] /\ storage' = [storage EXCEPT !.ready = FALSE]
      BY <1>2 DEF OperationFailed
    <2>2. ctl'.pc = "yield" /\ ~storage'.ready
      BY <2>1 DEF CtlType, TypeOK
    <2>3. QED
      BY <2>2 DEF SleepInv, YieldIsDown, SleepIsTold
  <1>3. QED
    BY <1>1, <1>2

\* Steps that leave the controller and the system alone.
LEMMA OthersSleep ==
  ASSUME TypeOK, SleepInv,
         \/ \E o \in Op : StartScan(o) \/ Scan(o)
         \/ StopScan \/ ReleaseScan \/ ClaimerGone \/ Watchdog
         \/ Handshake \/ FingerTouches \/ ImageArrives \/ TransportFails
         \/ UNCHANGED vars
  PROVE  SleepInv'
  <1>1. /\ storage'.sleeping = storage.sleeping /\ storage'.ready = storage.ready
        /\ ctl'.suspended = ctl.suspended /\ ctl'.pc = ctl.pc
    <2>1. CASE \E o \in Op : StartScan(o) \/ Scan(o)
      BY <2>1, SleepAndReadyKept DEF StartScan, Scan, Enroll, ParseIgnored, ParseCapture, ParseFailure, ParseStop,
                                     NextCapture, StopAfterResult
    <2>2. CASE StopScan \/ ReleaseScan \/ ClaimerGone
      BY <2>2, SleepAndReadyKept DEF StopScan, ReleaseScan, ClaimerGone
    <2>3. CASE Watchdog \/ Handshake \/ FingerTouches \/ ImageArrives \/ TransportFails \/ UNCHANGED vars
      BY <2>3 DEF Watchdog, Handshake, FingerTouches, ImageArrives, TransportFails, Reports, vars, TypeOK
    <2>4. QED
      BY <2>1, <2>2, <2>3
  <1>2. \E e \in EventType : e.type # "Resume" /\ (events' = events \/ events' = Append(events, e))
    <2>1. reader.latch \in BOOLEAN /\ reader.touch \in BOOLEAN
      BY DEF TypeOK
    <2>2. /\ \A t \in EventTypes : Event(t) \in EventType /\ Event(t).type = t
          /\ \A t \in EventTypes, l \in BOOLEAN : Touch(t, l) \in EventType /\ Touch(t, l).type = t
      BY MessageTypes DEF Event, Touch
    <2> HIDE DEF EventType
    <2>3. \/ events' = events
          \/ \E t \in EventTypes \ {"Resume"} : events' = Append(events, Event(t))
          \/ \E t \in EventTypes \ {"Resume"}, l \in BOOLEAN : events' = Append(events, Touch(t, l))
      <3>1. CASE \E o \in Op : StartScan(o) \/ Scan(o)
        BY <3>1 DEF StartScan, Scan, Enroll, ParseIgnored, ParseCapture, ParseFailure, ParseStop, NextCapture,
                    StopAfterResult, EventTypes
      <3>2. CASE StopScan \/ ReleaseScan \/ ClaimerGone \/ Watchdog \/ TransportFails \/ Handshake
        BY <3>2 DEF StopScan, ReleaseScan, ClaimerGone, Watchdog, TransportFails, Handshake, Reports, EventTypes
      <3>3. CASE FingerTouches \/ ImageArrives
        BY <2>1, <3>3 DEF FingerTouches, ImageArrives, Reports, EventTypes
      <3>4. CASE UNCHANGED vars
        BY <3>4 DEF vars
      <3>5. QED
        BY <3>1, <3>2, <3>3, <3>4
    <2>4. "InitResult" \in EventTypes
      BY DEF EventTypes
    <2>5. QED
      BY <2>2, <2>3, <2>4
  <1>3. QED
    BY <1>1, <1>2, EventPushed, SleepToldKept

\* What a handler pops, for any invariant.
LEMMA HandlerPops ==
  ASSUME TypeOK, NEW t, Gets(t), Taken
  PROVE  /\ ctl.pc = "idle" /\ Has(events, t)
         /\ \A u : Has(events', u) => Has(events, u)
         /\ \A u : u # t => (Has(events, u) => Has(events', u))
  <1>1. ctl.pc = "idle" /\ events # <<>> /\ Head(events).type = t /\ events' = Tail(events)
    BY DEF Gets, Taken
  <1>2. events \in Seq(EventType)
    BY <1>1, QueueTypes
  <1>3. \A u : Has(events, u) <=> Has(events', u) \/ t = u
    BY <1>1, <1>2, PoppedFacts
  <1>4. QED
    BY <1>1, <1>3

\* The handlers.
LEMMA HandlersSleep ==
  ASSUME TypeOK, SleepInv,
         OnInitResult \/ OnTLSReady \/ OnStartSensor \/ OnStopSensor \/ OnFingerDown \/ OnImage \/ OnResume
  PROVE  SleepInv'
  <1>0. ctl \in CtlType
    BY TypeControl DEF ControlType
  <1>1. CASE OnResume
    <2>1. /\ ctl.pc = "idle" /\ Has(events, "Resume")
          /\ Has(events, "Suspend") => Has(events', "Suspend")
          /\ Has(events', "Resume") => Has(events, "Resume")
      BY <1>1, HandlerPops DEF OnResume
    <2>2. storage' = storage /\ ctl'.suspended = FALSE /\ ctl'.pc # "yield"
      BY <1>0, <1>1, <2>1 DEF OnResume, CtlType
    <2>3. SleepIsTold' /\ YieldIsDown'
      BY <2>1, <2>2 DEF SleepInv, SleepIsTold, YieldIsDown
    <2>4. QED
      BY <2>3 DEF SleepInv
  <1>2. CASE OnInitResult \/ OnTLSReady \/ OnStartSensor \/ OnStopSensor \/ OnFingerDown \/ OnImage
    <2>1. /\ ctl.pc = "idle"
          /\ Has(events, "Suspend") => Has(events', "Suspend")
          /\ Has(events', "Resume") => Has(events, "Resume")
      <3>1. \E t \in {"InitResult", "TLS_Ready", "StartSensor", "StopSensor", "FingerDown", "Image"} : Gets(t) /\ Taken
        BY <1>2 DEF OnInitResult, OnTLSReady, OnStartSensor, OnStopSensor, OnFingerDown, OnImage
      <3>2. PICK t : t # "Suspend" /\ t # "Resume" /\ Gets(t) /\ Taken
        BY <3>1
      <3>3. QED
        BY <3>2, HandlerPops
    <2>2. ctl'.suspended = ctl.suspended /\ ctl'.pc # "yield"
      BY <1>0, <1>2, <2>1
         DEF OnInitResult, OnTLSReady, OnStartSensor, OnStopSensor, OnFingerDown, OnImage, StartSensor, CtlType
    <2>3. storage'.sleeping = storage.sleeping
      BY <1>2 DEF OnInitResult, OnTLSReady, OnStartSensor, OnStopSensor, OnFingerDown, OnImage, TypeOK
    <2>4. QED
      BY <2>1, <2>2, <2>3, SleepToldKept
  <1>3. QED
    BY <1>1, <1>2

\* Every step.
LEMMA NextSleep == TypeOK /\ SleepInv /\ [Next]_vars => SleepInv'
  <1> SUFFICES ASSUME TypeOK, SleepInv, [Next]_vars PROVE SleepInv'
    OBVIOUS
  <1>0. ctl \in CtlType
    BY TypeControl DEF ControlType
  <1>1. CASE \/ \E o \in Op : StartScan(o) \/ Scan(o)
             \/ StopScan \/ ReleaseScan \/ ClaimerGone \/ Watchdog
             \/ Handshake \/ FingerTouches \/ ImageArrives \/ TransportFails
             \/ UNCHANGED vars
    BY <1>1, OthersSleep
  <1>2. CASE OnInitResult \/ OnTLSReady \/ OnStartSensor \/ OnStopSensor \/ OnFingerDown \/ OnImage \/ OnResume
    BY <1>2, HandlersSleep
  <1>3. CASE ResumeRecovery \/ OnTransportFailed \/ TransferFailed
    BY <1>0, <1>3, FailureSleep DEF ResumeRecovery, OnTransportFailed, TransferFailed
  <1>4. CASE OnSuspend
    <2> DEFINE c == [ctl EXCEPT !.suspended = TRUE, !.active = FALSE]
    <2>1. c \in CtlType /\ OperationFailed(c, Tail(events))
      BY <1>0, <1>4 DEF OnSuspend, CtlType
    <2> HIDE DEF c
    <2>2. QED
      BY <2>1, FailureSleep
  <1>5. CASE PowerChanged
    <2>1. storage'.sleeping = ~storage.sleeping /\ storage'.ready = storage.ready /\ ctl' = ctl
      BY <1>5 DEF PowerChanged, TypeOK
    <2>2. storage'.sleeping => Has(events', "Suspend")
      <3>1. storage'.sleeping => events' = Append(events, Event("Suspend"))
        BY <1>5, <2>1 DEF PowerChanged
      <3>2. events \in Seq(EventType) /\ Event("Suspend") \in EventType /\ Event("Suspend").type = "Suspend"
        BY QueueTypes, MessageTypes DEF EventTypes, Event
      <3>3. Has(Append(events, Event("Suspend")), "Suspend")
        BY <3>2, PushedFacts
      <3>4. QED
        BY <3>1, <3>3
    <2>3. QED
      BY <2>1, <2>2 DEF SleepInv, YieldIsDown, SleepIsTold
  <1>6. CASE Reopen \/ InitDevice
    <2>1. CASE OperationFailed(ctl, events)
      BY <1>0, <2>1, FailureSleep
    <2>2. CASE ~OperationFailed(ctl, events)
      <3>1. ctl'.pc \in {"idle", "init", "reopen", "ended"} /\ ctl'.suspended = ctl.suspended
        BY <1>0, <1>6, <2>2 DEF Reopen, InitDevice, Schedule, CtlType
      <3>2. ctl'.pc # "ended" => storage' = storage /\ events' = events
        BY <1>0, <1>6, <2>2 DEF Reopen, InitDevice, Schedule, CtlType
      <3>3. ctl.pc \in {"init", "reopen"}
        BY <1>6 DEF Reopen, InitDevice
      <3>4. QED
        BY <3>1, <3>2, <3>3 DEF SleepInv, YieldIsDown, SleepIsTold
    <2>3. QED
      BY <2>1, <2>2
  <1>7. CASE SubmitArm \/ GetImage \/ TransferDone
    <2>1. UNCHANGED <<storage, events>> /\ ctl.pc \in {"arm", "pause", "busy"}
      BY <1>7 DEF SubmitArm, GetImage, TransferDone
    <2>2. ctl'.pc \in {"busy", "idle"} /\ ctl'.suspended = ctl.suspended
      BY <1>0, <1>7 DEF SubmitArm, GetImage, TransferDone, CtlType
    <2>3. QED
      BY <2>1, <2>2, SleepToldKept
  <1>8. QED
    BY <1>1, <1>2, <1>3, <1>4, <1>5, <1>6, <1>7 DEF Next, Control, Environment
-----------------------------------------------------------------------------
(* Who waits is served. *)

\* What parse_image does not ignore, for an operation of generation g.
IsAnswer(n, g) == n.type \in {"EnrollVerifyStop", "TransportFailed"} \/ (n.type = "Image" /\ n.gen = g)
Answers(q, g)  == \E i \in DOMAIN q : IsAnswer(q[i], g)

\* The sensor is asked for, with no stop after it.
AskedLast(q) ==
  \E i \in DOMAIN q : q[i].type = "StartSensor" /\ \A j \in DOMAIN q : j > i => q[j].type # "StopSensor"

\* The session is going to be reported as failed.
Failing == Has(events, "Suspend") \/ Has(events, "TransportFailed")

\* The reader is armed for the current generation or a step of its capture is
\* under way, and no stop is queued.
Serving ==
  /\ Capturing /\ ~Has(events, "StopSensor")
  /\ \/ ctl.pc = "arm"
     \/ reader.sensor = "armed"
     \/ reader.sensor = "touched" /\ (Has(events, "FingerDown") \/ ctl.pc = "pause")
     \/ reader.sensor = "reading"
     \/ Has(events, "Image")

\* An operation has its answer, in its hands or queued.
HasAnswer(o) ==
  \/ Answers(images, scan[o].gen)
  \/ scan[o].got # <<>> /\ IsAnswer(Head(scan[o].got), scan[o].gen)

\* An operation that waits has its answer, or the failure of its session is
\* queued, or it is the current one and is served or going to be.
Served(o) ==
  /\ scan[o].pc = "wait" => HasAnswer(o) \/ Failing \/ (scan[o].gen = Gen /\ (AskedLast(events) \/ Serving))
  /\ scan[o].pc = "born" => Failing \/ scan[o].gen = Gen

\* No other operation is alive.
Alone(o) == \A p \in Op : Live(p) => p = o

\* None ended since the one was created either, as that clears the flag.
ServedInv == storage.ready /\ storage.operation_active => \A o \in Op : Alone(o) => Served(o)

\* A request that is pushed, and one that is not popped.
LEMMA AskedFacts ==
  ASSUME NEW q \in Seq(EventType)
  PROVE  /\ ~AskedLast(<<>>)
         /\ \A e \in EventType : /\ e.type = "StartSensor" => AskedLast(Append(q, e))
                                 /\ e.type # "StopSensor" /\ AskedLast(q) => AskedLast(Append(q, e))
         /\ q # <<>> /\ AskedLast(q) =>
              AskedLast(Tail(q)) \/ (Head(q).type = "StartSensor" /\ ~Has(Tail(q), "StopSensor"))
  <1> HIDE DEF EventType
  <1>1. ~AskedLast(<<>>)
    BY DEF AskedLast
  <1>2. ASSUME NEW e \in EventType
        PROVE  /\ e.type = "StartSensor" => AskedLast(Append(q, e))
               /\ e.type # "StopSensor" /\ AskedLast(q) => AskedLast(Append(q, e))
    <2> DEFINE r == Append(q, e)
               n == Len(q)
    <2>1. /\ n \in Nat /\ DOMAIN q = 1 .. n /\ DOMAIN r = 1 .. n + 1
          /\ r[n + 1] = e /\ \A i \in 1 .. n : r[i] = q[i]
      OBVIOUS
    <2>2. DOMAIN r = DOMAIN q \cup {n + 1} /\ \A i \in DOMAIN r : ~(i > n + 1)
      BY <2>1
    <2>3. r[n + 1] = e /\ \A i \in DOMAIN q : r[i] = q[i]
      BY <2>1
    <2> HIDE DEF r, n
    <2>4. e.type = "StartSensor" => AskedLast(r)
      BY <2>2, <2>3 DEF AskedLast
    <2>5. e.type # "StopSensor" /\ AskedLast(q) => AskedLast(r)
      BY <2>2, <2>3 DEF AskedLast
    <2>6. QED
      BY <2>4, <2>5 DEF r
  <1>3. ASSUME q # <<>>, AskedLast(q)
        PROVE  AskedLast(Tail(q)) \/ (Head(q).type = "StartSensor" /\ ~Has(Tail(q), "StopSensor"))
    <2> DEFINE r == Tail(q)
    <2>1. PICK i \in DOMAIN q : q[i].type = "StartSensor" /\ \A j \in DOMAIN q : j > i => q[j].type # "StopSensor"
      BY <1>3 DEF AskedLast
    <2>2. \A j \in DOMAIN r : j + 1 \in DOMAIN q /\ r[j] = q[j + 1] /\ j \in Nat /\ j > 0
      BY <1>3
    <2>3. i \in Nat /\ (i = 1 \/ i - 1 \in DOMAIN r) /\ q[1] = Head(q)
      BY <1>3, <2>1
    <2>4. CASE i = 1
      <3>1. \A j \in DOMAIN r : r[j].type # "StopSensor"
        BY <2>1, <2>2, <2>4
      <3>2. QED
        BY <2>1, <2>3, <2>4, <3>1 DEF Has
    <2>5. CASE i # 1
      <3>1. i - 1 \in DOMAIN r /\ r[i - 1].type = "StartSensor"
        BY <2>1, <2>2, <2>3, <2>5
      <3>2. \A j \in DOMAIN r : j > i - 1 => r[j].type # "StopSensor"
        BY <2>1, <2>2, <2>3
      <3>3. QED
        BY <3>1, <3>2 DEF AskedLast
    <2>6. QED
      BY <2>4, <2>5
  <1>4. QED
    BY <1>1, <1>2, <1>3

\* An answer that is pushed, and one that is not popped.
LEMMA AnswersFacts ==
  ASSUME NEW q \in Seq(ImageItem)
  PROVE  /\ \A n \in ImageItem : \A g : Answers(Append(q, n), g) <=> Answers(q, g) \/ IsAnswer(n, g)
         /\ q # <<>> => \A g : Answers(q, g) <=> Answers(Tail(q), g) \/ IsAnswer(Head(q), g)
  <1> HIDE DEF ImageItem
  <1>1. ASSUME NEW n \in ImageItem, NEW g
        PROVE  Answers(Append(q, n), g) <=> Answers(q, g) \/ IsAnswer(n, g)
    <2> DEFINE r == Append(q, n)
               k == Len(q) + 1
    <2>1. DOMAIN r = DOMAIN q \cup {k} /\ r[k] = n /\ \A i \in DOMAIN q : r[i] = q[i]
      OBVIOUS
    <2> HIDE DEF r, k
    <2>2. Answers(r, g) <=> Answers(q, g) \/ IsAnswer(n, g)
      BY <2>1 DEF Answers
    <2>3. QED
      BY <2>2 DEF r
  <1>2. ASSUME q # <<>>, NEW g
        PROVE  Answers(q, g) <=> Answers(Tail(q), g) \/ IsAnswer(Head(q), g)
    <2> DEFINE r == Tail(q)
               e == Head(q)
    <2>1. 1 \in DOMAIN q /\ q[1] = e /\ \A i \in DOMAIN r : i + 1 \in DOMAIN q /\ r[i] = q[i + 1]
      BY <1>2
    <2>2. \A k \in DOMAIN q : k = 1 \/ (k - 1 \in DOMAIN r /\ r[k - 1] = q[k])
      BY <1>2
    <2> HIDE DEF r, e
    <2>3. Answers(q, g) <=> Answers(r, g) \/ IsAnswer(e, g)
      BY <2>1, <2>2 DEF Answers
    <2>4. QED
      BY <2>3 DEF r, e
  <1>3. QED
    BY <1>1, <1>2

\* What steps keep that leave the operations where they are.
LEMMA ServedKept ==
  ASSUME ServedInv, storage'.ready => storage.ready, storage'.operation_active => storage.operation_active,
         \A o \in Op : scan'[o].pc = scan[o].pc /\ scan'[o].gen = scan[o].gen,
         Failing => Failing',
         Gen' = Gen \/ Failing',
         \A o \in Op : scan[o].pc = "wait" /\ HasAnswer(o) => HasAnswer(o)',
         AskedLast(events) => AskedLast(events') \/ Serving',
         Serving => Serving' \/ \A o \in Op : Alone(o) /\ scan[o].pc = "wait" /\ scan[o].gen = Gen => HasAnswer(o)'
  PROVE  ServedInv'
  <1> SUFFICES ASSUME storage'.ready, storage'.operation_active, NEW o \in Op, Alone(o)' PROVE Served(o)'
    BY DEF ServedInv
  <1>1. Alone(o)
    BY DEF Alone, Live
  <1>2. Served(o) /\ scan'[o].pc = scan[o].pc /\ scan'[o].gen = scan[o].gen
    BY <1>1 DEF ServedInv
  <1>3. scan'[o].pc = "born" => Failing' \/ scan'[o].gen = Gen'
    BY <1>2 DEF Served
  <1>4. scan'[o].pc = "wait" => HasAnswer(o)' \/ Failing' \/ (scan'[o].gen = Gen' /\ (AskedLast(events') \/ Serving'))
    BY <1>1, <1>2 DEF Served
  <1>5. QED
    BY <1>3, <1>4 DEF Served

\* What they keep that leave the items too.
LEMMA ItemsKept ==
  ASSUME scan' = scan, images' = images
  PROVE  \A o \in Op : /\ scan'[o].pc = scan[o].pc /\ scan'[o].gen = scan[o].gen
                       /\ scan[o].pc = "wait" /\ HasAnswer(o) => HasAnswer(o)'
  BY DEF HasAnswer

\* No operation is active, or the session is not ready or failing.
LEMMA ServedByDefault ==
  ASSUME ~storage'.ready \/ ~storage'.operation_active \/ Failing'
  PROVE  ServedInv'
  BY DEF ServedInv, Served

\* The step of one operation, that goes on.
LEMMA ServedAlone ==
  ASSUME ServedInv, NEW o \in Op, Live(o)', \A p \in Op : p # o => scan'[p] = scan[p],
         storage'.ready => storage.ready, storage'.operation_active => storage.operation_active,
         storage.ready /\ storage.operation_active /\ Served(o) => Served(o)'
  PROVE  ServedInv'
  <1> SUFFICES ASSUME storage'.ready, storage'.operation_active, NEW p \in Op, Alone(p)' PROVE Served(p)'
    BY DEF ServedInv
  <1>1. p = o
    BY DEF Alone
  <1>2. Alone(o)
    BY <1>1 DEF Alone, Live
  <1>3. Served(o)
    BY <1>2 DEF ServedInv
  <1>4. QED
    BY <1>1, <1>3

\* What is pushed, at the controller and at the operation.
LEMMA PushedServes ==
  ASSUME TypeOK, NEW t \in EventTypes, NEW l \in BOOLEAN, events' = Append(events, Touch(t, l))
  PROVE  /\ Has(events', t) /\ \A u : Has(events, u) => Has(events', u)
         /\ \A u : u # t => (Has(events', u) => Has(events, u))
         /\ t = "StartSensor" => AskedLast(events')
         /\ t # "StopSensor" /\ AskedLast(events) => AskedLast(events')
  <1>1. events \in Seq(EventType) /\ Touch(t, l) \in EventType /\ Touch(t, l).type = t
    BY QueueTypes, MessageTypes DEF Touch
  <1>2. \A u : Has(events', u) <=> Has(events, u) \/ t = u
    <2>1. \A u : Has(Append(events, Touch(t, l)), u) <=> Has(events, u) \/ Touch(t, l).type = u
      BY <1>1, PushedFacts
    <2>2. QED
      BY <1>1, <2>1
  <1>3. t = "StartSensor" => AskedLast(events')
    BY <1>1, AskedFacts
  <1>4. t # "StopSensor" /\ AskedLast(events) => AskedLast(events')
    BY <1>1, AskedFacts
  <1>5. QED
    BY <1>2, <1>3, <1>4

\* An event is a touch that was not latched.
LEMMA EventIsTouch == \A t : Event(t) = Touch(t, FALSE)
  BY DEF Event, Touch

\* A put adds to the answers; who is alone has what is put.
LEMMA PutServes ==
  ASSUME TypeOK, NEW n \in ImageItem, PutImage(n)
  PROVE  \A o \in Op : /\ scan'[o].pc = scan[o].pc /\ scan'[o].gen = scan[o].gen
                       /\ HasAnswer(o) => HasAnswer(o)'
                       /\ Alone(o) /\ IsAnswer(n, scan[o].gen) => HasAnswer(o)'
  <1>1. images \in Seq(ImageItem) /\ \A o \in Op : scan'[o].pc = scan[o].pc /\ scan'[o].gen = scan[o].gen
    BY QueueTypes, PutFacts
  <1> HIDE DEF ImageItem
  <1>2. CASE scan' = scan /\ images' = Append(images, n)
    BY <1>1, <1>2, AnswersFacts DEF HasAnswer
  <1>3. ASSUME NEW q \in Op, Pending(q), scan'[q].got = <<n>>, images' = images,
               \A p \in Op : p # q => scan'[p] = scan[p],
               NEW o \in Op
        PROVE  /\ HasAnswer(o) => HasAnswer(o)'
               /\ Alone(o) /\ IsAnswer(n, scan[o].gen) => HasAnswer(o)'
    <2>1. HasAnswer(o) => HasAnswer(o)'
      <3>1. CASE o # q
        BY <1>3, <3>1 DEF HasAnswer
      <3>2. CASE o = q
        BY <1>1, <1>3, <3>2 DEF HasAnswer, Pending
      <3>3. QED
        BY <3>1, <3>2
    <2>2. ASSUME Alone(o), IsAnswer(n, scan[o].gen) PROVE HasAnswer(o)'
      <3>1. o = q
        BY <1>3, <2>2 DEF Alone, Live, Pending
      <3>2. QED
        BY <1>1, <1>3, <2>2, <3>1, OneItem DEF HasAnswer
    <2>3. QED
      BY <2>1, <2>2
  <1>4. QED
    BY <1>1, <1>2, <1>3, PutFacts

\* A get after an item that is no answer.
LEMMA GetServes ==
  ASSUME TypeOK, NEW o \in Op, scan[o].got # <<>>, ~IsAnswer(Head(scan[o].got), scan[o].gen),
         WaitImage(o, scan[o]), HasAnswer(o)
  PROVE  HasAnswer(o)'
  <1>1. images \in Seq(ImageItem) /\ scan[o] \in TaskType /\ Answers(images, scan[o].gen)
    BY QueueTypes, TaskFacts DEF HasAnswer
  <1>2. images # <<>>
    BY <1>1 DEF Answers
  <1>3. /\ scan'[o].gen = scan[o].gen /\ Head(images) \in ImageItem
        /\ scan'[o].got = <<Head(images)>> /\ images' = Tail(images)
    BY <1>1, <1>2, WaitFacts
  <1> HIDE DEF ImageItem
  <1>4. Answers(Tail(images), scan[o].gen) \/ IsAnswer(Head(images), scan[o].gen)
    BY <1>1, <1>2, AnswersFacts
  <1>5. QED
    BY <1>3, <1>4, OneItem DEF HasAnswer

\* The steps of an operation.
LEMMA ScanServed ==
  ASSUME TypeOK, ScanInv, ServedInv, NEW o \in Op, StartScan(o) \/ Scan(o)
  PROVE  ServedInv'
  <1>0. Gen + 1 \in Nat
    BY DEF TypeOK, Gen
  <1>1. CASE StartScan(o)
    <2>1. scan'[o].pc = "born" /\ scan'[o].gen = Gen'
      BY <1>1, StartFacts
    <2> SUFFICES ASSUME NEW p \in Op, Alone(p)' PROVE Served(p)'
      BY DEF ServedInv
    <2>2. p = o
      BY <2>1 DEF Alone, Live
    <2>3. QED
      BY <2>1, <2>2 DEF Served
  <1>2. CASE ParseStop(o) \/ StopAfterResult(o)
    <2>1. storage'.operation_active = FALSE
      BY <1>0, <1>2, FinishType DEF ParseStop, StopAfterResult, TypeOK
    <2>2. QED
      BY <2>1, ServedByDefault
  <1>3. CASE Enroll(o) /\ \E p \in Op : Pending(p)
    BY <1>3, EnrollFacts, ServedByDefault
  <1>4. CASE Enroll(o) /\ \A p \in Op : ~Pending(p)
    <2>1. /\ scan[o].pc = "born" /\ scan'[o].pc = "wait" /\ scan'[o].gen = scan[o].gen
          /\ \A p \in Op : p # o => scan'[p] = scan[p]
          /\ storage'.ready = storage.ready /\ storage'.operation_active = storage.operation_active /\ Gen' = Gen
      BY <1>4, EnrollFacts
    <2>2. AskedLast(events') /\ \A u : Has(events, u) => Has(events', u)
      BY <1>4, PushedServes, EventIsTouch DEF Enroll, EventTypes
    <2>3. Served(o) => Served(o)'
      BY <2>1, <2>2 DEF Served, Failing
    <2>4. Live(o)'
      BY <2>1 DEF Live
    <2>5. QED
      BY <2>1, <2>3, <2>4, ServedAlone
  <1>5. CASE NextCapture(o)
    <2>1. /\ scan'[o].pc = "wait" /\ scan'[o].gen = Gen' /\ \A p \in Op : p # o => scan'[p] = scan[p]
          /\ storage'.ready = storage.ready /\ storage'.operation_active = storage.operation_active
      BY <1>5, NextCaptureFacts
    <2>2. AskedLast(events')
      BY <1>5, PushedServes, EventIsTouch DEF NextCapture, EventTypes
    <2>3. Served(o)' /\ Live(o)'
      BY <2>1, <2>2 DEF Served, Live
    <2>4. QED
      BY <2>1, <2>3, ServedAlone
  <1>6. CASE ParseCapture(o) \/ ParseFailure(o)
    <2>1. storage' = storage /\ \E p \in {"sendLast", "sendMore"} : scan' = [scan EXCEPT ![o].pc = p, ![o].got = <<>>]
      BY <1>6 DEF ParseCapture, ParseFailure
    <2>2. scan'[o].pc \in {"sendLast", "sendMore"} /\ \A p \in Op : p # o => scan'[p] = scan[p]
      BY <2>1, ParsedFacts
    <2>3. Served(o)' /\ Live(o)'
      BY <2>2 DEF Served, Live
    <2>4. QED
      BY <2>1, <2>2, <2>3, ServedAlone
  <1>7. CASE ParseIgnored(o)
    <2>1. /\ UNCHANGED <<storage, ctl, events, reader>> /\ scan[o].pc = "wait" /\ scan[o].got # <<>>
          /\ ~IsAnswer(Head(scan[o].got), scan[o].gen) /\ WaitImage(o, scan[o])
      BY <1>7 DEF ParseIgnored, Given, IsAnswer
    <2>2. scan'[o].pc = "wait" /\ scan'[o].gen = scan[o].gen /\ \A p \in Op : p # o => scan'[p] = scan[p]
      BY <2>1, TaskFacts, WaitFacts
    <2>3. HasAnswer(o) => HasAnswer(o)'
      BY <2>1, GetServes
    <2>4. (Failing <=> Failing') /\ (Serving <=> Serving') /\ Gen' = Gen
      BY <2>1 DEF Failing, Serving, Capturing, Gen
    <2>5. Served(o) => Served(o)'
      BY <2>1, <2>2, <2>3, <2>4 DEF Served
    <2>6. Live(o)'
      BY <2>2 DEF Live
    <2>7. QED
      BY <2>1, <2>2, <2>5, <2>6, ServedAlone
  <1>8. QED
    BY <1>1, <1>2, <1>3, <1>4, <1>5, <1>6, <1>7 DEF Scan

\* The device stops an operation, cancels it or lets its client go.
LEMMA DeviceServed ==
  ASSUME TypeOK, ScanInv, ServedInv, StopScan \/ ReleaseScan \/ ClaimerGone
  PROVE  ServedInv'
  <1>0. Gen \in Nat
    BY DEF TypeOK, Gen
  <1>1. CASE StopScan
    <2> DEFINE n == Notice("EnrollVerifyStop")
    <2>1. n \in ImageItem /\ PutImage(n) /\ \A g : IsAnswer(n, g)
      BY <1>1, MessageTypes DEF StopScan, ImageTypes, IsAnswer, Notice
    <2> HIDE DEF n
    <2>2. \A p \in Op : /\ scan'[p].pc = scan[p].pc
                        /\ Alone(p) => HasAnswer(p)'
      BY <2>1, PutServes
    <2>3. \A p \in Op : scan[p].pc # "born"
      BY <1>1 DEF StopScan, ScanInv, BornIsHeld
    <2>4. \A p \in Op : Alone(p)' => Alone(p)
      BY <2>2 DEF Alone, Live
    <2>5. QED
      BY <2>2, <2>3, <2>4 DEF ServedInv, Served
  <1>2. CASE task # None /\ (ReleaseScan \/ ClaimerGone)
    <2>1. PICK more : Finish(Held \cup more, Gen)
      <3>1. Held = Held \cup {}
        OBVIOUS
      <3>2. QED
        BY <1>2, <3>1 DEF ReleaseScan, ClaimerGone
    <2>2. Held # {} \/ ~storage.operation_active
      BY <1>2 DEF Held, ScanInv, ActiveOperationReachable
    <2>3. ~storage'.operation_active
      BY <1>0, <2>1, <2>2, FinishType DEF TypeOK
    <2>4. QED
      BY <2>3, ServedByDefault
  <1>3. CASE ClaimerGone /\ task = None /\ UNCHANGED <<scan, storage, images>>
    <2> SUFFICES ASSUME storage.operation_active, NEW p \in Op, Alone(p) PROVE Served(p)'
      BY <1>3 DEF ServedInv, Alone, Live
    <2>1. scan[p].pc # "born"
      BY <1>3, NoneAssumption DEF ScanInv, BornIsHeld
    <2>2. StopUnderway
      BY <1>3 DEF ScanInv, ActiveOperationReachable
    <2>3. HasAnswer(p)
      <3>1. CASE \E i \in DOMAIN images : images[i].type = "EnrollVerifyStop"
        BY <3>1 DEF HasAnswer, Answers, IsAnswer
      <3>2. ASSUME NEW q \in Op, Given(q, "EnrollVerifyStop") PROVE HasAnswer(p)
        <4>1. q = p
          BY <3>2 DEF Alone, Live, Given
        <4>2. QED
          BY <3>2, <4>1 DEF HasAnswer, IsAnswer, Given
      <3>3. QED
        BY <2>2, <3>1, <3>2 DEF StopUnderway
    <2>4. QED
      BY <1>3, <2>1, <2>3 DEF Served, HasAnswer
  <1>4. QED
    BY <1>1, <1>2, <1>3 DEF ReleaseScan, ClaimerGone

\* What a handler pops.
LEMMA PoppedServes ==
  ASSUME TypeOK, NEW t, Gets(t), Taken
  PROVE  /\ ctl.pc = "idle" /\ Has(events, t)
         /\ \A u : Has(events', u) => Has(events, u)
         /\ \A u : u # t => (Has(events, u) => Has(events', u))
         /\ AskedLast(events) => AskedLast(events') \/ (t = "StartSensor" /\ ~Has(events', "StopSensor"))
  <1>1. events # <<>> /\ Head(events).type = t /\ events' = Tail(events)
    BY DEF Gets, Taken
  <1>2. events \in Seq(EventType)
    BY QueueTypes
  <1>3. AskedLast(events) => AskedLast(events') \/ (t = "StartSensor" /\ ~Has(events', "StopSensor"))
    BY <1>1, <1>2, AskedFacts
  <1>4. QED
    BY <1>3, HandlerPops

\* start_sensor() serves who asked for it, and a system that sleeps will fail him.
LEMMA StartSensorServed ==
  ASSUME TypeOK, ScanInv, SleepInv, ServedInv, OnStartSensor
  PROVE  ServedInv'
  <1>0. ctl \in CtlType
    BY TypeControl DEF ControlType
  <1>1. /\ ctl.pc = "idle" /\ UNCHANGED <<storage, scan, images>>
        /\ \A u : Has(events', u) => Has(events, u)
        /\ \A u : u # "StartSensor" => (Has(events, u) => Has(events', u))
        /\ AskedLast(events) => AskedLast(events') \/ ~Has(events', "StopSensor")
    BY PoppedServes DEF OnStartSensor
  <1>2. Failing => Failing'
    BY <1>1 DEF Failing
  <1>3. CASE ~storage.ready
    BY <1>1, <1>3, ServedByDefault
  <1>4. CASE storage.ready /\ storage.sleeping
    <2>1. ~ctl.suspended
      BY <1>4 DEF ScanInv, SuspendedIsDown
    <2>2. Has(events, "Suspend")
      BY <1>1, <1>4, <2>1 DEF SleepInv, SleepIsTold
    <2>3. Failing'
      BY <1>1, <2>2 DEF Failing
    <2>4. QED
      BY <2>3, ServedByDefault
  <1>5. CASE storage.ready /\ ~storage.sleeping
    <2>1. ctl'.active = TRUE /\ ctl'.gen = Gen /\ ctl'.pc = "arm" /\ Gen' = Gen
      BY <1>0, <1>1, <1>5 DEF OnStartSensor, StartSensor, CtlType, Gen
    <2>2. ~Has(events', "StopSensor") => Serving'
      BY <2>1 DEF Serving, Capturing
    <2>3. AskedLast(events) => AskedLast(events') \/ Serving'
      BY <1>1, <2>2
    <2>4. Serving => Serving'
      BY <1>1, <2>2 DEF Serving
    <2>5. QED
      BY <1>1, <1>2, <2>1, <2>3, <2>4, ItemsKept, ServedKept
  <1>6. QED
    BY <1>3, <1>4, <1>5

\* stop_sensor() does not stop what was asked for after it was queued.
LEMMA StopSensorServed ==
  ASSUME TypeOK, ServedInv, OnStopSensor
  PROVE  ServedInv'
  <1>1. /\ UNCHANGED <<storage, scan, images>> /\ Has(events, "StopSensor")
        /\ \A u : u # "StopSensor" => (Has(events, u) => Has(events', u))
        /\ AskedLast(events) => AskedLast(events')
    BY PoppedServes DEF OnStopSensor
  <1>2. (Failing => Failing') /\ Gen' = Gen
    BY <1>1 DEF Failing, Gen
  <1>3. ~Serving
    BY <1>1 DEF Serving
  <1>4. QED
    BY <1>1, <1>2, <1>3, ItemsKept, ServedKept

\* A touch is reported and its capture goes on.
LEMMA FingerDownServed ==
  ASSUME TypeOK, ServedInv, OnFingerDown
  PROVE  ServedInv'
  <1>0. ctl \in CtlType
    BY TypeControl DEF ControlType
  <1>1. /\ ctl.pc = "idle" /\ UNCHANGED <<storage, reader>>
        /\ \A u : Has(events', u) => Has(events, u)
        /\ \A u : u # "FingerDown" => (Has(events, u) => Has(events', u))
        /\ AskedLast(events) => AskedLast(events')
    <2>1. Gets("FingerDown") /\ Taken /\ UNCHANGED <<storage, reader>>
      BY DEF OnFingerDown
    <2>2. QED
      BY <2>1, PoppedServes
  <1>2. (Failing => Failing') /\ Gen' = Gen
    BY <1>1 DEF Failing, Gen
  <1>3. \A p \in Op : /\ scan'[p].pc = scan[p].pc /\ scan'[p].gen = scan[p].gen
                      /\ scan[p].pc = "wait" /\ HasAnswer(p) => HasAnswer(p)'
    <2>1. CASE UNCHANGED <<scan, images>>
      BY <2>1, ItemsKept
    <2>2. CASE PutImage([Notice("FingerDown") EXCEPT !.gen = ctl.gen])
      <3> DEFINE n == [Notice("FingerDown") EXCEPT !.gen = ctl.gen]
      <3>1. n \in ImageItem
        BY <1>0 DEF Notice, ImageItem, ImageTypes, CtlType
      <3> HIDE DEF n
      <3>2. PutImage(n)
        BY <2>2 DEF n
      <3>3. QED
        BY <3>1, <3>2, PutServes
    <2>3. QED
      BY <2>1, <2>2 DEF OnFingerDown
  <1>4. CASE ~storage.ready
    BY <1>1, <1>4, ServedByDefault
  <1>5. CASE storage.ready /\ Capturing
    <2>1. PICK soon, stale : ctl' = [ctl EXCEPT !.stale = stale, !.awaiting = FALSE, !.pc = "pause"]
      BY <1>5 DEF OnFingerDown
    <2>2. ctl'.pc = "pause" /\ ctl'.active = ctl.active /\ ctl'.gen = ctl.gen
      BY <1>0, <2>1 DEF CtlType
    <2>3. Serving => Serving'
      BY <1>1, <1>2, <2>2 DEF Serving, Capturing
    <2>4. QED
      BY <1>1, <1>2, <1>3, <2>3, ServedKept
  <1>6. CASE ~Capturing
    <2>1. ~Serving
      BY <1>6 DEF Serving
    <2>2. QED
      BY <1>1, <1>2, <1>3, <2>1, ServedKept
  <1>7. QED
    BY <1>4, <1>5, <1>6

\* A capture goes to the operation, or the reader is armed again.
LEMMA ImageServed ==
  ASSUME TypeOK, ServedInv, OnImage
  PROVE  ServedInv'
  <1>0. ctl \in CtlType
    BY TypeControl DEF ControlType
  <1>1. /\ ctl.pc = "idle" /\ UNCHANGED <<storage, reader>>
        /\ \A u : Has(events', u) => Has(events, u)
        /\ \A u : u # "Image" => (Has(events, u) => Has(events', u))
        /\ AskedLast(events) => AskedLast(events')
    BY PoppedServes DEF OnImage
  <1>2. (Failing => Failing') /\ Gen' = Gen
    BY <1>1 DEF Failing, Gen
  <1>3. CASE ~Capturing /\ UNCHANGED <<ctl, scan, images>>
    <2>1. ~Serving
      BY <1>3 DEF Serving
    <2>2. QED
      BY <1>1, <1>2, <1>3, <2>1, ItemsKept, ServedKept
  <1>4. CASE Capturing /\ ctl' = StartSensor([ctl EXCEPT !.stale = FALSE]) /\ UNCHANGED <<scan, images>>
    <2>1. ctl'.active = TRUE /\ ctl'.gen = Gen /\ ctl'.pc = "arm"
      BY <1>0, <1>4 DEF StartSensor, CtlType
    <2>2. Serving => Serving'
      BY <1>1, <1>2, <2>1 DEF Serving, Capturing
    <2>3. QED
      BY <1>1, <1>2, <1>4, <2>2, ItemsKept, ServedKept
  <1>5. CASE /\ Capturing
             /\ PutImage([type |-> "Image", gen |-> ctl.gen, latched |-> Head(events).latched])
    <2> DEFINE n == [type |-> "Image", gen |-> ctl.gen, latched |-> Head(events).latched]
    <2>1. Head(events) \in EventType /\ n.type = "Image" /\ n.gen = Gen
      BY <1>5, QueueTypes DEF Capturing, OnImage, Gets
    <2>2. n \in ImageItem
      BY <1>0, <2>1 DEF ImageItem, ImageTypes, EventType, CtlType
    <2>3. IsAnswer(n, Gen) /\ PutImage(n)
      BY <1>5, <2>1 DEF IsAnswer
    <2> HIDE DEF ImageItem, n
    <2>4. \A o \in Op : /\ scan'[o].pc = scan[o].pc /\ scan'[o].gen = scan[o].gen
                        /\ HasAnswer(o) => HasAnswer(o)'
                        /\ Alone(o) /\ scan[o].gen = Gen => HasAnswer(o)'
      BY <2>2, <2>3, PutServes
    <2>5. QED
      BY <1>1, <1>2, <2>4, ServedKept
  <1>6. QED
    BY <1>3, <1>4, <1>5 DEF OnImage

\* Handlers of the handshake and of the resume find no session that serves.
LEMMA SessionHandlersServed ==
  ASSUME TypeOK, ScanInv, LatchInv, ServedInv, OnInitResult \/ OnTLSReady \/ OnResume
  PROVE  ServedInv'
  <1>1. CASE OnInitResult
    <2>1. Has(events, "InitResult")
      BY <1>1, PoppedServes DEF OnInitResult
    <2>2. Fresh
      BY <2>1 DEF LatchInv, HandshakeOnce, Fresh
    <2>3. ~storage'.ready
      BY <1>1, <2>2 DEF LatchInv, FreshIsUnarmed, OnInitResult
    <2>4. QED
      BY <2>3, ServedByDefault
  <1>2. CASE OnTLSReady
    <2>1. Has(events, "TLS_Ready") /\ ctl.pc = "idle"
      BY <1>2, PoppedServes DEF OnTLSReady
    <2>2. ~storage.ready
      BY <2>1 DEF LatchInv, FreshIsUnarmed, Fresh
    <2>3. ~storage.operation_active
      BY <2>1, <2>2 DEF ScanInv, DownIsInactive
    <2>4. ~storage'.operation_active
      BY <1>2, <2>3 DEF OnTLSReady, TypeOK
    <2>5. QED
      BY <2>4, ServedByDefault
  <1>3. CASE OnResume
    <2>1. /\ ctl.pc = "idle" /\ UNCHANGED <<storage, scan, images, reader>>
          /\ \A u : Has(events', u) => Has(events, u)
          /\ \A u : u # "Resume" => (Has(events, u) => Has(events', u))
          /\ AskedLast(events) => AskedLast(events')
      BY <1>3, PoppedServes DEF OnResume
    <2>2. CASE ctl.suspended
      <3>1. ~storage'.ready
        BY <2>1, <2>2 DEF ScanInv, SuspendedIsDown
      <3>2. QED
        BY <3>1, ServedByDefault
    <2>3. CASE ~ctl.suspended
      <3>1. ctl' = ctl
        BY <1>3, <2>3 DEF OnResume
      <3>2. (Failing => Failing') /\ Gen' = Gen
        BY <2>1 DEF Failing, Gen
      <3>3. Serving => Serving'
        BY <2>1, <3>1, <3>2 DEF Serving, Capturing
      <3>4. QED
        BY <2>1, <3>2, <3>3, ItemsKept, ServedKept
    <2>4. QED
      BY <2>2, <2>3
  <1>4. QED
    BY <1>1, <1>2, <1>3

\* The controller between two events.
LEMMA PausesServed ==
  ASSUME TypeOK, ServedInv, SubmitArm \/ GetImage \/ TransferDone
  PROVE  ServedInv'
  <1>0. ctl \in CtlType /\ reader \in ReaderType
    BY TypeControl DEF ControlType
  <1>1. UNCHANGED <<storage, scan, events, images>>
    BY DEF SubmitArm, GetImage, TransferDone
  <1>2. (Failing => Failing') /\ Gen' = Gen
    BY <1>1 DEF Failing, Gen
  <1>3. ctl'.active = ctl.active /\ ctl'.gen = ctl.gen
    BY <1>0 DEF SubmitArm, GetImage, TransferDone, CtlType
  <1>4. Serving => Serving'
    <2>1. CASE SubmitArm
      <3>1. Capturing => reader'.sensor = "armed"
        BY <1>0, <2>1 DEF SubmitArm, ReaderType
      <3>2. QED
        BY <1>1, <1>2, <1>3, <3>1 DEF Serving, Capturing
    <2>2. CASE GetImage
      <3>1. Capturing => IF reader.sensor = "touched" THEN reader'.sensor = "reading" ELSE reader' = reader
        BY <1>0, <2>2 DEF GetImage, ReaderType
      <3>2. ctl.pc = "pause"
        BY <2>2 DEF GetImage
      <3>3. QED
        BY <1>1, <1>2, <1>3, <3>1, <3>2 DEF Serving, Capturing
    <2>3. CASE TransferDone
      <3>1. reader' = reader /\ ctl.pc = "busy"
        BY <2>3 DEF TransferDone
      <3>2. QED
        BY <1>1, <1>2, <1>3, <3>1 DEF Serving, Capturing
    <2>4. QED
      BY <2>1, <2>2, <2>3
  <1>5. QED
    BY <1>1, <1>2, <1>4, ItemsKept, ServedKept

\* The system, the watchdog, the reader and its transport.
LEMMA EnvironmentServed ==
  ASSUME TypeOK, LatchInv, ServedInv,
         Watchdog \/ PowerChanged \/ Handshake \/ FingerTouches \/ ImageArrives \/ TransportFails
  PROVE  ServedInv'
  <1>0. ctl \in CtlType /\ reader \in ReaderType /\ reader.latch \in BOOLEAN /\ reader.touch \in BOOLEAN
    BY TypeControl DEF ControlType, ReaderType
  <1>1. CASE Handshake
    <2>1. reader.link # "up" /\ storage' = storage
      BY <1>1 DEF Handshake, Reports
    <2>2. ~storage'.ready
      BY <2>1 DEF LatchInv, FreshIsUnarmed, Fresh
    <2>3. QED
      BY <2>2, ServedByDefault
  <1>2. CASE TransportFails
    <2>1. Has(events', "TransportFailed")
      BY <1>2, PushedServes, EventIsTouch DEF TransportFails, Reports, EventTypes
    <2>2. QED
      BY <2>1, ServedByDefault DEF Failing
  <1>3. CASE PowerChanged /\ ~storage.sleeping
    <2>1. events' = Append(events, Event("Suspend"))
      BY <1>3 DEF PowerChanged
    <2>2. Has(events', "Suspend")
      BY <2>1, PushedServes, EventIsTouch DEF EventTypes
    <2>3. QED
      BY <2>2, ServedByDefault DEF Failing
  <1>4. CASE PowerChanged /\ storage.sleeping
    <2>1. events' = Append(events, Event("Resume")) /\ UNCHANGED <<scan, ctl, images, reader>>
          /\ storage'.ready = storage.ready /\ Gen' = Gen
      BY <1>4 DEF PowerChanged, TypeOK, Gen
    <2>2. /\ \A u : Has(events, u) => Has(events', u)
          /\ \A u : u # "Resume" => (Has(events', u) => Has(events, u))
          /\ AskedLast(events) => AskedLast(events')
      BY <2>1, PushedServes, EventIsTouch DEF EventTypes
    <2>3. (Failing => Failing') /\ (Serving => Serving')
      BY <2>1, <2>2 DEF Failing, Serving, Capturing
    <2>4. QED
      BY <1>4, <2>1, <2>2, <2>3, ItemsKept, ServedKept DEF PowerChanged, TypeOK
  <1>5. CASE Watchdog
    <2>1. UNCHANGED <<storage, scan, images, reader>> /\ ctl'.active = ctl.active /\ ctl'.gen = ctl.gen
          /\ ctl'.pc = ctl.pc
      BY <1>0, <1>5 DEF Watchdog, CtlType
    <2>2. CASE ~storage.ready
      BY <2>1, <2>2, ServedByDefault
    <2>3. CASE storage.ready
      <3>1. events' = events
        BY <1>5, <2>3 DEF Watchdog
      <3>2. (Failing => Failing') /\ (Serving => Serving') /\ Gen' = Gen
        BY <2>1, <3>1 DEF Failing, Serving, Capturing, Gen
      <3>3. QED
        BY <2>1, <3>1, <3>2, ItemsKept, ServedKept
    <2>4. QED
      BY <2>2, <2>3
  <1>6. CASE FingerTouches
    <2>1. events' = Append(events, Touch("FingerDown", reader.latch)) /\ UNCHANGED <<storage, scan, ctl, images>>
          /\ reader.sensor = "armed" /\ reader'.sensor = "touched"
      BY <1>0, <1>6 DEF FingerTouches, Reports, ReaderType
    <2>2. /\ Has(events', "FingerDown") /\ \A u : Has(events, u) => Has(events', u)
          /\ \A u : u # "FingerDown" => (Has(events', u) => Has(events, u))
          /\ AskedLast(events) => AskedLast(events')
      BY <1>0, <2>1, PushedServes DEF EventTypes
    <2>3. (Failing => Failing') /\ (Serving => Serving') /\ Gen' = Gen
      BY <2>1, <2>2 DEF Failing, Serving, Capturing, Gen
    <2>4. QED
      BY <2>1, <2>2, <2>3, ItemsKept, ServedKept
  <1>7. CASE ImageArrives
    <2>1. events' = Append(events, Touch("Image", reader.touch)) /\ UNCHANGED <<storage, scan, ctl, images>>
      BY <1>7 DEF ImageArrives, Reports
    <2>2. /\ Has(events', "Image") /\ \A u : Has(events, u) => Has(events', u)
          /\ \A u : u # "Image" => (Has(events', u) => Has(events, u))
          /\ AskedLast(events) => AskedLast(events')
      BY <1>0, <2>1, PushedServes DEF EventTypes
    <2>3. (Failing => Failing') /\ (Serving => Serving') /\ Gen' = Gen
      BY <2>1, <2>2 DEF Failing, Serving, Capturing, Gen
    <2>4. QED
      BY <2>1, <2>2, <2>3, ItemsKept, ServedKept
  <1>8. QED
    BY <1>1, <1>2, <1>3, <1>4, <1>5, <1>6, <1>7

\* Every step.
LEMMA NextServed ==
  TypeOK /\ ScanInv /\ LatchInv /\ SleepInv /\ ServedInv /\ [Next]_vars => ServedInv'
  <1> SUFFICES ASSUME TypeOK, ScanInv, LatchInv, SleepInv, ServedInv, [Next]_vars PROVE ServedInv'
    OBVIOUS
  <1>0. ctl \in CtlType
    BY TypeControl DEF ControlType
  <1>1. CASE UNCHANGED vars
    BY <1>1 DEF vars, ServedInv, Served, HasAnswer, Alone, Live, Failing, Serving, Capturing, Gen
  <1>2. CASE \E o \in Op : StartScan(o) \/ Scan(o)
    BY <1>2, ScanServed
  <1>3. CASE StopScan \/ ReleaseScan \/ ClaimerGone
    BY <1>3, DeviceServed
  <1>4. CASE ResumeRecovery \/ OnTransportFailed \/ TransferFailed
    BY <1>0, <1>4, FailureSleep, ServedByDefault DEF ResumeRecovery, OnTransportFailed, TransferFailed
  <1>5. CASE OnSuspend
    <2> DEFINE c == [ctl EXCEPT !.suspended = TRUE, !.active = FALSE]
    <2>1. c \in CtlType /\ OperationFailed(c, Tail(events))
      BY <1>0, <1>5 DEF OnSuspend, CtlType
    <2> HIDE DEF c
    <2>2. QED
      BY <2>1, FailureSleep, ServedByDefault
  <1>6. CASE Reopen \/ InitDevice
    <2>1. ~storage.ready
      BY <1>6 DEF Reopen, InitDevice, ScanInv, ReopensDown
    <2>2. CASE OperationFailed(ctl, events)
      BY <1>0, <2>2, FailureSleep, ServedByDefault
    <2>3. CASE ~OperationFailed(ctl, events)
      <3>1. storage' = storage \/ CleanupDevice(TRUE)
        BY <1>6, <2>3 DEF Reopen, InitDevice
      <3>2. ~storage'.ready
        BY <2>1, <3>1 DEF CleanupDevice, TypeOK
      <3>3. QED
        BY <3>2, ServedByDefault
    <2>4. QED
      BY <2>2, <2>3
  <1>7. CASE OnStartSensor \/ OnStopSensor \/ OnFingerDown \/ OnImage
    BY <1>7, StartSensorServed, StopSensorServed, FingerDownServed, ImageServed
  <1>8. CASE OnInitResult \/ OnTLSReady \/ OnResume
    BY <1>8, SessionHandlersServed
  <1>9. CASE SubmitArm \/ GetImage \/ TransferDone
    BY <1>9, PausesServed
  <1>10. CASE Watchdog \/ PowerChanged \/ Handshake \/ FingerTouches \/ ImageArrives \/ TransportFails
    BY <1>10, EnvironmentServed
  <1>11. QED
    BY <1>1, <1>2, <1>3, <1>4, <1>5, <1>6, <1>7, <1>8, <1>9, <1>10 DEF Next, Control, Environment

\* All that is needed of a session, in one invariant.
SessionInv == LatchInv /\ SleepInv /\ ServedInv /\ PendingIsEmpty

\* It holds in every state.
LEMMA SessionInvariant == Spec => [](IInv /\ SessionInv)
  <1>1. Init => SessionInv
    <2>1. Init => LatchInv
      BY LatchInit
    <2>2. Init => ~storage.ready /\ ~storage.sleeping /\ ctl.pc # "yield" /\ images = <<>>
      BY DEF Init
    <2>3. QED
      BY <2>1, <2>2 DEF SessionInv, SleepInv, YieldIsDown, SleepIsTold, ServedInv, PendingIsEmpty
  <1>2. IInv /\ SessionInv /\ [Next]_vars => SessionInv'
    BY NextLatch, NextSleep, NextServed, NextPending DEF IInv, SessionInv
  <1>3. QED
    BY <1>1, <1>2, Invariant, PTL DEF Spec

\* Nobody waits on everybody: an operation that waits for something to be put,
\* with no event queued and the controller idle in a ready session, has a reader
\* that is armed for it, if no other operation is alive or ended under it
\* (enroll, next_capture, start_sensor, stop_sensor).
THEOREM WaitingScanIsServedHolds == Spec => []WaitingScanIsServed
  <1>1. TypeOK /\ SessionInv => WaitingScanIsServed
    <2> SUFFICES ASSUME TypeOK, SessionInv,
                        NEW o \in Op, Pending(o), storage.operation_active, Alone(o),
                        storage.ready, ctl.pc = "idle", events = <<>>
                 PROVE  Capturing /\ ctl.gen = scan[o].gen /\ reader.sensor # "off"
      BY DEF WaitingScanIsServed, Alone
    <2>1. Served(o) /\ scan[o].pc = "wait" /\ scan[o].got = <<>> /\ images = <<>>
      BY DEF SessionInv, ServedInv, Pending, PendingIsEmpty
    <2>2. ~Failing /\ ~AskedLast(events) /\ ~Has(events, "FingerDown") /\ ~Has(events, "Image")
      BY EmptyFacts DEF Failing, AskedLast
    <2>3. ~HasAnswer(o)
      BY <2>1 DEF HasAnswer, Answers
    <2>4. scan[o].gen = Gen /\ Serving
      BY <2>1, <2>2, <2>3 DEF Served
    <2>5. QED
      BY <2>2, <2>4 DEF Serving, Capturing
  <1>2. QED
    BY <1>1, SessionInvariant, PTL DEF IInv
=============================================================================
