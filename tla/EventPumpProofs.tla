--------------------------- MODULE EventPumpProofs ---------------------------
(***************************************************************************)
(* Types, the receive limit, the report of failures and the exactness of   *)
(* EventPump, for every size of headers, frames and buffers, every stream  *)
(* and every way to cut it.                                                *)
(***************************************************************************)
EXTENDS EventPump, SequenceTheorems, TLAPS

\* Induction and walks along numbers; what it says of graphs is not needed here.
Facts == INSTANCE RetainedGraphProofs

Task == {"usb", "tls"}

\* The order part of FailureIsLast.
FailureOrder == \A i, j \in DOMAIN events : i < j /\ events[i].frame = <<>> => events[j].from # events[i].from

\* The framer of a reader that has not accepted is unused.
Unread == tls.pc = "accept" => tls.pending = <<>>

IInv == TypeOK /\ RoomToRead /\ FailureIsLast /\ Unread

InputType  == [pc : {"recv", "dispatch", "write", "ended"}, pending : Seq(Cell), body : Seq(Cell)]
ReaderType == [pc : {"accept", "read", "dispatch", "ended"}, pending : Seq(Cell)]
-----------------------------------------------------------------------------
(* Sequences. *)

\* The two parts of a sequence cut at n.
LEMMA Cut ==
  ASSUME NEW s \in Seq(Cell), NEW n \in 0..Len(s)
  PROVE  /\ First(s, n) \in Seq(Cell) /\ Len(First(s, n)) = n
         /\ After(s, n) \in Seq(Cell) /\ Len(After(s, n)) = Len(s) - n
  <1>1. \A i \in 1..n : s[i] \in Cell
    OBVIOUS
  <1>2. \A i \in n + 1..Len(s) : s[i] \in Cell
    OBVIOUS
  <1>3. First(s, n) \in Seq(Cell) /\ Len(First(s, n)) = n
    BY <1>1, SubSeqProperties DEF First
  <1>4. After(s, n) \in Seq(Cell) /\ Len(After(s, n)) = Len(s) - n
    BY <1>2, SubSeqProperties DEF After
  <1>5. QED
    BY <1>3, <1>4

\* A buffer takes part of what is there.
LEMMA LeastBound ==
  ASSUME NEW s \in Seq(Cell)
  PROVE  Least(MaxRead, Len(s)) \in 0..Len(s)
  <1>1. Len(s) \in Nat /\ MaxRead \in Nat
    BY SizeAssumption
  <1>2. QED
    BY <1>1 DEF Least
-----------------------------------------------------------------------------
(* The framer. *)

\* A header states a length.
LEMMA Second ==
  ASSUME NEW p \in Seq(Cell), Len(p) >= Header
  PROVE  p[2] \in Nat
  <1>1. 2 \in 1..Len(p)
    BY SizeAssumption
  <1>2. p[2] \in Cell
    BY <1>1
  <1>3. QED
    BY <1>2, CellAssumption

\* next() takes a frame of the allowed length off the front.
LEMMA WholeFrame ==
  ASSUME NEW p \in Seq(Cell), Whole(p)
  PROVE  /\ p[2] \in Header..Maximum /\ p[2] <= Len(p)
         /\ First(p, p[2]) \in FrameType /\ After(p, p[2]) \in Seq(Cell)
         /\ After(First(p, p[2]), Header) \in Seq(Cell)
  <1>1. Header \in Nat /\ Maximum \in Nat /\ 2 <= Header
    BY SizeAssumption
  <1>2. p[2] \in Nat
    BY <1>1, Second DEF Whole
  <1>3. p[2] \in Header..Maximum /\ p[2] <= Len(p)
    BY <1>1, <1>2 DEF Whole, Invalid
  <1>4. p[2] \in 0..Len(p)
    BY <1>1, <1>3
  <1>5. First(p, p[2]) \in Seq(Cell) /\ Len(First(p, p[2])) = p[2] /\ After(p, p[2]) \in Seq(Cell)
    BY <1>4, Cut
  <1>6. Header \in 0..Len(First(p, p[2]))
    BY <1>1, <1>3, <1>5
  <1>7. After(First(p, p[2]), Header) \in Seq(Cell)
    BY <1>5, <1>6, Cut
  <1>8. QED
    BY <1>3, <1>5, <1>7 DEF FrameType

\* What next() leaves for later is less than a frame of the maximum length, so
\* another buffer fits.
LEMMA PartFits ==
  ASSUME NEW p \in Seq(Cell), ~Invalid(p), ~Whole(p)
  PROVE  Len(p) < Maximum /\ Len(p) + MaxRead <= 2 * Maximum
  <1>1. Header \in Nat /\ Maximum \in Nat /\ MaxRead \in Nat /\ 2 <= Header /\ Header <= Maximum /\ MaxRead <= Maximum
    BY SizeAssumption
  <1>2. Len(p) < Maximum
    <2>1. CASE Len(p) < Header
      BY <1>1, <2>1
    <2>2. CASE Len(p) >= Header
      <3>1. p[2] \in Nat
        BY <2>2, Second
      <3>2. p[2] <= Maximum /\ Len(p) < p[2]
        BY <1>1, <2>2, <3>1 DEF Invalid, Whole
      <3>3. QED
        BY <1>1, <3>1, <3>2
    <2>3. QED
      BY <1>1, <2>1, <2>2
  <1>3. QED
    BY <1>1, <1>2

\* A frame is not a failure, and its task puts it in the queue as an event.
LEMMA FrameIsEvent ==
  ASSUME NEW t \in Task, NEW f \in FrameType
  PROVE  /\ Event(t, f) \in EventType
         /\ Event(t, f).from = t /\ Event(t, f).frame # <<>>
  <1>1. Len(f) # 0
    BY SizeAssumption DEF FrameType
  <1>2. f # <<>>
    BY <1>1
  <1>3. QED
    BY <1>2 DEF Event, EventType, Task

\* An event without a frame is the failure of its task.
LEMMA EmptyIsFailure ==
  ASSUME NEW e \in EventType, e.frame = <<>>
  PROVE  e.from \in Task /\ e = Failure(e.from)
  <1>1. e \notin [from : {"usb", "tls"}, frame : FrameType]
    <2> SUFFICES ASSUME e \in [from : {"usb", "tls"}, frame : FrameType] PROVE FALSE
      OBVIOUS
    <2>1. e.frame \in FrameType
      OBVIOUS
    <2>2. Len(e.frame) # 0
      BY <2>1, SizeAssumption DEF FrameType
    <2>3. QED
      BY <2>2
  <1>2. e # Ready
    BY DEF Ready
  <1>3. e = Failure("usb") \/ e = Failure("tls")
    BY <1>1, <1>2 DEF EventType
  <1>4. QED
    BY <1>3 DEF Failure, Task

\* What a task that has not failed puts in the queue.
LEMMA PutEvent ==
  ASSUME events \in Seq(EventType), FailureOrder,
         NEW e \in EventType, ~Failed(e.from), events' = Append(events, e)
  PROVE  /\ events' \in Seq(EventType) /\ FailureOrder'
         /\ e.frame # <<>> => \A t \in Task : Failed(t)' <=> Failed(t)
         /\ \A t \in Task : e = Failure(t) => \A u \in Task : Failed(u)' <=> Failed(u) \/ u = t
  <1> HIDE DEF EventType
  <1>1. events' \in Seq(EventType) /\ Len(events') = Len(events) + 1
    OBVIOUS
  <1>2. events'[Len(events) + 1] = e /\ \A i \in DOMAIN events : i \in DOMAIN events' /\ events'[i] = events[i]
    OBVIOUS
  <1>3. \A i \in DOMAIN events' : i \in DOMAIN events \/ i = Len(events) + 1
    BY <1>1
  <1>4. FailureOrder'
    <2> SUFFICES ASSUME NEW i \in DOMAIN events', NEW j \in DOMAIN events', i < j, events'[i].frame = <<>>
                 PROVE  events'[j].from # events'[i].from
      BY DEF FailureOrder
    <2>1. i \in DOMAIN events /\ events'[i] = events[i] /\ events[i] \in EventType
      BY <1>1, <1>2, <1>3
    <2>2. CASE j \in DOMAIN events
      BY <1>2, <2>1, <2>2 DEF FailureOrder
    <2>3. CASE j = Len(events) + 1
      <3>1. events[i] = Failure(events[i].from)
        BY <2>1, EmptyIsFailure
      <3>2. Failed(events[i].from)
        BY <2>1, <3>1 DEF Failed
      <3>3. QED
        BY <1>2, <2>1, <2>3, <3>2
    <2>4. QED
      BY <1>3, <2>2, <2>3
  <1>5. \A t : Failed(t)' <=> Failed(t) \/ e = Failure(t)
    <2> SUFFICES ASSUME NEW t PROVE Failed(t)' <=> Failed(t) \/ e = Failure(t)
      OBVIOUS
    <2>1. Failed(t)' <=> \E i \in DOMAIN events' : events'[i] = Failure(t)
      BY DEF Failed, Failure
    <2>2. QED
      BY <1>1, <1>2, <1>3, <2>1 DEF Failed
  <1>6. e.frame # <<>> => \A t \in Task : e # Failure(t)
    BY DEF Failure
  <1>7. \A t, u : Failure(t) = Failure(u) => t = u
    BY DEF Failure
  <1>8. QED
    BY <1>1, <1>4, <1>5, <1>6, <1>7
-----------------------------------------------------------------------------
(* Steps of the tasks. *)

\* The part of the invariant about each task.
InputInv  == /\ input \in InputType
             /\ input.pc = "recv" => Len(input.pending) < Maximum /\ Len(input.pending) + MaxRead <= 2 * Maximum
             /\ input.pc = "ended" <=> Failed("usb")
ReaderInv == /\ tls \in ReaderType
             /\ tls.pc = "read" => Len(tls.pending) < Maximum /\ Len(tls.pending) + MaxRead <= 2 * Maximum
             /\ tls.pc = "ended" <=> Failed("tls")
             /\ Unread
QueueInv  == events \in Seq(EventType) /\ FailureOrder
StreamInv == pipe \in Seq(Cell) /\ wire \in Seq(Cell) /\ clear \in Seq(Cell)

\* They are the invariant together.
LEMMA Parts == IInv <=> InputInv /\ ReaderInv /\ QueueInv /\ StreamInv
  BY DEF IInv, TypeOK, RoomToRead, FailureIsLast, InputInv, ReaderInv, QueueInv, StreamInv, InputType, ReaderType, FailureOrder, Unread

\* A failure of one task is none of the other.
LEMMA InputFailsKeeps ==
  ASSUME QueueInv, InputInv, input.pc # "ended", InputFails
  PROVE  QueueInv' /\ InputInv' /\ (Failed("tls")' <=> Failed("tls"))
  <1>1. Failure("usb") \in EventType /\ Failure("usb").from = "usb"
    BY DEF EventType, Failure
  <1>2. ~Failed("usb")
    BY DEF InputInv
  <1>3. QueueInv' /\ Failed("usb")' /\ (Failed("tls")' <=> Failed("tls"))
    <2>1. events' = Append(events, Failure("usb"))
      BY DEF InputFails
    <2>2. QED
      BY <1>1, <1>2, <2>1, PutEvent DEF QueueInv, Task
  <1>4. input' = [pc |-> "ended", pending |-> <<>>, body |-> <<>>]
    BY DEF InputFails
  <1>5. QED
    BY <1>3, <1>4 DEF InputInv, InputType

\* dispatch_frames() of USBInput.
LEMMA InputDispatchKeeps ==
  ASSUME QueueInv, InputInv, input.pc # "ended", NEW p \in Seq(Cell), InputDispatch(p)
  PROVE  QueueInv' /\ InputInv' /\ (Failed("tls")' <=> Failed("tls"))
  <1>0. ~Failed("usb")
    BY DEF InputInv
  <1>1. CASE Invalid(p) /\ InputFails
    BY <1>1, InputFailsKeeps
  <1>2. CASE /\ ~Invalid(p) /\ ~Whole(p)
             /\ input' = [pc |-> "recv", pending |-> p, body |-> <<>>]
             /\ UNCHANGED events
    <2>1. Len(p) < Maximum /\ Len(p) + MaxRead <= 2 * Maximum
      BY <1>2, PartFits
    <2>2. InputInv'
      BY <1>0, <1>2, <2>1 DEF InputInv, InputType, Failed
    <2>3. QED
      BY <1>2, <2>2 DEF QueueInv, FailureOrder, Failed
  <1>3. CASE /\ Whole(p) /\ ~IsTls(p)
             /\ input' = [pc |-> "dispatch", pending |-> After(p, p[2]), body |-> <<>>]
             /\ events' = Append(events, Event("usb", First(p, p[2])))
    <2> DEFINE e == Event("usb", First(p, p[2]))
    <2>1. e \in EventType /\ e.from = "usb" /\ e.frame # <<>>
      BY <1>3, WholeFrame, FrameIsEvent DEF Task
    <2>2. After(p, p[2]) \in Seq(Cell)
      BY <1>3, WholeFrame
    <2> HIDE DEF e
    <2>3. events' = Append(events, e)
      BY <1>3 DEF e
    <2>4. QueueInv' /\ (Failed("usb")' <=> Failed("usb")) /\ (Failed("tls")' <=> Failed("tls"))
      BY <1>0, <2>1, <2>3, PutEvent DEF QueueInv, Task
    <2>5. QED
      BY <1>0, <1>3, <2>2, <2>4 DEF InputInv, InputType
  <1>4. CASE /\ Whole(p) /\ IsTls(p)
             /\ input' = [pc |-> "write", pending |-> After(p, p[2]), body |-> After(First(p, p[2]), Header)]
             /\ UNCHANGED events
    <2>1. After(p, p[2]) \in Seq(Cell) /\ After(First(p, p[2]), Header) \in Seq(Cell)
      BY <1>4, WholeFrame
    <2>2. InputInv'
      BY <1>0, <1>4, <2>1 DEF InputInv, InputType, Failed
    <2>3. QED
      BY <1>4, <2>2 DEF QueueInv, FailureOrder, Failed
  <1>5. QED
    BY <1>1, <1>2, <1>3, <1>4 DEF InputDispatch

\* handle_error() of TLSEventReader.
LEMMA ReaderFailsKeeps ==
  ASSUME QueueInv, ReaderInv, tls.pc # "ended", ReaderFails
  PROVE  QueueInv' /\ ReaderInv' /\ (Failed("usb")' <=> Failed("usb"))
  <1>1. Failure("tls") \in EventType /\ Failure("tls").from = "tls"
    BY DEF EventType, Failure
  <1>2. ~Failed("tls")
    BY DEF ReaderInv
  <1>3. QueueInv' /\ Failed("tls")' /\ (Failed("usb")' <=> Failed("usb"))
    <2>1. events' = Append(events, Failure("tls"))
      BY DEF ReaderFails
    <2>2. QED
      BY <1>1, <1>2, <2>1, PutEvent DEF QueueInv, Task
  <1>4. tls' = [pc |-> "ended", pending |-> <<>>]
    BY DEF ReaderFails
  <1>5. QED
    BY <1>3, <1>4 DEF ReaderInv, ReaderType, Unread

\* dispatch_frames() of TLSEventReader.
LEMMA ReaderDispatchKeeps ==
  ASSUME QueueInv, ReaderInv, tls.pc # "ended", NEW p \in Seq(Cell), ReaderDispatch(p)
  PROVE  QueueInv' /\ ReaderInv' /\ (Failed("usb")' <=> Failed("usb"))
  <1>0. ~Failed("tls")
    BY DEF ReaderInv
  <1>1. CASE Invalid(p) /\ ReaderFails
    BY <1>1, ReaderFailsKeeps
  <1>2. CASE ~Invalid(p) /\ ~Whole(p) /\ tls' = [pc |-> "read", pending |-> p] /\ UNCHANGED events
    <2>1. Len(p) < Maximum /\ Len(p) + MaxRead <= 2 * Maximum
      BY <1>2, PartFits
    <2>2. ReaderInv'
      BY <1>0, <1>2, <2>1 DEF ReaderInv, ReaderType, Unread, Failed
    <2>3. QED
      BY <1>2, <2>2 DEF QueueInv, FailureOrder, Failed
  <1>3. CASE /\ Whole(p)
             /\ tls' = [pc |-> "dispatch", pending |-> After(p, p[2])]
             /\ events' = Append(events, Event("tls", First(p, p[2])))
    <2> DEFINE e == Event("tls", First(p, p[2]))
    <2>1. e \in EventType /\ e.from = "tls" /\ e.frame # <<>>
      BY <1>3, WholeFrame, FrameIsEvent DEF Task
    <2>2. After(p, p[2]) \in Seq(Cell)
      BY <1>3, WholeFrame
    <2> HIDE DEF e
    <2>3. events' = Append(events, e)
      BY <1>3 DEF e
    <2>4. QueueInv' /\ (Failed("tls")' <=> Failed("tls")) /\ (Failed("usb")' <=> Failed("usb"))
      BY <1>0, <2>1, <2>3, PutEvent DEF QueueInv, Task
    <2>5. QED
      BY <1>0, <1>3, <2>2, <2>4 DEF ReaderInv, ReaderType, Unread
  <1>4. QED
    BY <1>1, <1>2, <1>3 DEF ReaderDispatch

\* What a step of the one task leaves of the other.
LEMMA OtherTask ==
  /\ ReaderInv /\ UNCHANGED tls /\ (Failed("tls")' <=> Failed("tls")) => ReaderInv'
  /\ InputInv /\ UNCHANGED input /\ (Failed("usb")' <=> Failed("usb")) => InputInv'
  BY DEF ReaderInv, InputInv, Unread

\* A queue nobody has put anything in.
LEMMA EmptyQueue ==
  ASSUME events = <<>>
  PROVE  QueueInv /\ \A t \in Task : ~Failed(t)
  <1>1. DOMAIN events = {}
    OBVIOUS
  <1>2. events \in Seq(EventType)
    OBVIOUS
  <1>3. QED
    BY <1>1, <1>2 DEF QueueInv, FailureOrder, Failed

\* spawn() starts from the invariant.
LEMMA InitInv == Init => IInv
  <1> SUFFICES ASSUME Init PROVE IInv
    OBVIOUS
  <1>1. QueueInv /\ ~Failed("usb") /\ ~Failed("tls")
    BY EmptyQueue DEF Init, Task
  <1>2. InputInv /\ ReaderInv /\ StreamInv
    BY <1>1, SizeAssumption DEF Init, InputInv, ReaderInv, StreamInv, InputType, ReaderType, Unread
  <1>3. QED
    BY <1>1, <1>2, Parts
-----------------------------------------------------------------------------
(* The invariant. *)

\* Every step keeps the types, the room to read and the order of failures.
LEMMA NextInv == IInv /\ [Next]_vars => IInv'
  <1> SUFFICES ASSUME IInv, [Next]_vars PROVE IInv'
    OBVIOUS
  <1>0. InputInv /\ ReaderInv /\ QueueInv /\ StreamInv
    BY Parts
  <1>a. input.pending \in Seq(Cell) /\ input.body \in Seq(Cell) /\ tls.pending \in Seq(Cell)
    BY <1>0 DEF InputInv, ReaderInv, InputType, ReaderType
  <1>1. CASE InputReceive
    <2>0. PICK n \in 1..Least(MaxRead, MaxWire - Len(wire)) : \E cells \in [1..n -> Cell] :
            /\ wire' = wire \o cells
            /\ IF Overflows(input.pending, cells) THEN InputFails ELSE InputDispatch(input.pending \o cells)
      BY <1>1 DEF InputReceive
    <2>1. PICK cells \in [1..n -> Cell] :
            /\ wire' = wire \o cells
            /\ IF Overflows(input.pending, cells) THEN InputFails ELSE InputDispatch(input.pending \o cells)
      BY <2>0
    <2>2. cells \in Seq(Cell)
      <3>1. Len(wire) \in Nat
        BY <1>0 DEF StreamInv
      <3>2. n \in Nat
        BY <3>1, SizeAssumption, WireBound DEF Least
      <3>3. QED
        BY <3>2
    <2>3. wire' \in Seq(Cell) /\ input.pending \o cells \in Seq(Cell)
      BY <1>0, <1>a, <2>1, <2>2 DEF StreamInv
    <2>4. input.pc # "ended" /\ UNCHANGED <<pipe, tls, clear>>
      BY <1>1 DEF InputReceive
    <2>5. QueueInv' /\ InputInv' /\ (Failed("tls")' <=> Failed("tls"))
      BY <1>0, <2>1, <2>3, <2>4, InputFailsKeeps, InputDispatchKeeps
    <2>6. ReaderInv' /\ StreamInv'
      BY <1>0, <2>3, <2>4, <2>5, OtherTask DEF StreamInv
    <2>7. QED
      BY <2>5, <2>6, Parts, PTL
  <1>2. CASE InputNext
    <2>1. input.pc # "ended" /\ InputDispatch(input.pending) /\ UNCHANGED <<pipe, tls, wire, clear>>
      BY <1>2 DEF InputNext
    <2>2. QueueInv' /\ InputInv' /\ (Failed("tls")' <=> Failed("tls"))
      BY <1>0, <1>a, <2>1, InputDispatchKeeps
    <2>3. ReaderInv' /\ StreamInv'
      BY <1>0, <2>1, <2>2, OtherTask DEF StreamInv
    <2>4. QED
      BY <2>2, <2>3, Parts, PTL
  <1>3. CASE InputWrite
    <2> DEFINE n == Least(MaxRead, Len(input.body))
    <2>1. /\ input.pc = "write" /\ pipe' = pipe \o First(input.body, n)
          /\ IF n < Len(input.body)
                THEN input' = [input EXCEPT !.body = After(input.body, n)] /\ UNCHANGED events
                ELSE InputDispatch(input.pending)
          /\ UNCHANGED <<tls, wire, clear>>
      BY <1>3 DEF InputWrite
    <2>2. n \in 0..Len(input.body)
      BY <1>a, LeastBound
    <2> HIDE DEF n
    <2>3. First(input.body, n) \in Seq(Cell) /\ After(input.body, n) \in Seq(Cell)
      BY <1>a, <2>2, Cut
    <2>4. StreamInv'
      BY <1>0, <2>1, <2>3 DEF StreamInv
    <2>5. QueueInv' /\ InputInv' /\ (Failed("tls")' <=> Failed("tls"))
      <3>1. CASE n < Len(input.body)
        <4>1. input' = [input EXCEPT !.body = After(input.body, n)] /\ UNCHANGED events
          BY <2>1, <3>1
        <4>2. InputInv'
          BY <1>0, <2>1, <2>3, <4>1 DEF InputInv, InputType, Failed
        <4>3. QED
          BY <1>0, <4>1, <4>2 DEF QueueInv, FailureOrder, Failed
      <3>2. CASE ~(n < Len(input.body))
        BY <1>0, <1>a, <2>1, <3>2, InputDispatchKeeps
      <3>3. QED
        BY <3>1, <3>2
    <2>6. ReaderInv'
      BY <1>0, <2>1, <2>5, OtherTask
    <2>7. QED
      BY <2>4, <2>5, <2>6, Parts, PTL
  <1>4. CASE BulkFails
    <2>1. input.pc # "ended" /\ InputFails /\ UNCHANGED <<pipe, tls, wire, clear>>
      BY <1>4 DEF BulkFails
    <2>2. QueueInv' /\ InputInv' /\ (Failed("tls")' <=> Failed("tls"))
      BY <1>0, <2>1, InputFailsKeeps
    <2>3. ReaderInv' /\ StreamInv'
      BY <1>0, <2>1, <2>2, OtherTask DEF StreamInv
    <2>4. QED
      BY <2>2, <2>3, Parts, PTL
  <1>5. CASE ReaderAccept
    <2>1. /\ tls.pc = "accept" /\ tls' = [tls EXCEPT !.pc = "read"]
          /\ events' = Append(events, Ready) /\ UNCHANGED <<input, pipe, wire, clear>>
      BY <1>5 DEF ReaderAccept
    <2>2. Ready \in EventType /\ Ready.from = "tls" /\ Ready.frame # <<>>
      BY DEF Ready, EventType
    <2>3. ~Failed("tls")
      BY <1>0, <2>1 DEF ReaderInv
    <2>4. QueueInv' /\ (Failed("usb")' <=> Failed("usb")) /\ (Failed("tls")' <=> Failed("tls"))
      BY <1>0, <2>1, <2>2, <2>3, PutEvent DEF QueueInv, Task
    <2>5. ReaderInv'
      <3>1. tls.pending = <<>> /\ tls \in ReaderType
        BY <1>0, <2>1 DEF ReaderInv, Unread
      <3>2. tls' = [pc |-> "read", pending |-> <<>>]
        BY <2>1, <3>1 DEF ReaderType
      <3>3. Len(tls'.pending) = 0 /\ tls' \in ReaderType
        BY <3>2 DEF ReaderType
      <3>4. QED
        BY <2>3, <2>4, <3>2, <3>3, SizeAssumption DEF ReaderInv, Unread
    <2>6. InputInv' /\ StreamInv'
      BY <1>0, <2>1, <2>4, OtherTask DEF StreamInv
    <2>7. QED
      BY <2>4, <2>5, <2>6, Parts, PTL
  <1>6. CASE ReaderReceive
    <2>1. PICK n \in 1..Least(MaxRead, Len(pipe)) :
            /\ pipe' = After(pipe, n) /\ clear' = clear \o First(pipe, n)
            /\ IF Overflows(tls.pending, First(pipe, n)) THEN ReaderFails
                                                         ELSE ReaderDispatch(tls.pending \o First(pipe, n))
      BY <1>6 DEF ReaderReceive
    <2>2. tls.pc # "ended" /\ UNCHANGED <<input, wire>>
      BY <1>6 DEF ReaderReceive
    <2>3. pipe \in Seq(Cell) /\ clear \in Seq(Cell) /\ n \in 0..Len(pipe)
      <3>1. pipe \in Seq(Cell) /\ clear \in Seq(Cell)
        BY <1>0 DEF StreamInv
      <3>2. Least(MaxRead, Len(pipe)) \in 0..Len(pipe)
        BY <3>1, LeastBound
      <3>3. QED
        BY <3>1, <3>2
    <2>4. First(pipe, n) \in Seq(Cell) /\ After(pipe, n) \in Seq(Cell)
      BY <2>3, Cut
    <2>5. tls.pending \o First(pipe, n) \in Seq(Cell) /\ clear' \in Seq(Cell)
      BY <1>a, <2>1, <2>3, <2>4
    <2>6. QueueInv' /\ ReaderInv' /\ (Failed("usb")' <=> Failed("usb"))
      BY <1>0, <2>1, <2>2, <2>5, ReaderFailsKeeps, ReaderDispatchKeeps
    <2>7. InputInv' /\ StreamInv'
      BY <1>0, <2>1, <2>2, <2>4, <2>5, <2>6, OtherTask DEF StreamInv
    <2>8. QED
      BY <2>6, <2>7, Parts, PTL
  <1>7. CASE ReaderNext
    <2>1. tls.pc # "ended" /\ ReaderDispatch(tls.pending) /\ UNCHANGED <<input, pipe, wire, clear>>
      BY <1>7 DEF ReaderNext
    <2>2. QueueInv' /\ ReaderInv' /\ (Failed("usb")' <=> Failed("usb"))
      BY <1>0, <1>a, <2>1, ReaderDispatchKeeps
    <2>3. InputInv' /\ StreamInv'
      BY <1>0, <2>1, <2>2, OtherTask DEF StreamInv
    <2>4. QED
      BY <2>2, <2>3, Parts, PTL
  <1>8. CASE TlsFails
    <2>1. tls.pc # "ended" /\ ReaderFails /\ UNCHANGED <<input, pipe, wire, clear>>
      BY <1>8 DEF TlsFails
    <2>2. QueueInv' /\ ReaderInv' /\ (Failed("usb")' <=> Failed("usb"))
      BY <1>0, <2>1, ReaderFailsKeeps
    <2>3. InputInv' /\ StreamInv'
      BY <1>0, <2>1, <2>2, OtherTask DEF StreamInv
    <2>4. QED
      BY <2>2, <2>3, Parts, PTL
  <1>9. CASE Respawn
    <2>1. Init'
      BY <1>9 DEF Respawn, Init
    <2>2. QED
      BY <2>1, InitInv, PTL
  <1>10. CASE UNCHANGED vars
    <2>1. QueueInv' /\ InputInv' /\ ReaderInv' /\ StreamInv'
      BY <1>0, <1>10 DEF vars, QueueInv, FailureOrder, InputInv, ReaderInv, StreamInv, Failed, Unread
    <2>2. QED
      BY <2>1, Parts, PTL
  <1>11. QED
    BY <1>1, <1>2, <1>3, <1>4, <1>5, <1>6, <1>7, <1>8, <1>9, <1>10 DEF Next
-----------------------------------------------------------------------------
\* The invariant holds in every state of the pumps.
LEMMA Invariant == Spec => []IInv
  BY InitInv, NextInv, PTL DEF Spec

\* Every event of a task is a frame of an allowed length, its failure or (from
\* TLSEventReader) TLS_Ready; the streams and framers hold cells
\* (dispatch_frames, next).
THEOREM TypeCorrect == Spec => []TypeOK
  BY Invariant, PTL DEF IInv

\* Whatever the reader sends and the records hold, feed() never meets its
\* receive limit and its unsigned subtraction never wraps.
THEOREM RoomToReadHolds == Spec => []RoomToRead
  BY Invariant, PTL DEF IInv

\* A failed task reports that once and as the last thing it puts in the queue
\* (handle_error).
THEOREM FailureIsLastHolds == Spec => []FailureIsLast
  BY Invariant, PTL DEF IInv
-----------------------------------------------------------------------------
(* Sequences put one behind the other. *)

\* How the elements of ss add up.
Adds(f, ss, X) ==
  /\ f \in [1..Len(ss) -> Seq(X)]
  /\ \A i \in 1..Len(ss) : f[i] = IF i = 1 THEN ss[i] ELSE f[i - 1] \o ss[i]

\* Flattening adds up all elements.
LEMMA FlattenAdds ==
  ASSUME NEW X, NEW ss \in Seq(Seq(X)), Len(ss) # 0
  PROVE  \E f : Adds(f, ss, X) /\ FlattenSeq(ss) = f[Len(ss)]
  <1> DEFINE n == Len(ss) - 1
             step == [a \in (0..n) \X Seq(X) |-> a[2] \o ss[a[1] + 1]]
             Sum(g) == g = [i \in 1..Len(ss) |-> IF i = 1 THEN ss[i] ELSE g[i - 1] \o ss[i]]
             flatten == CHOOSE g : Sum(g)
  <1>1. n \in Nat /\ Len(ss) = n + 1 /\ \A i \in 1..Len(ss) : ss[i] \in Seq(X)
    OBVIOUS
  <1>2. <<>> \in Seq(X)
    OBVIOUS
  <1>3. \A p \in 0..n : \A v \in Seq(X) : v \o ss[p + 1] \in Seq(X)
    <2> TAKE p \in 0..n
    <2> TAKE v \in Seq(X)
    <2>1. ss[p + 1] \in Seq(X)
      BY <1>1
    <2>2. QED
      BY <2>1, ConcatProperties
  <1>4. \A p \in 0..n : \A v \in Seq(X) : step[<<p, v>>] = v \o ss[p + 1]
    OBVIOUS
  <1>5. step \in [(0..n) \X Seq(X) -> Seq(X)]
    <2>1. ASSUME NEW a \in (0..n) \X Seq(X)
          PROVE  a[2] \o ss[a[1] + 1] \in Seq(X)
      <3>1. a[1] \in 0..n /\ a[2] \in Seq(X)
        OBVIOUS
      <3>2. QED
        BY <1>3, <3>1
    <2>2. QED
      BY <2>1
  <1>6. \E w : Facts!IsWalk(w, n, Seq(X), <<>>, step)
    <2> HIDE DEF n, step
    <2>1. Facts!Stepping(n, Seq(X), <<>>, step)
      BY <1>1, <1>2, <1>5 DEF Facts!Stepping
    <2>2. QED
      BY <2>1, Facts!WalkExists
  <1>7. PICK w : Facts!IsWalk(w, n, Seq(X), <<>>, step)
    BY <1>6
  <1> HIDE DEF step
  <1>8. /\ w \in [0..n -> Seq(X)]
        /\ \A p \in 0..n : w[p] = IF p = 0 THEN ss[1] ELSE w[p - 1] \o ss[p + 1]
    <2>1. w \in [0..n -> Seq(X)] /\ \A p \in 0..n : w[p] = step[<<p, IF p = 0 THEN <<>> ELSE w[p - 1]>>]
      BY <1>7 DEF Facts!IsWalk
    <2>2. ASSUME NEW p \in 0..n
          PROVE  w[p] = IF p = 0 THEN ss[1] ELSE w[p - 1] \o ss[p + 1]
      <3>1. CASE p = 0
        <4>1. w[p] = <<>> \o ss[1]
          <5>1. 0 \in 0..n /\ w[0] = step[<<0, <<>>>>]
            BY <1>1, <2>1
          <5>2. step[<<0, <<>>>>] = <<>> \o ss[0 + 1]
            BY <1>2, <1>4, <5>1
          <5>3. QED
            BY <3>1, <5>1, <5>2
        <4>2. QED
          BY <1>1, <3>1, <4>1, ConcatEmptySeq
      <3>2. CASE p # 0
        <4>1. p - 1 \in 0..n
          BY <1>1, <3>2
        <4>2. w[p - 1] \in Seq(X)
          BY <2>1, <4>1
        <4>3. QED
          BY <1>4, <2>1, <3>2, <4>2
      <3>3. QED
        BY <3>1, <3>2
    <2>3. QED
      BY <2>1, <2>2
  <1> DEFINE h == [i \in 1..Len(ss) |-> w[i - 1]]
  <1>9. Sum(h)
    <2>1. ASSUME NEW i \in 1..Len(ss)
          PROVE  w[i - 1] = IF i = 1 THEN ss[i] ELSE h[i - 1] \o ss[i]
      <3>1. i - 1 \in 0..n /\ (i - 1) + 1 = i
        BY <1>1
      <3>2. CASE i = 1
        <4>1. w[0] = ss[1]
          <5>1. 0 \in 0..n
            BY <1>1
          <5> HIDE DEF n
          <5>2. QED
            BY <1>8, <5>1
        <4>2. QED
          BY <3>2, <4>1
      <3>3. CASE i # 1
        <4>1. w[i - 1] = w[(i - 1) - 1] \o ss[i]
          <5>1. i - 1 # 0
            BY <3>1, <3>3
          <5>2. QED
            BY <1>8, <3>1, <5>1
        <4>2. i - 1 \in 1..Len(ss)
          BY <3>1, <3>3
        <4>3. h[i - 1] = w[(i - 1) - 1]
          BY <4>2
        <4>4. QED
          BY <3>3, <4>1, <4>3
      <3>4. QED
        BY <3>2, <3>3
    <2>2. h = [i \in 1..Len(ss) |-> IF i = 1 THEN ss[i] ELSE h[i - 1] \o ss[i]]
      BY <2>1
    <2>3. QED
      BY <2>2
  <1>10. Sum(flatten)
    <2> HIDE DEF h, Sum
    <2>1. QED
      BY <1>9
  <1>11. FlattenSeq(ss) = flatten[Len(ss)]
    BY DEF FlattenSeq
  <1>12. flatten = [i \in 1..Len(ss) |-> IF i = 1 THEN ss[i] ELSE flatten[i - 1] \o ss[i]]
    <2> HIDE DEF flatten
    <2>1. QED
      BY <1>10
  <1> HIDE DEF flatten, h, Sum
  <1>13. \A i \in 1..Len(ss) : flatten[i] = IF i = 1 THEN ss[i] ELSE flatten[i - 1] \o ss[i]
    BY <1>12
  <1>14. 1..Len(ss) \subseteq {i \in 1..Len(ss) : flatten[i] \in Seq(X)}
    <2> DEFINE P == {i \in 1..Len(ss) : flatten[i] \in Seq(X)}
    <2>1. 1 <= Len(ss) => 1 \in P
      BY <1>1, <1>13
    <2>2. ASSUME NEW i \in P, 1 <= i, i < Len(ss)
          PROVE  i + 1 \in P
      <3>1. i + 1 \in 1..Len(ss) /\ i + 1 # 1 /\ (i + 1) - 1 = i
        BY <2>2
      <3>2. flatten[i + 1] = flatten[i] \o ss[i + 1]
        BY <1>13, <3>1
      <3>3. flatten[i] \in Seq(X) /\ ss[i + 1] \in Seq(X)
        BY <1>1, <3>1
      <3>4. flatten[i + 1] \in Seq(X)
        BY <3>2, <3>3, ConcatProperties
      <3>5. QED
        BY <3>1, <3>4
    <2>3. 1 \in Int /\ Len(ss) \in Int
      OBVIOUS
    <2> HIDE DEF P
    <2>4. 1..Len(ss) \subseteq P
      BY <2>1, <2>2, <2>3, Facts!IntervalInduction
    <2>5. QED
      BY <2>4 DEF P
  <1>15. flatten \in [1..Len(ss) -> Seq(X)]
    BY <1>12, <1>14
  <1>16. QED
    BY <1>11, <1>13, <1>15 DEF Adds

\* One element more comes last.
LEMMA FlattenAppend ==
  ASSUME NEW X, NEW ss \in Seq(Seq(X)), NEW x \in Seq(X)
  PROVE  /\ FlattenSeq(ss) \in Seq(X)
         /\ FlattenSeq(Append(ss, x)) = FlattenSeq(ss) \o x
  <1> DEFINE tt == Append(ss, x)
  <1>1. /\ tt \in Seq(Seq(X)) /\ Len(tt) = Len(ss) + 1 /\ tt[Len(tt)] = x
        /\ \A i \in 1..Len(ss) : tt[i] = ss[i]
    BY AppendProperties
  <1> HIDE DEF tt
  <1>2. PICK g : Adds(g, tt, X) /\ FlattenSeq(tt) = g[Len(tt)]
    BY <1>1, FlattenAdds
  <1>3. CASE Len(ss) = 0
    <2>1. FlattenSeq(ss) = <<>>
      BY <1>3 DEF FlattenSeq
    <2>2. FlattenSeq(tt) = x
      <3>1. Len(tt) = 1 /\ 1 \in 1..Len(tt)
        BY <1>1, <1>3
      <3>2. g[1] = tt[1]
        BY <1>2, <3>1 DEF Adds
      <3>3. QED
        BY <1>1, <1>2, <3>1, <3>2
    <2>3. QED
      BY <2>1, <2>2, ConcatEmptySeq DEF tt
  <1>4. CASE Len(ss) # 0
    <2>1. PICK f : Adds(f, ss, X) /\ FlattenSeq(ss) = f[Len(ss)]
      BY <1>4, FlattenAdds
    <2> DEFINE P == {i \in 1..Len(ss) : f[i] = g[i]}
    <2>2. 1 <= Len(ss) => 1 \in P
      <3>1. 1 \in 1..Len(ss) /\ 1 \in 1..Len(tt)
        BY <1>1, <1>4
      <3>2. f[1] = ss[1] /\ g[1] = tt[1]
        BY <1>2, <2>1, <3>1 DEF Adds
      <3>3. QED
        BY <1>1, <3>1, <3>2
    <2>3. ASSUME NEW i \in P, 1 <= i, i < Len(ss)
          PROVE  i + 1 \in P
      <3>1. i + 1 \in 1..Len(ss) /\ i + 1 \in 1..Len(tt) /\ i + 1 # 1 /\ (i + 1) - 1 = i
        BY <1>1, <2>3
      <3>2. f[i + 1] = f[i] \o ss[i + 1] /\ g[i + 1] = g[i] \o tt[i + 1]
        BY <1>2, <2>1, <3>1 DEF Adds
      <3>3. QED
        BY <1>1, <3>1, <3>2
    <2>4. 1..Len(ss) \subseteq P
      <3> DEFINE n == Len(ss)
      <3>1. n \in Int /\ (1 <= n => 1 \in P) /\ \A i \in P : 1 <= i /\ i < n => i + 1 \in P
        BY <2>2, <2>3
      <3> HIDE DEF P, n
      <3>2. 1..n \subseteq P
        BY <3>1, Facts!IntervalInduction
      <3>3. QED
        BY <3>2 DEF n
    <2>5. f[Len(ss)] = g[Len(ss)] /\ f[Len(ss)] \in Seq(X)
      BY <1>4, <2>1, <2>4 DEF Adds
    <2>6. g[Len(tt)] = g[Len(ss)] \o x
      <3>1. Len(tt) \in 1..Len(tt) /\ Len(tt) # 1 /\ Len(tt) - 1 = Len(ss)
        BY <1>1, <1>4
      <3>2. g[Len(tt)] = g[Len(tt) - 1] \o tt[Len(tt)]
        BY <1>2, <3>1 DEF Adds
      <3>3. QED
        BY <1>1, <3>1, <3>2
    <2>7. QED
      BY <1>2, <2>1, <2>5, <2>6 DEF tt
  <1>5. QED
    BY <1>3, <1>4
-----------------------------------------------------------------------------
(* The frames of a stream. *)

\* Where the next frame is looked for.
Follow(s, i) == IF IsFrame(s, i) THEN i + s[i + 1] ELSE i

\* A frame ends in the stream, at least a header further on.
LEMMA FrameFits ==
  ASSUME NEW s \in Seq(Cell), NEW i \in 1..Len(s) + 1, IsFrame(s, i)
  PROVE  /\ i \in 1..Len(s) /\ s[i + 1] \in Header..Maximum /\ s[i + 1] \in Nat
         /\ i + s[i + 1] \in 1..Len(s) + 1 /\ i + 1 < i + s[i + 1]
  <1>1. Header \in Nat /\ 2 <= Header /\ Maximum \in Nat /\ Len(s) \in Nat
    BY SizeAssumption
  <1>2. s[i + 1] \in Header..Maximum /\ i + s[i + 1] - 1 <= Len(s) /\ i + Header - 1 <= Len(s)
    BY DEF IsFrame
  <1>3. QED
    BY <1>1, <1>2

\* There is no frame behind the last cell.
LEMMA NoFrameLast ==
  ASSUME NEW s \in Seq(Cell)
  PROVE  ~IsFrame(s, Len(s) + 1)
  BY SizeAssumption DEF IsFrame

\* One frame after the other.
LEMMA StartsFollow ==
  ASSUME NEW s \in Seq(Cell)
  PROVE  /\ Starts(s) \in [0..Len(s) -> 1..Len(s) + 1]
         /\ Starts(s)[0] = 1
         /\ \A k \in 0..Len(s) : k # 0 => Starts(s)[k] = Follow(s, Starts(s)[k - 1])
  <1> DEFINE n == Len(s)
             V == 1..n + 1
             Seek(at, k) == IF k = 0 THEN 1
                            ELSE LET i == at[k - 1] IN IF IsFrame(s, i) THEN i + s[i + 1] ELSE i
             step == [a \in (0..n) \X V |-> IF a[1] = 0 THEN 1 ELSE Follow(s, a[2])]
             Chain(at) == at = [k \in 0..n |-> Seek(at, k)]
             last == CHOOSE at : Chain(at)
  <1>1. n \in Nat /\ 1 \in V
    OBVIOUS
  <1>2. \A i \in V : Follow(s, i) \in V
    BY FrameFits DEF Follow
  <1>3. Starts(s) = last
    BY DEF Starts
  <1> HIDE DEF n, V
  <1>4. \A k \in 0..n : \A i \in V : step[<<k, i>>] = IF k = 0 THEN 1 ELSE Follow(s, i)
    OBVIOUS
  <1>5. step \in [(0..n) \X V -> V]
    <2>1. ASSUME NEW a \in (0..n) \X V
          PROVE  (IF a[1] = 0 THEN 1 ELSE Follow(s, a[2])) \in V
      BY <1>1, <1>2
    <2>2. QED
      BY <2>1
  <1>6. \E w : Facts!IsWalk(w, n, V, 1, step)
    <2> HIDE DEF step
    <2>1. Facts!Stepping(n, V, 1, step)
      BY <1>1, <1>5 DEF Facts!Stepping
    <2>2. QED
      BY <2>1, Facts!WalkExists
  <1>7. PICK w : Facts!IsWalk(w, n, V, 1, step)
    BY <1>6
  <1>8. w \in [0..n -> V] /\ \A k \in 0..n : w[k] = step[<<k, IF k = 0 THEN 1 ELSE w[k - 1]>>]
    BY <1>7 DEF Facts!IsWalk
  <1> HIDE DEF step
  <1>9. \A k \in 0..n : w[k] = Seek(w, k)
    <2> TAKE k \in 0..n
    <2>1. CASE k = 0
      BY <1>1, <1>4, <1>8, <2>1
    <2>2. CASE k # 0
      <3>1. k - 1 \in 0..n
        BY <1>1, <2>2
      <3>2. w[k - 1] \in V
        BY <1>8, <3>1
      <3>3. w[k] = Follow(s, w[k - 1])
        BY <1>4, <1>8, <2>2, <3>2
      <3>4. QED
        BY <2>2, <3>3 DEF Follow
    <2>3. QED
      BY <2>1, <2>2
  <1>10. Chain(w)
    <2> HIDE DEF Seek
    <2>1. QED
      BY <1>8, <1>9
  <1>11. Chain(last)
    <2> HIDE DEF Chain
    <2>1. QED
      BY <1>10
  <1> HIDE DEF last
  <1>12. last = [k \in 0..n |-> Seek(last, k)]
    BY <1>11
  <1>13. last[0] = 1
    BY <1>1, <1>12
  <1>14. \A k \in 0..n : k # 0 => last[k] = Follow(s, last[k - 1])
    BY <1>12 DEF Follow
  <1>15. 0..n \subseteq {k \in 0..n : last[k] \in V}
    <2> DEFINE P == {k \in 0..n : last[k] \in V}
    <2>1. n \in Int /\ (0 <= n => 0 \in P)
      BY <1>1, <1>13
    <2>2. \A k \in P : 0 <= k /\ k < n => k + 1 \in P
      <3> TAKE k \in P
      <3> HAVE 0 <= k /\ k < n
      <3>1. k + 1 \in 0..n /\ k + 1 # 0 /\ (k + 1) - 1 = k /\ last[k] \in V
        BY <1>1
      <3>2. last[k + 1] = Follow(s, last[k])
        BY <1>14, <3>1
      <3>3. QED
        BY <1>2, <3>1, <3>2
    <2> HIDE DEF P
    <2>3. 0..n \subseteq P
      BY <2>1, <2>2, Facts!IntervalInduction
    <2>4. QED
      BY <2>3 DEF P
  <1>16. last \in [0..n -> V]
    BY <1>12, <1>15
  <1>17. QED
    BY <1>3, <1>13, <1>14, <1>16 DEF n, V

\* k is the number of frames of s.
Counts(s, k) ==
  /\ k \in 0..Len(s)
  /\ ~IsFrame(s, Starts(s)[k])
  /\ \A j \in 0..k - 1 : IsFrame(s, Starts(s)[j])

\* A stream has one number of frames.
LEMMA CountIs ==
  ASSUME NEW s \in Seq(Cell)
  PROVE  Counts(s, FrameCount(s)) /\ \A k : Counts(s, k) => k = FrameCount(s)
  <1> DEFINE at == Starts(s)
             n == Len(s)
             T == {k \in 0..n : ~IsFrame(s, at[k])}
  <1>1. /\ n \in Nat /\ at \in [0..n -> 1..n + 1] /\ at[0] = 1
        /\ \A k \in 0..n : k # 0 => at[k] = Follow(s, at[k - 1])
    BY StartsFollow
  <1>2. FrameCount(s) = CHOOSE k \in 0..n : ~IsFrame(s, at[k]) /\ \A j \in 0..k - 1 : IsFrame(s, at[j])
    BY DEF FrameCount
  <1>3. ~IsFrame(s, n + 1)
    BY NoFrameLast
  <1>4. \A i \in 1..n + 1 : IsFrame(s, i) => Follow(s, i) \in Nat /\ i + 1 < Follow(s, i)
    BY FrameFits DEF Follow
  <1> HIDE DEF at, n
  <1>5. T # {}
    <2> SUFFICES ASSUME T = {} PROVE FALSE
      OBVIOUS
    <2>1. \A k \in 0..n : IsFrame(s, at[k])
      OBVIOUS
    <2> DEFINE P == {k \in 0..n : k + 1 <= at[k]}
    <2>2. n \in Int /\ (0 <= n => 0 \in P)
      BY <1>1
    <2>3. \A k \in P : 0 <= k /\ k < n => k + 1 \in P
      <3> TAKE k \in P
      <3> HAVE 0 <= k /\ k < n
      <3>1. k \in Nat /\ k + 1 \in 0..n /\ k + 1 # 0 /\ (k + 1) - 1 = k
        BY <1>1
      <3>2. at[k] \in 1..n + 1 /\ at[k + 1] = Follow(s, at[k]) /\ IsFrame(s, at[k])
        BY <1>1, <2>1, <3>1
      <3>3. at[k] + 1 < at[k + 1] /\ at[k] \in Nat /\ at[k + 1] \in Nat /\ k + 1 <= at[k]
        BY <1>1, <1>4, <3>2
      <3>4. QED
        BY <3>1, <3>3
    <2> HIDE DEF P
    <2>4. 0..n \subseteq P
      BY <2>2, <2>3, Facts!IntervalInduction
    <2>5. n \in 0..n
      BY <1>1
    <2>6. at[n] \in 1..n + 1 /\ n + 1 <= at[n]
      BY <1>1, <2>4, <2>5 DEF P
    <2>7. at[n] = n + 1
      BY <1>1, <2>6
    <2>8. QED
      BY <1>3, <2>1, <2>5, <2>7
  <1>6. PICK k \in T : \A m \in T : k <= m
    <2>1. T \in SUBSET Nat
      BY <1>1
    <2> HIDE DEF T
    <2>2. QED
      BY <1>5, <2>1, Facts!LeastElement
  <1>7. k \in 0..n /\ ~IsFrame(s, at[k]) /\ \A j \in 0..k - 1 : IsFrame(s, at[j])
    <2>1. ASSUME NEW j \in 0..k - 1
          PROVE  IsFrame(s, at[j])
      <3>1. j \in 0..n /\ ~(k <= j)
        BY <1>1, <1>6
      <3>2. QED
        BY <1>6, <3>1
    <2>2. QED
      BY <1>6, <2>1
  <1>8. FrameCount(s) \in 0..n /\ ~IsFrame(s, at[FrameCount(s)]) /\ \A j \in 0..FrameCount(s) - 1 : IsFrame(s, at[j])
    BY <1>2, <1>7
  <1>9. Counts(s, FrameCount(s))
    BY <1>8 DEF Counts, at, n
  <1>10. ASSUME NEW m, Counts(s, m)
         PROVE  m = FrameCount(s)
    <2> DEFINE c == FrameCount(s)
    <2>1. /\ m \in Nat /\ ~IsFrame(s, at[m]) /\ \A j \in 0..m - 1 : IsFrame(s, at[j])
      BY <1>1, <1>10 DEF Counts, at, n
    <2>2. c \in Nat /\ ~IsFrame(s, at[c]) /\ \A j \in 0..c - 1 : IsFrame(s, at[j])
      BY <1>1, <1>8
    <2> HIDE DEF c
    <2>3. ~(m < c)
      BY <2>1, <2>2
    <2>4. ~(c < m)
      BY <2>1, <2>2
    <2>5. QED
      BY <2>1, <2>2, <2>3, <2>4 DEF c
  <1>11. QED
    BY <1>9, <1>10

\* What follows the first k frames of s.
Rest(s, k) == After(s, Starts(s)[k] - 1)

\* The cells behind a place.
LEMMA AfterIs ==
  ASSUME NEW s \in Seq(Cell), NEW i \in 1..Len(s) + 1
  PROVE  /\ After(s, i - 1) \in Seq(Cell) /\ Len(After(s, i - 1)) = Len(s) - i + 1
         /\ \A j \in 1..Len(s) - i + 1 : After(s, i - 1)[j] = s[i + j - 1]
  <1>1. i - 1 \in 0..Len(s) /\ Len(s) \in Nat /\ (i - 1) + 1 = i
    OBVIOUS
  <1>2. After(s, i - 1) \in Seq(Cell) /\ Len(After(s, i - 1)) = Len(s) - (i - 1)
    BY <1>1, Cut
  <1>3. After(s, i - 1) = SubSeq(s, i, Len(s))
    BY <1>1 DEF After
  <1>4. \A j \in i..Len(s) : s[j] \in Cell
    BY <1>1
  <1>5. \A j \in 1..Len(s) - i + 1 : SubSeq(s, i, Len(s))[j] = s[i + j - 1]
    BY <1>1, <1>4, SubSeqProperties
  <1>6. \A j \in 1..Len(s) - i + 1 : After(s, i - 1)[j] = s[i + j - 1]
    BY <1>3, <1>5, Zenon
  <1>7. Len(s) - (i - 1) = Len(s) - i + 1
    BY <1>1
  <1>8. QED
    BY <1>2, <1>6, <1>7, Zenon

\* next() finds a frame, or an invalid header, just where the stream has one.
LEMMA FramerSees ==
  ASSUME NEW s \in Seq(Cell), NEW i \in 1..Len(s) + 1
  PROVE  /\ Whole(After(s, i - 1)) <=> IsFrame(s, i)
         /\ Invalid(After(s, i - 1)) <=> i + Header - 1 <= Len(s) /\ s[i + 1] \notin Header..Maximum
         /\ Len(After(s, i - 1)) >= Header => After(s, i - 1)[2] = s[i + 1]
  <1> DEFINE p == After(s, i - 1)
  <1>1. Header \in Nat /\ 2 <= Header /\ Maximum \in Nat /\ Len(s) \in Nat
    BY SizeAssumption
  <1>2. p \in Seq(Cell) /\ Len(p) = Len(s) - i + 1 /\ \A j \in 1..Len(s) - i + 1 : p[j] = s[i + j - 1]
    BY AfterIs
  <1> HIDE DEF p
  <1>3. Len(p) >= Header <=> i + Header - 1 <= Len(s)
    BY <1>1, <1>2
  <1>4. ASSUME Len(p) >= Header
        PROVE  p[2] = s[i + 1] /\ p[2] \in Nat
    <2>1. 2 \in 1..Len(s) - i + 1 /\ i + 2 - 1 = i + 1
      BY <1>1, <1>2, <1>4
    <2>2. p[2] = s[i + 2 - 1]
      BY <1>2, <2>1
    <2>3. QED
      BY <1>2, <1>4, <2>1, <2>2, Second
  <1>5. Invalid(p) <=> i + Header - 1 <= Len(s) /\ s[i + 1] \notin Header..Maximum
    BY <1>1, <1>3, <1>4 DEF Invalid
  <1>6. Whole(p) <=> IsFrame(s, i)
    <2>1. CASE Len(p) >= Header
      <3>1. Len(p) >= p[2] <=> i + s[i + 1] - 1 <= Len(s)
        BY <1>2, <1>4, <2>1
      <3>2. QED
        BY <1>3, <1>5, <2>1, <3>1 DEF Whole, IsFrame
    <2>2. CASE ~(Len(p) >= Header)
      BY <1>3, <2>2 DEF Whole, IsFrame
    <2>3. QED
      BY <2>1, <2>2
  <1>7. QED
    BY <1>4, <1>5, <1>6 DEF p

\* Frames are looked for inside the stream.
LEMMA StartIn ==
  ASSUME NEW s \in Seq(Cell), NEW k \in 0..FrameCount(s)
  PROVE  /\ FrameCount(s) \in 0..Len(s) /\ k \in 0..Len(s)
         /\ Starts(s)[k] \in 1..Len(s) + 1
         /\ Rest(s, k) \in Seq(Cell)
         /\ IsFrame(s, Starts(s)[k]) <=> k # FrameCount(s)
  <1>1. Counts(s, FrameCount(s))
    BY CountIs
  <1>2. FrameCount(s) \in 0..Len(s) /\ k \in 0..Len(s) /\ Len(s) \in Nat
    BY <1>1 DEF Counts
  <1>3. Starts(s)[k] \in 1..Len(s) + 1
    BY <1>2, StartsFollow
  <1>4. k # FrameCount(s) => k \in 0..FrameCount(s) - 1
    BY <1>2
  <1>5. QED
    BY <1>1, <1>2, <1>3, <1>4, AfterIs DEF Counts, Rest

\* Where no frame follows there are no more, and what follows is malformed just
\* when next() throws.
LEMMA NoMore ==
  ASSUME NEW s \in Seq(Cell), NEW k \in 0..FrameCount(s)
  PROVE  /\ Whole(Rest(s, k)) <=> k # FrameCount(s)
         /\ k = FrameCount(s) => (Invalid(Rest(s, k)) <=> Malformed(s))
         /\ Invalid(Rest(s, k)) => k = FrameCount(s)
  <1>1. Starts(s)[k] \in 1..Len(s) + 1 /\ (IsFrame(s, Starts(s)[k]) <=> k # FrameCount(s))
    BY StartIn
  <1>2. Whole(Rest(s, k)) <=> k # FrameCount(s)
    BY <1>1, FramerSees DEF Rest
  <1>3. ASSUME k = FrameCount(s)
        PROVE  Invalid(Rest(s, k)) <=> Malformed(s)
    BY <1>1, <1>3, FramerSees DEF Rest, Malformed
  <1>4. QED
    BY <1>2, <1>3 DEF Whole

\* next() takes the next frame of the stream.
LEMMA Takes ==
  ASSUME NEW s \in Seq(Cell), NEW k \in 0..FrameCount(s), Whole(Rest(s, k))
  PROVE  /\ k + 1 \in 1..FrameCount(s)
         /\ Frames(s)[k + 1] = First(Rest(s, k), Rest(s, k)[2])
         /\ Frames(s)[k + 1] \in FrameType
         /\ Rest(s, k + 1) = After(Rest(s, k), Rest(s, k)[2])
  <1> DEFINE i == Starts(s)[k]
             p == Rest(s, k)
             l == s[i + 1]
  <1>1. /\ FrameCount(s) \in 0..Len(s) /\ Len(s) \in Nat /\ k \in Nat /\ k <= FrameCount(s) /\ k # FrameCount(s)
        /\ i \in 1..Len(s) + 1 /\ IsFrame(s, i)
    BY StartIn, NoMore
  <1>2. k + 1 \in 1..FrameCount(s) /\ k + 1 \in 0..Len(s) /\ k + 1 # 0 /\ (k + 1) - 1 = k
    BY <1>1
  <1>3. Starts(s)[k + 1] = i + l
    BY <1>1, <1>2, StartsFollow DEF Follow
  <1>4. l \in Nat /\ i + l \in 1..Len(s) + 1
    BY <1>1, FrameFits
  <1>5. p \in Seq(Cell) /\ Len(p) = Len(s) - i + 1 /\ \A j \in 1..Len(s) - i + 1 : p[j] = s[i + j - 1]
    BY <1>1, AfterIs DEF Rest
  <1>6. p[2] = l
    BY <1>1, FramerSees DEF Rest, Whole
  <1>7. First(p, l) \in FrameType /\ After(p, l) \in Seq(Cell)
    BY <1>5, <1>6, WholeFrame
  <1> HIDE DEF i, p, l
  <1>8. Frames(s)[k + 1] = SubSeq(s, i, (i + l) - 1)
    BY <1>2, <1>3 DEF Frames, i
  <1>9. SubSeq(s, i, (i + l) - 1) = First(p, l)
    <2>1. SubSeq(s, i, (i + l) - 1) = [j \in 1..l |-> s[i + j - 1]]
      BY <1>1, <1>4
    <2>2. First(p, l) = [j \in 1..l |-> p[j]]
      BY <1>1, <1>4, <1>5 DEF First
    <2>3. \A j \in 1..l : p[j] = s[i + j - 1]
      BY <1>1, <1>4, <1>5
    <2>4. QED
      BY <2>1, <2>2, <2>3
  <1>10. Rest(s, k + 1) = After(p, l)
    <2>1. Rest(s, k + 1) = After(s, (i + l) - 1)
      BY <1>3 DEF Rest
    <2>2. /\ After(s, (i + l) - 1) \in Seq(Cell) /\ Len(After(s, (i + l) - 1)) = Len(s) - (i + l) + 1
          /\ \A j \in 1..Len(s) - (i + l) + 1 : After(s, (i + l) - 1)[j] = s[(i + l) + j - 1]
      BY <1>4, AfterIs
    <2>3. l + 1 \in 1..Len(p) + 1
      BY <1>1, <1>4, <1>5
    <2>4. /\ After(p, (l + 1) - 1) \in Seq(Cell) /\ Len(After(p, (l + 1) - 1)) = Len(p) - (l + 1) + 1
          /\ \A j \in 1..Len(p) - (l + 1) + 1 : After(p, (l + 1) - 1)[j] = p[(l + 1) + j - 1]
      BY <1>5, <2>3, AfterIs
    <2> DEFINE q == After(s, (i + l) - 1)
               r == After(p, (l + 1) - 1)
    <2>5. Len(q) = Len(r) /\ Len(q) = Len(s) - (i + l) + 1
      BY <1>1, <1>4, <1>5, <2>2, <2>4
    <2>6. ASSUME NEW j \in 1..Len(q)
          PROVE  q[j] = r[j]
      <3>1. q[j] = s[(i + l) + j - 1]
        BY <2>2, <2>5, <2>6
      <3>2. r[j] = p[(l + 1) + j - 1]
        BY <2>4, <2>5, <2>6
      <3>3. (l + 1) + j - 1 \in 1..Len(s) - i + 1 /\ i + ((l + 1) + j - 1) - 1 = (i + l) + j - 1
        BY <1>1, <1>4, <2>5, <2>6
      <3>4. p[(l + 1) + j - 1] = s[i + ((l + 1) + j - 1) - 1]
        BY <1>5, <3>3
      <3>5. QED
        BY <3>1, <3>2, <3>3, <3>4
    <2>7. (l + 1) - 1 = l
      BY <1>4
    <2> HIDE DEF q
    <2>8. q \in Seq(Cell) /\ r \in Seq(Cell)
      BY <2>2, <2>4 DEF q
    <2> HIDE DEF r
    <2>9. q = r
      BY <2>5, <2>6, <2>8, SeqEqual
    <2>10. QED
      BY <2>1, <2>7, <2>9 DEF q, r
  <1>11. QED
    BY <1>2, <1>6, <1>7, <1>8, <1>9, <1>10 DEF p

\* The first elements of a sequence.
LEMMA FirstNext ==
  ASSUME NEW X, NEW ss \in Seq(X), NEW k \in Nat, k + 1 <= Len(ss)
  PROVE  /\ First(ss, k) \in Seq(X)
         /\ First(ss, k + 1) = Append(First(ss, k), ss[k + 1])
         /\ ss[k + 1] \in X
  <1>1. \A i \in 1..k + 1 : ss[i] \in X
    OBVIOUS
  <1>2. \A i \in 1..k : ss[i] \in X
    BY <1>1
  <1>3. First(ss, k) \in Seq(X) /\ Len(First(ss, k)) = k /\ \A i \in 1..k : First(ss, k)[i] = ss[i]
    BY <1>2, SubSeqProperties DEF First
  <1>4. First(ss, k + 1) \in Seq(X) /\ Len(First(ss, k + 1)) = k + 1 /\ \A i \in 1..k + 1 : First(ss, k + 1)[i] = ss[i]
    BY <1>1, SubSeqProperties DEF First
  <1>5. ss[k + 1] \in X
    BY <1>1
  <1> DEFINE q == Append(First(ss, k), ss[k + 1])
             r == First(ss, k + 1)
  <1>6. q \in Seq(X) /\ Len(q) = k + 1 /\ q[k + 1] = ss[k + 1] /\ \A i \in 1..k : q[i] = ss[i]
    BY <1>3, <1>5, AppendProperties
  <1>7. Len(q) = Len(r) /\ \A i \in 1..Len(q) : q[i] = r[i]
    BY <1>4, <1>6
  <1> HIDE DEF q, r
  <1>8. q = r
    BY <1>4, <1>6, <1>7, SeqEqual DEF r
  <1>9. QED
    BY <1>3, <1>5, <1>8 DEF q, r

\* Sequences that start alike have the same first elements.
LEMMA FirstAlike ==
  ASSUME NEW X, NEW ss \in Seq(X), NEW tt \in Seq(X), NEW k \in Nat, k <= Len(ss), k <= Len(tt),
         \A i \in 1..k : ss[i] = tt[i]
  PROVE  First(ss, k) = First(tt, k)
  <1>1. \A i \in 1..k : ss[i] \in X /\ tt[i] \in X
    OBVIOUS
  <1>2. First(ss, k) \in Seq(X) /\ Len(First(ss, k)) = k /\ \A i \in 1..k : First(ss, k)[i] = ss[i]
    BY <1>1, SubSeqProperties DEF First
  <1>3. First(tt, k) \in Seq(X) /\ Len(First(tt, k)) = k /\ \A i \in 1..k : First(tt, k)[i] = tt[i]
    BY <1>1, SubSeqProperties DEF First
  <1> DEFINE q == First(ss, k)
             r == First(tt, k)
  <1>4. Len(q) = Len(r) /\ \A i \in 1..Len(q) : q[i] = r[i]
    BY <1>2, <1>3
  <1> HIDE DEF q, r
  <1>5. q = r
    BY <1>2, <1>3, <1>4, SeqEqual DEF q, r
  <1>6. QED
    BY <1>5 DEF q, r

\* What the frames of a stream are, for the queue and for the pipe.
LEMMA FramesTyped ==
  ASSUME NEW s \in Seq(Cell)
  PROVE  /\ FrameCount(s) \in Nat
         /\ Frames(s) \in Seq(FrameType) /\ Len(Frames(s)) = FrameCount(s)
         /\ Plain(s) \in Seq(Seq(FrameType)) /\ Len(Plain(s)) = FrameCount(s)
         /\ Bodies(s) \in Seq(Seq(Cell)) /\ Len(Bodies(s)) = FrameCount(s)
         /\ \A k \in 1..FrameCount(s) :
              /\ Plain(s)[k] = IF IsTls(Frames(s)[k]) THEN <<>> ELSE <<Frames(s)[k]>>
              /\ Bodies(s)[k] = IF IsTls(Frames(s)[k]) THEN After(Frames(s)[k], Header) ELSE <<>>
  <1> DEFINE n == FrameCount(s)
             f == Frames(s)
  <1>1. n \in Nat
    BY CountIs DEF Counts
  <1>2. DOMAIN f = 1..n
    BY DEF Frames
  <1>3. ASSUME NEW k \in 1..n
        PROVE  f[k] \in FrameType
    <2>1. k - 1 \in 0..n /\ k - 1 # n /\ (k - 1) + 1 = k
      BY <1>1
    <2>2. Whole(Rest(s, k - 1))
      BY <2>1, NoMore
    <2>3. Frames(s)[(k - 1) + 1] \in FrameType
      BY <2>1, <2>2, Takes
    <2>4. QED
      BY <2>1, <2>3
  <1>4. f = [k \in 1..n |-> f[k]]
    BY DEF Frames
  <1>5. ASSUME NEW k \in 1..n
        PROVE  <<f[k]>> \in Seq(FrameType) /\ After(f[k], Header) \in Seq(Cell)
    <2>1. f[k] \in Seq(Cell) /\ Header \in 0..Len(f[k])
      BY <1>3, SizeAssumption DEF FrameType
    <2>2. After(f[k], Header) \in Seq(Cell)
      BY <2>1, Cut
    <2>3. QED
      BY <1>3, <2>2
  <1>6. Plain(s) = [k \in 1..n |-> IF IsTls(f[k]) THEN <<>> ELSE <<f[k]>>]
    BY <1>2 DEF Plain
  <1>7. Bodies(s) = [k \in 1..n |-> IF IsTls(f[k]) THEN After(f[k], Header) ELSE <<>>]
    BY <1>2 DEF Bodies
  <1> HIDE DEF n, f
  <1>8. f \in Seq(FrameType) /\ Len(f) = n
    BY <1>1, <1>3, <1>4
  <1>9. \A k \in 1..n : (IF IsTls(f[k]) THEN <<>> ELSE <<f[k]>>) \in Seq(FrameType)
    BY <1>5
  <1>10. \A k \in 1..n : (IF IsTls(f[k]) THEN After(f[k], Header) ELSE <<>>) \in Seq(Cell)
    BY <1>5
  <1>11. Plain(s) \in [1..n -> Seq(FrameType)] /\ Bodies(s) \in [1..n -> Seq(Cell)]
    BY <1>6, <1>7, <1>9, <1>10
  <1>12. Plain(s) \in Seq(Seq(FrameType)) /\ Len(Plain(s)) = n /\ Bodies(s) \in Seq(Seq(Cell)) /\ Len(Bodies(s)) = n
    BY <1>1, <1>11
  <1>13. \A k \in 1..n : /\ Plain(s)[k] = IF IsTls(f[k]) THEN <<>> ELSE <<f[k]>>
                         /\ Bodies(s)[k] = IF IsTls(f[k]) THEN After(f[k], Header) ELSE <<>>
    BY <1>6, <1>7
  <1>14. QED
    BY <1>1, <1>8, <1>12, <1>13 DEF n, f

\* A frame is for the pipe by its first cell.
LEMMA SameCode ==
  ASSUME NEW p \in Seq(Cell), Whole(p)
  PROVE  IsTls(First(p, p[2])) <=> IsTls(p)
  <1>1. p[2] \in Header..Maximum /\ p[2] <= Len(p) /\ 2 <= Header /\ Header \in Nat /\ Maximum \in Nat
    BY WholeFrame, SizeAssumption
  <1>2. First(p, p[2])[1] = p[1]
    BY <1>1 DEF First
  <1>3. QED
    BY <1>2 DEF IsTls

\* What the next frame adds to what the queue and the pipe get.
LEMMA Adding ==
  ASSUME NEW s \in Seq(Cell), NEW k \in 0..FrameCount(s), Whole(Rest(s, k))
  PROVE  LET p == Rest(s, k)
             f == First(p, p[2])
         IN  /\ FlattenSeq(First(Plain(s), k + 1)) =
                  FlattenSeq(First(Plain(s), k)) \o (IF IsTls(p) THEN <<>> ELSE <<f>>)
             /\ FlattenSeq(First(Bodies(s), k + 1)) =
                  FlattenSeq(First(Bodies(s), k)) \o (IF IsTls(p) THEN After(f, Header) ELSE <<>>)
             /\ First(Frames(s), k + 1) = Append(First(Frames(s), k), f)
  <1> DEFINE p == Rest(s, k)
             f == First(p, p[2])
  <1>1. k + 1 \in 1..FrameCount(s) /\ Frames(s)[k + 1] = f
    BY Takes
  <1>2. p \in Seq(Cell)
    BY StartIn
  <1>3. IsTls(f) <=> IsTls(p)
    BY <1>2, SameCode
  <1> HIDE DEF p, f
  <1>4. k \in Nat /\ k + 1 <= FrameCount(s)
    BY <1>1, FramesTyped
  <1>5. First(Frames(s), k + 1) = Append(First(Frames(s), k), f)
    BY <1>1, <1>4, FramesTyped, FirstNext
  <1>6. /\ First(Plain(s), k) \in Seq(Seq(FrameType)) /\ Plain(s)[k + 1] \in Seq(FrameType)
        /\ First(Plain(s), k + 1) = Append(First(Plain(s), k), Plain(s)[k + 1])
    BY <1>4, FramesTyped, FirstNext
  <1>7. /\ First(Bodies(s), k) \in Seq(Seq(Cell)) /\ Bodies(s)[k + 1] \in Seq(Cell)
        /\ First(Bodies(s), k + 1) = Append(First(Bodies(s), k), Bodies(s)[k + 1])
    BY <1>4, FramesTyped, FirstNext
  <1>8. /\ Plain(s)[k + 1] = IF IsTls(p) THEN <<>> ELSE <<f>>
        /\ Bodies(s)[k + 1] = IF IsTls(p) THEN After(f, Header) ELSE <<>>
    BY <1>1, <1>3, FramesTyped
  <1>9. FlattenSeq(First(Plain(s), k + 1)) = FlattenSeq(First(Plain(s), k)) \o Plain(s)[k + 1]
    BY <1>6, FlattenAppend
  <1>10. FlattenSeq(First(Bodies(s), k + 1)) = FlattenSeq(First(Bodies(s), k)) \o Bodies(s)[k + 1]
    BY <1>7, FlattenAppend
  <1>11. QED
    BY <1>5, <1>8, <1>9, <1>10 DEF p, f

\* A longer stream has the frames of the shorter one where they were.
LEMMA FramesStay ==
  ASSUME NEW s \in Seq(Cell), NEW c \in Seq(Cell)
  PROVE  LET t == s \o c
         IN  /\ FrameCount(s) <= FrameCount(t)
             /\ \A k \in 0..FrameCount(s) : Starts(t)[k] = Starts(s)[k]
  <1> DEFINE t == s \o c
             n == FrameCount(s)
             m == FrameCount(t)
  <1>1. /\ t \in Seq(Cell) /\ Len(s) \in Nat /\ Len(t) \in Nat /\ Len(s) <= Len(t)
        /\ \A i \in 1..Len(s) : t[i] = s[i]
    BY ConcatProperties
  <1> HIDE DEF t
  <1>2. ASSUME NEW i \in 1..Len(s) + 1, IsFrame(s, i)
        PROVE  IsFrame(t, i) /\ Follow(t, i) = Follow(s, i)
    <2>1. Header \in Nat /\ Maximum \in Nat /\ 2 <= Header
      BY SizeAssumption
    <2>2. i + Header - 1 <= Len(s) /\ s[i + 1] \in Header..Maximum /\ i + s[i + 1] - 1 <= Len(s)
      BY <1>2 DEF IsFrame
    <2>3. t[i + 1] = s[i + 1]
      BY <1>1, <2>1, <2>2
    <2>4. IsFrame(t, i)
      BY <1>1, <2>1, <2>2, <2>3 DEF IsFrame
    <2>5. QED
      BY <1>2, <2>3, <2>4 DEF Follow
  <1>3. /\ n \in 0..Len(s) /\ n \in Nat
        /\ \A j \in 0..n - 1 : IsFrame(s, Starts(s)[j])
    BY CountIs DEF Counts
  <1>4. /\ m \in 0..Len(t) /\ m \in Nat /\ ~IsFrame(t, Starts(t)[m])
    BY <1>1, CountIs DEF Counts
  <1>5. \A j \in 0..n : Starts(s)[j] \in 1..Len(s) + 1
    BY StartIn
  <1>6. Starts(s)[0] = 1 /\ \A k \in 0..Len(s) : k # 0 => Starts(s)[k] = Follow(s, Starts(s)[k - 1])
    BY StartsFollow
  <1>7. Starts(t)[0] = 1 /\ \A k \in 0..Len(t) : k # 0 => Starts(t)[k] = Follow(t, Starts(t)[k - 1])
    BY <1>1, StartsFollow
  <1> HIDE DEF n, m
  <1> DEFINE P == {k \in 0..n : Starts(t)[k] = Starts(s)[k]}
  <1>8. n \in Int /\ (0 <= n => 0 \in P)
    BY <1>3, <1>6, <1>7
  <1>9. \A k \in P : 0 <= k /\ k < n => k + 1 \in P
    <2> TAKE k \in P
    <2> HAVE 0 <= k /\ k < n
    <2>1. k \in 0..n - 1 /\ k + 1 \in 0..n /\ k + 1 \in 0..Len(s) /\ k + 1 \in 0..Len(t) /\ k + 1 # 0 /\ (k + 1) - 1 = k
      BY <1>1, <1>3
    <2>2. Starts(t)[k] = Starts(s)[k] /\ IsFrame(s, Starts(s)[k]) /\ Starts(s)[k] \in 1..Len(s) + 1
      BY <1>3, <1>5, <2>1
    <2>3. Starts(s)[k + 1] = Follow(s, Starts(s)[k]) /\ Starts(t)[k + 1] = Follow(t, Starts(t)[k])
      BY <1>6, <1>7, <2>1
    <2>4. Starts(t)[k + 1] = Starts(s)[k + 1]
      BY <1>2, <2>2, <2>3
    <2>5. QED
      BY <2>1, <2>4
  <1>10. 0..n \subseteq P
    <2> HIDE DEF P
    <2>1. QED
      BY <1>8, <1>9, Facts!IntervalInduction
  <1>11. \A k \in 0..n : Starts(t)[k] = Starts(s)[k]
    BY <1>10
  <1>12. n <= m
    <2> SUFFICES ASSUME ~(n <= m) PROVE FALSE
      OBVIOUS
    <2>1. m \in 0..n - 1 /\ m \in 0..n
      BY <1>3, <1>4
    <2>2. IsFrame(s, Starts(s)[m]) /\ Starts(s)[m] \in 1..Len(s) + 1
      BY <1>3, <1>5, <2>1
    <2>3. IsFrame(t, Starts(s)[m])
      BY <1>2, <2>2
    <2>4. Starts(t)[m] = Starts(s)[m]
      BY <1>11, <2>1
    <2>5. QED
      BY <1>4, <2>3, <2>4
  <1>13. QED
    BY <1>11, <1>12 DEF n, m, t

\* What follows the frames grows with the stream.
LEMMA RestGrows ==
  ASSUME NEW s \in Seq(Cell), NEW c \in Seq(Cell), NEW k \in 0..FrameCount(s)
  PROVE  Rest(s \o c, k) = Rest(s, k) \o c
  <1> DEFINE t == s \o c
             i == Starts(s)[k]
             q == After(t, i - 1)
             p == After(s, i - 1)
             r == p \o c
  <1>1. i \in 1..Len(s) + 1 /\ Starts(t)[k] = i
    BY StartIn, FramesStay
  <1>2. /\ t \in Seq(Cell) /\ Len(s) \in Nat /\ Len(c) \in Nat /\ Len(t) = Len(s) + Len(c)
        /\ \A j \in 1..Len(s) + Len(c) : t[j] = IF j <= Len(s) THEN s[j] ELSE c[j - Len(s)]
    BY ConcatProperties
  <1> HIDE DEF t, i
  <1>3. i \in 1..Len(t) + 1
    BY <1>1, <1>2
  <1>4. p \in Seq(Cell) /\ Len(p) = Len(s) - i + 1 /\ \A j \in 1..Len(s) - i + 1 : p[j] = s[i + j - 1]
    BY <1>1, AfterIs
  <1>5. q \in Seq(Cell) /\ Len(q) = Len(t) - i + 1 /\ \A j \in 1..Len(t) - i + 1 : q[j] = t[i + j - 1]
    BY <1>2, <1>3, AfterIs
  <1> HIDE DEF p, q
  <1>6. /\ r \in Seq(Cell) /\ Len(r) = Len(p) + Len(c)
        /\ \A j \in 1..Len(p) + Len(c) : r[j] = IF j <= Len(p) THEN p[j] ELSE c[j - Len(p)]
    BY <1>4, ConcatProperties
  <1> HIDE DEF r
  <1>7. Len(q) = Len(r)
    BY <1>1, <1>2, <1>4, <1>5, <1>6
  <1>8. ASSUME NEW j \in 1..Len(q)
        PROVE  q[j] = r[j]
    <2>1. q[j] = t[i + j - 1]
      BY <1>5
    <2>2. j \in 1..Len(p) + Len(c) /\ i + j - 1 \in 1..Len(s) + Len(c) /\ j \in Int /\ i \in Int /\ Len(p) \in Nat
      BY <1>1, <1>2, <1>4, <1>6, <1>7
    <2>3. CASE j <= Len(p)
      <3>1. i + j - 1 <= Len(s) /\ j \in 1..Len(s) - i + 1
        BY <1>2, <1>4, <2>2, <2>3
      <3>2. t[i + j - 1] = s[i + j - 1]
        BY <1>2, <2>2, <3>1
      <3>3. r[j] = p[j]
        BY <1>6, <2>2, <2>3
      <3>4. QED
        BY <1>4, <2>1, <3>1, <3>2, <3>3
    <2>4. CASE ~(j <= Len(p))
      <3>1. ~(i + j - 1 <= Len(s)) /\ (i + j - 1) - Len(s) = j - Len(p)
        BY <1>2, <1>4, <2>2, <2>4
      <3>2. t[i + j - 1] = c[(i + j - 1) - Len(s)]
        BY <1>2, <2>2, <3>1
      <3>3. r[j] = c[j - Len(p)]
        BY <1>6, <2>2, <2>4
      <3>4. QED
        BY <2>1, <3>1, <3>2, <3>3
    <2>5. QED
      BY <2>3, <2>4
  <1>9. q = r
    BY <1>5, <1>6, <1>7, <1>8, SeqEqual
  <1>10. QED
    BY <1>1, <1>9 DEF Rest, t, i, p, q, r

\* Whatever follows, the frames so far stay what they are.
LEMMA Stable ==
  ASSUME NEW s \in Seq(Cell), NEW c \in Seq(Cell), NEW k \in 0..FrameCount(s)
  PROVE  LET t == s \o c
         IN  /\ k \in 0..FrameCount(t)
             /\ First(Frames(t), k) = First(Frames(s), k)
             /\ First(Plain(t), k) = First(Plain(s), k)
             /\ First(Bodies(t), k) = First(Bodies(s), k)
  <1> DEFINE t == s \o c
  <1>1. /\ FrameCount(s) \in Nat /\ FrameCount(t) \in Nat /\ t \in Seq(Cell) /\ FrameCount(s) <= FrameCount(t)
        /\ \A j \in 0..FrameCount(s) : Starts(t)[j] = Starts(s)[j]
    BY FramesTyped, FramesStay, ConcatProperties
  <1>2. Len(s) \in Nat /\ \A i \in 1..Len(s) : t[i] = s[i]
    BY ConcatProperties
  <1> HIDE DEF t
  <1>3. ASSUME NEW j \in 1..FrameCount(s)
        PROVE  /\ j \in 1..FrameCount(t)
               /\ Frames(t)[j] = Frames(s)[j]
    <2> DEFINE a == Starts(s)[j - 1]
               b == Starts(s)[j] - 1
    <2>1. j \in 1..FrameCount(t) /\ j - 1 \in 0..FrameCount(s) /\ j \in 0..FrameCount(s)
      BY <1>1
    <2>2. a \in 1..Len(s) + 1 /\ b \in 0..Len(s)
      BY <1>2, <2>1, StartIn
    <2>3. Frames(t)[j] = SubSeq(t, a, b) /\ Frames(s)[j] = SubSeq(s, a, b)
      BY <1>1, <2>1 DEF Frames
    <2> HIDE DEF a, b
    <2>4. \A i \in a..b : s[i] \in Cell /\ t[i] = s[i]
      BY <1>2, <2>2
    <2>5. \A i \in a..b : t[i] \in Cell
      BY <2>4
    <2>6. /\ SubSeq(s, a, b) \in Seq(Cell) /\ Len(SubSeq(s, a, b)) = IF a <= b THEN b - a + 1 ELSE 0
          /\ \A i \in 1..b - a + 1 : SubSeq(s, a, b)[i] = s[a + i - 1]
      BY <2>2, <2>4, SubSeqProperties
    <2>7. /\ SubSeq(t, a, b) \in Seq(Cell) /\ Len(SubSeq(t, a, b)) = IF a <= b THEN b - a + 1 ELSE 0
          /\ \A i \in 1..b - a + 1 : SubSeq(t, a, b)[i] = t[a + i - 1]
      BY <2>2, <2>5, SubSeqProperties
    <2> DEFINE q == SubSeq(s, a, b)
               r == SubSeq(t, a, b)
    <2>8. Len(q) = Len(r)
      BY <2>6, <2>7
    <2>9. ASSUME NEW i \in 1..Len(q)
          PROVE  q[i] = r[i]
      <3>1. i \in 1..b - a + 1 /\ a + i - 1 \in a..b
        BY <2>2, <2>6
      <3>2. QED
        BY <2>4, <2>6, <2>7, <3>1
    <2>10. q = r
      <3> HIDE DEF q, r
      <3>1. q \in Seq(Cell) /\ r \in Seq(Cell)
        BY <2>6, <2>7 DEF q, r
      <3>2. QED
        BY <2>8, <2>9, <3>1, SeqEqual
    <2>11. QED
      BY <2>1, <2>3, <2>10
  <1>4. k \in Nat /\ k <= FrameCount(s) /\ k <= FrameCount(t) /\ k \in 0..FrameCount(t)
    BY <1>1
  <1>5. \A j \in 1..k : j \in 1..FrameCount(s) /\ j \in 1..FrameCount(t) /\ Frames(t)[j] = Frames(s)[j]
    BY <1>1, <1>3
  <1>6. \A j \in 1..k : Plain(t)[j] = Plain(s)[j] /\ Bodies(t)[j] = Bodies(s)[j]
    BY <1>1, <1>5, FramesTyped
  <1>7. First(Frames(t), k) = First(Frames(s), k)
    BY <1>1, <1>4, <1>5, FramesTyped, FirstAlike
  <1>8. First(Plain(t), k) = First(Plain(s), k)
    BY <1>1, <1>4, <1>6, FramesTyped, FirstAlike
  <1>9. First(Bodies(t), k) = First(Bodies(s), k)
    BY <1>1, <1>4, <1>6, FramesTyped, FirstAlike
  <1>10. QED
    BY <1>4, <1>7, <1>8, <1>9 DEF t
-----------------------------------------------------------------------------
(* The frames in the queue. *)

\* What an event is for the frames of a task.
Item(t, e) == IF e.from = t /\ Len(e.frame) >= Header THEN <<e.frame>> ELSE <<>>

Items(t, q) == [i \in 1..Len(q) |-> Item(t, q[i])]

\* TLS_Ready and failures are shorter than a header.
LEMMA TooShort ==
  ASSUME NEW f, f = << 0 >> \/ f = <<>>
  PROVE  ~(Len(f) >= Header)
  <1>1. Len(<< 0 >>) = 1 /\ Len(<<>>) = 0
    OBVIOUS
  <1>2. Len(f) = 0 \/ Len(f) = 1
    BY <1>1, Zenon
  <1> DEFINE n == Len(f)
  <1>3. n = 0 \/ n = 1
    BY <1>2
  <1> HIDE DEF n
  <1>4. ~(n >= Header)
    BY <1>3, SizeAssumption
  <1>5. QED
    BY <1>4 DEF n

\* Only frames are as long as a header.
LEMMA ItemTyped ==
  ASSUME NEW t, NEW e \in EventType
  PROVE  Item(t, e) \in Seq(FrameType)
  <1>2. Len(e.frame) >= Header => e.frame \in FrameType
    <2>1. e.frame \in FrameType \/ e = Ready \/ e = Failure("usb") \/ e = Failure("tls")
      BY DEF EventType
    <2>2. Ready.frame = << 0 >> /\ Failure("usb").frame = <<>> /\ Failure("tls").frame = <<>>
      BY DEF Ready, Failure
    <2>3. e.frame \in FrameType \/ e.frame = << 0 >> \/ e.frame = <<>>
      BY <2>1, <2>2
    <2>4. e.frame = << 0 >> \/ e.frame = <<>> => ~(Len(e.frame) >= Header)
      BY TooShort
    <2>5. QED
      BY <2>3, <2>4
  <1>3. QED
    BY <1>2 DEF Item

\* An event more in the queue is an item more.
LEMMA ItemsAppend ==
  ASSUME NEW t, NEW q \in Seq(EventType), NEW e \in EventType
  PROVE  /\ FlattenSeq(Items(t, q)) \in Seq(FrameType)
         /\ FlattenSeq(Items(t, Append(q, e))) = FlattenSeq(Items(t, q)) \o Item(t, e)
  <1> DEFINE V == Seq(FrameType)
             r == Append(q, e)
             a == Items(t, r)
             b == Append(Items(t, q), Item(t, e))
  <1>1. \A i \in 1..Len(q) : q[i] \in EventType /\ Item(t, q[i]) \in V
    BY ItemTyped
  <1>2. r \in Seq(EventType) /\ Len(r) = Len(q) + 1 /\ r[Len(q) + 1] = e /\ \A i \in 1..Len(q) : r[i] = q[i]
    BY AppendProperties
  <1>3. \A i \in 1..Len(r) : r[i] \in EventType /\ Item(t, r[i]) \in V
    BY <1>2, ItemTyped
  <1>4. Item(t, e) \in V
    BY ItemTyped
  <1>5. Len(q) \in Nat
    OBVIOUS
  <1> HIDE DEF V, r
  <1>6. Items(t, q) \in Seq(V) /\ Len(Items(t, q)) = Len(q) /\ \A i \in 1..Len(q) : Items(t, q)[i] = Item(t, q[i])
    <2>1. Items(t, q) \in [1..Len(q) -> V]
      BY <1>1 DEF Items
    <2>2. QED
      BY <1>5, <2>1 DEF Items
  <1>7. a \in Seq(V) /\ Len(a) = Len(q) + 1 /\ \A i \in 1..Len(q) + 1 : a[i] = Item(t, r[i])
    <2>1. a \in [1..Len(q) + 1 -> V]
      BY <1>2, <1>3 DEF Items
    <2>2. QED
      BY <1>2, <1>5, <2>1 DEF Items
  <1>8. b \in Seq(V) /\ Len(b) = Len(q) + 1 /\ b[Len(q) + 1] = Item(t, e) /\ \A i \in 1..Len(q) : b[i] = Item(t, q[i])
    BY <1>4, <1>6, AppendProperties
  <1> HIDE DEF a, b
  <1>9. Len(a) = Len(b) /\ \A i \in 1..Len(a) : a[i] = b[i]
    <2>1. ASSUME NEW i \in 1..Len(q) + 1
          PROVE  a[i] = b[i]
      <3>1. CASE i = Len(q) + 1
        BY <1>2, <1>5, <1>7, <1>8, <3>1
      <3>2. CASE i # Len(q) + 1
        <4>1. i \in 1..Len(q)
          BY <1>5, <3>2
        <4>2. QED
          BY <1>2, <1>7, <1>8, <4>1
      <3>3. QED
        BY <3>1, <3>2
    <2>2. QED
      BY <1>7, <1>8, <2>1
  <1>10. a = b
    BY <1>7, <1>8, <1>9, SeqEqual
  <1>11. FlattenSeq(Items(t, q)) \in V
    BY <1>4, <1>6, FlattenAppend DEF V
  <1>12. FlattenSeq(b) = FlattenSeq(Items(t, q)) \o Item(t, e)
    BY <1>4, <1>6, FlattenAppend DEF V, b
  <1>13. QED
    BY <1>10, <1>11, <1>12 DEF V, r, a

\* The frames a task has put in the queue.
LEMMA FramesItems == \A t : FramesFrom(t) = FlattenSeq(Items(t, events))
  BY DEF FramesFrom, Items, Item

\* What putting an event in the queue does to the frames of a task.
LEMMA PutFrames ==
  ASSUME events \in Seq(EventType), NEW e \in EventType, events' = Append(events, e), NEW t
  PROVE  FramesFrom(t) \in Seq(FrameType) /\ FramesFrom(t)' = FramesFrom(t) \o Item(t, e)
  <1>1. FramesFrom(t) = FlattenSeq(Items(t, events))
    BY FramesItems
  <1>2. FramesFrom(t)' = FlattenSeq(Items(t, events'))
    BY DEF FramesFrom, Items, Item
  <1>3. QED
    BY <1>1, <1>2, ItemsAppend

\* An event that is no frame of the task leaves its frames.
LEMMA PutOther ==
  ASSUME events \in Seq(EventType), NEW e \in EventType, events' = Append(events, e), NEW t,
         e.from # t \/ e.frame = <<>> \/ e = Ready
  PROVE  FramesFrom(t)' = FramesFrom(t)
  <1>2. Item(t, e) = <<>>
    <2>1. Ready.frame = << 0 >>
      BY DEF Ready
    <2>2. e.from # t \/ e.frame = <<>> \/ e.frame = << 0 >>
      BY <2>1
    <2>3. e.frame = << 0 >> \/ e.frame = <<>> => ~(Len(e.frame) >= Header)
      BY TooShort
    <2>4. QED
      BY <2>2, <2>3 DEF Item
  <1>3. QED
    BY <1>2, PutFrames, ConcatEmptySeq

\* A frame of the task comes behind its others.
LEMMA PutFrame ==
  ASSUME events \in Seq(EventType), NEW t \in Task, NEW f \in FrameType, events' = Append(events, Event(t, f))
  PROVE  FramesFrom(t) \in Seq(FrameType) /\ FramesFrom(t)' = FramesFrom(t) \o <<f>>
  <1> DEFINE e == Event(t, f)
  <1>1. e \in EventType /\ e.from = t /\ e.frame = f
    BY DEF EventType, Event, Task
  <1>2. Len(f) >= Header
    BY SizeAssumption DEF FrameType
  <1>3. Item(t, e) = <<f>>
    BY <1>1, <1>2 DEF Item
  <1> HIDE DEF e
  <1>4. events' = Append(events, e)
    BY DEF e
  <1>5. QED
    BY <1>1, <1>3, <1>4, PutFrames
-----------------------------------------------------------------------------
(* Where the two tasks are in their streams. *)

\* With stream w, k frames have been taken; fs are in the queue, d is what the
\* pipe has and gets, and what follows waits in the framer.
InputAt(k, w, in, d, fs) ==
  /\ k \in 0..FrameCount(w)
  /\ fs = FlattenSeq(First(Plain(w), k))
  /\ d = FlattenSeq(First(Bodies(w), k))
  /\ IF in.pc = "ended" THEN k = FrameCount(w) ELSE in.pending = Rest(w, k)
  /\ in.pc = "recv" => k = FrameCount(w) /\ ~Malformed(w)
  /\ in.pc # "write" => in.body = <<>>

InputCut == \E k \in Nat : InputAt(k, wire, input, (clear \o pipe) \o input.body, FramesFrom("usb"))

\* USBInput hands on a failure, or the next frame, or waits for more.
LEMMA InputDispatchCuts ==
  ASSUME events \in Seq(EventType), NEW w \in Seq(Cell), NEW d \in Seq(Cell),
         NEW k \in 0..FrameCount(w),
         FramesFrom("usb") = FlattenSeq(First(Plain(w), k)), d = FlattenSeq(First(Bodies(w), k)),
         InputDispatch(Rest(w, k))
  PROVE  \E m \in Nat : InputAt(m, w, input', d \o input'.body, FramesFrom("usb")')
  <1> DEFINE p == Rest(w, k)
             f == First(p, p[2])
  <1>1. p \in Seq(Cell) /\ k \in Nat /\ FrameCount(w) \in Nat
    BY StartIn, FramesTyped
  <1>2. /\ Whole(p) <=> k # FrameCount(w)
        /\ k = FrameCount(w) => (Invalid(p) <=> Malformed(w))
        /\ Invalid(p) => k = FrameCount(w)
    BY NoMore
  <1>3. d \o <<>> = d
    BY ConcatEmptySeq
  <1>4. ASSUME Whole(p)
        PROVE  /\ k + 1 \in 0..FrameCount(w) /\ k + 1 \in Nat /\ Rest(w, k + 1) = After(p, p[2])
               /\ FlattenSeq(First(Plain(w), k + 1)) = FramesFrom("usb") \o (IF IsTls(p) THEN <<>> ELSE <<f>>)
               /\ FlattenSeq(First(Bodies(w), k + 1)) = d \o (IF IsTls(p) THEN After(f, Header) ELSE <<>>)
    <2>1. k + 1 \in 1..FrameCount(w) /\ Rest(w, k + 1) = After(p, p[2])
      BY <1>4, Takes
    <2>2. /\ FlattenSeq(First(Plain(w), k + 1)) = FlattenSeq(First(Plain(w), k)) \o (IF IsTls(p) THEN <<>> ELSE <<f>>)
          /\ FlattenSeq(First(Bodies(w), k + 1)) =
               FlattenSeq(First(Bodies(w), k)) \o (IF IsTls(p) THEN After(f, Header) ELSE <<>>)
      BY <1>4, Adding
    <2> HIDE DEF p, f
    <2>3. QED
      BY <1>1, <2>1, <2>2
  <1>5. Whole(p) => f \in FrameType
    BY <1>1, WholeFrame
  <1> HIDE DEF p, f
  <1>6. CASE Invalid(p) /\ InputFails
    <2>1. input' = [pc |-> "ended", pending |-> <<>>, body |-> <<>>] /\ events' = Append(events, Failure("usb"))
      BY <1>6 DEF InputFails
    <2>2. Failure("usb") \in EventType /\ Failure("usb").frame = <<>>
      BY DEF EventType, Failure
    <2>3. FramesFrom("usb")' = FramesFrom("usb")
      BY <2>1, <2>2, PutOther
    <2>4. InputAt(k, w, input', d \o input'.body, FramesFrom("usb")')
      BY <1>1, <1>2, <1>3, <1>6, <2>1, <2>3 DEF InputAt
    <2>5. QED
      BY <1>1, <2>4
  <1>7. CASE /\ ~Invalid(p) /\ ~Whole(p)
             /\ input' = [pc |-> "recv", pending |-> p, body |-> <<>>]
             /\ UNCHANGED events
    <2>1. FramesFrom("usb")' = FramesFrom("usb")
      BY <1>7 DEF FramesFrom
    <2>2. InputAt(k, w, input', d \o input'.body, FramesFrom("usb")')
      BY <1>1, <1>2, <1>3, <1>7, <2>1 DEF InputAt, p
    <2>3. QED
      BY <1>1, <2>2
  <1>8. CASE /\ Whole(p) /\ ~IsTls(p)
             /\ input' = [pc |-> "dispatch", pending |-> After(p, p[2]), body |-> <<>>]
             /\ events' = Append(events, Event("usb", f))
    <2>1. FramesFrom("usb")' = FramesFrom("usb") \o <<f>>
      BY <1>5, <1>8, PutFrame DEF Task
    <2>2. InputAt(k + 1, w, input', d \o input'.body, FramesFrom("usb")')
      BY <1>3, <1>4, <1>8, <2>1 DEF InputAt
    <2>3. QED
      BY <1>4, <1>8, <2>2
  <1>9. CASE /\ Whole(p) /\ IsTls(p)
             /\ input' = [pc |-> "write", pending |-> After(p, p[2]), body |-> After(f, Header)]
             /\ UNCHANGED events
    <2>1. FramesFrom("usb")' = FramesFrom("usb")
      BY <1>9 DEF FramesFrom
    <2>2. FramesFrom("usb") \in Seq(FrameType)
      <3>1. Failure("usb") \in EventType
        BY DEF EventType
      <3>2. QED
        BY <3>1, ItemsAppend, FramesItems
    <2>3. FramesFrom("usb") \o <<>> = FramesFrom("usb")
      BY <2>2, ConcatEmptySeq
    <2>4. InputAt(k + 1, w, input', d \o input'.body, FramesFrom("usb")')
      BY <1>4, <1>9, <2>1, <2>3 DEF InputAt
    <2>5. QED
      BY <1>4, <1>9, <2>4
  <1>10. QED
    BY <1>6, <1>7, <1>8, <1>9 DEF InputDispatch, p, f

\* With stream w, k frames are in the queue and what follows waits in the framer.
ReaderAt(k, w, r, fs) ==
  /\ k \in 0..FrameCount(w)
  /\ fs = First(Frames(w), k)
  /\ IF r.pc = "ended" THEN k = FrameCount(w) ELSE r.pending = Rest(w, k)
  /\ r.pc \in {"accept", "read"} => k = FrameCount(w) /\ ~Malformed(w)

ReaderCut == \E k \in Nat : ReaderAt(k, clear, tls, FramesFrom("tls"))

\* TLSEventReader hands on a failure, or the next frame, or waits for more.
LEMMA ReaderDispatchCuts ==
  ASSUME events \in Seq(EventType), NEW w \in Seq(Cell), NEW k \in 0..FrameCount(w),
         FramesFrom("tls") = First(Frames(w), k),
         ReaderDispatch(Rest(w, k))
  PROVE  \E m \in Nat : ReaderAt(m, w, tls', FramesFrom("tls")')
  <1> DEFINE p == Rest(w, k)
             f == First(p, p[2])
  <1>1. p \in Seq(Cell) /\ k \in Nat /\ FrameCount(w) \in Nat
    BY StartIn, FramesTyped
  <1>2. /\ Whole(p) <=> k # FrameCount(w)
        /\ k = FrameCount(w) => (Invalid(p) <=> Malformed(w))
        /\ Invalid(p) => k = FrameCount(w)
    BY NoMore
  <1>3. ASSUME Whole(p)
        PROVE  /\ k + 1 \in 0..FrameCount(w) /\ k + 1 \in Nat /\ Rest(w, k + 1) = After(p, p[2])
               /\ First(Frames(w), k + 1) = Append(First(Frames(w), k), f)
    <2>1. k + 1 \in 1..FrameCount(w) /\ Rest(w, k + 1) = After(p, p[2])
      BY <1>3, Takes
    <2>2. First(Frames(w), k + 1) = Append(First(Frames(w), k), f)
      BY <1>3, Adding
    <2> HIDE DEF p, f
    <2>3. QED
      BY <1>1, <2>1, <2>2
  <1>4. Whole(p) => f \in FrameType
    BY <1>1, WholeFrame
  <1> HIDE DEF p, f
  <1>5. CASE Invalid(p) /\ ReaderFails
    <2>1. tls' = [pc |-> "ended", pending |-> <<>>] /\ events' = Append(events, Failure("tls"))
      BY <1>5 DEF ReaderFails
    <2>2. Failure("tls") \in EventType /\ Failure("tls").frame = <<>>
      BY DEF EventType, Failure
    <2>3. FramesFrom("tls")' = FramesFrom("tls")
      BY <2>1, <2>2, PutOther
    <2>4. ReaderAt(k, w, tls', FramesFrom("tls")')
      BY <1>1, <1>2, <1>5, <2>1, <2>3 DEF ReaderAt
    <2>5. QED
      BY <1>1, <2>4
  <1>6. CASE ~Invalid(p) /\ ~Whole(p) /\ tls' = [pc |-> "read", pending |-> p] /\ UNCHANGED events
    <2>1. FramesFrom("tls")' = FramesFrom("tls")
      BY <1>6 DEF FramesFrom
    <2>2. ReaderAt(k, w, tls', FramesFrom("tls")')
      BY <1>1, <1>2, <1>6, <2>1 DEF ReaderAt, p
    <2>3. QED
      BY <1>1, <2>2
  <1>7. CASE /\ Whole(p)
             /\ tls' = [pc |-> "dispatch", pending |-> After(p, p[2])]
             /\ events' = Append(events, Event("tls", f))
    <2>1. FramesFrom("tls") \in Seq(FrameType) /\ FramesFrom("tls")' = FramesFrom("tls") \o <<f>>
      BY <1>4, <1>7, PutFrame DEF Task
    <2>2. FramesFrom("tls") \o <<f>> = Append(FramesFrom("tls"), f)
      BY <1>4, <1>7, <2>1, AppendIsConcat
    <2>3. ReaderAt(k + 1, w, tls', FramesFrom("tls")')
      BY <1>3, <1>7, <2>1, <2>2 DEF ReaderAt
    <2>4. QED
      BY <1>3, <1>7, <2>3
  <1>8. QED
    BY <1>5, <1>6, <1>7 DEF ReaderDispatch, p, f

\* What both tasks have done is the frames of a part of their streams.
CutInv == InputCut /\ ReaderCut

\* What one task puts in the queue is no frame of the other.
LEMMA InputPuts ==
  ASSUME events \in Seq(EventType),
         InputFails \/ \E p \in Seq(Cell) : InputDispatch(p)
  PROVE  FramesFrom("tls")' = FramesFrom("tls")
  <1>1. CASE InputFails
    <2>1. Failure("usb") \in EventType /\ Failure("usb").from # "tls"
      BY DEF EventType, Failure
    <2>2. QED
      BY <1>1, <2>1, PutOther DEF InputFails
  <1>2. ASSUME NEW p \in Seq(Cell), InputDispatch(p), ~InputFails
        PROVE  FramesFrom("tls")' = FramesFrom("tls")
    <2> DEFINE e == Event("usb", First(p, p[2]))
    <2>1. CASE UNCHANGED events
      BY <2>1 DEF FramesFrom
    <2>2. CASE Whole(p) /\ events' = Append(events, e)
      <3>1. e \in EventType /\ e.from # "tls"
        BY <2>2, WholeFrame DEF EventType, Event
      <3> HIDE DEF e
      <3>2. QED
        BY <2>2, <3>1, PutOther
    <2>3. QED
      BY <1>2, <2>1, <2>2 DEF InputDispatch
  <1>3. QED
    BY <1>1, <1>2

LEMMA ReaderPuts ==
  ASSUME events \in Seq(EventType),
         ReaderFails \/ \E p \in Seq(Cell) : ReaderDispatch(p)
  PROVE  FramesFrom("usb")' = FramesFrom("usb")
  <1>1. CASE ReaderFails
    <2>1. Failure("tls") \in EventType /\ Failure("tls").from # "usb"
      BY DEF EventType, Failure
    <2>2. QED
      BY <1>1, <2>1, PutOther DEF ReaderFails
  <1>2. ASSUME NEW p \in Seq(Cell), ReaderDispatch(p), ~ReaderFails
        PROVE  FramesFrom("usb")' = FramesFrom("usb")
    <2> DEFINE e == Event("tls", First(p, p[2]))
    <2>1. CASE UNCHANGED events
      BY <2>1 DEF FramesFrom
    <2>2. CASE Whole(p) /\ events' = Append(events, e)
      <3>1. e \in EventType /\ e.from # "usb"
        BY <2>2, WholeFrame DEF EventType, Event
      <3> HIDE DEF e
      <3>2. QED
        BY <2>2, <3>1, PutOther
    <2>3. QED
      BY <1>2, <2>1, <2>2 DEF ReaderDispatch
  <1>3. QED
    BY <1>1, <1>2

\* The two parts of a sequence make it up.
LEMMA Joined ==
  ASSUME NEW s \in Seq(Cell), NEW n \in 0..Len(s)
  PROVE  First(s, n) \o After(s, n) = s
  <1> DEFINE a == First(s, n)
             b == After(s, n)
             r == a \o b
  <1>1. Len(s) \in Nat /\ n \in Nat /\ n + 1 \in 1..Len(s) + 1 /\ (n + 1) - 1 = n /\ \A i \in 1..n : s[i] \in Cell
    OBVIOUS
  <1>2. a \in Seq(Cell) /\ Len(a) = n /\ \A i \in 1..n : a[i] = s[i]
    BY <1>1, SubSeqProperties DEF First
  <1>3. b \in Seq(Cell) /\ Len(b) = Len(s) - (n + 1) + 1 /\ \A j \in 1..Len(s) - (n + 1) + 1 : b[j] = s[(n + 1) + j - 1]
    BY <1>1, AfterIs
  <1> HIDE DEF a, b
  <1>4. r \in Seq(Cell) /\ Len(r) = Len(s) /\ \A i \in 1..Len(s) : r[i] = IF i <= n THEN a[i] ELSE b[i - n]
    <2>1. /\ r \in Seq(Cell) /\ Len(r) = Len(a) + Len(b)
          /\ \A i \in 1..Len(a) + Len(b) : r[i] = IF i <= Len(a) THEN a[i] ELSE b[i - Len(a)]
      BY <1>2, <1>3, ConcatProperties
    <2>2. Len(a) + Len(b) = Len(s)
      BY <1>1, <1>2, <1>3
    <2>3. QED
      BY <1>2, <2>1, <2>2
  <1> HIDE DEF r
  <1>5. ASSUME NEW i \in 1..Len(r)
        PROVE  r[i] = s[i]
    <2>1. CASE i <= n
      BY <1>1, <1>2, <1>4, <2>1
    <2>2. CASE ~(i <= n)
      <3>1. i - n \in 1..Len(s) - (n + 1) + 1 /\ (n + 1) + (i - n) - 1 = i /\ i \in 1..Len(s)
        BY <1>1, <1>4, <2>2
      <3>2. r[i] = b[i - n]
        BY <1>4, <2>2, <3>1
      <3>3. b[i - n] = s[(n + 1) + (i - n) - 1]
        BY <1>3, <3>1
      <3>4. QED
        BY <3>1, <3>2, <3>3
    <2>3. QED
      BY <2>1, <2>2
  <1>6. r = s
    BY <1>4, <1>5, SeqEqual
  <1>7. QED
    BY <1>6 DEF r, a, b

\* Cells put one behind the other.
LEMMA Regroup ==
  ASSUME NEW s \in Seq(Cell), NEW t \in Seq(Cell), NEW u \in Seq(Cell)
  PROVE  (s \o t) \o u = s \o (t \o u)
  BY ConcatAssociative

\* What a step of USBInput puts in the queue, and leaves to the other task.
LEMMA InputHands ==
  ASSUME IInv, InputReceive \/ InputNext \/ InputWrite \/ BulkFails
  PROVE  /\ UNCHANGED <<tls, clear>>
         /\ UNCHANGED events \/ InputFails \/ \E p \in Seq(Cell) : InputDispatch(p)
  <1>1. wire \in Seq(Cell) /\ input.pending \in Seq(Cell)
    BY DEF IInv, TypeOK
  <1>2. CASE InputReceive
    <2>1. PICK n \in 1..Least(MaxRead, MaxWire - Len(wire)) : \E cells \in [1..n -> Cell] :
            /\ wire' = wire \o cells
            /\ IF Overflows(input.pending, cells) THEN InputFails ELSE InputDispatch(input.pending \o cells)
      BY <1>2 DEF InputReceive
    <2>2. PICK cells \in [1..n -> Cell] :
            /\ wire' = wire \o cells
            /\ IF Overflows(input.pending, cells) THEN InputFails ELSE InputDispatch(input.pending \o cells)
      BY <2>1
    <2>3. n \in Nat
      BY <1>1, <2>1, SizeAssumption, WireBound DEF Least
    <2>4. cells \in Seq(Cell)
      BY <2>3
    <2>5. input.pending \o cells \in Seq(Cell)
      BY <1>1, <2>4, ConcatProperties
    <2>6. UNCHANGED <<tls, clear>>
      BY <1>2 DEF InputReceive
    <2>7. QED
      BY <2>2, <2>5, <2>6
  <1>3. CASE InputNext
    BY <1>1, <1>3 DEF InputNext
  <1>4. CASE InputWrite
    BY <1>1, <1>4 DEF InputWrite
  <1>5. CASE BulkFails
    BY <1>5 DEF BulkFails
  <1>6. QED
    BY <1>2, <1>3, <1>4, <1>5

\* What a step of TLSEventReader puts in the queue, and leaves to the other task.
LEMMA ReaderHands ==
  ASSUME IInv, ReaderReceive \/ ReaderNext \/ TlsFails
  PROVE  /\ UNCHANGED <<input, wire>> /\ clear' \o pipe' = clear \o pipe
         /\ ReaderFails \/ (tls.pc \in {"read", "dispatch"} /\ \E p \in Seq(Cell) : ReaderDispatch(p))
  <1>1. clear \in Seq(Cell) /\ pipe \in Seq(Cell) /\ tls.pending \in Seq(Cell)
    BY DEF IInv, TypeOK
  <1>2. CASE ReaderReceive
    <2>1. PICK n \in 1..Least(MaxRead, Len(pipe)) :
            /\ pipe' = After(pipe, n) /\ clear' = clear \o First(pipe, n)
            /\ IF Overflows(tls.pending, First(pipe, n)) THEN ReaderFails
                                                         ELSE ReaderDispatch(tls.pending \o First(pipe, n))
      BY <1>2 DEF ReaderReceive
    <2>2. n \in 0..Len(pipe)
      <3>1. Least(MaxRead, Len(pipe)) \in 0..Len(pipe)
        BY <1>1, LeastBound
      <3>2. QED
        BY <3>1
    <2>3. First(pipe, n) \in Seq(Cell) /\ After(pipe, n) \in Seq(Cell) /\ First(pipe, n) \o After(pipe, n) = pipe
      BY <1>1, <2>2, Cut, Joined
    <2>4. clear' \o pipe' = clear \o pipe
      <3>1. (clear \o First(pipe, n)) \o After(pipe, n) = clear \o (First(pipe, n) \o After(pipe, n))
        <4>1. clear \in Seq(Cell) /\ First(pipe, n) \in Seq(Cell) /\ After(pipe, n) \in Seq(Cell)
          BY <1>1, <2>3
        <4>2. QED
          BY <4>1, Regroup
      <3>2. QED
        BY <2>1, <2>3, <3>1
    <2>5. tls.pending \o First(pipe, n) \in Seq(Cell)
      BY <1>1, <2>3, ConcatProperties
    <2>6. tls.pc = "read" /\ UNCHANGED <<input, wire>>
      BY <1>2 DEF ReaderReceive
    <2>7. QED
      BY <2>1, <2>4, <2>5, <2>6
  <1>3. CASE ReaderNext
    BY <1>1, <1>3 DEF ReaderNext
  <1>4. CASE TlsFails
    BY <1>4 DEF TlsFails
  <1>5. QED
    BY <1>2, <1>3, <1>4

\* The streams of a new session have no frames.
LEMMA NoFrames ==
  ASSUME events = <<>>
  PROVE  /\ FrameCount(<<>>) = 0 /\ Rest(<<>>, 0) = <<>> /\ ~Malformed(<<>>)
         /\ \A w : /\ First(Frames(w), 0) = <<>>
                   /\ FlattenSeq(First(Plain(w), 0)) = <<>> /\ FlattenSeq(First(Bodies(w), 0)) = <<>>
         /\ \A t : FramesFrom(t) = <<>>
  <1>1. <<>> \in Seq(Cell) /\ Len(<<>>) = 0
    OBVIOUS
  <1>2. FrameCount(<<>>) = 0
    <2>1. FrameCount(<<>>) \in 0..Len(<<>>)
      BY <1>1, CountIs DEF Counts
    <2>2. QED
      BY <1>1, <2>1
  <1>3. Starts(<<>>)[0] = 1
    BY <1>1, StartsFollow
  <1>4. Rest(<<>>, 0) = <<>>
    BY <1>3 DEF Rest, After
  <1>5. ~Malformed(<<>>)
    BY <1>1, <1>2, <1>3, SizeAssumption DEF Malformed
  <1>6. \A s : First(s, 0) = <<>>
    BY DEF First
  <1>7. FlattenSeq(<<>>) = <<>>
    BY <1>1 DEF FlattenSeq
  <1>8. ASSUME NEW t
        PROVE  FramesFrom(t) = <<>>
    <2>1. Items(t, events) \in [1..0 -> {}]
      BY <1>1 DEF Items
    <2>2. Items(t, events) = <<>>
      BY <2>1
    <2>3. QED
      BY <1>7, <2>2, FramesItems
  <1>9. QED
    BY <1>2, <1>4, <1>5, <1>6, <1>7, <1>8

\* spawn() starts at the first frame.
LEMMA InitCut == Init => CutInv
  <1> SUFFICES ASSUME Init PROVE CutInv
    OBVIOUS
  <1>1. /\ wire = <<>> /\ clear = <<>> /\ pipe = <<>> /\ events = <<>>
        /\ input = [pc |-> "recv", pending |-> <<>>, body |-> <<>>] /\ tls = [pc |-> "accept", pending |-> <<>>]
    BY DEF Init
  <1>2. <<>> \o <<>> = <<>>
    OBVIOUS
  <1>3. 0 \in Nat /\ 0 \in 0..0
    OBVIOUS
  <1>4. InputAt(0, wire, input, (clear \o pipe) \o input.body, FramesFrom("usb"))
    BY <1>1, <1>2, <1>3, NoFrames DEF InputAt
  <1>5. ReaderAt(0, clear, tls, FramesFrom("tls"))
    BY <1>1, <1>3, NoFrames DEF ReaderAt
  <1>6. QED
    BY <1>3, <1>4, <1>5 DEF CutInv, InputCut, ReaderCut

\* A packet that leaves room in the framer is taken.
LEMMA TakesPacket ==
  ASSUME NEW p \in Seq(Cell), NEW c \in Seq(Cell), Len(c) <= MaxRead, Len(p) + MaxRead <= 2 * Maximum
  PROVE  ~Overflows(p, c)
  <1> DEFINE l == Len(p)
             m == Len(c)
  <1>1. l \in Nat /\ m \in Nat /\ m <= MaxRead /\ l + MaxRead <= 2 * Maximum
    OBVIOUS
  <1> HIDE DEF l, m
  <1>2. MaxRead \in Nat /\ Maximum \in Nat
    BY SizeAssumption
  <1>3. ~(m > 2 * Maximum - l)
    BY <1>1, <1>2
  <1>4. QED
    BY <1>3 DEF Overflows, l, m

\* USBInput hands on the frames of its stream, and the bodies of the others.
LEMMA InputCutNext ==
  ASSUME IInv, IInv', CutInv, [Next]_vars
  PROVE  InputCut'
  <1>1. PICK k \in Nat : InputAt(k, wire, input, (clear \o pipe) \o input.body, FramesFrom("usb"))
    BY DEF CutInv, InputCut
  <1>2. /\ events \in Seq(EventType) /\ wire \in Seq(Cell) /\ clear \in Seq(Cell) /\ pipe \in Seq(Cell)
        /\ input.pending \in Seq(Cell) /\ input.body \in Seq(Cell) /\ tls.pending \in Seq(Cell)
        /\ input \in InputType
    BY DEF IInv, TypeOK, InputType
  <1>3. wire' \in Seq(Cell) /\ clear' \in Seq(Cell) /\ pipe' \in Seq(Cell) /\ events' \in Seq(EventType)
    BY DEF IInv, TypeOK
  <1>4. clear \o pipe \in Seq(Cell) /\ (clear \o pipe) \o <<>> = clear \o pipe
    BY <1>2, ConcatProperties, ConcatEmptySeq
  <1>5. k \in 0..FrameCount(wire) /\ FrameCount(wire) \in Nat
    BY <1>1, <1>2, FramesTyped DEF InputAt
  \* The next frame of w, when d is what the pipe has had.
  <1>6. ASSUME NEW w \in Seq(Cell), NEW d \in Seq(Cell), w = wire', d = clear' \o pipe',
               k \in 0..FrameCount(w),
               FramesFrom("usb") = FlattenSeq(First(Plain(w), k)), d = FlattenSeq(First(Bodies(w), k)),
               InputDispatch(Rest(w, k))
        PROVE  InputCut'
    <2>1. \E m \in Nat : InputAt(m, w, input', d \o input'.body, FramesFrom("usb")')
      BY <1>2, <1>6, InputDispatchCuts
    <2>2. QED
      BY <1>6, <2>1 DEF InputCut
  <1>7. CASE InputReceive
    <2>1. PICK n \in 1..Least(MaxRead, MaxWire - Len(wire)) : \E cells \in [1..n -> Cell] :
            /\ wire' = wire \o cells
            /\ IF Overflows(input.pending, cells) THEN InputFails ELSE InputDispatch(input.pending \o cells)
      BY <1>7 DEF InputReceive
    <2>2. PICK cells \in [1..n -> Cell] :
            /\ wire' = wire \o cells
            /\ IF Overflows(input.pending, cells) THEN InputFails ELSE InputDispatch(input.pending \o cells)
      BY <2>1
    <2>3. n \in Nat /\ n <= MaxRead
      BY <1>2, <2>1, SizeAssumption, WireBound DEF Least
    <2>4. cells \in Seq(Cell) /\ Len(cells) = n
      BY <2>3
    <2>5. input.pc = "recv" /\ UNCHANGED <<pipe, tls, clear>>
      BY <1>7 DEF InputReceive
    <2>6. Len(input.pending) + MaxRead <= 2 * Maximum
      BY <2>5 DEF IInv, RoomToRead
    <2>7. ~Overflows(input.pending, cells)
      BY <1>2, <2>3, <2>4, <2>6, TakesPacket
    <2>8. input.pending = Rest(wire, k) /\ input.body = <<>>
      BY <1>1, <2>5 DEF InputAt
    <2> DEFINE w == wire \o cells
    <2>9. w \in Seq(Cell) /\ w = wire'
      BY <1>2, <2>2, <2>4, ConcatProperties
    <2>10. Rest(w, k) = input.pending \o cells
      <3>1. Rest(wire \o cells, k) = Rest(wire, k) \o cells
        BY <1>2, <1>5, <2>4, RestGrows
      <3>2. QED
        BY <2>8, <3>1
    <2>11. /\ k \in 0..FrameCount(w)
           /\ First(Plain(w), k) = First(Plain(wire), k)
           /\ First(Bodies(w), k) = First(Bodies(wire), k)
      BY <1>2, <1>5, <2>4, Stable
    <2> HIDE DEF w
    <2>12. FramesFrom("usb") = FlattenSeq(First(Plain(w), k)) /\ clear \o pipe = FlattenSeq(First(Bodies(w), k))
      BY <1>1, <1>4, <2>8, <2>11 DEF InputAt
    <2>13. InputDispatch(Rest(w, k))
      BY <2>2, <2>7, <2>10
    <2>14. QED
      BY <1>4, <1>6, <2>5, <2>9, <2>11, <2>12, <2>13
  <1>8. CASE InputNext
    <2>1. input.pc = "dispatch" /\ InputDispatch(input.pending) /\ UNCHANGED <<pipe, tls, wire, clear>>
      BY <1>8 DEF InputNext
    <2>2. input.pending = Rest(wire, k) /\ input.body = <<>>
      BY <1>1, <2>1 DEF InputAt
    <2>3. FramesFrom("usb") = FlattenSeq(First(Plain(wire), k)) /\ clear \o pipe = FlattenSeq(First(Bodies(wire), k))
      BY <1>1, <1>4, <2>2 DEF InputAt
    <2>4. QED
      BY <1>2, <1>4, <1>5, <1>6, <2>1, <2>2, <2>3
  <1>9. CASE InputWrite
    <2> DEFINE n == Least(MaxRead, Len(input.body))
               a == First(input.body, n)
               b == After(input.body, n)
    <2>1. /\ input.pc = "write" /\ pipe' = pipe \o a
          /\ IF n < Len(input.body)
                THEN input' = [input EXCEPT !.body = b] /\ UNCHANGED events
                ELSE InputDispatch(input.pending)
          /\ UNCHANGED <<tls, wire, clear>>
      BY <1>9 DEF InputWrite
    <2>2. n \in 0..Len(input.body)
      BY <1>2, LeastBound
    <2> HIDE DEF n
    <2>3. a \in Seq(Cell) /\ b \in Seq(Cell) /\ a \o b = input.body
      BY <1>2, <2>2, Cut, Joined
    <2>4. n = Len(input.body) => a = input.body
      BY <1>2, SubSeqFull DEF First
    <2> HIDE DEF a, b
    <2>5. clear' \o pipe' = (clear \o pipe) \o a
      <3>1. (clear \o pipe) \o a = clear \o (pipe \o a)
        <4>1. clear \in Seq(Cell) /\ pipe \in Seq(Cell) /\ a \in Seq(Cell)
          BY <1>2, <2>3
        <4>2. QED
          BY <4>1, Regroup
      <3>2. clear' = clear /\ pipe' = pipe \o a
        BY <2>1
      <3>3. QED
        BY <3>1, <3>2
    <2>6. input.pending = Rest(wire, k)
      BY <1>1, <2>1 DEF InputAt
    <2>7. CASE n < Len(input.body)
      <3>1. input' = [input EXCEPT !.body = b] /\ UNCHANGED events
        BY <2>1, <2>7
      <3>2. input'.pc = "write" /\ input'.pending = input.pending /\ input'.body = b
        BY <1>2, <2>1, <3>1 DEF InputType
      <3>3. (clear' \o pipe') \o b = (clear \o pipe) \o input.body
        <4>1. clear \o pipe \in Seq(Cell) /\ a \in Seq(Cell) /\ b \in Seq(Cell)
          BY <1>4, <2>3
        <4>2. ((clear \o pipe) \o a) \o b = (clear \o pipe) \o (a \o b)
          BY <4>1, Regroup
        <4>3. QED
          BY <2>3, <2>5, <4>2
      <3>4. FramesFrom("usb")' = FramesFrom("usb")
        BY <3>1 DEF FramesFrom
      <3>5. InputAt(k, wire', input', (clear' \o pipe') \o input'.body, FramesFrom("usb")')
        BY <1>1, <2>1, <2>6, <3>2, <3>3, <3>4 DEF InputAt
      <3>6. QED
        BY <3>5 DEF InputCut
    <2>8. CASE ~(n < Len(input.body))
      <3>1. n = Len(input.body)
        BY <1>2, <2>2, <2>8
      <3>2. clear' \o pipe' = (clear \o pipe) \o input.body
        BY <2>4, <2>5, <3>1
      <3>3. clear' \o pipe' \in Seq(Cell)
        BY <1>3, ConcatProperties
      <3>4. FramesFrom("usb") = FlattenSeq(First(Plain(wire), k)) /\ clear' \o pipe' = FlattenSeq(First(Bodies(wire), k))
        BY <1>1, <3>2 DEF InputAt
      <3>5. InputDispatch(Rest(wire, k))
        BY <2>1, <2>6, <2>8
      <3>6. QED
        BY <1>2, <1>5, <1>6, <2>1, <3>3, <3>4, <3>5
    <2>9. QED
      BY <2>7, <2>8
  <1>10. CASE BulkFails
    <2>1. /\ input.pc = "recv" /\ input' = [pc |-> "ended", pending |-> <<>>, body |-> <<>>]
          /\ events' = Append(events, Failure("usb")) /\ UNCHANGED <<pipe, tls, wire, clear>>
      BY <1>10 DEF BulkFails, InputFails
    <2>2. Failure("usb") \in EventType /\ Failure("usb").frame = <<>>
      BY DEF EventType, Failure
    <2>3. FramesFrom("usb")' = FramesFrom("usb")
      BY <1>2, <2>1, <2>2, PutOther
    <2>4. input.body = <<>> /\ k = FrameCount(wire)
      BY <1>1, <2>1 DEF InputAt
    <2>5. InputAt(k, wire', input', (clear' \o pipe') \o input'.body, FramesFrom("usb")')
      BY <1>1, <2>1, <2>3, <2>4 DEF InputAt
    <2>6. QED
      BY <2>5 DEF InputCut
  \* The other task leaves what it has had and will get.
  <1>11. ASSUME UNCHANGED <<input, wire>>, clear' \o pipe' = clear \o pipe, FramesFrom("usb")' = FramesFrom("usb")
         PROVE  InputCut'
    <2>1. InputAt(k, wire', input', (clear' \o pipe') \o input'.body, FramesFrom("usb")')
      BY <1>1, <1>11
    <2>2. QED
      BY <2>1 DEF InputCut
  <1>12. CASE ReaderAccept
    <2>1. events' = Append(events, Ready) /\ UNCHANGED <<input, pipe, wire, clear>>
      BY <1>12 DEF ReaderAccept
    <2>2. Ready \in EventType
      BY DEF EventType
    <2>3. FramesFrom("usb")' = FramesFrom("usb")
      BY <1>2, <2>1, <2>2, PutOther
    <2>4. QED
      BY <1>11, <2>1, <2>3
  <1>13. CASE ReaderReceive \/ ReaderNext \/ TlsFails
    <2>1. FramesFrom("usb")' = FramesFrom("usb")
      BY <1>2, <1>13, ReaderHands, ReaderPuts
    <2>2. QED
      BY <1>11, <1>13, <2>1, ReaderHands
  <1>14. CASE Respawn
    <2>1. Init'
      BY <1>14 DEF Respawn, Init
    <2>2. QED
      BY <2>1, InitCut, PTL DEF CutInv
  <1>15. CASE UNCHANGED vars
    <2>1. FramesFrom("usb")' = FramesFrom("usb")
      BY <1>15 DEF vars, FramesFrom
    <2>2. QED
      BY <1>11, <1>15, <2>1 DEF vars
  <1>16. QED
    BY <1>7, <1>8, <1>9, <1>10, <1>12, <1>13, <1>14, <1>15 DEF Next

\* TLSEventReader hands on the frames of the plain text.
LEMMA ReaderCutNext ==
  ASSUME IInv, IInv', CutInv, [Next]_vars
  PROVE  ReaderCut'
  <1>1. PICK k \in Nat : ReaderAt(k, clear, tls, FramesFrom("tls"))
    BY DEF CutInv, ReaderCut
  <1>2. /\ events \in Seq(EventType) /\ wire \in Seq(Cell) /\ clear \in Seq(Cell) /\ pipe \in Seq(Cell)
        /\ input.pending \in Seq(Cell) /\ input.body \in Seq(Cell) /\ tls.pending \in Seq(Cell)
        /\ tls \in ReaderType
    BY DEF IInv, TypeOK, ReaderType
  <1>3. k \in 0..FrameCount(clear) /\ FrameCount(clear) \in Nat
    BY <1>1, <1>2, FramesTyped DEF ReaderAt
  \* The other task leaves where this one is.
  <1>4. ASSUME UNCHANGED <<tls, clear>>, FramesFrom("tls")' = FramesFrom("tls")
        PROVE  ReaderCut'
    <2>1. ReaderAt(k, clear', tls', FramesFrom("tls")')
      BY <1>1, <1>4
    <2>2. QED
      BY <2>1 DEF ReaderCut
  <1>5. CASE InputReceive \/ InputNext \/ InputWrite \/ BulkFails
    <2>1. UNCHANGED events => FramesFrom("tls")' = FramesFrom("tls")
      BY DEF FramesFrom
    <2>2. QED
      BY <1>2, <1>4, <1>5, <2>1, InputHands, InputPuts
  <1>6. CASE ReaderAccept
    <2>1. /\ tls.pc = "accept" /\ tls' = [tls EXCEPT !.pc = "read"]
          /\ events' = Append(events, Ready) /\ UNCHANGED <<input, pipe, wire, clear>>
      BY <1>6 DEF ReaderAccept
    <2>2. Ready \in EventType
      BY DEF EventType
    <2>3. FramesFrom("tls")' = FramesFrom("tls")
      BY <1>2, <2>1, <2>2, PutOther
    <2>4. tls'.pc = "read" /\ tls'.pending = tls.pending
      BY <1>2, <2>1 DEF ReaderType
    <2>5. ReaderAt(k, clear', tls', FramesFrom("tls")')
      BY <1>1, <2>1, <2>3, <2>4 DEF ReaderAt
    <2>6. QED
      BY <2>5 DEF ReaderCut
  <1>7. CASE ReaderReceive
    <2>1. PICK n \in 1..Least(MaxRead, Len(pipe)) :
            /\ pipe' = After(pipe, n) /\ clear' = clear \o First(pipe, n)
            /\ IF Overflows(tls.pending, First(pipe, n)) THEN ReaderFails
                                                         ELSE ReaderDispatch(tls.pending \o First(pipe, n))
      BY <1>7 DEF ReaderReceive
    <2>2. tls.pc = "read"
      BY <1>7 DEF ReaderReceive
    <2>3. n \in 0..Len(pipe) /\ n <= MaxRead
      <3>1. Least(MaxRead, Len(pipe)) \in 0..Len(pipe) /\ Least(MaxRead, Len(pipe)) <= MaxRead
        BY <1>2, LeastBound, SizeAssumption DEF Least
      <3>2. QED
        BY <3>1, SizeAssumption
    <2> DEFINE c == First(pipe, n)
    <2>4. c \in Seq(Cell) /\ Len(c) <= MaxRead
      BY <1>2, <2>3, Cut
    <2> HIDE DEF c
    <2>5. Len(tls.pending) + MaxRead <= 2 * Maximum
      BY <2>2 DEF IInv, RoomToRead
    <2>6. ReaderDispatch(tls.pending \o c)
      BY <1>2, <2>1, <2>4, <2>5, TakesPacket DEF c
    <2>7. tls.pending = Rest(clear, k)
      BY <1>1, <2>2 DEF ReaderAt
    <2> DEFINE w == clear \o c
    <2>8. w \in Seq(Cell) /\ w = clear'
      BY <1>2, <2>1, <2>4, ConcatProperties DEF c
    <2>9. Rest(w, k) = tls.pending \o c
      <3>1. Rest(clear \o c, k) = Rest(clear, k) \o c
        BY <1>2, <1>3, <2>4, RestGrows
      <3>2. QED
        BY <2>7, <3>1
    <2>10. k \in 0..FrameCount(w) /\ First(Frames(w), k) = First(Frames(clear), k)
      BY <1>2, <1>3, <2>4, Stable
    <2> HIDE DEF w
    <2>11. FramesFrom("tls") = First(Frames(w), k)
      BY <1>1, <2>10 DEF ReaderAt
    <2>12. ReaderDispatch(Rest(w, k))
      BY <2>6, <2>9
    <2>13. \E m \in Nat : ReaderAt(m, w, tls', FramesFrom("tls")')
      BY <1>2, <2>8, <2>10, <2>11, <2>12, ReaderDispatchCuts
    <2>14. QED
      BY <2>8, <2>13 DEF ReaderCut
  <1>8. CASE ReaderNext
    <2>1. tls.pc = "dispatch" /\ ReaderDispatch(tls.pending) /\ UNCHANGED <<input, pipe, wire, clear>>
      BY <1>8 DEF ReaderNext
    <2>2. tls.pending = Rest(clear, k) /\ FramesFrom("tls") = First(Frames(clear), k)
      BY <1>1, <2>1 DEF ReaderAt
    <2>3. \E m \in Nat : ReaderAt(m, clear, tls', FramesFrom("tls")')
      BY <1>2, <1>3, <2>1, <2>2, ReaderDispatchCuts
    <2>4. QED
      BY <2>1, <2>3 DEF ReaderCut
  <1>9. CASE TlsFails
    <2>1. /\ tls.pc \in {"accept", "read"} /\ tls' = [pc |-> "ended", pending |-> <<>>]
          /\ events' = Append(events, Failure("tls")) /\ UNCHANGED <<input, pipe, wire, clear>>
      BY <1>9 DEF TlsFails, ReaderFails
    <2>2. Failure("tls") \in EventType /\ Failure("tls").frame = <<>>
      BY DEF EventType, Failure
    <2>3. FramesFrom("tls")' = FramesFrom("tls")
      BY <1>2, <2>1, <2>2, PutOther
    <2>4. ReaderAt(k, clear', tls', FramesFrom("tls")')
      BY <1>1, <2>1, <2>3 DEF ReaderAt
    <2>5. QED
      BY <2>4 DEF ReaderCut
  <1>10. CASE Respawn
    <2>1. Init'
      BY <1>10 DEF Respawn, Init
    <2>2. QED
      BY <2>1, InitCut, PTL DEF CutInv
  <1>11. CASE UNCHANGED vars
    <2>1. FramesFrom("tls")' = FramesFrom("tls")
      BY <1>11 DEF vars, FramesFrom
    <2>2. QED
      BY <1>4, <1>11, <2>1 DEF vars
  <1>12. QED
    BY <1>5, <1>6, <1>7, <1>8, <1>9, <1>10, <1>11 DEF Next

\* Both parts.
LEMMA CutNext == IInv /\ IInv' /\ CutInv /\ [Next]_vars => CutInv'
  BY InputCutNext, ReaderCutNext DEF CutInv
-----------------------------------------------------------------------------
(* TLS_Ready. *)

\* A frame of TLSEventReader in the queue.
ReadFrame(e) == e.from = "tls" /\ Len(e.frame) >= Header

ReadyPut   == \E j \in DOMAIN events : events[j] = Ready
ReadyFirst == \A i \in DOMAIN events : ReadFrame(events[i]) => \E j \in 1..i - 1 : events[j] = Ready

\* The reader reads after it has accepted.
ReadyInv == /\ tls.pc \in {"read", "dispatch"} => ReadyPut
            /\ ReadyFirst

\* An event more in the queue.
LEMMA ReadyStays ==
  ASSUME events \in Seq(EventType), ReadyFirst, NEW e \in EventType, events' = Append(events, e),
         ReadFrame(e) => ReadyPut
  PROVE  ReadyFirst' /\ (ReadyPut => ReadyPut') /\ (e = Ready => ReadyPut')
  <1> DEFINE n == Len(events)
  <1>1. n \in Nat /\ DOMAIN events = 1..n /\ DOMAIN events' = 1..n + 1
    BY AppendProperties
  <1>2. events'[n + 1] = e /\ \A i \in 1..n : events'[i] = events[i]
    BY AppendProperties
  <1> HIDE DEF n
  <1>3. ReadyPut => \E j \in 1..n : events'[j] = Ready
    BY <1>1, <1>2 DEF ReadyPut
  <1>4. ReadyFirst'
    <2> SUFFICES ASSUME NEW i \in 1..n + 1, ReadFrame(events'[i])
                 PROVE  \E j \in 1..i - 1 : events'[j] = Ready
      BY <1>1 DEF ReadyFirst, ReadFrame
    <2>1. CASE i = n + 1
      <3>1. i - 1 = n
        BY <1>1, <2>1
      <3>2. ReadyPut
        BY <1>2, <2>1
      <3>3. QED
        BY <1>3, <3>1, <3>2
    <2>2. CASE i # n + 1
      <3>1. i \in 1..n /\ events'[i] = events[i] /\ 1..i - 1 \subseteq 1..n
        BY <1>1, <1>2, <2>2
      <3>2. PICK j \in 1..i - 1 : events[j] = Ready
        BY <1>1, <3>1 DEF ReadyFirst
      <3>3. QED
        BY <1>2, <3>1, <3>2
    <2>3. QED
      BY <2>1, <2>2
  <1>5. QED
    BY <1>1, <1>2, <1>3, <1>4 DEF ReadyPut

\* Nothing that is put in the queue but a frame of TLSEventReader needs one.
LEMMA NoReadFrame ==
  /\ \A t : ~ReadFrame(Failure(t)) /\ ~ReadFrame(Ready) /\ \A f : ~ReadFrame(Event("usb", f))
  <1>1. \A t : ~ReadFrame(Failure(t))
    BY TooShort DEF ReadFrame, Failure
  <1>2. ~ReadFrame(Ready)
    <2>1. ~(Len(<< 0 >>) >= Header)
      BY TooShort
    <2>2. Ready.frame = << 0 >>
      BY DEF Ready
    <2>3. QED
      BY <2>1, <2>2 DEF ReadFrame
  <1>3. \A f : ~ReadFrame(Event("usb", f))
    BY DEF ReadFrame, Event
  <1>4. QED
    BY <1>1, <1>2, <1>3

\* dispatch_frames() of USBInput.
LEMMA InputReady ==
  ASSUME events \in Seq(EventType), ReadyInv, UNCHANGED tls,
         UNCHANGED events \/ InputFails \/ \E p \in Seq(Cell) : InputDispatch(p)
  PROVE  ReadyInv'
  <1>1. CASE UNCHANGED events
    BY <1>1 DEF ReadyInv, ReadyPut, ReadyFirst, ReadFrame
  <1>2. CASE InputFails
    <2>1. Failure("usb") \in EventType /\ ~ReadFrame(Failure("usb"))
      BY NoReadFrame DEF EventType
    <2>2. QED
      BY <1>2, <2>1, ReadyStays DEF InputFails, ReadyInv
  <1>3. ASSUME NEW p \in Seq(Cell), InputDispatch(p), ~InputFails, ~UNCHANGED events
        PROVE  ReadyInv'
    <2> DEFINE e == Event("usb", First(p, p[2]))
    <2>1. Whole(p) /\ events' = Append(events, e)
      BY <1>3 DEF InputDispatch
    <2>2. e \in EventType /\ ~ReadFrame(e)
      BY <2>1, WholeFrame, NoReadFrame DEF EventType, Event
    <2> HIDE DEF e
    <2>3. QED
      BY <2>1, <2>2, ReadyStays DEF ReadyInv
  <1>4. QED
    BY <1>1, <1>2, <1>3

\* dispatch_frames() of TLSEventReader.
LEMMA ReaderReady ==
  ASSUME events \in Seq(EventType), ReadyInv,
         ReaderFails \/ (tls.pc \in {"read", "dispatch"} /\ \E p \in Seq(Cell) : ReaderDispatch(p))
  PROVE  ReadyInv'
  <1>1. CASE ReaderFails
    <2>1. Failure("tls") \in EventType /\ ~ReadFrame(Failure("tls"))
      BY NoReadFrame DEF EventType
    <2>2. tls'.pc = "ended" /\ events' = Append(events, Failure("tls"))
      BY <1>1 DEF ReaderFails
    <2>3. QED
      BY <2>1, <2>2, ReadyStays DEF ReadyInv
  <1>2. ASSUME NEW p \in Seq(Cell), ReaderDispatch(p), ~ReaderFails, tls.pc \in {"read", "dispatch"}
        PROVE  ReadyInv'
    <2> DEFINE e == Event("tls", First(p, p[2]))
    <2>1. ReadyPut
      BY <1>2 DEF ReadyInv
    <2>2. CASE UNCHANGED events
      BY <2>1, <2>2 DEF ReadyInv, ReadyPut, ReadyFirst, ReadFrame
    <2>3. CASE Whole(p) /\ events' = Append(events, e)
      <3>1. e \in EventType
        BY <2>3, WholeFrame DEF EventType, Event
      <3> HIDE DEF e
      <3>2. QED
        BY <2>1, <2>3, <3>1, ReadyStays DEF ReadyInv
    <2>4. QED
      BY <1>2, <2>2, <2>3 DEF ReaderDispatch
  <1>3. QED
    BY <1>1, <1>2

\* Every step keeps TLS_Ready first.
LEMMA ReadyNext ==
  ASSUME IInv, ReadyInv, [Next]_vars
  PROVE  ReadyInv'
  <1>1. events \in Seq(EventType) /\ tls \in ReaderType
    BY DEF IInv, TypeOK, ReaderType
  <1>2. CASE InputReceive \/ InputNext \/ InputWrite \/ BulkFails
    BY <1>1, <1>2, InputHands, InputReady
  <1>3. CASE ReaderReceive \/ ReaderNext \/ TlsFails
    BY <1>1, <1>3, ReaderHands, ReaderReady
  <1>4. CASE ReaderAccept
    <2>1. events' = Append(events, Ready) /\ Ready \in EventType /\ ~ReadFrame(Ready)
      BY <1>4, NoReadFrame DEF ReaderAccept, EventType
    <2>2. QED
      BY <1>1, <2>1, ReadyStays DEF ReadyInv
  <1>5. CASE Respawn
    <2>1. events' = <<>> /\ tls'.pc = "accept"
      BY <1>5 DEF Respawn
    <2>2. DOMAIN events' = {}
      BY <2>1
    <2>3. QED
      BY <2>1, <2>2 DEF ReadyInv, ReadyFirst
  <1>6. CASE UNCHANGED vars
    BY <1>6 DEF vars, ReadyInv, ReadyPut, ReadyFirst, ReadFrame
  <1>7. QED
    BY <1>2, <1>3, <1>4, <1>5, <1>6 DEF Next

\* spawn() starts with an empty queue.
LEMMA InitReady == Init => ReadyInv
  <1> SUFFICES ASSUME Init PROVE ReadyInv
    OBVIOUS
  <1>1. events = <<>> /\ tls.pc = "accept"
    BY DEF Init
  <1>2. DOMAIN events = {}
    BY <1>1
  <1>3. QED
    BY <1>1, <1>2 DEF ReadyInv, ReadyFirst

\* What both tasks have done says that they hand on what came.
LEMMA CutExact == IInv /\ CutInv /\ ReadyInv => BytesExact
  <1> SUFFICES ASSUME IInv, CutInv, ReadyInv PROVE BytesExact
    OBVIOUS
  <1>1. InputExact
    <2>1. PICK k \in Nat : InputAt(k, wire, input, (clear \o pipe) \o input.body, FramesFrom("usb"))
      BY DEF CutInv, InputCut
    <2>2. QED
      BY <2>1 DEF InputAt, InputExact
  <1>2. ReaderExact
    <2>1. PICK k \in Nat : ReaderAt(k, clear, tls, FramesFrom("tls"))
      BY DEF CutInv, ReaderCut
    <2>2. QED
      BY <2>1 DEF ReaderAt, ReaderExact, ReadyInv, ReadyFirst, ReadFrame
  <1>3. QED
    BY <1>1, <1>2 DEF BytesExact

\* However packets and TLS records cut the streams, and whatever fails, the frames
\* in the queue are the plain frames of the packets and the frames of the plain
\* text, in order, none lost, none twice; the pipe gets the bodies of the others
\* whole; and nothing is taken for a frame after a malformed header (feed, next,
\* dispatch_frames, handle_tls_data).
THEOREM BytesExactHolds == Spec => []BytesExact
  <1>1. CutInv /\ ReadyInv /\ IInv /\ IInv' /\ [Next]_vars => CutInv' /\ ReadyInv'
    BY CutNext, ReadyNext
  <1>2. Init => CutInv /\ ReadyInv
    BY InitCut, InitReady
  <1>3. QED
    BY <1>1, <1>2, Invariant, CutExact, PTL DEF Spec
=============================================================================
