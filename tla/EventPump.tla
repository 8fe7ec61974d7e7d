----------------------------- MODULE EventPump ------------------------------
(***************************************************************************)
(* From the reader's bytes to the controller's events: USBInput and        *)
(* TLSEventReader (fpc9201.cpp), each with an EventFramer (protocol.hpp),  *)
(* and the pipe between them. USBInput reads packets from the bulk         *)
(* endpoint, cuts them into frames, puts plain frames in the event queue   *)
(* and writes the body of ev_tls frames to the pipe. TLSEventReader reads  *)
(* what comes out of it decrypted and cuts that into frames again.         *)
(* Packets and TLS records end anywhere in a frame.                        *)
(*                                                                         *)
(* A cell stands for some bytes. The first Header cells of a frame hold    *)
(* its code, its length (of the whole frame) and a result.                 *)
(***************************************************************************)
EXTENDS Integers, Sequences, SequencesExt

CONSTANTS
  Cell,       \* what a cell may hold: codes, lengths, data
  Header,     \* 12
  Maximum,    \* 65536: EventFramer::maximum
  MaxRead,    \* 4096: the size of a buffer (FPCBufferConfig)
  TlsCode,    \* ev_tls
  MaxWire     \* bound: what the reader sends in a session

ASSUME CellAssumption == Cell \subseteq Nat
ASSUME SizeAssumption ==
  /\ {Header, Maximum, MaxRead} \subseteq Nat
  /\ 2 <= Header /\ Header <= Maximum /\ 0 < MaxRead /\ MaxRead <= Maximum
ASSUME WireBound      == MaxWire \in Nat

VARIABLES
  input,    \* USBInput: where it is, EventFramer::pending, the body it is writing
  pipe,     \* what is written and not read yet (BIOPipe)
  tls,      \* TLSEventReader: where it is, EventFramer::pending
  events,   \* what was put in _event_queue by the two in this session
  wire,     \* history: all that USBInput read in this session
  clear     \* history: all that TLSEventReader read in this session

vars == <<input, pipe, tls, events, wire, clear>>

Event(task, cells) == [from |-> task, frame |-> cells]
Ready              == [from |-> "tls", frame |-> <<0>>]
Failure(task)      == [from |-> task, frame |-> <<>>]

FrameType == {f \in Seq(Cell) : Len(f) \in Header..Maximum}
EventType == [from : {"usb", "tls"}, frame : FrameType] \cup {Ready, Failure("usb"), Failure("tls")}

TypeOK ==
  /\ input \in [pc : {"recv", "dispatch", "write", "ended"}, pending : Seq(Cell), body : Seq(Cell)]
  /\ tls \in [pc : {"accept", "read", "dispatch", "ended"}, pending : Seq(Cell)]
  /\ pipe \in Seq(Cell) /\ wire \in Seq(Cell) /\ clear \in Seq(Cell)
  /\ events \in Seq(EventType)

\* spawn(): new tasks, a new pipe.
Init ==
  /\ input = [pc |-> "recv", pending |-> <<>>, body |-> <<>>]
  /\ tls = [pc |-> "accept", pending |-> <<>>]
  /\ pipe = <<>> /\ events = <<>> /\ wire = <<>> /\ clear = <<>>

First(s, n) == SubSeq(s, 1, n)
After(s, n) == SubSeq(s, n + 1, Len(s))
Least(m, n) == IF m <= n THEN m ELSE n
-----------------------------------------------------------------------------
(* EventFramer *)

\* feed() throws. (Its subtraction is unsigned; RoomToRead: it does not wrap.)
Overflows(pending, cells) == Len(cells) > 2 * Maximum - Len(pending)

\* Variant: the limit of a frame is not checked.
InvalidUnlimited(p) == Len(p) >= Header /\ p[2] < Header

\* next() throws.
Invalid(p) == Len(p) >= Header /\ (p[2] < Header \/ p[2] > Maximum)

\* next() returns a frame: the first p[2] cells.
Whole(p) == Len(p) >= Header /\ ~Invalid(p) /\ Len(p) >= p[2]

\* The code of a frame, or of the frame that p starts with.
IsTls(p) == p[1] = TlsCode
-----------------------------------------------------------------------------
(* USBInput *)

\* Variant: the controller is told and the task reads on.
InputFailsReading ==
  /\ input' = [pc |-> "recv", pending |-> <<>>, body |-> <<>>]
  /\ events' = Append(events, Failure("usb"))

\* handle_error(): the controller is told and the task ends.
InputFails ==
  /\ input' = [pc |-> "ended", pending |-> <<>>, body |-> <<>>]
  /\ events' = Append(events, Failure("usb"))

\* dispatch_frames() with p in the framer: the next frame, or the next packet.
InputDispatch(p) ==
  \/ Invalid(p) /\ InputFails
  \/ /\ ~Invalid(p) /\ ~Whole(p)
     /\ input' = [pc |-> "recv", pending |-> p, body |-> <<>>]
     /\ UNCHANGED events
  \/ /\ Whole(p) /\ ~IsTls(p)
     /\ input' = [pc |-> "dispatch", pending |-> After(p, p[2]), body |-> <<>>]
     /\ events' = Append(events, Event("usb", First(p, p[2])))
  \/ /\ Whole(p) /\ IsTls(p)
     /\ input' = [pc |-> "write", pending |-> After(p, p[2]), body |-> After(First(p, p[2]), Header)]
     /\ UNCHANGED events

\* parse() of a packet.
InputReceive ==
  /\ input.pc = "recv"
  /\ \E n \in 1..Least(MaxRead, MaxWire - Len(wire)) : \E cells \in [1..n -> Cell] :
       /\ wire' = wire \o cells
       /\ IF Overflows(input.pending, cells) THEN InputFails
                                             ELSE InputDispatch(input.pending \o cells)
  /\ UNCHANGED <<pipe, tls, clear>>

\* The event is in the queue.
InputNext ==
  /\ input.pc = "dispatch"
  /\ InputDispatch(input.pending)
  /\ UNCHANGED <<pipe, tls, wire, clear>>

\* handle_tls_data(): frame_event() has cut the body into buffers; after the last
\* one the frames go on. (An empty body has nothing to wait for.)
InputWrite ==
  LET n == Least(MaxRead, Len(input.body)) IN
  /\ input.pc = "write"
  /\ pipe' = pipe \o First(input.body, n)
  /\ IF n < Len(input.body)
       THEN input' = [input EXCEPT !.body = After(input.body, n)] /\ UNCHANGED events
       ELSE InputDispatch(input.pending)
  /\ UNCHANGED <<tls, wire, clear>>

\* The bulk transfer fails.
BulkFails ==
  /\ input.pc = "recv"
  /\ InputFails
  /\ UNCHANGED <<pipe, tls, wire, clear>>

-----------------------------------------------------------------------------
(* TLSEventReader *)

ReaderFails ==
  /\ tls' = [pc |-> "ended", pending |-> <<>>]
  /\ events' = Append(events, Failure("tls"))

\* dispatch_frames() with p in the framer.
ReaderDispatch(p) ==
  \/ Invalid(p) /\ ReaderFails
  \/ ~Invalid(p) /\ ~Whole(p) /\ tls' = [pc |-> "read", pending |-> p] /\ UNCHANGED events
  \/ /\ Whole(p)
     /\ tls' = [pc |-> "dispatch", pending |-> After(p, p[2])]
     /\ events' = Append(events, Event("tls", First(p, p[2])))

\* accept() completes: ready() (the cells of the handshake itself are left out).
ReaderAccept ==
  /\ tls.pc = "accept"
  /\ tls' = [tls EXCEPT !.pc = "read"]
  /\ events' = Append(events, Ready)
  /\ UNCHANGED <<input, pipe, wire, clear>>

\* Variant: what is left of the last record is dropped.
ReaderReceiveAnew ==
  /\ tls.pc = "read" /\ pipe # <<>>
  /\ \E n \in 1..Least(MaxRead, Len(pipe)) :
       /\ pipe' = After(pipe, n) /\ clear' = clear \o First(pipe, n)
       /\ ReaderDispatch(First(pipe, n))
  /\ UNCHANGED <<input, wire>>

\* process() of what a TLS record holds, or a part of it.
ReaderReceive ==
  /\ tls.pc = "read" /\ pipe # <<>>
  /\ \E n \in 1..Least(MaxRead, Len(pipe)) :
       /\ pipe' = After(pipe, n) /\ clear' = clear \o First(pipe, n)
       /\ IF Overflows(tls.pending, First(pipe, n)) THEN ReaderFails
                                                    ELSE ReaderDispatch(tls.pending \o First(pipe, n))
  /\ UNCHANGED <<input, wire>>

\* The event is in the queue.
ReaderNext ==
  /\ tls.pc = "dispatch"
  /\ ReaderDispatch(tls.pending)
  /\ UNCHANGED <<input, pipe, wire, clear>>

\* The handshake fails, a record does not decrypt, or the stream ends.
TlsFails ==
  /\ tls.pc \in {"accept", "read"}
  /\ ReaderFails
  /\ UNCHANGED <<input, pipe, wire, clear>>

-----------------------------------------------------------------------------
\* cleanup_device(), at any time, and spawn() of the next session: nothing of
\* this one is left.
Respawn ==
  /\ input' = [pc |-> "recv", pending |-> <<>>, body |-> <<>>]
  /\ tls' = [pc |-> "accept", pending |-> <<>>]
  /\ pipe' = <<>> /\ events' = <<>> /\ wire' = <<>> /\ clear' = <<>>

Next ==
  \/ InputReceive \/ InputNext \/ InputWrite \/ BulkFails
  \/ ReaderAccept \/ ReaderReceive \/ ReaderNext \/ TlsFails
  \/ Respawn

Spec == Init /\ [][Next]_vars
-----------------------------------------------------------------------------
(* Reference: the frames of a whole stream, however it was cut. *)

\* A frame of s starts at cell i.
IsFrame(s, i) ==
  /\ i + Header - 1 <= Len(s)
  /\ s[i + 1] \in Header..Maximum
  /\ i + s[i + 1] - 1 <= Len(s)

\* Where what follows the first k frames of s starts.
Starts(s) ==
  LET At[k \in 0..Len(s)] ==
        IF k = 0 THEN 1
        ELSE LET i == At[k - 1] IN IF IsFrame(s, i) THEN i + s[i + 1] ELSE i
  IN At

FrameCount(s) ==
  LET at == Starts(s) IN
  CHOOSE k \in 0..Len(s) : ~IsFrame(s, at[k]) /\ \A j \in 0..k - 1 : IsFrame(s, at[j])

Frames(s) ==
  LET at == Starts(s) IN [k \in 1..FrameCount(s) |-> SubSeq(s, at[k - 1], at[k] - 1)]

\* What follows the frames cannot become one.
Malformed(s) ==
  LET i == Starts(s)[FrameCount(s)] IN
  i + Header - 1 <= Len(s) /\ s[i + 1] \notin Header..Maximum

\* What each frame is for the queue, and for the pipe.
Plain(s)  == LET f == Frames(s) IN [k \in DOMAIN f |-> IF IsTls(f[k]) THEN <<>> ELSE <<f[k]>>]
Bodies(s) == LET f == Frames(s) IN [k \in DOMAIN f |-> IF IsTls(f[k]) THEN After(f[k], Header) ELSE <<>>]

FramesFrom(task) ==
  FlattenSeq([i \in 1..Len(events) |->
                IF events[i].from = task /\ Len(events[i].frame) >= Header THEN <<events[i].frame>> ELSE <<>>])

Failed(task) == \E i \in DOMAIN events : events[i] = Failure(task)

\* However the packets cut the stream, the frames of USBInput are those of the
\* stream, in order, and none is left when it waits for the next packet (feed,
\* next, dispatch_frames); the bodies go to the pipe in order and whole. A
\* stream that goes wrong is reported, not read on.
InputExact ==
  \E k \in 0..FrameCount(wire) :
    /\ FramesFrom("usb") = FlattenSeq(First(Plain(wire), k))
    /\ clear \o pipe \o input.body = FlattenSeq(First(Bodies(wire), k))
    /\ input.pc \in {"recv", "ended"} => k = FrameCount(wire)
    /\ input.pc = "recv" => ~Malformed(wire)

\* The same of TLSEventReader, whatever way the records cut the plain text. Its
\* first frame follows TLS_Ready.
ReaderExact ==
  /\ \E k \in 0..FrameCount(clear) :
       /\ FramesFrom("tls") = First(Frames(clear), k)
       /\ tls.pc \in {"read", "ended"} => k = FrameCount(clear)
       /\ tls.pc = "read" => ~Malformed(clear)
  /\ \A i \in DOMAIN events :
       events[i].from = "tls" /\ Len(events[i].frame) >= Header =>
         \E j \in 1..i - 1 : events[j] = Ready

\* Both tasks hand on exactly what came, in order.
BytesExact == InputExact /\ ReaderExact

\* A task that fails tells the controller so, once, and puts nothing after it
\* (handle_error).
FailureIsLast ==
  /\ input.pc = "ended" <=> Failed("usb")
  /\ tls.pc = "ended" <=> Failed("tls")
  /\ \A i, j \in DOMAIN events : i < j /\ events[i].frame = <<>> => events[j].from # events[i].from

\* The receive limit of feed() is never met, so neither does its unsigned
\* subtraction wrap: what waits is less than a frame when more is read.
RoomToRead ==
  LET Room(p) == Len(p) < Maximum /\ Len(p) + MaxRead <= 2 * Maximum IN
  /\ input.pc = "recv" => Room(input.pending)
  /\ tls.pc = "read" => Room(tls.pending)
=============================================================================
