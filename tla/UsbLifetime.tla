---------------------------- MODULE UsbLifetime ----------------------------
(***************************************************************************)
(* The lifetime of libusb handles and transfers (usb_transfer.hpp) under   *)
(* the controller that opens, cleans up and reopens the reader             *)
(* (WorkerControl in fpc9201.cpp).                                         *)
(*                                                                         *)
(* Three kinds of object live at different speeds:                         *)
(*   - a USBTransfer awaitable (an Obj), destroyed at once by a cancel;    *)
(*   - a libusb_transfer struct (an Xfer), which the kernel may hold until *)
(*     its completion callback has run;                                    *)
(*   - a libusb_device_handle (a Handle), which must outlive every         *)
(*     submitted transfer, and whose address libusb may hand out again     *)
(*     after libusb_close.                                                 *)
(* pending_usb_handles() ties them together: tracked is the domain of that *)
(* map, transfers and closing are the fields of its entries.               *)
(*                                                                         *)
(* A definition marked "Variant" is the next one with a plausible slip; no *)
(* behaviour uses it, it shows that the properties notice the slip.        *)
(***************************************************************************)
EXTENDS Integers, FiniteSets

CONSTANTS
  Handle,      \* addresses of libusb_device_handle
  Xfer,        \* libusb_transfer structs
  Obj,         \* USBTransfer awaitables: the controller's, USBInput's, USBOutput's
  Ctl,         \* the controller's own one (_control_transfer)
  None,        \* the null pointer
  MaxReapers   \* bound: USBReaper tasks alive at the same time

ASSUME CtlAssumption  == Ctl \in Obj
ASSUME NoneAssumption == None \notin Handle \cup Xfer \cup Obj
ASSUME XferAssumption == IsFiniteSet(Xfer)
ASSUME ReaperBound    == MaxReapers \in Nat

VARIABLES
  opened,      \* handles libusb has open
  tracked,     \* handles with an entry in pending_usb_handles()
  transfers,   \* the entry's counter of submitted transfers (0 without entry)
  closing,     \* handles whose entry is marked closing
  current,     \* WorkerControl::_handle
  attached,    \* USBDeviceInfo::_attached: a controller task exists
  xstate,      \* what libusb knows of each struct
  xdev,        \* libusb_transfer::dev_handle
  xowner,      \* libusb_transfer::user_data
  held,        \* USBTransfer::_transfer
  pc,          \* where the awaitable is; _pending is pc = "inflight"
  reapers      \* number of USBReaper tasks

usbVars  == <<opened, tracked, transfers, closing>>
xferVars == <<xstate, xdev, xowner>>
objVars  == <<held, pc>>
ctlVars  == <<current, attached>>
vars     == <<usbVars, xferVars, objVars, ctlVars, reapers>>

InFlight(h) == {x \in Xfer : xstate[x] = "inflight" /\ xdev[x] = h}

TypeOK ==
  /\ opened    \in SUBSET Handle
  /\ tracked   \in SUBSET Handle
  /\ transfers \in [Handle -> Nat]
  /\ closing   \in SUBSET Handle
  /\ current   \in Handle \cup {None}
  /\ attached  \in BOOLEAN
  /\ xstate    \in [Xfer -> {"free", "allocated", "inflight"}]
  /\ xdev      \in [Xfer -> Handle \cup {None}]
  /\ xowner    \in [Xfer -> Obj \cup {None}]
  /\ held      \in [Obj -> Xfer \cup {None}]
  /\ pc        \in [Obj -> {"idle", "submit", "inflight", "completed"}]
  /\ reapers   \in Nat

Init ==
  /\ opened = {} /\ tracked = {} /\ closing = {}
  /\ transfers = [h \in Handle |-> 0]
  /\ current = None /\ attached = FALSE
  /\ xstate = [x \in Xfer |-> "free"]
  /\ xdev = [x \in Xfer |-> None]
  /\ xowner = [x \in Xfer |-> None]
  /\ held = [o \in Obj |-> None]
  /\ pc = [o \in Obj |-> "idle"]
  /\ reapers = 0

-----------------------------------------------------------------------------
(* One USBTransfer awaitable. *)

\* control() and bulk(): allocate() takes a struct and fills it in.
Call(o) ==
  /\ current # None /\ pc[o] = "idle"
  /\ \E x \in Xfer :
       /\ xstate[x] = "free"
       /\ xstate' = [xstate EXCEPT ![x] = "allocated"]
       /\ xdev'   = [xdev EXCEPT ![x] = current]
       /\ xowner' = [xowner EXCEPT ![x] = o]
       /\ held'   = [held EXCEPT ![o] = x]
  /\ pc' = [pc EXCEPT ![o] = "submit"]
  /\ UNCHANGED <<usbVars, ctlVars, reapers>>

\* The awaitable ends: async_finalize() releases a struct libusb does not own.
Finalize(o) ==
  /\ xstate' = [xstate EXCEPT ![held[o]] = "free"]
  /\ xowner' = [xowner EXCEPT ![held[o]] = None]
  /\ held'   = [held EXCEPT ![o] = None]
  /\ pc'     = [pc EXCEPT ![o] = "idle"]
  /\ UNCHANGED xdev

\* submit() when libusb takes the transfer.
SubmitOk(o) ==
  /\ pc[o] = "submit"
  /\ LET h == xdev[held[o]] IN
       /\ h \notin closing
       /\ tracked'   = tracked \cup {h}
       /\ transfers' = [transfers EXCEPT ![h] = @ + 1]
  /\ xstate' = [xstate EXCEPT ![held[o]] = "inflight"]
  /\ pc'     = [pc EXCEPT ![o] = "inflight"]
  /\ UNCHANGED <<opened, closing, xdev, xowner, held, ctlVars, reapers>>

\* submit() when the handle is closing or libusb_submit_transfer refuses: an
\* entry that tracks nothing is erased again.
SubmitFail(o) ==
  /\ pc[o] = "submit"
  /\ LET h == xdev[held[o]] IN
       tracked' = IF h \notin closing /\ transfers[h] = 0
                    THEN tracked \ {h} ELSE tracked \cup {h}
  /\ Finalize(o)
  /\ UNCHANGED <<opened, transfers, closing, ctlVars, reapers>>

\* finish_usb_transfer(): one transfer fewer; an entry without transfers goes
\* unless it is waiting to be closed.
FinishTransfer(h) ==
  /\ transfers' = [transfers EXCEPT ![h] = @ - 1]
  /\ tracked'   = IF transfers[h] = 1 /\ h \notin closing
                    THEN tracked \ {h} ELSE tracked

\* resume() for a struct whose awaitable still waits.
TransferDone(x) ==
  /\ xstate[x] = "inflight" /\ xowner[x] # None
  /\ FinishTransfer(xdev[x])
  /\ xstate' = [xstate EXCEPT ![x] = "allocated"]
  /\ pc'     = [pc EXCEPT ![xowner[x]] = "completed"]
  /\ UNCHANGED <<opened, closing, xdev, xowner, held, ctlVars, reapers>>

\* Variant: the callback forgets a struct nobody waits for.
OrphanDoneWithoutFree(x) ==
  /\ xstate[x] = "inflight" /\ xowner[x] = None
  /\ FinishTransfer(xdev[x])
  /\ xstate' = [xstate EXCEPT ![x] = "allocated"]
  /\ UNCHANGED <<opened, closing, xdev, xowner, objVars, ctlVars, reapers>>

\* resume() for a struct its awaitable has given up: the callback frees it.
OrphanDone(x) ==
  /\ xstate[x] = "inflight" /\ xowner[x] = None
  /\ FinishTransfer(xdev[x])
  /\ xstate' = [xstate EXCEPT ![x] = "free"]
  /\ UNCHANGED <<opened, closing, xdev, xowner, objVars, ctlVars, reapers>>

\* completed(): the awaiting task gets its result or the transfer's error.
Completed(o) ==
  /\ pc[o] = "completed"
  /\ Finalize(o)
  /\ UNCHANGED <<usbVars, ctlVars, reapers>>

-----------------------------------------------------------------------------
(* Closing and reopening. *)

\* drain_usb_closes(): every closing handle without transfers is closed; then
\* the handles in fresh are opened.
Drainable == {h \in closing : transfers[h] = 0}
Drain(fresh) ==
  /\ tracked' = tracked \ Drainable
  /\ closing' = closing \ Drainable
  /\ opened'  = (opened \ Drainable) \cup fresh
  /\ UNCHANGED transfers

\* Variant: a cancel misses the awaitables that have not submitted yet.
ReleasePendingOnly ==
  LET Keeps(o) == pc[o] = "submit" IN
  /\ xowner' = [x \in Xfer |-> IF xowner[x] \in Obj /\ Keeps(xowner[x]) THEN xowner[x] ELSE None]
  /\ xstate' = [x \in Xfer |-> IF xstate[x] = "allocated" /\ xowner'[x] = None
                                 THEN "free" ELSE xstate[x]]
  /\ held'   = [o \in Obj |-> IF Keeps(o) THEN held[o] ELSE None]
  /\ pc'     = [o \in Obj |-> IF Keeps(o) THEN pc[o] ELSE "idle"]
  /\ UNCHANGED xdev

\* release() of every awaitable: a struct in flight is cancelled and left to
\* its callback, any other is freed.
ReleaseAll ==
  /\ xstate' = [x \in Xfer |-> IF xstate[x] = "allocated" THEN "free" ELSE xstate[x]]
  /\ xowner' = [x \in Xfer |-> None]
  /\ held'   = [o \in Obj |-> None]
  /\ pc'     = [o \in Obj |-> "idle"]
  /\ UNCHANGED xdev

\* Variant: closes a tracked handle too.
DeferCloseAtOnce(h) ==
  /\ opened'  = opened \ {h}
  /\ closing' = IF h \in tracked THEN closing \cup {h} ELSE closing
  /\ UNCHANGED <<tracked, transfers>>

\* defer_usb_close(): an untracked handle is closed on the spot.
DeferClose(h) ==
  /\ opened'  = IF h \in tracked THEN opened ELSE opened \ {h}
  /\ closing' = IF h \in tracked THEN closing \cup {h} ELSE closing
  /\ UNCHANGED <<tracked, transfers>>

\* Variant: leaves the deferred close to the next reopen.
SpawnNoReaper == UNCHANGED reapers
\* cleanup_device() ends by starting a reaper if a close had to be deferred.
SpawnReaper ==
  IF closing' # {} THEN reapers < MaxReapers /\ reapers' = reapers + 1
                   ELSE UNCHANGED reapers

\* cleanup_device(), from begin_recovery (ends = FALSE) or from the
\* controller's async_finalize (ends = TRUE). The controller runs it, so its
\* own transfer is not outstanding.
Cleanup(ends) ==
  /\ attached /\ pc[Ctl] = "idle"
  /\ ReleaseAll
  /\ DeferClose(current)
  /\ SpawnReaper
  /\ current' = None
  /\ attached' = ~ends

\* reopen(): drains, then waits for the closes that are left (the first case),
\* fails to open the reader, or opens it at an address libusb has free.
Reopen ==
  /\ attached /\ current = None
  /\ \/ Drain({}) /\ UNCHANGED current
     \/ /\ closing \subseteq Drainable
        /\ \E h \in Handle \ (opened \ Drainable) : Drain({h}) /\ current' = h
  /\ UNCHANGED <<xferVars, objVars, attached, reapers>>

\* device_attached() through the hotplug callback, when no controller exists.
Attach ==
  /\ ~attached
  /\ attached' = TRUE
  /\ \/ UNCHANGED <<opened, current>>      \* libusb_open failed
     \/ \E h \in Handle \ opened : opened' = opened \cup {h} /\ current' = h
  /\ UNCHANGED <<tracked, transfers, closing, xferVars, objVars, reapers>>

\* Variant: a reaper that drains once and ends.
ReapOnce ==
  /\ reapers > 0
  /\ Drain({})
  /\ reapers' = reapers - 1
  /\ UNCHANGED <<xferVars, objVars, ctlVars>>

\* USBReaper::reap(): drains, and ends once nothing is left to close.
Reap ==
  /\ reapers > 0
  /\ Drain({})
  /\ reapers' = IF closing' = {} THEN reapers - 1 ELSE reapers
  /\ UNCHANGED <<xferVars, objVars, ctlVars>>

-----------------------------------------------------------------------------
Next ==
  \/ \E o \in Obj : Call(o) \/ SubmitOk(o) \/ SubmitFail(o) \/ Completed(o)
  \/ \E x \in Xfer : TransferDone(x) \/ OrphanDone(x)
  \/ \E ends \in BOOLEAN : Cleanup(ends)
  \/ Reopen
  \/ Attach
  \/ Reap

\* libusb delivers the callback of a cancelled transfer; the event loop runs
\* the reaper. Nothing else is promised: a bulk read may wait forever.
Fairness ==
  /\ \A x \in Xfer : WF_vars(OrphanDone(x))
  /\ WF_vars(Reap)

Spec == Init /\ [][Next]_vars /\ Fairness
-----------------------------------------------------------------------------
(* What makes it correct. *)

\* A handle is not closed while a transfer submitted on it has not delivered
\* its callback (the comment at the top of usb_transfer.hpp): neither by
\* cleanup_device, nor by a reaper or a reopen that drains later, nor through
\* an address that was handed out twice.
NoCloseInFlight == \A x \in Xfer : xstate[x] = "inflight" => xdev[x] \in opened

\* The counter that decides when a close is safe is exact, whatever was
\* cancelled, refused or completed meanwhile (USBPendingHandle::transfers).
TransfersCounted == \A h \in Handle : transfers[h] = Cardinality(InFlight(h))

\* Each struct is in one pair of hands: free, or held by the awaitable its
\* user_data names, or in flight without one; so none is freed twice, none
\* leaks and no callback reaches a destroyed awaitable (release, resume).
StructsOwned ==
  /\ \A x \in Xfer :
       /\ xstate[x] = "free" => xowner[x] = None
       /\ xstate[x] = "allocated" => xowner[x] # None
       /\ xowner[x] # None => held[xowner[x]] = x
  /\ \A o \in Obj :
       IF pc[o] = "idle" THEN held[o] = None
       ELSE /\ held[o] # None
            /\ xowner[held[o]] = o
            /\ xstate[held[o]] = IF pc[o] = "inflight" THEN "inflight" ELSE "allocated"

\* Counter and structs account for every transfer: what is in flight is counted
\* once and belongs to one awaitable or to its callback.
TransfersAccounted == TransfersCounted /\ StructsOwned

\* No open handle is forgotten: it is the session's or its close is pending,
\* and the session's own handle is never the one being closed.
NoHandleLeak ==
  /\ opened = closing \cup ({current} \ {None})
  /\ current \notin closing

\* As long as a close is deferred some reaper is alive to carry it out
\* (cleanup_device, USBReaper::reap), even when the controller has ended.
DeferredHasReaper == closing # {} => reapers > 0

\* Every open handle has somebody left who will close it.
HandlesAccounted == NoHandleLeak /\ DeferredHasReaper

\* The refusal in submit() is never needed: cleanup_device cancels the users of
\* a handle before it gives the handle up.
SubmitNeverSeesClosing == \A o \in Obj : pc[o] = "submit" => xdev[held[o]] \notin closing

\* A close that was deferred is carried out in the end, even if the controller
\* never runs again (defer_usb_close, drain_usb_closes, USBReaper::reap).
DeferredCloseHappens == \A h \in Handle : (h \in closing) ~> (h \notin closing)
=============================================================================
