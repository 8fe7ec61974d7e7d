------------------------- MODULE UsbLifetimeProofs -------------------------
(***************************************************************************)
(* The safety properties of UsbLifetime, for every set of handles, structs *)
(* and awaitables.                                                         *)
(***************************************************************************)
EXTENDS UsbLifetime, FiniteSetTheorems, TLAPS

\* An entry exists exactly while it counts a transfer or awaits its close.
EntryNeeded == tracked = closing \cup {h \in Handle : transfers[h] > 0}

\* What an awaitable holds belongs to the session's handle.
HeldOnCurrent ==
  \A x \in Xfer : xowner[x] # None => current # None /\ xdev[x] = current

\* A struct in flight names a handle libusb has open.
FlightsOpen == \A x \in Xfer : xstate[x] = "inflight" => xdev[x] \in Handle /\ xdev[x] \in opened

\* Without a controller there is no session.
NoSessionUnattached == ~attached => current = None

IInv ==
  /\ TypeOK
  /\ FlightsOpen
  /\ TransfersCounted
  /\ StructsOwned
  /\ NoHandleLeak
  /\ DeferredHasReaper
  /\ EntryNeeded
  /\ HeldOnCurrent
  /\ NoSessionUnattached

-----------------------------------------------------------------------------
(* Counting the structs in flight. *)

\* The structs in flight on a handle are finitely many (USBPendingHandle counts
\* them with a size_t).
LEMMA InFlightFinite ==
  ASSUME NEW h
  PROVE  IsFiniteSet(InFlight(h)) /\ Cardinality(InFlight(h)) \in Nat
  BY XferAssumption, FS_Subset, FS_CardinalityType DEF InFlight

\* A counter that matches and is zero means that nothing is in flight.
LEMMA ZeroMeansNone ==
  ASSUME TransfersCounted, NEW h \in Handle, transfers[h] = 0
  PROVE  InFlight(h) = {}
  BY InFlightFinite, FS_EmptySet DEF TransfersCounted

\* A struct in flight makes its handle's counter positive.
LEMMA InFlightCounts ==
  ASSUME TypeOK, TransfersCounted, NEW x \in Xfer, xstate[x] = "inflight",
         xdev[x] \in Handle
  PROVE  transfers[xdev[x]] > 0
  <1>1. InFlight(xdev[x]) # {}
    BY DEF InFlight
  <1>2. Cardinality(InFlight(xdev[x])) # 0
    BY <1>1, InFlightFinite, FS_EmptySet
  <1>3. QED
    BY <1>2, InFlightFinite DEF TransfersCounted, TypeOK

\* Submitting a struct counts it on its handle and on no other.
LEMMA CountSubmit ==
  ASSUME TypeOK, TransfersCounted, NEW x \in Xfer, xstate[x] # "inflight",
         NEW d \in Handle, xdev[x] = d,
         xstate' = [xstate EXCEPT ![x] = "inflight"], xdev' = xdev,
         transfers' = [transfers EXCEPT ![d] = @ + 1]
  PROVE  TransfersCounted'
  <1> SUFFICES ASSUME NEW h \in Handle
               PROVE  transfers'[h] = Cardinality(InFlight(h)')
    BY DEF TransfersCounted
  <1>1. CASE h = d
    <2>1. InFlight(h)' = InFlight(h) \cup {x}
      BY <1>1 DEF InFlight, TypeOK
    <2>2. x \notin InFlight(h)
      BY DEF InFlight
    <2>3. Cardinality(InFlight(h)') = Cardinality(InFlight(h)) + 1
      BY <2>1, <2>2, InFlightFinite, FS_AddElement
    <2>4. QED
      BY <1>1, <2>3 DEF TransfersCounted, TypeOK
  <1>2. CASE h # d
    <2>1. InFlight(h)' = InFlight(h)
      BY <1>2 DEF InFlight, TypeOK
    <2>2. QED
      BY <1>2, <2>1 DEF TransfersCounted, TypeOK
  <1>3. QED
    BY <1>1, <1>2

\* A callback counts its struct off its handle and off no other.
LEMMA CountFinish ==
  ASSUME TypeOK, TransfersCounted, NEW x \in Xfer, xstate[x] = "inflight",
         NEW d \in Handle, xdev[x] = d,
         NEW s, s # "inflight",
         xstate' = [xstate EXCEPT ![x] = s], xdev' = xdev,
         transfers' = [transfers EXCEPT ![d] = @ - 1]
  PROVE  TransfersCounted'
  <1> SUFFICES ASSUME NEW h \in Handle
               PROVE  transfers'[h] = Cardinality(InFlight(h)')
    BY DEF TransfersCounted
  <1>1. CASE h = d
    <2>1. InFlight(h)' = InFlight(h) \ {x}
      BY <1>1 DEF InFlight, TypeOK
    <2>2. x \in InFlight(h)
      BY <1>1 DEF InFlight
    <2>3. Cardinality(InFlight(h)') = Cardinality(InFlight(h)) - 1
      BY <2>1, <2>2, InFlightFinite, FS_RemoveElement
    <2>4. QED
      BY <1>1, <2>3 DEF TransfersCounted, TypeOK
  <1>2. CASE h # d
    <2>1. InFlight(h)' = InFlight(h)
      BY <1>2 DEF InFlight, TypeOK
    <2>2. QED
      BY <1>2, <2>1 DEF TransfersCounted, TypeOK
  <1>3. QED
    BY <1>1, <1>2

\* A step that moves no struct into or out of flight keeps the counters exact.
LEMMA CountKept ==
  ASSUME TransfersCounted, transfers' = transfers, xdev' = xdev,
         \A x \in Xfer : xstate'[x] = "inflight" <=> xstate[x] = "inflight"
  PROVE  TransfersCounted'
  <1>1. \A h \in Handle : InFlight(h)' = InFlight(h)
    BY DEF InFlight
  <1>2. QED
    BY <1>1 DEF TransfersCounted

-----------------------------------------------------------------------------
(* Every step preserves IInv. *)

\* The empty registry: nothing is open, held or in flight.
LEMMA InitInv == Init => IInv
  <1> SUFFICES ASSUME Init PROVE IInv
    OBVIOUS
  <1>1. TypeOK
    BY DEF Init, TypeOK
  <1>2. \A h \in Handle : InFlight(h) = {}
    BY DEF Init, InFlight
  <1>3. TransfersCounted
    BY <1>2, FS_EmptySet DEF Init, TransfersCounted
  <1>4. QED
    BY <1>1, <1>3 DEF Init, IInv, FlightsOpen, StructsOwned, NoHandleLeak,
                      DeferredHasReaper, EntryNeeded, HeldOnCurrent,
                      NoSessionUnattached

\* allocate(): the new struct belongs to the awaitable and to the session.
LEMMA CallInv ==
  ASSUME IInv, NEW o \in Obj, Call(o)
  PROVE  IInv'
  <1> USE NoneAssumption DEF IInv
  <1>1. PICK x \in Xfer :
          /\ xstate[x] = "free"
          /\ xstate' = [xstate EXCEPT ![x] = "allocated"]
          /\ xdev'   = [xdev EXCEPT ![x] = current]
          /\ xowner' = [xowner EXCEPT ![x] = o]
          /\ held'   = [held EXCEPT ![o] = x]
    BY DEF Call
  <1>2. TypeOK'
    BY <1>1 DEF Call, TypeOK, usbVars, ctlVars
  <1>3. FlightsOpen'
    BY <1>1 DEF Call, TypeOK, usbVars, ctlVars, FlightsOpen
  <1>4. TransfersCounted'
    <2>1. \A h \in Handle : InFlight(h)' = InFlight(h)
      BY <1>1 DEF InFlight, TypeOK
    <2>2. QED
      BY <2>1 DEF Call, usbVars, TransfersCounted
  <1>5. StructsOwned'
    BY <1>1 DEF Call, TypeOK, StructsOwned
  <1>6. NoHandleLeak' /\ DeferredHasReaper' /\ EntryNeeded' /\ NoSessionUnattached'
    BY DEF NoSessionUnattached, Call, usbVars, ctlVars, NoHandleLeak, DeferredHasReaper, EntryNeeded
  <1>7. HeldOnCurrent'
    BY <1>1 DEF Call, TypeOK, ctlVars, HeldOnCurrent
  <1>8. QED
    BY <1>2, <1>3, <1>4, <1>5, <1>6, <1>7

\* submit(), accepted: the counter and the entry appear with the transfer.
LEMMA SubmitOkInv ==
  ASSUME IInv, NEW o \in Obj, SubmitOk(o)
  PROVE  IInv'
  <1> USE NoneAssumption DEF IInv
  <1> DEFINE x == held[o]
             h == xdev[x]
  <1>1. /\ x \in Xfer /\ xowner[x] = o /\ xstate[x] = "allocated"
        /\ current # None /\ h = current /\ h \in Handle /\ h \in opened
        /\ h \notin closing
    BY DEF SubmitOk, StructsOwned, TypeOK, HeldOnCurrent, NoHandleLeak
  <1> HIDE DEF x, h
  <1>2. /\ pc[o] = "submit" /\ x = held[o] /\ h = xdev[x]
        /\ tracked' = tracked \cup {h}
        /\ transfers' = [transfers EXCEPT ![h] = @ + 1]
        /\ xstate' = [xstate EXCEPT ![x] = "inflight"]
        /\ pc' = [pc EXCEPT ![o] = "inflight"]
        /\ UNCHANGED <<opened, closing, xdev, xowner, held, current, attached, reapers>>
    BY DEF SubmitOk, x, h, ctlVars
  <1>3. TypeOK'
    <2>1. transfers' \in [Handle -> Nat]
      BY <1>1, <1>2 DEF TypeOK
    <2>2. xstate' \in [Xfer -> {"free", "allocated", "inflight"}]
      BY <1>1, <1>2 DEF TypeOK
    <2>3. pc' \in [Obj -> {"idle", "submit", "inflight", "completed"}]
      BY <1>2 DEF TypeOK
    <2>4. QED
      BY <1>1, <1>2, <2>1, <2>2, <2>3 DEF TypeOK
  <1>4. FlightsOpen'
    BY <1>1, <1>2 DEF TypeOK, FlightsOpen
  <1>5. TransfersCounted'
    BY <1>1, <1>2, CountSubmit
  <1>6. StructsOwned'
    BY <1>1, <1>2 DEF TypeOK, StructsOwned
  <1>7. NoHandleLeak' /\ DeferredHasReaper' /\ HeldOnCurrent' /\ NoSessionUnattached'
    BY <1>2 DEF NoSessionUnattached, NoHandleLeak, DeferredHasReaper, HeldOnCurrent
  <1>8. EntryNeeded'
    BY <1>1, <1>2 DEF TypeOK, EntryNeeded
  <1>9. QED
    BY <1>3, <1>4, <1>5, <1>6, <1>7, <1>8

\* async_finalize() of an awaitable whose struct is not in flight.
LEMMA FinalizeInv ==
  ASSUME IInv, NEW o \in Obj, pc[o] \in {"submit", "completed"}, Finalize(o),
         UNCHANGED <<opened, tracked, transfers, closing, current, attached, reapers>>
  PROVE  IInv'
  <1> USE NoneAssumption DEF IInv
  <1>1. held[o] \in Xfer /\ xowner[held[o]] = o /\ xstate[held[o]] = "allocated"
    BY DEF StructsOwned, TypeOK
  <1>2. TypeOK'
    BY <1>1 DEF Finalize, TypeOK
  <1>3. FlightsOpen'
    BY <1>1 DEF Finalize, TypeOK, FlightsOpen
  <1>4. TransfersCounted'
    BY <1>1, CountKept DEF Finalize, TypeOK
  <1>5. StructsOwned'
    BY <1>1 DEF Finalize, TypeOK, StructsOwned
  <1>6. NoHandleLeak' /\ DeferredHasReaper' /\ EntryNeeded' /\ NoSessionUnattached'
    BY DEF NoSessionUnattached, NoHandleLeak, DeferredHasReaper, EntryNeeded
  <1>7. HeldOnCurrent'
    BY <1>1 DEF Finalize, TypeOK, HeldOnCurrent
  <1>8. QED
    BY <1>2, <1>3, <1>4, <1>5, <1>6, <1>7

\* submit(), refused: the entry is as it was, so only the awaitable changes.
LEMMA SubmitFailInv ==
  ASSUME IInv, NEW o \in Obj, SubmitFail(o)
  PROVE  IInv'
  <1> USE NoneAssumption DEF IInv
  <1>1. held[o] \in Xfer /\ xdev[held[o]] = current /\ current \in Handle
        /\ current \notin closing
    BY DEF SubmitFail, StructsOwned, TypeOK, HeldOnCurrent, NoHandleLeak
  <1>2. transfers[current] \in Nat
    BY <1>1 DEF TypeOK
  <1>3. tracked' = tracked
    <2>1. CASE transfers[current] = 0
      <3>1. current \notin tracked
        BY <1>1, <2>1 DEF EntryNeeded
      <3>2. QED
        BY <1>1, <2>1, <3>1 DEF SubmitFail
    <2>2. CASE transfers[current] > 0
      <3>1. current \in tracked
        BY <1>1, <2>2 DEF EntryNeeded
      <3>2. QED
        BY <1>1, <2>2, <3>1 DEF SubmitFail
    <2>3. QED
      BY <1>2, <2>1, <2>2
  <1>4. QED
    BY <1>3, FinalizeInv DEF SubmitFail, ctlVars

\* completed(): the callback has already settled the registry.
LEMMA CompletedInv ==
  ASSUME IInv, NEW o \in Obj, Completed(o)
  PROVE  IInv'
  BY FinalizeInv DEF Completed, usbVars, ctlVars

\* finish_usb_transfer(): the registry forgets the transfer, and the entry with
\* its last one unless a close waits for it.
LEMMA FinishInv ==
  ASSUME IInv, NEW d \in Handle, transfers[d] > 0, FinishTransfer(d),
         UNCHANGED closing
  PROVE  /\ transfers' \in [Handle -> Nat]
         /\ transfers' = [transfers EXCEPT ![d] = @ - 1]
         /\ tracked' \in SUBSET Handle
         /\ EntryNeeded'
  <1> USE DEF IInv
  <1>1. transfers[d] \in Nat /\ transfers[d] - 1 \in Nat
    BY DEF TypeOK
  <1>2. transfers' = [transfers EXCEPT ![d] = @ - 1] /\ transfers' \in [Handle -> Nat]
    BY <1>1 DEF FinishTransfer, TypeOK
  <1>3. tracked' \in SUBSET Handle
    BY DEF FinishTransfer, TypeOK
  <1>4. EntryNeeded'
    <2>1. CASE transfers[d] = 1 /\ d \notin closing
      BY <1>1, <1>2, <2>1 DEF FinishTransfer, TypeOK, EntryNeeded
    <2>2. CASE ~(transfers[d] = 1 /\ d \notin closing)
      BY <1>1, <1>2, <2>2 DEF FinishTransfer, TypeOK, EntryNeeded
    <2>3. QED
      BY <2>1, <2>2
  <1>5. QED
    BY <1>2, <1>3, <1>4

\* resume() with an awaitable waiting.
LEMMA TransferDoneInv ==
  ASSUME IInv, NEW x \in Xfer, TransferDone(x)
  PROVE  IInv'
  <1> USE NoneAssumption DEF IInv
  <1> DEFINE d == xdev[x]
             o == xowner[x]
  <1>1. /\ xstate[x] = "inflight" /\ d \in Handle /\ d \in opened
        /\ o \in Obj /\ held[o] = x /\ transfers[d] > 0
    BY InFlightCounts DEF TransferDone, FlightsOpen, StructsOwned, TypeOK
  <1> HIDE DEF d, o
  <1>2. /\ FinishTransfer(d) /\ d = xdev[x] /\ o = xowner[x]
        /\ xstate' = [xstate EXCEPT ![x] = "allocated"]
        /\ pc' = [pc EXCEPT ![o] = "completed"]
        /\ UNCHANGED <<opened, closing, xdev, xowner, held, current, attached, reapers>>
    BY DEF TransferDone, d, o, ctlVars
  <1>3. /\ transfers' \in [Handle -> Nat] /\ tracked' \in SUBSET Handle /\ EntryNeeded'
        /\ transfers' = [transfers EXCEPT ![d] = @ - 1]
    BY <1>1, <1>2, FinishInv
  <1>4. TypeOK'
    BY <1>1, <1>2, <1>3 DEF TypeOK
  <1>5. FlightsOpen'
    BY <1>1, <1>2 DEF TypeOK, FlightsOpen
  <1>6. TransfersCounted'
    BY <1>1, <1>2, <1>3, CountFinish
  <1>7. StructsOwned'
    BY <1>1, <1>2 DEF TypeOK, StructsOwned
  <1>8. NoHandleLeak' /\ DeferredHasReaper' /\ HeldOnCurrent' /\ NoSessionUnattached'
    BY <1>2 DEF NoSessionUnattached, NoHandleLeak, DeferredHasReaper, HeldOnCurrent
  <1>9. QED
    BY <1>3, <1>4, <1>5, <1>6, <1>7, <1>8

\* resume() without one: nobody holds the struct that is freed.
LEMMA OrphanDoneInv ==
  ASSUME IInv, NEW x \in Xfer, OrphanDone(x)
  PROVE  IInv'
  <1> USE NoneAssumption DEF IInv
  <1> DEFINE d == xdev[x]
  <1>1. /\ xstate[x] = "inflight" /\ d \in Handle /\ d \in opened
        /\ xowner[x] = None /\ transfers[d] > 0
    BY InFlightCounts DEF OrphanDone, FlightsOpen, TypeOK
  <1> HIDE DEF d
  <1>2. /\ FinishTransfer(d) /\ d = xdev[x]
        /\ xstate' = [xstate EXCEPT ![x] = "free"]
        /\ UNCHANGED <<opened, closing, xdev, xowner, held, pc, current, attached, reapers>>
    BY DEF OrphanDone, d, ctlVars, objVars
  <1>3. /\ transfers' \in [Handle -> Nat] /\ tracked' \in SUBSET Handle /\ EntryNeeded'
        /\ transfers' = [transfers EXCEPT ![d] = @ - 1]
    BY <1>1, <1>2, FinishInv
  <1>4. TypeOK'
    BY <1>1, <1>2, <1>3 DEF TypeOK
  <1>5. FlightsOpen'
    BY <1>1, <1>2 DEF TypeOK, FlightsOpen
  <1>6. TransfersCounted'
    BY <1>1, <1>2, <1>3, CountFinish
  <1>7. StructsOwned'
    BY <1>1, <1>2 DEF TypeOK, StructsOwned
  <1>8. NoHandleLeak' /\ DeferredHasReaper' /\ HeldOnCurrent' /\ NoSessionUnattached'
    BY <1>2 DEF NoSessionUnattached, NoHandleLeak, DeferredHasReaper, HeldOnCurrent
  <1>9. QED
    BY <1>3, <1>4, <1>5, <1>6, <1>7, <1>8

\* drain_usb_closes(): what is closed has nothing in flight.
LEMMA DrainInv ==
  ASSUME IInv, NEW fresh \in SUBSET Handle, Drain(fresh), UNCHANGED xferVars
  PROVE  /\ opened' \in SUBSET Handle /\ tracked' \in SUBSET Handle
         /\ closing' \in SUBSET Handle /\ transfers' = transfers
         /\ FlightsOpen' /\ TransfersCounted' /\ EntryNeeded'
  <1> USE DEF IInv
  <1>1. /\ opened' \in SUBSET Handle /\ tracked' \in SUBSET Handle
        /\ closing' \in SUBSET Handle /\ transfers' = transfers
        /\ xstate' = xstate /\ xdev' = xdev
    BY DEF Drain, TypeOK, xferVars
  <1>2. \A x \in Xfer : xstate[x] = "inflight" => xdev[x] \notin Drainable
    <2> SUFFICES ASSUME NEW x \in Xfer, xstate[x] = "inflight", xdev[x] \in Drainable
                 PROVE  FALSE
      OBVIOUS
    <2>1. xdev[x] \in Handle /\ transfers[xdev[x]] = 0
      BY DEF Drainable, FlightsOpen
    <2>2. QED
      BY <2>1, InFlightCounts
  <1>3. FlightsOpen'
    BY <1>1, <1>2 DEF Drain, FlightsOpen
  <1>4. TransfersCounted'
    BY <1>1, CountKept
  <1>5. EntryNeeded'
    BY <1>1 DEF Drain, Drainable, EntryNeeded, TypeOK
  <1>6. QED
    BY <1>1, <1>3, <1>4, <1>5

\* reopen(): the drained closes leave room for one new handle.
LEMMA ReopenInv ==
  ASSUME IInv, Reopen
  PROVE  IInv'
  <1> USE NoneAssumption DEF IInv
  <1>1. PICK fresh \in SUBSET Handle :
          /\ Drain(fresh)
          /\ \/ fresh = {} /\ current' = current
             \/ /\ closing \subseteq Drainable
                /\ \E h \in Handle : fresh = {h} /\ current' = h
    BY DEF Reopen
  <1>2. /\ UNCHANGED xferVars /\ UNCHANGED <<held, pc, attached, reapers>> /\ current = None
        /\ xstate' = xstate /\ xowner' = xowner /\ xdev' = xdev
    BY DEF Reopen, objVars, xferVars
  <1>3. /\ opened' \in SUBSET Handle /\ tracked' \in SUBSET Handle
        /\ closing' \in SUBSET Handle /\ transfers' = transfers
        /\ FlightsOpen' /\ TransfersCounted' /\ EntryNeeded'
    BY <1>1, <1>2, DrainInv
  <1>4. TypeOK'
    BY <1>1, <1>2, <1>3 DEF TypeOK
  <1>5. StructsOwned'
    BY <1>2 DEF StructsOwned
  <1>6. HeldOnCurrent'
    BY <1>2 DEF HeldOnCurrent
  <1>7. NoHandleLeak' /\ NoSessionUnattached'
    BY <1>1, <1>2 DEF Reopen, NoHandleLeak, NoSessionUnattached, Drain, Drainable, TypeOK
  <1>8. DeferredHasReaper'
    BY <1>1, <1>2 DEF DeferredHasReaper, Drain
  <1>9. QED
    BY <1>3, <1>4, <1>5, <1>6, <1>7, <1>8

\* USBReaper::reap(): the last reaper ends only when nothing is left to close.
LEMMA ReapInv ==
  ASSUME IInv, Reap
  PROVE  IInv'
  <1> USE NoneAssumption DEF IInv
  <1>1. /\ Drain({}) /\ UNCHANGED xferVars /\ UNCHANGED <<held, pc, current, attached>>
        /\ xstate' = xstate /\ xowner' = xowner /\ xdev' = xdev
    BY DEF Reap, objVars, ctlVars, xferVars
  <1>2. /\ opened' \in SUBSET Handle /\ tracked' \in SUBSET Handle
        /\ closing' \in SUBSET Handle /\ transfers' = transfers
        /\ FlightsOpen' /\ TransfersCounted' /\ EntryNeeded'
    BY <1>1, DrainInv
  <1>3. reapers' \in Nat /\ (closing' # {} => reapers' > 0)
    BY DEF Reap, TypeOK
  <1>4. TypeOK'
    BY <1>1, <1>2, <1>3 DEF TypeOK
  <1>5. StructsOwned' /\ HeldOnCurrent' /\ NoSessionUnattached'
    BY <1>1 DEF StructsOwned, HeldOnCurrent, NoSessionUnattached
  <1>6. NoHandleLeak' /\ DeferredHasReaper'
    BY <1>1, <1>3 DEF NoHandleLeak, DeferredHasReaper, Drain, Drainable
  <1>7. QED
    BY <1>2, <1>4, <1>5, <1>6

\* device_attached(): a handle that was not open becomes the session's.
LEMMA AttachInv ==
  ASSUME IInv, Attach
  PROVE  IInv'
  <1> USE NoneAssumption DEF IInv
  <1>1. /\ current = None
        /\ UNCHANGED <<tracked, transfers, closing, xstate, xdev, xowner, held, pc, reapers>>
        /\ attached' = TRUE
        /\ \/ UNCHANGED <<opened, current>>
           \/ \E h \in Handle \ opened : opened' = opened \cup {h} /\ current' = h
    BY DEF Attach, NoSessionUnattached, xferVars, objVars
  <1>2. TypeOK'
    BY <1>1 DEF TypeOK
  <1>3. FlightsOpen' /\ StructsOwned' /\ DeferredHasReaper' /\ EntryNeeded'
    BY <1>1 DEF FlightsOpen, StructsOwned, DeferredHasReaper, EntryNeeded
  <1>4. TransfersCounted'
    BY <1>1, CountKept
  <1>5. NoHandleLeak' /\ NoSessionUnattached'
    BY <1>1 DEF NoHandleLeak, NoSessionUnattached
  <1>6. HeldOnCurrent'
    BY <1>1 DEF HeldOnCurrent
  <1>7. QED
    BY <1>2, <1>3, <1>4, <1>5, <1>6

\* cleanup_device(): the awaitables let go, then the handle is closed or marked.
LEMMA CleanupInv ==
  ASSUME IInv, NEW ends \in BOOLEAN, Cleanup(ends)
  PROVE  IInv'
  <1> USE NoneAssumption DEF IInv
  <1>1. /\ ReleaseAll /\ DeferClose(current) /\ SpawnReaper
        /\ current' = None /\ attached' = ~ends
        /\ tracked' = tracked /\ transfers' = transfers /\ xdev' = xdev
    BY DEF Cleanup, DeferClose, ReleaseAll
  <1>2. reapers' \in Nat /\ (closing' # {} => reapers' > 0)
    BY <1>1 DEF SpawnReaper, TypeOK
  <1>3. current \in tracked => current \in Handle
    BY DEF TypeOK
  <1>4. /\ opened' \in SUBSET Handle /\ closing' \in SUBSET Handle
    BY <1>1, <1>3 DEF DeferClose, TypeOK
  <1>5. TypeOK'
    BY <1>1, <1>2, <1>4 DEF ReleaseAll, TypeOK
  <1>6. \A x \in Xfer : xstate'[x] = "inflight" <=> xstate[x] = "inflight"
    BY <1>1 DEF ReleaseAll, TypeOK
  <1>7. FlightsOpen'
    <2> SUFFICES ASSUME NEW x \in Xfer, xstate[x] = "inflight"
                 PROVE  xdev[x] \in opened'
      BY <1>1, <1>6 DEF FlightsOpen
    <2>1. xdev[x] \in Handle /\ xdev[x] \in opened /\ transfers[xdev[x]] > 0
      BY InFlightCounts DEF FlightsOpen
    <2>2. xdev[x] \in tracked
      BY <2>1 DEF EntryNeeded
    <2>3. QED
      BY <1>1, <2>1, <2>2 DEF DeferClose
  <1>8. TransfersCounted'
    BY <1>1, <1>6, CountKept
  <1>9. StructsOwned'
    BY <1>1 DEF ReleaseAll, StructsOwned, TypeOK
  <1>10. HeldOnCurrent'
    BY <1>1 DEF ReleaseAll, HeldOnCurrent
  <1>11. NoHandleLeak' /\ NoSessionUnattached'
    BY <1>1, <1>4 DEF DeferClose, NoHandleLeak, NoSessionUnattached, EntryNeeded
  <1>12. EntryNeeded'
    BY <1>1 DEF DeferClose, EntryNeeded
  <1>13. QED
    BY <1>2, <1>5, <1>7, <1>8, <1>9, <1>10, <1>11, <1>12 DEF DeferredHasReaper

\* A stuttering step changes nothing the invariant reads.
LEMMA StutterInv ==
  ASSUME IInv, UNCHANGED vars
  PROVE  IInv'
  <1>1. UNCHANGED <<opened, tracked, transfers, closing, current, attached,
                    xstate, xdev, xowner, held, pc, reapers>>
    BY DEF vars, usbVars, xferVars, objVars, ctlVars
  <1>2. \A h \in Handle : InFlight(h)' = InFlight(h)
    BY <1>1 DEF InFlight
  <1>3. QED
    BY <1>1, <1>2 DEF IInv, TypeOK, FlightsOpen, TransfersCounted, StructsOwned,
         NoHandleLeak, DeferredHasReaper, EntryNeeded, HeldOnCurrent, NoSessionUnattached

\* One case per operation of usb_transfer.hpp and of the controller around it.
LEMMA NextInv == IInv /\ [Next]_vars => IInv'
  <1> SUFFICES ASSUME IInv, [Next]_vars PROVE IInv'
    OBVIOUS
  <1>1. ASSUME NEW o \in Obj, Call(o) \/ SubmitOk(o) \/ SubmitFail(o) \/ Completed(o)
        PROVE  IInv'
    BY <1>1, CallInv, SubmitOkInv, SubmitFailInv, CompletedInv
  <1>2. ASSUME NEW x \in Xfer, TransferDone(x) \/ OrphanDone(x)
        PROVE  IInv'
    BY <1>2, TransferDoneInv, OrphanDoneInv
  <1>3. ASSUME NEW ends \in BOOLEAN, Cleanup(ends)
        PROVE  IInv'
    BY <1>3, CleanupInv
  <1>4. CASE Reopen
    BY <1>4, ReopenInv
  <1>5. CASE Attach
    BY <1>5, AttachInv
  <1>6. CASE Reap
    BY <1>6, ReapInv
  <1>7. CASE UNCHANGED vars
    BY <1>7, StutterInv
  <1>8. QED
    BY <1>1, <1>2, <1>3, <1>4, <1>5, <1>6, <1>7 DEF Next

-----------------------------------------------------------------------------
\* IInv holds in every reachable state (all of usb_transfer.hpp).
LEMMA Invariant == Spec => []IInv
  BY InitInv, NextInv, PTL DEF Spec

\* The registry, the structs and the awaitables keep their types; the counter,
\* a size_t in the code, never goes below zero (finish_usb_transfer).
THEOREM TypeCorrect == Spec => []TypeOK
  BY Invariant, PTL DEF IInv

\* No handle is closed under a transfer in flight (defer_usb_close,
\* drain_usb_closes).
THEOREM NoCloseInFlightHolds == Spec => []NoCloseInFlight
  <1>1. IInv => NoCloseInFlight
    BY DEF IInv, FlightsOpen, NoCloseInFlight
  <1>2. QED
    BY <1>1, Invariant, PTL

\* The counter of submitted transfers is exact (submit, finish_usb_transfer).
THEOREM TransfersCountedHolds == Spec => []TransfersCounted
  BY Invariant, PTL DEF IInv

\* No struct is freed twice, leaked or called back into a destroyed awaitable
\* (release, resume).
THEOREM StructsOwnedHolds == Spec => []StructsOwned
  BY Invariant, PTL DEF IInv

\* What is in flight is counted once and has one owner (submit, resume, release).
THEOREM TransfersAccountedHolds == Spec => []TransfersAccounted
  BY TransfersCountedHolds, StructsOwnedHolds, PTL DEF TransfersAccounted

\* Every open handle is the session's or waits for its close (cleanup_device,
\* reopen, device_attached).
THEOREM NoHandleLeakHolds == Spec => []NoHandleLeak
  BY Invariant, PTL DEF IInv

\* A deferred close always has a reaper left to carry it out (USBReaper::reap).
THEOREM DeferredHasReaperHolds == Spec => []DeferredHasReaper
  BY Invariant, PTL DEF IInv

\* Every open handle has somebody left who will close it (cleanup_device, reap).
THEOREM HandlesAccountedHolds == Spec => []HandlesAccounted
  BY NoHandleLeakHolds, DeferredHasReaperHolds, PTL DEF HandlesAccounted

\* submit() never meets a closing handle (cleanup_device cancels first).
THEOREM SubmitNeverSeesClosingHolds == Spec => []SubmitNeverSeesClosing
  <1>1. IInv => SubmitNeverSeesClosing
    BY DEF IInv, TypeOK, StructsOwned, HeldOnCurrent, NoHandleLeak, SubmitNeverSeesClosing
  <1>2. QED
    BY <1>1, Invariant, PTL
=============================================================================
