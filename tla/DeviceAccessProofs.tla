------------------------- MODULE DeviceAccessProofs -------------------------
(***************************************************************************)
(* Safety of DeviceAccess for any clients, any number of calls and any     *)
(* behaviour of polkit, the users and the bus: a method runs only when its *)
(* call was authorized, a call is in one place and answered once, an       *)
(* operation belongs to the client that holds the claim, and a check that  *)
(* was withdrawn stays so.                                                 *)
(***************************************************************************)
EXTENDS DeviceAccess, FiniteSetTheorems, TLAPS

\* The calls that wait in the queue, and that each waits there once.
Queued == {c \in Call : \E i \in 1 .. Len(queue) : queue[i] = [call |-> c]}
Once   == \A c \in Call : \A i, j \in 1 .. Len(queue) :
            queue[i] = [call |-> c] /\ queue[j] = [call |-> c] => i = j

\* A call waits in the queue, at its gate or with the device task, and is not
\* answered as long as it waits.
OnePlace ==
  /\ Once
  /\ \A c \in Queued : req[c] # None /\ cur # c /\ gates[c] # "pending" /\ replies[c] = 0
  /\ \A c \in Call :
       /\ gates[c] = "authorized" => c \in Queued
       /\ gates[c] = "pending" => cur # c /\ replies[c] = 0
       /\ gates[c] # "none" => req[c] # None /\ req[c].method \in GatedMethods
       /\ req[c] = None => replies[c] = 0
       /\ replies[c] \in {0, 1}

\* What the device task awaits, it awaits for a call that was sent; the uid of a
\* sender is asked for before the call is answered.
Awaits ==
  /\ pc = "run" <=> cur = None
  /\ pc # "run" => req[cur] # None
  /\ pc = "uid" => replies[cur] = 0

\* Authorizations are polkit's, and those that were withdrawn are over.
Authorizations ==
  /\ \A c \in Call : gates[c] = "authorized" => c \in granted
  /\ pc = "uid" /\ req[cur].method \in GatedMethods => cur \in granted
  /\ \A c \in acted : req[c] # None /\ (req[c].method \in GatedMethods => c \in granted)
  /\ \A c \in withdrawn : req[c] # None
  /\ \A c \in withdrawn \ granted : gates[c] = "none" /\ c \notin Queued

\* The operation is the claimer's.
Owned == task # None => req[task] # None /\ claimed = Sender(task)

IInv == TypeOK /\ OnePlace /\ Awaits /\ Authorizations /\ Owned
-----------------------------------------------------------------------------
(* The queue. *)

\* A call is no departure, and each names one.
LEMMA Messaging ==
  /\ \A c, d : [call |-> c] = [call |-> d] => c = d
  /\ \A c, cl : [call |-> c] # [gone |-> cl]
  OBVIOUS

\* A call that does not wait is put at the end (SendCall, check_done).
LEMMA QueueCall ==
  ASSUME IInv, NEW c \in Call, c \notin Queued, queue' = Append(queue, [call |-> c])
  PROVE  queue' \in Seq(Messages) /\ Once' /\ Queued' = Queued \cup {c}
  <1>1. queue \in Seq(Messages) /\ [call |-> c] \in Messages
    BY DEF IInv, TypeOK, Messages
  <1>2. queue' \in Seq(Messages) /\ Len(queue') = Len(queue) + 1
        /\ queue'[Len(queue) + 1] = [call |-> c]
        /\ \A i \in 1 .. Len(queue) : queue'[i] = queue[i]
    BY <1>1
  <1>3. Len(queue) \in Nat
    BY <1>1
  <1>4. \A i \in 1 .. Len(queue) : queue[i] # [call |-> c]
    BY DEF Queued
  <1>5. Once'
    BY <1>2, <1>3, <1>4, Messaging DEF IInv, OnePlace, Once
  <1>6. Queued' = Queued \cup {c}
    BY <1>2, <1>3, Messaging DEF Queued
  <1>7. QED
    BY <1>2, <1>5, <1>6

\* A departure is put at the end (WorkerListen).
LEMMA QueueGone ==
  ASSUME IInv, NEW cl \in Client, queue' = Append(queue, [gone |-> cl])
  PROVE  queue' \in Seq(Messages) /\ Once' /\ Queued' = Queued
  <1>1. queue \in Seq(Messages) /\ [gone |-> cl] \in Messages
    BY DEF IInv, TypeOK, Messages
  <1>2. queue' \in Seq(Messages) /\ Len(queue') = Len(queue) + 1
        /\ queue'[Len(queue) + 1] = [gone |-> cl]
        /\ \A i \in 1 .. Len(queue) : queue'[i] = queue[i]
    BY <1>1
  <1>3. Len(queue) \in Nat
    BY <1>1
  <1>4. Once'
    BY <1>2, <1>3, Messaging DEF IInv, OnePlace, Once
  <1>5. Queued' = Queued
    BY <1>2, <1>3, Messaging DEF Queued
  <1>6. QED
    BY <1>2, <1>4, <1>5

\* The queue is left alone.
LEMMA QueueKept ==
  ASSUME IInv, queue' = queue
  PROVE  queue' \in Seq(Messages) /\ Once' /\ Queued' = Queued
  BY DEF IInv, TypeOK, OnePlace, Once, Queued

\* The first message is taken: its call waits no more, every other does (run).
LEMMA QueueTaken ==
  ASSUME IInv, queue # <<>>, queue' = Tail(queue)
  PROVE  /\ queue' \in Seq(Messages) /\ Once'
         /\ Queued' = {c \in Queued : Head(queue) # [call |-> c]}
         /\ \A c \in Call : Head(queue) = [call |-> c] => c \in Queued
  <1>1. queue \in Seq(Messages)
    BY DEF IInv, TypeOK
  <1>2. queue' \in Seq(Messages) /\ Len(queue) \in Nat \ {0} /\ Len(queue') = Len(queue) - 1
        /\ Head(queue) = queue[1]
        /\ \A i \in 1 .. Len(queue) - 1 : queue'[i] = queue[i + 1]
    BY <1>1
  <1>3. Once
    BY DEF IInv, OnePlace
  <1>4. Once'
    BY <1>2, <1>3 DEF Once
  <1>5. \A c \in Call : Head(queue) = [call |-> c] => c \in Queued
    BY <1>2 DEF Queued
  <1>6. ASSUME NEW c \in Call
        PROVE  c \in Queued' <=> c \in Queued /\ Head(queue) # [call |-> c]
    <2>1. ASSUME c \in Queued'
          PROVE  c \in Queued /\ Head(queue) # [call |-> c]
      <3>1. PICK i \in 1 .. Len(queue') : queue'[i] = [call |-> c]
        BY <2>1 DEF Queued
      <3>2. i + 1 \in 1 .. Len(queue) /\ queue[i + 1] = [call |-> c] /\ i + 1 # 1
        BY <1>2, <3>1
      <3>3. 1 \in 1 .. Len(queue)
        BY <1>2
      <3>4. QED
        BY <1>2, <1>3, <3>2, <3>3 DEF Once, Queued
    <2>2. ASSUME c \in Queued, Head(queue) # [call |-> c]
          PROVE  c \in Queued'
      <3>1. PICK i \in 1 .. Len(queue) : queue[i] = [call |-> c]
        BY <2>2 DEF Queued
      <3>2. i # 1
        BY <1>2, <2>2, <3>1
      <3>3. i - 1 \in 1 .. Len(queue') /\ queue'[i - 1] = [call |-> c]
        BY <1>2, <3>1, <3>2
      <3>4. QED
        BY <3>3 DEF Queued
    <2>3. QED
      BY <2>1, <2>2
  <1>7. Queued' \subseteq Call /\ Queued \subseteq Call
    BY DEF Queued
  <1>8. Queued' = {c \in Queued : Head(queue) # [call |-> c]}
    BY <1>6, <1>7
  <1>9. QED
    BY <1>2, <1>4, <1>5, <1>8
-----------------------------------------------------------------------------
(* The device task. *)

\* The first state (attach).
LEMMA InitInv == Init => IInv
  <1> SUFFICES ASSUME Init PROVE IInv
    OBVIOUS
  <1>1. TypeOK
    BY DEF Init, TypeOK, Messages
  <1>2. Queued = {} /\ Once
    BY DEF Init, Queued, Once
  <1>3. OnePlace /\ Awaits /\ Authorizations /\ Owned
    BY <1>2 DEF Init, OnePlace, Awaits, Authorizations, Owned
  <1>4. QED
    BY <1>1, <1>3 DEF IInv

\* The message with call c is taken, and nothing of the bus or polkit happens.
Takes(c) ==
  /\ pc = "run" /\ queue # <<>> /\ Head(queue) = [call |-> c] /\ queue' = Tail(queue)
  /\ UNCHANGED <<busVars, granted, unwatched>>

\* The gate of c, if it has one, is given up.
GateGone(c) == gates' = [gates EXCEPT ![c] = "none"] /\ UNCHANGED withdrawn

\* Nothing is done and nothing is said.
Silent == BackToRun /\ UNCHANGED <<claimVars, task, replies, acted>>

MayAct(c) == req[c].method \in GatedMethods => c \in granted

\* What taking a call comes to (handle_message, check_sender, check_polkit).
LEMMA HandleCases ==
  ASSUME IInv, NEW c \in Call, c \in Queued, HandleCall(c)
  PROVE  \/ GateGone(c) /\ (Refuse(c) \/ DoStop(c) \/ Silent)
         \/ GateGone(c) /\ MayAct(c) /\ GetUid(c)
         \/ GateGone(c) /\ MayAct(c) /\ claimed = Sender(c) /\ (DoStart(c) \/ DoDelete(c))
         \/ /\ gates' = [Pruned EXCEPT ![c] = "pending"] /\ UNCHANGED withdrawn
            /\ gates[c] = "none" /\ req[c].method \in GatedMethods /\ Silent
         \/ gates[c] = "none" /\ DoRelease(c)
  <1> DEFINE Act == MayAct(c) /\ claimed = Sender(c) /\ (DoStart(c) \/ DoDelete(c))
  <1>1. req[c] # None /\ gates \in [Call -> {"none", "pending", "authorized", "finished"}]
        /\ (gates[c] # "none" => req[c].method \in GatedMethods)
        /\ (gates[c] = "authorized" => c \in granted)
    BY DEF IInv, TypeOK, OnePlace, Authorizations
  <1>2. ASSUME gates[c] = "none", UNCHANGED gateVars
        PROVE  GateGone(c)
    BY <1>1, <1>2 DEF GateGone, gateVars
  <1>3. ASSUME CheckSender(c), MayAct(c), req[c].method \in {"EnrollStart", "VerifyStart", "DeleteEnrolledFinger", "Stop"}
        PROVE  Refuse(c) \/ DoStop(c) \/ Act
    BY <1>3 DEF CheckSender
  <1>4. CASE req[c].method \in UidMethods /\ GetUid(c) /\ UNCHANGED gateVars
    <2>1. req[c].method \notin GatedMethods
      BY <1>4 DEF UidMethods, GatedMethods
    <2>2. QED
      BY <1>1, <1>2, <1>4, <2>1 DEF MayAct
  <1>5. CASE req[c].method \in ClaimMethods /\ CheckSender(c) /\ UNCHANGED gateVars
    <2>1. req[c].method \notin GatedMethods /\ req[c].method \in {"VerifyStart", "Stop"}
      BY <1>5 DEF ClaimMethods, GatedMethods
    <2>2. QED
      BY <1>1, <1>2, <1>3, <1>5, <2>1 DEF MayAct
  <1>6. CASE req[c].method = "Release" /\ HandleCall(c)
    <2>1. gates[c] = "none"
      BY <1>1, <1>6 DEF GatedMethods
    <2>2. IF claimed = Sender(c) THEN DoRelease(c) ELSE Refuse(c) /\ UNCHANGED gateVars
      BY <1>6 DEF HandleCall, UidMethods, GatedMethods, ClaimMethods
    <2>3. QED
      BY <1>2, <2>1, <2>2
  <1>7. CASE req[c].method \in GatedMethods /\ CheckPolkit(c)
    <2>1. CASE /\ gates[c] = "authorized"
               /\ gates' = [gates EXCEPT ![c] = "none"] /\ UNCHANGED withdrawn
               /\ IF req[c].method = "DeleteEnrolledFingers" THEN GetUid(c) ELSE CheckSender(c)
      <3>1. GateGone(c) /\ MayAct(c)
        BY <1>1, <2>1 DEF GateGone, MayAct
      <3>2. req[c].method # "DeleteEnrolledFingers" => req[c].method \in {"EnrollStart", "DeleteEnrolledFinger"}
        BY <1>7 DEF GatedMethods
      <3>3. QED
        BY <1>3, <2>1, <3>1, <3>2
    <2>2. CASE /\ gates' = [gates EXCEPT ![c] = "none"] /\ BackToRun
               /\ UNCHANGED <<withdrawn, claimVars, task, replies, acted>>
      BY <2>2 DEF GateGone, Silent
    <2>3. CASE gates[c] = "none" /\ Refuse(c) /\ UNCHANGED gateVars
      BY <1>2, <2>3
    <2>4. CASE /\ gates[c] = "none" /\ gates' = [Pruned EXCEPT ![c] = "pending"] /\ BackToRun
               /\ UNCHANGED <<withdrawn, claimVars, task, replies, acted>>
      BY <1>7, <2>4 DEF Silent
    <2>5. QED
      BY <1>7, <2>1, <2>2, <2>3, <2>4 DEF CheckPolkit
  <1>8. QED
    BY <1>4, <1>5, <1>6, <1>7 DEF HandleCall

\* What holds of the calls once one of them is taken from the queue.
LEMMA TakenFacts ==
  ASSUME IInv, NEW c \in Call, Takes(c)
  PROVE  /\ queue' \in Seq(Messages) /\ Once' /\ Queued' = Queued \ {c}
         /\ c \in Queued /\ req[c] # None /\ cur = None /\ replies[c] = 0
         /\ UNCHANGED <<alive, req, granted, unwatched>>
  <1>1. queue # <<>> /\ queue' = Tail(queue) /\ Head(queue) = [call |-> c]
    BY DEF Takes
  <1>2. c \in Queued /\ queue' \in Seq(Messages) /\ Once'
        /\ Queued' = {d \in Queued : [call |-> c] # [call |-> d]}
    BY <1>1, QueueTaken
  <1>3. Queued' = Queued \ {c}
    BY <1>2, Messaging
  <1>4. QED
    BY <1>2, <1>3 DEF IInv, OnePlace, Awaits, Takes, busVars

\* A call that lost its gate is refused, dropped or stops the operation.
LEMMA AnswerInv ==
  ASSUME IInv, NEW c \in Call, Takes(c), GateGone(c), Refuse(c) \/ DoStop(c) \/ Silent
  PROVE  IInv'
  <1>1. /\ UNCHANGED <<claimed, watch, listener, task, acted>>
        /\ replies' \in {replies, [replies EXCEPT ![c] = @ + 1]}
        /\ \/ pc' = "run" /\ cur' = None
           \/ pc' = "stopping" /\ cur' = c
    BY DEF Refuse, DoStop, Silent, Reply, BackToRun, claimVars
  <1>2. TypeOK'
    BY <1>1, TakenFacts DEF IInv, TypeOK, GateGone
  <1>3. OnePlace'
    <2>1. /\ \A d \in Call \ {c} : gates'[d] = gates[d] /\ replies'[d] = replies[d]
          /\ gates'[c] = "none" /\ replies'[c] \in {0, 1}
      BY <1>1, TakenFacts DEF IInv, TypeOK, GateGone
    <2>2. cur' \in {None, c} /\ c \notin Queued' /\ \A d \in Queued : d \in Call
      BY <1>1, TakenFacts DEF Queued
    <2>3. OnePlace /\ c \in Queued /\ req' = req /\ req[c] # None /\ Once' /\ Queued' = Queued \ {c}
      BY TakenFacts DEF IInv
    <2>4. ASSUME NEW d \in Queued'
          PROVE  req'[d] # None /\ cur' # d /\ gates'[d] # "pending" /\ replies'[d] = 0
      <3>1. d \in Queued /\ d \in Call \ {c} /\ d # None
        BY <2>2, <2>3, <2>4, NoneAssumption
      <3>2. cur' # d
        BY <2>2, <3>1
      <3>3. QED
        BY <2>1, <2>3, <3>1, <3>2 DEF OnePlace
    <2>5. ASSUME NEW d \in Call
          PROVE  /\ gates'[d] = "authorized" => d \in Queued'
                 /\ gates'[d] = "pending" => cur' # d /\ replies'[d] = 0
                 /\ gates'[d] # "none" => req'[d] # None /\ req'[d].method \in GatedMethods
                 /\ req'[d] = None => replies'[d] = 0
                 /\ replies'[d] \in {0, 1}
      <3>1. CASE d = c
        BY <2>1, <2>3, <3>1
      <3>2. CASE d # c
        <4>1. d # None /\ cur' # d
          BY <2>2, <3>2, NoneAssumption
        <4>2. gates'[d] = gates[d] /\ replies'[d] = replies[d]
          BY <2>1, <3>2
        <4>3. QED
          BY <2>3, <3>2, <4>1, <4>2 DEF OnePlace
      <3>3. QED
        BY <3>1, <3>2
    <2>6. QED
      BY <2>3, <2>4, <2>5 DEF OnePlace
  <1>4. Awaits'
    BY <1>1, TakenFacts, NoneAssumption DEF IInv, TypeOK, Awaits
  <1>5. Authorizations'
    BY <1>1, TakenFacts DEF IInv, TypeOK, Authorizations, GateGone
  <1>6. Owned'
    BY <1>1, TakenFacts DEF IInv, Owned, Sender
  <1>7. QED
    BY <1>2, <1>3, <1>4, <1>5, <1>6 DEF IInv

\* The sender's uid is asked for (get_uid).
LEMMA GetUidInv ==
  ASSUME IInv, NEW c \in Call, Takes(c), GateGone(c), MayAct(c), GetUid(c)
  PROVE  IInv'
  <1>1. UNCHANGED <<claimed, watch, listener, task, acted, replies>> /\ pc' = "uid" /\ cur' = c
    BY DEF GetUid, claimVars
  <1>2. TypeOK'
    BY <1>1, TakenFacts DEF IInv, TypeOK, GateGone
  <1>3. OnePlace'
    BY <1>1, TakenFacts DEF IInv, TypeOK, OnePlace, GateGone
  <1>4. Awaits'
    BY <1>1, TakenFacts, NoneAssumption DEF IInv, TypeOK, Awaits
  <1>5. Authorizations'
    BY <1>1, TakenFacts DEF IInv, TypeOK, Authorizations, GateGone, MayAct
  <1>6. Owned'
    BY <1>1, TakenFacts DEF IInv, Owned, Sender
  <1>7. QED
    BY <1>2, <1>3, <1>4, <1>5, <1>6 DEF IInv

\* The claimer's call runs (enroll_verify_start, delete_enrolled_finger).
LEMMA ActInv ==
  ASSUME IInv, NEW c \in Call, Takes(c), GateGone(c), MayAct(c), claimed = Sender(c),
         DoStart(c) \/ DoDelete(c)
  PROVE  IInv'
  <1>1. /\ UNCHANGED <<claimed, watch, listener>>
        /\ pc' = "run" /\ cur' = None
        /\ replies' = [replies EXCEPT ![c] = @ + 1]
        /\ acted' \in {acted, acted \cup {c}}
        /\ task' \in {task, c}
    BY DEF DoStart, DoDelete, Refuse, Reply, BackToRun, claimVars
  <1>2. TypeOK'
    BY <1>1, TakenFacts DEF IInv, TypeOK, GateGone
  <1>3. OnePlace'
    BY <1>1, TakenFacts, NoneAssumption DEF IInv, TypeOK, OnePlace, GateGone
  <1>4. Awaits'
    BY <1>1, TakenFacts DEF Awaits
  <1>5. Authorizations'
    BY <1>1, TakenFacts DEF IInv, TypeOK, Authorizations, GateGone, MayAct
  <1>6. Owned'
    BY <1>1, TakenFacts DEF IInv, Owned, Sender
  <1>7. QED
    BY <1>2, <1>3, <1>4, <1>5, <1>6 DEF IInv

\* A new call gets a gate of its own, finished ones go (check_polkit).
LEMMA NewGateInv ==
  ASSUME IInv, NEW c \in Call, Takes(c), gates' = [Pruned EXCEPT ![c] = "pending"],
         UNCHANGED withdrawn, gates[c] = "none", req[c].method \in GatedMethods, Silent
  PROVE  IInv'
  <1>1. UNCHANGED <<claimed, watch, listener, task, acted, replies>> /\ pc' = "run" /\ cur' = None
    BY DEF Silent, BackToRun, claimVars
  <1>2. gates' = [d \in Call |-> IF d = c THEN "pending" ELSE IF gates[d] = "finished" THEN "none" ELSE gates[d]]
    BY DEF Pruned
  <1>3. TypeOK'
    BY <1>1, <1>2, TakenFacts DEF IInv, TypeOK
  <1>4. OnePlace'
    <2>1. \A d \in Call :
            gates'[d] = IF d = c THEN "pending" ELSE IF gates[d] = "finished" THEN "none" ELSE gates[d]
      BY <1>2
    <2>2. \A d \in Queued : d \in Call
      BY DEF Queued
    <2>3. QED
      BY <1>1, <2>1, <2>2, TakenFacts, NoneAssumption DEF IInv, OnePlace
  <1>5. Awaits'
    BY <1>1, TakenFacts DEF Awaits
  <1>6. Authorizations'
    BY <1>1, <1>2, TakenFacts DEF IInv, TypeOK, Authorizations
  <1>7. Owned'
    BY <1>1, TakenFacts DEF IInv, Owned, Sender
  <1>8. QED
    BY <1>3, <1>4, <1>5, <1>6, <1>7 DEF IInv

\* What withdrawing the calls of a client does to gates (drop_auth_gates).
LEMMA Dropped ==
  ASSUME IInv, NEW cl \in Client, DropAuthGates(cl)
  PROVE  /\ gates' \in [Call -> {"none", "pending", "authorized", "finished"}]
         /\ \A d \in Call : \/ gates'[d] \in {gates[d], "none"}
                            \/ gates[d] = "authorized" /\ gates'[d] = "finished"
         /\ withdrawn' \in SUBSET Call
         /\ \A d \in withdrawn' :
              \/ d \in withdrawn /\ (gates[d] = "none" => gates'[d] = "none")
              \/ req[d] # None /\ gates[d] = "authorized"
              \/ req[d] # None /\ gates[d] = "pending" /\ gates'[d] = "none"
  <1> DEFINE mine == {c \in Sent : Sender(c) = cl /\ gates[c] # "none"}
  <1>1. /\ gates' = [c \in Call |-> IF c \notin mine THEN gates[c]
                                    ELSE IF gates[c] = "authorized" THEN "finished" ELSE "none"]
        /\ withdrawn' = withdrawn \cup {c \in mine : gates[c] # "finished"}
    BY DEF DropAuthGates
  <1>2. \A d \in mine : d \in Call /\ req[d] # None
    BY DEF Sent
  <1> HIDE DEF mine
  <1>3. gates \in [Call -> {"none", "pending", "authorized", "finished"}] /\ withdrawn \subseteq Call
    BY DEF IInv, TypeOK
  <1>4. gates' \in [Call -> {"none", "pending", "authorized", "finished"}]
    BY <1>1, <1>3
  <1>5. \A d \in Call :
          gates'[d] = IF d \notin mine THEN gates[d] ELSE IF gates[d] = "authorized" THEN "finished" ELSE "none"
    BY <1>1
  <1>6. withdrawn' \in SUBSET Call
    BY <1>1, <1>2, <1>3
  <1>7. \A d \in Call : \/ gates'[d] \in {gates[d], "none"}
                        \/ gates[d] = "authorized" /\ gates'[d] = "finished"
    BY <1>5
  <1>8. ASSUME NEW d \in withdrawn'
        PROVE  \/ d \in withdrawn /\ (gates[d] = "none" => gates'[d] = "none")
               \/ req[d] # None /\ gates[d] = "authorized"
               \/ req[d] # None /\ gates[d] = "pending" /\ gates'[d] = "none"
    <2>1. d \in Call
      BY <1>6
    <2>2. CASE d \in withdrawn
      BY <1>7, <2>1, <2>2
    <2>3. CASE d \in mine /\ gates[d] # "finished"
      <3>1. gates[d] # "none" /\ gates[d] \in {"pending", "authorized"}
        BY <1>3, <2>1, <2>3 DEF mine
      <3>2. QED
        BY <1>2, <1>5, <2>1, <2>3, <3>1
    <2>4. QED
      BY <1>1, <2>2, <2>3
  <1>9. QED
    BY <1>4, <1>6, <1>7, <1>8

\* What is left of the calls and their gates when a client's are withdrawn.
LEMMA DroppedAuthorizations ==
  ASSUME IInv, NEW cl \in Client, DropAuthGates(cl), Queued' \subseteq Queued,
         UNCHANGED <<req, granted, acted>>, pc' = "run"
  PROVE  Authorizations'
  <1>1. \A d \in Call : gates[d] = "pending" => d \notin Queued
    BY DEF IInv, OnePlace
  <1>2. QED
    BY <1>1, Dropped DEF IInv, TypeOK, Authorizations

\* release() lets go of claim, operation and gates.
LEMMA ReleaseInv ==
  ASSUME IInv, NEW c \in Call, Takes(c), gates[c] = "none", DoRelease(c)
  PROVE  IInv'
  <1>1. /\ claimed' = None /\ watch' = None /\ task' = None /\ acted' = acted
        /\ pc' = "run" /\ cur' = None
        /\ replies' = [replies EXCEPT ![c] = @ + 1]
        /\ DropAuthGates(Sender(c))
    BY DEF DoRelease, Reply, BackToRun
  <1>2. Sender(c) \in Client
    BY TakenFacts DEF IInv, TypeOK, Sender
  <1>3. listener' \in [Call -> {"none", "adding", "installed", "removing"}]
    <2>1. listener \in [Call -> {"none", "adding", "installed", "removing"}]
      BY DEF IInv, TypeOK
    <2>2. listener' = listener
          \/ listener' = [listener EXCEPT ![watch] =
               CASE @ = "installed" -> "removing" [] @ = "adding" -> "none" [] OTHER -> @]
      BY DEF DoRelease
    <2>3. (CASE listener[watch] = "installed" -> "removing" [] listener[watch] = "adding" -> "none"
             [] OTHER -> listener[watch]) \in {"removing", "none", listener[watch]}
      OBVIOUS
    <2>4. listener' = listener \/ \E s \in {"removing", "none", listener[watch]} :
                                   listener' = [listener EXCEPT ![watch] = s]
      BY <2>2, <2>3, Zenon
    <2>5. QED
      BY <2>1, <2>4
  <1>4. TypeOK'
    <2>1. gates' \in [Call -> {"none", "pending", "authorized", "finished"}] /\ withdrawn' \in SUBSET Call
      BY <1>1, <1>2, Dropped
    <2>2. TypeOK /\ UNCHANGED <<alive, req, granted, unwatched>> /\ queue' \in Seq(Messages)
      BY TakenFacts DEF IInv
    <2>3. replies' \in [Call -> Nat]
      BY <1>1, <2>2 DEF TypeOK
    <2>4. QED
      BY <1>1, <1>3, <2>1, <2>2, <2>3 DEF TypeOK
  <1>5. OnePlace'
    <2>1. \A d \in Call : (d # c => replies'[d] = replies[d]) /\ replies'[c] = 1
      BY <1>1, TakenFacts DEF IInv, TypeOK
    <2>2. gates'[c] = "none" /\ \A d \in Queued : d \in Call
      BY <1>1, <1>2, Dropped DEF Queued
    <2>3. \A d \in Call : \/ gates'[d] \in {gates[d], "none"}
                          \/ gates[d] = "authorized" /\ gates'[d] = "finished"
      BY <1>1, <1>2, Dropped
    <2>4. QED
      BY <1>1, <2>1, <2>2, <2>3, TakenFacts, NoneAssumption DEF IInv, OnePlace
  <1>6. Awaits'
    BY <1>1 DEF Awaits
  <1>7. Authorizations'
    BY <1>1, <1>2, TakenFacts, DroppedAuthorizations
  <1>8. Owned'
    BY <1>1 DEF Owned
  <1>9. QED
    BY <1>4, <1>5, <1>6, <1>7, <1>8 DEF IInv

\* The claim of a client that vanished goes, and the operation with it
\* (name_owner_changed).
LEMMA GoneInv ==
  ASSUME IInv, NEW cl \in Client, pc = "run", queue # <<>>, Head(queue) = [gone |-> cl],
         queue' = Tail(queue), UNCHANGED <<busVars, granted, unwatched>>, NameOwnerChanged(cl)
  PROVE  IInv'
  <1>1. /\ claimed' = None /\ task' = None
        /\ pc' = "run" /\ cur' = None
        /\ UNCHANGED <<alive, req, granted, unwatched, watch, listener, replies, acted>>
        /\ DropAuthGates(cl)
    BY DEF NameOwnerChanged, BackToRun, busVars
  <1>2. queue' \in Seq(Messages) /\ Once' /\ Queued' = Queued
    <2>1. Queued' = {c \in Queued : Head(queue) # [call |-> c]} /\ queue' \in Seq(Messages) /\ Once'
      BY QueueTaken
    <2>2. QED
      BY <2>1, Messaging
  <1>3. TypeOK'
    BY <1>1, <1>2, Dropped DEF IInv, TypeOK
  <1>4. OnePlace'
    <2>1. \A d \in Queued : d \in Call
      BY DEF Queued
    <2>2. \A d \in Call : \/ gates'[d] \in {gates[d], "none"}
                          \/ gates[d] = "authorized" /\ gates'[d] = "finished"
      BY <1>1, Dropped
    <2>3. QED
      BY <1>1, <1>2, <2>1, <2>2, NoneAssumption DEF IInv, OnePlace
  <1>5. Awaits'
    BY <1>1 DEF Awaits
  <1>6. Authorizations'
    BY <1>1, <1>2, DroppedAuthorizations
  <1>7. Owned'
    BY <1>1 DEF Owned
  <1>8. QED
    BY <1>3, <1>4, <1>5, <1>6, <1>7 DEF IInv

\* Whatever message is taken (run).
LEMMA DispatchInv ==
  ASSUME IInv, Dispatch
  PROVE  IInv'
  <1>1. ASSUME NEW c \in Call, Head(queue) = [call |-> c], HandleCall(c)
        PROVE  IInv'
    <2>1. Takes(c)
      BY <1>1 DEF Dispatch, Takes
    <2>2. c \in Queued
      BY <2>1, TakenFacts
    <2>3. QED
      BY <1>1, <2>1, <2>2, HandleCases, AnswerInv, GetUidInv, ActInv, NewGateInv, ReleaseInv
  <1>2. ASSUME NEW cl \in Client, Head(queue) = [gone |-> cl], NameOwnerChanged(cl)
        PROVE  IInv'
    BY <1>2, GoneInv DEF Dispatch
  <1>3. QED
    BY <1>1, <1>2 DEF Dispatch

-----------------------------------------------------------------------------
(* The other steps. *)

\* A call is sent (SendCall).
LEMMA SendInv ==
  ASSUME IInv, NEW c \in Call, SendCall(c)
  PROVE  IInv'
  <1>1. /\ req[c] = None
        /\ \A d \in Call \ {c} : req'[d] = req[d]
        /\ req'[c] \in [from : Client, method : Method]
        /\ req' \in [Call -> [from : Client, method : Method] \cup {None}]
        /\ alive \subseteq Client
    BY DEF IInv, TypeOK, SendCall
  <1>2. /\ queue' = Append(queue, [call |-> c])
        /\ UNCHANGED <<alive, pc, cur, claimed, watch, listener, gates, withdrawn, task, replies,
                       granted, acted, unwatched>>
    BY DEF SendCall, claimVars, gateVars, historyVars
  <1>3. req'[c] # None
    BY <1>1, NoneAssumption
  <1>4. c \notin Queued /\ gates[c] = "none" /\ cur # c /\ replies[c] = 0 /\ task # c
        /\ c \notin acted /\ c \notin withdrawn
    BY <1>1, NoneAssumption DEF IInv, TypeOK, OnePlace, Awaits, Authorizations, Owned
  <1>5. queue' \in Seq(Messages) /\ Once' /\ Queued' = Queued \cup {c}
    BY <1>2, <1>4, QueueCall
  <1>6. TypeOK'
    BY <1>1, <1>2, <1>5 DEF IInv, TypeOK
  <1>7. OnePlace'
    <2>1. \A d \in Queued : d \in Call
      BY DEF Queued
    <2>2. QED
      BY <1>1, <1>2, <1>3, <1>4, <1>5, <2>1 DEF IInv, OnePlace
  <1>8. Awaits'
    BY <1>1, <1>2, <1>4, NoneAssumption DEF IInv, TypeOK, Awaits
  <1>9. Authorizations'
    BY <1>1, <1>2, <1>4, <1>5, NoneAssumption DEF IInv, TypeOK, Awaits, Authorizations
  <1>10. Owned'
    BY <1>1, <1>2, <1>4 DEF IInv, TypeOK, Owned, Sender
  <1>11. QED
    BY <1>6, <1>7, <1>8, <1>9, <1>10 DEF IInv

\* A client vanishes (Vanish).
LEMMA VanishInv ==
  ASSUME IInv, NEW cl \in Client, Vanish(cl)
  PROVE  IInv'
  <1>1. /\ alive' \subseteq Client /\ unwatched' \subseteq Client
        /\ queue' \in {queue, Append(queue, [gone |-> cl])}
        /\ UNCHANGED <<req, pc, cur, claimed, watch, listener, gates, withdrawn, task, replies, granted, acted>>
    BY DEF IInv, TypeOK, Vanish, claimVars, gateVars
  <1>2. queue' \in Seq(Messages) /\ Once' /\ Queued' = Queued
    BY <1>1, QueueGone, QueueKept
  <1>3. TypeOK'
    BY <1>1, <1>2 DEF IInv, TypeOK
  <1>4. OnePlace' /\ Awaits' /\ Authorizations' /\ Owned'
    BY <1>1, <1>2 DEF IInv, OnePlace, Awaits, Authorizations, Owned, Sender
  <1>5. QED
    BY <1>3, <1>4 DEF IInv

\* The match rule of a listener is added or removed (WorkerListen).
LEMMA ListenInv ==
  ASSUME IInv, NEW c \in Call, AddMatchReply(c) \/ RemoveMatchDone(c)
  PROVE  IInv'
  <1>1. /\ listener' \in [Call -> {"none", "adding", "installed", "removing"}]
        /\ UNCHANGED <<alive, req, queue, pc, cur, claimed, watch, gates, withdrawn, task, replies,
                       granted, acted, unwatched>>
    BY DEF IInv, TypeOK, AddMatchReply, RemoveMatchDone, busVars, gateVars, historyVars
  <1>2. queue' \in Seq(Messages) /\ Once' /\ Queued' = Queued
    BY <1>1, QueueKept
  <1>3. TypeOK'
    BY <1>1, <1>2 DEF IInv, TypeOK
  <1>4. OnePlace' /\ Awaits' /\ Authorizations' /\ Owned'
    BY <1>1, <1>2 DEF IInv, OnePlace, Awaits, Authorizations, Owned, Sender
  <1>5. QED
    BY <1>3, <1>4 DEF IInv

\* polkit authorizes a call, which waits in the queue again (check_done).
LEMMA GrantInv ==
  ASSUME IInv, NEW c \in Call, GateGrant(c)
  PROVE  IInv'
  <1>1. /\ gates[c] = "pending" /\ granted' = granted \cup {c}
        /\ gates' = [gates EXCEPT ![c] = "authorized"]
        /\ queue' = Append(queue, [call |-> c])
        /\ UNCHANGED <<alive, req, pc, cur, claimed, watch, listener, withdrawn, task, replies, acted, unwatched>>
    BY DEF GateGrant, busVars, claimVars
  <1>2. c \notin Queued /\ req[c] # None /\ req[c].method \in GatedMethods /\ cur # c /\ replies[c] = 0
    BY <1>1 DEF IInv, OnePlace
  <1>3. queue' \in Seq(Messages) /\ Once' /\ Queued' = Queued \cup {c}
    BY <1>1, <1>2, QueueCall
  <1>4. /\ \A d \in Call \ {c} : gates'[d] = gates[d]
        /\ gates'[c] = "authorized"
        /\ \A d \in Queued : d \in Call
    BY <1>1 DEF IInv, TypeOK, Queued
  <1>5. TypeOK'
    BY <1>1, <1>3 DEF IInv, TypeOK
  <1>6. OnePlace'
    BY <1>1, <1>2, <1>3, <1>4 DEF IInv, OnePlace
  <1>7. Awaits' /\ Owned'
    BY <1>1 DEF IInv, Awaits, Owned, Sender
  <1>8. Authorizations'
    BY <1>1, <1>2, <1>3, <1>4 DEF IInv, TypeOK, Authorizations
  <1>9. QED
    BY <1>5, <1>6, <1>7, <1>8 DEF IInv

\* polkit denies a call, which is answered by its gate (deny).
LEMMA DenyInv ==
  ASSUME IInv, NEW c \in Call, GateDeny(c)
  PROVE  IInv'
  <1>1. /\ gates[c] = "pending"
        /\ gates' = [gates EXCEPT ![c] = "finished"]
        /\ replies' = [replies EXCEPT ![c] = @ + 1]
        /\ UNCHANGED <<alive, req, queue, pc, cur, claimed, watch, listener, withdrawn, task,
                       granted, acted, unwatched>>
    BY DEF GateDeny, busVars, claimVars, historyVars
  <1>2. c \notin Queued /\ req[c] # None /\ req[c].method \in GatedMethods /\ cur # c /\ replies[c] = 0
    BY <1>1 DEF IInv, OnePlace
  <1>3. queue' \in Seq(Messages) /\ Once' /\ Queued' = Queued
    BY <1>1, QueueKept
  <1>4. /\ \A d \in Call \ {c} : gates'[d] = gates[d] /\ replies'[d] = replies[d]
        /\ gates'[c] = "finished" /\ replies'[c] = 1
        /\ \A d \in Queued : d \in Call
    BY <1>1, <1>2 DEF IInv, TypeOK, Queued
  <1>5. TypeOK'
    BY <1>1, <1>3 DEF IInv, TypeOK
  <1>6. OnePlace'
    BY <1>1, <1>2, <1>3, <1>4 DEF IInv, OnePlace
  <1>7. Awaits' /\ Owned'
    <2>1. pc = "uid" => cur \in Call
      BY DEF IInv, TypeOK, Awaits
    <2>2. QED
      BY <1>1, <1>2, <1>4, <2>1 DEF IInv, Awaits, Owned, Sender
  <1>8. Authorizations'
    BY <1>1, <1>3, <1>4 DEF IInv, TypeOK, Authorizations
  <1>9. QED
    BY <1>5, <1>6, <1>7, <1>8 DEF IInv

\* The uid arrives: the call is refused, claims, or deletes (check_uid, claim).
LEMMA UidReplyInv ==
  ASSUME IInv, UidReply
  PROVE  IInv'
  <1>1. /\ pc = "uid" /\ cur \in Call /\ req[cur] # None /\ replies[cur] = 0
        /\ UNCHANGED <<alive, req, queue, gates, withdrawn, granted, unwatched>>
    BY DEF IInv, TypeOK, Awaits, UidReply, busVars, gateVars
  <1>2. Refuse(cur) \/ DoClaim(cur) \/ (req[cur].method = "DeleteEnrolledFingers" /\ DoDelete(cur))
    BY DEF UidReply
  <1>3. /\ pc' = "run" /\ cur' = None /\ task' = task
        /\ replies' = [replies EXCEPT ![cur] = @ + 1]
        /\ acted' = acted \/ (acted' = acted \cup {cur} /\ req[cur].method = "DeleteEnrolledFingers")
    BY <1>2 DEF Refuse, DoClaim, DoDelete, Reply, BackToRun
  <1>4. /\ claimed' \in {claimed, Sender(cur)} /\ (claimed # None => claimed' = claimed)
        /\ watch' \in {watch, cur}
        /\ listener' \in {listener, [listener EXCEPT ![cur] = "adding"]}
    BY <1>2 DEF Refuse, DoClaim, DoDelete, claimVars
  <1>5. Sender(cur) \in Client
    BY <1>1 DEF IInv, TypeOK, Sender
  <1>6. queue' \in Seq(Messages) /\ Once' /\ Queued' = Queued
    BY <1>1, QueueKept
  <1>7. TypeOK'
    BY <1>1, <1>3, <1>4, <1>5, <1>6 DEF IInv, TypeOK
  <1>8. OnePlace'
    <2>1. \A d \in Call \ {cur} : replies'[d] = replies[d]
      BY <1>1, <1>3 DEF IInv, TypeOK
    <2>2. replies'[cur] = 1 /\ cur \notin Queued /\ gates[cur] # "pending"
      BY <1>1, <1>3 DEF IInv, TypeOK, OnePlace
    <2>3. \A d \in Queued : d \in Call
      BY DEF Queued
    <2>4. QED
      BY <1>1, <1>3, <1>6, <2>1, <2>2, <2>3, NoneAssumption DEF IInv, OnePlace
  <1>9. Awaits'
    BY <1>3 DEF Awaits
  <1>10. Authorizations'
    <2>1. req[cur].method = "DeleteEnrolledFingers" => cur \in granted
      BY <1>1 DEF IInv, Authorizations, GatedMethods
    <2>2. QED
      BY <1>1, <1>3, <1>6, <2>1 DEF IInv, Authorizations
  <1>11. Owned'
    <2>1. task # None => claimed # None
      BY NoneAssumption DEF IInv, TypeOK, Owned, Sender
    <2>2. QED
      BY <1>1, <1>3, <1>4, <2>1 DEF IInv, Owned, Sender
  <1>12. QED
    BY <1>7, <1>8, <1>9, <1>10, <1>11 DEF IInv

\* The device lets go of the operation (send_enroll_stop).
LEMMA SendEnrollStopInv ==
  ASSUME IInv, SendEnrollStop
  PROVE  IInv'
  <1>1. /\ pc' = "run" /\ cur' = None /\ task' = None
        /\ UNCHANGED <<alive, req, queue, claimed, watch, listener, gates, withdrawn, replies,
                       granted, acted, unwatched>>
    BY DEF SendEnrollStop, BackToRun, busVars, claimVars, gateVars, historyVars
  <1>2. queue' \in Seq(Messages) /\ Once' /\ Queued' = Queued
    BY <1>1, QueueKept
  <1>3. TypeOK'
    BY <1>1, <1>2 DEF IInv, TypeOK
  <1>4. OnePlace'
    <2>1. \A d \in Queued : d \in Call
      BY DEF Queued
    <2>2. QED
      BY <1>1, <1>2, <2>1, NoneAssumption DEF IInv, OnePlace
  <1>5. Awaits' /\ Authorizations' /\ Owned'
    BY <1>1, <1>2 DEF IInv, Awaits, Authorizations, Owned
  <1>6. QED
    BY <1>3, <1>4, <1>5 DEF IInv

\* Every step of the bus, of polkit and of the device task keeps IInv.
LEMMA NextInv == IInv /\ [Next]_vars => IInv'
  <1> SUFFICES ASSUME IInv, [Next]_vars PROVE IInv'
    OBVIOUS
  <1>1. CASE UNCHANGED vars
    <2>1. UNCHANGED <<alive, req, queue, pc, cur, claimed, watch, listener, gates, withdrawn, task,
                      replies, granted, acted, unwatched>>
      BY <1>1 DEF vars, busVars, claimVars, gateVars, historyVars
    <2>2. queue' \in Seq(Messages) /\ Once' /\ Queued' = Queued
      BY <2>1, QueueKept
    <2>3. TypeOK'
      BY <2>1 DEF IInv, TypeOK
    <2>4. OnePlace' /\ Awaits' /\ Authorizations' /\ Owned'
      BY <2>1, <2>2 DEF IInv, OnePlace, Awaits, Authorizations, Owned, Sender
    <2>5. QED
      BY <2>3, <2>4 DEF IInv
  <1>2. CASE Next
    BY <1>2, SendInv, ListenInv, GrantInv, DenyInv, VanishInv, DispatchInv, UidReplyInv, SendEnrollStopInv
       DEF Next
  <1>3. QED
    BY <1>1, <1>2

-----------------------------------------------------------------------------
\* IInv holds in every reachable state of the device task (WorkerDevice).
LEMMA Invariant == Spec => []IInv
  BY InitInv, NextInv, PTL DEF Spec

\* Every call, gate and listener keeps its type, and the device task awaits one
\* thing at a time (WorkerDevice).
THEOREM TypeCorrect == Spec => []TypeOK
  <1>1. IInv => TypeOK
    BY DEF IInv
  <1>2. QED
    BY <1>1, Invariant, PTL

\* A state-changing method runs for a call only after polkit has authorized that
\* very call (check_polkit, WorkerPolkitGate).
THEOREM ActsOnlyIfGrantedHolds == Spec => []ActsOnlyIfGranted
  <1>1. IInv => ActsOnlyIfGranted
    BY DEF IInv, Authorizations, ActsOnlyIfGranted
  <1>2. QED
    BY <1>1, Invariant, PTL

\* A call is handled, and answered, once, whether its gate or the device task
\* answers it (deny, check_polkit).
THEOREM AnsweredOnceHolds == Spec => []AnsweredOnce
  <1>1. IInv => AtMostOneReply
    BY DEF IInv, OnePlace, AtMostOneReply
  <1>2. ASSUME IInv, NEW c \in Call
        PROVE  InQueue([call |-> c]) <=> c \in Queued
    <2>1. DOMAIN queue = 1 .. Len(queue)
      BY <1>2 DEF IInv, TypeOK
    <2>2. QED
      BY <2>1 DEF InQueue, ToSet, Queued
  <1>3. ASSUME IInv, NEW c \in Call
        PROVE  Cardinality({i \in DOMAIN queue : queue[i] = [call |-> c]}) <= 1
    <2> DEFINE At == {i \in DOMAIN queue : queue[i] = [call |-> c]}
    <2>1. \A i, j \in At : i = j
      BY <1>3 DEF IInv, TypeOK, OnePlace, Once
    <2>2. CASE At = {}
      BY <2>2, FS_EmptySet
    <2>3. CASE At # {}
      <3>1. PICK i \in At : TRUE
        BY <2>3
      <3>2. At = {i}
        BY <2>1, <3>1
      <3>3. Cardinality(At) = 1
        BY <3>2, FS_Singleton
      <3>4. QED
        BY <3>3
    <2>4. QED
      BY <2>2, <2>3
  <1>4. IInv => CallInOnePlace
    <2>1. ASSUME IInv, NEW c \in Call
          PROVE  /\ gates[c] = "authorized" => c \in Queued
                 /\ gates[c] = "pending" => c \notin Queued /\ cur # c
                 /\ cur = c => c \notin Queued
      BY <2>1 DEF IInv, OnePlace
    <2>2. QED
      BY <1>2, <1>3, <2>1 DEF CallInOnePlace
  <1>5. QED
    BY <1>1, <1>4, Invariant, PTL DEF AnsweredOnce

\* The operation the device holds was started by the client that holds the claim
\* (release, name_owner_changed, send_enroll_stop).
THEOREM OperationBelongsToClaimerHolds == Spec => []OperationBelongsToClaimer
  <1>1. IInv => OperationBelongsToClaimer
    BY DEF IInv, Owned, OperationBelongsToClaimer
  <1>2. QED
    BY <1>1, Invariant, PTL

\* A check that was withdrawn before its answer came is over for good
\* (drop_auth_gates).
THEOREM CancelledCheckIsFinalHolds == Spec => []CancelledCheckIsFinal
  <1>1. IInv => CancelledCheckIsFinal
    <2> SUFFICES ASSUME IInv, NEW c \in withdrawn \ granted
                 PROVE  gates[c] = "none" /\ ~InQueue([call |-> c])
      BY DEF CancelledCheckIsFinal
    <2>1. gates[c] = "none" /\ c \notin Queued /\ c \in Call
      BY DEF IInv, TypeOK, Authorizations
    <2>2. DOMAIN queue = 1 .. Len(queue)
      BY DEF IInv, TypeOK
    <2>3. QED
      BY <2>1, <2>2 DEF InQueue, ToSet, Queued
  <1>2. QED
    BY <1>1, Invariant, PTL
=============================================================================
