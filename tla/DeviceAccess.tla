---------------------------- MODULE DeviceAccess ----------------------------
(***************************************************************************)
(* Who may use the reader: WorkerDevice's serial dispatch of D-Bus calls   *)
(* with Claim and Release, the polkit gate of the state-changing methods   *)
(* (WorkerPolkitGate), the watch on the claimer's name (WorkerListen) and  *)
(* the start and stop of operations (fpc9201.cpp).                         *)
(*                                                                         *)
(* One device task takes messages from one queue and awaits at most one    *)
(* thing at a time; gates, listeners and operations are tasks of their own *)
(* and interleave with it at its awaits. Clients may send a call without   *)
(* waiting for the answer to the one before, and may vanish at any time.   *)
(*                                                                         *)
(* A definition marked "Variant" is the next one with a plausible slip; no *)
(* behaviour uses it, it shows that the properties notice the slip.        *)
(***************************************************************************)
EXTENDS Integers, Sequences, SequencesExt

CONSTANTS
  Client,   \* unique bus names
  Call,     \* method calls: a sender and a serial; bounds how many are sent
  Method,   \* the methods clients use in this instance
  None

GatedMethods  == {"EnrollStart", "DeleteEnrolledFinger", "DeleteEnrolledFingers"}
ClaimMethods  == {"VerifyStart", "Stop"}
UidMethods    == {"ListEnrolledFingers", "Claim"}

ASSUME MethodAssumption ==
  Method \subseteq GatedMethods \cup ClaimMethods \cup UidMethods \cup {"Release"}
ASSUME NoneAssumption == None \notin Client \cup Call \cup [from : Client, method : Method]

VARIABLES
  alive,      \* clients connected to the bus
  req,        \* the calls sent so far: who called what
  queue,      \* WorkerDevice's message queue
  pc, cur,    \* the device task: what it awaits, and for which call
  claimed,    \* _claimed and _claimed_sender
  watch,      \* _name_owner_chaged_task: the Claim call whose listener is held
  listener,   \* the WorkerListen task of each Claim call
  gates,      \* _auth_gates
  task,       \* _enroll_verify_task: the call that started the operation
  replies,    \* number of replies each call got
  granted,    \* history: calls polkit has authorized
  withdrawn,  \* history: calls whose gate drop_auth_gates withdrew
  acted,      \* history: gated calls whose method ran
  unwatched   \* history: clients that vanished while no listener was installed

claimVars   == <<claimed, watch, listener>>
gateVars    == <<gates, withdrawn>>
historyVars == <<granted, acted, unwatched>>
busVars     == <<alive, req>>
vars == <<busVars, queue, pc, cur, claimVars, gateVars, task, replies, historyVars>>

Sender(c) == req[c].from
Sent      == {c \in Call : req[c] # None}

Messages == [call : Call] \cup [gone : Client]
InQueue(m) == m \in ToSet(queue)

TypeOK ==
  /\ alive \in SUBSET Client
  /\ req \in [Call -> [from : Client, method : Method] \cup {None}]
  /\ queue \in Seq(Messages)
  /\ pc \in {"run", "uid", "stopping"}
  /\ cur \in Call \cup {None}
  /\ claimed \in Client \cup {None}
  /\ watch \in Call \cup {None}
  /\ listener \in [Call -> {"none", "adding", "installed", "removing"}]
  /\ gates \in [Call -> {"none", "pending", "authorized", "finished"}]
  /\ task \in Call \cup {None}
  /\ replies \in [Call -> Nat]
  /\ granted \in SUBSET Call /\ withdrawn \in SUBSET Call /\ acted \in SUBSET Call
  /\ unwatched \in SUBSET Client

Init ==
  /\ alive = Client
  /\ req = [c \in Call |-> None]
  /\ queue = <<>>
  /\ pc = "run" /\ cur = None
  /\ claimed = None /\ watch = None
  /\ listener = [c \in Call |-> "none"]
  /\ gates = [c \in Call |-> "none"]
  /\ task = None
  /\ replies = [c \in Call |-> 0]
  /\ granted = {} /\ withdrawn = {} /\ acted = {} /\ unwatched = {}

-----------------------------------------------------------------------------
(* The bus. *)

\* A connected client sends a call; the filter queues it for the device.
SendCall(c) ==
  /\ req[c] = None
  /\ \E cl \in alive, m \in Method : req' = [req EXCEPT ![c] = [from |-> cl, method |-> m]]
  /\ queue' = Append(queue, [call |-> c])
  /\ UNCHANGED <<alive, pc, cur, claimVars, gateVars, task, replies, historyVars>>

\* A client vanishes: NameOwnerChanged reaches the queue if some listener for
\* its name has its match rule and filter in place.
Vanish(cl) ==
  /\ cl \in alive
  /\ alive' = alive \ {cl}
  /\ IF \E c \in Sent : Sender(c) = cl /\ listener[c] \in {"installed", "removing"}
       THEN queue' = Append(queue, [gone |-> cl]) /\ UNCHANGED unwatched
       ELSE unwatched' = unwatched \cup {cl} /\ UNCHANGED queue
  /\ UNCHANGED <<req, pc, cur, claimVars, gateVars, task, replies, granted, acted>>

-----------------------------------------------------------------------------
(* WorkerListen. *)

\* post(): the AddMatch reply arrives; an error ends the listener.
AddMatchReply(c) ==
  /\ listener[c] = "adding"
  /\ \E s \in {"installed", "none"} : listener' = [listener EXCEPT ![c] = s]
  /\ UNCHANGED <<busVars, queue, pc, cur, claimed, watch, gateVars, task, replies, historyVars>>

\* exit() has sent RemoveMatch; the bus takes the rule away.
RemoveMatchDone(c) ==
  /\ listener[c] = "removing"
  /\ listener' = [listener EXCEPT ![c] = "none"]
  /\ UNCHANGED <<busVars, queue, pc, cur, claimed, watch, gateVars, task, replies, historyVars>>

-----------------------------------------------------------------------------
(* WorkerPolkitGate. *)

\* check_done() with an authorization: the call goes back to the queue.
GateGrant(c) ==
  /\ gates[c] = "pending"
  /\ gates' = [gates EXCEPT ![c] = "authorized"]
  /\ granted' = granted \cup {c}
  /\ queue' = Append(queue, [call |-> c])
  /\ UNCHANGED <<busVars, pc, cur, claimVars, withdrawn, task, replies, acted, unwatched>>

\* Variant: takes any answer for an authorization.
GateDenyGranting(c) ==
  /\ gates[c] = "pending"
  /\ gates' = [gates EXCEPT ![c] = "authorized"]
  /\ queue' = Append(queue, [call |-> c])
  /\ UNCHANGED <<busVars, pc, cur, claimVars, withdrawn, task, replies, historyVars>>

\* Variant: a denied call goes back to the queue too.
GateDenyRequeuing(c) ==
  /\ gates[c] = "pending"
  /\ gates' = [gates EXCEPT ![c] = "finished"]
  /\ queue' = Append(queue, [call |-> c])
  /\ replies' = [replies EXCEPT ![c] = @ + 1]
  /\ UNCHANGED <<busVars, pc, cur, claimVars, withdrawn, task, historyVars>>

\* Variant: leaves the reply to the device task.
GateDenySilently(c) ==
  /\ gates[c] = "pending"
  /\ gates' = [gates EXCEPT ![c] = "finished"]
  /\ UNCHANGED <<busVars, queue, pc, cur, claimVars, withdrawn, task, replies, historyVars>>

\* check_done() with a denial, an error or the 120 s timeout: deny() replies.
GateDeny(c) ==
  /\ gates[c] = "pending"
  /\ gates' = [gates EXCEPT ![c] = "finished"]
  /\ replies' = [replies EXCEPT ![c] = @ + 1]
  /\ UNCHANGED <<busVars, queue, pc, cur, claimVars, withdrawn, task, historyVars>>

\* Variant: cancels nothing, so a late authorization still finds its gate.
DropAuthGatesKeepingPending(cl) ==
  LET mine == {c \in Sent : Sender(c) = cl /\ gates[c] \in {"authorized", "finished"}} IN
  /\ gates' = [c \in Call |->
       IF c \notin mine THEN gates[c]
       ELSE IF gates[c] = "authorized" THEN "finished" ELSE "none"]
  /\ withdrawn' = withdrawn \cup {c \in Sent : Sender(c) = cl /\ gates[c] \in {"authorized", "pending"}}

\* drop_auth_gates(): pending checks are cancelled, authorized calls that sit in
\* the queue are tombstoned.
DropAuthGates(cl) ==
  LET mine == {c \in Sent : Sender(c) = cl /\ gates[c] # "none"} IN
  /\ gates' = [c \in Call |->
       IF c \notin mine THEN gates[c]
       ELSE IF gates[c] = "authorized" THEN "finished" ELSE "none"]
  /\ withdrawn' = withdrawn \cup {c \in mine : gates[c] # "finished"}

-----------------------------------------------------------------------------
(* The device task. *)

BackToRun == pc' = "run" /\ cur' = None
Reply(c)  == replies' = [replies EXCEPT ![c] = @ + 1]

\* An error reply: nothing else changes. The gate is up to the caller.
Refuse(c) ==
  /\ Reply(c) /\ BackToRun
  /\ UNCHANGED <<claimVars, task, acted>>

\* get_uid(): asks the bus for the sender's uid and awaits the answer.
GetUid(c) ==
  /\ pc' = "uid" /\ cur' = c
  /\ UNCHANGED <<claimVars, task, replies, acted>>

\* claim()
DoClaim(c) ==
  \/ claimed # None /\ Refuse(c)
  \/ /\ claimed = None
     /\ claimed' = Sender(c)
     /\ listener' = [listener EXCEPT ![c] = "adding"]
     /\ watch' = c
     /\ Reply(c) /\ BackToRun
     /\ UNCHANGED <<task, acted>>

\* enroll_verify_start(): refused while the reader recovers or the arguments do
\* not fit, and while a task is held, even one that has finished.
DoStart(c) ==
  \/ Refuse(c)
  \/ /\ task = None
     /\ task' = c
     /\ acted' = acted \cup {c}
     /\ Reply(c) /\ BackToRun
     /\ UNCHANGED claimVars

\* delete_enrolled_finger(), delete_enrolled_fingers2(), delete_enrolled_fingers()
DoDelete(c) ==
  /\ acted' = acted \cup {c}
  /\ Reply(c) /\ BackToRun
  /\ UNCHANGED <<claimVars, task>>

\* enroll_verify_stop(): replies first; send_enroll_stop() follows the await.
DoStop(c) ==
  \/ task = None /\ Refuse(c)
  \/ /\ task # None
     /\ Reply(c)
     /\ pc' = "stopping" /\ cur' = c
     /\ UNCHANGED <<claimVars, task, acted>>

\* check_sender() and the method behind it.
CheckSender(c) ==
  IF claimed # Sender(c) THEN Refuse(c)
  ELSE CASE req[c].method \in {"EnrollStart", "VerifyStart"} -> DoStart(c)
         [] req[c].method = "DeleteEnrolledFinger"           -> DoDelete(c)
         [] req[c].method = "Stop"                           -> DoStop(c)

\* Variant: forgets the operation of the claimer that leaves.
ReleaseKeepingTask(c) ==
  /\ listener' = IF watch = None THEN listener ELSE [listener EXCEPT ![watch] = "removing"]
  /\ watch' = None /\ claimed' = None
  /\ DropAuthGates(Sender(c))
  /\ Reply(c) /\ BackToRun
  /\ UNCHANGED <<task, acted>>

\* release(): resumes the listener into exit(), cancels the operation, drops the
\* sender's gates. A listener that still awaits its AddMatch reply may survive
\* the resume.
DoRelease(c) ==
  /\ \/ watch = None /\ UNCHANGED listener
     \/ /\ watch # None
        /\ \/ listener' = [listener EXCEPT ![watch] =
                CASE @ = "installed" -> "removing" [] @ = "adding" -> "none" [] OTHER -> @]
           \/ listener[watch] = "adding" /\ UNCHANGED listener
  /\ watch' = None /\ claimed' = None /\ task' = None
  /\ DropAuthGates(Sender(c))
  /\ Reply(c) /\ BackToRun
  /\ UNCHANGED acted

Pruned == [c \in Call |-> IF gates[c] = "finished" THEN "none" ELSE gates[c]]

\* Variant: awaits the check on the device task.
CheckPolkitInline(c) ==
  /\ gates' = [Pruned EXCEPT ![c] = "pending"]
  /\ pc' = "parked" /\ cur' = c
  /\ UNCHANGED <<withdrawn, claimVars, task, replies, acted>>

\* check_polkit(): a call with a gate was re-queued by it and proceeds if
\* authorized, else is dropped; a new call is refused while another client
\* holds the claim, else it prunes the finished gates and gets a gate of its own.
CheckPolkit(c) ==
  \/ /\ gates[c] = "authorized"
     /\ gates' = [gates EXCEPT ![c] = "none"]
     /\ UNCHANGED withdrawn
     /\ IF req[c].method = "DeleteEnrolledFingers" THEN GetUid(c) ELSE CheckSender(c)
  \/ /\ gates[c] \in {"pending", "finished"}
     /\ gates' = [gates EXCEPT ![c] = "none"]
     /\ BackToRun
     /\ UNCHANGED <<withdrawn, claimVars, task, replies, acted>>
  \/ /\ gates[c] = "none" /\ claimed \notin {None, Sender(c)}
     /\ Refuse(c)
     /\ UNCHANGED gateVars
  \/ /\ gates[c] = "none" /\ claimed \in {None, Sender(c)}
     /\ gates' = [Pruned EXCEPT ![c] = "pending"]
     /\ BackToRun
     /\ UNCHANGED <<withdrawn, claimVars, task, replies, acted>>

\* handle_message()
HandleCall(c) ==
  \/ req[c].method \in UidMethods /\ GetUid(c) /\ UNCHANGED gateVars
  \/ req[c].method \in GatedMethods /\ CheckPolkit(c)
  \/ req[c].method \in ClaimMethods /\ CheckSender(c) /\ UNCHANGED gateVars
  \/ /\ req[c].method = "Release"
     /\ IF claimed = Sender(c) THEN DoRelease(c) ELSE Refuse(c) /\ UNCHANGED gateVars

\* Variant: leaves the claim to an explicit Release.
NameOwnerChangedKeepsClaim(cl) ==
  /\ task' = None
  /\ DropAuthGates(cl)
  /\ BackToRun
  /\ UNCHANGED <<claimVars, replies, acted>>

\* name_owner_changed(): the claim goes, whoever holds it by now. The listener
\* is neither resumed nor let go of.
NameOwnerChanged(cl) ==
  /\ task' = None
  /\ DropAuthGates(cl)
  /\ claimed' = None
  /\ BackToRun
  /\ UNCHANGED <<watch, listener, replies, acted>>

\* run(): takes the next message.
Dispatch ==
  /\ pc = "run" /\ queue # <<>>
  /\ queue' = Tail(queue)
  /\ \/ \E c \in Call : Head(queue) = [call |-> c] /\ HandleCall(c)
     \/ \E cl \in Client : Head(queue) = [gone |-> cl] /\ NameOwnerChanged(cl)
  /\ UNCHANGED <<busVars, granted, unwatched>>

\* check_uid(): an error or another user's name is refused, else the method runs;
\* ListEnrolledFingers changes nothing either, its answer is no other step.
UidReply ==
  /\ pc = "uid"
  /\ \/ Refuse(cur)
     \/ req[cur].method = "Claim" /\ DoClaim(cur)
     \/ req[cur].method = "DeleteEnrolledFingers" /\ DoDelete(cur)
  /\ UNCHANGED <<busVars, queue, gateVars, granted, unwatched>>

\* send_enroll_stop(): lets go of the task.
SendEnrollStop ==
  /\ pc = "stopping"
  /\ task' = None
  /\ BackToRun
  /\ UNCHANGED <<busVars, queue, claimVars, gateVars, replies, historyVars>>

-----------------------------------------------------------------------------
Next ==
  \/ \E c \in Call :
       SendCall(c) \/ AddMatchReply(c) \/ RemoveMatchDone(c) \/ GateGrant(c) \/ GateDeny(c)
  \/ \E cl \in Client : Vanish(cl)
  \/ Dispatch
  \/ UidReply
  \/ SendEnrollStop

\* The event loop runs the device task; its awaits end (a reply is sent, a uid
\* comes or times out after 5 s). Nothing is said of polkit and the user.
Spec == Init /\ [][Next]_vars /\ WF_vars(Dispatch) /\ WF_vars(UidReply) /\ WF_vars(SendEnrollStop)
-----------------------------------------------------------------------------
(* What makes it correct. *)

\* A state-changing method runs for a call only after polkit has authorized that
\* very call, however claims, releases, denials and departures interleave with
\* the check (check_polkit, WorkerPolkitGate).
ActsOnlyIfGranted ==
  \A c \in acted : req[c].method \in GatedMethods => c \in granted

\* No call is answered twice, neither by a gate and the device nor by two
\* dispatches of a re-queued call (deny, check_polkit).
AtMostOneReply == \A c \in Call : replies[c] <= 1

\* A call is in one place: in the queue once, or with its gate, or with the
\* device task; an authorized call is in the queue, waiting for its dispatch.
CallInOnePlace ==
  \A c \in Call :
    /\ Cardinality({i \in DOMAIN queue : queue[i] = [call |-> c]}) <= 1
    /\ gates[c] = "authorized" => InQueue([call |-> c])
    /\ gates[c] = "pending" => ~InQueue([call |-> c]) /\ cur # c
    /\ cur = c => ~InQueue([call |-> c])

\* A call is handled, and answered, once.
AnsweredOnce == AtMostOneReply /\ CallInOnePlace

\* The operation the device holds was started by the client that holds the claim:
\* release and name_owner_changed never leave one behind for the next claimer.
OperationBelongsToClaimer == task # None => claimed = Sender(task)

\* A check that release or name_owner_changed withdrew before its answer came is
\* over for good: no late authorization re-queues the call (comment in release).
CancelledCheckIsFinal ==
  \A c \in withdrawn \ granted : gates[c] = "none" /\ ~InQueue([call |-> c])

\* A tombstoned call is dropped by check_polkit and never gets a fresh check
\* (comment of drop_auth_gates).
TombstoneSticks ==
  [][\A c \in withdrawn : gates[c] # "pending" => gates'[c] # "pending"]_vars

\* What check_polkit drops without a reply has been answered by the denial path
\* (comment in check_polkit).
DroppedWasAnswered ==
  \A c \in Sent : gates[c] = "finished" /\ InQueue([call |-> c]) => replies[c] = 1

\* Calls that need no check are answered even if no check ever ends: a pending
\* prompt does not park the dispatch loop (comment of WorkerPolkitGate).
DispatchNeverParked ==
  \A c \in Call : (req[c] # None /\ req[c].method \notin GatedMethods) ~> (replies[c] = 1)

\* When a claimer vanishes and a listener was in place, its claim is let go.
DeadClaimerReleased ==
  \A cl \in Client : (claimed = cl /\ cl \notin alive \cup unwatched) ~> (claimed # cl)

\* Every call is answered in the end, unless a release or a departure of its
\* sender withdrew it: if every check ends, as it does when polkit answers or
\* 120 s have passed (WorkerPolkitGate), no call is lost between the queues.
ChecksEnd == \A c \in Call : WF_vars(GateGrant(c) \/ GateDeny(c))
CallsAnswered ==
  ChecksEnd => \A c \in Call : (req[c] # None) ~> (replies[c] = 1 \/ c \in withdrawn)
=============================================================================
