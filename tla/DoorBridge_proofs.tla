------------------------ MODULE DoorBridge_proofs ------------------------
(* The gateway contract: types, and no answer older than the call's own    *)
(* action.  The bridge device on top of it: types, the operation lock,     *)
(* serialized gateway calls, publications that never go back in time, and  *)
(* what a reported success, the retained topics and the panel's file tell. *)
EXTENDS DoorBridge, DoorTypes_proofs

---------------------------------------------------------------------------
(* The gateway.                                                            *)

(* Inductive: no call began in the future, and only a call that returned   *)
(* has an answer, so that an action never gets newer than its answer; only *)
(* an action has an effect, and thus a pending position.                   *)
GatewayInv == /\ GatewayTypeOK
              /\ AnswerIsFresh
              /\ \A p \in Callers :
                   /\ call[p].since <= vendor.epoch
                   /\ call[p].phase # "returned" => call[p].result = {}
                   /\ call[p].acted => call[p].op \in GatewayActions

LEMMA GatewayInitInv == GatewayInit => GatewayInv
<1> SUFFICES ASSUME GatewayInit PROVE GatewayInv
  OBVIOUS
<1>1. vendor \in Status
  BY VendorDataAssumption DEF GatewayInit, Status
<1>2. NoCall \in Call
  BY DEF NoCall, Call, GatewayOps, GatewayActions, Option
<1>3. GatewayTypeOK
  BY <1>1, <1>2 DEF GatewayInit, GatewayTypeOK
<1> QED BY <1>1, <1>3 DEF GatewayInit, GatewayInv, AnswerIsFresh, NoCall, Status

(* A door that moved is still a door.                                      *)
LEMMA MoveDoorType ==
  ASSUME GatewayTypeOK, NEW d \in VendorData, MoveDoor(d)
  PROVE  vendor' \in Status /\ vendor'.epoch = vendor.epoch + 1
BY VendorDataAssumption DEF GatewayTypeOK, MoveDoor, Status

LEMMA VendorMovesInv ==
  ASSUME GatewayInv, VendorMoves PROVE GatewayInv'
<1>1. vendor' \in Status /\ vendor'.epoch = vendor.epoch + 1 /\ call' = call
  BY MoveDoorType DEF GatewayInv, VendorMoves
<1>2. \A p \in Callers : \A s \in call[p].result : s \in Status
  BY DEF GatewayInv, GatewayTypeOK, Call, Option
<1>3. vendor.epoch \in Nat /\ \A p \in Callers : call[p].since \in Nat
  BY DEF GatewayInv, GatewayTypeOK, Status, Call
<1>4. GatewayTypeOK'
  BY <1>1 DEF GatewayInv, GatewayTypeOK
<1>5. AnswerIsFresh'
  BY <1>1, <1>2, <1>3 DEF GatewayInv, AnswerIsFresh, Status
<1> QED BY <1>1, <1>3, <1>4, <1>5 DEF GatewayInv

LEMMA InvokeInv ==
  ASSUME GatewayInv, NEW p \in Callers, NEW op \in GatewayOps, Invoke(p, op)
  PROVE  GatewayInv'
<1> DEFINE new == [phase |-> "running", op |-> op, acted |-> FALSE,
                   since |-> vendor.epoch, result |-> {}]
<1>1. vendor' = vendor /\ call' = [call EXCEPT ![p] = new]
  BY DEF Invoke
<1>2. new \in Call
  BY DEF GatewayInv, GatewayTypeOK, Status, Call, Option
<1> QED BY <1>1, <1>2 DEF GatewayInv, GatewayTypeOK, AnswerIsFresh, Status

LEMMA TakeEffectInv ==
  ASSUME GatewayInv, NEW p \in Callers, TakeEffect(p)
  PROVE  GatewayInv'
<1>1. vendor' \in Status /\ vendor'.epoch = vendor.epoch + 1
  BY MoveDoorType DEF GatewayInv, TakeEffect
<1>2. call' = [call EXCEPT ![p].acted = TRUE, ![p].since = vendor.epoch + 1]
  BY DEF TakeEffect
<1>3. call' \in [Callers -> Call]
  BY <1>2 DEF GatewayInv, GatewayTypeOK, Status, Call
<1>4. \A q \in Callers : /\ call'[q].since <= vendor'.epoch
                         /\ call'[q].result = call[q].result
                         /\ call'[q].phase = call[q].phase
                         /\ call'[q].op = call[q].op
                         /\ q # p => call'[q].acted = call[q].acted
                         /\ q # p => call'[q].since = call[q].since
  BY <1>1, <1>2 DEF GatewayInv, GatewayTypeOK, Status, Call
<1>5. call[p].result = {}
  BY DEF GatewayInv, TakeEffect, Running
<1>6. \A q \in Callers : \A s \in call[q].result : s \in Status
  BY DEF GatewayInv, GatewayTypeOK, Call, Option
<1>7. AnswerIsFresh'
  BY <1>1, <1>4, <1>5, <1>6 DEF GatewayInv, GatewayTypeOK, AnswerIsFresh, Status, Call
<1>8. call[p].op \in GatewayActions
  BY DEF TakeEffect
<1> QED BY <1>1, <1>3, <1>4, <1>7, <1>8 DEF GatewayInv, GatewayTypeOK

(* Every answer is a status no older than the call.                        *)
LEMMA ReturnInv ==
  ASSUME GatewayInv, NEW p \in Callers, NEW result \in Option(Status),
         Return(p, result),
         \A s \in result : call[p].since <= s.epoch /\ s.epoch <= vendor.epoch
  PROVE  GatewayInv'
<1>1. /\ vendor' = vendor
      /\ call' = [call EXCEPT ![p].phase = "returned", ![p].result = result]
  BY DEF Return
<1>2. call' \in [Callers -> Call]
  BY <1>1 DEF GatewayInv, GatewayTypeOK, Call
<1>3. \A q \in Callers : /\ call'[q].since = call[q].since
                         /\ q = p => call'[q].result = result /\ call'[q].phase = "returned"
                         /\ q # p => call'[q] = call[q]
  BY <1>1 DEF GatewayInv, GatewayTypeOK, Call
<1> QED BY <1>1, <1>2, <1>3 DEF GatewayInv, GatewayTypeOK, AnswerIsFresh

LEMMA AnswerInv ==
  ASSUME GatewayInv, NEW p \in Callers, Answer(p) PROVE GatewayInv'
<1>1. CASE ReturnStatus(p)
  <2>1. {vendor} \in Option(Status) /\ Return(p, {vendor})
    BY <1>1, SomeOption DEF ReturnStatus, GatewayInv, GatewayTypeOK
  <2>2. \A s \in {vendor} : call[p].since <= s.epoch /\ s.epoch <= vendor.epoch
    BY DEF GatewayInv, GatewayTypeOK, Status
  <2> QED BY <2>1, <2>2, ReturnInv
<1>2. CASE ReturnPending(p)
  <2>1. PICK q \in PendingPositions(call[p].op) :
          Return(p, {[data |-> BareStatus(q), epoch |-> call[p].since]})
    BY <1>2 DEF ReturnPending
  <2> DEFINE s == [data |-> BareStatus(q), epoch |-> call[p].since]
  <2>2. call[p].op \in GatewayActions
    BY <1>2 DEF ReturnPending, GatewayInv
  <2>3. q \in Positions
    BY <2>2 DEF PendingPositions, GatewayActions, Positions
  <2>4. s \in Status
    BY <2>3, BareStatusType DEF Status, GatewayInv, GatewayTypeOK, Call
  <2>5. {s} \in Option(Status)
    BY <2>4, SomeOption
  <2>6. \A r \in {s} : call[p].since <= r.epoch /\ r.epoch <= vendor.epoch
    BY DEF GatewayInv, GatewayTypeOK, Call
  <2> QED BY <2>1, <2>5, <2>6, ReturnInv
<1>3. CASE Raise(p)
  <2>1. {} \in Option(Status) /\ Return(p, {})
    BY <1>3 DEF Raise, Option
  <2> QED BY <2>1, ReturnInv
<1> QED BY <1>1, <1>2, <1>3 DEF Answer

LEMMA CollectInv ==
  ASSUME GatewayInv, NEW p \in Callers, Collect(p) PROVE GatewayInv'
<1>1. /\ NoCall \in Call /\ NoCall.result = {} /\ NoCall.since = 0
      /\ ~NoCall.acted
  BY DEF NoCall, Call, GatewayOps, GatewayActions, Option
<1>2. vendor' = vendor /\ call' = [call EXCEPT ![p] = NoCall]
  BY DEF Collect
<1>3. GatewayTypeOK'
  BY <1>1, <1>2 DEF GatewayInv, GatewayTypeOK
<1>4. \A q \in Callers : call'[q] = IF q = p THEN NoCall ELSE call[q]
  BY <1>2 DEF GatewayInv, GatewayTypeOK
<1>5. vendor.epoch \in Nat
  BY DEF GatewayInv, GatewayTypeOK, Status
<1>6. AnswerIsFresh'
  BY <1>1, <1>2, <1>4 DEF GatewayInv, AnswerIsFresh
<1> QED BY <1>1, <1>2, <1>3, <1>4, <1>5, <1>6 DEF GatewayInv

LEMMA GatewayNextInv ==
  ASSUME GatewayInv, [GatewayNext]_gatewayVars PROVE GatewayInv'
<1>1. CASE VendorMoves
  BY <1>1, VendorMovesInv
<1>2. ASSUME NEW p \in Callers, NEW op \in GatewayOps, Invoke(p, op)
      PROVE  GatewayInv'
  BY <1>2, InvokeInv
<1>3. ASSUME NEW p \in Callers, TakeEffect(p) PROVE GatewayInv'
  BY <1>3, TakeEffectInv
<1>4. ASSUME NEW p \in Callers, Answer(p) PROVE GatewayInv'
  BY <1>4, AnswerInv
<1>5. ASSUME NEW p \in Callers, Collect(p) PROVE GatewayInv'
  BY <1>5, CollectInv
<1>6. CASE UNCHANGED gatewayVars
  BY <1>6 DEF gatewayVars, GatewayInv, GatewayTypeOK, AnswerIsFresh
<1> QED BY <1>1, <1>2, <1>3, <1>4, <1>5, <1>6 DEF GatewayNext

(* A gateway never answers with a status older than the call's own action: *)
(* OmletDoorClient._perform_action reads the state back after the action.  *)
THEOREM GatewayAnswersAreFresh == GatewaySpec => []AnswerIsFresh
<1>1. GatewayInit => GatewayInv
  BY GatewayInitInv
<1>2. GatewayInv /\ [GatewayNext]_gatewayVars => GatewayInv'
  BY GatewayNextInv
<1>3. GatewayInv => AnswerIsFresh
  BY DEF GatewayInv
<1> QED BY <1>1, <1>2, <1>3, PTL DEF GatewaySpec

---------------------------------------------------------------------------
(* The bridge.                                                             *)

(* A caller has a call under way exactly while its thread waits for one;   *)
(* only the poll task leaves one behind, when it is cancelled.             *)
CallsBelongToThreads ==
  \A p \in Callers : /\ pc[p] = "gateway" => call[p].phase # "idle"
                     /\ call[p].phase # "idle" => pc[p] \in {"gateway", "cancelled"}

(* The poll task is cancelled by the stop only.                            *)
CancelledByStop ==
  pc[Poller] = "cancelled" => main \notin {"starting", "running"}

(* Without a gateway nothing ever moves the vendor's door.                 *)
LocalDoorIsStill == ~hasGateway => /\ vendor.epoch = 0
                                   /\ \A p \in Callers : call[p].phase = "idle"

NotAfter(t, e) == \A m \in retained[t] : m.epoch <= e

(* What is retained is no newer than the door, than the start or effect of *)
(* a call whose answer will be published, than a status being published.   *)
RetainedIsPast ==
  \A t \in Topics :
    /\ NotAfter(t, vendor.epoch)
    /\ \A p \in Callers :
         /\ pc[p] = "gateway" => NotAfter(t, call[p].since)
         /\ pc[p] = "publish" => \A s \in work[p].status : NotAfter(t, s.epoch)

StatusIsPast ==
  \A p \in Callers : pc[p] = "publish" =>
    \A s \in work[p].status : s.epoch <= vendor.epoch

(* The inductive invariant.  No conjunct but the lock is inductive alone:  *)
(* publications stay in order because only the lock's holder publishes,    *)
(* what it publishes comes from a call made under the lock, and a gateway  *)
(* does not answer with a status from before the call.                     *)
BridgeInv == /\ TypeOK /\ GatewayInv
             /\ LockIsHeldInside
             /\ CallsBelongToThreads
             /\ CancelledByStop
             /\ LocalDoorIsStill
             /\ RetainedIsPast
             /\ StatusIsPast

---------------------------------------------------------------------------
(* Types of the pieces.                                                    *)

LEMMA TopicOrderType == /\ Len(TopicOrder) = 6
                        /\ \A i \in 1..6 : TopicOrder[i] \in Topics
BY DEF TopicOrder, Topics

LEMMA NoWorkType == NoWork \in Work
BY TopicOrderType DEF NoWork, Work, Positions, Option

LEMMA MessageType ==
  ASSUME NEW t \in Topics, NEW s \in Status
  PROVE  /\ Message(t, s) \in [payload : PayloadRange(t), epoch : Nat]
         /\ Message(t, s).epoch = s.epoch
BY PayloadType DEF Message, Status

(* The points a thread of either kind may be at.                           *)
LEMMA GotoType ==
  ASSUME TypeOK, NEW p \in Callers, NEW from, NEW to \in Locked \cup {"acquire"},
         Goto(p, from, to)
  PROVE  /\ pc' \in [Callers -> CommandPoints \cup PollPoints]
         /\ pc'[Poller] \in PollPoints
         /\ \A c \in CommandThreads : pc'[c] \in CommandPoints
BY ThreadsAssumption DEF TypeOK, Goto, CommandPoints, PollPoints

---------------------------------------------------------------------------
(* What the steps of a thread have in common.                              *)

USE DEF gatewayVars, controlVars, pollVars, sessionVars, outsideVars

LEMMA GatewayAlone ==
  ASSUME BridgeInv, UNCHANGED gatewayVars
  PROVE  GatewayInv' /\ GatewayTypeOK'
BY GatewayNextInv DEF BridgeInv, GatewayInv

(* A thread that neither waits for the gateway nor publishes, before or    *)
(* after the step, disturbs only the types and the lock.                   *)
LEMMA ThreadMoves ==
  ASSUME BridgeInv, NEW p \in Callers, NEW to, pc' = [pc EXCEPT ![p] = to],
         pc[p] \notin {"gateway", "cancelled"},
         to \notin {"gateway", "publish", "cancelled"},
         UNCHANGED <<vendor, call, retained, hasGateway>>,
         main' = main \/ p = Poller,
         \A q \in Callers : q # p => work'[q] = work[q]
  PROVE  /\ GatewayInv' /\ CallsBelongToThreads' /\ CancelledByStop'
         /\ LocalDoorIsStill' /\ RetainedIsPast' /\ StatusIsPast'
<1>1. \A q \in Callers : pc'[q] = IF q = p THEN to ELSE pc[q]
  BY DEF BridgeInv, TypeOK
<1>2. GatewayInv'
  BY GatewayAlone
<1>3. CallsBelongToThreads' /\ LocalDoorIsStill'
  BY <1>1 DEF BridgeInv, CallsBelongToThreads, LocalDoorIsStill
<1>4. CancelledByStop'
  BY <1>1, ThreadsAssumption DEF BridgeInv, CancelledByStop
<1>5. RetainedIsPast' /\ StatusIsPast'
  BY <1>1 DEF BridgeInv, RetainedIsPast, StatusIsPast, NotAfter
<1> QED BY <1>2, <1>3, <1>4, <1>5

---------------------------------------------------------------------------
(* Entering and leaving the controller.                                    *)

LEMMA OnMessageInv ==
  ASSUME BridgeInv, NEW c \in CommandThreads, OnMessage(c) PROVE BridgeInv'
<1>1. /\ c \in Callers /\ c # Poller
      /\ pc[c] = "idle" /\ pc' = [pc EXCEPT ![c] = "acquire"]
  BY ThreadsAssumption DEF OnMessage, Goto
<1>2. PICK m \in Requests : work' = [work EXCEPT ![c].request = m]
  BY DEF OnMessage
<1>3. TypeOK'
  <2>1. work' \in [Callers -> Work]
    BY <1>1, <1>2 DEF BridgeInv, TypeOK, Work
  <2>2. requests' \in 0..MaxRequests
    BY BoundsAssumption DEF BridgeInv, TypeOK, OnMessage
  <2>3. /\ pc' \in [Callers -> CommandPoints \cup PollPoints]
        /\ pc'[Poller] \in PollPoints
        /\ \A q \in CommandThreads : pc'[q] \in CommandPoints
    BY <1>1, GotoType DEF BridgeInv, OnMessage
  <2> QED BY <2>1, <2>2, <2>3, GatewayAlone DEF BridgeInv, TypeOK, OnMessage
<1>4. LockIsHeldInside'
  BY <1>1 DEF BridgeInv, TypeOK, LockIsHeldInside, Locked, OnMessage
<1>5. \A q \in Callers : q # c => work'[q] = work[q]
  BY <1>2 DEF BridgeInv, TypeOK
<1> QED BY <1>1, <1>3, <1>4, <1>5, ThreadMoves DEF BridgeInv, OnMessage

LEMMA StartPollInv ==
  ASSUME BridgeInv, StartPoll PROVE BridgeInv'
<1>1. /\ Poller \in Callers /\ pc[Poller] = "sleep"
      /\ pc' = [pc EXCEPT ![Poller] = "acquire"]
  BY ThreadsAssumption DEF StartPoll, Goto
<1>2. TypeOK'
  BY <1>1, GotoType, GatewayAlone DEF BridgeInv, TypeOK, StartPoll
<1>3. LockIsHeldInside'
  BY <1>1 DEF BridgeInv, TypeOK, LockIsHeldInside, Locked, StartPoll
<1> QED BY <1>1, <1>2, <1>3, ThreadMoves DEF BridgeInv, StartPoll

LEMMA AcquireInv ==
  ASSUME BridgeInv, NEW p \in Callers, Acquire(p) PROVE BridgeInv'
<1>1. /\ pc[p] = "acquire" /\ pc' = [pc EXCEPT ![p] = "dispatch"]
      /\ lock = NoThread /\ lock' = p
  BY DEF Acquire, Goto
<1>2. TypeOK'
  BY <1>1, GotoType, GatewayAlone DEF BridgeInv, TypeOK, Acquire, Locked
<1>3. LockIsHeldInside'
  BY <1>1, ThreadsAssumption
  DEF BridgeInv, TypeOK, LockIsHeldInside, Locked
<1> QED BY <1>1, <1>2, <1>3, ThreadMoves DEF BridgeInv, Acquire

LEMMA FinishType ==
  ASSUME TypeOK, NEW p \in Callers, NEW end \in {"success", "failure", "raised"},
         Finish(p, end)
  PROVE  /\ work' \in [Callers -> Work]
         /\ \A q \in Callers : work'[q].status = work[q].status
         /\ \A q \in Callers : q # p => work'[q] = work[q]
BY DEF TypeOK, Finish, Work

LEMMA ForgetType ==
  ASSUME TypeOK, NEW p \in Callers, Forget(p)
  PROVE  /\ work' \in [Callers -> Work]
         /\ \A q \in Callers : q # p => work'[q] = work[q]
BY NoWorkType DEF TypeOK, Forget

LEMMA RejectCommandInv ==
  ASSUME BridgeInv, NEW p \in Callers, RejectCommand(p) PROVE BridgeInv'
<1>1. pc[p] = "dispatch" /\ pc' = [pc EXCEPT ![p] = "release"]
  BY DEF RejectCommand, Goto
<1>2. /\ work' \in [Callers -> Work]
      /\ \A q \in Callers : q # p => work'[q] = work[q]
  BY FinishType DEF BridgeInv, RejectCommand
<1>3. TypeOK'
  BY <1>1, <1>2, GotoType, GatewayAlone
  DEF BridgeInv, TypeOK, RejectCommand, Locked
<1>4. LockIsHeldInside'
  BY <1>1 DEF BridgeInv, TypeOK, LockIsHeldInside, Locked, RejectCommand
<1> QED BY <1>1, <1>2, <1>3, <1>4, ThreadMoves DEF BridgeInv, RejectCommand

(* The ends of an operation: the thread holds the lock and gives it back.  *)
LEMMA ReleaseInv ==
  ASSUME BridgeInv, NEW p \in Callers, NEW to, ReleaseAnd(p, to),
         to \in IF p = Poller THEN {"record", "sleep"} ELSE {"report", "idle"},
         UNCHANGED work \/ Forget(p)
  PROVE  BridgeInv'
<1>1. /\ pc[p] = "release" /\ pc' = [pc EXCEPT ![p] = to] /\ lock' = NoThread
  BY DEF ReleaseAnd, Goto
<1>2. /\ work' \in [Callers -> Work]
      /\ \A q \in Callers : q # p => work'[q] = work[q]
  BY ForgetType DEF BridgeInv, TypeOK
<1>3. TypeOK'
  <2>1. /\ pc' \in [Callers -> CommandPoints \cup PollPoints]
        /\ pc'[Poller] \in PollPoints
        /\ \A c \in CommandThreads : pc'[c] \in CommandPoints
    BY <1>1, ThreadsAssumption DEF BridgeInv, TypeOK, CommandPoints, PollPoints
  <2> QED BY <1>1, <1>2, <2>1, GatewayAlone DEF BridgeInv, TypeOK, ReleaseAnd
<1>4. LockIsHeldInside'
  BY <1>1, ThreadsAssumption
  DEF BridgeInv, TypeOK, LockIsHeldInside, Locked, ReleaseAnd
<1> QED BY <1>1, <1>2, <1>3, <1>4, ThreadMoves DEF BridgeInv, ReleaseAnd

LEMMA ReleaseWithResultInv ==
  ASSUME BridgeInv, NEW p \in Callers, ReleaseWithResult(p) PROVE BridgeInv'
BY ReleaseInv DEF ReleaseWithResult

LEMMA ReleaseAndEndInv ==
  ASSUME BridgeInv, NEW p \in Callers, ReleaseAndEnd(p) PROVE BridgeInv'
BY ReleaseInv DEF ReleaseAndEnd

LEMMA ReportUsageInv ==
  ASSUME BridgeInv, NEW c \in CommandThreads, ReportUsage(c) PROVE BridgeInv'
<1>1. /\ c \in Callers /\ c # Poller
      /\ pc[c] = "report" /\ pc' = [pc EXCEPT ![c] = "idle"]
  BY ThreadsAssumption DEF ReportUsage, Goto
<1>2. /\ work' \in [Callers -> Work]
      /\ \A q \in Callers : q # c => work'[q] = work[q]
  BY <1>1, ForgetType DEF BridgeInv, ReportUsage
<1>3. TypeOK'
  <2>1. /\ pc' \in [Callers -> CommandPoints \cup PollPoints]
        /\ pc'[Poller] \in PollPoints
        /\ \A q \in CommandThreads : pc'[q] \in CommandPoints
    BY <1>1 DEF BridgeInv, TypeOK, CommandPoints, PollPoints
  <2> QED BY <1>2, <2>1, GatewayAlone DEF BridgeInv, TypeOK, ReportUsage
<1>4. LockIsHeldInside'
  BY <1>1 DEF BridgeInv, TypeOK, LockIsHeldInside, Locked, ReportUsage
<1> QED BY <1>1, <1>2, <1>3, <1>4, ThreadMoves DEF BridgeInv, ReportUsage

LEMMA RecordStatusInv ==
  ASSUME BridgeInv, RecordStatus PROVE BridgeInv'
<1>1. /\ Poller \in Callers /\ pc[Poller] = "record"
      /\ pc' = [pc EXCEPT ![Poller] = "sleep"]
  BY ThreadsAssumption DEF RecordStatus, Goto
<1>2. /\ work' \in [Callers -> Work]
      /\ \A q \in Callers : q # Poller => work'[q] = work[q]
  BY <1>1, ForgetType DEF BridgeInv, RecordStatus
<1>3. TypeOK'
  <2>1. PICK s \in work[Poller].status :
          /\ WriteStatusFile(s) \/ WriteFails(s) \/ NothingToWrite(s)
          /\ lastStatus' = {s.data}
    BY DEF RecordStatus
  <2>2. s.data \in StatusData
    BY <1>1 DEF BridgeInv, TypeOK, Work, Option, Status
  <2>3. {s.data} \in Option(StatusData)
    BY <2>2, SomeOption
  <2>4. statusFile' \in Option(StatusData) /\ failedWrites' \in 0..MaxFailedWrites
    BY <2>1, <2>3, BoundsAssumption
    DEF BridgeInv, TypeOK, WriteStatusFile, WriteFails, NothingToWrite
  <2>5. /\ pc' \in [Callers -> CommandPoints \cup PollPoints]
        /\ pc'[Poller] \in PollPoints
        /\ \A q \in CommandThreads : pc'[q] \in CommandPoints
    BY <1>1, ThreadsAssumption DEF BridgeInv, TypeOK, CommandPoints, PollPoints
  <2> QED BY <1>2, <2>1, <2>3, <2>4, <2>5, GatewayAlone
          DEF BridgeInv, TypeOK, RecordStatus
<1>4. LockIsHeldInside'
  BY <1>1 DEF BridgeInv, TypeOK, LockIsHeldInside, Locked, RecordStatus
<1> QED BY <1>1, <1>2, <1>3, <1>4, ThreadMoves DEF BridgeInv, RecordStatus
---------------------------------------------------------------------------
(* The gateway call.                                                       *)

LEMMA StayInsideKeepsLock ==
  ASSUME BridgeInv, NEW p \in Callers, NEW from \in Locked, NEW to \in Locked,
         Goto(p, from, to), lock' = lock
  PROVE  /\ LockIsHeldInside'
         /\ \A q \in Callers : q # p => pc[q] \notin Locked /\ pc'[q] \notin Locked
         /\ pc[p] = from /\ pc'[p] = to /\ \A q \in Callers : q # p => pc'[q] = pc[q]
BY DEF BridgeInv, TypeOK, LockIsHeldInside, Goto

LEMMA CallGatewayInv ==
  ASSUME BridgeInv, NEW p \in Callers, CallGateway(p) PROVE BridgeInv'
<1>1. /\ LockIsHeldInside'
      /\ \A q \in Callers : q # p => pc[q] \notin Locked /\ pc'[q] \notin Locked
      /\ pc'[p] = "gateway" /\ \A q \in Callers : q # p => pc'[q] = pc[q]
  BY StayInsideKeepsLock DEF CallGateway, Locked
<1>2. PICK op \in GatewayOps : Invoke(p, op)
  BY DEF CallGateway, GatewayOps, GatewayActions, Operation, Commands
<1>3. /\ vendor' = vendor
      /\ call'[p].phase = "running" /\ call'[p].since = vendor.epoch
      /\ \A q \in Callers : q # p => call'[q] = call[q]
  BY <1>2 DEF BridgeInv, GatewayInv, GatewayTypeOK, Invoke
<1>4. GatewayInv'
  BY <1>2, GatewayNextInv DEF BridgeInv, GatewayNext
<1>5. TypeOK'
  BY <1>4, GotoType DEF BridgeInv, TypeOK, GatewayInv, CallGateway, Locked
<1>6. CallsBelongToThreads' /\ LocalDoorIsStill'
  BY <1>1, <1>3
  DEF BridgeInv, CallsBelongToThreads, LocalDoorIsStill, CallGateway
<1>7. CancelledByStop'
  BY <1>1, ThreadsAssumption DEF BridgeInv, CancelledByStop, CallGateway
<1>8. RetainedIsPast' /\ StatusIsPast'
  BY <1>1, <1>3
  DEF BridgeInv, RetainedIsPast, StatusIsPast, NotAfter, CallGateway
<1> QED BY <1>1, <1>4, <1>5, <1>6, <1>7, <1>8 DEF BridgeInv

LEMMA ApplyType ==
  ASSUME TypeOK, NEW p \in Callers, NEW s \in Status, Apply(p, s)
  PROVE  /\ work' \in [Callers -> Work] /\ work'[p].status = {s}
         /\ position' \in Positions
         /\ \A q \in Callers : q # p => work'[q] = work[q]
<1>1. {s} \in Option(Status)
  BY SomeOption
<1>2. s.data.position \in Positions
  BY DEF Status, StatusData
<1> QED BY <1>1, <1>2 DEF TypeOK, Apply, Work

(* A status to be published is no older than what is retained.             *)
LEMMA StartPublishing ==
  ASSUME BridgeInv, NEW p \in Callers, NEW from \in {"dispatch", "gateway"},
         NEW s \in Status, Apply(p, s), Goto(p, from, "publish"),
         UNCHANGED <<vendor, lock, retained, outsideVars>>,
         GatewayInv', call'[p].phase = "idle",
         \A q \in Callers : q # p => call'[q] = call[q],
         s.epoch <= vendor.epoch, \A t \in Topics : NotAfter(t, s.epoch)
  PROVE  BridgeInv'
<1>1. /\ LockIsHeldInside'
      /\ \A q \in Callers : q # p => pc[q] \notin Locked /\ pc'[q] \notin Locked
      /\ pc'[p] = "publish" /\ \A q \in Callers : q # p => pc'[q] = pc[q]
  BY StayInsideKeepsLock DEF Locked
<1>2. /\ work' \in [Callers -> Work] /\ position' \in Positions
      /\ work'[p].status = {s}
  BY ApplyType DEF BridgeInv
<1>3. TypeOK'
  BY <1>2, GotoType DEF BridgeInv, TypeOK, GatewayInv, Locked
<1>4. CallsBelongToThreads' /\ LocalDoorIsStill'
  BY <1>1 DEF BridgeInv, CallsBelongToThreads, LocalDoorIsStill
<1>5. CancelledByStop'
  BY <1>1, ThreadsAssumption DEF BridgeInv, CancelledByStop
<1>6. RetainedIsPast' /\ StatusIsPast'
  BY <1>1, <1>2 DEF BridgeInv, RetainedIsPast, StatusIsPast, NotAfter, Locked
<1> QED BY <1>1, <1>3, <1>4, <1>5, <1>6 DEF BridgeInv

LEMMA UseLocalDoorInv ==
  ASSUME BridgeInv, NEW p \in Callers, UseLocalDoor(p) PROVE BridgeInv'
<1>1. PICK q \in Positions : Apply(p, [data |-> BareStatus(q), epoch |-> 0])
  BY DEF UseLocalDoor, BridgeInv, TypeOK, LocalPosition, Commands, Operation,
         Positions
<1> DEFINE s == [data |-> BareStatus(q), epoch |-> 0]
<1>2. s \in Status
  BY BareStatusType DEF Status
<1>3. vendor.epoch = 0 /\ call[p].phase = "idle"
  BY DEF UseLocalDoor, BridgeInv, LocalDoorIsStill
<1>4. GatewayInv' /\ vendor' = vendor /\ call' = call
  BY GatewayAlone DEF UseLocalDoor
<1>5. \A t \in Topics : NotAfter(t, 0)
  BY <1>3 DEF BridgeInv, RetainedIsPast
<1> HIDE DEF s
<1>6. Apply(p, s) /\ s.epoch = 0
  BY <1>1 DEF s
<1> QED BY <1>2, <1>3, <1>4, <1>5, <1>6, StartPublishing DEF UseLocalDoor

LEMMA CollectEffect ==
  ASSUME GatewayTypeOK, NEW p \in Callers, Collect(p)
  PROVE  /\ vendor' = vendor /\ call'[p].phase = "idle"
         /\ \A q \in Callers : q # p => call'[q] = call[q]
BY DEF GatewayTypeOK, Collect, NoCall

LEMMA ApplyStatusInv ==
  ASSUME BridgeInv, NEW p \in Callers, ApplyStatus(p) PROVE BridgeInv'
<1>1. PICK s \in call[p].result : Apply(p, s)
  BY DEF ApplyStatus
<1>2. /\ s \in Status /\ s.epoch \in Nat /\ call[p].since \in Nat
      /\ call[p].since <= s.epoch /\ s.epoch <= vendor.epoch
  BY DEF BridgeInv, GatewayInv, GatewayTypeOK, AnswerIsFresh, Call, Option, Status
<1>3. /\ vendor' = vendor /\ call'[p].phase = "idle"
      /\ \A q \in Callers : q # p => call'[q] = call[q]
  BY CollectEffect DEF BridgeInv, GatewayInv, ApplyStatus
<1>4. GatewayInv'
  BY GatewayNextInv DEF BridgeInv, ApplyStatus, GatewayNext
<1>5. \A t \in Topics : \A m \in retained[t] : m.epoch \in Nat
  BY DEF BridgeInv, TypeOK, Option
<1>6. \A t \in Topics : NotAfter(t, s.epoch)
  BY <1>2, <1>5 DEF ApplyStatus, Goto, BridgeInv, RetainedIsPast, NotAfter
<1> QED BY <1>1, <1>2, <1>3, <1>4, <1>6, StartPublishing DEF ApplyStatus

LEMMA GatewayFailedInv ==
  ASSUME BridgeInv, NEW p \in Callers, GatewayFailed(p) PROVE BridgeInv'
<1>1. /\ LockIsHeldInside'
      /\ pc'[p] = "release" /\ \A q \in Callers : q # p => pc'[q] = pc[q]
  BY StayInsideKeepsLock DEF GatewayFailed, Locked
<1>2. /\ vendor' = vendor /\ call'[p].phase = "idle"
      /\ \A q \in Callers : q # p => call'[q] = call[q]
  BY CollectEffect DEF BridgeInv, GatewayInv, GatewayFailed
<1>3. GatewayInv'
  BY GatewayNextInv DEF BridgeInv, GatewayFailed, GatewayNext
<1>4. /\ work' \in [Callers -> Work]
      /\ \A q \in Callers : q # p => work'[q] = work[q]
  BY FinishType DEF BridgeInv, GatewayFailed
<1>5. TypeOK'
  BY <1>3, <1>4, GotoType DEF BridgeInv, TypeOK, GatewayInv, GatewayFailed, Locked
<1>6. CallsBelongToThreads' /\ LocalDoorIsStill'
  BY <1>1, <1>2
  DEF BridgeInv, CallsBelongToThreads, LocalDoorIsStill, GatewayFailed
<1>7. CancelledByStop'
  BY <1>1, ThreadsAssumption DEF BridgeInv, CancelledByStop, GatewayFailed
<1>8. RetainedIsPast' /\ StatusIsPast'
  BY <1>1, <1>2, <1>4
  DEF BridgeInv, RetainedIsPast, StatusIsPast, NotAfter, GatewayFailed
<1> QED BY <1>1, <1>3, <1>5, <1>6, <1>7, <1>8 DEF BridgeInv
---------------------------------------------------------------------------
(* The publication.                                                        *)

(* No topic goes back to an older state of the door in this step.          *)
Advances == \A t \in Topics : \A m \in retained[t] :
              \E n \in retained'[t] : m.epoch <= n.epoch

LEMMA RetainedType ==
  ASSUME TypeOK
  PROVE  \A t \in Topics : \A m \in retained[t] : m.epoch \in Nat
BY DEF TypeOK, Option

LEMMA KeepsRetained ==
  ASSUME BridgeInv, retained' = retained PROVE Advances
BY RetainedType DEF BridgeInv, Advances

(* Handing over one message: only the holder of the lock publishes, and    *)
(* its status is no older than anything retained.                          *)
LEMMA RetainOne ==
  ASSUME BridgeInv, NEW p \in Callers, pc[p] = "publish",
         Retain(p) \/ UNCHANGED retained
  PROVE  /\ retained' = [t \in Topics |-> retained'[t]]
         /\ \A t \in Topics :
              retained'[t] \in Option([payload : PayloadRange(t), epoch : Nat])
         /\ \A t \in Topics : \A m \in retained'[t] :
              /\ m.epoch <= vendor.epoch
              /\ \A s \in work[p].status : m.epoch <= s.epoch
         /\ Advances
<1>1. CASE UNCHANGED retained
  BY <1>1, KeepsRetained DEF BridgeInv, TypeOK, RetainedIsPast, NotAfter
<1>2. CASE Retain(p)
  <2> DEFINE u == TopicOrder[work[p].sent + 1]
  <2>1. PICK s \in work[p].status : retained' = [retained EXCEPT ![u] = {Message(u, s)}]
    BY <1>2 DEF Retain
  <2>2. u \in Topics
    BY TopicOrderType DEF BridgeInv, TypeOK, Work
  <2>3. /\ s \in Status /\ s.epoch \in Nat
        /\ \A r \in work[p].status : r = s
    BY DEF BridgeInv, TypeOK, Work, Option, Status
  <2>4. /\ Message(u, s) \in [payload : PayloadRange(u), epoch : Nat]
        /\ Message(u, s).epoch = s.epoch
    BY <2>2, <2>3, MessageType
  <2>5. {Message(u, s)} \in Option([payload : PayloadRange(u), epoch : Nat])
    BY <2>4, SomeOption
  <2> HIDE DEF u
  <2>6. \A t \in Topics :
          retained'[t] = IF t = u THEN {Message(u, s)} ELSE retained[t]
    BY <2>1 DEF BridgeInv, TypeOK
  <2>7. retained' = [t \in Topics |-> retained'[t]]
    BY <2>1 DEF BridgeInv, TypeOK
  <2>8. s.epoch <= vendor.epoch /\ \A t \in Topics : \A m \in retained[t] :
          m.epoch \in Nat /\ m.epoch <= s.epoch /\ m.epoch <= vendor.epoch
    BY RetainedType DEF BridgeInv, RetainedIsPast, StatusIsPast, NotAfter
  <2>9. Advances
    BY <2>4, <2>6, <2>8, <2>3 DEF Advances
  <2>10. \A t \in Topics :
          retained'[t] \in Option([payload : PayloadRange(t), epoch : Nat])
    BY <2>5, <2>6 DEF BridgeInv, TypeOK
  <2> QED BY <2>3, <2>4, <2>6, <2>7, <2>8, <2>9, <2>10
<1> QED BY <1>1, <1>2

(* What remains to be shown of a step that publishes.                      *)
LEMMA PublishStep ==
  ASSUME BridgeInv, NEW p \in Callers, pc[p] = "publish",
         Retain(p) \/ UNCHANGED retained,
         UNCHANGED pc \/ Goto(p, "publish", "release"),
         work' \in [Callers -> Work],
         \A q \in Callers : work'[q].status = work[q].status,
         UNCHANGED <<gatewayVars, lock, position, outsideVars>>
  PROVE  BridgeInv' /\ Advances
<1>1. /\ LockIsHeldInside'
      /\ \A q \in Callers : q # p => pc[q] \notin Locked /\ pc'[q] = pc[q]
      /\ pc'[p] \in {"publish", "release"}
  <2>1. CASE UNCHANGED pc
    BY <2>1 DEF BridgeInv, LockIsHeldInside, Locked
  <2>2. CASE Goto(p, "publish", "release")
    BY <2>2, StayInsideKeepsLock DEF Locked
  <2> QED BY <2>1, <2>2
<1>2. /\ retained' = [t \in Topics |-> retained'[t]]
      /\ \A t \in Topics :
           retained'[t] \in Option([payload : PayloadRange(t), epoch : Nat])
      /\ \A t \in Topics : \A m \in retained'[t] :
           /\ m.epoch <= vendor.epoch
           /\ \A s \in work[p].status : m.epoch <= s.epoch
      /\ Advances
  BY RetainOne
<1>3. TypeOK'
  BY <1>2, GatewayAlone, GotoType DEF BridgeInv, TypeOK, Locked
<1>4. CallsBelongToThreads' /\ LocalDoorIsStill'
  BY <1>1 DEF BridgeInv, CallsBelongToThreads, LocalDoorIsStill
<1>5. CancelledByStop'
  BY <1>1, ThreadsAssumption DEF BridgeInv, CancelledByStop
<1>6. RetainedIsPast' /\ StatusIsPast'
  BY <1>1, <1>2 DEF BridgeInv, RetainedIsPast, StatusIsPast, NotAfter, Locked
<1> QED BY <1>1, <1>2, <1>3, <1>4, <1>5, <1>6, GatewayAlone DEF BridgeInv

LEMMA PublishTopicInv ==
  ASSUME BridgeInv, NEW p \in Callers, PublishTopic(p)
  PROVE  BridgeInv' /\ Advances
<1>1. work' = [work EXCEPT ![p].sent = work[p].sent + 1]
  BY DEF PublishTopic
<1>2. work[p].sent + 1 \in 0..(Len(TopicOrder) - 1)
  BY TopicOrderType DEF PublishTopic, BridgeInv, TypeOK, Work
<1>3. /\ work' \in [Callers -> Work]
      /\ \A q \in Callers : work'[q].status = work[q].status
  BY <1>1, <1>2 DEF BridgeInv, TypeOK, Work
<1> QED BY <1>3, PublishStep DEF PublishTopic, HandOver

LEMMA PublishLastTopicInv ==
  ASSUME BridgeInv, NEW p \in Callers, PublishLastTopic(p)
  PROVE  BridgeInv' /\ Advances
<1>1. /\ work' \in [Callers -> Work]
      /\ \A q \in Callers : work'[q].status = work[q].status
  BY FinishType DEF BridgeInv, PublishLastTopic
<1> QED BY <1>1, PublishStep DEF PublishLastTopic, HandOver, Goto

LEMMA PublishFailsInv ==
  ASSUME BridgeInv, NEW p \in Callers, PublishFails(p)
  PROVE  BridgeInv' /\ Advances
<1>1. /\ work' \in [Callers -> Work]
      /\ \A q \in Callers : work'[q].status = work[q].status
  BY FinishType DEF BridgeInv, PublishFails
<1> QED BY <1>1, PublishStep DEF PublishFails, Goto
---------------------------------------------------------------------------
(* The vendor, the MQTT session and the main task.                         *)

LEMMA GatewayWorksInv ==
  ASSUME BridgeInv, GatewayWorks PROVE BridgeInv'
<1>1. /\ UNCHANGED <<pc, lock, work, position, retained, hasGateway, lastStatus,
                     statusFile, failedWrites, mqtt, subscribed, drops, main,
                     requests>>
      /\ GatewayInv'
  BY GatewayNextInv DEF BridgeInv, GatewayWorks, GatewayNext
<1>2. /\ vendor.epoch \in Nat /\ vendor'.epoch \in Nat
      /\ vendor.epoch <= vendor'.epoch
      /\ ~hasGateway => vendor' = vendor
      /\ \A p \in Callers : /\ call[p].since \in Nat /\ call'[p].since \in Nat
                            /\ call[p].since <= call'[p].since
                            /\ call'[p].phase = "idle" <=> call[p].phase = "idle"
  <2>1. GatewayTypeOK /\ \A p \in Callers : call[p].since <= vendor.epoch
    BY DEF BridgeInv, GatewayInv
  <2>2. CASE hasGateway /\ VendorMoves
    <3>1. vendor'.epoch = vendor.epoch + 1 /\ call' = call
      BY <2>1, <2>2, MoveDoorType DEF VendorMoves
    <3> QED BY <2>1, <2>2, <3>1 DEF GatewayTypeOK, Status, Call
  <2>3. ASSUME NEW p \in Callers, TakeEffect(p) PROVE <1>2
    <3>1. vendor'.epoch = vendor.epoch + 1
      BY <2>1, <2>3, MoveDoorType DEF TakeEffect
    <3>2. hasGateway
      BY <2>3 DEF BridgeInv, LocalDoorIsStill, TakeEffect, Running
    <3> QED BY <2>1, <2>3, <3>1, <3>2 DEF GatewayTypeOK, TakeEffect, Status, Call
  <2>4. ASSUME NEW p \in Callers, Answer(p) PROVE <1>2
    <3>1. /\ vendor' = vendor /\ Running(p)
          /\ \E result : Return(p, result)
      BY <2>4 DEF Answer, ReturnStatus, ReturnPending, Raise, Return
    <3> QED BY <2>1, <3>1 DEF GatewayTypeOK, Return, Running, Status, Call
  <2> QED BY <2>2, <2>3, <2>4 DEF GatewayWorks
<1>3. TypeOK'
  BY <1>1 DEF BridgeInv, TypeOK, GatewayInv
<1>4. LockIsHeldInside' /\ CancelledByStop'
  BY <1>1 DEF BridgeInv, LockIsHeldInside, CancelledByStop
<1>5. CallsBelongToThreads' /\ LocalDoorIsStill'
  BY <1>1, <1>2 DEF BridgeInv, CallsBelongToThreads, LocalDoorIsStill
<1>6. \A t \in Topics : \A m \in retained[t] : m.epoch \in Nat
  BY RetainedType DEF BridgeInv
<1>7. RetainedIsPast'
  BY <1>1, <1>2, <1>6 DEF BridgeInv, RetainedIsPast, NotAfter
<1>8. \A p \in Callers : \A s \in work[p].status : s.epoch \in Nat
  BY DEF BridgeInv, TypeOK, Work, Option, Status
<1>9. StatusIsPast'
  BY <1>1, <1>2, <1>8 DEF BridgeInv, StatusIsPast
<1> QED BY <1>1, <1>3, <1>4, <1>5, <1>7, <1>9 DEF BridgeInv

(* The steps that touch no thread.                                         *)
LEMMA SurroundingsInv ==
  ASSUME BridgeInv,
         UNCHANGED <<gatewayVars, controlVars, work, position, retained,
                     hasGateway>>,
         main' = main \/ main' \notin {"starting", "running"}, TypeOK'
  PROVE  BridgeInv'
<1>1. GatewayInv'
  BY GatewayAlone
<1>2. LockIsHeldInside' /\ CancelledByStop'
  BY DEF BridgeInv, LockIsHeldInside, CancelledByStop
<1>3. CallsBelongToThreads' /\ LocalDoorIsStill'
  BY DEF BridgeInv, CallsBelongToThreads, LocalDoorIsStill
<1>4. RetainedIsPast' /\ StatusIsPast'
  BY DEF BridgeInv, RetainedIsPast, StatusIsPast, NotAfter
<1> QED BY <1>1, <1>2, <1>3, <1>4 DEF BridgeInv

LEMMA SessionInv ==
  ASSUME BridgeInv, LoseConnection \/ Reconnect \/ DisconnectMqtt \/ Exit
  PROVE  BridgeInv'
<1>1. CASE LoseConnection
  <2>1. drops' \in 0..MaxDrops
    BY <1>1, BoundsAssumption DEF BridgeInv, TypeOK, LoseConnection
  <2>2. TypeOK'
    BY <1>1, <2>1, GatewayAlone DEF BridgeInv, TypeOK, LoseConnection
  <2> QED BY <1>1, <2>2, SurroundingsInv DEF LoseConnection
<1>2. CASE Reconnect
  <2>1. TypeOK'
    BY <1>2, GatewayAlone DEF BridgeInv, TypeOK, Reconnect
  <2> QED BY <1>2, <2>1, SurroundingsInv DEF Reconnect
<1>3. CASE DisconnectMqtt
  <2>1. TypeOK'
    BY <1>3, GatewayAlone DEF BridgeInv, TypeOK, DisconnectMqtt
  <2> QED BY <1>3, <2>1, SurroundingsInv DEF DisconnectMqtt
<1>4. CASE Exit
  <2>1. TypeOK'
    BY <1>4, GatewayAlone DEF BridgeInv, TypeOK, Exit
  <2> QED BY <1>4, <2>1, SurroundingsInv DEF Exit
<1> QED BY <1>1, <1>2, <1>3, <1>4

LEMMA StartPollingInv ==
  ASSUME BridgeInv, StartPolling PROVE BridgeInv'
<1>1. /\ Poller \in Callers /\ pc[Poller] = "new"
      /\ pc' = [pc EXCEPT ![Poller] = "acquire"]
  BY ThreadsAssumption DEF StartPolling, Goto
<1>2. TypeOK'
  BY <1>1, GotoType, GatewayAlone DEF BridgeInv, TypeOK, StartPolling
<1>3. LockIsHeldInside'
  BY <1>1 DEF BridgeInv, TypeOK, LockIsHeldInside, Locked, StartPolling
<1> QED BY <1>1, <1>2, <1>3, ThreadMoves DEF BridgeInv, StartPolling

LEMMA StopPollingInv ==
  ASSUME BridgeInv, StopPolling PROVE BridgeInv'
<1>1. /\ Poller \in Callers /\ pc[Poller] # "cancelled"
      /\ \A q \in Callers : pc'[q] = IF q = Poller THEN "cancelled" ELSE pc[q]
  BY ThreadsAssumption
  DEF StopPolling, PollAwaits, BridgeInv, TypeOK, CancelledByStop
<1>2. /\ work' \in [Callers -> Work]
      /\ \A q \in Callers : q # Poller => work'[q] = work[q]
  BY <1>1, ForgetType DEF BridgeInv, StopPolling
<1>3. TypeOK'
  <2>1. statusFile' \in Option(StatusData)
    <3>1. \A s \in work[Poller].status : {s.data} \in Option(StatusData)
      <4> TAKE s \in work[Poller].status
      <4>1. s.data \in StatusData
        BY <1>1 DEF BridgeInv, TypeOK, Work, Option, Status
      <4> QED BY <4>1, SomeOption
    <3> QED BY <3>1 DEF BridgeInv, TypeOK, StopPolling
  <2>2. /\ pc' \in [Callers -> CommandPoints \cup PollPoints]
        /\ pc'[Poller] \in PollPoints
        /\ \A c \in CommandThreads : pc'[c] \in CommandPoints
    BY <1>1, ThreadsAssumption DEF BridgeInv, TypeOK, PollPoints, StopPolling
  <2> QED BY <1>1, <1>2, <2>1, <2>2, GatewayAlone DEF BridgeInv, TypeOK, StopPolling
<1>4. LockIsHeldInside'
  BY <1>1, ThreadsAssumption
  DEF BridgeInv, TypeOK, LockIsHeldInside, Locked, StopPolling
<1>5. CallsBelongToThreads' /\ LocalDoorIsStill'
  BY <1>1 DEF BridgeInv, CallsBelongToThreads, LocalDoorIsStill, StopPolling
<1>6. CancelledByStop'
  BY DEF CancelledByStop, StopPolling
<1>7. RetainedIsPast' /\ StatusIsPast'
  BY <1>1, <1>2
  DEF BridgeInv, RetainedIsPast, StatusIsPast, NotAfter, StopPolling
<1> QED BY <1>3, <1>4, <1>5, <1>6, <1>7, GatewayAlone DEF BridgeInv, StopPolling

---------------------------------------------------------------------------
(* The whole bridge.                                                       *)

LEMMA BridgeInitInv == Init => BridgeInv
<1> SUFFICES ASSUME Init PROVE BridgeInv
  OBVIOUS
<1>1. GatewayInv /\ vendor.epoch = 0 /\ \A p \in Callers : call[p].phase = "idle"
  BY GatewayInitInv DEF Init, GatewayInit, NoCall
<1>2. \A t \in Topics :
        /\ retained[t] \in Option([payload : PayloadRange(t), epoch : Nat])
        /\ NotAfter(t, 0)
  <2> TAKE t \in Topics
  <2>1. CASE retained = [u \in Topics |-> {}]
    BY <2>1 DEF NotAfter, Option
  <2>2. ASSUME NEW d \in VendorData,
               retained = [u \in Topics |-> {Message(u, [data |-> d, epoch |-> 0])}]
        PROVE  /\ retained[t] \in Option([payload : PayloadRange(t), epoch : Nat])
               /\ NotAfter(t, 0)
    <3> DEFINE s == [data |-> d, epoch |-> 0]
    <3>1. s \in Status /\ s.epoch = 0
      BY VendorDataAssumption DEF Status
    <3> HIDE DEF s
    <3>2. /\ Message(t, s) \in [payload : PayloadRange(t), epoch : Nat]
          /\ Message(t, s).epoch = 0
      BY <3>1, MessageType
    <3>3. retained[t] = {Message(t, s)}
      BY <2>2 DEF s
    <3>4. {Message(t, s)} \in Option([payload : PayloadRange(t), epoch : Nat])
      BY <3>2, SomeOption
    <3> QED BY <3>2, <3>3, <3>4 DEF NotAfter
  <2> QED BY <2>1, <2>2 DEF Init
<1>3. retained = [t \in Topics |-> retained[t]]
  BY DEF Init
<1>4. TypeOK
  <2>1. work \in [Callers -> Work]
    BY NoWorkType DEF Init
  <2>2. /\ pc \in [Callers -> CommandPoints \cup PollPoints]
        /\ pc[Poller] \in PollPoints
        /\ \A c \in CommandThreads : pc[c] \in CommandPoints
    BY ThreadsAssumption DEF Init, CommandPoints, PollPoints
  <2>3. {} \in Option(StatusData)
    BY DEF Option
  <2> QED BY <1>1, <1>2, <1>3, <2>1, <2>2, <2>3, BoundsAssumption
          DEF Init, TypeOK, GatewayInv, Positions
<1>5. LockIsHeldInside
  BY ThreadsAssumption DEF Init, LockIsHeldInside, Locked
<1>6. CallsBelongToThreads /\ CancelledByStop /\ LocalDoorIsStill
  BY <1>1, ThreadsAssumption
  DEF Init, CallsBelongToThreads, CancelledByStop, LocalDoorIsStill
<1>7. RetainedIsPast /\ StatusIsPast
  BY <1>1, <1>2 DEF Init, RetainedIsPast, StatusIsPast
<1> QED BY <1>1, <1>4, <1>5, <1>6, <1>7 DEF BridgeInv

LEMMA BridgeNextInv ==
  ASSUME BridgeInv, [Next]_vars PROVE BridgeInv' /\ Advances
<1>1. ASSUME NEW p \in Callers, Acquire(p) PROVE BridgeInv' /\ Advances
  BY <1>1, AcquireInv, KeepsRetained DEF Acquire
<1>2. ASSUME NEW p \in Callers, RejectCommand(p) PROVE BridgeInv' /\ Advances
  BY <1>2, RejectCommandInv, KeepsRetained DEF RejectCommand
<1>3. ASSUME NEW p \in Callers, CallGateway(p) PROVE BridgeInv' /\ Advances
  BY <1>3, CallGatewayInv, KeepsRetained DEF CallGateway
<1>4. ASSUME NEW p \in Callers, UseLocalDoor(p) PROVE BridgeInv' /\ Advances
  BY <1>4, UseLocalDoorInv, KeepsRetained DEF UseLocalDoor
<1>5. ASSUME NEW p \in Callers, ApplyStatus(p) PROVE BridgeInv' /\ Advances
  BY <1>5, ApplyStatusInv, KeepsRetained DEF ApplyStatus
<1>6. ASSUME NEW p \in Callers, GatewayFailed(p) PROVE BridgeInv' /\ Advances
  BY <1>6, GatewayFailedInv, KeepsRetained DEF GatewayFailed
<1>7. ASSUME NEW p \in Callers, PublishTopic(p) PROVE BridgeInv' /\ Advances
  BY <1>7, PublishTopicInv
<1>8. ASSUME NEW p \in Callers, PublishLastTopic(p) PROVE BridgeInv' /\ Advances
  BY <1>8, PublishLastTopicInv
<1>9. ASSUME NEW p \in Callers, PublishFails(p) PROVE BridgeInv' /\ Advances
  BY <1>9, PublishFailsInv
<1>10. ASSUME NEW p \in Callers, ReleaseWithResult(p) PROVE BridgeInv' /\ Advances
  BY <1>10, ReleaseWithResultInv, KeepsRetained DEF ReleaseWithResult, ReleaseAnd
<1>11. ASSUME NEW p \in Callers, ReleaseAndEnd(p) PROVE BridgeInv' /\ Advances
  BY <1>11, ReleaseAndEndInv, KeepsRetained DEF ReleaseAndEnd, ReleaseAnd
<1>12. ASSUME NEW c \in CommandThreads, OnMessage(c) PROVE BridgeInv' /\ Advances
  BY <1>12, OnMessageInv, KeepsRetained DEF OnMessage
<1>13. ASSUME NEW c \in CommandThreads, ReportUsage(c) PROVE BridgeInv' /\ Advances
  BY <1>13, ReportUsageInv, KeepsRetained DEF ReportUsage
<1>14. CASE StartPoll
  BY <1>14, StartPollInv, KeepsRetained DEF StartPoll
<1>15. CASE RecordStatus
  BY <1>15, RecordStatusInv, KeepsRetained DEF RecordStatus
<1>16. CASE GatewayWorks
  BY <1>16, GatewayWorksInv, KeepsRetained DEF GatewayWorks
<1>17. CASE LoseConnection \/ Reconnect \/ DisconnectMqtt \/ Exit
  BY <1>17, SessionInv, KeepsRetained
  DEF LoseConnection, Reconnect, DisconnectMqtt, Exit
<1>18. CASE StartPolling
  BY <1>18, StartPollingInv, KeepsRetained DEF StartPolling
<1>19. CASE StopPolling
  BY <1>19, StopPollingInv, KeepsRetained DEF StopPolling
<1>20. CASE UNCHANGED vars
  <2>1. TypeOK'
    BY <1>20, GatewayAlone DEF vars, BridgeInv, TypeOK
  <2> QED BY <1>20, <2>1, SurroundingsInv, KeepsRetained DEF vars
<1> QED BY <1>1, <1>2, <1>3, <1>4, <1>5, <1>6, <1>7, <1>8, <1>9, <1>10, <1>11,
           <1>12, <1>13, <1>14, <1>15, <1>16, <1>17, <1>18, <1>19, <1>20
        DEF Next, Proceed, Main

(* The invariant holds in every reachable state.                           *)
THEOREM BridgeInvariant == Spec => []BridgeInv
<1>1. Init => BridgeInv
  BY BridgeInitInv
<1>2. BridgeInv /\ [Next]_vars => BridgeInv'
  BY BridgeNextInv
<1> QED BY <1>1, <1>2, PTL DEF Spec

(* Every variable keeps its type, for any threads, requests and door       *)
(* states: whatever the vendor answers, the device holds one of the eight  *)
(* door_position values and every retained payload is one its topic knows. *)
THEOREM TypesHold == Spec => []TypeOK
<1>1. BridgeInv => TypeOK
  BY DEF BridgeInv
<1> QED BY <1>1, BridgeInvariant, PTL

(* door_controller._operation_lock excludes any number of command threads  *)
(* and the poll task from each other, and no path leaves it taken.         *)
THEOREM LockExcludes == Spec => []LockIsHeldInside
<1>1. BridgeInv => LockIsHeldInside
  BY DEF BridgeInv
<1> QED BY <1>1, BridgeInvariant, PTL

(* Up to the stop the gateway is never called twice at once, although the  *)
(* calls run in worker threads that do not know of the lock.               *)
THEOREM CallsAreSerialized == Spec => []SerializedUntilStop
<1>1. BridgeInv => SerializedUntilStop
  <2> SUFFICES ASSUME BridgeInv, main \in {"starting", "running"},
                      NEW p \in Callers, NEW q \in Callers, Running(p), Running(q)
               PROVE  p = q
    BY DEF SerializedUntilStop, AtMostOneCall
  <2>1. ASSUME NEW r \in Callers, Running(r) PROVE lock = r
    <3>1. pc[r] # "cancelled"
      BY ThreadsAssumption
      DEF BridgeInv, CancelledByStop, TypeOK, CommandPoints, Locked
    <3>2. pc[r] = "gateway"
      BY <2>1, <3>1 DEF BridgeInv, CallsBelongToThreads, Running
    <3> QED BY <3>2 DEF BridgeInv, LockIsHeldInside, Locked
  <2> QED BY <2>1
<1> QED BY <1>1, BridgeInvariant, PTL

(* No subscriber is ever sent back in time, across commands, polls, lost   *)
(* connections, cancelled polls and the stop.                              *)
THEOREM PublicationsAdvance == Spec => NoStalePublish
<1>1. BridgeInv /\ [Next]_vars => [Advances]_vars
  BY BridgeNextInv
<1> QED BY <1>1, BridgeInvariant, PTL DEF Spec, NoStalePublish, Advances

---------------------------------------------------------------------------
(* What was published: the status a success reports, the six topics, the   *)
(* panel's file.                                                           *)

(* The connection is as the bounds of the run left it, without a loss.     *)
Unbroken == drops = 0 /\ mqtt = "connected"

LostIsCounted == mqtt = "lost" => drops # 0

(* Whatever the gateway answers is a status the topics can tell of.        *)
AnswersAreKnown ==
  /\ vendor.data \in VendorData /\ vendor.epoch <= MaxEpoch
  /\ \A p \in Callers : \A s \in call[p].result : s.data \in KnownData

NothingSentYet ==
  \A p \in Callers : pc[p] \notin {"publish", "release", "report", "record"} =>
    work[p].sent = 0

Tells(t, s) == mqtt = "closed" \/ \E m \in retained[t] : s.epoch <= m.epoch

(* The device holds the position of the status being published, and the    *)
(* topics handed over so far tell of that status.                          *)
BeingPublished ==
  \A p \in Callers : pc[p] = "publish" =>
    \E s \in work[p].status :
      /\ position = s.data.position
      /\ s.data \in KnownData /\ s.epoch \in 0..MaxEpoch
      /\ \A i \in 1..work[p].sent :
           /\ Tells(TopicOrder[i], s)
           /\ Unbroken => retained[TopicOrder[i]] = {Message(TopicOrder[i], s)}

(* SuccessIsPublished from the last topic on, before it is reported.       *)
SuccessWasPublished ==
  \A p \in Callers : pc[p] \in {"release", "report"} /\ work[p].end = "success" =>
    \E s \in work[p].status : /\ work[p].data = s.data.position
                              /\ \A t \in Topics : Tells(t, s)

OneStatus ==
  \/ position = "unknown" /\ \A t \in Topics : retained[t] = {}
  \/ \E d \in KnownData, e \in 0..MaxEpoch :
       /\ \A t \in Topics : retained[t] = {Message(t, [data |-> d, epoch |-> e])}
       /\ position \in {d.position, "unknown"}

(* RetainedIsOneStatus whenever nothing is being published.                *)
TopicsAgree == Unbroken /\ (\A p \in Callers : pc[p] # "publish") => OneStatus

(* Inductive on top of BridgeInv: two operations never publish at once,    *)
(* and what one has published is only ever overtaken by newer statuses.    *)
PublicationInv == /\ LostIsCounted
                  /\ AnswersAreKnown
                  /\ NothingSentYet
                  /\ BeingPublished
                  /\ SuccessWasPublished
                  /\ TopicsAgree
                  /\ PanelShowsLastPoll

LEMMA TopicOrderCovers ==
  /\ \A t \in Topics : \E i \in 1..6 : TopicOrder[i] = t
  /\ \A i \in 1..6, j \in 1..6 : TopicOrder[i] = TopicOrder[j] => i = j
<1>1. /\ TopicOrder[1] = "status" /\ TopicOrder[2] = "status_code"
      /\ TopicOrder[3] = "fault" /\ TopicOrder[4] = "connected"
      /\ TopicOrder[5] = "battery" /\ TopicOrder[6] = "light_level"
  BY DEF TopicOrder
<1>2. \A i \in 1..6 : i = 1 \/ i = 2 \/ i = 3 \/ i = 4 \/ i = 5 \/ i = 6
  OBVIOUS
<1> QED BY <1>1, <1>2 DEF Topics

(* A topic that tells of a status goes on telling of it or a newer one.    *)
LEMMA TellsStill ==
  ASSUME BridgeInv, BridgeInv', Advances, mqtt = "closed" => mqtt' = "closed",
         NEW t \in Topics, NEW s \in Status, Tells(t, s)
  PROVE  mqtt' = "closed" \/ \E m \in retained'[t] : s.epoch <= m.epoch
<1>1. CASE mqtt = "closed"
  BY <1>1
<1>2. ASSUME NEW m \in retained[t], s.epoch <= m.epoch
      PROVE  \E n \in retained'[t] : s.epoch <= n.epoch
  <2>1. PICK n \in retained'[t] : m.epoch <= n.epoch
    BY DEF Advances
  <2>2. m.epoch \in Nat /\ n.epoch \in Nat /\ s.epoch \in Nat
    BY RetainedType DEF BridgeInv, TypeOK, Option, Status
  <2> QED BY <1>2, <2>1, <2>2
<1> QED BY <1>1, <1>2 DEF Tells

LEMMA StatusOfWork ==
  ASSUME TypeOK, NEW p \in Callers
  PROVE  \A s \in work[p].status : s \in Status /\ \A r \in work[p].status : r = s
BY DEF TypeOK, Work, Option

(* A thread that does not publish, before or after the step, and whose     *)
(* success is one that was published.                                      *)
LEMMA StaysSilent ==
  ASSUME BridgeInv, PublicationInv, NEW p \in Callers, NEW to,
         \A q \in Callers : pc'[q] = IF q = p THEN to ELSE pc[q],
         pc[p] # "publish", to # "publish",
         \A q \in Callers : q # p => work'[q] = work[q],
         to \in {"release", "report"} /\ work'[p].end = "success" =>
           pc[p] = "release" /\ work'[p] = work[p],
         to \notin {"release", "report", "record"} => work'[p].sent = 0,
         UNCHANGED <<retained, position, mqtt, drops>>
  PROVE  /\ LostIsCounted' /\ NothingSentYet' /\ BeingPublished'
         /\ SuccessWasPublished' /\ TopicsAgree'
<1>1. LostIsCounted'
  BY DEF PublicationInv, LostIsCounted
<1>2. NothingSentYet'
  BY DEF PublicationInv, NothingSentYet
<1>3. BeingPublished'
  BY DEF PublicationInv, BeingPublished, Tells, Unbroken
<1>4. SuccessWasPublished'
  BY DEF PublicationInv, SuccessWasPublished, Tells
<1>5. TopicsAgree'
  BY DEF PublicationInv, TopicsAgree, OneStatus, Unbroken
<1> QED BY <1>1, <1>2, <1>3, <1>4, <1>5

(* Nothing is added to what the gateway answered.                          *)
LEMMA KnownStays ==
  ASSUME PublicationInv, vendor' = vendor,
         \A p \in Callers : call'[p] = call[p] \/ call'[p].result = {}
  PROVE  AnswersAreKnown'
BY DEF PublicationInv, AnswersAreKnown

LEMMA PanelStays ==
  ASSUME PublicationInv, UNCHANGED pollVars,
         pc[Poller] = "cancelled" => pc'[Poller] = "cancelled"
  PROVE  PanelShowsLastPoll'
BY DEF PublicationInv, PanelShowsLastPoll

LEMMA GotoEffect ==
  ASSUME BridgeInv, NEW p \in Callers, NEW from, NEW to, Goto(p, from, to)
  PROVE  /\ pc[p] = from
         /\ \A q \in Callers : pc'[q] = IF q = p THEN to ELSE pc[q]
         /\ from # "cancelled" =>
              (pc[Poller] = "cancelled" => pc'[Poller] = "cancelled")
BY ThreadsAssumption DEF BridgeInv, TypeOK, Goto

LEMMA FinishEffect ==
  ASSUME BridgeInv, NEW p \in Callers, NEW end, Finish(p, end)
  PROVE  /\ work'[p].end = end /\ work'[p].data = position
         /\ work'[p].status = work[p].status /\ work'[p].sent = work[p].sent
         /\ \A q \in Callers : q # p => work'[q] = work[q]
BY DEF BridgeInv, TypeOK, Finish, Work

LEMMA ForgetEffect ==
  ASSUME BridgeInv, NEW p \in Callers, Forget(p)
  PROVE  /\ work'[p].sent = 0 /\ work'[p].end = "open" /\ work'[p].status = {}
         /\ \A q \in Callers : q # p => work'[q] = work[q]
BY DEF BridgeInv, TypeOK, Forget, NoWork

---------------------------------------------------------------------------
(* The steps that publish nothing.                                         *)

LEMMA OnMessagePublication ==
  ASSUME BridgeInv, PublicationInv, NEW c \in CommandThreads, OnMessage(c)
  PROVE  PublicationInv'
<1>1. c \in Callers
  BY ThreadsAssumption
<1>2. PICK m \in Requests : work' = [work EXCEPT ![c].request = m]
  BY DEF OnMessage
<1>3. /\ work'[c].sent = work[c].sent
      /\ \A q \in Callers : q # c => work'[q] = work[q]
  BY <1>1, <1>2 DEF BridgeInv, TypeOK, Work
<1>4. Goto(c, "idle", "acquire")
  BY DEF OnMessage
<1>5. pc[c] = "idle" /\ work[c].sent = 0
  BY <1>1, <1>4 DEF PublicationInv, NothingSentYet, Goto
<1> QED BY <1>1, <1>3, <1>4, <1>5, GotoEffect, StaysSilent, KnownStays, PanelStays
        DEF OnMessage, PublicationInv

LEMMA EnterPublication ==
  ASSUME BridgeInv, PublicationInv, NEW p \in Callers,
         (StartPolling /\ p = Poller) \/ (StartPoll /\ p = Poller) \/ Acquire(p)
  PROVE  PublicationInv'
<1>1. PICK from \in {"new", "sleep", "acquire"}, to \in {"acquire", "dispatch"} :
        Goto(p, from, to)
  BY DEF StartPolling, StartPoll, Acquire
<1>2. work' = work /\ UNCHANGED <<gatewayVars, retained, position, pollVars, sessionVars>>
  BY DEF StartPolling, StartPoll, Acquire
<1>3. work[p].sent = 0
  BY <1>1 DEF PublicationInv, NothingSentYet, Goto
<1> QED BY <1>1, <1>2, <1>3, GotoEffect, StaysSilent, KnownStays, PanelStays
        DEF PublicationInv

LEMMA RejectCommandPublication ==
  ASSUME BridgeInv, PublicationInv, NEW p \in Callers, RejectCommand(p)
  PROVE  PublicationInv'
<1>1. Goto(p, "dispatch", "release") /\ Finish(p, "raised")
  BY DEF RejectCommand
<1>2. /\ work'[p].end = "raised"
      /\ \A q \in Callers : q # p => work'[q] = work[q]
  BY <1>1, FinishEffect
<1> QED BY <1>1, <1>2, GotoEffect, StaysSilent, KnownStays, PanelStays
        DEF RejectCommand, PublicationInv

LEMMA CallGatewayPublication ==
  ASSUME BridgeInv, PublicationInv, NEW p \in Callers, CallGateway(p)
  PROVE  PublicationInv'
<1>1. Goto(p, "dispatch", "gateway") /\ \E op : Invoke(p, op)
  BY DEF CallGateway
<1>2. vendor' = vendor /\ \A q \in Callers : call'[q] = call[q] \/ call'[q].result = {}
  BY <1>1 DEF Invoke, BridgeInv, TypeOK, GatewayTypeOK
<1>3. work[p].sent = 0
  BY <1>1 DEF PublicationInv, NothingSentYet, Goto
<1> QED BY <1>1, <1>2, <1>3, GotoEffect, StaysSilent, KnownStays, PanelStays
        DEF CallGateway, PublicationInv

LEMMA CollectKnown ==
  ASSUME BridgeInv, NEW p \in Callers, Collect(p)
  PROVE  vendor' = vendor /\ \A q \in Callers : call'[q] = call[q] \/ call'[q].result = {}
BY DEF Collect, NoCall, BridgeInv, TypeOK, GatewayTypeOK

LEMMA GatewayFailedPublication ==
  ASSUME BridgeInv, PublicationInv, NEW p \in Callers, GatewayFailed(p)
  PROVE  PublicationInv'
<1>1. Goto(p, "gateway", "release") /\ Finish(p, "failure") /\ Collect(p)
  BY DEF GatewayFailed
<1>2. /\ work'[p].end = "failure"
      /\ \A q \in Callers : q # p => work'[q] = work[q]
  BY <1>1, FinishEffect
<1> QED BY <1>1, <1>2, CollectKnown, GotoEffect, StaysSilent, KnownStays, PanelStays
        DEF GatewayFailed, PublicationInv

(* The lock is given back: a success stays what was published.             *)
LEMMA ReleasePublication ==
  ASSUME BridgeInv, PublicationInv, NEW p \in Callers,
         ReleaseWithResult(p) \/ ReleaseAndEnd(p)
  PROVE  PublicationInv'
<1>1. PICK to \in {"record", "report", "sleep", "idle"} :
        /\ ReleaseAnd(p, to)
        /\ \/ to \in {"record", "report"} /\ work' = work
           \/ to \in {"sleep", "idle"} /\ Forget(p)
  BY DEF ReleaseWithResult, ReleaseAndEnd
<1>2. Goto(p, "release", to)
  BY <1>1 DEF ReleaseAnd
<1>3. /\ to \in {"sleep", "idle"} => work'[p].sent = 0
      /\ to = "report" => work'[p] = work[p]
      /\ \A q \in Callers : q # p => work'[q] = work[q]
  BY <1>1, ForgetEffect
<1>4. UNCHANGED <<gatewayVars, retained, position, pollVars, sessionVars>>
  BY <1>1 DEF ReleaseAnd
<1> QED BY <1>2, <1>3, <1>4, GotoEffect, StaysSilent, KnownStays, PanelStays
        DEF PublicationInv

LEMMA ReportUsagePublication ==
  ASSUME BridgeInv, PublicationInv, NEW c \in CommandThreads, ReportUsage(c)
  PROVE  PublicationInv'
<1>1. c \in Callers /\ Goto(c, "report", "idle") /\ Forget(c)
  BY ThreadsAssumption DEF ReportUsage
<1> QED BY <1>1, ForgetEffect, GotoEffect, StaysSilent, KnownStays, PanelStays
        DEF ReportUsage, PublicationInv

(* A write that fails is counted, every other one leaves the file and what *)
(* is remembered the same.                                                 *)
LEMMA RecordStatusPublication ==
  ASSUME BridgeInv, PublicationInv, RecordStatus
  PROVE  PublicationInv'
<1>1. Poller \in Callers /\ Goto(Poller, "record", "sleep") /\ Forget(Poller)
  BY ThreadsAssumption DEF RecordStatus
<1>2. PICK s \in work[Poller].status :
        /\ WriteStatusFile(s) \/ WriteFails(s) \/ NothingToWrite(s)
        /\ lastStatus' = {s.data}
  BY DEF RecordStatus
<1>3. PanelShowsLastPoll'
  <2>1. pc[Poller] # "cancelled" /\ failedWrites \in Nat
    BY <1>1, BoundsAssumption DEF Goto, BridgeInv, TypeOK
  <2>2. failedWrites = 0 => statusFile = lastStatus
    BY <2>1 DEF PublicationInv, PanelShowsLastPoll
  <2> QED BY <1>2, <2>1, <2>2
          DEF WriteStatusFile, WriteFails, NothingToWrite, PanelShowsLastPoll
<1> QED BY <1>1, <1>3, ForgetEffect, GotoEffect, StaysSilent, KnownStays
        DEF RecordStatus, PublicationInv

LEMMA StopPollingPublication ==
  ASSUME BridgeInv, PublicationInv, StopPolling
  PROVE  PublicationInv'
<1>1. /\ Poller \in Callers /\ Forget(Poller) /\ pc[Poller] # "publish"
      /\ \A q \in Callers : pc'[q] = IF q = Poller THEN "cancelled" ELSE pc[q]
  BY ThreadsAssumption DEF StopPolling, PollAwaits, BridgeInv, TypeOK
<1>2. PanelShowsLastPoll'
  BY <1>1 DEF PanelShowsLastPoll
<1> QED BY <1>1, <1>2, ForgetEffect, StaysSilent, KnownStays
        DEF StopPolling, PublicationInv

---------------------------------------------------------------------------
(* The steps that publish.                                                 *)

(* Only one thread publishes: the others are outside the lock.             *)
LEMMA OthersAreOutside ==
  ASSUME BridgeInv, NEW p \in Callers, pc[p] \in Locked
  PROVE  \A q \in Callers : q # p => pc[q] \notin Locked
BY DEF BridgeInv, LockIsHeldInside

(* The answer becomes the device's position and is about to be published.  *)
LEMMA BeginPublication ==
  ASSUME BridgeInv, PublicationInv, NEW p \in Callers,
         NEW from \in {"dispatch", "gateway"}, Goto(p, from, "publish"),
         NEW s, s.data \in KnownData, s.epoch \in 0..MaxEpoch, Apply(p, s),
         vendor' = vendor,
         \A q \in Callers : call'[q] = call[q] \/ call'[q].result = {},
         UNCHANGED <<retained, pollVars, sessionVars>>
  PROVE  PublicationInv'
<1>1. /\ pc[p] = from /\ pc'[p] = "publish"
      /\ \A q \in Callers : q # p => pc'[q] = pc[q] /\ pc[q] \notin Locked
      /\ pc[Poller] = "cancelled" => pc'[Poller] = "cancelled"
  BY GotoEffect, OthersAreOutside DEF Locked
<1>2. /\ work'[p].status = {s} /\ work'[p].sent = work[p].sent
      /\ \A q \in Callers : q # p => work'[q] = work[q]
      /\ position' = s.data.position
  BY DEF Apply, BridgeInv, TypeOK, Work
<1>3. work[p].sent = 0
  BY <1>1 DEF PublicationInv, NothingSentYet
<1>4. BeingPublished'
  BY <1>1, <1>2, <1>3 DEF BeingPublished, Locked
<1>5. SuccessWasPublished'
  BY <1>1, <1>2 DEF PublicationInv, SuccessWasPublished, Tells
<1>6. NothingSentYet'
  BY <1>1, <1>2 DEF PublicationInv, NothingSentYet
<1>7. TopicsAgree' /\ LostIsCounted'
  BY <1>1 DEF PublicationInv, TopicsAgree, LostIsCounted
<1> QED BY <1>1, <1>4, <1>5, <1>6, <1>7, KnownStays, PanelStays DEF PublicationInv

LEMMA UseLocalDoorPublication ==
  ASSUME BridgeInv, PublicationInv, NEW p \in Callers, UseLocalDoor(p)
  PROVE  PublicationInv'
<1>1. PICK q \in Positions : Apply(p, [data |-> BareStatus(q), epoch |-> 0])
  BY DEF UseLocalDoor, BridgeInv, TypeOK, LocalPosition, Commands, Operation,
         Positions
<1> DEFINE s == [data |-> BareStatus(q), epoch |-> 0]
<1>2. s.data \in KnownData /\ s.epoch \in 0..MaxEpoch /\ Apply(p, s)
  BY <1>1, MaxEpochAssumption DEF KnownData
<1> HIDE DEF s
<1> QED BY <1>2, BeginPublication DEF UseLocalDoor

LEMMA ApplyStatusPublication ==
  ASSUME BridgeInv, PublicationInv, NEW p \in Callers, ApplyStatus(p)
  PROVE  PublicationInv'
<1>1. PICK s \in call[p].result : Apply(p, s)
  BY DEF ApplyStatus
<1>2. s.data \in KnownData /\ vendor.epoch <= MaxEpoch
  BY DEF PublicationInv, AnswersAreKnown
<1>3. s.epoch \in Nat /\ vendor.epoch \in Nat /\ s.epoch <= vendor.epoch
  BY DEF BridgeInv, GatewayInv, GatewayTypeOK, AnswerIsFresh, Call, Option, Status
<1>4. s.epoch \in 0..MaxEpoch
  BY <1>2, <1>3, MaxEpochAssumption
<1> QED BY <1>1, <1>2, <1>4, CollectKnown, BeginPublication DEF ApplyStatus

(* One topic is handed over, or its message is lost after a disconnect.    *)
LEMMA HandOverTells ==
  ASSUME BridgeInv, BridgeInv', Advances, PublicationInv, NEW p \in Callers,
         pc[p] = "publish", mqtt # "lost", mqtt' = mqtt, drops' = drops,
         HandOver(p)
  PROVE  \E s \in work[p].status :
           /\ position = s.data.position
           /\ s.data \in KnownData /\ s.epoch \in 0..MaxEpoch
           /\ \A i \in 1..(work[p].sent + 1) :
                /\ mqtt' = "closed" \/ \E m \in retained'[TopicOrder[i]] : s.epoch <= m.epoch
                /\ Unbroken => retained'[TopicOrder[i]] = {Message(TopicOrder[i], s)}
<1> DEFINE n == work[p].sent
           u == TopicOrder[n + 1]
<1>1. PICK s \in work[p].status :
        /\ position = s.data.position
        /\ s.data \in KnownData /\ s.epoch \in 0..MaxEpoch
        /\ \A i \in 1..n :
             /\ Tells(TopicOrder[i], s)
             /\ Unbroken => retained[TopicOrder[i]] = {Message(TopicOrder[i], s)}
  BY DEF PublicationInv, BeingPublished
<1>2. /\ s \in Status /\ \A r \in work[p].status : r = s
      /\ n \in 0..5
  BY StatusOfWork, TopicOrderType DEF BridgeInv, TypeOK, Work
<1>3. u \in Topics /\ \A i \in 1..n : TopicOrder[i] \in Topics /\ TopicOrder[i] # u
  BY <1>2, TopicOrderType, TopicOrderCovers
<1>4. CASE mqtt = "connected"
  <2>1. retained' = [retained EXCEPT ![u] = {Message(u, s)}]
    BY <1>2, <1>4 DEF HandOver, Retain
  <2>2. \A t \in Topics : retained'[t] = IF t = u THEN {Message(u, s)} ELSE retained[t]
    BY <1>3, <2>1 DEF BridgeInv, TypeOK
  <2>3. Message(u, s).epoch = s.epoch /\ s.epoch <= s.epoch
    BY <1>2, <1>3, MessageType DEF Status
  <2>4. \E m \in retained'[u] : s.epoch <= m.epoch
    BY <1>3, <2>2, <2>3
  <2>5. ASSUME NEW i \in 1..(n + 1)
        PROVE  /\ \E m \in retained'[TopicOrder[i]] : s.epoch <= m.epoch
               /\ Unbroken => retained'[TopicOrder[i]] = {Message(TopicOrder[i], s)}
    <3>1. CASE i = n + 1
      BY <1>3, <2>2, <2>4, <3>1
    <3>2. CASE i \in 1..n
      BY <1>1, <1>3, <1>4, <2>2, <3>2 DEF Tells
    <3> QED BY <1>2, <3>1, <3>2
  <2> HIDE DEF n, u
  <2> QED BY <1>1, <2>5 DEF n
<1>5. CASE mqtt = "closed"
  BY <1>1, <1>5 DEF Unbroken
<1> QED BY <1>4, <1>5 DEF BridgeInv, TypeOK

(* The other threads while one publishes.                                  *)
LEMMA OthersKeepTheirSuccess ==
  ASSUME BridgeInv, BridgeInv', Advances, PublicationInv, NEW q \in Callers,
         pc'[q] = pc[q], work'[q] = work[q], mqtt' = mqtt,
         pc[q] \in {"release", "report"}, work[q].end = "success"
  PROVE  \E s \in work'[q].status :
           /\ work'[q].data = s.data.position
           /\ \A t \in Topics :
                mqtt' = "closed" \/ \E m \in retained'[t] : s.epoch <= m.epoch
<1>1. PICK s \in work[q].status :
        work[q].data = s.data.position /\ \A t \in Topics : Tells(t, s)
  BY DEF PublicationInv, SuccessWasPublished
<1>2. s \in Status
  BY StatusOfWork DEF BridgeInv
<1> QED BY <1>1, <1>2, TellsStill

LEMMA PublishTopicPublication ==
  ASSUME BridgeInv, BridgeInv', Advances, PublicationInv, NEW p \in Callers,
         PublishTopic(p)
  PROVE  PublicationInv'
<1>1. /\ pc[p] = "publish" /\ HandOver(p) /\ mqtt # "lost"
      /\ UNCHANGED <<gatewayVars, pc, position, pollVars, sessionVars>>
  BY DEF PublishTopic
<1>2. /\ work'[p].status = work[p].status /\ work'[p].sent = work[p].sent + 1
      /\ \A q \in Callers : q # p => work'[q] = work[q]
  BY DEF PublishTopic, BridgeInv, TypeOK, Work
<1>3. \A q \in Callers : q # p => pc[q] # "publish"
  BY <1>1, OthersAreOutside DEF Locked
<1>4. BeingPublished'
  BY <1>1, <1>2, <1>3, HandOverTells DEF BeingPublished, Tells, Unbroken
<1>5. SuccessWasPublished'
  BY <1>1, <1>2, OthersKeepTheirSuccess DEF SuccessWasPublished, Tells
<1>6. NothingSentYet' /\ TopicsAgree' /\ LostIsCounted'
  BY <1>1, <1>2 DEF PublicationInv, NothingSentYet, TopicsAgree, LostIsCounted
<1> QED BY <1>1, <1>4, <1>5, <1>6, KnownStays, PanelStays DEF PublicationInv

LEMMA PublishLastTopicPublication ==
  ASSUME BridgeInv, BridgeInv', Advances, PublicationInv, NEW p \in Callers,
         PublishLastTopic(p)
  PROVE  PublicationInv'
<1>1. /\ Goto(p, "publish", "release") /\ Finish(p, "success")
      /\ HandOver(p) /\ mqtt # "lost" /\ work[p].sent + 1 = 6
      /\ UNCHANGED <<gatewayVars, position, pollVars, sessionVars>>
  BY TopicOrderType DEF PublishLastTopic
<1>2. /\ pc[p] = "publish" /\ pc'[p] = "release"
      /\ \A q \in Callers : q # p => pc'[q] = pc[q] /\ pc[q] \notin Locked
      /\ pc[Poller] = "cancelled" => pc'[Poller] = "cancelled"
  BY <1>1, GotoEffect, OthersAreOutside DEF Locked
<1>3. /\ work'[p].status = work[p].status /\ work'[p].data = position
      /\ \A q \in Callers : q # p => work'[q] = work[q]
  BY <1>1, FinishEffect
<1>4. PICK s \in work[p].status :
        /\ position = s.data.position
        /\ s.data \in KnownData /\ s.epoch \in 0..MaxEpoch
        /\ \A i \in 1..6 :
             /\ mqtt' = "closed" \/ \E m \in retained'[TopicOrder[i]] : s.epoch <= m.epoch
             /\ Unbroken => retained'[TopicOrder[i]] = {Message(TopicOrder[i], s)}
  BY <1>1, <1>2, HandOverTells
<1>5. \A t \in Topics :
        /\ mqtt' = "closed" \/ \E m \in retained'[t] : s.epoch <= m.epoch
        /\ Unbroken => retained'[t] = {Message(t, s)}
  BY <1>4, TopicOrderCovers
<1>6. SuccessWasPublished'
  BY <1>1, <1>2, <1>3, <1>4, <1>5, OthersKeepTheirSuccess
  DEF SuccessWasPublished, Tells
<1>7. TopicsAgree'
  <2>1. [data |-> s.data, epoch |-> s.epoch] = s
    BY StatusOfWork DEF BridgeInv, Status
  <2> QED BY <1>1, <1>4, <1>5, <2>1 DEF TopicsAgree, OneStatus, Unbroken
<1>8. BeingPublished' /\ NothingSentYet' /\ LostIsCounted'
  BY <1>1, <1>2, <1>3
  DEF PublicationInv, BeingPublished, NothingSentYet, LostIsCounted, Locked
<1> QED BY <1>1, <1>2, <1>6, <1>7, <1>8, KnownStays, PanelStays DEF PublicationInv

(* A failure needs a connection that was lost or closed, and reports none. *)
LEMMA PublishFailsPublication ==
  ASSUME BridgeInv, BridgeInv', Advances, PublicationInv, NEW p \in Callers,
         PublishFails(p)
  PROVE  PublicationInv'
<1>1. /\ Goto(p, "publish", "release") /\ mqtt # "connected"
      /\ \E end \in {"failure", "raised"} : Finish(p, end)
      /\ UNCHANGED <<gatewayVars, position, pollVars, sessionVars>>
  BY DEF PublishFails
<1>2. /\ pc[p] = "publish" /\ pc'[p] = "release"
      /\ \A q \in Callers : q # p => pc'[q] = pc[q] /\ pc[q] \notin Locked
      /\ pc[Poller] = "cancelled" => pc'[Poller] = "cancelled"
  BY <1>1, GotoEffect, OthersAreOutside DEF Locked
<1>3. /\ work'[p].end # "success"
      /\ \A q \in Callers : q # p => work'[q] = work[q]
  BY <1>1, FinishEffect
<1>4. SuccessWasPublished'
  BY <1>1, <1>2, <1>3, OthersKeepTheirSuccess DEF SuccessWasPublished, Tells
<1>5. BeingPublished' /\ NothingSentYet' /\ LostIsCounted'
  BY <1>1, <1>2, <1>3
  DEF PublicationInv, BeingPublished, NothingSentYet, LostIsCounted, Locked
<1>6. TopicsAgree'
  BY <1>1 DEF TopicsAgree, Unbroken
<1> QED BY <1>1, <1>2, <1>4, <1>5, <1>6, KnownStays, PanelStays DEF PublicationInv

---------------------------------------------------------------------------
(* The vendor, the session, and the whole.                                 *)

LEMMA PendingIsKnown ==
  ASSUME NEW op \in GatewayActions, NEW q \in PendingPositions(op)
  PROVE  q \in Positions
BY DEF PendingPositions, GatewayActions, Positions

LEMMA GatewayWorksKnown ==
  ASSUME BridgeInv, PublicationInv, GatewayWorks
  PROVE  AnswersAreKnown'
<1>1. /\ vendor.data \in VendorData /\ vendor.epoch <= MaxEpoch
      /\ vendor.epoch \in Nat /\ call \in [Callers -> Call]
      /\ \A p \in Callers : \A s \in call[p].result : s.data \in KnownData
  BY DEF PublicationInv, AnswersAreKnown, BridgeInv, TypeOK, GatewayTypeOK, Status
<1>2. ASSUME NEW d \in VendorData, MoveDoor(d)
      PROVE  vendor'.data \in VendorData /\ vendor'.epoch <= MaxEpoch
  BY <1>1, <1>2, MaxEpochAssumption DEF MoveDoor
<1>3. CASE VendorMoves
  BY <1>1, <1>2, <1>3 DEF VendorMoves, AnswersAreKnown
<1>4. ASSUME NEW p \in Callers, TakeEffect(p) PROVE AnswersAreKnown'
  <2>1. \A q \in Callers : call'[q].result = call[q].result
    BY <1>1, <1>4 DEF TakeEffect, Call
  <2> QED BY <1>1, <1>2, <1>4, <2>1 DEF TakeEffect, AnswersAreKnown
<1>5. ASSUME NEW p \in Callers, Answer(p) PROVE AnswersAreKnown'
  <2>1. ASSUME NEW result, Return(p, result), \A s \in result : s.data \in KnownData
        PROVE  AnswersAreKnown'
    <3>1. /\ vendor' = vendor
          /\ \A q \in Callers : call'[q].result = IF q = p THEN result ELSE call[q].result
      BY <1>1, <2>1 DEF Return, Call
    <3> QED BY <1>1, <2>1, <3>1 DEF AnswersAreKnown
  <2>2. CASE ReturnStatus(p)
    BY <1>1, <2>1, <2>2 DEF ReturnStatus, KnownData
  <2>3. CASE ReturnPending(p)
    <3>1. PICK q \in PendingPositions(call[p].op) :
            Return(p, {[data |-> BareStatus(q), epoch |-> call[p].since]})
      BY <2>3 DEF ReturnPending
    <3>2. q \in Positions
      BY <2>3, PendingIsKnown DEF ReturnPending, BridgeInv, GatewayInv
    <3> QED BY <2>1, <3>1, <3>2 DEF KnownData
  <2>4. CASE Raise(p)
    BY <2>1, <2>4 DEF Raise
  <2> QED BY <1>5, <2>2, <2>3, <2>4 DEF Answer
<1> QED BY <1>3, <1>4, <1>5 DEF GatewayWorks

LEMMA GatewayWorksPublication ==
  ASSUME BridgeInv, PublicationInv, GatewayWorks
  PROVE  PublicationInv'
<1>1. UNCHANGED <<pc, work, position, retained, pollVars, sessionVars>>
  BY DEF GatewayWorks
<1>2. NothingSentYet' /\ BeingPublished' /\ SuccessWasPublished'
  BY <1>1 DEF PublicationInv, NothingSentYet, BeingPublished, SuccessWasPublished,
              Tells, Unbroken
<1>3. TopicsAgree' /\ LostIsCounted' /\ PanelShowsLastPoll'
  BY <1>1 DEF PublicationInv, TopicsAgree, OneStatus, Unbroken, LostIsCounted,
              PanelShowsLastPoll
<1> QED BY <1>2, <1>3, GatewayWorksKnown DEF PublicationInv

(* The connection goes, comes back or is closed; the rest stays.           *)
LEMMA SessionPublication ==
  ASSUME BridgeInv, PublicationInv,
         UNCHANGED <<gatewayVars, pc, work, position, retained, pollVars>>,
         \/ LoseConnection \/ Reconnect \/ DisconnectMqtt
         \/ UNCHANGED <<mqtt, drops>>
  PROVE  PublicationInv'
<1>1. /\ mqtt = "closed" => mqtt' = "closed"
      /\ mqtt' = "lost" => drops' # 0
      /\ Unbroken' => Unbroken
  <2>1. drops \in Nat
    BY BoundsAssumption DEF BridgeInv, TypeOK
  <2> QED BY <2>1 DEF LoseConnection, Reconnect, DisconnectMqtt, PublicationInv,
                      LostIsCounted, Unbroken
<1>2. LostIsCounted' /\ NothingSentYet' /\ PanelShowsLastPoll'
  BY <1>1 DEF PublicationInv, LostIsCounted, NothingSentYet, PanelShowsLastPoll
<1>3. BeingPublished' /\ SuccessWasPublished'
  BY <1>1 DEF PublicationInv, BeingPublished, SuccessWasPublished, Tells
<1>4. TopicsAgree'
  BY <1>1 DEF PublicationInv, TopicsAgree, OneStatus
<1> QED BY <1>2, <1>3, <1>4, KnownStays DEF PublicationInv

LEMMA InitPublication == Init => PublicationInv
<1> SUFFICES ASSUME Init PROVE PublicationInv
  OBVIOUS
<1>1. /\ \A p \in Callers : pc[p] \in {"new", "idle"} /\ work[p] = NoWork
      /\ NoWork.sent = 0 /\ mqtt = "connected"
  BY DEF Init, NoWork
<1>2. LostIsCounted /\ NothingSentYet /\ BeingPublished /\ SuccessWasPublished
  BY <1>1 DEF LostIsCounted, NothingSentYet, BeingPublished, SuccessWasPublished
<1>3. AnswersAreKnown
  BY MaxEpochAssumption DEF Init, GatewayInit, NoCall, AnswersAreKnown
<1>4. OneStatus
  <2>1. CASE retained = [t \in Topics |-> {}]
    BY <2>1 DEF Init, OneStatus
  <2>2. ASSUME NEW d \in VendorData,
               retained = [t \in Topics |-> {Message(t, [data |-> d, epoch |-> 0])}]
        PROVE  OneStatus
    BY <2>2, MaxEpochAssumption DEF Init, OneStatus, KnownData
  <2> QED BY <2>1, <2>2 DEF Init
<1> QED BY <1>2, <1>3, <1>4 DEF PublicationInv, TopicsAgree, PanelShowsLastPoll, Init

LEMMA NextPublication ==
  ASSUME BridgeInv, PublicationInv, [Next]_vars
  PROVE  PublicationInv'
<1>1. BridgeInv' /\ Advances
  BY BridgeNextInv
<1>2. ASSUME NEW p \in Callers, Acquire(p) PROVE PublicationInv'
  BY <1>2, EnterPublication
<1>3. ASSUME NEW p \in Callers, Proceed(p) PROVE PublicationInv'
  BY <1>1, <1>3, RejectCommandPublication, CallGatewayPublication, UseLocalDoorPublication,
     ApplyStatusPublication, GatewayFailedPublication, PublishTopicPublication,
     PublishLastTopicPublication, PublishFailsPublication, ReleasePublication
  DEF Proceed
<1>4. ASSUME NEW c \in CommandThreads, OnMessage(c) \/ ReportUsage(c) PROVE PublicationInv'
  BY <1>4, OnMessagePublication, ReportUsagePublication
<1>5. CASE StartPoll \/ StartPolling
  BY <1>5, EnterPublication, ThreadsAssumption
<1>6. CASE RecordStatus \/ GatewayWorks \/ StopPolling
  BY <1>6, RecordStatusPublication, GatewayWorksPublication, StopPollingPublication
<1>7. CASE LoseConnection \/ Reconnect \/ DisconnectMqtt \/ Exit \/ UNCHANGED vars
  BY <1>7, SessionPublication
  DEF LoseConnection, Reconnect, DisconnectMqtt, Exit, vars
<1> QED BY <1>2, <1>3, <1>4, <1>5, <1>6, <1>7 DEF Next, Main

LEMMA PublicationInvariant == Spec => []PublicationInv
BY InitPublication, NextPublication, BridgeInvariant, PTL DEF Spec

(* A success that a usage event reports was published with all of its six  *)
(* topics, unless they had already told of something newer or the client   *)
(* was closed, and the event carries the position that was published.      *)
THEOREM SuccessesArePublished == Spec => []SuccessIsPublished
<1>1. BridgeInv /\ PublicationInv => SuccessIsPublished
  BY ThreadsAssumption
  DEF PublicationInv, SuccessWasPublished, SuccessIsPublished, Tells
<1> QED BY <1>1, BridgeInvariant, PublicationInvariant, PTL

(* With a connection that was never lost, the retained topics never mix    *)
(* two statuses once an operation has left the lock, and agree with the    *)
(* device: for any number of network threads, orders and failed calls.     *)
THEOREM TopicsTellOfOneStatus == Spec => []RetainedIsOneStatus
<1>1. BridgeInv /\ PublicationInv => RetainedIsOneStatus
  <2> SUFFICES ASSUME BridgeInv, PublicationInv, lock = NoThread, Unbroken PROVE OneStatus
    BY DEF RetainedIsOneStatus, OneStatus, Unbroken
  <2>1. \A p \in Callers : pc[p] # "publish"
    BY ThreadsAssumption DEF BridgeInv, LockIsHeldInside, Locked
  <2> QED BY <2>1 DEF PublicationInv, TopicsAgree
<1> QED BY <1>1, BridgeInvariant, PublicationInvariant, PTL

(* As long as every write of the panel's file succeeds, the file holds     *)
(* what DoorStatePollingService remembers as its last status.              *)
THEOREM PanelIsCurrent == Spec => []PanelShowsLastPoll
<1>1. PublicationInv => PanelShowsLastPoll
  BY DEF PublicationInv
<1> QED BY <1>1, PublicationInvariant, PTL
===========================================================================
