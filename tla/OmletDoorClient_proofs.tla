---------------------- MODULE OmletDoorClient_proofs ----------------------
(* OmletDoorClient answers with well-formed statuses and implements the    *)
(* gateway contract the controller relies on.                              *)
EXTENDS OmletDoorClient, DoorTypes_proofs

LEMMA MapPositionType ==
  ASSUME NEW text PROVE MapPosition(text) \in Positions
<1> DEFINE known == {Letters[t] : t \in text} \cap Positions
<1>1. CASE known = {}
  BY <1>1 DEF MapPosition, ValueOr, Positions
<1>2. CASE known # {}
  <2>1. (CHOOSE v \in known : TRUE) \in known
    BY <1>2
  <2> QED BY <1>2, <2>1 DEF MapPosition, ValueOr
<1> QED BY <1>1, <1>2

LEMMA IntOrNoneType ==
  ASSUME NEW raw \in RawNumber PROVE IntOrNone(raw) \in Option(Int)
<1> DEFINE R == [plain : BOOLEAN, value : Int, digits : Option(Nat)]
           number(n) == IF n.plain THEN {n.value} ELSE n.digits
<1>1. raw \subseteq R /\ \A v, w \in raw : v = w
  BY DEF RawNumber, Option
<1>2. \A n \in raw : number(n) \subseteq Int /\ \A v, w \in number(n) : v = w
  BY <1>1 DEF Option
<1>3. IntOrNone(raw) = UNION {number(n) : n \in raw}
  BY DEF IntOrNone
<1> HIDE DEF number
<1> QED BY <1>1, <1>2, <1>3 DEF Option

(* Whatever the vendor writes becomes a well-formed door_status.           *)
LEMMA StatusFromDeviceType ==
  ASSUME NEW d \in Device PROVE StatusFromDevice(d) \in StatusData
<1>1. /\ d.fault \in Option(FaultNames) /\ d.connected \in Option(BOOLEAN)
      /\ d.battery \in RawNumber /\ d.light \in RawNumber
      /\ d.other \in Option(Int)
  BY DEF Device
<1>2. /\ IntOrNone(d.battery) \in Option(Int)
      /\ IntOrNone(d.light) \in Option(Int)
      /\ MapPosition(d.door) \in Positions
  BY <1>1, IntOrNoneType, MapPositionType
<1> QED BY <1>1, <1>2 DEF StatusFromDevice, StatusData

(* A call is where its phase says: nothing happens before the action was   *)
(* looked up, only an action is performed and has a pending text, and the  *)
(* state is only refreshed once the action was carried out.                *)
RequestsInOrder ==
  \A p \in Callers :
    /\ req[p].step \in {"get_device", "perform"} => req[p].op \in Actions
    /\ req[p].step = "refresh" /\ req[p].op \in Actions => req[p].acted
    /\ req[p].pending # {} => /\ req[p].op \in Actions
                              /\ req[p].pending \subseteq PendingTexts[req[p].op]
    /\ req[p].acted => req[p].op \in Actions

OmletInv == TypeOK /\ RequestsInOrder

LEMMA OmletInitInv == Init => OmletInv
<1>1. NoRequest \in Request
  BY DEF NoRequest, Request, Option
<1> QED BY <1>1, OmletBounds
        DEF Init, OmletInv, TypeOK, RequestsInOrder, NoRequest, Actions

(* The door changes and the requests stay as they are.                     *)
LEMMA ChangeDoorType ==
  ASSUME TypeOK, NEW d \in Devices, ChangeDoor(d)
  PROVE  device' \in [doc : Devices, epoch : Nat]
BY DEF TypeOK, ChangeDoor

LEMMA BeginInv ==
  ASSUME OmletInv, NEW p \in Callers, NEW op \in Actions \cup {"get_state"},
         NEW step \in {"get_device", "refresh"}, Begin(p, op, step),
         step = "refresh" <=> op = "get_state"
  PROVE  OmletInv'
<1> DEFINE r == [NoRequest EXCEPT !.step = step, !.op = op, !.since = device.epoch]
<1>1. /\ r \in Request /\ r.step = step /\ r.op = op
      /\ r.pending = {} /\ ~r.acted
  BY DEF NoRequest, Request, Option, OmletInv, TypeOK
<1>2. req' = [req EXCEPT ![p] = r] /\ UNCHANGED <<device, late>>
  BY DEF Begin
<1>3. op = "get_state" => op \notin Actions
  BY DEF Actions
<1> HIDE DEF r
<1>4. TypeOK'
  BY <1>1, <1>2 DEF OmletInv, TypeOK
<1>5. \A q \in Callers : req'[q] = IF q = p THEN r ELSE req[q]
  BY <1>2 DEF OmletInv, TypeOK
<1>6. RequestsInOrder'
  BY <1>1, <1>3, <1>5 DEF OmletInv, RequestsInOrder
<1> QED BY <1>4, <1>6 DEF OmletInv

(* A request moves on.                                                     *)
LEMMA AdvanceInv ==
  ASSUME OmletInv, NEW p \in Callers, NEW r \in Request,
         req' = [req EXCEPT ![p] = r],
         r.step \in {"get_device", "perform"} => r.op \in Actions,
         r.step = "refresh" /\ r.op \in Actions => r.acted,
         r.pending # {} => r.op \in Actions /\ r.pending \subseteq PendingTexts[r.op],
         r.acted => r.op \in Actions,
         device' \in [doc : Devices, epoch : Nat], late' \in 0..MaxLate
  PROVE  OmletInv'
<1>1. TypeOK'
  BY DEF OmletInv, TypeOK
<1>2. \A q \in Callers : req'[q] = IF q = p THEN r ELSE req[q]
  BY DEF OmletInv, TypeOK
<1>3. RequestsInOrder'
  BY <1>2 DEF OmletInv, RequestsInOrder
<1> QED BY <1>1, <1>3 DEF OmletInv

LEMMA AnswerInv ==
  ASSUME OmletInv, NEW p \in Callers,
         NEW answer \in Option([data : StatusData, epoch : Nat]),
         Answer(p, answer), late' \in 0..MaxLate, device' = device
  PROVE  OmletInv'
<1> DEFINE A == Option([data : StatusData, epoch : Nat])
           r == [req[p] EXCEPT !.step = "returned", !.answer = answer]
<1>1. /\ req[p] \in Request
      /\ req[p].pending # {} => /\ req[p].op \in Actions
                                /\ req[p].pending \subseteq PendingTexts[req[p].op]
      /\ req[p].acted => req[p].op \in Actions
  BY DEF OmletInv, TypeOK, RequestsInOrder
<1>2. answer \in A
  OBVIOUS
<1>3. /\ r.step = "returned" /\ r.op = req[p].op
      /\ r.pending = req[p].pending /\ r.acted = req[p].acted
  BY <1>1 DEF Request
<1>4. r \in Request
  <2> HIDE DEF A
  <2>1. Request = [step : {"idle", "get_device", "perform", "refresh", "returned"},
                   op : Actions \cup {"get_state"}, pending : Option(Texts),
                   acted : BOOLEAN, since : Nat, answer : A]
    BY DEF Request, A
  <2> QED BY <1>1, <1>2, <2>1
<1>5. req' = [req EXCEPT ![p] = r]
  BY <1>1 DEF Answer, OmletInv, TypeOK, Request
<1> HIDE DEF r
<1> QED BY <1>1, <1>3, <1>4, <1>5, AdvanceInv DEF OmletInv, TypeOK

LEMMA FindActionInv ==
  ASSUME OmletInv, NEW p \in Callers, FindAction(p) PROVE OmletInv'
<1>1. PICK pending \in {{}} \cup {{t} : t \in PendingTexts[req[p].op]} :
        req' = [req EXCEPT ![p].step = "perform", ![p].pending = pending]
  BY DEF FindAction
<1> DEFINE r == [req[p] EXCEPT !.step = "perform", !.pending = pending]
<1>2. req[p] \in Request /\ req[p].op \in Actions
  BY DEF OmletInv, TypeOK, RequestsInOrder, FindAction
<1>3. pending \subseteq PendingTexts[req[p].op] /\ PendingTexts[req[p].op] \subseteq Texts
  BY <1>2, PendingAssumption
<1>4. pending \in Option(Texts)
  BY <1>3 DEF Option
<1>5. /\ r \in Request /\ r.step = "perform" /\ r.op = req[p].op
      /\ r.pending = pending /\ r.acted = req[p].acted
  BY <1>2, <1>4 DEF Request
<1>6. req' = [req EXCEPT ![p] = r]
  BY <1>1, <1>2 DEF OmletInv, TypeOK, Request
<1> HIDE DEF r
<1> QED BY <1>2, <1>3, <1>5, <1>6, AdvanceInv DEF OmletInv, TypeOK, FindAction

LEMMA CarryOutInv ==
  ASSUME OmletInv, NEW p \in Callers, CarryOut(p) PROVE OmletInv'
<1> DEFINE r == [req[p] EXCEPT !.acted = TRUE, !.since = device.epoch + 1]
<1>1. /\ req[p] \in Request /\ req[p].op \in Actions /\ req[p].step = "perform"
      /\ req[p].pending # {} => req[p].pending \subseteq PendingTexts[req[p].op]
  BY DEF OmletInv, TypeOK, RequestsInOrder, CarryOut
<1>2. /\ r \in Request /\ r.step = "perform" /\ r.op = req[p].op
      /\ r.pending = req[p].pending /\ r.acted
  <2>1. device.epoch + 1 \in Nat
    BY DEF OmletInv, TypeOK
  <2> QED BY <1>1, <2>1 DEF Request
<1>3. req' = [req EXCEPT ![p] = r]
  BY <1>1 DEF CarryOut, OmletInv, TypeOK, Request
<1>4. device' \in [doc : Devices, epoch : Nat]
  BY ChangeDoorType DEF OmletInv, CarryOut
<1> HIDE DEF r
<1> QED BY <1>1, <1>2, <1>3, <1>4, AdvanceInv DEF CarryOut, OmletInv, TypeOK

LEMMA PerformedInv ==
  ASSUME OmletInv, NEW p \in Callers, Performed(p) PROVE OmletInv'
<1> DEFINE r == [req[p] EXCEPT !.step = "refresh"]
<1>1. /\ req[p] \in Request /\ req[p].op \in Actions /\ req[p].acted
      /\ req[p].pending # {} => req[p].pending \subseteq PendingTexts[req[p].op]
  BY DEF OmletInv, TypeOK, RequestsInOrder, Performed
<1>2. /\ r \in Request /\ r.step = "refresh" /\ r.op = req[p].op
      /\ r.pending = req[p].pending /\ r.acted
  BY <1>1 DEF Request
<1>3. req' = [req EXCEPT ![p] = r]
  BY <1>1 DEF Performed, OmletInv, TypeOK, Request
<1> HIDE DEF r
<1> QED BY <1>1, <1>2, <1>3, AdvanceInv DEF Performed, OmletInv, TypeOK

(* The three ways to answer.                                               *)
LEMMA FailureInv ==
  ASSUME OmletInv, NEW p \in Callers, FindFails(p) \/ PerformFails(p)
  PROVE  OmletInv'
<1>1. {} \in Option([data : StatusData, epoch : Nat])
  BY DEF Option
<1>2. late' \in 0..MaxLate
  BY OmletBounds DEF OmletInv, TypeOK, FindFails, PerformFails
<1> QED BY <1>1, <1>2, AnswerInv DEF FindFails, PerformFails

LEMMA DeviceStatusType ==
  ASSUME TypeOK PROVE DeviceStatus \in [data : StatusData, epoch : Nat]
<1>1. StatusFromDevice(device.doc) \in StatusData
  BY StatusFromDeviceType, DevicesAssumption DEF TypeOK
<1> QED BY <1>1 DEF DeviceStatus, TypeOK

LEMMA RefreshedInv ==
  ASSUME OmletInv, NEW p \in Callers, Refreshed(p) PROVE OmletInv'
<1>1. {DeviceStatus} \in Option([data : StatusData, epoch : Nat])
  BY DeviceStatusType, SomeOption DEF OmletInv
<1> QED BY <1>1, AnswerInv DEF Refreshed, OmletInv, TypeOK

PendingStatus(p, t) == [data |-> BareStatus(MapPosition({t})), epoch |-> req[p].since]

LEMMA RefreshFailsInv ==
  ASSUME OmletInv, NEW p \in Callers, RefreshFails(p) PROVE OmletInv'
<1> DEFINE answer == {PendingStatus(p, t) : t \in req[p].pending}
<1>1. \A t : PendingStatus(p, t) \in [data : StatusData, epoch : Nat]
  <2> TAKE t
  <2>1. BareStatus(MapPosition({t})) \in StatusData
    BY MapPositionType, BareStatusType
  <2>2. req[p].since \in Nat
    BY DEF OmletInv, TypeOK, Request
  <2> QED BY <2>1, <2>2 DEF PendingStatus
<1>2. \A t, u \in req[p].pending : t = u
  BY DEF OmletInv, TypeOK, Request, Option
<1>3. answer \in Option([data : StatusData, epoch : Nat])
  BY <1>1, <1>2 DEF Option
<1>4. Answer(p, answer)
  BY DEF RefreshFails, PendingStatus
<1> HIDE DEF answer
<1> QED BY <1>3, <1>4, AnswerInv DEF RefreshFails, OmletInv, TypeOK

LEMMA TakeInv ==
  ASSUME OmletInv, NEW p \in Callers, Take(p) PROVE OmletInv'
<1>1. /\ NoRequest \in Request /\ NoRequest.step = "idle"
      /\ NoRequest.pending = {} /\ ~NoRequest.acted
  BY DEF NoRequest, Request, Option
<1>2. req' = [req EXCEPT ![p] = NoRequest]
  BY DEF Take
<1> QED BY <1>1, <1>2, AdvanceInv DEF Take, OmletInv, TypeOK

LEMMA OmletNextInv ==
  ASSUME OmletInv, [Next]_omletVars PROVE OmletInv'
<1>1. CASE DoorMoves \/ LateEffect
  <2>1. device' \in [doc : Devices, epoch : Nat] /\ req' = req
    BY <1>1, ChangeDoorType DEF OmletInv, DoorMoves, LateEffect
  <2>2. late' \in 0..MaxLate
    BY <1>1, OmletBounds DEF OmletInv, TypeOK, DoorMoves, LateEffect
  <2> QED BY <2>1, <2>2 DEF OmletInv, TypeOK, RequestsInOrder
<1>2. ASSUME NEW p \in Callers, GetState(p) \/ PerformAction(p) PROVE OmletInv'
  BY <1>2, BeginInv DEF GetState, PerformAction, Actions
<1>3. ASSUME NEW p \in Callers, CarryOut(p) PROVE OmletInv'
  BY <1>3, CarryOutInv
<1>4. ASSUME NEW p \in Callers, Respond(p) PROVE OmletInv'
  BY <1>4, FindActionInv, PerformedInv, FailureInv, RefreshedInv, RefreshFailsInv
  DEF Respond
<1>5. ASSUME NEW p \in Callers, Take(p) PROVE OmletInv'
  BY <1>5, TakeInv
<1>6. CASE UNCHANGED omletVars
  BY <1>6 DEF omletVars, OmletInv, TypeOK, RequestsInOrder
<1> QED BY <1>1, <1>2, <1>3, <1>4, <1>5, <1>6 DEF Next

THEOREM OmletInvariant == Spec => []OmletInv
<1>1. Init => OmletInv
  BY OmletInitInv
<1>2. OmletInv /\ [Next]_omletVars => OmletInv'
  BY OmletNextInv
<1> QED BY <1>1, <1>2, PTL DEF Spec

(* Every answer is a well-formed door_status, whatever texts and numbers   *)
(* the vendor's devices carry (_map_position, _int_or_none).               *)
THEOREM ClientTypesHold == Spec => []TypeOK
<1>1. OmletInv => TypeOK
  BY DEF OmletInv
<1> QED BY <1>1, OmletInvariant, PTL

---------------------------------------------------------------------------
(* The refinement.                                                         *)

calls == [p \in Callers |-> CallOf(req[p])]

Operations == Actions \cup {"get_state"}

CallRecord(A, B) == [phase : {"idle", "running", "returned"},
                     op : Operations, acted : B, since : Nat, result : A]

(* Changing one request changes one call.                                  *)
LEMMA CallsEffect ==
  ASSUME TypeOK, NEW p \in Callers, NEW r, req' = [req EXCEPT ![p] = r]
  PROVE  calls' = [calls EXCEPT ![p] = CallOf(r)]
BY DEF calls, TypeOK

Answers == Option([data : StatusData, epoch : Nat])

LEMMA CallOfType ==
  ASSUME NEW r \in Request PROVE CallOf(r) \in CallRecord(Answers, BOOLEAN)
<1>1. /\ r.step \in {"idle", "get_device", "perform", "refresh", "returned"}
      /\ r.op \in Actions \cup {"get_state"} /\ r.acted \in BOOLEAN
      /\ r.since \in Nat /\ r.answer \in Answers
  BY DEF Request, Answers
<1> QED BY <1>1 DEF CallOf, CallRecord, Operations

(* A call may be replaced as a whole or field by field.                    *)
Replaced(f, p, c) == [f EXCEPT ![p] = c]
Acted(f, p, acted, since) == [f EXCEPT ![p].acted = acted, ![p].since = since]
Answered(f, p, result) == [f EXCEPT ![p].phase = "returned", ![p].result = result]

LEMMA ReplacedIsActed ==
  ASSUME NEW A, NEW B, NEW f \in [Callers -> CallRecord(A, B)], NEW p \in Callers,
         NEW c \in CallRecord(A, B), c.phase = f[p].phase, c.op = f[p].op,
         c.result = f[p].result
  PROVE  Replaced(f, p, c) = Acted(f, p, c.acted, c.since)
BY DEF CallRecord, Replaced, Acted

LEMMA ReplacedIsAnswered ==
  ASSUME NEW A, NEW B, NEW f \in [Callers -> CallRecord(A, B)], NEW p \in Callers,
         NEW c \in CallRecord(A, B), c.phase = "returned", c.op = f[p].op,
         c.acted = f[p].acted, c.since = f[p].since
  PROVE  Replaced(f, p, c) = Answered(f, p, c.result)
BY DEF CallRecord, Replaced, Answered

LEMMA CallsType ==
  ASSUME TypeOK PROVE calls \in [Callers -> CallRecord(Answers, BOOLEAN)]
BY CallOfType DEF calls, TypeOK

LEMMA RequestsAlone ==
  ASSUME req' = req PROVE calls' = calls
BY DEF calls

(* A change of the door is a change of the abstract door.                  *)
LEMMA DoorRefines ==
  ASSUME TypeOK, NEW d \in Devices, ChangeDoor(d)
  PROVE  /\ Gateway!MoveDoor(StatusFromDevice(d))
         /\ StatusFromDevice(d) \in {StatusFromDevice(e) : e \in Devices}
BY DEF ChangeDoor, Gateway!MoveDoor, DeviceStatus, TypeOK

LEMMA InitRefines == Init => Gateway!GatewayInit
<1> SUFFICES ASSUME Init PROVE Gateway!GatewayInit
  OBVIOUS
<1>1. DeviceStatus \in [data : {StatusFromDevice(d) : d \in Devices}, epoch : {0}]
  BY DEF Init, DeviceStatus
<1>2. CallOf(NoRequest) = Gateway!NoCall
  BY DEF CallOf, NoRequest, Gateway!NoCall
<1>3. \A p \in Callers : CallOf(req[p]) = Gateway!NoCall
  BY <1>2 DEF Init
<1> QED BY <1>1, <1>3 DEF Gateway!GatewayInit

LEMMA BeginRefines ==
  ASSUME OmletInv, NEW p \in Callers, NEW op \in Actions \cup {"get_state"},
         NEW step \in {"get_device", "refresh"}, Begin(p, op, step)
  PROVE  Gateway!GatewayNext
<1> DEFINE r == [NoRequest EXCEPT !.step = step, !.op = op, !.since = device.epoch]
<1>1. req' = [req EXCEPT ![p] = r] /\ req[p].step = "idle" /\ device' = device
  BY DEF Begin
<1>2. CallOf(r) = [phase |-> "running", op |-> op, acted |-> FALSE,
                   since |-> DeviceStatus.epoch, result |-> {}]
  BY DEF CallOf, NoRequest, DeviceStatus
<1>3. calls' = [calls EXCEPT ![p] = CallOf(r)]
  BY <1>1, CallsEffect DEF OmletInv
<1>4. CallOf(req[p]).phase = "idle"
  BY <1>1 DEF CallOf
<1>5. Gateway!Invoke(p, op)
  BY <1>1, <1>2, <1>3, <1>4 DEF Gateway!Invoke, calls, DeviceStatus
<1>6. op \in Gateway!GatewayOps
  BY DEF Gateway!GatewayOps, Gateway!GatewayActions, Actions
<1> QED BY <1>5, <1>6 DEF Gateway!GatewayNext

(* A request that moves on without the vendor acting is not seen.          *)
LEMMA AdvanceRefines ==
  ASSUME OmletInv, NEW p \in Callers, FindAction(p) \/ Performed(p)
  PROVE  UNCHANGED Gateway!gatewayVars
<1>1. \A q \in Callers : CallOf(req'[q]) = CallOf(req[q])
  BY DEF CallOf, FindAction, Performed, OmletInv, TypeOK, Request
<1>2. calls' = calls /\ device' = device
  BY <1>1 DEF calls, FindAction, Performed
<1> QED BY <1>2 DEF Gateway!gatewayVars, calls, DeviceStatus

LEMMA CarryOutRefines ==
  ASSUME OmletInv, NEW p \in Callers, CarryOut(p) PROVE Gateway!GatewayNext
<1> DEFINE r == [req[p] EXCEPT !.acted = TRUE, !.since = device.epoch + 1]
<1>1. /\ req[p] \in Request /\ req[p].op \in Actions
      /\ req[p].step = "perform" /\ ~req[p].acted
  BY DEF OmletInv, TypeOK, RequestsInOrder, CarryOut
<1>2. req' = [req EXCEPT ![p] = r]
  BY <1>1 DEF CarryOut, OmletInv, TypeOK, Request
<1>3. /\ r \in Request
      /\ r.step = "perform" /\ r.op = req[p].op /\ r.acted = TRUE
      /\ r.since = device.epoch + 1 /\ r.answer = req[p].answer
  <2>1. device.epoch + 1 \in Nat
    BY DEF OmletInv, TypeOK
  <2> QED BY <1>1, <2>1 DEF Request
<1> HIDE DEF r
<1>4. /\ CallOf(r).phase = "running" /\ CallOf(req[p]).phase = "running"
      /\ CallOf(r).op = req[p].op /\ CallOf(req[p]).op = req[p].op
      /\ CallOf(r).acted = TRUE /\ ~CallOf(req[p]).acted
      /\ CallOf(r).since = device.epoch + 1
      /\ CallOf(r).result = CallOf(req[p]).result
  BY <1>1, <1>3 DEF CallOf
<1>5. /\ calls' = [calls EXCEPT ![p] = CallOf(r)] /\ calls[p] = CallOf(req[p])
      /\ calls \in [Callers -> CallRecord(Answers, BOOLEAN)]
      /\ CallOf(r) \in CallRecord(Answers, BOOLEAN)
  BY <1>2, <1>3, CallsEffect, CallsType, CallOfType DEF OmletInv, calls
<1> DEFINE B == BOOLEAN
<1>6. calls \in [Callers -> CallRecord(Answers, B)] /\ CallOf(r) \in CallRecord(Answers, B)
  BY <1>5
<1> HIDE DEF B
<1>7. calls' = Acted(calls, p, TRUE, DeviceStatus.epoch + 1)
  <2>1. Replaced(calls, p, CallOf(r)) = Acted(calls, p, CallOf(r).acted, CallOf(r).since)
    BY <1>4, <1>5, <1>6, ReplacedIsActed
  <2>2. CallOf(r).since = DeviceStatus.epoch + 1
    BY <1>4 DEF DeviceStatus
  <2> QED BY <1>4, <1>5, <2>1, <2>2 DEF Replaced
<1>8. \E e \in {StatusFromDevice(d1) : d1 \in Devices} : Gateway!MoveDoor(e)
  BY DoorRefines DEF OmletInv, CarryOut
<1>9. Gateway!TakeEffect(p)
  BY <1>1, <1>4, <1>7, <1>8
  DEF Gateway!TakeEffect, Gateway!Running, Gateway!GatewayActions, Actions, calls, Acted
<1> QED BY <1>9 DEF Gateway!GatewayNext

LEMMA AnswerRefines ==
  ASSUME OmletInv, NEW p \in Callers, NEW answer \in Answers, Answer(p, answer),
         device' = device
  PROVE  Gateway!Return(p, answer)
<1> DEFINE r == [req[p] EXCEPT !.step = "returned", !.answer = answer]
<1>1. req[p] \in Request
  BY DEF OmletInv, TypeOK
<1>2. req' = [req EXCEPT ![p] = r]
  BY <1>1 DEF Answer, OmletInv, TypeOK, Request
<1>3. /\ r.step = "returned" /\ r.op = req[p].op /\ r.acted = req[p].acted
      /\ r.since = req[p].since /\ r.answer = answer
  BY <1>1 DEF Request
<1> HIDE DEF r
<1>4. /\ req[p].op \in Actions \cup {"get_state"} /\ req[p].acted \in BOOLEAN
      /\ req[p].since \in Nat
  BY <1>1 DEF Request
<1>5. /\ CallOf(r) \in CallRecord(Answers, BOOLEAN)
      /\ CallOf(r).phase = "returned" /\ CallOf(r).op = CallOf(req[p]).op
      /\ CallOf(r).acted = CallOf(req[p]).acted
      /\ CallOf(r).since = CallOf(req[p]).since /\ CallOf(r).result = answer
  BY <1>3, <1>4 DEF CallOf, CallRecord, Operations
<1>6. /\ calls' = [calls EXCEPT ![p] = CallOf(r)] /\ calls[p] = CallOf(req[p])
      /\ calls \in [Callers -> CallRecord(Answers, BOOLEAN)]
  BY <1>2, CallsEffect, CallsType DEF OmletInv, calls
<1> DEFINE B == BOOLEAN
<1>7. calls \in [Callers -> CallRecord(Answers, B)] /\ CallOf(r) \in CallRecord(Answers, B)
  BY <1>5, <1>6
<1> HIDE DEF B
<1>8. calls' = Answered(calls, p, answer)
  <2>1. Replaced(calls, p, CallOf(r)) = Answered(calls, p, CallOf(r).result)
    BY <1>5, <1>6, <1>7, ReplacedIsAnswered
  <2> QED BY <1>5, <1>6, <2>1 DEF Replaced
<1> QED BY <1>8 DEF Gateway!Return, calls, DeviceStatus, Answered

LEMMA TakeRefines ==
  ASSUME OmletInv, NEW p \in Callers, Take(p) PROVE Gateway!Collect(p)
<1>1. calls' = [calls EXCEPT ![p] = CallOf(NoRequest)] /\ device' = device
  BY CallsEffect DEF OmletInv, Take
<1>2. CallOf(NoRequest) = Gateway!NoCall
  BY DEF CallOf, NoRequest, Gateway!NoCall
<1>3. calls[p].phase = "returned"
  BY DEF Take, calls, CallOf
<1> QED BY <1>1, <1>2, <1>3 DEF Gateway!Collect, calls, DeviceStatus

(* A request that is under way is a running call with the same fields.     *)
LEMMA RunningCall ==
  ASSUME NEW p \in Callers, req[p].step \in {"get_device", "perform", "refresh"}
  PROVE  /\ Gateway!Running(p)
         /\ calls[p].op = req[p].op /\ calls[p].acted = req[p].acted
         /\ calls[p].since = req[p].since
BY DEF Gateway!Running, calls, CallOf

LEMMA FailureRefines ==
  ASSUME OmletInv, NEW p \in Callers, FindFails(p) \/ PerformFails(p)
  PROVE  Gateway!Answer(p)
<1>1. {} \in Answers
  BY DEF Answers, Option
<1>2. Gateway!Return(p, {})
  BY <1>1, AnswerRefines DEF FindFails, PerformFails
<1>3. Gateway!Running(p)
  BY RunningCall DEF FindFails, PerformFails
<1> QED BY <1>2, <1>3 DEF Gateway!Answer, Gateway!Raise

LEMMA RefreshedRefines ==
  ASSUME OmletInv, NEW p \in Callers, Refreshed(p) PROVE Gateway!Answer(p)
<1>1. {DeviceStatus} \in Answers
  BY DeviceStatusType, SomeOption DEF OmletInv, Answers
<1>2. Gateway!Return(p, {DeviceStatus})
  BY <1>1, AnswerRefines DEF Refreshed
<1>3. /\ Gateway!Running(p)
      /\ calls[p].op = "get_state" \/ calls[p].acted
  <2>1. req[p].op \in Actions \cup {"get_state"}
    BY DEF OmletInv, TypeOK, Request
  <2> QED BY <2>1, RunningCall DEF OmletInv, RequestsInOrder, Refreshed
<1> QED BY <1>2, <1>3 DEF Gateway!Answer, Gateway!ReturnStatus, calls

LEMMA RefreshFailsRefines ==
  ASSUME OmletInv, NEW p \in Callers, RefreshFails(p) PROVE Gateway!Answer(p)
<1> DEFINE answer == {PendingStatus(p, t) : t \in req[p].pending}
<1>1. Answer(p, answer) /\ device' = device /\ req[p].step = "refresh"
  BY DEF RefreshFails, PendingStatus
<1>2. Gateway!Running(p) /\ calls[p].op = req[p].op
      /\ calls[p].acted = req[p].acted /\ calls[p].since = req[p].since
  BY <1>1, RunningCall
<1>3. CASE req[p].pending = {}
  <2>1. answer = {} /\ {} \in Answers
    BY <1>3 DEF Answers, Option
  <2>2. Gateway!Return(p, {})
    BY <1>1, <2>1, AnswerRefines
  <2> QED BY <1>2, <2>2 DEF Gateway!Answer, Gateway!Raise
<1>4. CASE req[p].pending # {}
  <2>1. PICK t \in req[p].pending : TRUE
    BY <1>4
  <2>2. \A u \in req[p].pending : u = t
    BY DEF OmletInv, TypeOK, Request, Option
  <2>3. answer = {PendingStatus(p, t)}
    BY <2>1, <2>2
  <2>4. PendingStatus(p, t) \in [data : StatusData, epoch : Nat]
    <3>1. BareStatus(MapPosition({t})) \in StatusData
      BY MapPositionType, BareStatusType
    <3>2. req[p].since \in Nat
      BY DEF OmletInv, TypeOK, Request
    <3> QED BY <3>1, <3>2 DEF PendingStatus
  <2>5. answer \in Answers
    BY <2>3, <2>4, SomeOption DEF Answers
  <2>6. Gateway!Return(p, {PendingStatus(p, t)})
    BY <1>1, <2>3, <2>5, AnswerRefines
  <2>7. req[p].op \in Actions /\ req[p].acted /\ t \in PendingTexts[req[p].op]
    BY <1>1, <1>4, <2>1 DEF OmletInv, RequestsInOrder
  <2>8. MapPosition({t}) \in Gateway!PendingPositions(req[p].op)
    BY <2>7, PendingAssumption
    DEF Gateway!PendingPositions, PendingPosition, Actions
  <2>9. \E q \in Gateway!PendingPositions(calls[p].op) :
          Gateway!Return(p, {[data |-> BareStatus(q), epoch |-> calls[p].since]})
    BY <1>2, <2>6, <2>8 DEF PendingStatus
  <2>10. \A q : Gateway!BareStatus(q) = BareStatus(q)
    BY DEF Gateway!BareStatus, BareStatus
  <2> QED BY <1>2, <2>7, <2>9, <2>10
          DEF Gateway!Answer, Gateway!ReturnPending, calls
<1> QED BY <1>3, <1>4

LEMMA NextRefines ==
  ASSUME OmletInv, [Next]_omletVars
  PROVE  Gateway!GatewayNext \/ UNCHANGED Gateway!gatewayVars
<1>1. CASE DoorMoves \/ LateEffect
  <2>1. req' = req /\ \E d \in Devices : ChangeDoor(d)
    BY <1>1 DEF DoorMoves, LateEffect
  <2>2. Gateway!VendorMoves
    BY <2>1, DoorRefines, RequestsAlone
    DEF OmletInv, Gateway!VendorMoves, calls
  <2> QED BY <2>2 DEF Gateway!GatewayNext
<1>2. ASSUME NEW p \in Callers, GetState(p) \/ PerformAction(p)
      PROVE  Gateway!GatewayNext
  BY <1>2, BeginRefines DEF GetState, PerformAction
<1>3. ASSUME NEW p \in Callers, CarryOut(p) PROVE Gateway!GatewayNext
  BY <1>3, CarryOutRefines
<1>4. ASSUME NEW p \in Callers, FindAction(p) \/ Performed(p)
      PROVE  UNCHANGED Gateway!gatewayVars
  BY <1>4, AdvanceRefines
<1>5. ASSUME NEW p \in Callers,
             FindFails(p) \/ PerformFails(p) \/ Refreshed(p) \/ RefreshFails(p)
      PROVE  Gateway!GatewayNext
  BY <1>5, FailureRefines, RefreshedRefines, RefreshFailsRefines
  DEF Gateway!GatewayNext
<1>6. ASSUME NEW p \in Callers, Take(p) PROVE Gateway!GatewayNext
  BY <1>6, TakeRefines DEF Gateway!GatewayNext
<1>7. CASE UNCHANGED omletVars
  BY <1>7 DEF omletVars, Gateway!gatewayVars, DeviceStatus, CallOf
<1> QED BY <1>1, <1>2, <1>3, <1>4, <1>5, <1>6, <1>7 DEF Next, Respond

(* The HTTP client is a gateway as the controller expects it: it answers   *)
(* an action only after the vendor carried it out, with a state read later *)
(* or the action's pending position; at most one effect per call.          *)
THEOREM ClientImplementsGateway == Spec => ImplementsDoorGateway
<1>1. Init => Gateway!GatewayInit
  BY InitRefines
<1>2. OmletInv /\ [Next]_omletVars => [Gateway!GatewayNext]_(Gateway!gatewayVars)
  BY NextRefines
<1> QED BY <1>1, <1>2, OmletInvariant, PTL
        DEF Spec, ImplementsDoorGateway, Gateway!GatewaySpec
===========================================================================
