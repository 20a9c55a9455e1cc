-------------------------- MODULE OmletDoorClient --------------------------
(***************************************************************************)
(* OmletDoorClient: a gateway call as the HTTP requests it is made of, GET *)
(* device, POST action and GET device again, any of which can fail, also   *)
(* after the vendor has acted.  The conversion of the vendor's device into *)
(* a door_status is part of it.                                            *)
(*                                                                         *)
(* The refinement at the end says that this implements DoorGateway, all    *)
(* that the controller relies on.                                          *)
(***************************************************************************)
EXTENDS DoorTypes

CONSTANTS Callers,       \* threads that may call the client
          Texts,         \* what the vendor writes as a door state
          Letters,       \* [Texts -> ...] a text stripped, in lower case and
                         \* without "_", "-" and blanks
          Devices,       \* the device documents the vendor can answer with
          PendingTexts,  \* per action, what action.pending can be
          MaxEpoch,      \* bound on the number of changes of the door
          MaxLate        \* bound on actions that outlive their request

VARIABLES device,        \* [doc, epoch] the door as the vendor sees it
          req,           \* the call each caller has under way
          late           \* how many given-up actions may still take effect

omletVars == <<device, req, late>>

Actions == {"open", "close", "stop"}

(* A number as the vendor writes it: {} is None or the empty string, plain *)
(* one that int() takes; of any other text the digits count, if any.       *)
RawNumber == Option([plain : BOOLEAN, value : Int, digits : Option(Nat)])

Device == [door : Option(Texts), fault : Option(FaultNames),
           connected : Option(BOOLEAN), battery : RawNumber,
           light : RawNumber, other : Option(Int)]

MapPosition(text) ==
  LET known == {Letters[t] : t \in text} \cap Positions
  IN  ValueOr(known, "unknown")

IntOrNone(raw) == UNION {IF n.plain THEN {n.value} ELSE n.digits : n \in raw}

(* Mutant: a text that is no door position is passed on.                   *)
StatusFromAnyText(d) ==
  [position |-> ValueOr({Letters[t] : t \in d.door}, "unknown"),
   fault |-> d.fault, connected |-> d.connected,
   battery |-> IntOrNone(d.battery), light |-> IntOrNone(d.light),
   other |-> d.other]

StatusFromDevice(d) ==
  [position |-> MapPosition(d.door), fault |-> d.fault,
   connected |-> d.connected, battery |-> IntOrNone(d.battery),
   light |-> IntOrNone(d.light), other |-> d.other]

DeviceStatus == [data |-> StatusFromDevice(device.doc), epoch |-> device.epoch]

PendingPosition(op) == CASE op = "open"  -> "openpending"
                         [] op = "close" -> "closepending"
                         [] op = "stop"  -> "stopping"

ASSUME DevicesAssumption == Devices \subseteq Device /\ Devices # {}
ASSUME PendingAssumption ==
  /\ PendingTexts \in [Actions -> SUBSET Texts]
  /\ \A op \in Actions : \A t \in PendingTexts[op] :
       MapPosition({t}) \in {PendingPosition(op), "unknown"}
ASSUME OmletBounds == MaxEpoch \in Nat /\ MaxLate \in Nat

(* step: the request under way; pending: the pending text of the action    *)
(* found; acted, since: whether and when the vendor carried it out (not in *)
(* the code); answer: the status returned, or {} for an exception.         *)
Request == [step : {"idle", "get_device", "perform", "refresh", "returned"},
            op : Actions \cup {"get_state"}, pending : Option(Texts),
            acted : BOOLEAN, since : Nat,
            answer : Option([data : StatusData, epoch : Nat])]

NoRequest == [step |-> "idle", op |-> "get_state", pending |-> {},
              acted |-> FALSE, since |-> 0, answer |-> {}]

Init == /\ device \in [doc : Devices, epoch : {0}]
        /\ req = [p \in Callers |-> NoRequest]
        /\ late = 0

---------------------------------------------------------------------------
ChangeDoor(d) == /\ device.epoch < MaxEpoch
                 /\ device' = [doc |-> d, epoch |-> device.epoch + 1]

(* The door moves by itself: timer, light sensor, app.                     *)
DoorMoves == /\ \E d \in Devices \ {device.doc} : ChangeDoor(d)
             /\ UNCHANGED <<req, late>>

(* A POST whose caller gave up is carried out after all.                   *)
LateEffect == /\ late > 0 /\ late' = late - 1
              /\ \E d \in Devices \ {device.doc} : ChangeDoor(d)
              /\ UNCHANGED req

Begin(p, op, step) == /\ req[p].step = "idle"
                      /\ req' = [req EXCEPT ![p] =
                           [NoRequest EXCEPT !.step = step, !.op = op,
                                             !.since = device.epoch]]
                      /\ UNCHANGED <<device, late>>

(* get_state is a single GET, like the refresh of an action.               *)
GetState(p) == Begin(p, "get_state", "refresh")
PerformAction(p) == \E op \in Actions : Begin(p, op, "get_device")

Answer(p, answer) == req' = [req EXCEPT ![p].step = "returned", ![p].answer = answer]

(* The GET answers and _find_action finds the action.                      *)
FindAction(p) == /\ req[p].step = "get_device"
                 /\ \E pending \in {{}} \cup {{t} : t \in PendingTexts[req[p].op]} :
                      req' = [req EXCEPT ![p].step = "perform", ![p].pending = pending]
                 /\ UNCHANGED <<device, late>>

(* The GET fails, or the device does not offer the action: ValueError.     *)
FindFails(p) == /\ req[p].step = "get_device"
                /\ Answer(p, {})
                /\ UNCHANGED <<device, late>>

(* The vendor carries the POST out ...                                     *)
CarryOut(p) == /\ req[p].step = "perform" /\ ~req[p].acted
               /\ \E d \in Devices : ChangeDoor(d)
               /\ req' = [req EXCEPT ![p].acted = TRUE,
                                     ![p].since = device.epoch + 1]
               /\ UNCHANGED late

(* ... and its response arrives.                                           *)
Performed(p) == /\ req[p].step = "perform" /\ req[p].acted
                /\ req' = [req EXCEPT ![p].step = "refresh"]
                /\ UNCHANGED <<device, late>>

(* Mutant: a failed POST is ignored.                                       *)
PerformFailureIgnored(p) == /\ req[p].step = "perform"
                            /\ req' = [req EXCEPT ![p].step = "refresh"]
                            /\ UNCHANGED <<device, late>>

(* Mutant: requests have no timeout.                                       *)
PerformHangs(p) == /\ req[p].step = "perform" /\ req[p].acted
                   /\ Answer(p, {})
                   /\ UNCHANGED <<device, late>>

(* The POST fails or times out, before or after it was carried out; one    *)
(* that was not may still be on its way.                                   *)
PerformFails(p) == /\ req[p].step = "perform"
                   /\ Answer(p, {})
                   /\ \/ UNCHANGED late
                      \/ ~req[p].acted /\ late < MaxLate /\ late' = late + 1
                   /\ UNCHANGED device

Refreshed(p) == /\ req[p].step = "refresh"
                /\ Answer(p, {DeviceStatus})
                /\ UNCHANGED <<device, late>>

(* Without a fresh state: the pending one of an action, else an exception. *)
RefreshFails(p) ==
  /\ req[p].step = "refresh"
  /\ Answer(p, {[data |-> BareStatus(MapPosition({t})), epoch |-> req[p].since] :
                  t \in req[p].pending})
  /\ UNCHANGED <<device, late>>

Take(p) == /\ req[p].step = "returned"
           /\ req' = [req EXCEPT ![p] = NoRequest]
           /\ UNCHANGED <<device, late>>

Respond(p) == \/ FindAction(p) \/ FindFails(p) \/ Performed(p) \/ PerformFails(p)
              \/ Refreshed(p) \/ RefreshFails(p)

Next == \/ DoorMoves \/ LateEffect
        \/ \E p \in Callers : \/ GetState(p) \/ PerformAction(p)
                              \/ CarryOut(p) \/ Respond(p) \/ Take(p)

(* Each request has a timeout, so it ends one way or the other.            *)
Spec == Init /\ [][Next]_omletVars
FairSpec == Spec /\ \A p \in Callers : WF_omletVars(Respond(p))

---------------------------------------------------------------------------
(* Properties.                                                             *)

(* Every variable has its type; in particular every answer is a            *)
(* well-formed door_status whatever the vendor wrote (_map_position and    *)
(* _int_or_none take any text).                                            *)
TypeOK == /\ device \in [doc : Devices, epoch : Nat]
          /\ req \in [Callers -> Request]
          /\ late \in 0..MaxLate

(* The phases of the gateway call that the controller can tell apart.      *)
CallOf(r) == [phase  |-> IF r.step \in {"idle", "returned"} THEN r.step ELSE "running",
              op     |-> r.op, acted |-> r.acted, since |-> r.since,
              result |-> r.answer]

Gateway == INSTANCE DoorGateway
  WITH VendorData <- {StatusFromDevice(d) : d \in Devices},
       vendor <- DeviceStatus,
       call <- [p \in Callers |-> CallOf(req[p])]

(* The client is a gateway: a status is only returned after the action was *)
(* carried out and is never older than it, an action is carried out at     *)
(* most once, and an exception may hide an action that was carried out.    *)
ImplementsDoorGateway == Gateway!GatewaySpec

(* Every call ends, whatever the vendor does.                              *)
CallsEnd == \A p \in Callers : req[p].step = "get_device" ~> req[p].step = "returned"
===========================================================================
