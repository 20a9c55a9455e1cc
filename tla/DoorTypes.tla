---------------------------- MODULE DoorTypes ----------------------------
(***************************************************************************)
(* The values the chicken-door component exchanges: door positions, the    *)
(* door_status dataclass and the payload each retained MQTT topic gets     *)
(* from a status.                                                          *)
(*                                                                         *)
(* An optional field of door_status is a set with at most one element: {}  *)
(* is Python's None.  power_source, wifi_strength and the two timestamps   *)
(* are never published; they only take part in the equality of two         *)
(* statuses and are folded into the one field `other'.                     *)
(***************************************************************************)
EXTENDS Integers, FiniteSets, Sequences

Positions == {"open", "closed", "opening", "closing",
              "openpending", "closepending", "stopping", "unknown"}

Option(S) == {o \in SUBSET S : \A v, w \in o : v = w}

ValueOr(option, default) == IF option = {} THEN default
                            ELSE CHOOSE v \in option : TRUE

(* The fault texts the code tells apart: the empty one counts as no fault, *)
(* and one stands for every other.                                         *)
FaultNames == {"", "none", "jam"}

(* door_status, the unpublished telemetry folded into `other'.             *)
StatusData == [position  : Positions,
               fault     : Option(FaultNames),
               connected : Option(BOOLEAN),
               battery   : Option(Int),
               light     : Option(Int),
               other     : Option(Int)]

(* door_status(position=p): every optional field keeps its default None.   *)
BareStatus(p) == [position |-> p, fault |-> {}, connected |-> {},
                  battery |-> {}, light |-> {}, other |-> {}]

---------------------------------------------------------------------------
(* DoorMqttPublisher: the order in which one status is published.          *)
TopicOrder == <<"status", "status_code", "fault",
                "connected", "battery", "light_level">>

Topics == {"status", "status_code", "fault",
           "connected", "battery", "light_level"}

FaultText(d) == IF ValueOr(d.fault, "") = "" THEN "none"
                ELSE ValueOr(d.fault, "")

to_status_code(d) ==
  CASE FaultText(d) # "none"                           -> "6"
    [] FaultText(d) = "none" /\ d.position = "open"    -> "1"
    [] FaultText(d) = "none" /\ d.position = "closed"  -> "2"
    [] FaultText(d) = "none" /\ d.position \in {"opening", "openpending"}  -> "3"
    [] FaultText(d) = "none" /\ d.position \in {"closing", "closepending"} -> "4"
    [] FaultText(d) = "none" /\ d.position = "stopping" -> "5"
    [] FaultText(d) = "none" /\ d.position = "unknown"  -> "0"

BoundedPercent(option, default) ==
  LET value == ValueOr(option, default)
  IN  IF value < 0 THEN 0 ELSE IF value > 100 THEN 100 ELSE value

(* The payload of topic t for a status whose data is d.                    *)
Payload(t, d) ==
  CASE t = "status"      -> d.position
    [] t = "status_code" -> to_status_code(d)
    [] t = "fault"       -> FaultText(d)
    [] t = "connected"   -> IF ValueOr(d.connected, TRUE) THEN "1" ELSE "0"
    [] t = "battery"     -> BoundedPercent(d.battery, 100)
    [] t = "light_level" -> BoundedPercent(d.light, 0)

(* What a subscriber of topic t may be sent.                               *)
PayloadRange(t) ==
  CASE t = "status"      -> Positions
    [] t = "status_code" -> {"0", "1", "2", "3", "4", "5", "6"}
    [] t = "fault"       -> FaultNames \ {""}
    [] t = "connected"   -> {"0", "1"}
    [] t \in {"battery", "light_level"} -> 0..100
===========================================================================
