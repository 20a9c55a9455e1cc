--------------------------- MODULE MCDoorBridge ---------------------------
(* Small values for the constants of DoorBridge.                           *)
EXTENDS DoorBridge

Telemetry(p, fault, battery) ==
  [position |-> p, fault |-> fault, connected |-> {TRUE},
   battery |-> battery, light |-> {}, other |-> {}]

MCDoorStates == {Telemetry("open", {}, {80}), Telemetry("closed", {"jam"}, {})}
MCRequests == {"open_door", "lift_door"}
MCOneRequest == {"open_door"}
MCCallers == CommandThreads \cup {Poller}
===========================================================================
