------------------------ MODULE DoorTypes_proofs ------------------------
(* Facts about the values of the door component.                           *)
EXTENDS DoorTypes, TLAPS

(* An optional value read with a default is of the value's type.           *)
LEMMA ValueOrType ==
  ASSUME NEW S, NEW o \in Option(S), NEW default \in S
  PROVE  ValueOr(o, default) \in S
<1>1. CASE o = {}
  BY <1>1 DEF ValueOr
<1>2. CASE o # {}
  <2>1. PICK v \in o : TRUE
    BY <1>2
  <2>2. (CHOOSE w \in o : TRUE) \in o
    BY <2>1
  <2>3. o \subseteq S
    BY DEF Option
  <2> QED BY <1>2, <2>2, <2>3 DEF ValueOr
<1> QED BY <1>1, <1>2

LEMMA SomeOption ==
  ASSUME NEW S, NEW v \in S
  PROVE  {v} \in Option(S) /\ {} \in Option(S)
BY DEF Option

LEMMA BareStatusType ==
  ASSUME NEW p \in Positions
  PROVE  BareStatus(p) \in StatusData
BY DEF BareStatus, StatusData, Option

LEMMA FaultTextType ==
  ASSUME NEW d \in StatusData
  PROVE  FaultText(d) \in {"none", "jam"}
<1>1. d.fault \in Option(FaultNames) /\ "" \in FaultNames
  BY DEF StatusData, FaultNames
<1>2. ValueOr(d.fault, "") \in FaultNames
  BY <1>1, ValueOrType, Zenon
<1> QED BY <1>2 DEF FaultText, FaultNames

LEMMA StatusCodeType ==
  ASSUME NEW d \in StatusData
  PROVE  to_status_code(d) \in {"0", "1", "2", "3", "4", "5", "6"}
<1>1. d.position \in Positions
  BY DEF StatusData
<1> QED BY <1>1 DEF to_status_code, Positions

LEMMA BoundedPercentType ==
  ASSUME NEW o \in Option(Int), NEW default \in Int
  PROVE  BoundedPercent(o, default) \in 0..100
<1>1. ValueOr(o, default) \in Int
  BY ValueOrType
<1> QED BY <1>1 DEF BoundedPercent

(* Every payload is one the topic's subscribers know.                      *)
LEMMA PayloadType ==
  ASSUME NEW t \in Topics, NEW d \in StatusData
  PROVE  Payload(t, d) \in PayloadRange(t)
<1>1. /\ d.position \in Positions
      /\ d.battery \in Option(Int)
      /\ d.light \in Option(Int)
  BY DEF StatusData
<1>2. BoundedPercent(d.battery, 100) \in 0..100
  BY <1>1, BoundedPercentType
<1>3. BoundedPercent(d.light, 0) \in 0..100
  BY <1>1, BoundedPercentType
<1>4. CASE t \in {"status", "status_code", "connected"}
  BY <1>1, <1>4, StatusCodeType DEF Payload, PayloadRange
<1>5. CASE t = "fault"
  BY <1>5, FaultTextType DEF Payload, PayloadRange, FaultNames
<1>6. CASE t \in {"battery", "light_level"}
  BY <1>2, <1>3, <1>6 DEF Payload, PayloadRange
<1> QED BY <1>4, <1>5, <1>6 DEF Topics
===========================================================================
