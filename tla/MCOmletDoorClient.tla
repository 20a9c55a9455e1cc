------------------------- MODULE MCOmletDoorClient -------------------------
(* Small values for the constants of OmletDoorClient: a known and an       *)
(* unknown text, numbers of every kind and a device without any data.      *)
EXTENDS OmletDoorClient

MCTexts == {"Open", "OPEN_PENDING", "ajar"}
MCLetters == [t \in MCTexts |-> CASE t = "Open" -> "open"
                                  [] t = "OPEN_PENDING" -> "openpending"
                                  [] t = "ajar" -> "ajar"]

Number(n) == {[plain |-> TRUE, value |-> n, digits |-> {}]}
TextWith(digits) == {[plain |-> FALSE, value |-> 0, digits |-> digits]}

MCDevices ==
  {[door |-> {"Open"}, fault |-> {}, connected |-> {TRUE},
    battery |-> Number(80), light |-> TextWith({55}), other |-> {}],
   [door |-> {"ajar"}, fault |-> {"none"}, connected |-> {FALSE},
    battery |-> TextWith({}), light |-> Number(0 - 1), other |-> {1}],
   [door |-> {}, fault |-> {}, connected |-> {},
    battery |-> {}, light |-> {}, other |-> {}]}

MCPendingTexts == [op \in Actions |->
                     IF op = "open" THEN {"OPEN_PENDING", "ajar"} ELSE {"ajar"}]
===========================================================================
