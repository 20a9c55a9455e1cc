------------------------- MODULE MCDetectorBridge -------------------------
(* Small values for the constants of DetectorBridge.                       *)
EXTENDS DetectorBridge

Seen(label, confidence) == [label |-> label, confidence |-> confidence]

(* A low and a medium threat with harmless company, a high threat whose    *)
(* score rounds up to the next level with a lesser threat before it, and a *)
(* frame that is too long for a message, whose score is a rounding tie.    *)
MCFrames == {
  <<Seen("cat", 36000), Seen("person", 99000), Seen("weasel", 34999)>>,
  <<Seen("rodent", 40000), Seen("fox", 94735)>>,
  <<Seen("chicken", 80000)>>,
  <<Seen("bird_of_prey", 95000), Seen("dog", 90000), Seen("cat", 36100), Seen("bird", 70000)>>}

MCShortFrames == {
  <<Seen("rodent", 40000), Seen("fox", 94735)>>,
  <<Seen("chicken", 80000)>>}
===========================================================================
