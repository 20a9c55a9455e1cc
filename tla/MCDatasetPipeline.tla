------------------------- MODULE MCDatasetPipeline -------------------------
(* Small values for the constants of DatasetPipeline: a LILA source and a  *)
(* Roboflow source, with an image each in the test split and one more in   *)
(* the training split.                                                     *)
EXTENDS DatasetPipeline, TLC

CONSTANTS lila, roboflow, a, b, c

MCSources == {lila, roboflow}
MCImages == {a, b, c}
MCSource == [i \in MCImages |-> IF i = a THEN lila ELSE roboflow]
MCSplit == [i \in MCImages |-> IF i = c THEN "train" ELSE "test"]
OwnGroup == [i \in MCImages |-> i]
\* b and c, of two splits, are of one capture group.
SharedGroup == [i \in MCImages |-> IF i = a THEN a ELSE b]
MCOrder == [i \in MCImages |-> CASE i = a -> 1 [] i = b -> 2 [] i = c -> 3]

\* No definition tells one content from another that is not broken.
Interchangeable == Permutations(Digests \ Broken)
===========================================================================
