---------------------------- MODULE MCClassifier ----------------------------
(* Instance of Classifier for TLC.                                         *)
EXTENDS Classifier

MCLevels == {[dark |-> l[1], bright |-> l[2]] :
               l \in {<<0, 255>>, <<40, 47>>, <<40, 48>>, <<90, 120>>, <<220, 255>>, <<0, 20>>}}
(* Bound: how many of n pixels outside the center may be dark.             *)
MCSome(n) == {0, 1, n \div 2, n} \cap (0 .. n)

MCBoxes == {<<7, 30>>, <<10, 10>>, <<11, 18>>, <<18, 10>>, <<13, 12>>}
=============================================================================
