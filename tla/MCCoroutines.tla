---------------------------- MODULE MCCoroutines ----------------------------
(* Instances of Coroutines for TLC.                                        *)
EXTENDS Coroutines

CONSTANTS main, snd, search, pump, wf

\* The main and the GPS search task below the sound task below the pump.
ThreeLevels ==
  [t \in Task |-> IF t = pump THEN 7 ELSE IF t = snd THEN 5 ELSE 2]

\* The pump no higher than the sound task.
TwoLevels == [t \in Task |-> IF t \in {snd, pump} THEN 5 ELSE 2]

\* Every task at one level.
OneLevel == [t \in Task |-> 2]
=============================================================================
