------------------------------ MODULE MCH8Sub ------------------------------
EXTENDS H8Sub

(* What the theorems ask of the intervals holds for the code's.            *)
ASSUME IntervalsAssumption == MinGap >= 5 /\ DivStates * MinGap >= DivClocks + 2
=============================================================================
