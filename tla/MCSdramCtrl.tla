---------------------------- MODULE MCSdramCtrl ----------------------------
EXTENDS SdramCtrl, TLC
(* The regions of the image: the loader writes row 0, the reader reads row  *)
(* 1, and a burst starts at row 0's last word and runs into row 1.          *)
MCAsked == 0 :> {1} @@ 1 :> {3} @@ 2 :> {2}

(* One refresh at most falls into a client's wait, as in the code.         *)
ASSUME RoomAssumption == RefreshLeavesRoom
=============================================================================
