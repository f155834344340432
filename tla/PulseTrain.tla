----------------------------- MODULE PulseTrain -----------------------------
(***************************************************************************)
(* What the users of a clock enable rely on: pulses of one clock, no two    *)
(* closer than MinGap clocks nor further apart than MaxGap, until a reset   *)
(* starts the train anew.  H8Sub takes its enable from such a train.        *)
(***************************************************************************)
EXTENDS Naturals

CONSTANTS MinGap, MaxGap

VARIABLES
  cen,           (* the enable                                             *)
  since          (* clocks since the last pulse, this one included         *)

Init == cen = FALSE /\ since = 1

Pulse   == since >= MinGap /\ cen' = TRUE /\ since' = 1
NoPulse == since < MaxGap /\ cen' = FALSE /\ since' = since + 1
Restart == cen' = FALSE /\ since' = 1

Next == Pulse \/ NoPulse \/ Restart

Spec == Init /\ [][Next]_<<cen, since>>
=============================================================================
