----------------------------- MODULE ClkEnables -----------------------------
(***************************************************************************)
(* rtl/clk_enables.sv: the clock enables of the machine, cut from the       *)
(* 96 MHz clock, with the pixel clock they follow (target/pocket/           *)
(* core_top.sv, lines 469-472).  One step is one 96 MHz clock.              *)
(*                                                                         *)
(* The rates are fractions of the clock: an accumulator takes a step of     *)
(* Add every clock and pulses when it passes Wrap.                          *)
(***************************************************************************)
EXTENDS Naturals

VARIABLES
  reset,                                                \* core_reset
  acc68, phase, acch8, divpix, divc,                    \* the dividers
  cen_phi1, cen_phi2, cen_h8, cen_pix, cen_c352,        \* the enables
  vid, vt, vt_s, vt_d,                                  \* clk_vid's place in its period; its edges
  syncs, phases, states                                 \* history: edges seen since the reset (to 2),
                                                        \* 68000 phases and H8 states since the last sample

dividers == <<acc68, phase, acch8, divpix, divc>>
enables  == <<cen_phi1, cen_phi2, cen_h8, cen_pix, cen_c352>>
video    == <<vid, vt, vt_s, vt_d>>
vars == <<reset, dividers, enables, video, syncs, phases, states>>

Add68  == 32
Wrap68 == 125
AddH8  == 64
WrapH8 == 375
Pixel  == 15               \* clocks in a period of clk_vid
Sample == 1125             \* clocks in a sample

TypeOK ==
  /\ reset \in BOOLEAN
  /\ acc68 \in 0 .. Wrap68 - 1 /\ phase \in BOOLEAN /\ acch8 \in 0 .. WrapH8 - 1
  /\ divpix \in 0 .. Pixel - 1 /\ divc \in 0 .. Sample - 1
  /\ cen_phi1 \in BOOLEAN /\ cen_phi2 \in BOOLEAN /\ cen_h8 \in BOOLEAN
  /\ cen_pix \in BOOLEAN /\ cen_c352 \in BOOLEAN
  /\ vid \in 0 .. Pixel - 1 /\ vt \in BOOLEAN /\ vt_s \in BOOLEAN /\ vt_d \in BOOLEAN
  /\ syncs \in 0 .. 2 /\ phases \in Nat /\ states \in Nat

Cleared ==
  /\ acc68' = 0 /\ phase' = FALSE /\ acch8' = 0 /\ divpix' = 0 /\ divc' = 0
  /\ cen_phi1' = FALSE /\ cen_phi2' = FALSE /\ cen_h8' = FALSE /\ cen_pix' = FALSE /\ cen_c352' = FALSE

Init ==
  /\ reset = TRUE
  /\ acc68 = 0 /\ phase = FALSE /\ acch8 = 0 /\ divpix = 0 /\ divc = 0
  /\ cen_phi1 = FALSE /\ cen_phi2 = FALSE /\ cen_h8 = FALSE /\ cen_pix = FALSE /\ cen_c352 = FALSE
  /\ vid \in 0 .. Pixel - 1 /\ vt = FALSE /\ vt_s = FALSE /\ vt_d = FALSE
  /\ syncs = 0 /\ phases = 0 /\ states = 0

-----------------------------------------------------------------------------
(* The dividers.  (A fault variant stands before the definition it         *)
(* distorts; no specification uses it.)                                    *)
Passes68 == acc68 + Add68 >= Wrap68
SamePhase(p) == p                        \* fault variant: phi1 for ever
OtherPhase(p) == ~p
Phases ==
  /\ acc68' = IF Passes68 THEN acc68 + Add68 - Wrap68 ELSE acc68 + Add68
  /\ phase' = IF Passes68 THEN OtherPhase(phase) ELSE phase
  /\ cen_phi1' = (Passes68 /\ OtherPhase(phase))
  /\ cen_phi2' = (Passes68 /\ ~OtherPhase(phase))

LeftZero == 0                            \* fault variants: what is past the end is dropped,
LeftH8   == acch8 + AddH8 - WrapH8
PastH8   == acch8 + AddH8 > WrapH8       \* and the same here
PassesH8 == acch8 + AddH8 >= WrapH8
H8 ==
  /\ acch8' = IF PassesH8 THEN LeftH8 ELSE acch8 + AddH8
  /\ cen_h8' = PassesH8

pix_sync == vt_s # vt_d
RestartLate == 14                        \* fault variant: the edge taken for the pulse itself
RestartAt   == 12
Pixels ==
  /\ divpix' = IF pix_sync THEN RestartAt ELSE IF divpix = Pixel - 1 THEN 0 ELSE divpix + 1
  /\ cen_pix' = (divpix = Pixel - 1)

SampleEnds == divc = Sample - 1
Samples ==
  /\ divc' = IF SampleEnds THEN 0 ELSE divc + 1
  /\ cen_c352' = SampleEnds

Running == Phases /\ H8 /\ Pixels /\ Samples
Enables == \/ reset /\ Cleared
           \/ ~reset /\ Running

(* clk_vid, from the same PLL, runs through resets: vt turns over at its    *)
(* edge, and the system clock sees that two registers later.                *)
Video ==
  /\ vid' = (vid + 1) % Pixel
  /\ vt' = IF vid' = 0 THEN ~vt ELSE vt
  /\ vt_s' = vt /\ vt_d' = vt_s

(* The board resets the machine at any clock.                              *)
Board == reset' \in BOOLEAN

(* History.                                                                *)
One(pulse) == IF pulse THEN 1 ELSE 0
Counts ==
  /\ syncs' = CASE reset -> 0
                [] ~reset /\ pix_sync /\ syncs < 2 -> syncs + 1
                [] OTHER -> syncs
  /\ phases' = IF reset \/ cen_c352 THEN One(cen_phi1' \/ cen_phi2') ELSE phases + One(cen_phi1' \/ cen_phi2')
  /\ states' = IF reset \/ cen_c352 THEN One(cen_h8') ELSE states + One(cen_h8')

Next == Enables /\ Video /\ Board /\ Counts

Spec == Init /\ [][Next]_vars

-----------------------------------------------------------------------------
(* The H8's states are 5 or 6 clocks apart: the train that the sub CPU's    *)
(* wrapper, its divider and its sampled vector depend on (H8Sub).           *)
H8Train == INSTANCE PulseTrain WITH MinGap <- 5, MaxGap <- 6, cen <- cen_h8, since <- acch8 \div AddH8 + 1
H8Pulses == H8Train!Spec

(* The phases of the 68000 are 3 or 4 clocks apart.                         *)
PhaseTrain == INSTANCE PulseTrain WITH MinGap <- 3, MaxGap <- 4, cen <- cen_phi1 \/ cen_phi2,
                                       since <- acc68 \div Add68 + 1
PhasePulses == PhaseTrain!Spec

(* The two phases take turns, whatever lies between them: fx68k must see   *)
(* phi2 between two phi1s.                                                 *)
PhasesAlternate ==
  [][/\ cen_phi1' => ~phase /\ ~cen_phi2'
     /\ cen_phi2' => phase /\ ~cen_phi1'
     /\ phase' # phase /\ ~reset => cen_phi1' \/ cen_phi2']_vars

(* What fx68k asks of its two enables: evenly spaced, and in turns.        *)
PhasesInTurn == PhasePulses /\ PhasesAlternate

(* The four rates stand in the ratio of the machine's crystals: every      *)
(* sample of the C352 is 288 phases of the 68000 and 192 states of the H8,  *)
(* with nothing lost to the fractions.                                     *)
SampleExact == cen_c352 => phases = 288 /\ states = 192

(* Once the edges of the pixel clock have been seen, each of its periods    *)
(* has one pixel enable, a third of the way in: the pixel that it puts out  *)
(* has been stable for nine clocks when the next edge samples it, and the   *)
(* divider's own count and its restarts agree.                              *)
PixelInPhase == syncs = 2 => (cen_pix <=> vid = 5)
=============================================================================
