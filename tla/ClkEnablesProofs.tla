-------------------------- MODULE ClkEnablesProofs --------------------------
(***************************************************************************)
(* Proofs about ClkEnables: the ranges of the dividers, and the two pulse   *)
(* trains they implement.  The clocks since the last pulse are what the     *)
(* accumulator holds, counted in steps of Add: it is the refinement mapping *)
(* and needs no history.                                                    *)
(***************************************************************************)
EXTENDS ClkEnables, TLAPS

USE DEF Add68, Wrap68, AddH8, WrapH8, Pixel, Sample

(* Every register of the dividers keeps to its range, the accumulators to   *)
(* what is left over after a pulse (clk_enables.sv 33-54).                  *)
THEOREM TypeCorrect == Spec => []TypeOK
<1>1. Init => TypeOK
  <2> SUFFICES ASSUME Init PROVE TypeOK
    OBVIOUS
  <2>1. acc68 \in 0 .. Wrap68 - 1 /\ acch8 \in 0 .. WrapH8 - 1 /\ divpix \in 0 .. Pixel - 1 /\ divc \in 0 .. Sample - 1
    BY DEF Init
  <2>2. vid \in 0 .. Pixel - 1 /\ syncs \in 0 .. 2 /\ phases \in Nat /\ states \in Nat
    BY DEF Init
  <2> QED BY <2>1, <2>2, Zenon DEF Init, TypeOK
<1>2. TypeOK /\ [Next]_vars => TypeOK'
  <2> SUFFICES ASSUME TypeOK, [Next]_vars PROVE TypeOK'
    OBVIOUS
  <2>1. CASE Next
    <3>1. /\ acc68' \in 0 .. Wrap68 - 1 /\ acch8' \in 0 .. WrapH8 - 1
          /\ divpix' \in 0 .. Pixel - 1 /\ divc' \in 0 .. Sample - 1
      <4>1. CASE reset /\ Cleared
        BY <4>1 DEF Cleared
      <4>2. CASE ~reset /\ Running
        <5>1. acc68' \in 0 .. Wrap68 - 1
          BY <4>2 DEF TypeOK, Running, Phases, Passes68
        <5>2. acch8' \in 0 .. WrapH8 - 1
          BY <4>2 DEF TypeOK, Running, H8, PassesH8, LeftH8
        <5>3. divpix' \in 0 .. Pixel - 1 /\ divc' \in 0 .. Sample - 1
          BY <4>2 DEF TypeOK, Running, Pixels, Samples, RestartAt, SampleEnds
        <5> QED BY <5>1, <5>2, <5>3
      <4> QED BY <2>1, <4>1, <4>2 DEF Next, Enables
    <3>2. /\ phase' \in BOOLEAN /\ cen_phi1' \in BOOLEAN /\ cen_phi2' \in BOOLEAN
          /\ cen_h8' \in BOOLEAN /\ cen_pix' \in BOOLEAN /\ cen_c352' \in BOOLEAN
      <4>1. CASE reset /\ Cleared
        BY <4>1, Zenon DEF Cleared
      <4>2. CASE ~reset /\ Running
        <5>1. phase' \in BOOLEAN
          BY <4>2, Zenon DEF TypeOK, Running, Phases, OtherPhase
        <5>2. cen_phi1' \in BOOLEAN /\ cen_phi2' \in BOOLEAN
          BY <4>2, Zenon DEF Running, Phases
        <5>3. cen_h8' \in BOOLEAN
          BY <4>2, SMT DEF Running, H8, PassesH8
        <5>4. cen_pix' \in BOOLEAN /\ cen_c352' \in BOOLEAN
          BY <4>2, Zenon DEF Running, Pixels, Samples, SampleEnds
        <5> QED BY <5>1, <5>2, <5>3, <5>4
      <4> QED BY <2>1, <4>1, <4>2 DEF Next, Enables
    <3>3. vid' \in 0 .. Pixel - 1
      BY <2>1 DEF TypeOK, Next, Video
    <3>4. vt' \in BOOLEAN /\ vt_s' \in BOOLEAN /\ vt_d' \in BOOLEAN
      BY <2>1, Zenon DEF TypeOK, Next, Video
    <3>5. reset' \in BOOLEAN
      BY <2>1 DEF Next, Board
    <3>6. syncs' \in 0 .. 2
      BY <2>1 DEF TypeOK, Next, Counts
    <3>7. phases' \in Nat /\ states' \in Nat
      BY <2>1 DEF TypeOK, Next, Counts, One
    <3> QED BY <3>1, <3>2, <3>3, <3>4, <3>5, <3>6, <3>7, ZenonT(60) DEF TypeOK
  <2>2. CASE UNCHANGED vars
    BY <2>2 DEF TypeOK, vars, dividers, enables, video
  <2> QED BY <2>1, <2>2
<1> QED BY <1>1, <1>2, PTL DEF Spec

(* The H8's states are 5 or 6 clocks apart, from any reset on: the          *)
(* accumulator of clk_enables.sv 46 implements the train that H8Sub runs    *)
(* the sub CPU on.                                                          *)
THEOREM H8PulsesCorrect == Spec => H8Pulses
<1>1. Init => H8Train!Init
  BY DEF Init, H8Train!Init
<1>2. TypeOK /\ [Next]_vars => [H8Train!Next]_<<cen_h8, acch8 \div AddH8 + 1>>
  <2> SUFFICES ASSUME TypeOK, [Next]_vars
               PROVE  H8Train!Next \/ UNCHANGED <<cen_h8, acch8 \div AddH8 + 1>>
    OBVIOUS
  <2>1. CASE Next /\ reset
    BY <2>1 DEF Next, Enables, Cleared, H8Train!Next, H8Train!Restart
  <2>2. CASE Next /\ ~reset /\ PassesH8
    <3>1. acch8 \in 311 .. 374 /\ acch8' = acch8 - 311 /\ cen_h8' = TRUE
      <4>1. acch8 \in 0 .. 374 /\ acch8 + 64 >= 375
        BY <2>2 DEF TypeOK, PassesH8
      <4>2. acch8' = acch8 + 64 - 375
        BY <2>2 DEF Next, Enables, Running, H8, LeftH8
      <4>3. cen_h8' = TRUE
        BY <2>2, Zenon DEF Next, Enables, Running, H8
      <4> QED BY <4>1, <4>2, <4>3
    <3>2. acch8 \div 64 + 1 >= 5 /\ acch8' \div 64 + 1 = 1
      BY <3>1
    <3> QED BY <3>1, <3>2 DEF H8Train!Next, H8Train!Pulse
  <2>3. CASE Next /\ ~reset /\ ~PassesH8
    <3>1. acch8 \in 0 .. 310 /\ acch8' = acch8 + 64 /\ cen_h8' = FALSE
      BY <2>3 DEF TypeOK, Next, Enables, Running, H8, PassesH8
    <3>2. acch8 \div 64 + 1 < 6 /\ acch8' \div 64 + 1 = (acch8 \div 64 + 1) + 1
      BY <3>1
    <3> QED BY <3>1, <3>2 DEF H8Train!Next, H8Train!NoPulse
  <2>4. CASE UNCHANGED vars
    BY <2>4 DEF vars, dividers, enables
  <2> QED BY <2>1, <2>2, <2>3, <2>4
<1> QED BY <1>1, <1>2, TypeCorrect, PTL DEF Spec, H8Pulses, H8Train!Spec

(* The phases of the 68000 are 3 or 4 clocks apart (clk_enables.sv 35-43).  *)
THEOREM PhasePulsesCorrect == Spec => PhasePulses
<1>1. Init => PhaseTrain!Init
  BY DEF Init, PhaseTrain!Init
<1>2. TypeOK /\ [Next]_vars => [PhaseTrain!Next]_<<cen_phi1 \/ cen_phi2, acc68 \div Add68 + 1>>
  <2> SUFFICES ASSUME TypeOK, [Next]_vars
               PROVE  PhaseTrain!Next \/ UNCHANGED <<cen_phi1 \/ cen_phi2, acc68 \div Add68 + 1>>
    OBVIOUS
  <2>1. CASE Next /\ reset
    BY <2>1 DEF Next, Enables, Cleared, PhaseTrain!Next, PhaseTrain!Restart
  <2>2. CASE Next /\ ~reset /\ Passes68
    <3>1. acc68 \in 93 .. 124 /\ acc68' = acc68 - 93 /\ (cen_phi1' \/ cen_phi2') = TRUE
      <4>1. acc68 \in 93 .. 124 /\ acc68' = acc68 - 93
        BY <2>2 DEF TypeOK, Next, Enables, Running, Phases, Passes68
      <4>2. (cen_phi1' \/ cen_phi2') = TRUE
        BY <2>2, Zenon DEF TypeOK, Next, Enables, Running, Phases
      <4> QED BY <4>1, <4>2
    <3>2. acc68 \div 32 + 1 >= 3 /\ acc68' \div 32 + 1 = 1
      BY <3>1
    <3> QED BY <3>1, <3>2 DEF PhaseTrain!Next, PhaseTrain!Pulse
  <2>3. CASE Next /\ ~reset /\ ~Passes68
    <3>1. acc68 \in 0 .. 92 /\ acc68' = acc68 + 32 /\ (cen_phi1' \/ cen_phi2') = FALSE
      <4>1. acc68 \in 0 .. 92 /\ acc68' = acc68 + 32
        BY <2>3 DEF TypeOK, Next, Enables, Running, Phases, Passes68
      <4>2. (cen_phi1' \/ cen_phi2') = FALSE
        BY <2>3, Zenon DEF Next, Enables, Running, Phases
      <4> QED BY <4>1, <4>2
    <3>2. acc68 \div 32 + 1 < 4 /\ acc68' \div 32 + 1 = (acc68 \div 32 + 1) + 1
      BY <3>1
    <3> QED BY <3>1, <3>2 DEF PhaseTrain!Next, PhaseTrain!NoPulse
  <2>4. CASE UNCHANGED vars
    BY <2>4 DEF vars, dividers, enables
  <2> QED BY <2>1, <2>2, <2>3, <2>4
<1> QED BY <1>1, <1>2, TypeCorrect, PTL DEF Spec, PhasePulses, PhaseTrain!Spec

(* The phases take turns: each pulse is the other one than the register     *)
(* says came last, and the register turns over with every pulse             *)
(* (clk_enables.sv 37-39).                                                  *)
THEOREM PhasesAlternateCorrect == Spec => PhasesAlternate
<1> DEFINE Turn == /\ cen_phi1' => ~phase /\ ~cen_phi2'
                   /\ cen_phi2' => phase /\ ~cen_phi1'
                   /\ phase' # phase /\ ~reset => cen_phi1' \/ cen_phi2'
<1>1. TypeOK /\ [Next]_vars => [Turn]_vars
  <2> SUFFICES ASSUME TypeOK, Next PROVE Turn
    OBVIOUS
  <2>1. CASE reset
    BY <2>1, Zenon DEF Next, Enables, Cleared
  <2>2. CASE ~reset
    BY <2>2, Zenon DEF TypeOK, Next, Enables, Running, Phases, OtherPhase
  <2> QED BY <2>1, <2>2
<1> QED BY <1>1, TypeCorrect, PTL DEF Spec, PhasesAlternate

(* fx68k gets its two enables 3 or 4 clocks apart and in turns.            *)
THEOREM PhasesInTurnCorrect == Spec => PhasesInTurn
BY PhasePulsesCorrect, PhasesAlternateCorrect DEF PhasesInTurn

-----------------------------------------------------------------------------
(* What an accumulator and its pulses make is what the clocks of the sample *)
(* put in: as many steps as the sample counter says, and 1125 more in the   *)
(* clock that ends a sample.                                                *)
Clocks   == divc + (IF cen_c352 THEN Sample ELSE 0)
Balanced == /\ cen_c352 => divc = 0
            /\ Wrap68 * phases + acc68 = Add68 * Clocks
            /\ WrapH8 * states + acch8 = AddH8 * Clocks

LEMMA BalancedStep == ASSUME TypeOK, Balanced, [Next]_vars PROVE Balanced'
<1>1. CASE Next /\ reset
  <2>1. acc68' = 0 /\ acch8' = 0 /\ divc' = 0 /\ cen_c352' = FALSE
    BY <1>1 DEF Next, Enables, Cleared
  <2>2. phases' = 0 /\ states' = 0
    BY <1>1 DEF Next, Enables, Cleared, Counts, One
  <2> QED BY <2>1, <2>2 DEF Balanced, Clocks
<1>2. CASE Next /\ ~reset
  <2> DEFINE started == IF cen_c352 THEN 0 ELSE divc
             p == IF cen_c352 THEN 0 ELSE phases
             s == IF cen_c352 THEN 0 ELSE states
  <2>1. /\ started \in 0 .. Sample - 1 /\ p \in Nat /\ s \in Nat /\ divc = started
        /\ 125 * p + acc68 = 32 * started /\ 375 * s + acch8 = 64 * started
    <3>1. CASE cen_c352
      <4>1. divc = 0 /\ 125 * phases + acc68 = 36000 /\ 375 * states + acch8 = 72000
        BY <3>1 DEF Balanced, Clocks
      <4>2. acc68 = 0 /\ acch8 = 0
        BY <4>1 DEF TypeOK
      <4> QED BY <3>1, <4>1, <4>2
    <3>2. CASE ~cen_c352
      BY <3>2 DEF TypeOK, Balanced, Clocks
    <3> QED BY <3>1, <3>2
  <2>2. /\ divc' = (IF SampleEnds THEN 0 ELSE divc + 1)
        /\ SampleEnds => cen_c352'
        /\ ~SampleEnds => ~cen_c352'
    <3>1. divc' = (IF SampleEnds THEN 0 ELSE divc + 1)
      BY <1>2, Zenon DEF Next, Enables, Running, Samples
    <3>2. SampleEnds => cen_c352'
      BY <1>2, Zenon DEF Next, Enables, Running, Samples
    <3>3. ~SampleEnds => ~cen_c352'
      BY <1>2, Zenon DEF Next, Enables, Running, Samples
    <3> QED BY <3>1, <3>2, <3>3
  <2>3. Clocks' = started + 1
    BY <2>1, <2>2 DEF Clocks, SampleEnds
  <2>4. 125 * phases' + acc68' = 125 * p + acc68 + 32
    <3>1. CASE Passes68
      <4>1. acc68' = acc68 + 32 - 125
        BY <1>2, <3>1 DEF Next, Enables, Running, Phases
      <4>2. cen_phi1' \/ cen_phi2'
        BY <1>2, <3>1, Zenon DEF Next, Enables, Running, Phases
      <4>3. phases' = p + 1
        BY <1>2, <4>2 DEF Next, Counts, One
      <4> QED BY <2>1, <4>1, <4>3 DEF TypeOK
    <3>2. CASE ~Passes68
      <4>1. acc68' = acc68 + 32
        BY <1>2, <3>2 DEF Next, Enables, Running, Phases
      <4>2. ~(cen_phi1' \/ cen_phi2')
        BY <1>2, <3>2, Zenon DEF Next, Enables, Running, Phases
      <4>3. phases' = p
        BY <1>2, <2>1, <4>2 DEF Next, Counts, One
      <4> QED BY <2>1, <4>1, <4>3 DEF TypeOK
    <3> QED BY <3>1, <3>2
  <2>5. 375 * states' + acch8' = 375 * s + acch8 + 64
    <3>1. CASE PassesH8
      <4>1. acch8' = acch8 + 64 - 375
        BY <1>2, <3>1 DEF Next, Enables, Running, H8, LeftH8
      <4>2. cen_h8'
        BY <1>2, <3>1, Zenon DEF Next, Enables, Running, H8
      <4>3. states' = s + 1
        BY <1>2, <4>2 DEF Next, Counts, One
      <4> QED BY <2>1, <4>1, <4>3 DEF TypeOK
    <3>2. CASE ~PassesH8
      <4>1. acch8' = acch8 + 64
        BY <1>2, <3>2 DEF Next, Enables, Running, H8
      <4>2. ~cen_h8'
        BY <1>2, <3>2, Zenon DEF Next, Enables, Running, H8
      <4>3. states' = s
        BY <1>2, <2>1, <4>2 DEF Next, Counts, One
      <4> QED BY <2>1, <4>1, <4>3 DEF TypeOK
    <3> QED BY <3>1, <3>2
  <2>6. cen_c352' => divc' = 0
    BY <2>2 DEF SampleEnds
  <2> QED BY <2>1, <2>3, <2>4, <2>5, <2>6 DEF Balanced
<1>3. CASE UNCHANGED vars
  BY <1>3 DEF vars, dividers, enables, Balanced, Clocks
<1> QED BY <1>1, <1>2, <1>3

(* Every sample of the C352 is 288 phases of the 68000 and 192 states of    *)
(* the H8 (clk_enables.sv 33-60): 36000 and 72000 are multiples of the      *)
(* wraps, so the accumulators are empty at each sample's end.               *)
THEOREM SampleExactCorrect == Spec => []SampleExact
<1>1. Init => Balanced
  BY DEF Init, Balanced, Clocks
<1>2. TypeOK /\ Balanced => SampleExact
  <2> SUFFICES ASSUME TypeOK, Balanced, cen_c352 PROVE phases = 288 /\ states = 192
    BY DEF SampleExact
  <2>1. 125 * phases + acc68 = 36000 /\ 375 * states + acch8 = 72000
    BY DEF Balanced, Clocks
  <2> QED BY <2>1 DEF TypeOK
<1> QED BY <1>1, <1>2, BalancedStep, TypeCorrect, PTL DEF Spec

-----------------------------------------------------------------------------
(* The edge of the pixel clock is two registers on its way, so it is seen  *)
(* one clock into the period; from the first one seen the divider runs ten  *)
(* clocks ahead of the period, whether an edge restarts it or not.          *)
Lagging == /\ vid # 0 => vt_s = vt
           /\ vid # 1 => vt_d = vt_s
           /\ syncs # 0 => divpix = (vid + 10) % Pixel
           /\ PixelInPhase

(* From its second edge on, the pixel enable comes once in each period of   *)
(* clk_vid, five clocks in (clk_enables.sv 50-54, core_top.sv 469-472).     *)
THEOREM PixelInPhaseCorrect == Spec => []PixelInPhase
<1>1. Init => Lagging
  <2> SUFFICES ASSUME Init PROVE Lagging
    OBVIOUS
  <2>1. vt_s = vt /\ vt_d = vt_s
    BY DEF Init
  <2>2. syncs = 0
    BY DEF Init
  <2> QED BY <2>1, <2>2 DEF Lagging, PixelInPhase
<1>2. TypeOK /\ Lagging /\ [Next]_vars => Lagging'
  <2> SUFFICES ASSUME TypeOK, Lagging, [Next]_vars PROVE Lagging'
    OBVIOUS
  <2>1. CASE Next
    <3>1. vid' = (vid + 1) % Pixel /\ vid \in 0 .. Pixel - 1
      BY <2>1 DEF Next, Video, TypeOK
    <3>2. (vid # 0 => vt_s = vt)'
      BY <2>1 DEF Next, Video
    <3>3. (vid # 1 => vt_d = vt_s)'
      <4> SUFFICES ASSUME vid' # 1 PROVE vt_d' = vt_s'
        OBVIOUS
      <4>1. vid # 0
        BY <3>1
      <4> QED BY <2>1, <4>1 DEF Next, Video, Lagging
    <3>4. CASE reset
      <4>1. syncs' = 0
        BY <2>1, <3>4 DEF Next, Counts
      <4> QED BY <3>2, <3>3, <4>1 DEF Lagging, PixelInPhase
    <3>5. CASE ~reset
      <4>1. divpix' = (IF pix_sync THEN 12 ELSE IF divpix = 14 THEN 0 ELSE divpix + 1)
        BY <2>1, <3>5 DEF Next, Enables, Running, Pixels, RestartAt
      <4>7. divpix = Pixel - 1 => cen_pix'
        BY <2>1, <3>5, Zenon DEF Next, Enables, Running, Pixels
      <4>8. divpix # Pixel - 1 => ~cen_pix'
        BY <2>1, <3>5, Zenon DEF Next, Enables, Running, Pixels
      <4>2. syncs' # 0 => pix_sync \/ syncs # 0
        BY <2>1, <3>5 DEF Next, Counts, TypeOK
      <4>3. syncs' = 2 => syncs # 0
        BY <2>1, <3>5 DEF Next, Counts, TypeOK
      <4>4. pix_sync => vid = 1
        BY DEF pix_sync, Lagging
      <4>5. (syncs # 0 => divpix = (vid + 10) % Pixel)'
        BY <3>1, <4>1, <4>2, <4>4 DEF Lagging, TypeOK
      <4>6. PixelInPhase'
        <5> SUFFICES ASSUME syncs' = 2 PROVE cen_pix' <=> vid' = 5
          BY DEF PixelInPhase
        <5>1. divpix = (vid + 10) % 15
          BY <4>3 DEF Lagging
        <5> QED BY <3>1, <4>7, <4>8, <5>1
      <4> QED BY <3>2, <3>3, <4>5, <4>6 DEF Lagging
    <3> QED BY <3>4, <3>5
  <2>2. CASE UNCHANGED vars
    BY <2>2 DEF vars, dividers, enables, video, Lagging, PixelInPhase
  <2> QED BY <2>1, <2>2
<1>3. Lagging => PixelInPhase
  BY DEF Lagging
<1> QED BY <1>1, <1>2, <1>3, TypeCorrect, PTL DEF Spec
=============================================================================
