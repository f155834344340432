------------------------------- MODULE H8Sub -------------------------------
(***************************************************************************)
(* The sub CPU: the H8/300H core and wrapper (H8Core) with the on-chip      *)
(* registers and the interrupt controller of rtl/h83002.sv and the address  *)
(* decode and slave ports of rtl/ncv1_sub.sv, clocked together.             *)
(*                                                                         *)
(* One step is one 96 MHz clock.  The enable comes every MinGap to MaxGap  *)
(* clocks (ClkEnables).  Five kinds of slave answer the same level request  *)
(* in five ways: the on-chip registers and the inputs with a pulse one      *)
(* clock later, the shared RAM through a registered select, the sound chip  *)
(* through a registered strobe, the program ROM with a level whenever its   *)
(* cache has the word.  Each must be accessed once per request, and its     *)
(* word taken when it is there.                                             *)
(*                                                                         *)
(* The reset of this half (h8_reset) comes at any clock and goes on an      *)
(* enable, after the ROM cache has finished what it was doing.              *)
(***************************************************************************)
EXTENDS H8Core

CONSTANTS
  Shared, C352, Inputs, Ram,   (* addresses of each slave                  *)
  Ier, Isr,                    (* the two on-chip registers with an effect *)
  Levels,                      (* the levels the IRQ5 pin takes            *)
  Matches,                     (* whether the timer may match              *)
  MinGap, MaxGap               (* clocks from one enable to the next       *)

ASSUME EnvAssumption == TRUE \in Levels /\ Levels \subseteq BOOLEAN /\ FALSE \in Matches /\ Matches \subseteq BOOLEAN
ASSUME GapAssumption == MinGap \in Nat \ {0} /\ MaxGap \in Nat /\ MinGap <= MaxGap

OnChip == Ram \cup {Ier, Isr}
ASSUME DecodeAssumption ==     \* every address has one slave
  /\ Addr = OnChip \cup Rom \cup Shared \cup C352 \cup Inputs
  /\ OnChip \cap (Rom \cup Shared \cup C352 \cup Inputs) = {}
  /\ Rom \cap (Shared \cup C352 \cup Inputs) = {}
  /\ Shared \cap (C352 \cup Inputs) = {} /\ C352 \cap Inputs = {}
  /\ Ier # Isr

VARIABLES
  reset, phase,                                   \* h8_reset; clocks since the last enable
  int_busy, int_pulse, chip_q,                    \* h83002: on-chip accesses
  ier5, isr5, irq5_n, irq5_q, irq5_prev, pend, vector,   \* its interrupt controller
  sh_sel_r, b_busy, b_ack, b_q,                   \* the shared RAM's port B
  c_busy, c_p1, c_pulse, c_strobe, c_q,           \* the sound chip's
  o_busy, o_pulse,                                \* the inputs'
  rom, rom_q,                                     \* the program ROM cache
  hits, owed                                      \* history: accesses made for this request, an edge not yet entered

clocking == <<reset, phase>>
onchip == <<int_busy, int_pulse, chip_q>>
intc   == <<ier5, isr5, irq5_n, irq5_q, irq5_prev, pend, vector>>
shram  == <<sh_sel_r, b_busy, b_ack, b_q>>
sound  == <<c_busy, c_p1, c_pulse, c_strobe, c_q>>
inputs == <<o_busy, o_pulse>>
cache  == <<rom, rom_q>>
vars == <<core, wrapper, clocking, onchip, intc, shram, sound, inputs, cache, hits, owed>>

TypeOK ==
  /\ CoreTypeOK
  /\ reset \in BOOLEAN /\ phase \in 1 .. MaxGap
  /\ int_busy \in BOOLEAN /\ int_pulse \in BOOLEAN /\ chip_q \in Data
  /\ ier5 \in BOOLEAN /\ isr5 \in BOOLEAN /\ irq5_n \in BOOLEAN /\ irq5_q \in BOOLEAN /\ irq5_prev \in BOOLEAN
  /\ pend \in BOOLEAN /\ vector \in Vectors
  /\ sh_sel_r \in BOOLEAN /\ b_busy \in BOOLEAN /\ b_ack \in BOOLEAN /\ b_q \in Data
  /\ c_busy \in BOOLEAN /\ c_p1 \in BOOLEAN /\ c_pulse \in BOOLEAN /\ c_strobe \in BOOLEAN /\ c_q \in Data
  /\ o_busy \in BOOLEAN /\ o_pulse \in BOOLEAN
  /\ rom \in {"idle", "busy", "done"} /\ rom_q \in Data
  /\ hits \in 0 .. 2 /\ owed \in BOOLEAN

Init ==
  /\ CoreInit /\ WrapperInit
  /\ reset = TRUE /\ phase = 1
  /\ int_busy = FALSE /\ int_pulse = FALSE /\ chip_q = NoWord
  /\ ier5 = FALSE /\ isr5 = FALSE /\ irq5_n = TRUE /\ irq5_q = TRUE /\ irq5_prev = TRUE
  /\ pend = FALSE /\ vector = 0
  /\ sh_sel_r = FALSE /\ b_busy = FALSE /\ b_ack = FALSE /\ b_q = NoWord
  /\ c_busy = FALSE /\ c_p1 = FALSE /\ c_pulse = FALSE /\ c_strobe = FALSE /\ c_q = NoWord
  /\ o_busy = FALSE /\ o_pulse = FALSE
  /\ rom = "idle" /\ rom_q = NoWord
  /\ hits = 0 /\ owed = FALSE

-----------------------------------------------------------------------------
(* Decode.                                                                 *)
req == bus.rd \/ bus.wr
At(set) == req /\ bus.a \in set

BusAck ==
  \/ bus.a \in OnChip /\ int_pulse
  \/ bus.a \in Rom    /\ rom = "done"
  \/ bus.a \in Shared /\ b_ack
  \/ bus.a \in C352   /\ c_pulse
  \/ bus.a \in Inputs /\ o_pulse

BusData ==
  IF bus.a \in OnChip THEN chip_q
  ELSE IF bus.a \in Rom THEN rom_q
  ELSE IF bus.a \in Shared THEN b_q
  ELSE IF bus.a \in C352 THEN c_q
  ELSE bus.a                            \* the switches are wired straight through

(* The common port: one access and one ack pulse per request, a request    *)
(* that still stands after its ack is not served again.                    *)
Go(sel, busy) == sel /\ ~busy
Busy(sel, busy) == Go(sel, busy) \/ (busy /\ req)

(* On-chip registers: accessed on their ack pulse, read through a register. *)
OnChipPort ==
  /\ chip_q' = bus.a
  /\ IF reset THEN int_busy' = FALSE /\ int_pulse' = FALSE
     ELSE int_pulse' = Go(At(OnChip), int_busy) /\ int_busy' = Busy(At(OnChip), int_busy)
IoWrite(r) == int_pulse /\ bus.wr /\ bus.a = r

(* The shared RAM behind a registered select; its own reset is the board's. *)
SharedReq == req /\ sh_sel_r
SharedPort ==
  /\ sh_sel_r' = (~reset /\ At(Shared))
  /\ b_ack' = Go(SharedReq, b_busy)
  /\ b_busy' = (Go(SharedReq, b_busy) \/ (b_busy /\ SharedReq))
  /\ b_q' = bus.a

(* The sound chip: strobe, then its read data, then the ack.               *)
CFirst == Go(At(C352), c_busy)
AckWithStrobe ==     \* fault variant: the ack does not wait for the chip's read register
  /\ c_q' = IF c_strobe THEN bus.a ELSE c_q
  /\ c_p1' = CFirst /\ c_pulse' = CFirst
  /\ c_strobe' = CFirst /\ c_busy' = Busy(At(C352), c_busy)
StrobeAgain ==       \* fault variant: the strobe follows the request, not its first clock
  /\ c_q' = IF c_strobe THEN bus.a ELSE c_q
  /\ c_p1' = CFirst /\ c_pulse' = c_p1
  /\ c_strobe' = At(C352) /\ c_busy' = Busy(At(C352), c_busy)
SoundPort ==
  /\ c_q' = IF c_strobe THEN bus.a ELSE c_q
  /\ IF reset THEN c_p1' = FALSE /\ c_pulse' = FALSE /\ c_strobe' = FALSE /\ c_busy' = FALSE
     ELSE /\ c_p1' = CFirst /\ c_pulse' = c_p1
          /\ c_strobe' = CFirst /\ c_busy' = Busy(At(C352), c_busy)

InputPort ==
  IF reset THEN o_busy' = FALSE /\ o_pulse' = FALSE
  ELSE o_pulse' = Go(At(Inputs), o_busy) /\ o_busy' = Busy(At(Inputs), o_busy)

(* The program ROM cache as RomCache promises it: the word of the address  *)
(* it was asked for, with an ack that stays until the request falls; the   *)
(* access finishes even if a reset dropped the request.                    *)
RomReq == bus.rd /\ bus.a \in Rom
RomPort ==
  \/ rom = "idle" /\ rom' = (IF RomReq THEN "busy" ELSE "idle") /\ rom_q' = (IF RomReq THEN bus.a ELSE rom_q)
  \/ rom = "busy" /\ rom' \in {"busy", "done"} /\ UNCHANGED rom_q
  \/ rom = "done" /\ rom' = (IF RomReq THEN "done" ELSE "idle") /\ UNCHANGED rom_q

-----------------------------------------------------------------------------
(* The interrupt controller: IRQ5 on a falling edge (ISCR bit 5 set), and  *)
(* one timer source whose match comes on an enable.                        *)
Edge == irq5_prev /\ ~irq5_q

WriteWins ==    \* fault variant: a write to ISR wins over an edge of the same clock
  \E d \in BOOLEAN :
    isr5' = IF irq_ack /\ irq_ack_vector = 17 THEN FALSE
            ELSE IF IoWrite(Isr) THEN isr5 /\ d ELSE isr5 \/ Edge
Status ==
  \E d \in BOOLEAN :
    isr5' = IF irq_ack /\ irq_ack_vector = 17 THEN FALSE
            ELSE Edge \/ (isr5 /\ (IoWrite(Isr) => d))

SelectDisabled ==   \* fault variant: IER is not consulted
  IF ccr_i THEN 0 ELSE IF isr5 THEN 17 ELSE IF pend THEN 24 ELSE 0
Select ==
  IF ccr_i THEN 0 ELSE IF isr5 /\ ier5 THEN 17 ELSE IF pend THEN 24 ELSE 0

(* The vblank pulse, at any clock, and far longer than the synchroniser.   *)
LongPulse == irq5_n = irq5_q /\ irq5_q = irq5_prev
Pin == irq5_n' = irq5_n \/ (LongPulse /\ irq5_n' \in Levels)

IntCtl(cen) ==
  /\ Pin
  /\ IF reset
       THEN /\ ier5' = FALSE /\ isr5' = FALSE /\ irq5_q' = TRUE /\ irq5_prev' = TRUE
            /\ pend' = FALSE /\ vector' = 0
       ELSE /\ irq5_q' = irq5_n /\ irq5_prev' = irq5_q
            /\ IF IoWrite(Ier) THEN ier5' \in BOOLEAN ELSE UNCHANGED ier5
            /\ Status
            /\ \E match \in Matches :
                 pend' = (~(irq_ack /\ irq_ack_vector = 24) /\ (pend \/ (cen /\ match)))
            /\ vector' = Select

-----------------------------------------------------------------------------
(* The enable and the reset.                                               *)
Enable(cen) == /\ cen => phase >= MinGap
               /\ ~cen => phase < MaxGap
               /\ phase' = IF cen THEN 1 ELSE phase + 1

(* h8_reset is held for thousands of clocks: the cache is at rest again.   *)
HeldLongerThanAccess == rom = "idle"
ResetLine(cen) == \/ reset' = TRUE
                  \/ reset' = FALSE /\ (reset => cen /\ HeldLongerThanAccess)

(* History: what was done for the standing request, and whether an edge    *)
(* waits for its handler.                                                  *)
Accessed == \/ int_pulse /\ bus.a \in OnChip
            \/ Go(SharedReq, b_busy)
            \/ c_strobe
            \/ Go(At(Inputs), o_busy)
            \/ rom = "busy" /\ rom' = "done"
Entered == todo # <<>> /\ Head(todo) = Mask /\ cur_vec = 17 /\ todo' # todo
History ==
  /\ hits' = IF reset \/ NewRequest THEN 0 ELSE IF Accessed /\ hits < 2 THEN hits + 1 ELSE hits
  /\ owed' = (~reset /\ ((owed /\ ~Entered /\ ~IoWrite(Isr)) \/ Edge))

Clock(cen) ==
  /\ Enable(cen) /\ ResetLine(cen)
  /\ Core(reset, cen, vector) /\ Wrapper(reset, BusAck, BusData)
  /\ OnChipPort /\ SharedPort /\ SoundPort /\ InputPort /\ RomPort
  /\ IntCtl(cen) /\ History

Next == \E cen \in BOOLEAN : Clock(cen)

Spec == Init /\ [][Next]_vars

(* The clocks run, and the cache finds its word in the end.                *)
Fairness == WF_vars(Next) /\ WF_vars(Next /\ rom' = "done")
FairSpec == Spec /\ Fairness

-----------------------------------------------------------------------------
(* Every register keeps to its range, and what an access completes with is *)
(* the word of the address it asked for: no slave's ack is ahead of its    *)
(* data, and neither a completion nor a word left from the last access is  *)
(* taken for this one's.                                                   *)
OwnWord == TypeOK /\ (state = "BUS" /\ bus_cnt /\ bus_done /\ nreq.rd => mdata = nreq.a)

(* Each request makes its slave perform one access, never two, and has     *)
(* made it when it completes: a key-on is not written twice, a read with   *)
(* an effect not repeated (ncv1_sub.sv, "One access per request").         *)
OncePerRequest == /\ hits < 2
                  /\ state = "BUS" /\ bus_cnt /\ bus_done => hits = 1

(* The quotient is read from a divider at rest that has done this division *)
(* ("the core reads the result at least a dozen states after", h8300h.sv). *)
DivideReady == [][todo = <<Quotient>> /\ todo' # todo /\ ~reset
                  => div_cnt = 0 /\ dv_tog = dv_tog_d]_vars

(* A taken interrupt is of a source that is pending, enabled and unmasked  *)
(* in that clock, for all the registers between the source and the core:   *)
(* no store to IER or ISR and no entry or RTE is overtaken.  It is still   *)
(* unmasked after that clock, unless the instruction that ends in it       *)
(* writes CCR (see NoIrqAfterCcr).                                         *)
Taking == ~reset /\ irq_ack_tog' # irq_ack_tog
CcrBoundary == todo = <<SetCcr>> \/ (todo = <<Decode>> /\ cls' = "ldc")
TakenIsPending ==
  [][Taking => /\ IF irq_ack_vector' = 17 THEN isr5 /\ ier5 ELSE pend
               /\ ~ccr_i /\ (~CcrBoundary => ~ccr_i')]_vars

(* A recognised IRQ5 edge stays pending until its handler starts after it, *)
(* or the program clears it: none is lost to an acknowledge or a write.    *)
Entering == cur_vec = 17 /\ \E k \in 1 .. Len(Entry) : todo = SubSeq(Entry, k, Len(Entry))
EdgeKept == owed => isr5 \/ Entering

(* h8300h.sv lines 18-19: no interrupt is taken between an LDC, ANDC, ORC  *)
(* or XORC and the instruction after it.                                   *)
NoIrqAfterCcr == [][Taking => ~CcrBoundary]_vars

(* Every bus request is answered, whichever slave it goes to.              *)
RequestAnswered == <>[]~reset => (req ~> ~req)
=============================================================================
