------------------------------ MODULE C352Path ------------------------------
(***************************************************************************)
(* rtl/c352.sv, its data path: what one voice step computes, in the widths *)
(* of the registers, beside the sequential model that the RTL's samples    *)
(* are compared with.  Both are fed one log of register writes, as main of *)
(* tools/c352_model.py and the bench are: a write whose time has come goes *)
(* in before the next sample.  Writes while the engine walks, and the      *)
(* clocks of the RAMs, are C352Voices' matter: here S_V0 and S_V1, S_V2    *)
(* and S_V3, S_V5 to S_V9 and S_E0 to S_E2 are one step each.              *)
(*                                                                         *)
(* A flags word is the set of its bits' names; a sample is the unsigned    *)
(* number its sixteen bits make.                                           *)
(***************************************************************************)
EXTENDS Integers, Sequences

CONSTANTS
  Voices,     \* number of voices, 32 in the chip
  Rom(_),     \* the byte of the sample ROM at a 24-bit address
  Logs,       \* sequences of [at |-> sample, voice, reg, data] and [at |-> sample, reg |-> "execute"]
  Samples     \* bound: samples in a behaviour

(* A log is of register writes at their widths, and of the writes of 0x202. *)
Words   == {"vol_f", "freq", "bank", "start", "end", "loop"}
Flags   == {"BUSY", "KEYON", "KEYOFF", "LOOPHIST", "PHASEFL", "PHASEFR", "LDIR", "LINK", "NOISE", "MULAW", "FILTER", "REVERSE", "LOOP"}
LogEntries == [at : Nat, voice : 0 .. Voices - 1, reg : Words, data : 0 .. 2^16 - 1]
           \cup [at : Nat, voice : 0 .. Voices - 1, reg : {"flags"}, data : SUBSET Flags] \cup [at : Nat, reg : {"execute"}]
ASSUME VoicesAssumption == Voices \in Nat \ {0}
ASSUME LogAssumption == \A l \in Logs : l \in Seq(LogEntries)

Model == INSTANCE C352Model

VARIABLES
  log, due, n,                         \* the log, its next entry, the samples begun
  regs, vs,                            \* the register RAMs and the state RAM, per voice
  on_v, off_v, snap_on, snap_off,      \* sets of voices
  exec_pending, pend_sample, engine, eng_voice,
  w, acc, random, out,                 \* working copies, the sums, the noise, the output
  chip, expected                       \* the model, and the sample it gives
cpu   == <<log, due, n>>
keys  == <<on_v, off_v, snap_on, snap_off>>
model == <<chip, expected>>
pathVars  == <<cpu, regs, vs, keys, exec_pending, pend_sample, engine, eng_voice, w, acc, random, out, model>>

Voice == 0 .. Voices - 1
Last  == Voices - 1
Wrap16(x)  == x % 65536
Wrap24(x)  == x % 16777216
Signed(x)  == IF x >= 32768 THEN x - 65536 ELSE x

(* The table tools/gen_c352_tables.py writes for $readmemh.                *)
Ramped(i, from, to) == IF i < from THEN 0 ELSE IF i > to THEN to - from ELSE i - from
Level(i) == Ramped(i, 0, 16) + 2 * Ramped(i, 16, 24) + 4 * Ramped(i, 24, 48) + 8 * Ramped(i, 48, 100) + 16 * Ramped(i, 100, 127)
mulaw == [i \in 0 .. 255 |-> 32 * (IF i < 128 THEN Level(i) ELSE 2047 - Level(i - 128))]

NoRegs  == [vol_f |-> 0, freq |-> 0, flags |-> {}, bank |-> 0, start |-> 0, end |-> 0, loop |-> 0]
NoState == [pos |-> 0, counter |-> 0, sample |-> 0, last |-> 0, volL |-> 0, volR |-> 0]
NoWork  == [r |-> NoRegs, v |-> NoState, busy |-> FALSE, next |-> 0, rom_byte |-> 0, pl |-> 0, pr |-> 0]

PathInit ==
  /\ log \in Logs /\ due = 1 /\ n = 0
  /\ regs = [u \in Voice |-> NoRegs] /\ vs = [u \in Voice |-> NoState]
  /\ on_v = {} /\ off_v = {} /\ snap_on = {} /\ snap_off = {}
  /\ exec_pending = FALSE /\ pend_sample = FALSE /\ engine = "IDLE" /\ eng_voice = 0
  /\ w = NoWork /\ acc = <<0, 0>> /\ random = 4660 /\ out = <<0, 0>>
  /\ chip = Model!Reset /\ expected = <<0, 0>>

-----------------------------------------------------------------------------
Resting == engine = "IDLE" /\ ~exec_pending /\ ~pend_sample
Due     == due <= Len(log) /\ log[due].at <= n
Mirror(set, bit, e) == IF e.reg # "flags" THEN set ELSE IF bit \in e.data THEN set \cup {e.voice} ELSE set \ {e.voice}

Write ==
  LET e == log[due] IN
  /\ Resting /\ Due /\ due' = due + 1
  /\ IF e.reg = "execute"
       THEN /\ exec_pending' = TRUE /\ snap_on' = on_v /\ snap_off' = off_v
            /\ chip' = Model!execute(chip) /\ UNCHANGED <<regs, on_v, off_v>>
       ELSE /\ regs' = [regs EXCEPT ![e.voice][e.reg] = e.data]
            /\ on_v' = Mirror(on_v, "KEYON", e) /\ off_v' = Mirror(off_v, "KEYOFF", e)
            /\ chip' = Model!write(chip, e.voice, e.reg, e.data) /\ UNCHANGED <<exec_pending, snap_on, snap_off>>
  /\ UNCHANGED <<log, n, vs, pend_sample, engine, eng_voice, w, acc, random, out, expected>>

Tick ==
  LET m == Model!step(chip) IN
  /\ Resting /\ ~Due /\ n < Samples
  /\ n' = n + 1 /\ pend_sample' = TRUE /\ chip' = m.chip /\ expected' = m.out
  /\ UNCHANGED <<log, due, regs, vs, keys, exec_pending, engine, eng_voice, w, acc, random, out>>

Begin(first) == engine = "IDLE" /\ engine' = first /\ eng_voice' = 0
Idle ==
  /\ \/ Begin("E") /\ exec_pending /\ exec_pending' = FALSE /\ UNCHANGED <<pend_sample, acc>>
     \/ Begin("V1") /\ ~exec_pending /\ pend_sample /\ pend_sample' = FALSE /\ acc' = <<0, 0>> /\ UNCHANGED exec_pending
  /\ UNCHANGED <<cpu, regs, vs, keys, w, random, out, model>>

-----------------------------------------------------------------------------
Walking == UNCHANGED <<cpu, keys, exec_pending, pend_sample, model>>
Inside  == Walking /\ UNCHANGED <<eng_voice, regs, vs, acc, out>>

Latch == [NoWork EXCEPT !.r = regs[eng_voice], !.v = vs[eng_voice]]
V1 == engine = "V1" /\ engine' = "V3" /\ w' = Latch /\ Inside /\ UNCHANGED random

V3 == LET next == w.v.counter + w.r.freq
          busy == "BUSY" \in w.r.flags
      IN  /\ engine = "V3" /\ w' = [w EXCEPT !.next = next, !.busy = busy]
          /\ engine' = IF busy /\ next >= 65536 /\ "NOISE" \notin w.r.flags THEN "FETCH" ELSE "V4"
          /\ Inside /\ UNCHANGED random

Fetch == engine = "FETCH" /\ engine' = "V4" /\ w' = [w EXCEPT !.rom_byte = Rom(w.v.pos)] /\ Inside /\ UNCHANGED random

(* After a byte: back and forth between loop and end, the end of the       *)
(* sound (linked, looped or stopped), or the next byte.                    *)
Flag(b)  == b \in w.r.flags
At(reg) == w.v.pos % 65536 = w.r[reg]
LdirKept == Flag("LDIR")                                    \* fault variant: never turns round
Ldir     == IF Flag("LDIR") THEN ~At("loop") ELSE At("end")
Byte  == [w EXCEPT !.v.last = w.v.sample, !.v.sample = IF Flag("MULAW") THEN mulaw[w.rom_byte] ELSE w.rom_byte * 256]
PingPong == [Byte EXCEPT !.v.pos = Wrap24(IF Ldir THEN @ - 1 ELSE @ + 1),
                         !.r.flags = IF Ldir THEN @ \cup {"LDIR"} ELSE @ \ {"LDIR"}]
Looped   == [Byte EXCEPT !.v.pos = (IF Flag("LINK") THEN w.r.start % 256 ELSE @ \div 65536) * 65536 + w.r.loop,
                         !.r.flags = @ \cup {"LOOPHIST"}]
Ended    == [Byte EXCEPT !.v.sample = 0, !.r.flags = (@ \cup {"KEYOFF"}) \ {"BUSY"}]
Moved    == [Byte EXCEPT !.v.pos = Wrap24(IF Flag("REVERSE") THEN @ - 1 ELSE @ + 1)]
nr       == Model!Xor(random \div 2, IF random % 2 = 1 THEN 65526 ELSE 0)
Noise    == [w EXCEPT !.v.last = w.v.sample, !.v.sample = nr]
Taken ==
  CASE w.next < 65536                         -> w
    [] w.next >= 65536 /\ Flag("NOISE")        -> Noise
    [] w.next >= 65536 /\ ~Flag("NOISE")       ->
         CASE Flag("LOOP") /\ Flag("REVERSE")    -> PingPong
           [] ~(Flag("LOOP") /\ Flag("REVERSE")) -> IF ~At("end") THEN Moved ELSE IF Flag("LOOP") THEN Looped ELSE Ended

ramp(cur, tgt) == IF cur = tgt THEN cur ELSE IF cur > tgt THEN cur - 1 ELSE cur + 1
Ramps == w.next \div 32768 # w.v.counter \div 32768
V4 ==
  /\ engine = "V4" /\ engine' = "MIX"
  /\ w' = IF ~w.busy THEN w
          ELSE [Taken EXCEPT !.v.counter = Wrap16(w.next),
                             !.v.volL = IF Ramps THEN ramp(@, w.r.vol_f \div 256) ELSE @,
                             !.v.volR = IF Ramps THEN ramp(@, w.r.vol_f % 256) ELSE @]
  /\ random' = IF w.busy /\ w.next >= 65536 /\ Flag("NOISE") THEN nr ELSE random
  /\ Inside

(* w_prod[31:16]: the product of 34 bits, taken in two halves.             *)
High(c, d) == Wrap16((c * (d \div 256) + (c * (d % 256)) \div 256) \div 256)
w_diff == Signed(w.v.sample) - Signed(w.v.last)
w_s    == IF ~w.busy THEN 0 ELSE Signed(IF Flag("FILTER") THEN w.v.sample ELSE Wrap16(w.v.last + High(w.v.counter, w_diff)))
Mix ==
  /\ engine = "MIX" /\ engine' = "DONE"
  /\ w' = [w EXCEPT !.pl = (IF Flag("PHASEFL") THEN -w_s ELSE w_s) * w.v.volL,
                    !.pr = (IF Flag("PHASEFR") THEN -w_s ELSE w_s) * w.v.volR]
  /\ Inside /\ UNCHANGED random

(* Nothing else has written the flags since they were latched.             *)
FollowFlags(u, flags) ==
  /\ regs' = [regs EXCEPT ![u].flags = flags]
  /\ on_v'  = IF "KEYON" \in flags THEN on_v \cup {u} ELSE on_v \ {u}
  /\ off_v' = IF "KEYOFF" \in flags THEN off_v \cup {u} ELSE off_v \ {u}

Done ==
  LET sum == <<acc[1] + w.pl \div 256, acc[2] + w.pr \div 256>> IN
  /\ engine = "DONE" /\ acc' = sum /\ vs' = [vs EXCEPT ![eng_voice] = w.v]
  /\ IF w.busy THEN FollowFlags(eng_voice, w.r.flags) ELSE UNCHANGED <<regs, on_v, off_v>>
  /\ IF eng_voice = Last
       THEN engine' = "IDLE" /\ out' = <<Signed(Wrap16(sum[1] \div 8)), Signed(Wrap16(sum[2] \div 8))>> /\ UNCHANGED eng_voice
       ELSE engine' = "V1" /\ eng_voice' = eng_voice + 1 /\ UNCHANGED out
  /\ UNCHANGED <<cpu, snap_on, snap_off, exec_pending, pend_sample, w, random, model>>

(* The execute pass: KEYOFF after KEYON.                                   *)
KeyedOn == [NoState EXCEPT !.pos = (regs[eng_voice].bank % 256) * 65536 + regs[eng_voice].start]
E ==
  LET on  == eng_voice \in snap_on
      off == eng_voice \in snap_off
      f   == LET g == regs[eng_voice].flags
                 h == IF on THEN (g \cup {"BUSY"}) \ {"KEYON", "LOOPHIST"} ELSE g
             IN  IF off THEN h \ {"BUSY", "KEYOFF"} ELSE h
  IN
  /\ engine = "E"
  /\ IF on \/ off
       THEN /\ vs' = [vs EXCEPT ![eng_voice] = [(IF on THEN KeyedOn ELSE @) EXCEPT !.counter = 65535]]
            /\ FollowFlags(eng_voice, f)
       ELSE UNCHANGED <<vs, regs, on_v, off_v>>
  /\ IF eng_voice = Last THEN engine' = "IDLE" /\ eng_voice' = 0 ELSE eng_voice' = eng_voice + 1 /\ UNCHANGED engine
  /\ UNCHANGED <<cpu, snap_on, snap_off, exec_pending, pend_sample, w, acc, random, out, model>>

PathOver == n = Samples /\ Resting /\ ~Due
PathNext == Write \/ Tick \/ Idle \/ V1 \/ V3 \/ Fetch \/ V4 \/ Mix \/ Done \/ E \/ (PathOver /\ UNCHANGED pathVars)
PathSpec == PathInit /\ [][PathNext]_pathVars

-----------------------------------------------------------------------------
(* Between samples the RTL's voices are the model's, in the RTL's widths,  *)
(* and the sample it put out is the model's: what main of                  *)
(* tools/c352_model.py counts the differences of (lines 142-147).          *)
AsRtl(v) == [pos |-> (v.pos.hi % 256) * 65536 + v.pos.lo, counter |-> v.counter, sample |-> Wrap16(v.sample),
             last |-> Wrap16(v.last), volL |-> v.cur[1], volR |-> v.cur[2]]
SameVoices == \A u \in Voice : vs[u] = AsRtl(chip.v[u]) /\ regs[u].flags = chip.v[u].flags
SameSample == Resting => out = expected /\ random = chip.random /\ SameVoices
=============================================================================
