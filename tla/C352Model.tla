------------------------------ MODULE C352Model ------------------------------
(***************************************************************************)
(* tools/c352_model.py: the sequential model of the sound chip that the    *)
(* RTL's samples are compared with, at the chip's widths.  A voice is a    *)
(* record of the class Voice; its flags are a set of names, and its        *)
(* position is the pair of its upper and lower 16 bits.                    *)
(***************************************************************************)
EXTENDS Integers

CONSTANTS
  Voices,     \* 32
  Rom(_)      \* the byte of the sample ROM at a 24-bit address

s8(v)  == IF v % 256 >= 128 THEN (v % 256) - 256 ELSE v % 256
s16(v) == IF v % 65536 >= 32768 THEN (v % 65536) - 65536 ELSE v % 65536

(* The mu-law steps of c352_model.py and of gen_c352_tables.py, which      *)
(* writes the table the RTL reads.                                         *)
J[i \in 0 .. 127] ==
  IF i = 0 THEN 0
  ELSE J[i - 1] + (CASE i <= 16 -> 1 [] i \in 17 .. 24 -> 2 [] i \in 25 .. 48 -> 4 [] i \in 49 .. 100 -> 8 [] OTHER -> 16)
Inverted(t) == ((65535 - t) \div 32) * 32
mulaw_table == [i \in 0 .. 255 |-> s16(IF i < 128 THEN J[i] * 32 ELSE Inverted(J[i - 128] * 32))]

NewVoice == [pos |-> [hi |-> 0, lo |-> 0], counter |-> 0, sample |-> 0, last |-> 0, vol_f |-> 0, cur |-> <<0, 0>>,
             freq |-> 0, flags |-> {}, bank |-> 0, start |-> 0, end |-> 0, loop |-> 0]
Reset == [v |-> [n \in 0 .. Voices - 1 |-> NewVoice], random |-> 4660]

(* Register writes; `execute' is the write of 0x202.                       *)
write(chip, n, reg, data) == [chip EXCEPT !.v[n][reg] = data]

keyed_on(v) ==
  [v EXCEPT !.pos = [hi |-> v.bank, lo |-> v.start], !.sample = 0, !.last = 0, !.counter = 65535,
            !.flags = (v.flags \cup {"BUSY"}) \ {"KEYON", "LOOPHIST"}, !.cur = <<0, 0>>]
keyed_off(v) == [v EXCEPT !.flags = @ \ {"BUSY", "KEYOFF"}, !.counter = 65535]
executed(v) ==
  LET on == IF "KEYON" \in v.flags THEN keyed_on(v) ELSE v
  IN  IF "KEYOFF" \in on.flags THEN keyed_off(on) ELSE on
execute(chip) == [chip EXCEPT !.v = [n \in 0 .. Voices - 1 |-> executed(chip.v[n])]]

-----------------------------------------------------------------------------
Moved(pos, by) ==
  LET lo == pos.lo + by IN [hi |-> (pos.hi + lo \div 65536) % 65536, lo |-> lo % 65536]
read_byte(pos) == Rom((pos.hi % 256) * 65536 + pos.lo)

Xor(a, b) == LET x[i \in 0 .. 16] == IF i = 0 THEN 0
                                     ELSE x[i - 1] + 2^(i - 1) * (((a \div 2^(i - 1)) + (b \div 2^(i - 1))) % 2)
             IN x[16]
next_random(r) == Xor(r \div 2, IF r % 2 = 1 THEN 65526 ELSE 0)

(* Where a voice goes after its byte.                                      *)
after_byte(v) ==
  IF {"LOOP", "REVERSE"} \subseteq v.flags
    THEN LET ldir == IF "LDIR" \in v.flags THEN v.pos.lo # v.loop ELSE v.pos.lo = v.end
         IN  [v EXCEPT !.flags = IF ldir THEN @ \cup {"LDIR"} ELSE @ \ {"LDIR"}, !.pos = Moved(@, IF ldir THEN -1 ELSE 1)]
  ELSE IF v.pos.lo # v.end THEN [v EXCEPT !.pos = Moved(@, IF "REVERSE" \in v.flags THEN -1 ELSE 1)]
  ELSE IF "LOOP" \in v.flags
    THEN [v EXCEPT !.pos = [hi |-> IF "LINK" \in v.flags THEN v.start ELSE @.hi % 256, lo |-> v.loop],
                   !.flags = @ \cup {"LOOPHIST"}]
  ELSE [v EXCEPT !.flags = (@ \cup {"KEYOFF"}) \ {"BUSY"}, !.sample = 0]

fetch(v, random) ==
  LET s == s8(read_byte(v.pos))
      w == [v EXCEPT !.last = v.sample]
  IN  IF "NOISE" \in v.flags THEN [w EXCEPT !.sample = s16(next_random(random))]
      ELSE after_byte([w EXCEPT !.sample = IF "MULAW" \in v.flags THEN mulaw_table[s % 256] ELSE s16(s * 256)])

(* floor(c * d / 2^16), without a number of more than 31 bits.             *)
Scaled(c, d) == (c * (d \div 256) + (c * (d % 256)) \div 256) \div 256
Towards(cur, val) == IF cur = val THEN cur ELSE IF cur > val THEN cur - 1 ELSE cur + 1

(* One voice in one sample: what it becomes, its sample and the noise.     *)
stepped(v, random) ==
  LET nxt     == v.counter + v.freq
      fetches == nxt >= 65536
      f       == IF fetches THEN fetch(v, random) ELSE v
      ramps   == nxt \div 32768 # v.counter \div 32768
      w       == [f EXCEPT !.counter = nxt % 65536,
                           !.cur = IF ramps THEN <<Towards(@[1], v.vol_f \div 256), Towards(@[2], v.vol_f % 256)>> ELSE @]
  IN  IF "BUSY" \notin v.flags THEN [v |-> v, s |-> 0, random |-> random]
      ELSE [v |-> w,
            s |-> IF "FILTER" \in w.flags THEN w.sample ELSE s16(w.last + (Scaled(w.counter, w.sample - w.last) % 65536)),
            random |-> IF fetches /\ "NOISE" \in v.flags THEN next_random(random) ELSE random]

Heard(s, inverted, cur) == ((IF inverted THEN -s ELSE s) * cur) \div 256

(* One sample of all voices, in order: the noise register is shared.       *)
walked(chip) ==
  LET walk[n \in 0 .. Voices] ==
        IF n = 0 THEN [chip |-> chip, l |-> 0, r |-> 0]
        ELSE LET before == walk[n - 1]
                 t      == stepped(before.chip.v[n - 1], before.chip.random)
             IN  [chip |-> [v |-> [before.chip.v EXCEPT ![n - 1] = t.v], random |-> t.random],
                  l |-> before.l + Heard(t.s, "PHASEFL" \in t.v.flags, t.v.cur[1]),
                  r |-> before.r + Heard(t.s, "PHASEFR" \in t.v.flags, t.v.cur[2])]
  IN  walk
step(chip) == LET all == walked(chip)[Voices] IN [chip |-> all.chip, out |-> <<s16(all.l \div 8), s16(all.r \div 8)>>]
=============================================================================
