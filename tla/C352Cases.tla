------------------------------ MODULE C352Cases ------------------------------
(* Logs for C352Path: sounds of every kind, two of them at once, then a    *)
(* key-off, a change of volume and pitch, or another sound over the first. *)
EXTENDS Integers, Sequences

MCRom(a) == LET h == (a * 37 + (a \div 256) * 5 + a \div 65536) % 256 IN IF h % 8 = 0 THEN 128 ELSE IF h % 8 = 3 THEN 127 ELSE h
Sounds == <<
  [flags |-> {"LOOP"}, start |-> 65534, end |-> 1, loop |-> 65535, freq |-> 65535],
  [flags |-> {"LOOP", "REVERSE"}, start |-> 2, end |-> 3, loop |-> 1, freq |-> 49152],
  [flags |-> {"LOOP", "REVERSE", "LDIR", "MULAW"}, start |-> 0, end |-> 65535, loop |-> 65534, freq |-> 65535],
  [flags |-> {"LOOP", "LINK", "PHASEFL"}, start |-> 258, end |-> 259, loop |-> 7, freq |-> 65535],
  [flags |-> {"MULAW"}, start |-> 9, end |-> 11, loop |-> 0, freq |-> 40000],
  [flags |-> {"REVERSE", "PHASEFR"}, start |-> 1, end |-> 65534, loop |-> 0, freq |-> 65535],
  [flags |-> {"NOISE", "FILTER"}, start |-> 0, end |-> 0, loop |-> 0, freq |-> 65535],
  [flags |-> {"NOISE", "PHASEFL"}, start |-> 0, end |-> 0, loop |-> 0, freq |-> 30000],
  [flags |-> {"FILTER", "LOOP"}, start |-> 65533, end |-> 65535, loop |-> 65533, freq |-> 20000],
  [flags |-> {"KEYOFF", "LOOP"}, start |-> 5, end |-> 6, loop |-> 5, freq |-> 65535]>>
Set(t, u, reg, data) == [at |-> t, voice |-> u, reg |-> reg, data |-> data]
Go(t) == [at |-> t, reg |-> "execute"]
Play(t, u, s, vol) == <<Set(t, u, "vol_f", vol), Set(t, u, "freq", s.freq), Set(t, u, "bank", 511), Set(t, u, "start", s.start),
                   Set(t, u, "end", s.end), Set(t, u, "loop", s.loop), Set(t, u, "flags", s.flags \cup {"KEYON"})>>
Later(k) == CASE k = 0 -> <<Set(4, 0, "flags", {"BUSY", "KEYOFF"}), Go(4)>>
              [] k = 1 -> <<Set(4, 0, "vol_f", 1), Set(5, 0, "freq", 1000)>>
              [] k = 2 -> Play(4, 1, Sounds[1], 65535) \o <<Go(4), Set(6, 1, "flags", {})>>
MCLogs == {Play(0, 0, Sounds[i], 1027) \o Play(0, 1, Sounds[1 + ((3 * i + k) % 10)], 65280) \o <<Go(0)>> \o Later(k) : i \in 1 .. 10, k \in 0 .. 2}
=============================================================================
