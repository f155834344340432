----------------------------- MODULE PngStandard -----------------------------
(***************************************************************************)
(* What the PNG standard has another program write: the filters as an      *)
(* encoder applies them, the lines of a stream, and the colours of a line  *)
(* by its colour type.                                                     *)
(***************************************************************************)
EXTENDS Integers, Sequences

Joins == INSTANCE SequencesExt

Magnitude(i) == IF i < 0 THEN -i ELSE i
(* Of left, up and upper left the one nearest to left + up - upper left,   *)
(* the first of them if there are several.                                 *)
Near(a, b, c) == LET d(v) == Magnitude(a + b - c - v)
                     order == <<a, b, c>>
                 IN order[CHOOSE i \in 1 .. 3 : \A j \in 1 .. 3 : d(order[i]) < d(order[j]) \/ (d(order[i]) = d(order[j]) /\ i <= j)]

Predicted(ft, line, up, bpp, i) ==
  LET a == IF i > bpp THEN line[i - bpp] ELSE 0
      c == IF i > bpp THEN up[i - bpp] ELSE 0
  IN  CASE ft = 1 -> a [] ft = 2 -> up[i] [] ft = 3 -> (a + up[i]) \div 2 [] ft = 4 -> Near(a, up[i], c) [] OTHER -> 0
Coded(ft, line, up, bpp) == [i \in DOMAIN line |-> (line[i] - Predicted(ft, line, up, bpp, i)) % 256]

(* The stream: each line behind its filter, coded against the one above.   *)
Above(lines, l) == IF l = 1 THEN [i \in DOMAIN lines[1] |-> 0] ELSE lines[l - 1]
Stream(lines, filters, bpp) ==
  Joins!FlattenSeq([l \in DOMAIN lines |-> <<filters[l]>> \o Coded(filters[l], lines[l], Above(lines, l), bpp)])

(* The bytes of a pixel, and its colour in a line.                         *)
Channels(ct) == CASE ct = 2 -> 3 [] ct = 3 -> 1 [] ct = 6 -> 4
Colour(line, palette, ct, x) ==
  CASE ct = 2 -> <<line[3 * x - 2], line[3 * x - 1], line[3 * x]>>
    [] ct = 3 -> <<palette[3 * line[x] + 1], palette[3 * line[x] + 2], palette[3 * line[x] + 3]>>
    [] ct = 6 -> <<line[4 * x - 3], line[4 * x - 2], line[4 * x - 1]>>
Colours(line, palette, ct, w) == Joins!FlattenSeq([x \in 1 .. w |-> Colour(line, palette, ct, x)])
Shown(lines, palette, ct, w) == Joins!FlattenSeq([l \in DOMAIN lines |-> Colours(lines[l], palette, ct, w)])
=============================================================================
