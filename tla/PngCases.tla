------------------------------- MODULE PngCases -------------------------------
(* Pictures for Png, encoded as the PNG standard has it: every pair of      *)
(* filters in every colour type, and files that are to be refused.          *)
EXTENDS Integers, Sequences, SequencesExt, PngStandard

Palette == <<0, 0, 0, 0, 10, 10, 200, 7, 255, 255, 0, 0>>
Rgba(pic, ct) == FlattenSeq([i \in DOMAIN pic |->
   LET c == SubSeq(Palette, 3 * pic[i] + 1, 3 * pic[i] + 3)
   IN  CASE ct = 2 -> c [] ct = 3 -> <<pic[i]>> [] OTHER -> c \o <<100 + i>>])
Lines(w, h, pic, ct) ==
  LET raw == Rgba(pic, ct)
  IN  [l \in 1 .. h |-> SubSeq(raw, (l - 1) * w * Channels(ct) + 1, l * w * Channels(ct))]
Ihdr(w, h, bd, ct, il) == [type |-> "IHDR", w |-> w, h |-> h, bd |-> bd, ct |-> ct, il |-> il]
Chunk(type, body) == [type |-> type, body |-> body]
File(hdrc, stream, cut) == <<hdrc, Chunk("tEXt", <<1>>), Chunk("PLTE", Palette), Chunk("IDAT", SubSeq(stream, 1, cut)),
                             Chunk("IDAT", SubSeq(stream, cut + 1, Len(stream))), [type |-> "IEND"], Chunk("junk", <<3>>)>>
Pics == {<<0, 1, 2, 3, 2, 1>>, <<2, 2, 0, 1, 3, 0>>, <<3, 0, 2, 2, 1, 3>>}
Scene(frm, shot, ct, filters, hd, odd) ==
  [w |-> 3, h |-> 2, frame |-> Rgba(frm, 2), shot |-> Rgba(shot, 2), lines |-> Lines(3, 2, shot, ct), filters |-> filters,
   odd |-> odd, direct |-> (ct = 6), file |-> File(hd, Stream(Lines(3, 2, shot, ct), filters, Channels(ct)), 5)]
MCScenes == {Scene(f, s, ct, <<a, b>>, Ihdr(3, 2, 8, ct, 0), FALSE) : f \in Pics, s \in Pics, ct \in {2, 3, 6}, a \in 0 .. 4, b \in 0 .. 4}
  \cup {Scene(f, f, ct, <<a, b>>, Ihdr(3, 2, 8, ct, 0), TRUE) : f \in Pics, ct \in {2, 3, 6}, a \in {0, 5}, b \in {5}}
  \cup {Scene(f, f, 2, <<0, 0>>, hd, TRUE) : f \in Pics, hd \in {Ihdr(3, 2, 16, 2, 0), Ihdr(3, 2, 8, 2, 1), Ihdr(3, 2, 8, 0, 0), Ihdr(2, 2, 8, 2, 0)}}
=============================================================================
