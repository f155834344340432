-------------------------------- MODULE Png --------------------------------
(***************************************************************************)
(* tools/pngio.py, tools/ppm2png.py and tools/diff_frames.py: a frame of   *)
(* the bench, a PPM, is converted to a PNG and compared with a snapshot    *)
(* that another program encoded, in any colour type, with any filter on    *)
(* each line.  Both decoders, pngio's and diff_frames' own, read it.       *)
(*                                                                         *)
(* A file is a sequence of chunks, an IDAT's body what zlib makes of it; a *)
(* PPM is a sequence of bytes, its width and height one byte each; a       *)
(* picture is the sequence of its rgb bytes.                               *)
(***************************************************************************)
EXTENDS Integers, Sequences, FiniteSets, Functions, PngStandard

CONSTANTS
  Scenes,      \* [w, h, frame, shot: rgb bytes; file: the chunks of the snapshot; lines, filters: what
               \* was encoded and how; odd: to be refused; direct: the frame is read from the PPM]
  Cell         \* side of a cell of the report, 16 pixels

VARIABLES scene, step, y, frame, converted, pngio, own, report
pngVars == <<scene, step, y, frame, converted, pngio, own, report>>

NL == 10
Zeros(n) == [i \in 1 .. n |-> 0]
Each(n, byte(_)) == [i \in 1 .. n |-> byte(i)]
Clip(s, a, b) == SubSeq(s, a, IF b < Len(s) THEN b ELSE Len(s))     \* clipped, as a slice of bytes is

-----------------------------------------------------------------------------
(* Writing: no filter on any line.                                         *)
Header(w, h, bd, ct, il) == [type |-> "IHDR", w |-> w, h |-> h, bd |-> bd, ct |-> ct, il |-> il]
Unfiltered(w, h, rgb) == Joins!FlattenSeq([l \in 1 .. h |-> <<0>> \o SubSeq(rgb, (l - 1) * w * 3 + 1, l * w * 3)])
write(w, h, rgb) == <<Header(w, h, 8, 2, 0), [type |-> "IDAT", body |-> Unfiltered(w, h, rgb)], [type |-> "IEND"]>>

(* A PPM: three lines, then the bytes, newlines among them.                *)
Ppm(w, h, rgb) == <<80, 54, NL, w, h, NL, 255, NL>> \o rgb
Newlines(d)  == {i \in DOMAIN d : d[i] = NL}
Newline(d, k) == CHOOSE i \in Newlines(d) : Cardinality({j \in Newlines(d) : j <= i}) = k
Pixels(d)    == Clip(d, Newline(d, 3) + 1, Len(d))
Width(d)     == d[Newline(d, 1) + 1]
Height(d)    == d[Newline(d, 1) + 2]
ppm2png(d)   == write(Width(d), Height(d), Clip(Pixels(d), 1, Width(d) * Height(d) * 3))

-----------------------------------------------------------------------------
(* Reading: the chunks.  pngio stops at IEND, diff_frames does not.        *)
The(file, type) == file[CHOOSE i \in DOMAIN file : file[i].type = type]
Idat(file)      == Joins!FlattenSeq([i \in DOMAIN file |-> IF file[i].type = "IDAT" THEN file[i].body ELSE <<>>])
UpToEnd(file)   == SubSeq(file, 1, CHOOSE i \in DOMAIN file : file[i].type = "IEND" /\ \A j \in 1 .. i - 1 : file[j].type # "IEND")
nch(ct) == CASE ct = 2 -> 3 [] ct = 3 -> 1 [] ct = 6 -> 4
Refused(hdr) == hdr.bd # 8 \/ hdr.il # 0 \/ hdr.ct \notin {2, 3, 6}

Abs(i) == IF i < 0 THEN -i ELSE i
Paeth(a, b, c) ==
  LET p == a + b - c
      pa == Abs(p - a)
      pb == Abs(p - b)
      pc == Abs(p - c)
  IN  IF pa <= pb /\ pa <= pc THEN a ELSE IF pb <= pc THEN b ELSE c

(* Line y of the stream, the filter in front of it.                        *)
Filter(raw, stride, l) == raw[l * (stride + 1) + 1]
Line(raw, stride, l)   == SubSeq(raw, l * (stride + 1) + 2, (l + 1) * (stride + 1))

LeftOfLine(ft, line, prev, bpp) ==          \* fault variant: the neighbour is the byte of the coded line
  [i \in DOMAIN line |->
     LET a == IF i > bpp THEN line[i - bpp] ELSE 0
     IN  (line[i] + (CASE ft = 1 -> a [] ft = 2 -> prev[i] [] ft = 3 -> (a + prev[i]) \div 2 [] OTHER -> 0)) % 256]
unfilter(ft, line, prev, bpp) ==
  LET out[i \in DOMAIN line] ==
        LET a == IF i > bpp THEN out[i - bpp] ELSE 0
            c == IF i > bpp THEN prev[i - bpp] ELSE 0
        IN  (line[i] + (CASE ft = 0 -> 0
                          [] ft = 1 -> a
                          [] ft = 2 -> prev[i]
                          [] ft = 3 -> (a + prev[i]) \div 2
                          [] ft = 4 -> Paeth(a, prev[i], c))) % 256
  IN  out
(* diff_frames takes a filter it does not know for none.                   *)
row(fl, line, prev, ch) == unfilter(IF fl \in 1 .. 4 THEN fl ELSE 0, line, prev, ch)

Rgb(file, w, line) ==
  LET ct == The(file, "IHDR").ct
      plte == The(file, "PLTE").body
      rgb(x) == CASE ct = 2 -> Clip(line, x * 3 - 2, x * 3)
                  [] ct = 3 -> Clip(plte, line[x] * 3 + 1, line[x] * 3 + 3)
                  [] ct = 6 -> Clip(line, x * 4 - 3, x * 4 - 1)
  IN  Joins!FlattenSeq(Each(w, rgb))

-----------------------------------------------------------------------------
(* The frame is the bench's.  A snapshot that is not odd is the encoding   *)
(* of a picture; an odd one has a header or a filter that is not read, or  *)
(* another size.                                                           *)
Tones == 0 .. 255
Encodes(s) ==
  LET hd == The(s.file, "IHDR")
      bpp == Channels(hd.ct)
      palette == IF hd.ct = 3 THEN The(s.file, "PLTE").body ELSE <<>>
  IN  /\ hd.w = s.w /\ hd.h = s.h /\ hd.bd = 8 /\ hd.il = 0 /\ hd.ct \in {2, 3, 6}
      /\ s.lines \in [1 .. s.h -> [1 .. s.w * bpp -> Tones]] /\ s.filters \in [1 .. s.h -> 0 .. 4]
      /\ palette \in Seq(Tones) /\ (hd.ct = 3 => \A l \in 1 .. s.h, x \in 1 .. s.w : 3 * s.lines[l][x] + 3 <= Len(palette))
      /\ \A file \in {s.file, UpToEnd(s.file)} : Idat(file) = Stream(s.lines, s.filters, bpp)
      /\ s.shot = Shown(s.lines, palette, hd.ct, s.w)
Unreadable(s) ==
  LET hd == The(s.file, "IHDR")
      pitch == hd.w * Channels(hd.ct) + 1
  IN  \/ hd.bd # 8 \/ hd.il # 0 \/ hd.ct \notin {2, 3, 6} \/ hd.w # s.w \/ hd.h # s.h
      \/ \E l \in 0 .. hd.h - 1 : Idat(UpToEnd(s.file))[l * pitch + 1] > 4
ASSUME SceneAssumption ==
  \A s \in Scenes :
    /\ s.w \in Nat \ {0, NL} /\ s.h \in Nat \ {0, NL} /\ s.frame \in Seq(Tones) /\ Len(s.frame) = 3 * s.w * s.h
    /\ The(s.file, "IHDR").h \in Nat
    /\ IF s.odd THEN Unreadable(s) ELSE Encodes(s)

-----------------------------------------------------------------------------
NoReader == [refused |-> FALSE, prev |-> <<>>, img |-> <<>>]
NoReport == [diff |-> 0, cells |-> <<>>, out |-> <<>>]
PngInit == /\ scene \in Scenes /\ step = "convert" /\ y = 0
           /\ frame = <<>> /\ converted = <<>> /\ pngio = NoReader /\ own = NoReader /\ report = NoReport

hdr    == The(scene.file, "IHDR")
stride == hdr.w * nch(hdr.ct)

Convert == /\ step = "convert" /\ step' = "open"
           /\ converted' = ppm2png(Ppm(scene.w, scene.h, scene.frame))
           /\ UNCHANGED <<scene, y, frame, pngio, own, report>>

(* Both decoders look at the header; diff_frames only at the colour type.  *)
Open == /\ step = "open" /\ step' = IF hdr.ct \in {2, 3, 6} THEN "lines" ELSE "error"
        /\ pngio' = IF Refused(hdr) THEN [NoReader EXCEPT !.refused = TRUE] ELSE [NoReader EXCEPT !.prev = Zeros(stride)]
        /\ own' = IF hdr.ct \in {2, 3, 6} THEN [NoReader EXCEPT !.prev = Zeros(stride)] ELSE NoReader
        /\ UNCHANGED <<scene, y, frame, converted, report>>

Read(reader, decoded) ==
  [reader EXCEPT !.prev = decoded, !.img = @ \o Rgb(scene.file, hdr.w, decoded)]
ReadLine ==
  LET raw  == Idat(UpToEnd(scene.file))
      all  == Idat(scene.file)
      ft   == Filter(raw, stride, y)
      line == Line(raw, stride, y)
  IN
  /\ step = "lines" /\ y < hdr.h /\ y' = y + 1
  /\ pngio' = IF pngio.refused THEN pngio
              ELSE IF ft > 4 THEN [NoReader EXCEPT !.refused = TRUE]
              ELSE Read(pngio, unfilter(ft, line, pngio.prev, nch(hdr.ct)))
  /\ own' = Read(own, row(Filter(all, stride, y), Line(all, stride, y), own.prev, nch(hdr.ct)))
  /\ UNCHANGED <<scene, step, frame, converted, report>>

(* diff_frames reads the frame from the PPM or from the converted PNG.     *)
FromPng(file, w, h) ==
  LET raw == Idat(file) IN Joins!FlattenSeq([l \in 1 .. h |-> row(Filter(raw, w * 3, l - 1), Line(raw, w * 3, l - 1), Zeros(w * 3), 3)])
Frame == /\ step = "lines" /\ y = hdr.h /\ step' = "compare"
         /\ frame' = IF scene.direct THEN Pixels(Ppm(scene.w, scene.h, scene.frame)) ELSE FromPng(converted, scene.w, scene.h)
         /\ UNCHANGED <<scene, y, converted, pngio, own, report>>

Pixel(img, x, l) == SubSeq(img, (l * scene.w + x) * 3 + 1, (l * scene.w + x) * 3 + 3)
RedDiffers ==                               \* fault variant: only the first byte of a pixel is compared
  {p \in (0 .. scene.w - 1) \X (0 .. scene.h - 1) : Pixel(frame, p[1], p[2])[1] # Pixel(own.img, p[1], p[2])[1]}
Differ == {p \in (0 .. scene.w - 1) \X (0 .. scene.h - 1) : Pixel(frame, p[1], p[2]) # Pixel(own.img, p[1], p[2])}
CellOf(p) == <<p[2] \div Cell, p[1] \div Cell>>
Comparing ==
  LET out(i) == LET x == ((i - 1) \div 3) % scene.w
                    l == ((i - 1) \div 3) \div scene.w
                IN  IF <<x, l>> \in Differ THEN <<255, 0, 0>>[1 + ((i - 1) % 3)] ELSE frame[i] \div 3
  IN
  /\ step = "compare"
  /\ IF <<scene.w, scene.h>> = <<hdr.w, hdr.h>>
       THEN /\ step' = "done"
            /\ report' = [diff |-> Cardinality(Differ), out |-> write(scene.w, scene.h, Each(scene.w * scene.h * 3, out)),
                          cells |-> [c \in {CellOf(p) : p \in Differ} |-> Cardinality({p \in Differ : CellOf(p) = c})]]
       ELSE step' = "error" /\ UNCHANGED report
  /\ UNCHANGED <<scene, y, frame, converted, pngio, own>>

PngOver == step \in {"done", "error"}
PngNext == Convert \/ Open \/ ReadLine \/ Frame \/ Comparing \/ (PngOver /\ UNCHANGED pngVars)
PngSpec == PngInit /\ [][PngNext]_pngVars

-----------------------------------------------------------------------------
(* Both decoders give the picture that was encoded, whatever filter its    *)
(* encoder chose for each line; pngio refuses what it cannot read, rather  *)
(* than give another picture (pngio.py 33-34, 80).                         *)
PictureRead ==
  /\ step = "done" /\ ~scene.odd => pngio.img = scene.shot /\ own.img = scene.shot
  /\ step \in {"done", "error"} /\ scene.odd => pngio.refused \/ <<scene.w, scene.h>> # <<hdr.w, hdr.h>>

(* The bench's frame comes through, from the PPM or through ppm2png, and   *)
(* the report counts the pixels that differ: in all, by cell, and in red.  *)
Really == {p \in (0 .. scene.w - 1) \X (0 .. scene.h - 1) : Pixel(scene.frame, p[1], p[2]) # Pixel(scene.shot, p[1], p[2])}
ReportTrue ==
  step = "done" /\ ~scene.odd =>
    /\ report.diff = Cardinality(Really)
    /\ FoldFunction(+, 0, report.cells) = report.diff
    /\ \A p \in (0 .. scene.w - 1) \X (0 .. scene.h - 1) :
         Pixel(FromPng(report.out, scene.w, scene.h), p[1], p[2]) = <<255, 0, 0>> <=> p \in Really
=============================================================================
