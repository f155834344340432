-------------------------- MODULE YgvRenderProofs --------------------------
(***************************************************************************)
(* Proofs about YgvRender, for a picture of any size, any contents of the  *)
(* pattern ROM and any registers of the chip's widths.                     *)
(*                                                                         *)
(* The renderer's registers keep to their ranges because a step's place in *)
(* the line bounds what it reads: a tile is written when its row of pens   *)
(* is full, a sprite's block while it is inside the sprite, a texel is in  *)
(* the tile that was fetched.  So the invariant has a part for each of     *)
(* them, and the parts are kept together: Flowing, PlaneOK, Tiling,        *)
(* Spriting, Rotating, Asking, Answering and LineBuffers.  OnLine ties the *)
(* line being drawn to the raster's, which is why the flag is raised.      *)
(* Owned, JustRead and Stored follow a request through the burst client.   *)
(* Followed says which rows the raster has shown, while the renderer keeps *)
(* up.                                                                     *)
(***************************************************************************)
EXTENDS YgvRender, SequenceTheorems, FiniteSetTheorems, TLAPS

(* Arithmetic.                                                             *)
LEMMA PowerPositive == ASSUME NEW n \in Nat PROVE 2^n \in Nat \ {0}
  <1>1. IsFiniteSet(1 .. n) /\ Cardinality(1 .. n) = n
    BY FS_Interval
  <1>2. IsFiniteSet(SUBSET (1 .. n)) /\ Cardinality(SUBSET (1 .. n)) = 2^n
    BY <1>1, FS_SUBSET
  <1>3. SUBSET (1 .. n) # {}
    OBVIOUS
  <1> QED
    BY <1>2, <1>3, FS_CardinalityType, FS_EmptySet

LEMMA Quotient == ASSUME NEW n \in Int, NEW d \in Nat \ {0} PROVE n \div d \in Int
  OBVIOUS

LEMMA Remainder == ASSUME NEW n \in Int, NEW d \in Nat \ {0} PROVE n % d \in 0 .. d - 1
  OBVIOUS

LEMMA SliceRange ==
  ASSUME NEW n \in Int, NEW lo \in Nat, NEW hi \in Nat, lo <= hi
  PROVE  Slice(n, hi, lo) \in 0 .. 2^(hi - lo + 1) - 1
  <1>1. n \div 2^lo \in Int
    BY PowerPositive, Quotient
  <1> QED
    BY <1>1, PowerPositive, Remainder DEF Slice

LEMMA FixedSlices ==
  ASSUME NEW n \in Int
  PROVE  /\ \A b \in 0 .. 3 : Slice(n, b, b) \in 0 .. 1
         /\ Slice(n, 3, 2) \in 0 .. 3 /\ Slice(n, 4, 2) \in 0 .. 7 /\ Slice(n, 5, 3) \in 0 .. 7
         /\ Slice(n, 3, 0) \in 0 .. 15 /\ Slice(n, 4, 0) \in 0 .. 31 /\ Slice(n, 20, 20) \in 0 .. 1
  <1>1. Slice(n, 0, 0) \in 0 .. 1 /\ Slice(n, 1, 1) \in 0 .. 1 /\ Slice(n, 2, 2) \in 0 .. 1 /\ Slice(n, 3, 3) \in 0 .. 1
    BY DEF Slice
  <1>2. \A b \in 0 .. 3 : Slice(n, b, b) \in 0 .. 1
    BY <1>1
  <1>3. Slice(n, 3, 2) \in 0 .. 3 /\ Slice(n, 4, 2) \in 0 .. 7 /\ Slice(n, 5, 3) \in 0 .. 7
    BY DEF Slice
  <1>4. Slice(n, 3, 0) \in 0 .. 15 /\ Slice(n, 4, 0) \in 0 .. 31
    BY DEF Slice
  <1>5. Slice(n, 20, 20) \in 0 .. 1
    BY DEF Slice
  <1> QED
    BY <1>2, <1>3, <1>4, <1>5

LEMMA OnlyMember == ASSUME NEW S, S # {} PROVE Only(S) \in S
  BY DEF Only

LEMMA OneExact == One \in Nat \ {0} /\ Wrap \in Nat \ {0}
  BY PowerPositive, SizesAssumption DEF One, Wrap, M!One, M!Wrap

-----------------------------------------------------------------------------
(* What the registers' widths say of the expressions of the renderer.  A   *)
(* tile's number may be anything whole: the address is cut to its width.   *)
Tiles   == [code : Int, colour : 0 .. 15, flipx : BOOLEAN, flipy : BOOLEAN, is8 : BOOLEAN,
            col : Int, row : Int, py : 0 .. 15]
Scrolls == [rs16 : Nat, cs16 : Nat, xr : Int, ty : Int]
Units   == [1 .. 4 -> Byte]

Programmed == mode \in DOMAIN Regs
PlaneOK    == plane \in 0 .. 1 /\ pl \in Scrolls /\ k \in Nat

LEMMA Settings == Programmed => Widths(s)
  BY RegsAssumption DEF Programmed, s

LEMMA Shapes == /\ ts \in {8, 16} /\ page_x \in {32, 64} /\ page_y \in {32, 64}
                /\ tw \in Nat \ {0} /\ th \in Nat \ {0} /\ bits16 \in BOOLEAN
  <1>1. ts \in {8, 16} /\ page_x \in {32, 64} /\ page_y \in {32, 64} /\ bits16 \in BOOLEAN
    BY DEF ts, page_x, page_y, bits16
  <1> QED
    BY <1>1 DEF tw, th

LEMMA WordNat == ASSUME Programmed, plane \in 0 .. 1, NEW i \in 0 .. 254 PROVE Word(i) \in Nat
  <1>1. s.scroll \in [0 .. 1 -> [0 .. 255 -> Byte]]
    BY Settings DEF Widths
  <1>2. s.scroll[plane][i] \in Byte /\ s.scroll[plane][i + 1] \in Byte
    BY <1>1
  <1>3. Word(i) = s.scroll[plane][i] + s.scroll[plane][i + 1] * 256
    BY DEF Word, sdt
  <1>4. ASSUME NEW lo \in Byte, NEW hi \in Byte PROVE lo + hi * 256 \in Nat
    BY DEF Byte
  <1> QED
    BY <1>2, <1>3, <1>4

LEMMA ColumnEven == ASSUME Programmed, NEW c \in Int PROVE col_div(c) \in 0 .. 254
  <1>0. s.col_shift \in 0 .. 15
    BY Settings DEF Widths
  <1>1. s.col_shift \in Nat
    BY <1>0
  <1>2. 2^s.col_shift \in Nat \ {0}
    BY <1>1, PowerPositive
  <1>3. c \div 2^s.col_shift \in Int
    BY <1>2, Quotient
  <1>4. (c \div 2^s.col_shift) % 64 \in 0 .. 63
    BY <1>3
  <1> QED
    BY <1>4 DEF col_div

LEMMA PageRange ==
  ASSUME PlaneOK, NEW c \in Int, NEW r \in Int
  PROVE  page_calc(c, r) \in 0 .. 31
  <1> DEFINE px == (pl.rs16 % 4096) + c * ts
             py == (pl.cs16 % 4096) + r * ts
  <1>1. px \in Int /\ py \in Int
    BY Shapes DEF PlaneOK, Scrolls
  <1> HIDE DEF px, py
  <1>2. \A hi, lo \in 0 .. 12 : lo <= hi => Slice(px, hi, lo) \in Int /\ Slice(py, hi, lo) \in Int
    <2> SUFFICES ASSUME NEW hi \in 0 .. 12, NEW lo \in 0 .. 12, lo <= hi
                 PROVE  Slice(px, hi, lo) \in Int /\ Slice(py, hi, lo) \in Int
      OBVIOUS
    <2>1. hi - lo + 1 \in Nat
      OBVIOUS
    <2>2. 2^(hi - lo + 1) \in Nat
      BY <2>1, PowerPositive
    <2>3. hi \in Nat /\ lo \in Nat
      OBVIOUS
    <2>4. Slice(px, hi, lo) \in 0 .. 2^(hi - lo + 1) - 1 /\ Slice(py, hi, lo) \in 0 .. 2^(hi - lo + 1) - 1
      BY <1>1, <2>3, SliceRange
    <2> QED
      BY <2>2, <2>4
  <1>3. /\ Slice(px, 9, 8) \in Int /\ Slice(px, 10, 9) \in Int /\ Slice(px, 10, 8) \in Int
        /\ Slice(px, 12, 9) \in Int /\ Slice(px, 12, 10) \in Int
        /\ Slice(py, 10, 8) \in Int /\ Slice(py, 10, 9) \in Int /\ Slice(py, 12, 9) \in Int /\ Slice(py, 12, 10) \in Int
    BY <1>2
  <1> DEFINE page == IF ~pts16 THEN IF s.md = 1 THEN Slice(px, 9, 8) + 4 * Slice(py, 10, 8)
                                    ELSE IF s.page_size = 1 THEN Slice(px, 10, 9) + 4 * Slice(py, 10, 8)
                                    ELSE Slice(px, 10, 8) + 8 * Slice(py, 10, 9)
                     ELSE IF s.md = 1 THEN Slice(px, 10, 9) + 4 * Slice(py, 12, 9)
                     ELSE IF s.page_size = 1 THEN Slice(px, 12, 9) + 8 * Slice(py, 12, 10)
                     ELSE Slice(px, 12, 10) + 4 * Slice(py, 12, 9)
  <1>4. page \in Int
    BY <1>3
  <1>5. page_calc(c, r) = Slice(page, 4, 0)
    BY DEF page_calc, px, py
  <1> HIDE DEF page
  <1>6. Slice(page, 4, 0) \in 0 .. 31
    BY <1>4, FixedSlices
  <1> QED
    BY <1>5, <1>6

LEMMA PowerOfFour == ASSUME NEW n \in 0 .. 7 PROVE 4^n \in Nat \ {0}
  <1>1. n = 0 \/ n = 1 \/ n = 2 \/ n = 3 \/ n = 4 \/ n = 5 \/ n = 6 \/ n = 7
    OBVIOUS
  <1>2. 4^n \in {4^0, 4^1, 4^2, 4^3, 4^4, 4^5, 4^6, 4^7}
    BY <1>1, Zenon
  <1> QED
    BY <1>2

(* The bytes of the pattern name table are addressed in 12 bits.           *)
LEMMA InTable == ASSUME NEW n \in Int PROVE n % 4096 \in Names
  BY DEF Names

LEMMA EvenByte == ASSUME NEW n \in Int PROVE 2 * (n \div 2) \in Int
  <1>1. n \div 2 \in Int
    OBVIOUS
  <1> QED
    BY <1>1

LEMMA LookupIsTile ==
  ASSUME Programmed, PlaneOK, NEW c \in Int, NEW r \in Int
  PROVE  Lookup(c, r) \in Tiles
  <1> DEFINE idx   == pnt_index(r, c, plane)
             pair  == 2 * (idx \div 2)
             even  == s.pattern_name_table[pair % 4096]
             odd   == s.pattern_name_table[(pair + 1) % 4096]
             is8   == plane = 0 /\ s.md = 3
             pg    == sdt(192 + IF s.v_div_size = 0 THEN page_calc(c, r) ELSE 0)
             ba    == s.base_addr[plane][IF page_y # 32 THEN Slice(r, 5, 3) ELSE Slice(r, 4, 2)]
             lo    == IF bits16 \/ idx % 2 = 0 THEN even ELSE odd
             hi    == IF ~bits16 THEN 0 ELSE IF s.flip = 1 THEN odd % 4 ELSE odd % 16
             sum   == hi * 256 + lo + pg * (IF pts16 THEN 256 ELSE 1024) + ba * 256
             elems == (IF pts16 THEN 65536 ELSE 262144) \div (IF is8 THEN 2 ELSE 1)
             j     == IF sum >= elems THEN 0 ELSE sum
             cf    == IF plane = 1 THEN s.planeB_color_fetch ELSE s.planeA_color_fetch
             flips == s.flip = 1 /\ bits16
             code  == j + s.namcond1_gfxbank * (elems \div 4)
             colour == IF is8 THEN 0
                       ELSE IF cf # 0 THEN Slice(j \div 4^(IF pts16 THEN cf ELSE cf - 1), 3, 0)
                       ELSE IF bits16 THEN odd \div 16 ELSE 0
             fx == flips /\ Slice(odd, 3, 3) = 1
             fy == flips /\ Slice(odd, 2, 2) = 1
  <1>1. idx \in Int
    <2>1. r * page_x + c + (IF plane = 1 THEN page_y * page_x ELSE 0) \in Int
      <3>1. r * page_x \in Int /\ page_y * page_x \in Int
        BY Shapes
      <3> QED
        BY <3>1
    <2> DEFINE i == r * page_x + c + (IF plane = 1 THEN page_y * page_x ELSE 0)
    <2>2. idx = IF bits16 THEN (2 * i) % 8192 ELSE i
      BY DEF pnt_index
    <2> HIDE DEF i
    <2>3. i \in Int
      BY <2>1 DEF i
    <2> QED
      BY <2>2, <2>3
  <1>2. even \in Byte /\ odd \in Byte
    <2>1. s.pattern_name_table \in [Names -> Byte]
      BY Settings DEF Widths
    <2> HIDE DEF idx
    <2>2. pair \in Int
      BY <1>1, EvenByte
    <2> HIDE DEF pair
    <2>3. pair % 4096 \in Names /\ (pair + 1) % 4096 \in Names
      BY <2>2, InTable
    <2> QED
      BY <2>1, <2>3
  <1>3. pg \in Byte
    <2>1. s.scroll \in [0 .. 1 -> [0 .. 255 -> Byte]]
      BY Settings DEF Widths
    <2> DEFINE i == 192 + IF s.v_div_size = 0 THEN page_calc(c, r) ELSE 0
    <2>2. i \in 0 .. 255
      <3>1. page_calc(c, r) \in 0 .. 31
        BY PageRange
      <3> QED
        BY <3>1
    <2>3. pg = s.scroll[plane][i]
      BY DEF sdt
    <2> HIDE DEF i, pg
    <2> QED
      BY <2>1, <2>2, <2>3 DEF PlaneOK
  <1>4. ba \in 0 .. 7
    <2>1. s.base_addr \in [0 .. 1 -> [0 .. 7 -> 0 .. 7]]
      BY Settings DEF Widths
    <2> DEFINE i == IF page_y # 32 THEN Slice(r, 5, 3) ELSE Slice(r, 4, 2)
    <2>2. i \in 0 .. 7
      <3>1. Slice(r, 5, 3) \in 0 .. 7 /\ Slice(r, 4, 2) \in 0 .. 7
        BY FixedSlices
      <3> QED
        BY <3>1
    <2>3. ba = s.base_addr[plane][i]
      OBVIOUS
    <2> HIDE DEF i, ba
    <2> QED
      BY <2>1, <2>2, <2>3 DEF PlaneOK
  <1>5. s.namcond1_gfxbank \in 0 .. 3 /\ cf \in 0 .. 7
    BY Settings DEF Widths
  <1> HIDE DEF idx, even, odd, pg, ba, cf
  <1>6. lo \in Int /\ hi \in Int
    BY <1>2 DEF Byte
  <1> HIDE DEF lo, hi
  <1>7. sum \in Int
    BY <1>3, <1>4, <1>6 DEF Byte
  <1> HIDE DEF sum
  <1>8. elems \in Int
    OBVIOUS
  <1> HIDE DEF elems
  <1>9. j \in Int
    BY <1>7
  <1> HIDE DEF j
  <1>10. code \in Int
    BY <1>5, <1>8, <1>9
  <1>11. colour \in 0 .. 15
    <2>1. CASE ~is8 /\ cf # 0
      <3>1. (IF pts16 THEN cf ELSE cf - 1) \in 0 .. 7
        BY <2>1, <1>5
      <3>2. 4^(IF pts16 THEN cf ELSE cf - 1) \in Nat \ {0}
        BY <3>1, PowerOfFour
      <3>3. j \div 4^(IF pts16 THEN cf ELSE cf - 1) \in Int
        BY <3>2, <1>9, Quotient
      <3>4. Slice(j \div 4^(IF pts16 THEN cf ELSE cf - 1), 3, 0) \in 0 .. 15
        BY <3>3, FixedSlices
      <3> QED
        BY <2>1, <3>4
    <2>2. CASE is8 \/ cf = 0
      BY <2>2, <1>2 DEF Byte
    <2> QED
      BY <2>1, <2>2
  <1>12. is8 \in BOOLEAN /\ fx \in BOOLEAN /\ fy \in BOOLEAN
    OBVIOUS
  <1>13. Lookup(c, r) = IF c >= page_x \/ r >= page_y THEN [NoTile EXCEPT !.is8 = is8, !.col = c, !.row = r]
                        ELSE [code |-> code, is8 |-> is8, col |-> c, row |-> r, py |-> 0,
                              colour |-> colour, flipx |-> fx, flipy |-> fy]
    BY DEF Lookup, idx, even, odd, pg, ba, lo, hi, sum, elems, j, cf
  <1> HIDE DEF is8, code, colour, fx, fy
  <1>14. [NoTile EXCEPT !.is8 = is8, !.col = c, !.row = r] \in Tiles
    <2>1. ASSUME NEW b \in BOOLEAN PROVE [NoTile EXCEPT !.is8 = b, !.col = c, !.row = r] \in Tiles
      <3>1. NoTile \in Tiles
        BY DEF NoTile, Tiles
      <3> QED
        BY <3>1 DEF Tiles
    <2> QED
      BY <2>1, <1>12
  <1>15. [code |-> code, is8 |-> is8, col |-> c, row |-> r, py |-> 0,
          colour |-> colour, flipx |-> fx, flipy |-> fy] \in Tiles
    BY <1>10, <1>11, <1>12 DEF Tiles
  <1> QED
    BY <1>13, <1>14, <1>15

(* A unit read, its pens, and what a pen is plotted as.                    *)
Pen      == IF tile.is8 THEN Byte ELSE 0 .. 15
UnitPens == IF tile.is8 THEN 4 ELSE 8

LEMMA UnitRead == ASSUME NEW chip \in 0 .. 1, NEW u \in ReadUnits PROVE Unit(chip, u) \in Units
  <1>1. ASSUME NEW i \in 1 .. 4 PROVE ChipByte(chip, 4 * u + (i - 1)) \in Byte
    <2>1. i - 1 \in 0 .. 3
      OBVIOUS
    <2> QED
      BY <2>1, RomAssumption
  <1> QED
    BY <1>1 DEF Unit, Units

LEMMA NibblesOfUnit ==
  ASSUME NEW q \in Units
  PROVE  Nibbles(q) \in Seq(0 .. 15) /\ Len(Nibbles(q)) = 8 /\ \A i \in 1 .. 8 : Nibbles(q)[i] \in 0 .. 15
  <1>1. q[1] \in 0 .. 255 /\ q[2] \in 0 .. 255 /\ q[3] \in 0 .. 255 /\ q[4] \in 0 .. 255
    BY DEF Units, Byte
  <1>2. ASSUME NEW b \in 0 .. 255 PROVE b \div 16 \in 0 .. 15 /\ b % 16 \in 0 .. 15
    OBVIOUS
  <1>3. /\ q[1] \div 16 \in 0 .. 15 /\ q[1] % 16 \in 0 .. 15 /\ q[2] \div 16 \in 0 .. 15 /\ q[2] % 16 \in 0 .. 15
        /\ q[3] \div 16 \in 0 .. 15 /\ q[3] % 16 \in 0 .. 15 /\ q[4] \div 16 \in 0 .. 15 /\ q[4] % 16 \in 0 .. 15
    BY <1>1, <1>2
  <1>4. ASSUME NEW a1 \in 0 .. 15, NEW a2 \in 0 .. 15, NEW a3 \in 0 .. 15, NEW a4 \in 0 .. 15,
               NEW a5 \in 0 .. 15, NEW a6 \in 0 .. 15, NEW a7 \in 0 .. 15, NEW a8 \in 0 .. 15
        PROVE  <<a1, a2, a3, a4, a5, a6, a7, a8>> \in Seq(0 .. 15) /\ Len(<<a1, a2, a3, a4, a5, a6, a7, a8>>) = 8
    OBVIOUS
  <1>5. Nibbles(q) \in Seq(0 .. 15) /\ Len(Nibbles(q)) = 8
    BY <1>3, <1>4 DEF Nibbles
  <1> QED
    BY <1>5, ElementOfSeq

LEMMA FourInSequence == ASSUME NEW S, NEW q \in [1 .. 4 -> S] PROVE q \in Seq(S) /\ Len(q) = 4
  <1>1. q \in Seq(S)
    BY SeqDef, Zenon
  <1> QED
    BY <1>1, LenProperties

LEMMA PensOfUnit ==
  ASSUME NEW q \in Units, tile \in Tiles
  PROVE  Pens(q) \in Seq(Pen) /\ Len(Pens(q)) = UnitPens
  <1>1. CASE tile.is8
    <2>1. q \in [1 .. 4 -> Byte]
      BY DEF Units
    <2>2. q \in Seq(Byte) /\ Len(q) = 4
      BY <2>1, FourInSequence
    <2> QED
      BY <1>1, <2>2 DEF Pens, Pen, UnitPens
  <1>2. CASE ~tile.is8
    BY <1>2, NibblesOfUnit DEF Pens, Pen, UnitPens
  <1> QED
    BY <1>1, <1>2

LEMMA PlottedByte == ASSUME tile \in Tiles, NEW pen \in Pen PROVE Plotted(pen) \in SUBSET Byte
  <1>1. pen \in Byte
    BY DEF Pen, Byte
  <1>2. ~tile.is8 => tile.colour * 16 + pen \in Byte
    BY DEF Pen, Byte, Tiles
  <1> DEFINE index == IF plane = 0 /\ pen = s.border_color THEN 0 ELSE IF tile.is8 THEN pen ELSE tile.colour * 16 + pen
  <1>3. index \in Byte
    BY <1>1, <1>2 DEF Byte
  <1>4. Plotted(pen) = {} \/ Plotted(pen) = {index}
    BY DEF Plotted
  <1> HIDE DEF index
  <1> QED
    BY <1>3, <1>4

LEMMA FlipInTile == ASSUME NEW t \in 0 .. ts - 1, NEW on \in BOOLEAN PROVE Flip(t, on) \in 0 .. ts - 1
  <1>1. ts \in {8, 16}
    BY Shapes
  <1> QED
    BY <1>1 DEF Flip

LEMMA FlipInt == ASSUME NEW t \in Int, NEW on \in BOOLEAN PROVE Flip(t, on) \in Int
  <1>1. ts \in {8, 16}
    BY Shapes
  <1> QED
    BY <1>1 DEF Flip

LEMMA MortonInt == ASSUME NEW bx \in Int, NEW by \in Int PROVE morton(bx, by) \in Int
  <1>1. /\ Slice(bx, 1, 1) \in Int /\ Slice(bx, 2, 2) \in Int
        /\ Slice(by, 1, 1) \in Int /\ Slice(by, 2, 2) \in Int
    BY FixedSlices
  <1>2. bx % 2 \in Int /\ by % 2 \in Int
    OBVIOUS
  <1> QED
    BY <1>1, <1>2 DEF morton

(* Whatever bytes are drawn, the line buffer holds bytes.                  *)
LineBuffers == lbuf \in [0 .. 1 -> [X -> Byte]]

LEMMA DrawnBytes ==
  ASSUME LineBuffers, y \in Nat, NEW new \in [X -> SUBSET Byte],
         lbuf' = [lbuf EXCEPT ![y % 2] = [x \in X |-> IF new[x] = {} THEN lbuf[y % 2][x] ELSE Only(new[x])]]
  PROVE  LineBuffers'
  <1>1. y % 2 \in 0 .. 1
    OBVIOUS
  <1>2. ASSUME NEW x \in X PROVE (IF new[x] = {} THEN lbuf[y % 2][x] ELSE Only(new[x])) \in Byte
    <2>1. lbuf[y % 2][x] \in Byte
      BY <1>1 DEF LineBuffers
    <2>2. new[x] # {} => Only(new[x]) \in Byte
      BY OnlyMember
    <2> QED
      BY <2>1, <2>2
  <1>3. [x \in X |-> IF new[x] = {} THEN lbuf[y % 2][x] ELSE Only(new[x])] \in [X -> Byte]
    BY <1>2
  <1> QED
    BY <1>1, <1>3 DEF LineBuffers

-----------------------------------------------------------------------------
(* The inductive invariant, in parts.                                      *)
States == {"IDLE", "PHASE", "FILL", "PLANE", "TILE", "T_FETCH", "T_WAIT", "T_WRITE", "SP_INIT", "SP_READ", "SP_FETCH",
           "SP_WAIT", "SP_WRITE", "SP_NEXT", "R_A", "R_B", "R_FETCH", "R_WAIT", "DONE"}
Sprites == [n : Int, row : Int, flipx : BOOLEAN, code : Int, size : 0 .. 3, colour : 0 .. 15, xpos : Int]

(* The state machine and the raster.                                       *)
Flowing == /\ Programmed /\ line \in 0 .. VBlank /\ start \in BOOLEAN /\ overrun \in BOOLEAN
           /\ st \in States /\ y \in 0 .. H - 1 /\ phase \in 0 .. 6
           /\ (st \notin {"IDLE", "DONE"} => phase <= 5)
           /\ (start => line < H)

(* A line is drawn while the raster is in it; later than that only with    *)
(* the flag, or at the frame's end.                                        *)
OnLine == busy /\ ~start /\ ~overrun => y = line \/ line >= H

(* A tile's pens are gathered unit by unit.                                *)
Tiling == /\ tile \in Tiles /\ fidx \in 0 .. 7
          /\ (st \in {"T_FETCH", "T_WAIT"} => /\ fidx < nfetch
                                             /\ rowbuf \in Seq(Pen) /\ Len(rowbuf) = fidx * UnitPens)
          /\ (st = "T_WRITE" => rowbuf \in Seq(Pen) /\ Len(rowbuf) = ts)

Spriting == /\ si \in 0 .. Entries - 1 /\ spr \in Sprites
            /\ (st \in {"SP_FETCH", "SP_WAIT", "SP_WRITE"} => spr.n \in {8, 16, 32, 64} /\ 8 * fidx < spr.n)
            /\ (st = "SP_WRITE" => rowbuf \in Seq(0 .. 15) /\ Len(rowbuf) = 8)

Rotating == /\ rx \in 0 .. W /\ (st \in {"R_A", "R_B", "R_FETCH", "R_WAIT"} => rx < W)
            /\ roz \in [x : Int, y : Int] /\ rpix \in [x : Int, y : Int, inside : BOOLEAN]
            /\ tile_valid \in BOOLEAN /\ roz_fetch \in BOOLEAN /\ roz_off \in Int

Asking == pat_req \in BOOLEAN /\ pat_addr \in Addresses /\ pat_len \in {1, 2, 8, 9, 16, 18, 32, 64}

(* The port, and what it has read.                                         *)
Answering == /\ pat_wr \in BOOLEAN /\ pat_ack \in BOOLEAN /\ pat_idx \in 0 .. 63 /\ bst \in {"IDLE", "RUN", "ACK"}
             /\ burst \in [chip : 0 .. 1, at : ChipUnits, len : 0 .. 64, n : 0 .. 64]
             /\ (bst = "RUN" => burst.len > 0 /\ burst.n <= burst.len)
             /\ (bst = "RUN" /\ burst.n > 0 => pat_q \in Units)
             /\ (bst = "ACK" \/ pat_wr \/ pat_ack => pat_q \in Units)
             /\ tbuf \in [0 .. 63 -> Units]

(* What reading a sprite's entry does beside `spr'.                        *)
LEMMA EntryRead ==
  ASSUME SpRead
  PROVE  /\ st = "SP_READ" /\ st' \in {"SP_FETCH", "SP_NEXT"} /\ phase' = phase /\ y' = y /\ fidx' = 0
         /\ UNCHANGED <<roz_unsupported, planes, tile, rowbuf, si, rotation, lbuf, request>>
  <1>1. st' \in {"SP_FETCH", "SP_NEXT"} /\ phase' = phase /\ y' = y
    BY DEF SpRead, To
  <1>2. fidx' = 0 /\ UNCHANGED <<roz_unsupported, planes, tile, rowbuf, si, rotation, lbuf, request>> /\ st = "SP_READ"
    BY DEF SpRead
  <1> QED
    BY <1>1, <1>2

(* The frame's shape of each step: what the renderer's state machine does  *)
(* to its place.                                                           *)
LEMMA Moves ==
  ASSUME Flowing, Renderer
  PROVE  /\ st' \in States /\ phase' \in 0 .. 6 /\ (st' \notin {"IDLE", "DONE"} => phase' <= 5)
         /\ \/ st' = "IDLE" /\ y' = y
            \/ st = "IDLE" /\ start /\ y' = line
            \/ busy /\ y' = y
  <1>1. CASE Idle
    BY <1>1 DEF Flowing, States, busy, flow, To, Idle
  <1>2. CASE Begin
    BY <1>2 DEF Flowing, States, busy, flow, To, Begin
  <1>3. CASE Phase
    BY <1>3 DEF NextPhase, Flowing, States, busy, flow, To, Phase
  <1>4. CASE Fill
    BY <1>4 DEF Flowing, States, busy, flow, To, Fill
  <1>5. CASE Plane
    BY <1>5 DEF Flowing, States, busy, flow, To, Plane
  <1>6. CASE Tile
    BY <1>6 DEF Flowing, States, busy, flow, To, Tile
  <1>7. CASE TFetch
    BY <1>7 DEF Flowing, States, busy, flow, To, TFetch
  <1>8. CASE Wait
    BY <1>8 DEF Flowing, States, busy, flow, Wait
  <1>9. CASE TAnswer
    BY <1>9 DEF Flowing, States, busy, flow, To, TAnswer
  <1>10. CASE TWrite
    BY <1>10 DEF Flowing, States, busy, flow, To, TWrite
  <1>11. CASE SpInit
    BY <1>11 DEF Flowing, States, busy, flow, To, SpInit
  <1>12. CASE SpRead
    BY <1>12, EntryRead DEF Flowing, States, busy
  <1>13. CASE SpFetch
    BY <1>13 DEF Flowing, States, busy, flow, To, SpFetch
  <1>14. CASE SpAnswer
    BY <1>14 DEF Flowing, States, busy, flow, To, SpAnswer
  <1>15. CASE SpWrite
    BY <1>15 DEF Flowing, States, busy, flow, To, SpWrite
  <1>16. CASE SpNext
    BY <1>16 DEF Flowing, States, busy, flow, To, SpNext
  <1>17. CASE RSetup
    BY <1>17 DEF Flowing, States, busy, flow, To, RSetup
  <1>18. CASE RA
    BY <1>18 DEF Flowing, States, busy, flow, To, RA
  <1>19. CASE ROutside
    BY <1>19 DEF Flowing, States, busy, To, RPlotted, ROutside
  <1>20. CASE RHit
    BY <1>20 DEF Flowing, States, busy, To, RPlotted, RHit
  <1>21. CASE RMiss
    BY <1>21 DEF Flowing, States, busy, flow, To, RMiss
  <1>22. CASE RFetch
    BY <1>22 DEF Flowing, States, busy, flow, To, RFetch
  <1>23. CASE RAnswer
    BY <1>23 DEF Flowing, States, busy, flow, To, RAnswer
  <1>24. CASE Done
    BY <1>24 DEF Flowing, States, busy, flow, To, Done
  <1> QED
    BY <1>1, <1>2, <1>3, <1>4, <1>5, <1>6, <1>7, <1>8, <1>9, <1>10, <1>11, <1>12, <1>13, <1>14,
       <1>15, <1>16, <1>17, <1>18, <1>19, <1>20, <1>21, <1>22, <1>23, <1>24 DEF Renderer

(* A setting is written while no line is drawn or about to be.             *)
LEMMA Steady == ASSUME Flowing, Renderer, Raster PROVE mode' = mode \/ (st = "IDLE" /\ st' = "IDLE")
  <1>1. CASE Program
    <2>1. line = VBlank /\ st = "IDLE"
      BY <1>1 DEF Program, busy
    <2>2. ~start
      BY <2>1, SizesAssumption DEF Flowing, VBlank
    <2>3. st' = "IDLE"
      BY <2>1, <2>2, Moves DEF busy
    <2> QED
      BY <2>1, <2>3
  <1> QED
    BY <1>1 DEF Raster, Hold, Advance, NewFrame

LEMMA FlowKept == ASSUME Flowing, OnLine, [Next]_vars PROVE Flowing' /\ OnLine'
  <1>1. CASE Reset
    <2>1. 0 \in DOMAIN Regs
      BY RegsAssumption
    <2>2. /\ mode' = 0 /\ line' = VBlank /\ start' = FALSE /\ st' = "IDLE" /\ phase' = 0 /\ y' = 0
          /\ overrun' = FALSE
      BY <1>1 DEF Reset
    <2>3. Programmed'
      BY <2>1, <2>2 DEF Programmed
    <2>4. line' \in 0 .. H + 1 /\ y' \in 0 .. H - 1
      BY <2>2, SizesAssumption DEF VBlank
    <2>5. start' \in BOOLEAN /\ ~start' /\ overrun' \in BOOLEAN
      BY <2>2
    <2>6. st' \in States /\ phase' \in 0 .. 6 /\ st' = "IDLE"
      BY <2>2 DEF States
    <2>7. Flowing'
      BY <2>3, <2>4, <2>5, <2>6 DEF Flowing, VBlank
    <2> QED
      BY <2>6, <2>7 DEF OnLine, busy
  <1>2. CASE Renderer /\ Port /\ Raster
    <2>1. /\ st' \in States /\ phase' \in 0 .. 6 /\ (st' \notin {"IDLE", "DONE"} => phase' <= 5)
          /\ \/ st' = "IDLE" /\ y' = y
             \/ st = "IDLE" /\ start /\ y' = line
             \/ busy /\ y' = y
      BY <1>2, Moves
    <2>2. overrun' = (overrun \/ (start /\ busy))
      BY <1>2 DEF Renderer, Beside, Overrun
    <2>3. y' \in 0 .. H - 1
      BY <2>1, SizesAssumption DEF Flowing, VBlank
    <2>4. CASE Hold
      BY <2>1, <2>2, <2>3, <2>4, SizesAssumption DEF Hold, Flowing, OnLine, Programmed, busy, VBlank
    <2>5. CASE Advance
      <3>1. /\ ~overrun /\ line \in 0 .. H /\ line' = line + 1 /\ start' = (line' < H) /\ mode' = mode
        BY <2>5, SizesAssumption DEF Advance, Flowing, VBlank
      <3>2. Flowing'
        BY <3>1, <2>1, <2>2, <2>3, SizesAssumption DEF Flowing, Programmed, VBlank, busy
      <3>3. line' < H => start'
        BY <3>1
      <3>4. OnLine'
        BY <3>1, <3>3, SizesAssumption DEF OnLine, Flowing
      <3> QED
        BY <3>2, <3>4
    <2>6. CASE NewFrame
      BY <2>1, <2>2, <2>3, <2>6, SizesAssumption DEF NewFrame, Flowing, OnLine, Programmed, busy, VBlank
    <2>7. CASE Program
      <3>1. ~start
        BY <2>7, SizesAssumption DEF Program, Flowing, VBlank
      <3>2. st' = "IDLE"
        BY <3>1, <2>1, <2>7 DEF Program, busy
      <3> QED
        BY <2>1, <2>2, <2>3, <2>7, <3>2, SizesAssumption DEF Program, Flowing, OnLine, Programmed, busy, VBlank
    <2> QED
      BY <1>2, <2>4, <2>5, <2>6, <2>7 DEF Raster
  <1>3. CASE UNCHANGED vars
    BY <1>3 DEF vars, raster, flow, Flowing, OnLine, Programmed, busy
  <1> QED
    BY <1>1, <1>2, <1>3 DEF Next

LEMMA ToldKept == ASSUME Flowing, OnLine, TornTold, [Next]_vars PROVE TornTold'
  <1>1. CASE Reset
    BY <1>1 DEF Reset, TornTold
  <1>2. CASE Renderer /\ Port /\ Raster
    <2>1. overrun' = (overrun \/ (start /\ busy))
      BY <1>2 DEF Renderer, Beside, Overrun
    <2>2. Torn \subseteq {H - 1} \/ overrun \/ (start /\ busy)
      BY SizesAssumption DEF Torn, OnLine, Flowing
    <2>3. torn' = {} \/ torn' = torn \cup Torn
      BY <1>2 DEF Raster, Hold, Advance, NewFrame, Program
    <2> QED
      BY <2>1, <2>2, <2>3 DEF TornTold
  <1>3. CASE UNCHANGED vars
    BY <1>3 DEF vars, raster, flow, TornTold, busy
  <1> QED
    BY <1>1, <1>2, <1>3 DEF Next

-----------------------------------------------------------------------------
(* The planes' registers.                                                  *)
LEMMA PlaneKept == ASSUME Flowing, PlaneOK, [Next]_vars PROVE PlaneOK'
  <1>1. CASE Reset
    <2>1. plane' = 0 /\ pl' = NoScroll /\ k' = 0
      BY <1>1 DEF Reset
    <2> QED
      BY <2>1 DEF PlaneOK, NoScroll, Scrolls
  <1>2. CASE Renderer
    <2>1. CASE Idle
      BY <2>1 DEF PlaneOK, planes, Idle
    <2>2. CASE Begin
      BY <2>2 DEF PlaneOK, planes, Begin
    <2>3. CASE Phase
      <3>1. plane' \in 0 .. 1 /\ pl' = pl /\ k' = k
        BY <2>3 DEF Phase, PlaneOK
      <3> QED
        BY <3>1 DEF PlaneOK
    <2>4. CASE Fill
      BY <2>4 DEF PlaneOK, planes, Fill
    <2>5. CASE Plane
      <3>1. plane' = plane /\ k' = 0
        BY <2>5 DEF Plane, planes
      <3> DEFINE rs  == Word(128)
                 cs  == Word(0)
                 ty  == (y + cs) % th
                 row == ty \div ts
                 of  == IF row_scroll_mode THEN Word(128 + 2 * (row % (page_y \div 2))) ELSE rs
                 xr  == of % tw
      <3>2. pl' = [rs16 |-> rs, cs16 |-> cs, ty |-> ty, xr |-> xr]
        BY <2>5 DEF Plane
      <3>3. rs \in Nat /\ cs \in Nat
        BY WordNat DEF Flowing, PlaneOK
      <3> HIDE DEF rs, cs
      <3>4. y + cs \in Int
        BY <3>3, SizesAssumption DEF Flowing
      <3>5. ty \in Int
        BY <3>4, Shapes, Remainder
      <3> HIDE DEF ty
      <3>6. ts \in Nat \ {0} /\ page_y \div 2 \in {16, 32}
        BY Shapes
      <3>7. row \in Int
        BY <3>5, <3>6, Quotient
      <3> HIDE DEF row
      <3>8. 128 + 2 * (row % (page_y \div 2)) \in 0 .. 254
        BY <3>6, <3>7
      <3>9. Word(128 + 2 * (row % (page_y \div 2))) \in Nat
        BY <3>8, WordNat DEF Flowing, PlaneOK
      <3>10. of \in Int
        BY <3>3, <3>9
      <3> HIDE DEF of
      <3>11. xr \in Int
        BY <3>10, Shapes, Remainder
      <3> HIDE DEF xr
      <3>12. pl' \in Scrolls
        BY <3>2, <3>3, <3>5, <3>11 DEF Scrolls
      <3> QED
        BY <3>1, <3>12 DEF PlaneOK
    <2>6. CASE Tile
      BY <2>6 DEF PlaneOK, planes, Tile
    <2>7. CASE TFetch
      BY <2>7 DEF PlaneOK, planes, TFetch
    <2>8. CASE Wait
      BY <2>8 DEF PlaneOK, planes, Wait
    <2>9. CASE TAnswer
      BY <2>9 DEF PlaneOK, planes, TAnswer
    <2>10. CASE TWrite
      <3>1. plane' = plane /\ pl' = pl /\ (k' = k \/ k' = k + 1)
        BY <2>10 DEF TWrite
      <3> QED
        BY <3>1 DEF PlaneOK
    <2>11. CASE SpInit
      BY <2>11 DEF PlaneOK, planes, SpInit
    <2>12. CASE SpRead
      BY <2>12, EntryRead DEF PlaneOK, planes
    <2>13. CASE SpFetch
      BY <2>13 DEF PlaneOK, planes, SpFetch
    <2>14. CASE SpAnswer
      BY <2>14 DEF PlaneOK, planes, SpAnswer
    <2>15. CASE SpWrite
      BY <2>15 DEF PlaneOK, planes, SpWrite
    <2>16. CASE SpNext
      BY <2>16 DEF PlaneOK, planes, SpNext
    <2>17. CASE RSetup
      <3>1. plane' = plane /\ k' = k /\ pl' = [NoScroll EXCEPT !.rs16 = Word(128), !.cs16 = Word(0)]
        BY <2>17 DEF RSetup
      <3>2. Word(128) \in Nat /\ Word(0) \in Nat
        BY WordNat DEF Flowing, PlaneOK
      <3>3. NoScroll \in Scrolls
        BY DEF NoScroll, Scrolls
      <3>4. pl' \in Scrolls
        BY <3>1, <3>2, <3>3 DEF Scrolls
      <3> QED
        BY <3>1, <3>4 DEF PlaneOK
    <2>18. CASE RA
      BY <2>18 DEF PlaneOK, planes, RA
    <2>19. CASE ROutside
      BY <2>19 DEF PlaneOK, planes, RPlotted, ROutside
    <2>20. CASE RHit
      BY <2>20 DEF PlaneOK, planes, RPlotted, RHit
    <2>21. CASE RMiss
      BY <2>21 DEF PlaneOK, planes, RMiss
    <2>22. CASE RFetch
      BY <2>22 DEF PlaneOK, planes, RFetch
    <2>23. CASE RAnswer
      BY <2>23 DEF PlaneOK, planes, RAnswer
    <2>24. CASE Done
      BY <2>24 DEF PlaneOK, planes, Done
    <2> QED
      BY <1>2, <2>1, <2>2, <2>3, <2>4, <2>5, <2>6, <2>7, <2>8, <2>9, <2>10, <2>11, <2>12, <2>13,
         <2>14, <2>15, <2>16, <2>17, <2>18, <2>19, <2>20, <2>21, <2>22, <2>23, <2>24 DEF Renderer
  <1>3. CASE UNCHANGED vars
    BY <1>3 DEF vars, planes, PlaneOK
  <1> QED
    BY <1>1, <1>2, <1>3 DEF Next

-----------------------------------------------------------------------------
(* The tile being drawn.                                                   *)
LEMMA UnitsOfTile == ASSUME tile \in Tiles PROVE nfetch \in {1, 2, 4} /\ nfetch * UnitPens = ts
  <1>1. tile.is8 \in BOOLEAN
    BY DEF Tiles
  <1> QED
    BY <1>1 DEF nfetch, UnitPens, ts, Tiles

LEMMA TileKept ==
  ASSUME Flowing, PlaneOK, Tiling, Spriting, Rotating, Renderer
  PROVE  tile' \in Tiles /\ fidx' \in 0 .. 7
  <1>1. CASE Idle
    BY <1>1 DEF Tiling, fetching, Idle
  <1>2. CASE Begin
    BY <1>2 DEF Tiling, fetching, Begin
  <1>3. CASE Phase
    BY <1>3 DEF Tiling, fetching, Phase
  <1>4. CASE Fill
    BY <1>4 DEF Tiling, fetching, Fill
  <1>5. CASE Plane
    BY <1>5 DEF Tiling, fetching, Plane
  <1>6. CASE Tile
    <2>1. fidx' = 0
      BY <1>6 DEF Tile
    <2> DEFINE col == (pl.xr \div ts + k) % page_x
               ty  == IF row_scroll_mode THEN pl.ty ELSE (y + Word(col_div(col))) % th
    <2>2. tile' = [Lookup(col, ty \div ts) EXCEPT !.py = ty % ts]
      BY <1>6 DEF Tile
    <2>3. col \in Int
      <3>1. pl.xr \in Int /\ ts \in Nat \ {0} /\ page_x \in Nat \ {0} /\ k \in Int
        BY Shapes DEF PlaneOK, Scrolls
      <3>2. pl.xr \div ts + k \in Int
        BY <3>1
      <3> QED
        BY <3>1, <3>2, Remainder
    <2> HIDE DEF col
    <2>4. ty \in Int
      <3>1. Word(col_div(col)) \in Nat
        BY <2>3, ColumnEven, WordNat DEF Flowing, PlaneOK
      <3>2. y + Word(col_div(col)) \in Int
        BY <3>1, SizesAssumption DEF Flowing
      <3>3. (y + Word(col_div(col))) % th \in Int
        BY <3>2, Shapes, Remainder
      <3> QED
        BY <3>3 DEF PlaneOK, Scrolls
    <2> HIDE DEF ty
    <2>5. ty \div ts \in Int /\ ty % ts \in 0 .. 15
      BY <2>4, Shapes
    <2>6. Lookup(col, ty \div ts) \in Tiles
      BY <2>3, <2>5, LookupIsTile DEF Flowing
    <2>7. tile' \in Tiles
      BY <2>2, <2>5, <2>6 DEF Tiles
    <2> QED
      BY <2>1, <2>7
  <1>7. CASE TFetch
    BY <1>7 DEF Tiling, fetching, TFetch
  <1>8. CASE Wait
    BY <1>8 DEF Tiling, fetching, Wait
  <1>9. CASE TAnswer
    <2>1. tile' = tile /\ (fidx' = fidx \/ (fidx + 1 # nfetch /\ fidx' = fidx + 1)) /\ st = "T_WAIT"
      BY <1>9 DEF TAnswer
    <2>2. fidx < nfetch /\ nfetch \in {1, 2, 4} /\ fidx \in 0 .. 7 /\ tile \in Tiles
      BY <2>1, UnitsOfTile DEF Tiling
    <2> QED
      BY <2>1, <2>2
  <1>10. CASE TWrite
    BY <1>10 DEF Tiling, fetching, TWrite
  <1>11. CASE SpInit
    BY <1>11 DEF Tiling, fetching, SpInit
  <1>12. CASE SpRead
    <2>1. tile' = tile /\ fidx' = 0
      BY <1>12, EntryRead
    <2> QED
      BY <2>1 DEF Tiling
  <1>13. CASE SpFetch
    BY <1>13 DEF Tiling, fetching, SpFetch
  <1>14. CASE SpAnswer
    BY <1>14 DEF Tiling, fetching, SpAnswer
  <1>15. CASE SpWrite
    <2>1. tile' = tile /\ (fidx' = fidx \/ (fidx + 1 # spr.n \div 8 /\ fidx' = fidx + 1)) /\ st = "SP_WRITE"
      BY <1>15 DEF SpWrite
    <2>2. spr.n \in {8, 16, 32, 64} /\ 8 * fidx < spr.n /\ fidx \in 0 .. 7 /\ tile \in Tiles
      BY <2>1 DEF Tiling, Spriting
    <2> QED
      BY <2>1, <2>2
  <1>16. CASE SpNext
    BY <1>16 DEF Tiling, fetching, SpNext
  <1>17. CASE RSetup
    BY <1>17 DEF Tiling, fetching, RSetup
  <1>18. CASE RA
    BY <1>18 DEF Tiling, fetching, RA
  <1>19. CASE ROutside
    BY <1>19 DEF RPlotted, Tiling, fetching, ROutside
  <1>20. CASE RHit
    BY <1>20 DEF RPlotted, Tiling, fetching, RHit
  <1>21. CASE RMiss
    <2>1. fidx' = fidx /\ tile' = [Lookup(rpix.x \div ts, rpix.y \div ts) EXCEPT !.py = rpix.y % ts]
      BY <1>21 DEF RMiss
    <2>2. rpix.x \in Int /\ rpix.y \in Int
      BY DEF Rotating
    <2>3. rpix.x \div ts \in Int /\ rpix.y \div ts \in Int /\ rpix.y % ts \in 0 .. 15
      BY <2>2, Shapes
    <2>4. Lookup(rpix.x \div ts, rpix.y \div ts) \in Tiles
      BY <2>3, LookupIsTile DEF Flowing
    <2>5. tile' \in Tiles
      BY <2>1, <2>3, <2>4 DEF Tiles
    <2> QED
      BY <2>1, <2>5 DEF Tiling
  <1>22. CASE RFetch
    BY <1>22 DEF Tiling, fetching, RFetch
  <1>23. CASE RAnswer
    BY <1>23 DEF Tiling, fetching, RAnswer
  <1>24. CASE Done
    BY <1>24 DEF Tiling, fetching, Done
  <1> QED
    BY <1>1, <1>2, <1>3, <1>4, <1>5, <1>6, <1>7, <1>8, <1>9, <1>10, <1>11, <1>12, <1>13, <1>14,
       <1>15, <1>16, <1>17, <1>18, <1>19, <1>20, <1>21, <1>22, <1>23, <1>24 DEF Renderer

(* Which actions lead to a place.                                          *)
LEMMA Places ==
  ASSUME Renderer
  PROVE  /\ st' \in {"T_FETCH", "T_WAIT", "T_WRITE"} => Tile \/ TFetch \/ TAnswer \/ Wait
         /\ st' \in {"SP_FETCH", "SP_WAIT", "SP_WRITE"} => SpRead \/ SpFetch \/ SpAnswer \/ SpWrite \/ Wait
         /\ st' \in {"R_A", "R_B", "R_FETCH", "R_WAIT"} =>
               RSetup \/ RA \/ ROutside \/ RHit \/ RMiss \/ RFetch \/ RAnswer \/ Wait
  <1>1. CASE Idle
    BY <1>1 DEF flow, Idle
  <1>2. CASE Begin
    BY <1>2 DEF Begin
  <1>3. CASE Phase
    BY <1>3 DEF Phase
  <1>4. CASE Fill
    BY <1>4 DEF Fill
  <1>5. CASE Plane
    BY <1>5 DEF To, Plane
  <1>6. CASE Tile
    BY <1>6 DEF To, Tile
  <1>7. CASE TFetch
    BY <1>7 DEF To, TFetch
  <1>8. CASE Wait
    BY <1>8, SMT
  <1>9. CASE TAnswer
    BY <1>9 DEF To, TAnswer
  <1>10. CASE TWrite
    BY <1>10 DEF To, TWrite
  <1>11. CASE SpInit
    BY <1>11 DEF To, SpInit
  <1>12. CASE SpRead
    BY <1>12, EntryRead
  <1>13. CASE SpFetch
    BY <1>13 DEF To, SpFetch
  <1>14. CASE SpAnswer
    BY <1>14 DEF To, SpAnswer
  <1>15. CASE SpWrite
    BY <1>15 DEF To, SpWrite
  <1>16. CASE SpNext
    BY <1>16 DEF To, SpNext
  <1>17. CASE RSetup
    BY <1>17 DEF To, RSetup
  <1>18. CASE RA
    BY <1>18 DEF To, RA
  <1>19. CASE ROutside
    BY <1>19 DEF RPlotted, To, ROutside
  <1>20. CASE RHit
    BY <1>20 DEF RPlotted, To, RHit
  <1>21. CASE RMiss
    BY <1>21 DEF To, RMiss
  <1>22. CASE RFetch
    BY <1>22 DEF To, RFetch
  <1>23. CASE RAnswer
    BY <1>23 DEF To, RAnswer
  <1>24. CASE Done
    BY <1>24 DEF To, Done
  <1> QED
    BY <1>1, <1>2, <1>3, <1>4, <1>5, <1>6, <1>7, <1>8, <1>9, <1>10, <1>11, <1>12, <1>13, <1>14,
       <1>15, <1>16, <1>17, <1>18, <1>19, <1>20, <1>21, <1>22, <1>23, <1>24 DEF Renderer

LEMMA TilingKept ==
  ASSUME Flowing, PlaneOK, Tiling, Spriting, Rotating, Answering, [Next]_vars
  PROVE  Tiling'
  <1>1. CASE Reset
    <2>1. st' = "IDLE" /\ tile' = NoTile /\ fidx' = 0
      BY <1>1 DEF Reset
    <2> QED
      BY <2>1 DEF Tiling, Tiles, NoTile
  <1>2. CASE Renderer /\ Port /\ Raster
    <2> USE <1>2
    <2>0. tile' \in Tiles /\ fidx' \in 0 .. 7
      BY TileKept
    <2>1. CASE st' \notin {"T_FETCH", "T_WAIT", "T_WRITE"}
      BY <2>0, <2>1 DEF Tiling
    <2>2. CASE st' \in {"T_FETCH", "T_WAIT", "T_WRITE"}
      <3>1. mode' = mode
        BY <2>2, Steady
      <3>2. s' = s
        BY <3>1 DEF s
      <3>3. ts' = ts
        BY <3>2 DEF ts, pts16
      <3>4. tile' = tile => nfetch' = nfetch /\ Pen' = Pen /\ UnitPens' = UnitPens
        BY <3>2 DEF nfetch, pts16, Pen, UnitPens
      <3>5. Tile \/ TFetch \/ TAnswer \/ Wait
        BY <2>2, Places
      <3>6. CASE Tile
        <4>1. st' = "T_FETCH" /\ fidx' = 0 /\ rowbuf' = <<>>
          BY <3>6 DEF Tile, To, Nothing
        <4>2. nfetch' \in {1, 2, 4} /\ UnitPens' \in {4, 8}
          BY <2>0 DEF nfetch, UnitPens, Tiles
        <4>3. <<>> \in Seq(Pen') /\ Len(<<>>) = 0
          BY EmptySeq
        <4>4. rowbuf' \in Seq(Pen') /\ Len(rowbuf') = 0
          BY <4>1, <4>3, Zenon
        <4>5. fidx' = 0
          BY <4>1
        <4>6. fidx' < nfetch'
          BY <4>2, <4>5
        <4>7. \A f, u \in Int : f = 0 => f * u = 0
          OBVIOUS
        <4>8. UnitPens' \in Int /\ fidx' \in Int
          BY <4>2, <4>5
        <4>9. fidx' * UnitPens' = 0
          BY <4>5, <4>7, <4>8, Zenon
        <4> QED
          BY <2>0, <4>1, <4>4, <4>6, <4>9 DEF Tiling
      <3>7. CASE TFetch
        <4>1. st = "T_FETCH" /\ st' = "T_WAIT" /\ tile' = tile /\ fidx' = fidx /\ rowbuf' = rowbuf
          BY <3>7 DEF TFetch, To, fetching
        <4> QED
          BY <2>0, <4>1, <3>4 DEF Tiling
      <3>8. CASE Wait
        <4>1. st' = st /\ tile' = tile /\ fidx' = fidx /\ rowbuf' = rowbuf
          BY <3>8 DEF Wait, flow, fetching
        <4> QED
          BY <2>0, <4>1, <3>3, <3>4 DEF Tiling
      <3>9. CASE TAnswer
        <4>1. st = "T_WAIT" /\ pat_ack /\ tile' = tile /\ rowbuf' = rowbuf \o Pens(pat_q)
          BY <3>9 DEF TAnswer
        <4>2. pat_q \in Units /\ tile \in Tiles
          BY <4>1 DEF Answering, Tiling
        <4>3. Pens(pat_q) \in Seq(Pen) /\ Len(Pens(pat_q)) = UnitPens
          BY <4>2, PensOfUnit
        <4>4. fidx < nfetch /\ rowbuf \in Seq(Pen) /\ Len(rowbuf) = fidx * UnitPens
          BY <4>1 DEF Tiling
        <4>5. rowbuf' \in Seq(Pen) /\ Len(rowbuf') = fidx * UnitPens + UnitPens
          BY <4>1, <4>3, <4>4, ConcatProperties
        <4>6. UnitPens \in {4, 8} /\ nfetch \in {1, 2, 4} /\ nfetch * UnitPens = ts /\ fidx \in 0 .. 7
          BY <4>2, UnitsOfTile DEF UnitPens, Tiling
        <4>7. Len(rowbuf') = (fidx + 1) * UnitPens
          BY <4>5, <4>6
        <4>8. CASE fidx + 1 = nfetch
          <5>1. st' = "T_WRITE" /\ fidx' = fidx
            BY <3>9, <4>8 DEF TAnswer, To
          <5> QED
            BY <5>1, <2>0, <3>3, <3>4, <4>1, <4>5, <4>6, <4>7, <4>8 DEF Tiling
        <4>9. CASE fidx + 1 # nfetch
          <5>1. st' = "T_FETCH" /\ fidx' = fidx + 1
            BY <3>9, <4>9 DEF TAnswer, To
          <5>2. fidx' < nfetch
            BY <5>1, <4>4, <4>6, <4>9
          <5> QED
            BY <5>1, <5>2, <2>0, <3>4, <4>1, <4>5, <4>7 DEF Tiling
        <4> QED
          BY <4>8, <4>9
      <3> QED
        BY <3>5, <3>6, <3>7, <3>8, <3>9
    <2> QED
      BY <2>1, <2>2
  <1>3. CASE UNCHANGED vars
    <2>1. s' = s
      BY <1>3 DEF vars, raster, s
    <2> QED
      BY <1>3, <2>1 DEF vars, flow, fetching, Tiling, Pen, UnitPens, nfetch, ts, pts16
  <1> QED
    BY <1>1, <1>2, <1>3 DEF Next

-----------------------------------------------------------------------------
(* The sprites.                                                            *)
LEMMA SpriteSizes == ASSUME NEW n \in 0 .. 3 PROVE 8 * 2^n \in {8, 16, 32, 64}
  <1>1. n = 0 \/ n = 1 \/ n = 2 \/ n = 3
    OBVIOUS
  <1>2. 8 * 2^n \in {8 * 2^0, 8 * 2^1, 8 * 2^2, 8 * 2^3}
    BY <1>1, Zenon
  <1> QED
    BY <1>2

LEMMA SpriteRead == ASSUME Flowing, Spriting, SpRead PROVE spr' \in Sprites /\ spr'.n \in {8, 16, 32, 64}
  <1> DEFINE e == s.sprites[si]
  <1>1. spr' = Sprite(e)
    BY DEF SpRead
  <1>2. e.sx \in Byte /\ e.sy \in Byte /\ e.attr \in Byte /\ e.name \in Byte
    <2>1. s.sprites \in [0 .. Entries - 1 -> [sx : Byte, sy : Byte, attr : Byte, name : Byte]]
      BY Settings DEF Widths, Flowing
    <2>2. e \in [sx : Byte, sy : Byte, attr : Byte, name : Byte]
      BY <2>1 DEF Spriting
    <2> QED
      BY <2>2
  <1>3. /\ s.sprite_aux_reg \in 0 .. 3 /\ s.sprite_bank \in Byte /\ s.namcond1_gfxbank \in 0 .. 3
        /\ s.sprite_color_fetch \in 0 .. 3
    BY Settings DEF Widths, Flowing
  <1>4. y \in Int
    BY SizesAssumption DEF Flowing
  <1> HIDE DEF e
  <1>5. e.attr \in Int /\ e.sx \in Int /\ e.sy \in Int /\ e.name \in Int /\ s.sprite_bank \in Int
    BY <1>2, <1>3 DEF Byte
  <1>6. /\ Slice(e.attr, 0, 0) \in Int /\ Slice(e.attr, 1, 1) \in Int /\ Slice(e.attr, 3, 2) \in 0 .. 3
    BY <1>5, FixedSlices
  <1>7. SpTop(e) \in Int
    <2>1. Slice(e.attr, 0, 0) * 256 + e.sy + 1 \in Int
      BY <1>5, <1>6
    <2> QED
      BY <2>1 DEF SpTop
  <1>8. SpSize(e) \in 0 .. 3 /\ SpFlips(e) \in 0 .. 3
    BY <1>3, <1>6 DEF SpSize, SpFlips
  <1>9. SpSide(e) \in {8, 16, 32, 64}
    BY <1>8, SpriteSizes DEF SpSide
  <1>10. SpRow(e) \in Int
    BY <1>4, <1>7, <1>9 DEF SpRow
  <1>11. SpLeft(e) \in Int
    BY <1>5, <1>6, <1>9 DEF SpLeft
  <1>12. 4^SpSize(e) \in Nat \ {0}
    <2>1. SpSize(e) \in 0 .. 7
      BY <1>8
    <2> QED
      BY <2>1, PowerOfFour
  <1>13. SpName(e) \in Int
    <2>1. s.sprite_bank \div 4^SpSize(e) \in Int
      BY <1>5, <1>12, Quotient
    <2> QED
      BY <2>1, <1>5 DEF SpName
  <1> DEFINE code == SpName(e) + s.namcond1_gfxbank * (65536 \div 4^SpSize(e))
             row  == IF SpHit(e) THEN SpRow(e) ELSE 0
  <1>14. code \in Int
    <2>1. 65536 \div 4^SpSize(e) \in Int
      BY <1>12, Quotient
    <2>2. ASSUME NEW q \in Int PROVE SpName(e) + s.namcond1_gfxbank * q \in Int
      BY <1>3, <1>13
    <2> QED
      BY <2>1, <2>2
  <1>15. SpColour(e) \in 0 .. 15
    <2>1. CASE s.sprite_color_fetch = 0
      BY <2>1, <1>2 DEF Byte, SpColour
    <2>2. CASE s.sprite_color_fetch # 0
      <3>1. s.sprite_color_fetch + SpSize(e) - 1 \in 0 .. 7
        BY <2>2, <1>3, <1>8
      <3>2. 4^(s.sprite_color_fetch + SpSize(e) - 1) \in Nat \ {0}
        BY <3>1, PowerOfFour
      <3>3. SpName(e) \div 4^(s.sprite_color_fetch + SpSize(e) - 1) \in Int
        BY <3>2, <1>13, Quotient
      <3>4. Slice(SpName(e) \div 4^(s.sprite_color_fetch + SpSize(e) - 1), 3, 0) \in 0 .. 15
        BY <3>3, FixedSlices
      <3> QED
        BY <2>2, <3>4 DEF SpColour
    <2> QED
      BY <2>1, <2>2
  <1>16. row \in Int
    BY <1>10
  <1>17. Sprite(e) = [size |-> SpSize(e), n |-> SpSide(e), flipx |-> SpFlips(e) >= 2, row |-> row, code |-> code,
                      colour |-> SpColour(e), xpos |-> SpLeft(e)]
    BY DEF Sprite
  <1> HIDE DEF row, code
  <1>18. Sprite(e) \in Sprites /\ Sprite(e).n = SpSide(e)
    BY <1>8, <1>9, <1>11, <1>14, <1>15, <1>16, <1>17 DEF Sprites
  <1> QED
    BY <1>1, <1>9, <1>18

LEMMA SpriteKept == ASSUME Flowing, Spriting, Renderer PROVE si' \in 0 .. Entries - 1 /\ spr' \in Sprites
  <1>1. CASE Idle
    BY <1>1 DEF Spriting, sprites, Idle
  <1>2. CASE Begin
    BY <1>2 DEF Spriting, sprites, Begin
  <1>3. CASE Phase
    BY <1>3 DEF Spriting, sprites, Phase
  <1>4. CASE Fill
    BY <1>4 DEF Spriting, sprites, Fill
  <1>5. CASE Plane
    BY <1>5 DEF Spriting, sprites, Plane
  <1>6. CASE Tile
    BY <1>6 DEF Spriting, sprites, Tile
  <1>7. CASE TFetch
    BY <1>7 DEF Spriting, sprites, TFetch
  <1>8. CASE Wait
    BY <1>8 DEF Spriting, sprites, Wait
  <1>9. CASE TAnswer
    BY <1>9 DEF Spriting, sprites, TAnswer
  <1>10. CASE TWrite
    BY <1>10 DEF Spriting, sprites, TWrite
  <1>11. CASE SpInit
    <2>1. spr' = spr /\ (si' = si \/ si' = Entries - 1)
      BY <1>11 DEF SpInit
    <2> QED
      BY <2>1, SizesAssumption DEF Spriting
  <1>12. CASE SpRead
    <2>1. si' = si
      BY <1>12, EntryRead
    <2> QED
      BY <1>12, <2>1, SpriteRead DEF Spriting
  <1>13. CASE SpFetch
    BY <1>13 DEF Spriting, sprites, SpFetch
  <1>14. CASE SpAnswer
    BY <1>14 DEF Spriting, sprites, SpAnswer
  <1>15. CASE SpWrite
    BY <1>15 DEF Spriting, sprites, SpWrite
  <1>16. CASE SpNext
    <2>1. spr' = spr /\ (si' = si \/ (si # 0 /\ si' = si - 1))
      BY <1>16 DEF SpNext
    <2> QED
      BY <2>1, SizesAssumption DEF Spriting
  <1>17. CASE RSetup
    BY <1>17 DEF Spriting, sprites, RSetup
  <1>18. CASE RA
    BY <1>18 DEF Spriting, sprites, RA
  <1>19. CASE ROutside
    BY <1>19 DEF RPlotted, Spriting, sprites, ROutside
  <1>20. CASE RHit
    BY <1>20 DEF RPlotted, Spriting, sprites, RHit
  <1>21. CASE RMiss
    BY <1>21 DEF Spriting, sprites, RMiss
  <1>22. CASE RFetch
    BY <1>22 DEF Spriting, sprites, RFetch
  <1>23. CASE RAnswer
    BY <1>23 DEF Spriting, sprites, RAnswer
  <1>24. CASE Done
    BY <1>24 DEF Spriting, sprites, Done
  <1> QED
    BY <1>1, <1>2, <1>3, <1>4, <1>5, <1>6, <1>7, <1>8, <1>9, <1>10, <1>11, <1>12, <1>13, <1>14,
       <1>15, <1>16, <1>17, <1>18, <1>19, <1>20, <1>21, <1>22, <1>23, <1>24 DEF Renderer

LEMMA SpritingKept ==
  ASSUME Flowing, Tiling, Spriting, Answering, [Next]_vars
  PROVE  Spriting'
  <1>1. CASE Reset
    <2>1. st' = "IDLE" /\ si' = 0 /\ spr' = NoSprite
      BY <1>1 DEF Reset
    <2> QED
      BY <2>1, SizesAssumption DEF Spriting, Sprites, NoSprite
  <1>2. CASE Renderer /\ Port /\ Raster
    <2> USE <1>2
    <2>0. si' \in 0 .. Entries - 1 /\ spr' \in Sprites
      BY SpriteKept
    <2>1. CASE st' \notin {"SP_FETCH", "SP_WAIT", "SP_WRITE"}
      BY <2>0, <2>1 DEF Spriting
    <2>2. CASE st' \in {"SP_FETCH", "SP_WAIT", "SP_WRITE"}
      <3>1. SpRead \/ SpFetch \/ SpAnswer \/ SpWrite \/ Wait
        BY <2>2, Places
      <3>2. CASE SpRead
        <4>1. fidx' = 0 /\ st' \in {"SP_FETCH", "SP_NEXT"}
          BY <3>2, EntryRead
        <4>2. spr'.n \in {8, 16, 32, 64}
          BY <3>2, SpriteRead
        <4> QED
          BY <2>0, <4>1, <4>2 DEF Spriting
      <3>3. CASE SpFetch
        <4>1. st = "SP_FETCH" /\ st' = "SP_WAIT" /\ spr' = spr /\ fidx' = fidx
          BY <3>3 DEF SpFetch, To, fetching, sprites
        <4> QED
          BY <2>0, <4>1 DEF Spriting
      <3>4. CASE SpAnswer
        <4>1. st = "SP_WAIT" /\ pat_ack /\ st' = "SP_WRITE" /\ spr' = spr /\ fidx' = fidx /\ rowbuf' = Nibbles(pat_q)
          BY <3>4 DEF SpAnswer, To, sprites
        <4>2. Nibbles(pat_q) \in Seq(0 .. 15) /\ Len(Nibbles(pat_q)) = 8
          BY <4>1, NibblesOfUnit DEF Answering
        <4> QED
          BY <2>0, <4>1, <4>2 DEF Spriting
      <3>5. CASE SpWrite
        <4>1. /\ st = "SP_WRITE" /\ spr' = spr
              /\ st' = "SP_NEXT" \/ (st' = "SP_FETCH" /\ fidx' = fidx + 1 /\ fidx + 1 # spr.n \div 8)
          BY <3>5 DEF SpWrite, To, sprites
        <4>2. spr.n \in {8, 16, 32, 64} /\ 8 * fidx < spr.n /\ fidx \in 0 .. 7
          BY <4>1 DEF Spriting, Tiling
        <4>3. fidx + 1 # spr.n \div 8 => 8 * (fidx + 1) < spr.n
          BY <4>2
        <4> QED
          BY <2>0, <4>1, <4>2, <4>3 DEF Spriting
      <3>6. CASE Wait
        <4>1. st' = st /\ spr' = spr /\ fidx' = fidx /\ rowbuf' = rowbuf
          BY <3>6 DEF Wait, flow, fetching, sprites
        <4> QED
          BY <2>0, <4>1 DEF Spriting
      <3> QED
        BY <3>1, <3>2, <3>3, <3>4, <3>5, <3>6
    <2> QED
      BY <2>1, <2>2
  <1>3. CASE UNCHANGED vars
    BY <1>3 DEF vars, flow, fetching, sprites, Spriting
  <1> QED
    BY <1>1, <1>2, <1>3 DEF Next

-----------------------------------------------------------------------------
(* The rotation.                                                           *)
LEMMA ProductInt == ASSUME NEW a \in Int, NEW b \in Int PROVE a * b \in Int
  OBVIOUS

LEMMA RowOffsetInt == ASSUME tile \in Tiles, NEW p \in Int, NEW n \in Int, n \div 2 \in Int PROVE RowOffset(p, n) \in Int
  <1>1. (p \div 8) * (n \div 2) \in Int
    BY ProductInt
  <1>2. (p % 8) * (IF tile.is8 THEN 2 ELSE 1) \in Int
    OBVIOUS
  <1> QED
    BY <1>1, <1>2 DEF RowOffset

LEMMA RotationStart == ASSUME Flowing, PlaneOK, RSetup PROVE roz' \in [x : Int, y : Int]
  <1> DEFINE start0(v) == IF s.v_div_size = 0 THEN v % 4096 ELSE IF v % 512 # 0 THEN (v % 4096) - 512 ELSE 0
             rx0 == s.ax + (start0(Word(128)) % 65536) * One + s.dxy * y
             ry0 == s.ay + (start0(Word(0)) % 65536) * One + s.dy * y
  <1>1. roz' = [x |-> rx0 % Wrap, y |-> ry0 % Wrap]
    BY DEF RSetup
  <1>2. \A v \in Nat : start0(v) % 65536 \in Int
    <2> SUFFICES ASSUME NEW v \in Nat PROVE start0(v) % 65536 \in Int
      OBVIOUS
    <2>1. v % 4096 \in Int
      OBVIOUS
    <2>2. start0(v) \in Int
      BY <2>1
    <2> HIDE DEF start0
    <2> QED
      BY <2>2
  <1>3. Word(128) \in Nat /\ Word(0) \in Nat
    BY WordNat DEF Flowing, PlaneOK
  <1>4. start0(Word(128)) % 65536 \in Int /\ start0(Word(0)) % 65536 \in Int
    BY <1>2, <1>3
  <1> HIDE DEF start0
  <1>5. One \in Int /\ Wrap \in Nat \ {0} /\ y \in Int
    BY OneExact, SizesAssumption DEF Flowing
  <1>6. s.ax \in Int /\ s.ay \in Int /\ s.dxy \in Int /\ s.dy \in Int
    <2>1. \A v \in {s.ax, s.ay, s.dx, s.dy, s.dxy, s.dyx} : v \in 0 .. Wrap - 1
      BY Settings, Zenon DEF Widths, Flowing
    <2>2. s.ax \in 0 .. Wrap - 1 /\ s.ay \in 0 .. Wrap - 1 /\ s.dxy \in 0 .. Wrap - 1 /\ s.dy \in 0 .. Wrap - 1
      BY <2>1
    <2> QED
      BY <2>2, <1>5
  <1>7. /\ (start0(Word(128)) % 65536) * One \in Int /\ (start0(Word(0)) % 65536) * One \in Int
        /\ s.dxy * y \in Int /\ s.dy * y \in Int
    BY <1>4, <1>5, <1>6, ProductInt
  <1>8. rx0 \in Int /\ ry0 \in Int
    BY <1>6, <1>7
  <1> HIDE DEF rx0, ry0
  <1>9. rx0 % Wrap \in Int /\ ry0 % Wrap \in Int
    BY <1>5, <1>8, Remainder
  <1> QED
    BY <1>1, <1>9

LEMMA RotationStep ==
  ASSUME Flowing, Rotating, RA
  PROVE  roz' \in [x : Int, y : Int] /\ rpix' \in [x : Int, y : Int, inside : BOOLEAN]
  <1>1. roz.x \in Int /\ roz.y \in Int
    BY DEF Rotating
  <1>2. One \in Nat \ {0} /\ Wrap \in Nat \ {0}
    BY OneExact
  <1>3. s.dx \in Int /\ s.dyx \in Int
    <2>1. \A v \in {s.ax, s.ay, s.dx, s.dy, s.dxy, s.dyx} : v \in 0 .. Wrap - 1
      BY Settings, Zenon DEF Widths, Flowing
    <2>2. s.dx \in 0 .. Wrap - 1 /\ s.dyx \in 0 .. Wrap - 1
      BY <2>1
    <2> QED
      BY <2>2, <1>2
  <1>4. roz.x \div One \in Int /\ roz.y \div One \in Int
    BY <1>1, <1>2, Quotient
  <1>5. (roz.x \div One) % tw \in Int /\ (roz.y \div One) % th \in Int
    BY <1>4, Shapes, Remainder
  <1>6. roz.x + s.dx \in Int /\ roz.y + s.dyx \in Int
    BY <1>1, <1>3
  <1>7. (roz.x + s.dx) % Wrap \in Int /\ (roz.y + s.dyx) % Wrap \in Int
    BY <1>2, <1>6, Remainder
  <1> DEFINE inside == s.roz_wrap_disable = 0 \/ (roz.x < tw * One /\ roz.y < th * One)
  <1>8. /\ rpix' = [x |-> (roz.x \div One) % tw, y |-> (roz.y \div One) % th, inside |-> inside]
        /\ roz' = [x |-> (roz.x + s.dx) % Wrap, y |-> (roz.y + s.dyx) % Wrap]
    BY DEF RA
  <1>9. inside \in BOOLEAN
    OBVIOUS
  <1> HIDE DEF inside
  <1> QED
    BY <1>5, <1>7, <1>8, <1>9

LEMMA RotatingKept == ASSUME Flowing, PlaneOK, Tiling, Rotating, [Next]_vars PROVE Rotating'
  <1>1. CASE Reset
    <2>1. /\ st' = "IDLE" /\ rx' = 0 /\ roz' = NoCoord /\ rpix' = NoPixel /\ roz_off' = 0
          /\ tile_valid' = FALSE /\ roz_fetch' = FALSE
      BY <1>1 DEF Reset
    <2>2. NoCoord \in [x : Int, y : Int] /\ NoPixel \in [x : Int, y : Int, inside : BOOLEAN]
      BY DEF NoCoord, NoPixel
    <2>3. tile_valid' \in BOOLEAN /\ roz_fetch' \in BOOLEAN
      BY <2>1
    <2>4. rx' \in 0 .. W /\ roz_off' \in Int /\ st' = "IDLE"
      BY <2>1, SizesAssumption
    <2>5. roz' \in [x : Int, y : Int] /\ rpix' \in [x : Int, y : Int, inside : BOOLEAN]
      BY <2>1, <2>2
    <2> QED
      BY <2>3, <2>4, <2>5 DEF Rotating
  <1>2. CASE Renderer
    <2>1. CASE Idle
      BY <2>1 DEF Rotating, rotation, request, flow, To, Idle
    <2>2. CASE Begin
      BY <2>2 DEF Rotating, rotation, request, flow, To, Begin
    <2>3. CASE Phase
      BY <2>3 DEF Rotating, rotation, request, flow, To, Phase
    <2>4. CASE Fill
      BY <2>4 DEF Rotating, rotation, request, flow, To, Fill
    <2>5. CASE Plane
      BY <2>5 DEF Rotating, rotation, request, flow, To, Plane
    <2>6. CASE Tile
      BY <2>6 DEF Rotating, rotation, request, flow, To, Tile
    <2>7. CASE TFetch
      BY <2>7 DEF Rotating, rotation, To, TFetch
    <2>8. CASE Wait
      BY <2>8 DEF Rotating, rotation, request, flow, To, Wait
    <2>9. CASE TAnswer
      BY <2>9 DEF Rotating, rotation, To, TAnswer
    <2>10. CASE TWrite
      BY <2>10 DEF Rotating, rotation, request, flow, To, TWrite
    <2>11. CASE SpInit
      BY <2>11 DEF Rotating, rotation, request, flow, To, SpInit
    <2>12. CASE SpRead
      BY <2>12, EntryRead DEF Rotating, rotation, request
    <2>13. CASE SpFetch
      BY <2>13 DEF Rotating, rotation, To, SpFetch
    <2>14. CASE SpAnswer
      BY <2>14 DEF Rotating, rotation, To, SpAnswer
    <2>15. CASE SpWrite
      BY <2>15 DEF Rotating, rotation, request, flow, To, SpWrite
    <2>16. CASE SpNext
      BY <2>16 DEF Rotating, rotation, request, flow, To, SpNext
    <2>17. CASE RSetup
      <3>1. rx' = 0 /\ st' = "R_A" /\ rpix' = rpix /\ roz_off' = roz_off /\ roz_fetch' = roz_fetch /\ tile_valid' = FALSE
        BY <2>17 DEF RSetup, To, request
      <3>2. roz' \in [x : Int, y : Int]
        BY <2>17, RotationStart
      <3>3. rx' = 0
        BY <3>1
      <3>4. rx' \in 0 .. W /\ rx' < W
        BY <3>3, SizesAssumption
      <3>5. tile_valid' \in BOOLEAN
        BY <3>1
      <3> QED
        BY <3>1, <3>2, <3>4, <3>5 DEF Rotating
    <2>18. CASE RA
      <3>1. /\ rx' = rx /\ st = "R_A" /\ roz_off' = roz_off /\ roz_fetch' = roz_fetch /\ tile_valid' = tile_valid
        BY <2>18 DEF RA, request
      <3> QED
        BY <3>1, <2>18, RotationStep DEF Rotating
    <2>19. CASE ROutside
      <3>1. /\ rx' = rx + 1 /\ st = "R_B" /\ st' = (IF rx = W - 1 THEN "PHASE" ELSE "R_A")
            /\ roz' = roz /\ rpix' = rpix /\ tile_valid' = tile_valid /\ roz_fetch' = roz_fetch /\ roz_off' = roz_off
        BY <2>19 DEF RPlotted, ROutside, RPlotted, LastPixel, To, request
      <3>2. rx \in 0 .. W - 1
        BY <3>1, SizesAssumption DEF Rotating
      <3> QED
        BY <3>1, <3>2, SizesAssumption DEF Rotating
    <2>20. CASE RHit
      <3>1. /\ rx' = rx + 1 /\ st = "R_B" /\ st' = (IF rx = W - 1 THEN "PHASE" ELSE "R_A")
            /\ roz' = roz /\ rpix' = rpix /\ tile_valid' = tile_valid /\ roz_fetch' = roz_fetch /\ roz_off' = roz_off
        BY <2>20 DEF RPlotted, RHit, RPlotted, LastPixel, To, request
      <3>2. rx \in 0 .. W - 1
        BY <3>1, SizesAssumption DEF Rotating
      <3> QED
        BY <3>1, <3>2, SizesAssumption DEF Rotating
    <2>21. CASE RMiss
      BY <2>21 DEF Rotating, rotation, request, flow, To, RMiss
    <2>22. CASE RFetch
      <3>1. /\ rx' = rx /\ st = "R_FETCH" /\ roz' = roz /\ rpix' = rpix /\ tile_valid' = tile_valid /\ roz_fetch' = TRUE
        BY <2>22 DEF RFetch
      <3> DEFINE units == 8 * nfetch * (IF pts16 THEN 2 ELSE 1)
                 off   == RowOffset(Flip(tile.py, tile.flipy), units)
      <3>2. roz_off' = off \/ roz_off' = 0
        BY <2>22 DEF RFetch
      <3>3. Flip(tile.py, tile.flipy) \in Int
        BY FlipInt DEF Tiling, Tiles
      <3>4. units \in {8, 16, 32, 64}
        BY UnitsOfTile DEF Tiling
      <3> HIDE DEF units
      <3>5. units \div 2 \in Int
        BY <3>4
      <3>6. off \in Int
      BY <3>3, <3>4, <3>5, RowOffsetInt DEF Tiling
    <3> HIDE DEF off
      <3> QED
        BY <3>1, <3>2, <3>6 DEF Rotating
    <2>23. CASE RAnswer
      BY <2>23 DEF Rotating, rotation, request, flow, To, RAnswer
    <2>24. CASE Done
      BY <2>24 DEF Rotating, rotation, request, flow, To, Done
    <2> QED
      BY <1>2, <2>1, <2>2, <2>3, <2>4, <2>5, <2>6, <2>7, <2>8, <2>9, <2>10, <2>11, <2>12, <2>13,
         <2>14, <2>15, <2>16, <2>17, <2>18, <2>19, <2>20, <2>21, <2>22, <2>23, <2>24 DEF Renderer
  <1>3. CASE UNCHANGED vars
    BY <1>3 DEF vars, flow, rotation, request, Rotating
  <1> QED
    BY <1>1, <1>2, <1>3 DEF Next

-----------------------------------------------------------------------------
(* The line buffer.                                                        *)
LEMMA TileDrawn == ASSUME Flowing, Tiling, LineBuffers, TWrite PROVE LineBuffers'
  <1> DEFINE at(x)  == x - (k * ts - (pl.xr % ts))
             new(x) == IF at(x) \in 0 .. ts - 1 THEN Plotted(rowbuf[1 + Flip(at(x), tile.flipx)]) ELSE {}
             drawn  == [x \in X |-> new(x)]
  <1>1. rowbuf \in Seq(Pen) /\ Len(rowbuf) = ts /\ tile \in Tiles
    BY DEF TWrite, Tiling
  <1>2. ASSUME NEW x \in X PROVE new(x) \in SUBSET Byte
    <2>1. ASSUME NEW a \in 0 .. ts - 1 PROVE Plotted(rowbuf[1 + Flip(a, tile.flipx)]) \in SUBSET Byte
      <3>1. Flip(a, tile.flipx) \in 0 .. ts - 1
        BY <1>1, FlipInTile DEF Tiles
      <3>2. 1 + Flip(a, tile.flipx) \in 1 .. Len(rowbuf)
        BY <1>1, <3>1, Shapes
      <3>3. rowbuf[1 + Flip(a, tile.flipx)] \in Pen
        BY <1>1, <3>2, ElementOfSeq
      <3> QED
        BY <1>1, <3>3, PlottedByte
    <2> HIDE DEF at
    <2> QED
      BY <2>1
  <1>3. lbuf' = [lbuf EXCEPT ![y % 2] = [x \in X |-> IF new(x) = {} THEN lbuf[y % 2][x] ELSE Only(new(x))]]
    BY DEF TWrite, Draw
  <1> HIDE DEF new
  <1>4. drawn \in [X -> SUBSET Byte]
    BY <1>2
  <1>5. lbuf' = [lbuf EXCEPT ![y % 2] = [x \in X |-> IF drawn[x] = {} THEN lbuf[y % 2][x] ELSE Only(drawn[x])]]
    BY <1>3
  <1> HIDE DEF drawn
  <1>6. y \in Nat
    BY SizesAssumption DEF Flowing
  <1> QED
    BY <1>4, <1>5, <1>6, DrawnBytes

LEMMA SpriteDrawn == ASSUME Flowing, Spriting, LineBuffers, SpWrite PROVE LineBuffers'
  <1> DEFINE at(x)  == (IF spr.flipx THEN spr.n - 1 - (x - spr.xpos) ELSE x - spr.xpos) - 8 * fidx
             new(x) == IF at(x) \in 0 .. 7 /\ rowbuf[1 + at(x)] # 0 THEN {spr.colour * 16 + rowbuf[1 + at(x)]} ELSE {}
             drawn  == [x \in X |-> new(x)]
  <1>1. rowbuf \in Seq(0 .. 15) /\ Len(rowbuf) = 8 /\ spr.colour \in 0 .. 15
    BY DEF SpWrite, Spriting, Sprites
  <1>2. ASSUME NEW x \in X PROVE new(x) \in SUBSET Byte
    <2>1. ASSUME NEW a \in 0 .. 7 PROVE spr.colour * 16 + rowbuf[1 + a] \in Byte
      <3>1. 1 + a \in 1 .. Len(rowbuf)
        BY <1>1
      <3>2. rowbuf[1 + a] \in 0 .. 15
        BY <1>1, <3>1, ElementOfSeq
      <3> DEFINE colour == spr.colour
                 pen    == rowbuf[1 + a]
      <3>3. colour \in 0 .. 15 /\ pen \in 0 .. 15
        BY <1>1, <3>2
      <3> HIDE DEF colour, pen
      <3>4. colour * 16 + pen \in Byte
        BY <3>3 DEF Byte
      <3> QED
        BY <3>4 DEF colour, pen
    <2> HIDE DEF at
    <2> QED
      BY <2>1
  <1>3. lbuf' = [lbuf EXCEPT ![y % 2] = [x \in X |-> IF new(x) = {} THEN lbuf[y % 2][x] ELSE Only(new(x))]]
    BY DEF SpWrite, Draw
  <1> HIDE DEF new
  <1>4. drawn \in [X -> SUBSET Byte]
    BY <1>2
  <1>5. lbuf' = [lbuf EXCEPT ![y % 2] = [x \in X |-> IF drawn[x] = {} THEN lbuf[y % 2][x] ELSE Only(drawn[x])]]
    BY <1>3
  <1> HIDE DEF drawn
  <1>6. y \in Nat
    BY SizesAssumption DEF Flowing
  <1> QED
    BY <1>4, <1>5, <1>6, DrawnBytes

(* One pixel of a rotated plane.                                           *)
LEMMA PixelDrawn == ASSUME Flowing, LineBuffers, NEW vals \in SUBSET Byte, OnRx(vals) PROVE LineBuffers'
  <1> DEFINE drawn == [x \in X |-> IF x = rx THEN vals ELSE {}]
  <1>1. drawn \in [X -> SUBSET Byte]
    OBVIOUS
  <1>2. lbuf' = [lbuf EXCEPT ![y % 2] = [x \in X |-> IF drawn[x] = {} THEN lbuf[y % 2][x] ELSE Only(drawn[x])]]
    BY DEF OnRx, Draw
  <1> HIDE DEF drawn
  <1>3. y \in Nat
    BY SizesAssumption DEF Flowing
  <1> QED
    BY <1>1, <1>2, <1>3, DrawnBytes

LEMMA TexelPlotted ==
  ASSUME Flowing, Tiling, Rotating, Answering, RHit
  PROVE  \E vals \in SUBSET Byte : OnRx(vals)
  <1> DEFINE px == Flip(rpix.x % ts, tile.flipx)
             py == Flip(rpix.y % ts, tile.flipy)
             unit == IF tile.is8 THEN 32 * (py \div 8) + 16 * (px \div 8) + 2 * (py % 8) + (px % 8) \div 4
                     ELSE 16 * (py \div 8) + 8 * (px \div 8) + (py % 8)
             at  == IF pts16 THEN unit ELSE unit % 16
             q   == tbuf[at]
             pen == IF tile.is8 THEN q[1 + (px % 4)] ELSE Nibbles(q)[1 + (px % 8)]
  <1>1. OnRx(Plotted(pen))
    BY DEF RHit
  <1>2. tile \in Tiles /\ rpix.x \in Int /\ rpix.y \in Int
    BY DEF Tiling, Rotating
  <1>3. rpix.x % ts \in 0 .. ts - 1 /\ rpix.y % ts \in 0 .. ts - 1
    BY <1>2, Shapes
  <1>4. px \in 0 .. ts - 1 /\ py \in 0 .. ts - 1
    BY <1>2, <1>3, FlipInTile DEF Tiles
  <1> HIDE DEF px, py
  <1>5. px \in 0 .. 15 /\ py \in 0 .. 15
    BY <1>4, Shapes
  <1>6. unit \in 0 .. 63
    BY <1>5
  <1> HIDE DEF unit
  <1>7. at \in 0 .. 63
    BY <1>6
  <1> HIDE DEF at
  <1>8. q \in Units
    BY <1>7 DEF Answering
  <1> HIDE DEF q
  <1>9. q[1 + (px % 4)] \in Byte
    <2>1. 1 + (px % 4) \in 1 .. 4
      BY <1>5
    <2> QED
      BY <1>8, <2>1 DEF Units
  <1>10. Nibbles(q)[1 + (px % 8)] \in 0 .. 15
    <2>1. 1 + (px % 8) \in 1 .. 8
      BY <1>5
    <2> QED
      BY <1>8, <2>1, NibblesOfUnit
  <1>11. pen \in Pen
    BY <1>9, <1>10 DEF Pen
  <1> HIDE DEF pen
  <1> QED
    BY <1>1, <1>2, <1>11, PlottedByte

LEMMA LinesKept ==
  ASSUME Flowing, Tiling, Spriting, Rotating, Answering, LineBuffers, [Next]_vars
  PROVE  LineBuffers'
  <1>1. CASE Reset
    <2>1. lbuf' = [n \in 0 .. 1 |-> Blank]
      BY <1>1 DEF Reset
    <2>2. Blank \in [X -> Byte]
      BY DEF Blank, Unknown, Byte
    <2> QED
      BY <2>1, <2>2 DEF LineBuffers
  <1>2. CASE Renderer
    <2>1. CASE Idle
      BY <2>1 DEF LineBuffers, X, Idle
    <2>2. CASE Begin
      BY <2>2 DEF LineBuffers, X, Begin
    <2>3. CASE Phase
      BY <2>3 DEF LineBuffers, X, Phase
    <2>4. CASE Fill
      <3> DEFINE vals  == {IF phase = 1 THEN s.border_color ELSE 0}
                 drawn == [x \in X |-> vals]
      <3>1. vals \in SUBSET Byte
        <4>1. s.border_color \in Byte
          BY Settings DEF Widths, Flowing
        <4> QED
          BY <4>1 DEF Byte
      <3>2. lbuf' = [lbuf EXCEPT ![y % 2] = [x \in X |-> IF vals = {} THEN lbuf[y % 2][x] ELSE Only(vals)]]
        BY <2>4 DEF Fill, Draw
      <3> HIDE DEF vals
      <3>3. drawn \in [X -> SUBSET Byte]
        BY <3>1
      <3>4. lbuf' = [lbuf EXCEPT ![y % 2] = [x \in X |-> IF drawn[x] = {} THEN lbuf[y % 2][x] ELSE Only(drawn[x])]]
        BY <3>2
      <3> HIDE DEF drawn
      <3>5. y \in Nat
        BY SizesAssumption DEF Flowing
      <3> QED
        BY <3>3, <3>4, <3>5, DrawnBytes
    <2>5. CASE Plane
      BY <2>5 DEF LineBuffers, X, Plane
    <2>6. CASE Tile
      BY <2>6 DEF LineBuffers, X, Tile
    <2>7. CASE TFetch
      BY <2>7 DEF LineBuffers, X, TFetch
    <2>8. CASE Wait
      BY <2>8 DEF LineBuffers, X, Wait
    <2>9. CASE TAnswer
      BY <2>9 DEF LineBuffers, X, TAnswer
    <2>10. CASE TWrite
      BY <2>10, TileDrawn
    <2>11. CASE SpInit
      BY <2>11 DEF LineBuffers, X, SpInit
    <2>12. CASE SpRead
      BY <2>12, EntryRead DEF LineBuffers, X
    <2>13. CASE SpFetch
      BY <2>13 DEF LineBuffers, X, SpFetch
    <2>14. CASE SpAnswer
      BY <2>14 DEF LineBuffers, X, SpAnswer
    <2>15. CASE SpWrite
      BY <2>15, SpriteDrawn
    <2>16. CASE SpNext
      BY <2>16 DEF LineBuffers, X, SpNext
    <2>17. CASE RSetup
      BY <2>17 DEF LineBuffers, X, RSetup
    <2>18. CASE RA
      BY <2>18 DEF LineBuffers, X, RA
    <2>19. CASE ROutside
      <3>1. PICK vals \in {{0}, {}} : OnRx(vals)
        BY <2>19 DEF RPlotted, ROutside
      <3>2. vals \in SUBSET Byte
        BY DEF Byte
      <3> QED
        BY <3>1, <3>2, PixelDrawn
    <2>20. CASE RHit
      BY <2>20, TexelPlotted, PixelDrawn
    <2>21. CASE RMiss
      BY <2>21 DEF LineBuffers, X, RMiss
    <2>22. CASE RFetch
      BY <2>22 DEF LineBuffers, X, RFetch
    <2>23. CASE RAnswer
      BY <2>23 DEF LineBuffers, X, RAnswer
    <2>24. CASE Done
      BY <2>24 DEF LineBuffers, X, Done
    <2> QED
      BY <1>2, <2>1, <2>2, <2>3, <2>4, <2>5, <2>6, <2>7, <2>8, <2>9, <2>10, <2>11, <2>12, <2>13,
         <2>14, <2>15, <2>16, <2>17, <2>18, <2>19, <2>20, <2>21, <2>22, <2>23, <2>24 DEF Renderer
  <1>3. CASE UNCHANGED vars
    BY <1>3 DEF vars, LineBuffers, X
  <1> QED
    BY <1>1, <1>2, <1>3 DEF Next

-----------------------------------------------------------------------------
(* The pattern port.                                                       *)
LEMMA LargeSizes == AddressSpace \in Nat /\ AddressSpace > 0 /\ ChipSize \in Nat /\ ChipSize > 0
  BY SMT DEF AddressSpace, ChipSize

LEMMA AddressCut == ASSUME NEW a \in Int PROVE a % AddressSpace \in Addresses
  BY LargeSizes DEF Addresses

LEMMA AskingKept == ASSUME Flowing, Tiling, Spriting, Asking, [Next]_vars PROVE Asking'
  <1>1. CASE Reset
    <2>1. pat_req' \in BOOLEAN /\ pat_addr' = 0 /\ pat_len' = 1
      BY <1>1 DEF Reset
    <2>2. 0 \in Addresses
      BY LargeSizes DEF Addresses
    <2> QED
      BY <2>1, <2>2 DEF Asking
  <1>2. CASE Renderer
    <2>1. CASE Idle
      BY <2>1 DEF Asking, request, Idle
    <2>2. CASE Begin
      BY <2>2 DEF Asking, request, Begin
    <2>3. CASE Phase
      BY <2>3 DEF Asking, request, Phase
    <2>4. CASE Fill
      BY <2>4 DEF Asking, request, Fill
    <2>5. CASE Plane
      BY <2>5 DEF Asking, request, Plane
    <2>6. CASE Tile
      BY <2>6 DEF Asking, request, Tile
    <2>7. CASE TFetch
      <3> DEFINE py  == Flip(tile.py, tile.flipy)
                 blk == IF tile.is8 THEN 2 * Slice(py, 3, 3) + Slice(fidx, 1, 1) ELSE morton(fidx, Slice(py, 3, 3))
                 addr == IF tile.is8 THEN IF pts16 THEN tile.code * 64 + blk * 16 + (py % 8) * 2 + (fidx % 2)
                                          ELSE tile.code * 16 + py * 2 + fidx
                         ELSE IF pts16 THEN tile.code * 32 + blk * 8 + (py % 8) ELSE tile.code * 8 + py
      <3>1. pat_req' = TRUE /\ pat_addr' = addr % AddressSpace /\ pat_len' = 1
        BY <2>7 DEF TFetch, Ask
      <3>2. tile.code \in Int /\ fidx \in Int /\ py \in Int
        BY FlipInt DEF Tiling, Tiles
      <3> HIDE DEF py
      <3>3. Slice(py, 3, 3) \in Int /\ Slice(fidx, 1, 1) \in Int
        BY <3>2, FixedSlices
      <3>4. morton(fidx, Slice(py, 3, 3)) \in Int
        BY <3>2, <3>3, MortonInt
      <3>5. blk \in Int
        BY <3>3, <3>4
      <3> HIDE DEF blk
      <3>6. addr \in Int
        BY <3>2, <3>5
      <3> HIDE DEF addr
      <3>7. pat_addr' \in Addresses
        BY <3>1, <3>6, AddressCut
      <3>8. pat_req' \in BOOLEAN /\ pat_len' = 1
        BY <3>1
      <3> QED
        BY <3>7, <3>8 DEF Asking
    <2>8. CASE Wait
      BY <2>8 DEF Asking, request, Wait
    <2>9. CASE TAnswer
      BY <2>9 DEF Asking, request, TAnswer
    <2>10. CASE TWrite
      BY <2>10 DEF Asking, request, TWrite
    <2>11. CASE SpInit
      BY <2>11 DEF Asking, request, SpInit
    <2>12. CASE SpRead
      BY <2>12, EntryRead DEF Asking, request
    <2>13. CASE SpFetch
      <3> DEFINE code == spr.code * 4^spr.size
                 mort == morton(fidx, spr.row \div 8)
                 addr == (code + mort) * 8 + (spr.row % 8)
      <3>1. pat_req' = TRUE /\ pat_addr' = addr % AddressSpace /\ pat_len' = 1
        BY <2>13 DEF SpFetch, Ask
      <3>2. spr.code \in Int /\ spr.row \in Int /\ fidx \in Int /\ spr.size \in 0 .. 3
        BY DEF Tiling, Spriting, Sprites
      <3>3. code \in Int
        <4>1. spr.size \in 0 .. 7
          BY <3>2
        <4>2. 4^spr.size \in Int
          BY <4>1, PowerOfFour
        <4> QED
          BY <3>2, <4>2, ProductInt
      <3>4. mort \in Int
        <4>1. spr.row \div 8 \in Int
          BY <3>2
        <4> QED
          BY <3>2, <4>1, MortonInt
      <3> HIDE DEF code, mort
      <3>5. addr \in Int
        BY <3>2, <3>3, <3>4
      <3> HIDE DEF addr
      <3>6. pat_addr' \in Addresses
        BY <3>1, <3>5, AddressCut
      <3>7. pat_req' \in BOOLEAN /\ pat_len' = 1
        BY <3>1
      <3> QED
        BY <3>6, <3>7 DEF Asking
    <2>14. CASE SpAnswer
      BY <2>14 DEF Asking, request, SpAnswer
    <2>15. CASE SpWrite
      BY <2>15 DEF Asking, request, SpWrite
    <2>16. CASE SpNext
      BY <2>16 DEF Asking, request, SpNext
    <2>17. CASE RSetup
      BY <2>17 DEF Asking, request, RSetup
    <2>18. CASE RA
      BY <2>18 DEF Asking, request, RA
    <2>19. CASE ROutside
      BY <2>19 DEF RPlotted, Asking, request, ROutside
    <2>20. CASE RHit
      BY <2>20 DEF RPlotted, Asking, request, RHit
    <2>21. CASE RMiss
      BY <2>21 DEF Asking, request, RMiss
    <2>22. CASE RFetch
      <3> DEFINE units == 8 * nfetch * (IF pts16 THEN 2 ELSE 1)
                 off   == RowOffset(Flip(tile.py, tile.flipy), units)
                 row   == (IF tile.is8 THEN 2 ELSE 1) * (IF pts16 THEN 9 ELSE 1)
                 addr  == IF s.dyx = 0 THEN tile.code * units + off ELSE tile.code * units
      <3>1. pat_req' = TRUE /\ pat_addr' = addr % AddressSpace /\ pat_len' \in {row, units}
        BY <2>22 DEF RFetch, Ask
      <3>2. units \in {8, 16, 32, 64}
        BY UnitsOfTile DEF Tiling
      <3>3. row \in {1, 2, 9, 18}
        OBVIOUS
      <3> HIDE DEF units, row
      <3>4. off \in Int
        <4>1. Flip(tile.py, tile.flipy) \in Int
          BY FlipInt DEF Tiling, Tiles
        <4>2. units \div 2 \in Int
          BY <3>2
        <4> QED
          BY <3>2, <4>1, <4>2, RowOffsetInt DEF Tiling
      <3> HIDE DEF off
      <3>5. addr \in Int
        <4>1. tile.code * units \in Int
          BY <3>2 DEF Tiling, Tiles
        <4> QED
          BY <3>4, <4>1
      <3> HIDE DEF addr
      <3>6. pat_addr' \in Addresses
        BY <3>1, <3>5, AddressCut
      <3>7. pat_len' \in {1, 2, 8, 9, 16, 18, 32, 64}
        BY <3>1, <3>2, <3>3
      <3>8. pat_req' \in BOOLEAN
        BY <3>1
      <3> QED
        BY <3>6, <3>7, <3>8 DEF Asking
    <2>23. CASE RAnswer
      BY <2>23 DEF Asking, request, RAnswer
    <2>24. CASE Done
      BY <2>24 DEF Asking, request, Done
    <2> QED
      BY <1>2, <2>1, <2>2, <2>3, <2>4, <2>5, <2>6, <2>7, <2>8, <2>9, <2>10, <2>11, <2>12, <2>13,
         <2>14, <2>15, <2>16, <2>17, <2>18, <2>19, <2>20, <2>21, <2>22, <2>23, <2>24 DEF Renderer
  <1>3. CASE UNCHANGED vars
    BY <1>3 DEF vars, request, Asking
  <1> QED
    BY <1>1, <1>2, <1>3 DEF Next

LEMMA PortKept ==
  ASSUME Asking, Answering, Port
  PROVE  /\ pat_wr' \in BOOLEAN /\ pat_ack' \in BOOLEAN /\ pat_idx' \in 0 .. 63 /\ bst' \in {"IDLE", "RUN", "ACK"}
         /\ burst' \in [chip : 0 .. 1, at : ChipUnits, len : 0 .. 64, n : 0 .. 64]
         /\ (bst' = "RUN" => burst'.len > 0 /\ burst'.n <= burst'.len)
         /\ (bst' = "RUN" /\ burst'.n > 0 => pat_q' \in Units)
         /\ (bst' = "ACK" \/ pat_wr' \/ pat_ack' => pat_q' \in Units)
  <1>1. CASE PortIdle
    BY <1>1 DEF PortIdle, Quiet, Answering
  <1>2. CASE PortTake
    <2>1. /\ bst' = "RUN" /\ burst' = [chip |-> Slice(pat_addr, 20, 20), at |-> pat_addr % ChipSize, len |-> pat_len, n |-> 0]
          /\ pat_wr' = FALSE /\ pat_ack' = FALSE /\ pat_idx' = pat_idx
      BY <1>2 DEF PortTake, Quiet
    <2>2. pat_addr \in Int
      BY DEF Asking, Addresses
    <2>3. Slice(pat_addr, 20, 20) \in 0 .. 1
      BY <2>2, FixedSlices
    <2>4. pat_addr % ChipSize \in ChipUnits
      BY <2>2, LargeSizes DEF ChipUnits
    <2>5. pat_len \in 0 .. 64 /\ pat_len > 0
      BY DEF Asking
    <2>6. burst' \in [chip : 0 .. 1, at : ChipUnits, len : 0 .. 64, n : 0 .. 64]
      BY <2>1, <2>3, <2>4, <2>5
    <2>7. burst'.len > 0 /\ burst'.n = 0 /\ burst'.n <= burst'.len
      BY <2>1, <2>5
    <2>8. pat_wr' \in BOOLEAN /\ pat_ack' \in BOOLEAN /\ ~pat_wr' /\ ~pat_ack'
      BY <2>1
    <2> QED
      BY <2>1, <2>6, <2>7, <2>8 DEF Answering
  <1>3. CASE PortUnit
    <2>1. /\ bst' = "RUN" /\ bst = "RUN" /\ burst.n < burst.len /\ pat_q' = Unit(burst.chip, burst.at + burst.n)
          /\ pat_idx' = burst.n % 64 /\ burst' = [burst EXCEPT !.n = burst.n + 1]
          /\ pat_wr' = TRUE /\ pat_ack' = FALSE
      BY <1>3 DEF PortUnit
    <2>2. burst.chip \in 0 .. 1 /\ burst.at \in ChipUnits /\ burst.len \in 0 .. 64 /\ burst.n \in 0 .. 63
      BY <2>1 DEF Answering
    <2>3. burst.at + burst.n \in ReadUnits
      BY <2>2, LargeSizes DEF ChipUnits, ReadUnits
    <2>4. pat_q' \in Units
      BY <2>1, <2>2, <2>3, UnitRead
    <2>5. burst' \in [chip : 0 .. 1, at : ChipUnits, len : 0 .. 64, n : 0 .. 64]
      BY <2>1, <2>2 DEF Answering
    <2>6. burst'.len > 0 /\ burst'.n <= burst'.len
      BY <2>1, <2>2 DEF Answering
    <2>7. pat_idx' \in 0 .. 63
      BY <2>1, <2>2
    <2>8. pat_wr' \in BOOLEAN /\ pat_ack' \in BOOLEAN
      BY <2>1
    <2> QED
      BY <2>1, <2>4, <2>5, <2>6, <2>7, <2>8
  <1>4. CASE PortStall
    BY <1>4 DEF PortStall, Quiet, Answering
  <1>5. CASE PortDone
    <2>1. NoBurst \in [chip : 0 .. 1, at : ChipUnits, len : 0 .. 64, n : 0 .. 64]
      <3>1. 0 \in ChipUnits
        BY LargeSizes DEF ChipUnits
      <3> QED
        BY <3>1 DEF NoBurst
    <2>2. /\ bst = "RUN" /\ burst.n = burst.len /\ bst' = "ACK" /\ burst' = NoBurst /\ pat_idx' = pat_idx /\ pat_q' = pat_q
          /\ pat_wr' = FALSE /\ pat_ack' = FALSE
      BY <1>5 DEF PortDone, Quiet
    <2>3. pat_q \in Units
      BY <2>2 DEF Answering
    <2>4. pat_wr' \in BOOLEAN /\ pat_ack' \in BOOLEAN
      BY <2>2
    <2> QED
      BY <2>1, <2>2, <2>3, <2>4 DEF Answering
  <1>6. CASE PortAck
    <2>1. /\ bst = "ACK" /\ bst' = "IDLE" /\ burst' = burst /\ pat_idx' = pat_idx /\ pat_q' = pat_q
          /\ pat_wr' \in BOOLEAN /\ pat_ack' \in BOOLEAN
      BY <1>6 DEF PortAck
    <2> QED
      BY <2>1 DEF Answering
  <1> QED
    BY <1>1, <1>2, <1>3, <1>4, <1>5, <1>6 DEF Port

LEMMA AnsweringKept == ASSUME Rotating, Asking, Answering, [Next]_vars PROVE Answering'
  <1>1. CASE Reset
    <2>1. tbuf' = [u \in 0 .. 63 |-> NoUnit]
      BY <1>1 DEF Reset
    <2>2. tbuf' \in [0 .. 63 -> Units]
      BY <2>1 DEF NoUnit, Units, Unknown, Byte
    <2>3. Port
      BY <1>1 DEF Reset
    <2> QED
      BY <2>2, <2>3, PortKept DEF Answering
  <1>2. CASE Renderer /\ Port /\ Raster
    <2>1. tbuf' = IF pat_wr /\ roz_fetch THEN [tbuf EXCEPT ![(pat_idx + roz_off) % 64] = pat_q] ELSE tbuf
      BY <1>2 DEF Renderer, Beside
    <2>2. tbuf' \in [0 .. 63 -> Units]
      <3>1. CASE pat_wr /\ roz_fetch
        <4>1. tbuf' = [tbuf EXCEPT ![(pat_idx + roz_off) % 64] = pat_q]
          BY <2>1, <3>1
        <4>2. pat_q \in Units /\ tbuf \in [0 .. 63 -> Units]
          BY <3>1 DEF Answering
        <4> QED
          BY <4>1, <4>2
      <3>2. CASE ~(pat_wr /\ roz_fetch)
        BY <2>1, <3>2 DEF Answering
      <3> QED
        BY <3>1, <3>2
    <2> QED
      BY <1>2, <2>2, PortKept DEF Answering
  <1>3. CASE UNCHANGED vars
    BY <1>3 DEF vars, answer, Answering
  <1> QED
    BY <1>1, <1>2, <1>3 DEF Next

-----------------------------------------------------------------------------
(* The parts together.                                                     *)
IInv == /\ Flowing /\ OnLine /\ TornTold
        /\ PlaneOK /\ Tiling /\ Spriting /\ Rotating
        /\ Asking /\ Answering /\ LineBuffers

LEMMA InitInv == Init => IInv
  <1> SUFFICES ASSUME Init PROVE IInv
    OBVIOUS
  <1>1. Flowing
    <2>1. Programmed
      BY RegsAssumption DEF Init, Programmed
    <2>2. start \in BOOLEAN /\ ~start /\ overrun \in BOOLEAN
      BY DEF Init
    <2>3. line \in 0 .. VBlank /\ st = "IDLE" /\ phase = 0 /\ y \in 0 .. H - 1
      BY SizesAssumption DEF Init, VBlank
    <2> QED
      BY <2>1, <2>2, <2>3 DEF Flowing, States
  <1>2. OnLine /\ TornTold
    BY DEF Init, OnLine, busy, TornTold
  <1>3. PlaneOK
    BY DEF Init, PlaneOK, NoScroll, Scrolls
  <1>4. Tiling
    BY DEF Init, Tiling, NoTile, Tiles
  <1>5. Spriting
    BY SizesAssumption DEF Init, Spriting, NoSprite, Sprites
  <1>6. Rotating
    <2>1. tile_valid \in BOOLEAN /\ roz_fetch \in BOOLEAN
      BY DEF Init
    <2>2. st = "IDLE" /\ rx \in 0 .. W /\ roz_off \in Int
      BY SizesAssumption DEF Init
    <2>3. roz \in [x : Int, y : Int] /\ rpix \in [x : Int, y : Int, inside : BOOLEAN]
      BY DEF Init, NoCoord, NoPixel
    <2> QED
      BY <2>1, <2>2, <2>3 DEF Rotating
  <1>7. Asking
    <2>1. 0 \in Addresses
      BY LargeSizes DEF Addresses
    <2> QED
      BY <2>1 DEF Init, Asking
  <1>8. Answering
    <2>1. /\ pat_wr = FALSE /\ pat_idx = 0 /\ pat_ack = FALSE /\ bst = "IDLE" /\ burst = NoBurst
          /\ tbuf = [u \in 0 .. 63 |-> NoUnit]
      BY DEF Init
    <2>2. NoUnit \in Units
      BY DEF NoUnit, Units, Unknown, Byte
    <2>3. 0 \in ChipUnits
      BY LargeSizes DEF ChipUnits
    <2>4. burst \in [chip : 0 .. 1, at : ChipUnits, len : 0 .. 64, n : 0 .. 64]
      BY <2>1, <2>3 DEF NoBurst
    <2>5. tbuf \in [0 .. 63 -> Units]
      BY <2>1, <2>2
    <2>6. pat_wr \in BOOLEAN /\ pat_ack \in BOOLEAN /\ ~pat_wr /\ ~pat_ack
      BY <2>1
    <2> QED
      BY <2>1, <2>4, <2>5, <2>6 DEF Answering
  <1>9. LineBuffers
    <2>1. lbuf = [n \in 0 .. 1 |-> Blank]
      BY DEF Init
    <2>2. Blank \in [X -> Byte]
      BY DEF Blank, Unknown, Byte
    <2> QED
      BY <2>1, <2>2 DEF LineBuffers
  <1> QED
    BY <1>1, <1>2, <1>3, <1>4, <1>5, <1>6, <1>7, <1>8, <1>9 DEF IInv

LEMMA NextInv == IInv /\ [Next]_vars => IInv'
  <1> SUFFICES ASSUME IInv, [Next]_vars PROVE IInv'
    OBVIOUS
  <1>1. /\ Flowing /\ OnLine /\ TornTold /\ PlaneOK /\ Tiling /\ Spriting /\ Rotating
        /\ Asking /\ Answering /\ LineBuffers
    BY DEF IInv
  <1>2. Flowing' /\ OnLine'
    BY <1>1, FlowKept
  <1>3. TornTold'
    BY <1>1, ToldKept
  <1>4. PlaneOK'
    BY <1>1, PlaneKept
  <1>5. Tiling'
    BY <1>1, TilingKept
  <1>6. Spriting'
    BY <1>1, SpritingKept
  <1>7. Rotating'
    BY <1>1, RotatingKept
  <1>8. Asking'
    BY <1>1, AskingKept
  <1>9. Answering'
    BY <1>1, AnsweringKept
  <1>10. LineBuffers'
    BY <1>1, LinesKept
  <1> QED
    BY <1>2, <1>3, <1>4, <1>5, <1>6, <1>7, <1>8, <1>9, <1>10 DEF IInv

LEMMA InvTypes == IInv => TypeOK
  <1> SUFFICES ASSUME IInv PROVE TypeOK
    OBVIOUS
  <1>1. /\ mode \in DOMAIN Regs /\ line \in 0 .. VBlank /\ y \in 0 .. H - 1 /\ phase \in 0 .. 7 /\ st \in States
    BY DEF IInv, Flowing, Programmed
  <1>2. fidx \in 0 .. 7 /\ rx \in 0 .. W
    BY DEF IInv, Tiling, Rotating
  <1>3. pat_len \in {1, 2, 8, 9, 16, 18, 32, 64} /\ pat_addr \in Addresses
    BY DEF IInv, Asking
  <1>4. \A n \in 0 .. 1 : \A x \in X : lbuf[n][x] \in 0 .. 255
    BY DEF IInv, LineBuffers, Byte
  <1> QED
    BY <1>1, <1>2, <1>3, <1>4 DEF TypeOK, States

(* Every register of the renderer keeps to its range, whatever the size of *)
(* the picture, the contents of the pattern ROM and the registers the game *)
(* sets: no line, sprite, tile or unit is counted past its last one, and   *)
(* no pen is plotted past a byte.                                          *)
THEOREM TypeCorrect == Spec => []TypeOK
  <1> QED
    BY InitInv, NextInv, InvTypes, PTL DEF Spec

(* A line that is shown while it is still being drawn raises `overrun':    *)
(* the raster's start and the renderer's busy meet in one clock, and the   *)
(* flag is set in that clock and kept (ygv608_render.sv, `overrun').       *)
THEOREM OverrunTellsCorrect == Spec => []OverrunTells
  <1>1. IInv => OverrunTells
    BY InvTypes DEF IInv, OverrunTells
  <1> QED
    BY <1>1, InitInv, NextInv, PTL DEF Spec

-----------------------------------------------------------------------------
Asked(u) == Unit(Slice(pat_addr, 20, 20), (pat_addr % ChipSize) + u)
StoredUpTo(n) == \A u \in 0 .. n - 1 : tbuf[(u + roz_off) % 64] = Asked(u)

(* What the renderer takes for a unit is the unit it asked for.            *)
FetchedOwn == /\ (st \in {"T_WAIT", "SP_WAIT"} /\ pat_ack => pat_q = Asked(0))
              /\ (st = "R_WAIT" /\ pat_ack => StoredUpTo(pat_len))

(* A burst is the waiting renderer's own.  The one a reset leaves behind   *)
(* ends before a line begins.                                              *)
Waiting == {"T_WAIT", "SP_WAIT", "R_WAIT"}
Pending == (pat_req <=> st \in Waiting) /\ (roz_fetch <=> st = "R_WAIT")
Single  == st \in {"T_WAIT", "SP_WAIT"} => pat_len = 1
Orphan  == ~pat_req /\ (bst # "IDLE" \/ pat_ack) => ~busy /\ ~start /\ line = VBlank
Matched == pat_req /\ bst = "RUN" => /\ burst.chip = Slice(pat_addr, 20, 20) /\ burst.at = pat_addr % ChipSize
                                     /\ burst.len = pat_len
Owned == Pending /\ Single /\ Orphan /\ Matched /\ (pat_ack => bst = "IDLE")

(* The unit on the port's wires is the burst's last one.                   *)
JustRead == /\ (pat_wr => bst = "RUN" /\ burst.n > 0 /\ pat_idx = burst.n - 1)
            /\ (pat_req /\ bst = "RUN" /\ burst.n > 0 => pat_q = Asked(burst.n - 1))
            /\ (pat_req /\ (bst = "ACK" \/ pat_ack) => pat_q = Asked(pat_len - 1))

(* A tile's units are stored one clock after they are read.                *)
Stored == /\ (st = "R_WAIT" /\ bst = "RUN" => StoredUpTo(IF pat_wr THEN burst.n - 1 ELSE burst.n))
          /\ (st = "R_WAIT" /\ (bst = "ACK" \/ pat_ack) => StoredUpTo(pat_len))

(* What a clock of the renderer does with its request.                     *)
Rests == ~pat_req /\ ~pat_req' /\ st' \notin Waiting /\ (st = "IDLE" /\ ~start => st' = "IDLE")
Asks  == ~pat_req /\ busy /\ pat_req' /\ (st' \in {"T_WAIT", "SP_WAIT"} => pat_len' = 1)
Waits == pat_req /\ ~pat_ack /\ pat_req' /\ st' = st /\ pat_addr' = pat_addr /\ pat_len' = pat_len /\ roz_off' = roz_off
Takes == pat_req /\ pat_ack /\ ~pat_req' /\ st' \notin Waiting

LEMMA Turns ==
  ASSUME Flowing, Rotating, Asking, Answering, Pending, Renderer
  PROVE  /\ Rests \/ Asks \/ Waits \/ Takes
         /\ Pending'
  <1>1. CASE Idle
    <2>1. st = "IDLE" /\ st' = st /\ pat_req' = pat_req /\ roz_fetch' = roz_fetch
      BY <1>1 DEF flow, request, Idle
    <2> QED
      BY <2>1 DEF Pending, Rests, Waiting
  <1>2. CASE Begin
    <2>1. st = "IDLE" /\ start /\ st' = "PHASE" /\ pat_req' = pat_req /\ roz_fetch' = roz_fetch
      BY <1>2 DEF request, Begin
    <2> QED
      BY <2>1 DEF Pending, Rests, Waiting
  <1>3. CASE Phase
    <2>1. st \notin Waiting /\ st' \notin Waiting /\ st # "IDLE" /\ pat_req' = pat_req /\ roz_fetch' = roz_fetch
      BY <1>3 DEF To, Waiting, request, Phase
    <2> QED
      BY <2>1 DEF Pending, Rests, Waiting
  <1>4. CASE Fill
    <2>1. st \notin Waiting /\ st' \notin Waiting /\ st # "IDLE" /\ pat_req' = pat_req /\ roz_fetch' = roz_fetch
      BY <1>4 DEF To, Waiting, request, Fill
    <2> QED
      BY <2>1 DEF Pending, Rests, Waiting
  <1>5. CASE Plane
    <2>1. st \notin Waiting /\ st' \notin Waiting /\ st # "IDLE" /\ pat_req' = pat_req /\ roz_fetch' = roz_fetch
      BY <1>5 DEF To, Waiting, request, Plane
    <2> QED
      BY <2>1 DEF Pending, Rests, Waiting
  <1>6. CASE Tile
    <2>1. st \notin Waiting /\ st' \notin Waiting /\ st # "IDLE" /\ pat_req' = pat_req /\ roz_fetch' = roz_fetch
      BY <1>6 DEF To, Waiting, request, Tile
    <2> QED
      BY <2>1 DEF Pending, Rests, Waiting
  <1>7. CASE TFetch
    <2>1. /\ st = "T_FETCH" /\ st' = "T_WAIT" /\ pat_req' = TRUE /\ roz_fetch' = roz_fetch /\ pat_len' = 1
      BY <1>7 DEF To, Ask, TFetch
    <2>2. pat_req' \in BOOLEAN /\ pat_req' /\ roz_fetch' \in BOOLEAN
      BY <2>1 DEF Rotating
    <2> QED
      BY <2>1, <2>2 DEF Pending, Asks, Waiting, busy
  <1>8. CASE Wait
    <2>1. /\ st \in Waiting /\ ~pat_ack /\ st' = st /\ pat_req' = pat_req /\ pat_addr' = pat_addr /\ pat_len' = pat_len
          /\ roz_fetch' = roz_fetch /\ roz_off' = roz_off
      BY <1>8 DEF Waiting, flow, request, rotation, Wait
    <2> QED
      BY <2>1 DEF Pending, Waits
  <1>9. CASE TAnswer
    <2>1. /\ st = "T_WAIT" /\ st' \notin Waiting /\ pat_ack /\ pat_req' = FALSE /\ roz_fetch' = roz_fetch
      BY <1>9 DEF To, Waiting, TAnswer
    <2>2. pat_req' \in BOOLEAN /\ ~pat_req' /\ roz_fetch' \in BOOLEAN
      BY <2>1 DEF Rotating
    <2> QED
      BY <2>1, <2>2 DEF Pending, Takes, Waiting
  <1>10. CASE TWrite
    <2>1. st \notin Waiting /\ st' \notin Waiting /\ st # "IDLE" /\ pat_req' = pat_req /\ roz_fetch' = roz_fetch
      BY <1>10 DEF To, Waiting, request, TWrite
    <2> QED
      BY <2>1 DEF Pending, Rests, Waiting
  <1>11. CASE SpInit
    <2>1. st \notin Waiting /\ st' \notin Waiting /\ st # "IDLE" /\ pat_req' = pat_req /\ roz_fetch' = roz_fetch
      BY <1>11 DEF To, Waiting, request, SpInit
    <2> QED
      BY <2>1 DEF Pending, Rests, Waiting
  <1>12. CASE SpRead
    <2>1. st \notin Waiting /\ st' \notin Waiting /\ st # "IDLE" /\ pat_req' = pat_req /\ roz_fetch' = roz_fetch
      BY <1>12, EntryRead DEF Waiting, request
    <2> QED
      BY <2>1 DEF Pending, Rests, Waiting
  <1>13. CASE SpFetch
    <2>1. /\ st = "SP_FETCH" /\ st' = "SP_WAIT" /\ pat_req' = TRUE /\ roz_fetch' = roz_fetch /\ pat_len' = 1
      BY <1>13 DEF To, Ask, SpFetch
    <2>2. pat_req' \in BOOLEAN /\ pat_req' /\ roz_fetch' \in BOOLEAN
      BY <2>1 DEF Rotating
    <2> QED
      BY <2>1, <2>2 DEF Pending, Asks, Waiting, busy
  <1>14. CASE SpAnswer
    <2>1. /\ st = "SP_WAIT" /\ st' \notin Waiting /\ pat_ack /\ pat_req' = FALSE /\ roz_fetch' = roz_fetch
      BY <1>14 DEF To, Waiting, SpAnswer
    <2>2. pat_req' \in BOOLEAN /\ ~pat_req' /\ roz_fetch' \in BOOLEAN
      BY <2>1 DEF Rotating
    <2> QED
      BY <2>1, <2>2 DEF Pending, Takes, Waiting
  <1>15. CASE SpWrite
    <2>1. st \notin Waiting /\ st' \notin Waiting /\ st # "IDLE" /\ pat_req' = pat_req /\ roz_fetch' = roz_fetch
      BY <1>15 DEF To, Waiting, request, SpWrite
    <2> QED
      BY <2>1 DEF Pending, Rests, Waiting
  <1>16. CASE SpNext
    <2>1. st \notin Waiting /\ st' \notin Waiting /\ st # "IDLE" /\ pat_req' = pat_req /\ roz_fetch' = roz_fetch
      BY <1>16 DEF To, Waiting, request, SpNext
    <2> QED
      BY <2>1 DEF Pending, Rests, Waiting
  <1>17. CASE RSetup
    <2>1. st \notin Waiting /\ st' \notin Waiting /\ st # "IDLE" /\ pat_req' = pat_req /\ roz_fetch' = roz_fetch
      BY <1>17 DEF To, Waiting, request, RSetup
    <2> QED
      BY <2>1 DEF Pending, Rests, Waiting
  <1>18. CASE RA
    <2>1. st \notin Waiting /\ st' \notin Waiting /\ st # "IDLE" /\ pat_req' = pat_req /\ roz_fetch' = roz_fetch
      BY <1>18 DEF To, Waiting, request, RA
    <2> QED
      BY <2>1 DEF Pending, Rests, Waiting
  <1>19. CASE ROutside
    <2>1. st \notin Waiting /\ st' \notin Waiting /\ st # "IDLE" /\ pat_req' = pat_req /\ roz_fetch' = roz_fetch
      BY <1>19 DEF RPlotted, To, Waiting, request, ROutside
    <2> QED
      BY <2>1 DEF Pending, Rests, Waiting
  <1>20. CASE RHit
    <2>1. st \notin Waiting /\ st' \notin Waiting /\ st # "IDLE" /\ pat_req' = pat_req /\ roz_fetch' = roz_fetch
      BY <1>20 DEF RPlotted, To, Waiting, request, RHit
    <2> QED
      BY <2>1 DEF Pending, Rests, Waiting
  <1>21. CASE RMiss
    <2>1. st \notin Waiting /\ st' \notin Waiting /\ st # "IDLE" /\ pat_req' = pat_req /\ roz_fetch' = roz_fetch
      BY <1>21 DEF To, Waiting, request, RMiss
    <2> QED
      BY <2>1 DEF Pending, Rests, Waiting
  <1>22. CASE RFetch
    <2>1. /\ st = "R_FETCH" /\ st' = "R_WAIT" /\ pat_req' = TRUE /\ roz_fetch' = TRUE
      BY <1>22 DEF To, Ask, RFetch
    <2>2. pat_req' \in BOOLEAN /\ pat_req' /\ roz_fetch' \in BOOLEAN
      BY <2>1 DEF Rotating
    <2> QED
      BY <2>1, <2>2 DEF Pending, Asks, Waiting, busy
  <1>23. CASE RAnswer
    <2>1. /\ st = "R_WAIT" /\ st' \notin Waiting /\ pat_ack /\ pat_req' = FALSE /\ roz_fetch' = FALSE
      BY <1>23 DEF To, Waiting, RAnswer
    <2>2. pat_req' \in BOOLEAN /\ ~pat_req' /\ roz_fetch' \in BOOLEAN
      BY <2>1 DEF Rotating
    <2> QED
      BY <2>1, <2>2 DEF Pending, Takes, Waiting
  <1>24. CASE Done
    <2>1. st \notin Waiting /\ st' \notin Waiting /\ st # "IDLE" /\ pat_req' = pat_req /\ roz_fetch' = roz_fetch
      BY <1>24 DEF To, Waiting, request, Done
    <2> QED
      BY <2>1 DEF Pending, Rests, Waiting
  <1> QED
    BY <1>1, <1>2, <1>3, <1>4, <1>5, <1>6, <1>7, <1>8, <1>9, <1>10, <1>11, <1>12, <1>13, <1>14,
       <1>15, <1>16, <1>17, <1>18, <1>19, <1>20, <1>21, <1>22, <1>23, <1>24 DEF Renderer

(* What a clock of the port does with its burst.                           *)
LEMMA Bursts ==
  ASSUME Answering, Port
  PROVE  /\ (bst = "IDLE" /\ ~(pat_req /\ ~pat_ack) => bst' = "IDLE" /\ ~pat_ack' /\ ~pat_wr')
         /\ (pat_ack' => bst = "ACK" /\ bst' = "IDLE" /\ pat_q' = pat_q)
         /\ (pat_wr' => /\ bst = "RUN" /\ bst' = "RUN" /\ burst.n < burst.len
                        /\ burst'.n = burst.n + 1 /\ pat_idx' = burst.n % 64)
         /\ (bst' = "RUN" => bst \in {"IDLE", "RUN"})
         /\ (bst = "IDLE" /\ bst' = "RUN" => /\ pat_req /\ ~pat_ack /\ burst'.n = 0 /\ burst'.len = pat_len
                                            /\ burst'.chip = Slice(pat_addr, 20, 20) /\ burst'.at = pat_addr % ChipSize)
         /\ (bst = "RUN" /\ bst' = "RUN" =>
               /\ burst'.chip = burst.chip /\ burst'.at = burst.at /\ burst'.len = burst.len
               /\ \/ pat_wr' /\ burst'.n = burst.n + 1 /\ pat_q' = Unit(burst.chip, burst.at + burst.n)
                  \/ ~pat_wr' /\ burst'.n = burst.n /\ pat_q' = pat_q)
         /\ (bst' = "ACK" => bst = "RUN" /\ burst.n = burst.len /\ pat_q' = pat_q)
  <1>1. CASE PortIdle
    BY <1>1 DEF PortIdle, Quiet
  <1>2. CASE PortTake
    <2>1. /\ bst = "IDLE" /\ pat_req /\ ~pat_ack /\ bst' = "RUN"
          /\ burst' = [chip |-> Slice(pat_addr, 20, 20), at |-> pat_addr % ChipSize, len |-> pat_len, n |-> 0]
          /\ pat_wr' = FALSE /\ pat_ack' = FALSE
      BY <1>2 DEF PortTake, Quiet
    <2>2. burst'.n = 0 /\ burst'.len = pat_len /\ burst'.chip = Slice(pat_addr, 20, 20) /\ burst'.at = pat_addr % ChipSize
      BY <2>1
    <2> QED
      BY <2>1, <2>2
  <1>3. CASE PortUnit
    <2>1. /\ bst = "RUN" /\ bst' = "RUN" /\ burst.n < burst.len /\ pat_q' = Unit(burst.chip, burst.at + burst.n)
          /\ pat_idx' = burst.n % 64 /\ burst' = [burst EXCEPT !.n = burst.n + 1]
          /\ pat_wr' = TRUE /\ pat_ack' = FALSE
      BY <1>3 DEF PortUnit
    <2>2. burst'.n = burst.n + 1 /\ burst'.chip = burst.chip /\ burst'.at = burst.at /\ burst'.len = burst.len
      BY <2>1 DEF Answering
    <2> QED
      BY <2>1, <2>2
  <1>4. CASE PortStall
    BY <1>4 DEF PortStall, Quiet
  <1>5. CASE PortDone
    <2>1. /\ bst = "RUN" /\ burst.n = burst.len /\ bst' = "ACK" /\ pat_q' = pat_q /\ pat_wr' = FALSE /\ pat_ack' = FALSE
      BY <1>5 DEF PortDone, Quiet
    <2> QED
      BY <2>1
  <1>6. CASE PortAck
    <2>1. bst = "ACK" /\ bst' = "IDLE" /\ pat_q' = pat_q /\ pat_wr' = FALSE
      BY <1>6 DEF PortAck
    <2> QED
      BY <2>1
  <1> QED
    BY <1>1, <1>2, <1>3, <1>4, <1>5, <1>6 DEF Port

LEMMA OwnedKept == ASSUME Flowing, Rotating, Asking, Answering, JustRead, Owned, [Next]_vars PROVE Owned'
  <1>1. CASE Reset
    <2>1. /\ st' = "IDLE" /\ pat_req' = FALSE /\ roz_fetch' = FALSE /\ start' = FALSE /\ line' = VBlank
      BY <1>1 DEF Reset
    <2>2. pat_ack' => bst' = "IDLE"
      BY <1>1, Bursts DEF Reset
    <2>3. VBlank' = VBlank
      BY DEF VBlank
    <2> QED
      BY <2>1, <2>2, <2>3 DEF Owned, Pending, Single, Orphan, Matched, Waiting, busy
  <1>2. CASE Renderer /\ Port /\ Raster
    <2>1. (Rests \/ Asks \/ Waits \/ Takes) /\ Pending'
      BY <1>2, Turns DEF Owned
    <2>2. Single'
      <3>1. CASE Rests \/ Takes
        BY <3>1 DEF Rests, Takes, Waiting, Single
      <3>2. CASE Asks
        BY <3>2 DEF Asks, Single
      <3>3. CASE Waits
        BY <3>3 DEF Waits, Single, Owned
      <3> QED
        BY <2>1, <3>1, <3>2, <3>3
    <2>3. Orphan'
      <3> SUFFICES ASSUME ~pat_req', bst' # "IDLE" \/ pat_ack' PROVE ~busy' /\ ~start' /\ line' = VBlank
        BY DEF Orphan, VBlank
      <3>1. pat_ack' => bst = "ACK"
        BY <1>2, Bursts
      <3>2. bst # "IDLE"
        <4>1. CASE Rests
          BY <1>2, <3>1, <4>1, Bursts DEF Rests
        <4>2. CASE Takes
          BY <1>2, <3>1, <4>2, Bursts DEF Takes
        <4>3. CASE Asks \/ Waits
          BY <4>3 DEF Asks, Waits
        <4> QED
          BY <2>1, <4>1, <4>2, <4>3
      <3>3. Rests
        BY <2>1, <3>2 DEF Asks, Waits, Takes, Owned
      <3>4. ~busy /\ ~start /\ line = VBlank
        BY <3>2, <3>3 DEF Rests, Orphan, Owned
      <3>5. st' = "IDLE"
        BY <3>3, <3>4 DEF Rests, busy
      <3>6. Hold
        <4>1. ~Advance
          BY <3>4, SizesAssumption DEF Advance, VBlank
        <4>2. ~NewFrame /\ ~Program
          BY <3>2 DEF NewFrame, Program
        <4> QED
          BY <1>2, <4>1, <4>2 DEF Raster
      <3>7. start' = FALSE /\ line' = line
        BY <3>6 DEF Hold
      <3> QED
        BY <3>4, <3>5, <3>7 DEF busy
    <2>4. Matched'
      <3> SUFFICES ASSUME pat_req', bst' = "RUN"
                   PROVE  /\ burst'.chip = Slice(pat_addr', 20, 20) /\ burst'.at = pat_addr' % ChipSize
                          /\ burst'.len = pat_len'
        BY DEF Matched
      <3>1. ~Asks
        BY <1>2, Bursts DEF Asks, Orphan, Owned
      <3>2. Waits
        BY <2>1, <3>1 DEF Rests, Takes
      <3>3. pat_req /\ pat_addr' = pat_addr /\ pat_len' = pat_len
        BY <3>2 DEF Waits
      <3>4. CASE bst = "IDLE"
        BY <1>2, <3>3, <3>4, Bursts
      <3>5. CASE bst = "RUN"
        BY <1>2, <3>3, <3>5, Bursts DEF Matched, Owned
      <3> QED
        BY <1>2, <3>4, <3>5, Bursts
    <2>5. pat_ack' => bst' = "IDLE"
      BY <1>2, Bursts
    <2> QED
      BY <2>1, <2>2, <2>3, <2>4, <2>5 DEF Owned
  <1>3. CASE UNCHANGED vars
    BY <1>3 DEF vars, raster, flow, request, answer, Owned, Pending, Single, Orphan, Matched, busy
  <1> QED
    BY <1>1, <1>2, <1>3 DEF Next

(* A burst's last unit.                                                    *)
LEMMA ReadKept == ASSUME Flowing, Rotating, Asking, Answering, Owned, JustRead, [Next]_vars PROVE JustRead'
  <1> DEFINE chip == Slice(pat_addr, 20, 20)
             at   == pat_addr % ChipSize
  <1>1. ASSUME Port PROVE pat_wr' => bst' = "RUN" /\ burst'.n > 0 /\ pat_idx' = burst'.n - 1
    <2> SUFFICES ASSUME pat_wr' PROVE bst' = "RUN" /\ burst'.n > 0 /\ pat_idx' = burst'.n - 1
      OBVIOUS
    <2>1. bst' = "RUN" /\ burst.n < burst.len /\ burst'.n = burst.n + 1 /\ pat_idx' = burst.n % 64
      BY <1>1, Bursts
    <2>2. burst.n \in 0 .. 63
      BY <2>1 DEF Answering
    <2> QED
      BY <2>1, <2>2
  <1>2. CASE Reset
    <2>1. pat_req' = FALSE /\ Port
      BY <1>2 DEF Reset
    <2> QED
      BY <1>1, <2>1 DEF JustRead
  <1>3. CASE Renderer /\ Port /\ Raster
    <2>1. Rests \/ Asks \/ Waits \/ Takes
      BY <1>3, Turns DEF Owned
    <2>2. pat_req' /\ (bst' # "IDLE" \/ pat_ack') => Waits
      <3> SUFFICES ASSUME pat_req', bst' # "IDLE" \/ pat_ack' PROVE Waits
        OBVIOUS
      <3>1. ~Asks
        BY <1>3, Bursts DEF Asks, Orphan, Owned
      <3> QED
        BY <2>1, <3>1 DEF Rests, Takes
    <2>3. pat_req' /\ bst' = "RUN" /\ burst'.n > 0
                => pat_q' = Unit(Slice(pat_addr', 20, 20), (pat_addr' % ChipSize) + (burst'.n - 1))
      <3> SUFFICES ASSUME pat_req', bst' = "RUN", burst'.n > 0
                   PROVE  pat_q' = Unit(Slice(pat_addr', 20, 20), (pat_addr' % ChipSize) + (burst'.n - 1))
        OBVIOUS
      <3>1. Waits
        BY <2>2
      <3>2. pat_req /\ pat_addr' = pat_addr /\ pat_len' = pat_len
        BY <3>1 DEF Waits
      <3>3. bst = "RUN"
        BY <1>3, Bursts
      <3>4. burst.chip = chip /\ burst.at = at /\ burst.len = pat_len
        BY <3>2, <3>3 DEF Matched, Owned
      <3>5. CASE pat_wr' /\ burst'.n = burst.n + 1 /\ pat_q' = Unit(burst.chip, burst.at + burst.n)
        <4>1. burst.n \in Int
          BY DEF Answering
        <4>2. burst'.n - 1 = burst.n
          BY <3>5, <4>1
        <4> QED
          BY <3>2, <3>4, <3>5, <4>2
      <3>6. CASE ~pat_wr' /\ burst'.n = burst.n /\ pat_q' = pat_q
        BY <3>2, <3>3, <3>6 DEF JustRead, Asked
      <3> QED
        BY <1>3, <3>3, <3>5, <3>6, Bursts
    <2>4. pat_req' /\ (bst' = "ACK" \/ pat_ack')
                => pat_q' = Unit(Slice(pat_addr', 20, 20), (pat_addr' % ChipSize) + (pat_len' - 1))
      <3> SUFFICES ASSUME pat_req', bst' = "ACK" \/ pat_ack'
                   PROVE  pat_q' = Unit(Slice(pat_addr', 20, 20), (pat_addr' % ChipSize) + (pat_len' - 1))
        OBVIOUS
      <3>1. Waits
        BY <2>2
      <3>2. pat_req /\ pat_addr' = pat_addr /\ pat_len' = pat_len
        BY <3>1 DEF Waits
      <3>3. CASE bst' = "ACK"
        <4>1. bst = "RUN" /\ burst.n = burst.len /\ pat_q' = pat_q
          BY <1>3, <3>3, Bursts
        <4>2. burst.len = pat_len /\ burst.n > 0
          BY <3>2, <4>1 DEF Matched, Owned, Answering
        <4> QED
          BY <3>2, <4>1, <4>2 DEF JustRead, Asked
      <3>4. CASE pat_ack'
        BY <1>3, <3>2, <3>4, Bursts DEF JustRead, Asked
      <3> QED
        BY <3>3, <3>4
    <2> QED
      BY <1>1, <1>3, <2>3, <2>4 DEF JustRead, Asked
  <1>4. CASE UNCHANGED vars
    BY <1>4 DEF vars, request, answer, JustRead, Asked
  <1> QED
    BY <1>2, <1>3, <1>4 DEF Next

(* The unit read last is stored beside the others.                         *)
LEMMA Arrives ==
  ASSUME Rotating, Asking, Answering, Owned, JustRead, Stored, Beside, st = "R_WAIT", bst = "RUN",
         NEW u \in 0 .. burst.n - 1
  PROVE  tbuf'[(u + roz_off) % 64] = Asked(u)
  <1>1. roz_fetch /\ pat_req /\ roz_off \in Int /\ tbuf \in [0 .. 63 -> Units] /\ burst.n \in 0 .. 64
    BY DEF Owned, Pending, Waiting, Rotating, Answering
  <1>2. tbuf' = IF pat_wr THEN [tbuf EXCEPT ![(pat_idx + roz_off) % 64] = pat_q] ELSE tbuf
    BY <1>1 DEF Beside
  <1>3. (u + roz_off) % 64 \in 0 .. 63
    BY <1>1
  <1>4. CASE ~pat_wr
    BY <1>1, <1>2, <1>4 DEF Stored, StoredUpTo
  <1>5. CASE pat_wr /\ u < burst.n - 1
    <2>1. pat_idx = burst.n - 1
      BY <1>5 DEF JustRead
    <2>2. (u + roz_off) % 64 # (pat_idx + roz_off) % 64
      BY <1>1, <1>5, <2>1
    <2>3. u \in 0 .. (burst.n - 1) - 1
      BY <1>1, <1>5
    <2>4. tbuf[(u + roz_off) % 64] = Asked(u)
      BY <1>5, <2>3 DEF Stored, StoredUpTo
    <2> DEFINE i == (u + roz_off) % 64
               j == (pat_idx + roz_off) % 64
    <2>5. tbuf' = [tbuf EXCEPT ![j] = pat_q] /\ i \in 0 .. 63 /\ i # j /\ tbuf[i] = Asked(u)
      BY <1>2, <1>3, <1>5, <2>2, <2>4
    <2> HIDE DEF i, j
    <2>6. tbuf'[i] = Asked(u)
      BY <1>1, <2>5
    <2> QED
      BY <2>6 DEF i
  <1>6. CASE pat_wr /\ u = burst.n - 1
    <2> DEFINE i == (u + roz_off) % 64
    <2>1. pat_idx = u /\ pat_q = Asked(u)
      BY <1>1, <1>6 DEF JustRead
    <2>2. tbuf' = [tbuf EXCEPT ![i] = pat_q] /\ i \in 0 .. 63
      BY <1>2, <1>3, <1>6, <2>1
    <2> HIDE DEF i
    <2>3. tbuf'[i] = Asked(u)
      BY <1>1, <2>1, <2>2
    <2> QED
      BY <2>3 DEF i
  <1> QED
    BY <1>1, <1>4, <1>5, <1>6

LEMMA StoredKept ==
  ASSUME Flowing, Rotating, Asking, Answering, Owned, JustRead, Stored, [Next]_vars
  PROVE  Stored'
  <1>1. CASE Reset
    <2>1. st' = "IDLE"
      BY <1>1 DEF Reset
    <2> QED
      BY <2>1 DEF Stored
  <1>2. CASE Renderer /\ Port /\ Raster
    <2>1. Rests \/ Asks \/ Waits \/ Takes
      BY <1>2, Turns DEF Owned
    <2>2. ASSUME st' = "R_WAIT", bst' # "IDLE" \/ pat_ack'
          PROVE  /\ st = "R_WAIT" /\ pat_req /\ pat_addr' = pat_addr /\ pat_len' = pat_len /\ roz_off' = roz_off
      <3>1. ~Asks
        BY <1>2, <2>2, Bursts DEF Asks, Orphan, Owned
      <3> QED
        BY <2>1, <2>2, <3>1 DEF Rests, Takes, Waits, Waiting
    <2>3. ASSUME st = "R_WAIT", bst = "RUN", roz_off' = roz_off, pat_addr' = pat_addr, NEW u \in 0 .. burst.n - 1
          PROVE  tbuf'[(u + roz_off') % 64] = Unit(Slice(pat_addr', 20, 20), (pat_addr' % ChipSize) + u)
      <3>1. tbuf'[(u + roz_off) % 64] = Asked(u)
        BY <1>2, <2>3, Arrives DEF Renderer
      <3> QED
        BY <2>3, <3>1 DEF Asked
    <2>4. ASSUME st' = "R_WAIT", bst' = "RUN", NEW u \in 0 .. (IF pat_wr' THEN burst'.n - 1 ELSE burst'.n) - 1
          PROVE  tbuf'[(u + roz_off') % 64] = Unit(Slice(pat_addr', 20, 20), (pat_addr' % ChipSize) + u)
      <3>1. st = "R_WAIT" /\ pat_addr' = pat_addr /\ roz_off' = roz_off
        BY <2>2, <2>4
      <3>2. CASE bst = "IDLE"
        <4>1. burst'.n = 0
          BY <1>2, <2>4, <3>2, Bursts
        <4> QED
          BY <2>4, <4>1
      <3>3. CASE bst = "RUN"
        <4>1. \/ pat_wr' /\ burst'.n = burst.n + 1
              \/ ~pat_wr' /\ burst'.n = burst.n
          BY <1>2, <2>4, <3>3, Bursts
        <4>2. burst.n \in Int
          BY DEF Answering
        <4>3. u \in 0 .. burst.n - 1
          BY <2>4, <4>1, <4>2
        <4> QED
          BY <2>3, <3>1, <3>3, <4>3
      <3> QED
        BY <1>2, <2>4, <3>2, <3>3, Bursts
    <2>5. ASSUME st' = "R_WAIT", bst' = "ACK" \/ pat_ack', NEW u \in 0 .. pat_len' - 1
          PROVE  tbuf'[(u + roz_off') % 64] = Unit(Slice(pat_addr', 20, 20), (pat_addr' % ChipSize) + u)
      <3>1. /\ st = "R_WAIT" /\ pat_req /\ pat_addr' = pat_addr /\ pat_len' = pat_len /\ roz_off' = roz_off
        BY <2>2, <2>5
      <3>2. CASE bst' = "ACK"
        <4>1. bst = "RUN" /\ burst.n = burst.len
          BY <1>2, <3>2, Bursts
        <4>2. burst.len = pat_len
          BY <3>1, <4>1 DEF Matched, Owned
        <4>3. u \in 0 .. burst.n - 1
          BY <2>5, <3>1, <4>1, <4>2
        <4> QED
          BY <2>3, <3>1, <4>1, <4>3
      <3>3. CASE pat_ack'
        <4>1. bst = "ACK"
          BY <1>2, <3>3, Bursts
        <4>2. ~pat_wr
          BY <4>1 DEF JustRead
        <4>3. tbuf' = tbuf
          BY <1>2, <4>2 DEF Renderer, Beside
        <4>4. tbuf[(u + roz_off) % 64] = Asked(u)
          BY <2>5, <3>1, <4>1 DEF Stored, StoredUpTo
        <4> QED
          BY <3>1, <4>3, <4>4 DEF Asked
      <3> QED
        BY <2>5, <3>2, <3>3
    <2> QED
      BY <2>4, <2>5 DEF Stored, StoredUpTo, Asked
  <1>3. CASE UNCHANGED vars
    BY <1>3 DEF vars, flow, rotation, request, answer, Stored, StoredUpTo, Asked
  <1> QED
    BY <1>1, <1>2, <1>3 DEF Next

(* Every unit the renderer takes from the port is the unit it asked for:   *)
(* of a tile's or a sprite's row the one, of a rotated tile all of them,   *)
(* each in its place in tbuf.  It holds through stalls of the memory and   *)
(* through a reset in the middle of a burst, which the memory answers      *)
(* although nobody waits for it.  The renderer counts on it where it reads *)
(* pat_q in the clock of the acknowledge (ygv608_render.sv, S_T_WAIT,      *)
(* S_SP_WAIT and S_R_WAIT; the port's comment says pat_q still holds the   *)
(* last unit then; ncv1_mem.sv, the pattern burst client).                 *)
THEOREM FetchedOwnCorrect == Spec => []FetchedOwn
  <1> DEFINE FInv == IInv /\ Owned /\ JustRead /\ Stored
  <1>1. Init => FInv
    <2> SUFFICES ASSUME Init PROVE FInv
      OBVIOUS
    <2>1. /\ st = "IDLE" /\ pat_req = FALSE /\ roz_fetch = FALSE /\ bst = "IDLE" /\ pat_ack = FALSE /\ pat_wr = FALSE
      BY DEF Init
    <2>2. Owned /\ JustRead /\ Stored
      BY <2>1 DEF Owned, Pending, Single, Orphan, Matched, Waiting, JustRead, Stored
    <2> QED
      BY <2>2, InitInv
  <1>2. FInv /\ [Next]_vars => FInv'
    <2> SUFFICES ASSUME FInv, [Next]_vars PROVE FInv'
      OBVIOUS
    <2>1. Flowing /\ Rotating /\ Asking /\ Answering /\ Owned /\ JustRead /\ Stored
      BY DEF IInv
    <2>2. IInv'
      BY NextInv
    <2>3. Owned'
      BY <2>1, OwnedKept
    <2>4. JustRead'
      BY <2>1, ReadKept
    <2>5. Stored'
      BY <2>1, StoredKept
    <2> QED
      BY <2>2, <2>3, <2>4, <2>5
  <1>3. FInv => FetchedOwn
    <2> SUFFICES ASSUME FInv PROVE FetchedOwn
      OBVIOUS
    <2>1. st \in Waiting => pat_req
      BY DEF Owned, Pending
    <2>2. st \in {"T_WAIT", "SP_WAIT"} /\ pat_ack => pat_q = Asked(0)
      <3> SUFFICES ASSUME st \in {"T_WAIT", "SP_WAIT"}, pat_ack PROVE pat_q = Asked(0)
        OBVIOUS
      <3>1. pat_req /\ pat_len = 1
        BY <2>1 DEF Waiting, Owned, Single
      <3>2. pat_q = Asked(pat_len - 1)
        BY <3>1 DEF JustRead
      <3> QED
        BY <3>1, <3>2
    <2>3. st = "R_WAIT" /\ pat_ack => StoredUpTo(pat_len)
      BY DEF Stored
    <2> QED
      BY <2>2, <2>3 DEF FetchedOwn
  <1> QED
    BY <1>1, <1>2, <1>3, PTL DEF Spec
-----------------------------------------------------------------------------
(* The line buffer's banks.  A line is drawn into the bank of its parity   *)
(* and the other is left alone; a step rests, begins a line, draws on it   *)
(* or ends it.                                                             *)
Resting   == st = "IDLE" /\ ~start /\ ~busy' /\ UNCHANGED <<y, lbuf, roz_unsupported>>
Beginning == st = "IDLE" /\ start /\ busy' /\ y' = line /\ UNCHANGED <<lbuf, roz_unsupported>>
Drawn     == /\ busy /\ busy' /\ y' = y /\ lbuf'[1 - (y % 2)] = lbuf[1 - (y % 2)]
             /\ (roz_unsupported => roz_unsupported') /\ (roz_unsupported \in BOOLEAN => roz_unsupported' \in BOOLEAN)
Ending    == st = "DONE" /\ ~busy' /\ UNCHANGED <<y, lbuf, roz_unsupported>>

LEMMA Strokes == ASSUME Flowing, Renderer PROVE Resting \/ Beginning \/ Drawn \/ Ending
  <1>0. y % 2 \in 0 .. 1 /\ 1 - (y % 2) # y % 2
    BY SizesAssumption DEF Flowing
  <1>1. ASSUME NEW row, lbuf' = [lbuf EXCEPT ![y % 2] = row] PROVE lbuf'[1 - (y % 2)] = lbuf[1 - (y % 2)]
    BY <1>0, <1>1
  <1>2. CASE Idle
    BY <1>2 DEF Idle, flow, Resting, busy
  <1>3. CASE Begin
    BY <1>3 DEF Begin, Beginning, busy
  <1>4. CASE Phase
    BY <1>4 DEF Phase, To, Drawn, busy
  <1>5. CASE Fill
    BY <1>1, <1>5 DEF Fill, Draw, To, Drawn, busy
  <1>6. CASE Plane
    BY <1>6 DEF Plane, To, Drawn, busy
  <1>7. CASE Tile
    BY <1>7 DEF Tile, To, Drawn, busy
  <1>8. CASE TFetch
    BY <1>8 DEF TFetch, To, Drawn, busy
  <1>9. CASE Wait
    BY <1>9 DEF Wait, flow, Drawn, busy
  <1>10. CASE TAnswer
    BY <1>10 DEF TAnswer, To, Drawn, busy
  <1>11. CASE TWrite
    BY <1>1, <1>11 DEF TWrite, Draw, To, Drawn, busy
  <1>12. CASE SpInit
    BY <1>12 DEF SpInit, To, Drawn, busy
  <1>13. CASE SpRead
    BY <1>13, EntryRead DEF Drawn, busy
  <1>14. CASE SpFetch
    BY <1>14 DEF SpFetch, To, Drawn, busy
  <1>15. CASE SpAnswer
    BY <1>15 DEF SpAnswer, To, Drawn, busy
  <1>16. CASE SpWrite
    BY <1>1, <1>16 DEF SpWrite, Draw, To, Drawn, busy
  <1>17. CASE SpNext
    BY <1>17 DEF SpNext, To, Drawn, busy
  <1>18. CASE RSetup
    <2>1. st = "PLANE" /\ st' = "R_A" /\ y' = y
      BY <1>18 DEF RSetup, To
    <2>2. lbuf' = lbuf
      BY <1>18 DEF RSetup
    <2>3. (roz_unsupported => roz_unsupported') /\ roz_unsupported' \in BOOLEAN
      <3> DEFINE raised == (identity /\ s.ay \div One # 0) \/ (plane = 1 /\ s.roz_wrap_disable = 1)
      <3>1. roz_unsupported' = (roz_unsupported \/ raised)
        BY <1>18 DEF RSetup
      <3> QED
        BY <3>1, Zenon
    <2> QED
      BY <2>1, <2>2, <2>3 DEF Drawn, busy
  <1>19. CASE RA
    BY <1>19 DEF RA, To, Drawn, busy
  <1>20. CASE ROutside
    BY <1>1, <1>20 DEF ROutside, RPlotted, OnRx, Draw, To, Drawn, busy
  <1>21. CASE RHit
    BY <1>1, <1>21 DEF RHit, RPlotted, OnRx, Draw, To, Drawn, busy
  <1>22. CASE RMiss
    BY <1>22 DEF RMiss, To, Drawn, busy
  <1>23. CASE RFetch
    BY <1>23 DEF RFetch, To, Drawn, busy
  <1>24. CASE RAnswer
    BY <1>24 DEF RAnswer, To, Drawn, busy
  <1>25. CASE Done
    BY <1>25 DEF Done, To, Ending, busy
  <1> QED
    BY <1>2, <1>3, <1>4, <1>5, <1>6, <1>7, <1>8, <1>9, <1>10, <1>11, <1>12, <1>13, <1>14,
       <1>15, <1>16, <1>17, <1>18, <1>19, <1>20, <1>21, <1>22, <1>23, <1>24, <1>25 DEF Renderer

(* While a line is drawn its bank is none of the rows there are.           *)
LEMMA NoRow ==
  ASSUME NEW l \in Nat, NEW row \in [X -> Byte] PROVE row # Drawing(l)
  <1>1. 0 \in X
    BY SizesAssumption DEF X
  <1>2. row[0] \in Byte /\ Drawing(l)[0] = -1 - l
    BY <1>1 DEF Drawing
  <1>3. row[0] # -1 - l
    BY <1>2 DEF Byte
  <1> QED
    BY <1>2, <1>3, Zenon

LEMMA OneDrawing == ASSUME NEW l \in Nat, NEW m \in Nat, Drawing(l) = Drawing(m) PROVE l = m
  <1>1. 0 \in X
    BY SizesAssumption DEF X
  <1>2. Drawing(l)[0] = -1 - l /\ Drawing(m)[0] = -1 - m
    BY <1>1 DEF Drawing
  <1> QED
    BY <1>2

LEMMA IdealBank ==
  ASSUME Flowing, busy PROVE ~Ideal!Quiet /\ y \in 0 .. H - 1
  <1>1. y \in 0 .. H - 1 /\ y % 2 \in 0 .. 1
    BY SizesAssumption DEF Flowing
  <1> QED
    BY <1>1 DEF Ideal!Quiet

(* A step of the line buffer that ends a line leaves the reference's row.  *)
LEMMA EndsRight ==
  ASSUME Flowing, LineBuffers, LineBuffers', mode' # 0, Ending, [Ideal!Next]_(Ideal!vars)
  PROVE  roz_unsupported \/ lbuf[y % 2] = RowOf(mode, y)
  <1> DEFINE bank == [n \in 0 .. 1 |-> IF busy /\ y % 2 = n THEN Drawing(y) ELSE lbuf[n]]
  <1>1. y \in 0 .. H - 1 /\ y \in Nat /\ y % 2 \in 0 .. 1 /\ y' = y /\ lbuf' = lbuf /\ busy /\ ~busy'
    BY SizesAssumption DEF Flowing, Ending, busy
  <1>2. bank[y % 2] = Drawing(y) /\ bank'[y % 2] = lbuf[y % 2]
    BY <1>1
  <1>3. lbuf[y % 2] # Drawing(y)
    BY <1>1, NoRow DEF LineBuffers
  <1>4. bank' # bank
    BY <1>2, <1>3
  <1>5. ~Ideal!Quiet
    BY <1>1, IdealBank
  <1>6. PICK l \in 0 .. H - 1 : Ideal!Finish(l)
    <2>1. Ideal!Next
      BY <1>4 DEF Ideal!vars
    <2>2. ~Ideal!Raise /\ ~Ideal!Program
      BY <1>4 DEF Ideal!Raise, Ideal!Program
    <2>3. ~Ideal!Clear
      BY DEF Ideal!Clear
    <2>4. \A l \in 0 .. H - 1 : ~Ideal!Begin(l)
      BY <1>5 DEF Ideal!Begin
    <2> QED
      BY <2>1, <2>2, <2>3, <2>4 DEF Ideal!Next
  <1>7. bank[l % 2] = Drawing(l) /\ (roz_unsupported \/ bank'[l % 2] = RowOf(mode, l))
    BY <1>6 DEF Ideal!Finish
  <1>8. l = y
    <2>1. l \in Nat /\ l % 2 \in 0 .. 1
      OBVIOUS
    <2>2. bank[l % 2] = IF y % 2 = l % 2 THEN Drawing(y) ELSE lbuf[l % 2]
      BY <1>1, <2>1
    <2>3. lbuf[l % 2] # Drawing(l)
      BY <2>1, NoRow DEF LineBuffers
    <2> QED
      BY <1>1, <1>7, <2>1, <2>2, <2>3, OneDrawing
  <1> QED
    BY <1>2, <1>7, <1>8

-----------------------------------------------------------------------------
(* What the raster shows.  A line is ready when its bank holds the         *)
(* reference's row.  As long as the renderer keeps up, the line before the *)
(* one being drawn is ready, and so is that one once it is drawn: every    *)
(* line shown so far is the reference's, or it was torn.                   *)
Ready(l)    == lbuf[l % 2] = RowOf(mode, l)
ShownRow(l) == [x \in X |-> M!to_rgb(s, RowOf(mode, l)[x])]
Started == start /\ ~busy /\ line > 0 => Ready(line - 1)
OnTime  == ~start /\ line < H => y = line /\ (busy \/ Ready(line)) /\ (line > 0 => Ready(line - 1))
AtEnd   == line = H => y = H - 1 /\ (busy \/ Ready(H - 1))
InTime  == Started /\ OnTime /\ AtEnd
Displayed  == (line = VBlank /\ frame = Dark) \/ \A l \in 0 .. line - 2 : l \in torn \/ frame[l] = ShownRow(l)
Unspoilt   == mode # 0 /\ ~overrun /\ ~roz_unsupported
FrameLines == DOMAIN frame = 0 .. H - 1
Followed   == FrameLines /\ (Unspoilt => InTime /\ Displayed)

(* What a step of the renderer leaves ready, without the flags.            *)
LEMMA ReadyKept ==
  ASSUME IInv, LineBuffers', Renderer, Unspoilt', mode' = mode, [Ideal!Next]_(Ideal!vars), NEW l \in 0 .. H - 1
  PROVE  /\ Unspoilt /\ ~(start /\ busy)
         /\ (Ready(l) /\ (~busy \/ y % 2 # l % 2) => Ready(l)')
         /\ (~start /\ y = l /\ (busy \/ Ready(l)) => y' = y /\ (busy' \/ Ready(l)'))
         /\ (start => busy' /\ y' = line)
  <1>1. Flowing /\ LineBuffers
    BY DEF IInv
  <1>2. ~overrun /\ ~(start /\ busy)
    BY DEF Renderer, Beside, Overrun, Unspoilt
  <1>3. Resting \/ Beginning \/ Drawn \/ Ending
    BY <1>1, Strokes
  <1>4. Unspoilt
    BY <1>2, <1>3 DEF Unspoilt, Resting, Beginning, Drawn, Ending
  <1>5. y % 2 \in 0 .. 1 /\ l % 2 \in 0 .. 1
    BY <1>1, SizesAssumption DEF Flowing
  <1>6. ASSUME Ready(l), ~busy \/ y % 2 # l % 2 PROVE Ready(l)'
    <2>1. Drawn => lbuf'[l % 2] = lbuf[l % 2]
      <3>1. Drawn => y % 2 # l % 2
        BY <1>6 DEF Drawn
      <3>2. y % 2 # l % 2 => l % 2 = 1 - (y % 2)
        BY <1>5
      <3> QED
        BY <3>1, <3>2 DEF Drawn
    <2>2. lbuf'[l % 2] = lbuf[l % 2]
      BY <1>3, <2>1 DEF Resting, Beginning, Ending
    <2> QED
      BY <1>6, <2>2 DEF Ready, RowOf
  <1>7. ASSUME ~start, y = l, busy \/ Ready(l) PROVE y' = y /\ (busy' \/ Ready(l)')
    <2>1. CASE Ending
      <3>1. roz_unsupported \/ lbuf[y % 2] = RowOf(mode, y)
        BY <1>1, <2>1, EndsRight DEF Unspoilt
      <3>2. Ready(l)
        BY <1>4, <1>7, <3>1 DEF Ready, Unspoilt
      <3> QED
        BY <2>1, <3>2 DEF Ending, Ready, RowOf
    <2>2. CASE Resting
      BY <1>6, <1>7, <2>2 DEF Resting, busy
    <2> QED
      BY <1>3, <1>7, <2>1, <2>2 DEF Beginning, Drawn
  <1>8. start => busy' /\ y' = line
    BY <1>2, <1>3 DEF Resting, Beginning, Drawn, Ending, busy
  <1> QED
    BY <1>2, <1>4, <1>6, <1>7, <1>8

(* A row is shown as it stands in its bank.                                *)
LEMMA RowShown ==
  ASSUME FrameLines, Flowing, Advance, line \in 1 .. H, line - 1 \notin torn', Ready(line - 1)
  PROVE  frame'[line - 1] = ShownRow(line - 1)
  <1>1. frame' = [frame EXCEPT ![line - 1] = Shown] /\ line - 1 \in DOMAIN frame
    BY SizesAssumption DEF Advance, FrameLines
  <1>2. Shown = ShownRow(line - 1)
    BY DEF Shown, ShownBank, ShownRow, Ready
  <1> QED
    BY <1>1, <1>2

LEMMA HeldInTime ==
  ASSUME IInv, LineBuffers', Renderer, Hold, Unspoilt', InTime, [Ideal!Next]_(Ideal!vars)
  PROVE  InTime'
  <1>1. start' = FALSE /\ line' = line /\ mode' = mode
    BY DEF Hold
  <1>2. Flowing
    BY DEF IInv
  <1>3. ASSUME line < H
        PROVE  y' = line /\ (busy' \/ Ready(line)') /\ (line > 0 => Ready(line - 1)')
    <2>1. line \in 0 .. H - 1 /\ line \in Nat
      BY <1>2, <1>3, SizesAssumption DEF Flowing, VBlank
    <2>2. y' = line /\ (busy' \/ Ready(line)')
      BY <1>1, <1>2, <1>3, <2>1, ReadyKept DEF InTime, OnTime, AtEnd, Started, Flowing
    <2>3. ASSUME line > 0 PROVE Ready(line - 1)'
      <3>1. line - 1 \in 0 .. H - 1 /\ (line - 1) % 2 # line % 2
        BY <2>1, <2>3, SizesAssumption
      <3>2. Ready(line - 1) /\ (~busy \/ y % 2 # (line - 1) % 2)
        BY <1>1, <1>3, <2>1, <2>3, <3>1, ReadyKept DEF InTime, OnTime, Started
      <3> QED
        BY <1>1, <3>1, <3>2, ReadyKept
    <2> QED
      BY <2>2, <2>3
  <1>4. ASSUME line = H PROVE y' = H - 1 /\ (busy' \/ Ready(H - 1)')
    <2>1. H - 1 \in 0 .. H - 1
      BY SizesAssumption
    <2>2. ~start /\ y = H - 1 /\ (busy \/ Ready(H - 1))
      BY <1>2, <1>4, SizesAssumption DEF InTime, OnTime, AtEnd, Started, Flowing
    <2> QED
      BY <1>1, <2>1, <2>2, ReadyKept
  <1>5. Started'
    BY <1>1 DEF Started
  <1>6. OnTime'
    BY <1>1, <1>3 DEF OnTime, Ready, RowOf
  <1>7. AtEnd'
    BY <1>1, <1>4 DEF AtEnd, Ready, RowOf
  <1> QED
    BY <1>5, <1>6, <1>7 DEF InTime

LEMMA AdvancedInTime ==
  ASSUME IInv, LineBuffers', Renderer, Advance, Unspoilt', InTime, [Ideal!Next]_(Ideal!vars)
  PROVE  InTime'
  <1>1. mode' = mode /\ line' = line + 1 /\ start' = (line' < H)
    BY DEF Advance
  <1>2. Flowing /\ line \in 0 .. VBlank /\ line \in Nat /\ H \in Nat
    BY SizesAssumption DEF IInv, Flowing, VBlank
  <1>3. ASSUME NEW l \in 0 .. H - 1, l = line PROVE y' = l /\ (busy' \/ Ready(l)')
    <2>1. mode' = mode /\ line < H
      BY <1>1, <1>2, <1>3
    <2> QED
      BY <1>2, <1>3, <2>1, ReadyKept DEF InTime, OnTime, Started, Flowing
  <1>4. CASE line < H
    <2>1. PICK l \in 0 .. H - 1 : l = line /\ l \in Nat
      BY <1>2, <1>4
    <2>2. y' = l /\ (busy' \/ Ready(l)') /\ line' = l + 1
      BY <1>1, <1>3, <2>1
    <2>3. line' - 1 = l /\ (line' = H => l = H - 1)
      BY <1>1, <1>2, <2>1
    <2>4. Started'
      BY <2>2, <2>3 DEF Started, Ready, RowOf
    <2>5. OnTime'
      BY <1>1 DEF OnTime
    <2>6. AtEnd'
      BY <2>2, <2>3 DEF AtEnd, Ready, RowOf
    <2> QED
      BY <2>4, <2>5, <2>6 DEF InTime
  <1>5. CASE line >= H
    <2>1. line' # H /\ ~(line' < H)
      BY <1>1, <1>2, <1>5
    <2>2. ~start'
      BY <1>1, <2>1
    <2> QED
      BY <2>1, <2>2 DEF InTime, Started, OnTime, AtEnd
  <1> QED
    BY <1>2, <1>4, <1>5

LEMMA AdvancedDisplay ==
  ASSUME IInv, LineBuffers', Renderer, Advance, FrameLines, Unspoilt', InTime, Displayed, [Ideal!Next]_(Ideal!vars)
  PROVE  Displayed'
  <1>1. /\ mode' = mode /\ line' = line + 1 /\ line < VBlank /\ torn' = torn \cup Torn
        /\ frame' = IF line \in 1 .. H /\ line - 1 \notin torn' THEN [frame EXCEPT ![line - 1] = Shown] ELSE frame
    BY DEF Advance
  <1>2. Flowing /\ line \in 0 .. H /\ line \in Nat /\ H \in Nat /\ H > 0
    BY <1>1, SizesAssumption DEF IInv, Flowing, VBlank
  <1>3. ~(start /\ busy)
    BY <1>1, <1>2, ReadyKept, SizesAssumption
  <1>4. ASSUME NEW l \in 0 .. line - 2 PROVE l \in torn' \/ frame'[l] = ShownRow(l)
    <2>1. l \in torn \/ frame[l] = ShownRow(l)
      BY <1>1, <1>2 DEF Displayed
    <2>2. frame'[l] = frame[l]
      <3>1. l # line - 1
        BY <1>2
      <3> QED
        BY <1>1, <3>1 DEF FrameLines
    <2> QED
      BY <1>1, <2>1, <2>2
  <1>5. ASSUME line \in 1 .. H, line - 1 \notin torn' PROVE frame'[line - 1] = ShownRow(line - 1)
    <2>1. ~(line = H /\ busy)
      <3> SUFFICES ASSUME line = H, busy PROVE FALSE
        OBVIOUS
      <3>1. y = line - 1
        BY <1>2 DEF InTime, AtEnd
      <3>2. line - 1 \in Torn
        BY <1>5, <3>1 DEF Torn
      <3> QED
        BY <1>1, <1>5, <3>2
    <2>2. Ready(line - 1)
      BY <1>2, <1>3, <1>5, <2>1 DEF InTime, Started, OnTime, AtEnd, Flowing
    <2> QED
      BY <1>2, <1>5, <2>2, RowShown
  <1>6. ASSUME NEW l \in 0 .. line - 1 PROVE l \in torn' \/ frame'[l] = ShownRow(l)'
    <2>1. l \in 0 .. line - 2 \/ (l = line - 1 /\ line \in 1 .. H)
      BY <1>2
    <2>2. ShownRow(l)' = ShownRow(l)
      BY <1>1 DEF ShownRow, RowOf, s
    <2> QED
      BY <1>4, <1>5, <2>1, <2>2
  <1>7. line' - 2 = line - 1
    BY <1>1, <1>2
  <1>8. \A l \in 0 .. line' - 2 : l \in torn' \/ frame'[l] = ShownRow(l)'
    BY <1>6, <1>7
  <1> QED
    BY <1>8 DEF Displayed

LEMMA FollowedKept ==
  ASSUME IInv, LineBuffers', Followed, [Next]_vars, [Ideal!Next]_(Ideal!vars)
  PROVE  Followed'
  <1>1. FrameLines'
    <2>1. frame' = frame \/ frame' = Dark \/ frame' = [frame EXCEPT ![line - 1] = Shown]
      BY DEF Next, Reset, Raster, Hold, Advance, NewFrame, Program, vars, raster
    <2> QED
      BY <2>1 DEF Followed, FrameLines, Dark
  <1>2. CASE Reset
    BY <1>1, <1>2 DEF Reset, Followed, Unspoilt
  <1>3. CASE Renderer /\ Port /\ Raster
    <2>1. CASE Program
      <3>1. line' = H + 1 /\ ~start' /\ frame' = Dark
        BY <2>1 DEF Program, VBlank
      <3>2. ~(line' < H) /\ line' # H
        BY <3>1, SizesAssumption
      <3> QED
        BY <1>1, <3>1, <3>2 DEF Followed, InTime, Started, OnTime, AtEnd, Displayed, VBlank
    <2>2. CASE NewFrame
      <3>1. line' = 0 /\ start'
        BY <2>2 DEF NewFrame
      <3>2. 0 # H /\ ~(0 > 0) /\ 0 .. 0 - 2 = {}
        BY SizesAssumption
      <3> QED
        BY <1>1, <3>1, <3>2 DEF Followed, InTime, Started, OnTime, AtEnd, Displayed
    <2>3. CASE Hold \/ Advance
      <3> SUFFICES ASSUME Unspoilt' PROVE InTime' /\ Displayed'
        BY <1>1 DEF Followed
      <3>1. mode' = mode
        BY <2>3 DEF Hold, Advance
      <3>2. 0 \in 0 .. H - 1
        BY SizesAssumption
      <3>3. Unspoilt
        BY <1>3, <3>1, <3>2, ReadyKept
      <3>4. FrameLines /\ InTime /\ Displayed
        BY <3>3 DEF Followed
      <3>5. CASE Hold
        <4>1. line' = line /\ frame' = frame /\ torn' = torn \cup Torn
          BY <3>5 DEF Hold
        <4>2. \A l : ShownRow(l)' = ShownRow(l)
          BY <3>1 DEF ShownRow, RowOf, s
        <4>3. Displayed'
          BY <3>4, <4>1, <4>2 DEF Displayed
        <4> QED
          BY <1>3, <3>4, <3>5, <4>3, HeldInTime
      <3>6. CASE Advance
        BY <1>3, <3>4, <3>6, AdvancedInTime, AdvancedDisplay
      <3> QED
        BY <2>3, <3>5, <3>6
    <2> QED
      BY <1>3, <2>1, <2>2, <2>3 DEF Raster
  <1>4. CASE UNCHANGED vars
    BY <1>4 DEF vars, raster, flow, Followed, FrameLines, Unspoilt, InTime, Started, OnTime, AtEnd, Ready, RowOf, busy,
                Displayed, ShownRow, s
  <1> QED
    BY <1>2, <1>3, <1>4 DEF Next

-----------------------------------------------------------------------------
(* A picture turned as MAME's snapshots are and turned back again is the   *)
(* picture; one whose rows are the reference's has no different pixel.     *)
LEMMA TurnedBack ==
  ASSUME NEW m, NEW xx \in 0 .. W - 1, NEW yy \in 0 .. H - 1
  PROVE  M!rotate_from_mame(M!rotate_to_mame(Picture(m))).rgb[yy][xx] = M!to_rgb(Regs[m], M!render(Regs[m], xx, yy))
  <1> DEFINE pic  == Picture(m)
             snap == M!rotate_to_mame(pic)
  <1>1. /\ pic.h = H /\ pic.w = W
        /\ pic.rgb = [l \in 0 .. H - 1 |-> [x \in 0 .. W - 1 |-> M!to_rgb(Regs[m], M!render(Regs[m], x, l))]]
    BY DEF Picture, M!Frame
  <1> HIDE DEF pic
  <1>2. snap.h = W /\ snap.w = H /\ snap.rgb = [l \in 0 .. W - 1 |-> [x \in 0 .. H - 1 |-> pic.rgb[H - 1 - x][l]]]
    BY <1>1 DEF M!rotate_to_mame, M!Frame
  <1> HIDE DEF snap
  <1>3. M!rotate_from_mame(snap).rgb = [l \in 0 .. H - 1 |-> [x \in 0 .. W - 1 |-> snap.rgb[x][H - 1 - l]]]
    BY <1>2 DEF M!rotate_from_mame, M!Frame
  <1>4. H - 1 - yy \in 0 .. H - 1 /\ H - 1 - (H - 1 - yy) = yy
    BY SizesAssumption
  <1>5. M!rotate_from_mame(snap).rgb[yy][xx] = snap.rgb[xx][H - 1 - yy]
    BY <1>3
  <1>6. snap.rgb[xx][H - 1 - yy] = pic.rgb[yy][xx]
    BY <1>2, <1>4
  <1>7. pic.rgb[yy][xx] = M!to_rgb(Regs[m], M!render(Regs[m], xx, yy))
    BY <1>1
  <1> QED
    BY <1>5, <1>6, <1>7 DEF snap, pic

LEMMA Compared ==
  ASSUME NEW m, NEW shown,
         \A yy \in 0 .. H - 1, xx \in 0 .. W - 1 :
           shown[yy][xx] = M!to_rgb(Regs[m], M!render(Regs[m], xx, yy))
  PROVE  M!compare([w |-> W, h |-> H, rgb |-> shown], M!rotate_to_mame(Picture(m)))
           = [ok |-> TRUE, ndiff |-> 0, cells |-> <<>>]
  <1> DEFINE f     == [w |-> W, h |-> H, rgb |-> shown]
             snap  == M!rotate_to_mame(Picture(m))
             ref   == M!rotate_from_mame(snap)
             bad   == {p \in (0 .. W - 1) \X (0 .. H - 1) : f.rgb[p[2]][p[1]] # ref.rgb[p[2]][p[1]]}
             cells == {<<p[2] \div 16, p[1] \div 16>> : p \in bad}
             count == [c \in cells |-> M!Cardinality({p \in bad : <<p[2] \div 16, p[1] \div 16>> = c})]
  <1>1. snap.w = H /\ snap.h = W /\ ref.w = W /\ ref.h = H
    BY DEF Picture, M!rotate_to_mame, M!rotate_from_mame, M!Frame
  <1>2. \A yy \in 0 .. H - 1, xx \in 0 .. W - 1 : f.rgb[yy][xx] = ref.rgb[yy][xx]
    BY TurnedBack
  <1> HIDE DEF snap, ref, f
  <1>3. bad = {}
    BY <1>2
  <1> HIDE DEF bad
  <1>4. cells = {}
    BY <1>3
  <1> HIDE DEF cells
  <1>5. count = <<>>
    BY <1>4
  <1>6. \A S : M!Cardinality(S) = Cardinality(S)
    BY DEF M!Cardinality, Cardinality, M!IsFiniteSet, IsFiniteSet
  <1>7. M!Cardinality(bad) = 0
    BY <1>3, <1>6, FS_EmptySet
  <1>8. M!compare(f, snap) = [ok |-> TRUE, ndiff |-> M!Cardinality(bad), cells |-> count]
    BY <1>1, Zenon DEF M!compare, bad, cells, ref
  <1> QED
    BY <1>5, <1>7, <1>8 DEF f, snap

LEMMA ShownMatches == ASSUME IInv, Followed, NewFrame, Complete PROVE Matches
  <1>1. line = H + 1 /\ torn = {} /\ frame # Dark /\ Displayed
    BY DEF Complete, Followed, Unspoilt, VBlank
  <1>2. \A l \in 0 .. H - 1 : frame[l] = ShownRow(l)
    <2>1. line - 2 = H - 1
      BY <1>1, SizesAssumption
    <2> QED
      BY <1>1, <2>1 DEF Displayed
  <1>3. \A yy \in 0 .. H - 1, xx \in 0 .. W - 1 :
          frame[yy][xx] = M!to_rgb(Regs[mode], M!render(Regs[mode], xx, yy))
    BY <1>2 DEF ShownRow, RowOf, M!Row, X, s
  <1> QED
    BY <1>3, Compared DEF Matches

(* A frame that was shown whole, in time and of a setting the renderer     *)
(* renders as MAME does is, if the lines it finishes are the reference's,  *)
(* the picture that render_model compares with MAME's snapshot and finds   *)
(* no different pixel in: neither the two banks, of which one is shown     *)
(* while the other is drawn, nor the raster that shows a line one line     *)
(* after it was begun, puts a row where another belongs (ygv608.sv, the    *)
(* raster and the line buffer's read side).                                *)
THEOREM SnapshotFollows == Spec /\ LinesAsReference => SnapshotMatches
  <1>1. Init => Followed
    BY DEF Init, Followed, FrameLines, Unspoilt, Dark
  <1>2. IInv /\ Followed /\ [Next]_vars /\ [Ideal!Next]_(Ideal!vars) => IInv' /\ Followed'
    <2> SUFFICES ASSUME IInv, Followed, [Next]_vars, [Ideal!Next]_(Ideal!vars) PROVE IInv' /\ Followed'
      OBVIOUS
    <2>1. IInv'
      BY NextInv
    <2> QED
      BY <2>1, FollowedKept DEF IInv
  <1>3. IInv /\ Followed => (NewFrame /\ Complete => Matches)
    BY ShownMatches
  <1> QED
    BY <1>1, <1>2, <1>3, InitInv, PTL DEF Spec, LinesAsReference, SnapshotMatches, Ideal!Spec

-----------------------------------------------------------------------------
(* A line whose last phase is over is drawn as the reference draws it.     *)
Finished == st = "DONE" /\ ~roz_unsupported => lbuf[y % 2] = RowOf(mode, y)

LEMMA QuietIdle == ASSUME Flowing, LineBuffers, ~busy PROVE Ideal!Quiet
  <1> SUFFICES ASSUME NEW l \in 0 .. H - 1 PROVE lbuf[l % 2] # Drawing(l)
    BY DEF Ideal!Quiet
  <1>1. l \in Nat /\ l % 2 \in 0 .. 1
    OBVIOUS
  <1> QED
    BY <1>1, NoRow DEF LineBuffers

LEMMA StrokesRefine ==
  ASSUME IInv, IInv', roz_unsupported \in BOOLEAN, Finished, Renderer, mode' = mode
  PROVE  [Ideal!Next]_(Ideal!vars)
  <1> DEFINE bank == [n \in 0 .. 1 |-> IF busy /\ y % 2 = n THEN Drawing(y) ELSE lbuf[n]]
  <1>1. Flowing /\ LineBuffers /\ LineBuffers' /\ y \in 0 .. H - 1 /\ y \in Nat /\ y % 2 \in 0 .. 1
    BY SizesAssumption DEF IInv, Flowing
  <1>2. CASE Resting
    BY <1>2 DEF Resting, busy, Ideal!vars
  <1>3. CASE Beginning
    <2>1. PICK l \in 0 .. H - 1 : l = line /\ l % 2 \in 0 .. 1
      BY <1>1, <1>3, SizesAssumption DEF Beginning, Flowing, VBlank
    <2>2. Ideal!Quiet
      BY <1>1, <1>3, QuietIdle DEF Beginning, busy
    <2>3. bank' = [bank EXCEPT ![l % 2] = Drawing(l)]
      BY <1>3, <2>1 DEF Beginning, busy
    <2>4. Ideal!Begin(l)
      BY <1>3, <2>2, <2>3 DEF Ideal!Begin, Beginning
    <2> QED
      BY <2>1, <2>4 DEF Ideal!Next
  <1>4. CASE Drawn
    <2>1. bank' = bank
      <3> SUFFICES ASSUME NEW n \in 0 .. 1 PROVE bank'[n] = bank[n]
        OBVIOUS
      <3>1. n = y % 2 \/ n = 1 - (y % 2)
        BY <1>1
      <3> QED
        BY <1>1, <1>4, <3>1 DEF Drawn
    <2>2. roz_unsupported' = roz_unsupported \/ roz_unsupported' = TRUE
      BY <1>4, Zenon DEF Drawn
    <2> QED
      BY <2>1, <2>2 DEF Ideal!vars, Ideal!Next, Ideal!Raise
  <1>5. CASE Ending
    <2>1. PICK l \in 0 .. H - 1 : l = y /\ l \in Nat /\ l % 2 \in 0 .. 1
      BY <1>1
    <2>2. /\ busy /\ ~busy' /\ y' = y /\ lbuf' = lbuf /\ roz_unsupported' = roz_unsupported
          /\ (roz_unsupported \/ lbuf[y % 2] = RowOf(mode, y))
      BY <1>5 DEF Ending, busy, Finished
    <2>3. bank[l % 2] = Drawing(l) /\ bank'[l % 2] = lbuf[l % 2] /\ bank'[1 - (l % 2)] = bank[1 - (l % 2)]
      BY <1>1, <2>1, <2>2
    <2>4. bank'[l % 2] # Drawing(l)
      BY <1>1, <2>1, <2>3, NoRow DEF LineBuffers
    <2>5. Ideal!Finish(l)
      BY <2>1, <2>2, <2>3, <2>4 DEF Ideal!Finish
    <2> QED
      BY <2>1, <2>5 DEF Ideal!Next
  <1> QED
    BY <1>1, <1>2, <1>3, <1>4, <1>5, Strokes

LEMMA FlagBoolean ==
  ASSUME Flowing, roz_unsupported \in BOOLEAN, [Next]_vars PROVE roz_unsupported' \in BOOLEAN
  <1>1. CASE Reset
    BY <1>1 DEF Reset
  <1>2. CASE Renderer
    BY <1>2, Strokes DEF Resting, Beginning, Drawn, Ending
  <1>3. CASE UNCHANGED vars
    BY <1>3 DEF vars, flow
  <1> QED
    BY <1>1, <1>2, <1>3 DEF Next

LEMMA StepRefines ==
  ASSUME IInv, IInv', roz_unsupported \in BOOLEAN, Finished, [Next]_vars PROVE [Ideal!Next]_(Ideal!vars)
  <1> DEFINE bank == [n \in 0 .. 1 |-> IF busy /\ y % 2 = n THEN Drawing(y) ELSE lbuf[n]]
  <1>1. CASE Reset
    <2>1. mode' = 0 /\ ~busy' /\ lbuf' = [n \in 0 .. 1 |-> Blank] /\ roz_unsupported' = FALSE
      BY <1>1 DEF Reset, busy
    <2>2. bank' = [n \in 0 .. 1 |-> Blank]
      BY <2>1
    <2>3. Blank' = Blank
      BY DEF Blank, X, Unknown
    <2> QED
      BY <2>1, <2>2, <2>3 DEF Ideal!Next, Ideal!Clear
  <1>2. CASE Renderer /\ Raster
    <2>1. CASE mode' = mode
      BY <1>2, <2>1, StrokesRefine
    <2>2. CASE mode' # mode
      <3>1. Program
        BY <1>2, <2>2 DEF Raster, Hold, Advance, NewFrame
      <3>2. Flowing /\ LineBuffers /\ ~busy /\ ~start
        BY <3>1, SizesAssumption DEF IInv, Flowing, Program, VBlank
      <3>3. ~busy' /\ lbuf' = lbuf /\ roz_unsupported' = roz_unsupported
        BY <1>2, <3>2, Strokes DEF Resting, Beginning, Drawn, Ending, busy
      <3>4. Ideal!Quiet
        BY <3>2, QuietIdle
      <3>5. bank' = bank
        BY <3>2, <3>3
      <3>6. Ideal!Program
        BY <3>1, <3>3, <3>4, <3>5 DEF Program, Ideal!Program
      <3> QED
        BY <3>6 DEF Ideal!Next
    <2> QED
      BY <2>1, <2>2
  <1>3. CASE UNCHANGED vars
    BY <1>3 DEF vars, raster, flow, busy, Ideal!vars
  <1> QED
    BY <1>1, <1>2, <1>3 DEF Next

(* What is left of the refinement is the drawing of one line: if every     *)
(* line whose last phase is over holds the reference's row, the renderer   *)
(* implements the line buffer that the raster relies on.  Through resets   *)
(* in the middle of a line, settings that are written between frames,      *)
(* lines begun late and planes it does not render as MAME does, it draws   *)
(* into the bank of the line's parity only and leaves a finished line      *)
(* alone until the next of its parity (ygv608_render.sv, S_IDLE to         *)
(* S_DONE).                                                                *)
THEOREM LinesFollow == Spec /\ []Finished => LinesAsReference
  <1> DEFINE FInv == IInv /\ roz_unsupported \in BOOLEAN
  <1>1. Init => FInv /\ Ideal!Init
    <2> SUFFICES ASSUME Init PROVE FInv /\ Ideal!Init
      OBVIOUS
    <2>1. mode = 0 /\ ~busy /\ lbuf = [n \in 0 .. 1 |-> Blank] /\ roz_unsupported = FALSE
      BY DEF Init, busy
    <2> QED
      BY <2>1, InitInv DEF Ideal!Init
  <1>2. FInv /\ [Next]_vars => FInv'
    BY NextInv, FlagBoolean DEF IInv
  <1>3. FInv /\ FInv' /\ Finished /\ [Next]_vars => [Ideal!Next]_(Ideal!vars)
    BY StepRefines
  <1> QED
    BY <1>1, <1>2, <1>3, PTL DEF Spec, LinesAsReference, Ideal!Spec
=============================================================================
