----------------------------- MODULE YgvRender -----------------------------
(***************************************************************************)
(* rtl/ygv608_render.sv: the line renderer, with the raster that starts it *)
(* and shows its lines (rtl/ygv608.sv) and the pattern port's burst client *)
(* (target/pocket/ncv1_mem.sv), against the picture of tools/              *)
(* render_model.py.                                                        *)
(*                                                                         *)
(* A step is a clock of the renderer or a run of clocks in which nobody    *)
(* else can tell one from the next: a tile's lookup, the writing of a      *)
(* tile's pixels, a fill.  The pattern port answers when it likes, the     *)
(* raster moves on when it likes.  Pixels are sequences of pens instead of *)
(* packed words; the registers are those of RenderModel's state, named as  *)
(* in ygv608.sv.                                                           *)
(***************************************************************************)
EXTENDS Integers, Sequences, FiniteSets

CONSTANTS
  W, H, Entries, FracBits, ChipByte(_, _),   \* as in RenderModel
  Regs                                       \* the register settings; the one after a reset is Regs[0]

M == INSTANCE RenderModel
One  == M!One
Wrap == M!Wrap

Byte  == 0 .. 255
Names == 0 .. 4095                           \* the bytes of the pattern name table

(* The widths of the registers and tables.                                 *)
Widths(r) ==
  /\ r.pattern_name_table \in [Names -> Byte] /\ r.scroll \in [0 .. 1 -> [0 .. 255 -> Byte]]
  /\ r.base_addr \in [0 .. 1 -> [0 .. 7 -> 0 .. 7]]
  /\ r.sprites \in [0 .. Entries - 1 -> [sx : Byte, sy : Byte, attr : Byte, name : Byte]]
  /\ r.col_shift \in 0 .. 15 /\ r.v_div_size \in 0 .. 7 /\ r.sprite_bank \in Byte /\ r.sprite_aux_reg \in 0 .. 3
  /\ r.planeA_color_fetch \in 0 .. 7 /\ r.planeB_color_fetch \in 0 .. 7 /\ r.sprite_color_fetch \in 0 .. 3
  /\ r.border_color \in Byte /\ r.namcond1_gfxbank \in 0 .. 3
  /\ \A v \in {r.ax, r.ay, r.dx, r.dy, r.dxy, r.dyx} : v \in 0 .. Wrap - 1

ASSUME SizesAssumption == W \in Nat \ {0} /\ H \in Nat \ {0} /\ Entries \in Nat \ {0} /\ FracBits \in Nat
ASSUME RegsAssumption  == 0 \in DOMAIN Regs /\ \A m \in DOMAIN Regs : Widths(Regs[m])

(* A chip's units of four bytes; a burst of 64 may begin at the last one.  *)
ChipSize  == 524288
ChipUnits == 0 .. ChipSize - 1
ReadUnits == 0 .. ChipSize + 62
ASSUME RomAssumption   == \A chip \in 0 .. 1, u \in ReadUnits, i \in 0 .. 3 : ChipByte(chip, 4 * u + i) \in Byte

VARIABLES
  mode,                                      \* which setting the CPU has written
  line, start, frame, torn,                  \* the raster; history: what it showed
  st, phase, y, overrun, roz_unsupported,
  plane, pl, k, tile, fidx, rowbuf,          \* a plane: its scrolls, the tile being drawn
  si, spr,                                   \* a sprite
  rx, roz, rpix, tile_valid, roz_fetch, roz_off, tbuf,
  lbuf,
  pat_req, pat_addr, pat_len, pat_wr, pat_idx, pat_ack, pat_q,
  bst, burst                                     \* the burst client and its burst

raster   == <<mode, line, start, frame, torn>>
planes   == <<plane, pl, k>>
fetching == <<tile, fidx, rowbuf>>
sprites  == <<si, spr>>
rotation == <<rx, roz, rpix, tile_valid, roz_off>>
request  == <<pat_req, pat_addr, pat_len, roz_fetch>>
answer   == <<pat_wr, pat_idx, pat_ack, pat_q, bst, burst>>
flow     == <<st, phase, y, roz_unsupported>>
vars == <<raster, flow, overrun, planes, fetching, sprites, rotation, tbuf, lbuf, request, answer>>

s == Regs[mode]
busy == st # "IDLE"
X == 0 .. W - 1
(* The two RAMs are not reset.  What they hold then is taken to be one     *)
(* value, odd enough for a line that used it to differ.                    *)
Unknown == 165
Blank   == [x \in X |-> Unknown]
NoUnit  == [i \in 1 .. 4 |-> Unknown]
Nothing == <<>>
NoTile == [code |-> 0, colour |-> 0, flipx |-> FALSE, flipy |-> FALSE, is8 |-> FALSE, col |-> 0, row |-> 0, py |-> 0]
NoSprite == [n |-> 0, row |-> 0, flipx |-> FALSE, code |-> 0, size |-> 0, colour |-> 0, xpos |-> 0]
NoScroll == [rs16 |-> 0, cs16 |-> 0, xr |-> 0, ty |-> 0]
NoCoord  == [x |-> 0, y |-> 0]
NoPixel  == [x |-> 0, y |-> 0, inside |-> FALSE]
NoBurst  == [chip |-> 0, at |-> 0, len |-> 0, n |-> 0]
VBlank   == H + 1                \* line 0 is drawn in raster line 0, shown in raster line 1
Dark     == [l \in 0 .. H - 1 |-> Nothing]

Init ==
  /\ mode = 0 /\ line = VBlank /\ start = FALSE /\ frame = Dark /\ torn = {}
  /\ st = "IDLE" /\ phase = 0 /\ y = 0 /\ overrun = FALSE /\ roz_unsupported = FALSE
  /\ plane = 0 /\ pl = NoScroll /\ k = 0 /\ tile = NoTile /\ fidx = 0 /\ rowbuf = Nothing
  /\ si = 0 /\ spr = NoSprite
  /\ rx = 0 /\ roz = NoCoord /\ rpix = NoPixel /\ tile_valid = FALSE /\ roz_fetch = FALSE /\ roz_off = 0
  /\ tbuf = [u \in 0 .. 63 |-> NoUnit] /\ lbuf = [n \in 0 .. 1 |-> Blank]
  /\ pat_req = FALSE /\ pat_addr = 0 /\ pat_len = 1
  /\ pat_wr = FALSE /\ pat_idx = 0 /\ pat_ack = FALSE /\ pat_q = Nothing /\ bst = "IDLE" /\ burst = NoBurst

AddressSpace == 2097152          \* pat_addr is 21 bits wide
Addresses == 0 .. AddressSpace - 1
TypeOK ==
  /\ mode \in DOMAIN Regs /\ line \in 0 .. VBlank /\ y \in 0 .. H - 1 /\ phase \in 0 .. 7
  /\ st \in {"IDLE", "PHASE", "FILL", "PLANE", "TILE", "T_FETCH", "T_WAIT", "T_WRITE", "SP_INIT", "SP_READ", "SP_FETCH",
             "SP_WAIT", "SP_WRITE", "SP_NEXT", "R_A", "R_B", "R_FETCH", "R_WAIT", "DONE"}
  /\ fidx \in 0 .. 7 /\ rx \in 0 .. W
  /\ pat_len \in {1, 2, 8, 9, 16, 18, 32, 64} /\ pat_addr \in Addresses
  /\ \A n \in 0 .. 1 : \A x \in X : lbuf[n][x] \in 0 .. 255

-----------------------------------------------------------------------------
(* The mode, decoded from the registers.                                   *)
two_planes   == s.md < 2
bits16       == s.md # 0
pts16        == s.pattern_size # 0
page_x       == IF s.md = 1 \/ s.page_size = 1 THEN 32 ELSE 64
page_y       == IF s.md # 1 /\ s.page_size = 1 THEN 64 ELSE 32
ts           == IF pts16 THEN 16 ELSE 8
tw           == page_x * ts
th           == page_y * ts
row_scroll_mode == s.h_div_size # 0
identity     == s.dx = One /\ s.dy = One /\ s.dxy = 0 /\ s.dyx = 0 /\ s.roz_wrap_disable = 0

Slice(n, hi, lo) == (n \div 2^lo) % 2^(hi - lo + 1)

(* The block of 8 x 8 in a larger tile.                                    *)
morton(bx, by) == LET bits == <<bx % 2, by % 2, Slice(bx, 1, 1), Slice(by, 1, 1), Slice(bx, 2, 2), Slice(by, 2, 2)>>
                  IN  bits[1] + 2 * bits[2] + 4 * bits[3] + 8 * bits[4] + 16 * bits[5] + 32 * bits[6]

pnt_index(row, col, p) ==
  LET i == row * page_x + col + (IF p = 1 THEN page_y * page_x ELSE 0) IN IF bits16 THEN (2 * i) % 8192 ELSE i

col_div(col) == IF Slice(s.v_div_size, 2, 2) = 1 THEN 2 * ((col \div 2^s.col_shift) % 64) ELSE 0

page_calc(col, row) ==
  LET px == (pl.rs16 % 4096) + col * ts
      py == (pl.cs16 % 4096) + row * ts
  IN  Slice(IF ~pts16 THEN IF s.md = 1 THEN Slice(px, 9, 8) + 4 * Slice(py, 10, 8)
                           ELSE IF s.page_size = 1 THEN Slice(px, 10, 9) + 4 * Slice(py, 10, 8)
                           ELSE Slice(px, 10, 8) + 8 * Slice(py, 10, 9)
            ELSE IF s.md = 1 THEN Slice(px, 10, 9) + 4 * Slice(py, 12, 9)
            ELSE IF s.page_size = 1 THEN Slice(px, 12, 9) + 8 * Slice(py, 12, 10)
            ELSE Slice(px, 12, 10) + 4 * Slice(py, 12, 9), 4, 0)

sdt(i) == s.scroll[plane][i]

(* A tile's number and looks (S_T_PAGE0 .. S_T_CODE2).                     *)
Lookup(col, row) ==
  LET idx   == pnt_index(row, col, plane)
      even  == s.pattern_name_table[(2 * (idx \div 2)) % 4096]
      odd   == s.pattern_name_table[(2 * (idx \div 2) + 1) % 4096]
      is8   == plane = 0 /\ s.md = 3
      pg    == sdt(192 + IF s.v_div_size = 0 THEN page_calc(col, row) ELSE 0)
      ba    == s.base_addr[plane][IF page_y # 32 THEN Slice(row, 5, 3) ELSE Slice(row, 4, 2)]
      lo    == IF bits16 \/ idx % 2 = 0 THEN even ELSE odd
      hi    == IF ~bits16 THEN 0 ELSE IF s.flip = 1 THEN odd % 4 ELSE odd % 16
      sum   == hi * 256 + lo + pg * (IF pts16 THEN 256 ELSE 1024) + ba * 256
      elems == (IF pts16 THEN 65536 ELSE 262144) \div (IF is8 THEN 2 ELSE 1)
      j     == IF sum >= elems THEN 0 ELSE sum
      cf    == IF plane = 1 THEN s.planeB_color_fetch ELSE s.planeA_color_fetch
      flips == s.flip = 1 /\ bits16
  IN  IF col >= page_x \/ row >= page_y THEN [NoTile EXCEPT !.is8 = is8, !.col = col, !.row = row]
      ELSE [code |-> j + s.namcond1_gfxbank * (elems \div 4), is8 |-> is8, col |-> col, row |-> row, py |-> 0,
            colour |-> IF is8 THEN 0
                       ELSE IF cf # 0 THEN Slice(j \div 4^(IF pts16 THEN cf ELSE cf - 1), 3, 0)
                       ELSE IF bits16 THEN odd \div 16 ELSE 0,
            flipx |-> flips /\ Slice(odd, 3, 3) = 1, flipy |-> flips /\ Slice(odd, 2, 2) = 1]

nfetch == (IF tile.is8 THEN 2 ELSE 1) * (IF pts16 THEN 2 ELSE 1)
Flip(t, on) == IF on THEN ts - 1 - t ELSE t

(* What plane `plane' puts on the line for a pen: an index, or nothing.    *)
Plotted(pen) ==
  LET idx == IF plane = 0 /\ pen = s.border_color THEN 0 ELSE IF tile.is8 THEN pen ELSE tile.colour * 16 + pen
      transparent == IF plane = 1 THEN s.planeB_trans_enable = 1 ELSE s.planeA_trans_enable = 1
  IN  IF transparent /\ idx = 0 THEN {} ELSE {idx}

Only(S) == CHOOSE v \in S : TRUE
Draw(new(_)) == lbuf' = [lbuf EXCEPT ![y % 2] = [x \in X |-> IF new(x) = {} THEN lbuf[y % 2][x] ELSE Only(new(x))]]

Nibbles(q) == <<q[1] \div 16, q[1] % 16, q[2] \div 16, q[2] % 16, q[3] \div 16, q[3] % 16, q[4] \div 16, q[4] % 16>>
Pens(q)    == IF tile.is8 THEN q ELSE Nibbles(q)

Ask(addr, len) == pat_req' = TRUE /\ pat_addr' = addr % AddressSpace /\ pat_len' = len

-----------------------------------------------------------------------------
(* The line: the phases, in the order of the reference picture.            *)
Idle  == st = "IDLE" /\ ~start /\ UNCHANGED <<flow, planes, fetching, sprites, rotation, lbuf, request>>
Begin == /\ st = "IDLE" /\ start
         /\ y' = line /\ phase' = 0 /\ st' = "PHASE"
         /\ UNCHANGED <<roz_unsupported, planes, fetching, sprites, rotation, lbuf, request>>

PhaseWraps == (phase + 1) % 5               \* fault variant: no phase 5
NextPhase  == phase + 1
Phase ==
  /\ st = "PHASE" /\ phase' = NextPhase
  /\ \/ phase = 0 /\ st' = IF two_planes /\ s.dspe = 1 /\ s.planeB_trans_enable = 0 THEN "PHASE" ELSE "FILL"
     \/ phase = 1 /\ st' = IF two_planes /\ s.dspe = 1 THEN "PLANE" ELSE "PHASE"
     \/ phase = 2 /\ st' = IF s.priority_mode % 2 = 1 THEN "SP_INIT" ELSE "PHASE"
     \/ phase = 3 /\ st' = IF s.dspe = 1 THEN "PLANE" ELSE IF s.planeA_trans_enable = 0 THEN "FILL" ELSE "PHASE"
     \/ phase = 4 /\ st' = IF s.priority_mode % 2 = 1 THEN "PHASE" ELSE "SP_INIT"
     \/ phase > 4 /\ st' = "DONE"
  /\ plane' = IF phase = 1 THEN 1 ELSE IF phase = 3 THEN 0 ELSE plane
  /\ UNCHANGED <<y, roz_unsupported, pl, k, fetching, sprites, rotation, lbuf, request>>

Fill ==
  /\ st = "FILL" /\ st' = "PHASE"
  /\ LET cur_fill(x) == {IF phase = 1 THEN s.border_color ELSE 0} IN Draw(cur_fill)
  /\ UNCHANGED <<phase, y, roz_unsupported, planes, fetching, sprites, rotation, request>>

(* Every step sets st' and phase stays.                                    *)
To(next) == st' = next /\ UNCHANGED <<phase, y>>

Word(i) == sdt(i) + sdt(i + 1) * 256

Plane ==
  /\ st = "PLANE" /\ s.zron = 0 /\ To("TILE") /\ k' = 0
  /\ LET rs  == Word(128)
         cs  == Word(0)
         ty  == (y + cs) % th
         row == ty \div ts
     IN  pl' = [rs16 |-> rs, cs16 |-> cs, ty |-> ty,
                xr |-> (IF row_scroll_mode THEN Word(128 + 2 * (row % (page_y \div 2))) ELSE rs) % tw]
  /\ UNCHANGED <<roz_unsupported, plane, fetching, sprites, rotation, lbuf, request>>

-----------------------------------------------------------------------------
(* An upright plane: tile by tile.                                         *)
Tile ==
  /\ st = "TILE" /\ To("T_FETCH")
  /\ LET col == (pl.xr \div ts + k) % page_x
         ty  == IF row_scroll_mode THEN pl.ty ELSE (y + Word(col_div(col))) % th
     IN  tile' = [Lookup(col, ty \div ts) EXCEPT !.py = ty % ts]
  /\ fidx' = 0 /\ rowbuf' = Nothing
  /\ UNCHANGED <<roz_unsupported, planes, sprites, rotation, lbuf, request>>

TFetch ==
  /\ st = "T_FETCH" /\ To("T_WAIT")
  /\ LET py  == Flip(tile.py, tile.flipy)
         blk == IF tile.is8 THEN 2 * Slice(py, 3, 3) + Slice(fidx, 1, 1) ELSE morton(fidx, Slice(py, 3, 3))
     IN  Ask(IF tile.is8 THEN IF pts16 THEN tile.code * 64 + blk * 16 + (py % 8) * 2 + (fidx % 2)
                              ELSE tile.code * 16 + py * 2 + fidx
             ELSE IF pts16 THEN tile.code * 32 + blk * 8 + (py % 8) ELSE tile.code * 8 + py, 1)
  /\ UNCHANGED <<roz_unsupported, planes, fetching, sprites, rotation, lbuf, roz_fetch>>

Wait == st \in {"T_WAIT", "SP_WAIT", "R_WAIT"} /\ ~pat_ack
        /\ UNCHANGED <<flow, planes, fetching, sprites, rotation, lbuf, request>>

TAnswer ==
  /\ st = "T_WAIT" /\ pat_ack /\ pat_req' = FALSE
  /\ rowbuf' = rowbuf \o Pens(pat_q)
  /\ IF fidx + 1 = nfetch THEN To("T_WRITE") /\ UNCHANGED fidx ELSE To("T_FETCH") /\ fidx' = fidx + 1
  /\ UNCHANGED <<roz_unsupported, planes, tile, sprites, rotation, lbuf, pat_addr, pat_len, roz_fetch>>

TWrite ==
  /\ st = "T_WRITE"
  /\ LET xpos   == k * ts - (pl.xr % ts)
         new(x) == IF x - xpos \in 0 .. ts - 1 THEN Plotted(rowbuf[1 + Flip(x - xpos, tile.flipx)]) ELSE {}
     IN  Draw(new)
  /\ IF k = W \div ts THEN To("PHASE") /\ UNCHANGED k ELSE To("TILE") /\ k' = k + 1
  /\ UNCHANGED <<roz_unsupported, plane, pl, fetching, sprites, rotation, request>>

-----------------------------------------------------------------------------
(* The sprites, from the last entry to the first.                          *)
SpInit ==
  /\ st = "SP_INIT"
  /\ IF s.dspe = 0 \/ s.sprite_disable = 1 THEN To("PHASE") /\ UNCHANGED si ELSE To("SP_READ") /\ si' = Entries - 1
  /\ UNCHANGED <<roz_unsupported, planes, fetching, spr, rotation, lbuf, request>>

(* What an entry of the attribute table says: the size and the flips, of which the  *)
(* entry holds one and the register the other; the rows it reaches, a sprite over   *)
(* the edge from both sides of it; and what the row of this line is drawn from.     *)
SpSize(e)  == IF s.sprite_aux_mode = 0 THEN s.sprite_aux_reg ELSE Slice(e.attr, 3, 2)
SpFlips(e) == IF s.sprite_aux_mode = 0 THEN Slice(e.attr, 3, 2) ELSE s.sprite_aux_reg
SpSide(e)  == 8 * 2^SpSize(e)
SpTop(e)   == (Slice(e.attr, 0, 0) * 256 + e.sy + 1) % 512
SpHit(e)   == \/ y >= SpTop(e) /\ y - SpTop(e) < SpSide(e)
              \/ SpTop(e) > 512 - SpSide(e) /\ y + 512 - SpTop(e) < SpSide(e)
SpRow(e)   == LET yy == IF y >= SpTop(e) THEN y - SpTop(e) ELSE y + 512 - SpTop(e)
              IN  IF SpFlips(e) % 2 = 1 THEN SpSide(e) - 1 - yy ELSE yy
SpName(e)  == (s.sprite_bank \div 4^SpSize(e)) * 256 + e.name
SpColour(e) == IF s.sprite_color_fetch = 0 THEN e.attr \div 16
               ELSE Slice(SpName(e) \div 4^(s.sprite_color_fetch + SpSize(e) - 1), 3, 0)
SpLeft(e)  == LET sx == Slice(e.attr, 1, 1) * 256 + e.sx IN IF sx > 512 - SpSide(e) THEN sx - 512 ELSE sx
Sprite(e)  == [size |-> SpSize(e), n |-> SpSide(e), flipx |-> SpFlips(e) >= 2,
               row |-> IF SpHit(e) THEN SpRow(e) ELSE 0,
               code |-> SpName(e) + s.namcond1_gfxbank * (65536 \div 4^SpSize(e)),
               colour |-> SpColour(e), xpos |-> SpLeft(e)]

SpRead ==
  /\ st = "SP_READ"
  /\ spr' = Sprite(s.sprites[si]) /\ fidx' = 0
  /\ IF SpHit(s.sprites[si]) THEN To("SP_FETCH") ELSE To("SP_NEXT")
  /\ UNCHANGED <<roz_unsupported, planes, tile, rowbuf, si, rotation, lbuf, request>>

SpFetch ==
  /\ st = "SP_FETCH" /\ To("SP_WAIT")
  /\ Ask((spr.code * 4^spr.size + morton(fidx, spr.row \div 8)) * 8 + (spr.row % 8), 1)
  /\ UNCHANGED <<roz_unsupported, planes, fetching, sprites, rotation, lbuf, roz_fetch>>

SpAnswer ==
  /\ st = "SP_WAIT" /\ pat_ack /\ To("SP_WRITE") /\ pat_req' = FALSE
  /\ rowbuf' = Nibbles(pat_q)
  /\ UNCHANGED <<roz_unsupported, planes, tile, fidx, sprites, rotation, lbuf, pat_addr, pat_len, roz_fetch>>

SpWrite ==
  /\ st = "SP_WRITE"
  /\ LET at(x)  == (IF spr.flipx THEN spr.n - 1 - (x - spr.xpos) ELSE x - spr.xpos) - 8 * fidx
         new(x) == IF at(x) \in 0 .. 7 /\ rowbuf[1 + at(x)] # 0 THEN {spr.colour * 16 + rowbuf[1 + at(x)]} ELSE {}
     IN  Draw(new)
  /\ IF fidx + 1 = spr.n \div 8 THEN To("SP_NEXT") /\ UNCHANGED fidx ELSE To("SP_FETCH") /\ fidx' = fidx + 1
  /\ UNCHANGED <<roz_unsupported, planes, tile, rowbuf, sprites, rotation, request>>

SpNext ==
  /\ st = "SP_NEXT"
  /\ IF si = 0 THEN To("PHASE") /\ UNCHANGED si ELSE To("SP_READ") /\ si' = si - 1
  /\ UNCHANGED <<roz_unsupported, planes, fetching, spr, rotation, lbuf, request>>

-----------------------------------------------------------------------------
(* A rotated plane: pixel by pixel, through the tile last fetched.         *)
RSetup ==
  /\ st = "PLANE" /\ s.zron = 1 /\ To("R_A")
  /\ LET start0(v) == IF s.v_div_size = 0 THEN v % 4096 ELSE IF v % 512 # 0 THEN (v % 4096) - 512 ELSE 0
     IN  roz' = [x |-> (s.ax + (start0(Word(128)) % 65536) * One + s.dxy * y) % Wrap,
                 y |-> (s.ay + (start0(Word(0)) % 65536) * One + s.dy * y) % Wrap]
  /\ roz_unsupported' = (roz_unsupported \/ (identity /\ s.ay \div One # 0) \/ (plane = 1 /\ s.roz_wrap_disable = 1))
  /\ pl' = [NoScroll EXCEPT !.rs16 = Word(128), !.cs16 = Word(0)]
  /\ rx' = 0 /\ tile_valid' = FALSE
  /\ UNCHANGED <<plane, k, fetching, sprites, rpix, roz_off, lbuf, request>>

RA ==
  /\ st = "R_A" /\ To("R_B")
  /\ rpix' = [x |-> (roz.x \div One) % tw, y |-> (roz.y \div One) % th,
              inside |-> s.roz_wrap_disable = 0 \/ (roz.x < tw * One /\ roz.y < th * One)]
  /\ roz' = [x |-> (roz.x + s.dx) % Wrap, y |-> (roz.y + s.dyx) % Wrap]
  /\ UNCHANGED <<roz_unsupported, planes, fetching, sprites, rx, tile_valid, roz_off, lbuf, request>>

OnRx(vals) == LET new(x) == IF x = rx THEN vals ELSE {} IN Draw(new)

LastPixel == rx = W - 1
RPlotted == /\ rx' = rx + 1 /\ To(IF LastPixel THEN "PHASE" ELSE "R_A")
            /\ UNCHANGED <<roz_unsupported, planes, fetching, sprites, rpix, roz, tile_valid, roz_off, request>>

ROutside == /\ st = "R_B" /\ ~rpix.inside
            /\ OnRx(IF plane = 0 /\ s.planeA_trans_enable = 0 THEN {0} ELSE {})
            /\ RPlotted

Hit == tile_valid /\ tile.col = rpix.x \div ts /\ tile.row = rpix.y \div ts
RHit ==
  /\ st = "R_B" /\ rpix.inside /\ Hit
  /\ LET px == Flip(rpix.x % ts, tile.flipx)
         py == Flip(rpix.y % ts, tile.flipy)
         unit == IF tile.is8 THEN 32 * (py \div 8) + 16 * (px \div 8) + 2 * (py % 8) + (px % 8) \div 4
                 ELSE 16 * (py \div 8) + 8 * (px \div 8) + (py % 8)
         q == tbuf[IF pts16 THEN unit ELSE unit % 16]
     IN  OnRx(Plotted(IF tile.is8 THEN q[1 + (px % 4)] ELSE Nibbles(q)[1 + (px % 8)]))
  /\ RPlotted

RMiss ==
  /\ st = "R_B" /\ rpix.inside /\ ~Hit /\ To("R_FETCH")
  /\ tile' = [Lookup(rpix.x \div ts, rpix.y \div ts) EXCEPT !.py = rpix.y % ts]
  /\ tile_valid' = FALSE
  /\ UNCHANGED <<roz_unsupported, planes, fidx, rowbuf, sprites, rx, roz, rpix, roz_off, lbuf, request>>

(* Without a y step only the units of one row of texels are asked for.     *)
OneBlock(py, units)  == (py % 8) * (IF tile.is8 THEN 2 ELSE 1)     \* fault variant: always the upper blocks' row
RowOffset(py, units) == (py \div 8) * (units \div 2) + (py % 8) * (IF tile.is8 THEN 2 ELSE 1)
RFetch ==
  /\ st = "R_FETCH" /\ To("R_WAIT") /\ roz_fetch' = TRUE
  /\ LET units == 8 * nfetch * (IF pts16 THEN 2 ELSE 1)
         off   == RowOffset(Flip(tile.py, tile.flipy), units)
         row   == (IF tile.is8 THEN 2 ELSE 1) * (IF pts16 THEN 9 ELSE 1)
     IN  IF s.dyx = 0 THEN roz_off' = off /\ Ask(tile.code * units + off, row)
                      ELSE roz_off' = 0 /\ Ask(tile.code * units, units)
  /\ UNCHANGED <<roz_unsupported, planes, fetching, sprites, rx, roz, rpix, tile_valid, lbuf>>

RAnswer ==
  /\ st = "R_WAIT" /\ pat_ack /\ To("R_B") /\ pat_req' = FALSE /\ roz_fetch' = FALSE
  /\ tile_valid' = TRUE
  /\ UNCHANGED <<roz_unsupported, planes, fetching, sprites, rx, roz, rpix, roz_off, lbuf, pat_addr, pat_len>>

Done == st = "DONE" /\ To("IDLE") /\ UNCHANGED <<roz_unsupported, planes, fetching, sprites, rotation, lbuf, request>>

(* What every clock does beside the state machine.                         *)
OverrunNow == start /\ busy                 \* fault variant: not sticky
Overrun    == overrun \/ (start /\ busy)
Beside == /\ overrun' = Overrun
          /\ tbuf' = IF pat_wr /\ roz_fetch THEN [tbuf EXCEPT ![(pat_idx + roz_off) % 64] = pat_q] ELSE tbuf

Renderer == /\ Beside
            /\ \/ Idle \/ Begin \/ Phase \/ Fill \/ Plane \/ Tile \/ TFetch \/ Wait \/ TAnswer \/ TWrite
               \/ SpInit \/ SpRead \/ SpFetch \/ SpAnswer \/ SpWrite \/ SpNext
               \/ RSetup \/ RA \/ ROutside \/ RHit \/ RMiss \/ RFetch \/ RAnswer \/ Done

-----------------------------------------------------------------------------
(* The burst client: a request's units in order, then one acknowledge.     *)
Unit(chip, offset) == [i \in 1 .. 4 |-> ChipByte(chip, 4 * offset + (i - 1))]
Quiet == pat_wr' = FALSE /\ pat_ack' = FALSE

PortIdle == bst = "IDLE" /\ ~(pat_req /\ ~pat_ack) /\ Quiet /\ pat_q' = Nothing /\ UNCHANGED <<pat_idx, bst, burst>>
PortTake == /\ bst = "IDLE" /\ pat_req /\ ~pat_ack /\ Quiet
            /\ bst' = "RUN" /\ pat_q' = Nothing
            /\ burst' = [chip |-> Slice(pat_addr, 20, 20), at |-> pat_addr % ChipSize, len |-> pat_len, n |-> 0]
            /\ UNCHANGED pat_idx
PortUnit == /\ bst = "RUN" /\ burst.n < burst.len
            /\ pat_wr' = TRUE /\ pat_idx' = burst.n % 64 /\ pat_q' = Unit(burst.chip, burst.at + burst.n)
            /\ burst' = [burst EXCEPT !.n = @ + 1]
            /\ pat_ack' = FALSE /\ UNCHANGED bst
PortStall == bst = "RUN" /\ burst.n < burst.len /\ Quiet /\ UNCHANGED <<pat_idx, pat_q, bst, burst>>
PortDone == bst = "RUN" /\ burst.n = burst.len /\ Quiet /\ bst' = "ACK" /\ burst' = NoBurst /\ UNCHANGED <<pat_idx, pat_q>>
PortAck  == bst = "ACK" /\ pat_ack' = TRUE /\ pat_wr' = FALSE /\ bst' = "IDLE" /\ UNCHANGED <<pat_idx, pat_q, burst>>

Port == PortIdle \/ PortTake \/ PortUnit \/ PortStall \/ PortDone \/ PortAck

-----------------------------------------------------------------------------
(* The raster: it enters a line and starts the renderer, and it shows the  *)
(* line before.                                                            *)
DrawnBank == line % 2                       \* fault variant: the bank of the line being drawn
ShownBank == (line - 1) % 2
Shown == [x \in X |-> M!to_rgb(s, lbuf[ShownBank][x])]
Torn  == IF line \in 1 .. H /\ busy /\ y = line - 1 THEN {y} ELSE {}

Hold == start' = FALSE /\ torn' = torn \cup Torn /\ UNCHANGED <<mode, line, frame>>
Advance ==
  /\ ~overrun /\ line < VBlank                   \* bound: after an overrun the raster stands still
  /\ line' = line + 1 /\ start' = (line' < H)
  /\ torn' = torn \cup Torn /\ UNCHANGED mode
  /\ frame' = IF line \in 1 .. H /\ line - 1 \notin torn' THEN [frame EXCEPT ![line - 1] = Shown] ELSE frame

(* A frame begins once the last line is drawn: the vertical blank is long. *)
NewFrame == /\ line = VBlank /\ ~busy /\ bst = "IDLE" /\ ~overrun
            /\ line' = 0 /\ start' = TRUE /\ torn' = {} /\ frame' = Dark /\ UNCHANGED mode

(* The CPU writes its setting in the vertical blank.  After a reset it has *)
(* to start first, which takes longer than what is left of a burst.        *)
Program == /\ mode = 0 /\ line = VBlank /\ ~busy /\ bst = "IDLE" /\ ~pat_ack
           /\ mode' \in DOMAIN Regs \ {0}
           /\ start' = FALSE /\ frame' = Dark /\ torn' = {} /\ UNCHANGED line

Raster == Hold \/ Advance \/ NewFrame \/ Program

(* A reset of the machine does not reach the memory.  Bound: it comes in   *)
(* the middle of a burst, or after an overrun.                             *)
Reset ==
  /\ mode # 0 /\ (overrun \/ burst.n = 1)
  /\ mode' = 0 /\ line' = VBlank /\ start' = FALSE /\ frame' = Dark /\ torn' = {}
  /\ st' = "IDLE" /\ phase' = 0 /\ y' = 0 /\ overrun' = FALSE /\ roz_unsupported' = FALSE
  /\ plane' = 0 /\ pl' = NoScroll /\ k' = 0 /\ tile' = NoTile /\ fidx' = 0 /\ rowbuf' = Nothing
  /\ si' = 0 /\ spr' = NoSprite
  /\ rx' = 0 /\ roz' = NoCoord /\ rpix' = NoPixel /\ tile_valid' = FALSE /\ roz_fetch' = FALSE /\ roz_off' = 0
  /\ tbuf' = [u \in 0 .. 63 |-> NoUnit] /\ lbuf' = [n \in 0 .. 1 |-> Blank]
  /\ pat_req' = FALSE /\ pat_addr' = 0 /\ pat_len' = 1
  /\ Port

Next == Reset \/ (Renderer /\ Port /\ Raster)

(* The clock runs as long as a line is drawn and some step can change the  *)
(* state: weak fairness of Next, with its ENABLED written out.  The memory *)
(* always ends a burst (SdramCtrl!EveryoneServed).                            *)
Lost == st \in {"T_WAIT", "SP_WAIT", "R_WAIT"} /\ ~pat_ack /\ ~pat_req /\ bst = "IDLE"
ClockRuns == []<>(~busy \/ Lost) \/ []<><<TRUE>>_vars
Fair == ClockRuns /\ WF_vars(PortUnit /\ Renderer /\ Raster)
Spec == Init /\ [][Next]_vars /\ Fair

-----------------------------------------------------------------------------
RowOf(m, l) == M!Row(Regs[m], l)

(* A line that is finished holds the row of the reference picture, unless  *)
(* the renderer says it does not render the setting as MAME does.          *)
Drawing(l) == [x \in X |-> -1 - l]
Ideal == INSTANCE LineBuffer WITH
           Modes <- DOMAIN Regs, Default <- 0, Lines <- 0 .. H - 1, Partial <- Drawing, flag <- roz_unsupported,
           bank <- [n \in 0 .. 1 |-> IF busy /\ y % 2 = n THEN Drawing(y) ELSE lbuf[n]]
LinesAsReference == Ideal!Spec

(* A line that is shown while it is still being drawn raises `overrun': of *)
(* all but the last line of the frame, after which no line is started.     *)
TornTold == torn \subseteq {H - 1} \/ overrun \/ (start /\ busy)
(* And every register keeps to its range.                                  *)
OverrunTells == TypeOK /\ TornTold

(* A complete frame that nothing spoilt is, when the next one begins, the  *)
(* picture that render_model compares with MAME's snapshot and finds no    *)
(* different pixel in.                                                     *)
Complete == line = VBlank /\ mode # 0 /\ frame # Dark /\ torn = {} /\ ~overrun /\ ~roz_unsupported
Picture(m) == LET px(x, yy) == M!to_rgb(Regs[m], M!render(Regs[m], x, yy)) IN M!Frame(W, H, px)
Matches ==
  M!compare([w |-> W, h |-> H, rgb |-> frame], M!rotate_to_mame(Picture(mode))) = [ok |-> TRUE, ndiff |-> 0, cells |-> <<>>]
SnapshotMatches == [][NewFrame /\ Complete => Matches]_vars

(* Every line that is begun is finished.                                   *)
LineFinishes == busy ~> ~busy
=============================================================================
