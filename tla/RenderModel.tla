---------------------------- MODULE RenderModel ----------------------------
(***************************************************************************)
(* tools/render_model.py: the reference renderer that the line renderer of *)
(* rtl/ygv608_render.sv is compared with.  A state `s' is one dump of      *)
(* tools/dump_state.lua, a record whose fields carry the dump's names      *)
(* without m_; the name, scroll and sprite tables are functions.  The      *)
(* arithmetic is the program's; what is smaller is the screen, the number  *)
(* of sprite entries and the fraction of a ROZ coordinate.                 *)
(*                                                                         *)
(* The program fills whole bitmaps; every pixel of one depends only on its *)
(* own coordinates and the pixel under it, so an operator gives one pixel. *)
(***************************************************************************)
EXTENDS Integers, Sequences, FiniteSets

CONSTANTS
  W, H,            \* the visible raster, 288 x 224
  Entries,         \* sprite entries, 64
  FracBits,        \* fraction bits of a ROZ coordinate, 16
  ChipByte(_, _)   \* the byte of character ROM 0 or 1 at an address

Bit(n, b) == (n \div 2^b) % 2
One  == 2^FracBits                          \* 1.0
Wrap == 65536 * One                         \* u32
Signed(v) == IF v % Wrap >= Wrap \div 2 THEN (v % Wrap) - Wrap ELSE v % Wrap

CHIP_SIZE   == 2097152
REGION_SIZE == 8388608

(* The gfx sets: 0-3 are 4 bits a pixel, 8 to 64 pixels wide; 4 and 5 are  *)
(* 8 bits a pixel.                                                         *)
GFX == [g \in 0 .. 5 |->
          IF g < 4 THEN [size |-> 8 * 2^g, bpp |-> 4, nbytes |-> 32 * 4^g]
                   ELSE [size |-> 8 * 2^(g - 4), bpp |-> 8, nbytes |-> 64 * 4^(g - 4)]]
elements(g) == REGION_SIZE \div GFX[g].nbytes

MD_2PLANE_16BIT   == 1
MD_1PLANE_256     == 3
one_plane(s) == s.md >= 2                   \* md & MD_1PLANE
tsize(s)     == IF s.pattern_size = 0 THEN 8 ELSE 16
tw(s)        == s.page_x * tsize(s)
th(s)        == s.page_y * tsize(s)

pal6bit(v) == (v % 64) * 4 + (v % 64) \div 16

-----------------------------------------------------------------------------
(* The pattern ROM.                                                        *)
morton(bx, by) == Bit(bx, 0) + 2 * Bit(by, 0) + 4 * Bit(bx, 1) + 8 * Bit(by, 1) + 16 * Bit(bx, 2) + 32 * Bit(by, 2)

byte(addr) == LET a == addr % REGION_SIZE IN ChipByte((a \div 4194304) % 2, a % CHIP_SIZE)

pixel(g, code, x, y) ==
  LET base == code * GFX[g].nbytes IN
  IF GFX[g].bpp = 4
    THEN LET b == byte(base + 32 * morton(x \div 8, y \div 8) + 4 * (y % 8) + (x % 8) \div 2)
         IN  IF x % 2 = 0 THEN b \div 16 ELSE b % 16
    ELSE byte(base + 64 * (2 * (y \div 8) + x \div 8) + 8 * (y % 8) + (x % 8))

-----------------------------------------------------------------------------
(* Which tile is at a cell of a plane (0 is A, 1 is B), and how it looks.  *)
get_col_division(s, col) == IF Bit(s.v_div_size, 2) = 0 THEN 0 ELSE ((col \div 2^s.col_shift) * 2) % 128
get_row_division(s, row) == IF s.h_div_size = 0 THEN 0 ELSE (row % (s.page_y \div 2)) * 2

Byte16(t, i)   == t[i] + t[i + 1] * 256
Scroll12(t, i) == t[i] + (t[i + 1] % 16) * 256

gfxset(s, plane) == IF plane = 0 /\ s.md = MD_1PLANE_256
                      THEN IF tsize(s) = 16 THEN 5 ELSE 4
                      ELSE IF tsize(s) = 16 THEN 1 ELSE 0

page(s, plane, col, row) ==
  LET sdt == s.scroll[plane]
      x == Scroll12(sdt, 128) + col * tsize(s)
      y == Scroll12(sdt, get_col_division(s, col)) + row * tsize(s)
      wide == s.page_size = 1
  IN  IF s.v_div_size # 0 THEN 0
      ELSE (CASE tsize(s) = 8 /\ s.md = MD_2PLANE_16BIT -> (x % 1024) \div 256 + ((y % 2048) \div 256) * 4
              [] tsize(s) = 8 /\ s.md # MD_2PLANE_16BIT /\ wide -> (x % 2048) \div 512 + ((y % 2048) \div 256) * 4
              [] tsize(s) = 8 /\ s.md # MD_2PLANE_16BIT /\ ~wide -> (x % 2048) \div 256 + ((y % 2048) \div 512) * 8
              [] tsize(s) = 16 /\ s.md = MD_2PLANE_16BIT -> (x % 2048) \div 512 + (y \div 512) * 4
              [] tsize(s) = 16 /\ s.md # MD_2PLANE_16BIT /\ wide -> x \div 512 + (y \div 1024) * 8
              [] OTHER -> x \div 1024 + (y \div 512) * 4) % 32

Banked == <<65536, 16384, 4096, 1024, 32768, 8192>>     \* what one step of gfxbank adds, per gfx set

tile_info(s, plane, col, row) ==
  LET g     == gfxset(s, plane)
      small == tsize(s) = 8
      four  == GFX[g].bpp = 4
      cf    == IF plane = 0 THEN s.planeA_color_fetch ELSE s.planeB_color_fetch
      base  == IF plane = 0 THEN 0 ELSE s.page_y * 2^s.pny_shift
      i     == (base + row * 2^s.pny_shift + col) * 2^s.bits16
      high  == IF s.bits16 = 1 THEN s.pattern_name_table[i + 1] ELSE 0
      name  == s.pattern_name_table[i]
               + (high % (s.na8_mask + 1)) * 256
               + s.scroll[plane][192 + page(s, plane, col, row)] * (IF small THEN 1024 ELSE 256)
               + s.base_addr[plane][row \div 2^s.base_y_shift] * 256
      j     == IF name >= elements(g) THEN 0 ELSE name
      attr  == IF ~four THEN 0
               ELSE IF cf = 0 THEN high \div 16
               ELSE (j \div 2^(IF small THEN (cf - 1) * 2 ELSE cf * 2)) % 16
  IN  IF (plane = 1 /\ one_plane(s)) \/ col >= s.page_x \/ row >= s.page_y
        THEN [g |-> g, code |-> 0, colour |-> 0, flipx |-> FALSE, flipy |-> FALSE]
        ELSE [g |-> g, code |-> j + s.namcond1_gfxbank * Banked[g + 1], colour |-> attr,
              flipx |-> s.flip = 1 /\ Bit(high, 3) = 1, flipy |-> s.flip = 1 /\ Bit(high, 2) = 1]

Drawn(idx) == [drawn |-> TRUE, index |-> idx]
Undrawn    == [drawn |-> FALSE, index |-> 0]

(* The tilemap's pixel; plane A does not draw the border's pen.            *)
tilemap_pixel(s, plane, tx, ty) ==
  LET ts  == tsize(s)
      t   == tile_info(s, plane, tx \div ts, ty \div ts)
      px  == IF t.flipx THEN ts - 1 - (tx % ts) ELSE tx % ts
      py  == IF t.flipy THEN ts - 1 - (ty % ts) ELSE ty % ts
      pen == pixel(t.g, t.code, px, py)
  IN  IF plane = 0 /\ pen = s.border_color THEN Undrawn
      ELSE Drawn(t.colour * (IF GFX[t.g].bpp = 4 THEN 16 ELSE 256) + pen)

-----------------------------------------------------------------------------
(* The planes.                                                             *)
roz_params(s, plane) ==
  LET sdt == s.scroll[plane]
      Divided(v) == IF s.v_div_size # 0 THEN IF v % 512 # 0 THEN v - 512 ELSE 0 ELSE v
  IN  [startx |-> (s.ax + Divided(Scroll12(sdt, 128)) * One) % Wrap,
       starty |-> (s.ay + Divided(Scroll12(sdt, 0)) * One) % Wrap,
       incxx |-> Signed(s.dx), incxy |-> Signed(s.dyx), incyx |-> Signed(s.dxy), incyy |-> Signed(s.dy),
       wrap |-> s.roz_wrap_disable = 0]

roz_is_identity(s, plane) ==
  LET r == roz_params(s, plane) IN r.incxx = One /\ r.incxy = 0 /\ r.incyx = 0 /\ r.incyy = One /\ r.wrap

draw_tilemap_roz(s, plane, x, y) ==
  LET r  == roz_params(s, plane)
      cx == (r.startx + y * r.incyx + x * r.incxx) % Wrap
      cy == (r.starty + y * r.incyy + x * r.incxy) % Wrap
  IN  IF r.wrap THEN tilemap_pixel(s, plane, (cx \div One) % tw(s), (cy \div One) % th(s))
      ELSE IF cx < tw(s) * One /\ cy < th(s) * One THEN tilemap_pixel(s, plane, cx \div One, cy \div One)
      ELSE Undrawn

(* `x0' and `y0' give the x scroll of a row and the y scroll of a column.  *)
draw_scrolled(s, plane, x, y, x0(_), y0(_)) ==
  IF s.h_div_size # 0
    THEN LET ty == (y + y0(0)) % th(s) IN tilemap_pixel(s, plane, (x + x0(ty \div tsize(s))) % tw(s), ty)
    ELSE LET tx == (x + x0(0)) % tw(s) IN tilemap_pixel(s, plane, tx, (y + y0(tx \div tsize(s))) % th(s))

rowscroll(s, plane, row) == Byte16(s.scroll[plane], get_row_division(s, row) + 128)
colscroll(s, plane, col) == Byte16(s.scroll[plane], get_col_division(s, col))

draw_tilemap(s, plane, x, y) ==
  draw_scrolled(s, plane, x, y, LAMBDA row : rowscroll(s, plane, row), LAMBDA col : colscroll(s, plane, col))

(* An identity ROZ is drawn unrotated, with row 0's and column 0's scrolls *)
(* replaced by the start.                                                  *)
draw_layer(s, plane, x, y) ==
  LET r == roz_params(s, plane) IN
  IF s.zron = 0 THEN draw_tilemap(s, plane, x, y)
  ELSE IF roz_is_identity(s, plane)
    THEN draw_scrolled(s, plane, x, y,
           LAMBDA row : IF row = 0 THEN r.startx \div One ELSE rowscroll(s, plane, row),
           LAMBDA col : IF col = 0 THEN r.starty \div One ELSE colscroll(s, plane, col))
    ELSE draw_tilemap_roz(s, plane, x, y)

-----------------------------------------------------------------------------
(* The sprites.                                                            *)
sprite(s, i) ==
  LET e    == s.sprites[i]
      a    == (e.attr \div 4) % 4
      aux  == s.sprite_aux_mode = 1
      size == IF aux THEN a ELSE s.sprite_aux_reg
      flip == IF aux THEN s.sprite_aux_reg ELSE a
      low  == s.sprite_bank - (s.sprite_bank % 4^size)
      code == low * 2^(8 - 2 * size) + e.name
      used == IF code >= elements(size) THEN 0 ELSE code
  IN  [size |-> size, n |-> GFX[size].size,
       x |-> Bit(e.attr, 1) * 256 + e.sx, y |-> (Bit(e.attr, 0) * 256 + e.sy + 1) % 512,
       flipx |-> flip >= 2, flipy |-> flip % 2 = 1,
       colour |-> IF s.sprite_color_fetch = 0 THEN e.attr \div 16
                  ELSE (code \div 4^(s.sprite_color_fetch + size - 1)) % 16,
       code |-> used + s.namcond1_gfxbank * Banked[size + 1]]

(* Where a sprite is drawn: at its place and, past the limit, once more on *)
(* each side of the 512 x 512 space.                                       *)
positions(p) ==
  {<<p.x, p.y>>} \cup
  IF p.x > 512 - p.n \/ p.y > 512 - p.n
    THEN {<<p.x - 512, p.y>>, <<p.x, p.y - 512>>, <<p.x - 512, p.y - 512>>} ELSE {}

(* The pens, other than 0, that sprite i puts on a pixel: one at most.     *)
sprite_pens(s, i, x, y) ==
  LET p == sprite(s, i)
      pen(at) == pixel(p.size, p.code,
                       IF p.flipx THEN p.n - 1 - (x - at[1]) ELSE x - at[1],
                       IF p.flipy THEN p.n - 1 - (y - at[2]) ELSE y - at[2])
  IN  {p.colour * 16 + pen(at) : at \in {q \in positions(p) :
          x - q[1] \in 0 .. p.n - 1 /\ y - q[2] \in 0 .. p.n - 1 /\ pen(q) # 0}}

(* Drawn from the last entry to the first, so that entry 0 is on top.      *)
draw_sprites(s, x, y, under) ==
  LET over == IF s.dspe = 0 \/ s.sprite_disable = 1 THEN {}
              ELSE {i \in 0 .. Entries - 1 : sprite_pens(s, i, x, y) # {}}
      top  == CHOOSE i \in over : \A j \in over : i <= j
  IN  IF over = {} THEN under ELSE CHOOSE v \in sprite_pens(s, top, x, y) : TRUE

-----------------------------------------------------------------------------
(* Composing a pixel: border, plane B, plane A, and the sprites under or   *)
(* over plane A.                                                           *)
Copied(work, transparent, under) == IF transparent /\ work = 0 THEN under ELSE work

render(s, x, y) ==
  LET b == IF ~one_plane(s) /\ s.dspe = 1
             THEN Copied(draw_layer(s, 1, x, y).index, s.planeB_trans_enable = 1, s.border_color)
             ELSE s.border_color
      mid == IF s.priority_mode \in {1, 3} THEN draw_sprites(s, x, y, b) ELSE b
      a == Copied(IF s.dspe = 1 THEN draw_layer(s, 0, x, y).index ELSE 0, s.planeA_trans_enable = 1, mid)
  IN  IF s.page_x = 0 \/ s.page_y = 0 THEN s.border_color
      ELSE IF s.priority_mode \in {0, 2} THEN draw_sprites(s, x, y, a) ELSE a

Row(s, y) == [x \in 0 .. W - 1 |-> render(s, x, y)]

to_rgb(s, idx) == LET c == s.colour_palette[idx % 256] IN <<pal6bit(c[1]), pal6bit(c[2]), pal6bit(c[3])>>

-----------------------------------------------------------------------------
(* Frames, [w, h, rgb], and MAME's snapshots of them, turned by 90 degrees *)
Frame(w, h, px(_, _)) == [w |-> w, h |-> h, rgb |-> [y \in 0 .. h - 1 |-> [x \in 0 .. w - 1 |-> px(x, y)]]]

rotate_to_mame(f) ==
  LET from(x, y) == f.rgb[f.h - 1 - x][y] IN Frame(f.h, f.w, from)
rotate_from_mame(f) ==
  LET from(nx, ny) == f.rgb[nx][f.w - 1 - ny] IN Frame(f.h, f.w, from)

(* The differing pixels, per cell of 16 x 16, or a refusal of the size.    *)
compare(f, snapshot) ==
  LET ref == IF snapshot.w = H /\ snapshot.h = W THEN rotate_from_mame(snapshot) ELSE snapshot
      bad == {p \in (0 .. W - 1) \X (0 .. H - 1) : f.rgb[p[2]][p[1]] # ref.rgb[p[2]][p[1]]}
      cells == {<<p[2] \div 16, p[1] \div 16>> : p \in bad}
  IN  IF ref.w # W \/ ref.h # H THEN [ok |-> FALSE, ndiff |-> 0, cells |-> <<>>]
      ELSE [ok |-> TRUE, ndiff |-> Cardinality(bad),
            cells |-> [c \in cells |-> Cardinality({p \in bad : <<p[2] \div 16, p[1] \div 16>> = c})]]
=============================================================================
