------------------------------- MODULE MCYgv -------------------------------
(* Settings for the renderer: every mode, shape, scroll, priority, sprite   *)
(* and rotation path of the code is taken by one of them.                   *)
EXTENDS YgvRender, TLC

MCByte(chip, a) ==
  LET h == (a * 37 + (a \div 64) * 11 + (a \div 4096) * 5 + chip * 101) % 251
  IN  IF h % 5 = 0 THEN h % 16 ELSE IF h % 7 = 0 THEN 0 ELSE h

NameTable == [i \in 0 .. 4095 |-> (i * 29 + i \div 7) % 256]
Scroll(p) == [i \in 0 .. 255 |->
                IF i >= 192 THEN (i * 3 + p) % 32 ELSE IF i % 2 = 1 THEN (i \div 2 + p) % 2 ELSE (i * 13 + 5 * p) % 256]
Bases(p) == [i \in 0 .. 7 |-> (3 * i + p) % 8]
Entry(sx, sy, attr, name) == [sx |-> sx, sy |-> sy, attr |-> attr, name |-> name]
Pal == [i \in 0 .. 255 |-> <<i % 64, (i \div 4) % 64, (255 - i) % 64>>]

(* What tools/dump_state.lua reads off MAME for the registers of a setting. *)
Derived(c) ==
  LET wide == c.md = 1 \/ c.page_size = 1
      tall == c.md # 1 /\ c.page_size = 1
      shift == c.v_div_size - (IF c.pattern_size = 0 THEN 4 ELSE 5)
  IN  [page_x |-> IF wide THEN 32 ELSE 64, page_y |-> IF tall THEN 64 ELSE 32,
       pny_shift |-> IF wide THEN 5 ELSE 6, base_y_shift |-> IF tall THEN 3 ELSE 2,
       bits16 |-> IF c.md = 0 THEN 0 ELSE 1, na8_mask |-> IF c.flip = 1 THEN 3 ELSE 15,
       col_shift |-> IF c.v_div_size = 0 \/ shift < 0 THEN 8 ELSE shift]
Full(c) == Derived(c) @@ c

After == [md |-> 0, page_size |-> 0, pattern_size |-> 0, flip |-> 0, v_div_size |-> 0, h_div_size |-> 0,
          pattern_name_table |-> [i \in 0 .. 4095 |-> 0], scroll |-> [p \in 0 .. 1 |-> [i \in 0 .. 255 |-> 0]],
          base_addr |-> [p \in 0 .. 1 |-> [i \in 0 .. 7 |-> 0]],
          planeA_color_fetch |-> 0, planeB_color_fetch |-> 0, border_color |-> 0, namcond1_gfxbank |-> 0,
          zron |-> 0, ax |-> 0, ay |-> 0, dx |-> 0, dy |-> 0, dxy |-> 0, dyx |-> 0, roz_wrap_disable |-> 0,
          dspe |-> 0, sprite_disable |-> 0, sprite_aux_reg |-> 0, sprite_aux_mode |-> 0, sprite_color_fetch |-> 0,
          sprite_bank |-> 0, sprites |-> [i \in 0 .. Entries - 1 |-> Entry(0, 0, 0, 0)], priority_mode |-> 0,
          planeA_trans_enable |-> 0, planeB_trans_enable |-> 0, colour_palette |-> [i \in 0 .. 255 |-> <<0, 0, 0>>]]

(* One with both planes and sprites that overlap, one of them at the left   *)
(* edge, one at the top, one off the screen.                                *)
Game == [After EXCEPT !.dspe = 1, !.pattern_name_table = NameTable, !.scroll = [p \in 0 .. 1 |-> Scroll(p)],
           !.base_addr = [p \in 0 .. 1 |-> Bases(p)], !.border_color = 3, !.colour_palette = Pal,
           !.planeA_trans_enable = 1, !.sprite_bank = 165,
           !.sprites = [i \in 0 .. Entries - 1 |->
              <<Entry(10, 0, 16 + 4, 7), Entry(13, 1, 32 + 8, 9), Entry(250, 255, 51, 90), Entry(20, 254, 64 + 12 + 1, 3)>>[1 + (i % 4)]]]

Rotated == [Game EXCEPT !.zron = 1, !.ax = 5, !.ay = 40, !.dx = 13, !.dy = 14, !.dxy = Wrap - 9, !.dyx = 10, !.sprite_disable = 1]
Straight == [Rotated EXCEPT !.dyx = 0, !.dxy = 0]

MCRegs ==
  LET modes == <<
      Game,
      [Game EXCEPT !.md = 1, !.priority_mode = 1, !.planeB_trans_enable = 1, !.sprite_aux_reg = 1],
      [Game EXCEPT !.md = 1, !.pattern_size = 1, !.flip = 1, !.sprite_aux_mode = 1, !.sprite_aux_reg = 3],
      [Game EXCEPT !.md = 2, !.page_size = 1, !.sprite_aux_reg = 2, !.planeA_trans_enable = 0, !.priority_mode = 2],
      [Game EXCEPT !.md = 2, !.pattern_size = 1, !.page_size = 1, !.sprite_aux_reg = 3, !.sprite_color_fetch = 2, !.priority_mode = 3],
      [Game EXCEPT !.md = 3, !.namcond1_gfxbank = 2, !.sprite_disable = 1],
      [Game EXCEPT !.md = 3, !.pattern_size = 1, !.flip = 1, !.page_size = 1],
      [Game EXCEPT !.pattern_size = 1, !.v_div_size = 5, !.sprite_disable = 1],
      [Game EXCEPT !.md = 1, !.v_div_size = 5, !.planeA_color_fetch = 3, !.planeB_color_fetch = 2, !.sprite_disable = 1],
      [Game EXCEPT !.md = 1, !.pattern_size = 1, !.h_div_size = 4, !.planeA_color_fetch = 2, !.sprite_disable = 1],
      [Game EXCEPT !.page_size = 1, !.h_div_size = 4, !.namcond1_gfxbank = 1, !.planeA_trans_enable = 0, !.sprite_disable = 1],
      [Game EXCEPT !.dspe = 0], [Game EXCEPT !.dspe = 0, !.planeA_trans_enable = 0],
      Rotated, [Rotated EXCEPT !.md = 3, !.pattern_size = 1, !.flip = 1],
      [Rotated EXCEPT !.md = 2, !.roz_wrap_disable = 1, !.planeA_trans_enable = 0],
      [Rotated EXCEPT !.md = 1, !.pattern_size = 1, !.flip = 1],
      [Straight EXCEPT !.md = 3], [Straight EXCEPT !.md = 3, !.pattern_size = 1, !.flip = 1, !.v_div_size = 1],
      [Straight EXCEPT !.md = 2, !.roz_wrap_disable = 1, !.ax = Wrap - 70], [Straight EXCEPT !.md = 1, !.pattern_size = 1],
      [Straight EXCEPT !.dx = One, !.dy = One, !.ay = 8], [Straight EXCEPT !.dx = One, !.dy = One],
      [Rotated EXCEPT !.roz_wrap_disable = 1]>>
  IN  [m \in 0 .. Len(modes) |-> Full(IF m = 0 THEN After ELSE modes[m])]
=============================================================================
