------------------------------ MODULE MCVideo -------------------------------
(***************************************************************************)
(* The picture for TLC: frames of a few characters and scan lines, whose   *)
(* registers are changed at any moment.                                    *)
(***************************************************************************)
EXTENDS Video

\* The start addresses are just below the end of the memory of a screen.
Small ==
  [horz_total |-> 3, horz_disp |-> 2, hsync_pos |-> 2, hsync_width |-> 1, vsync_width |-> 2,
   vert_total |-> 1, vert_adj |-> 2, vert_disp |-> 1, vsync_pos |-> 1, interlace |-> 0,
   skew |-> 0, rasters |-> 1, start |-> \hFFE]
Tall == [Small EXCEPT !.rasters = 9, !.vert_adj = 0]
Laced == [Small EXCEPT !.interlace = 1]
Mode7 == [Small EXCEPT !.interlace = 3, !.rasters = 2, !.skew = 1, !.start = \h2BFF]

W(reg, value) == [reg |-> reg, value |-> value]
Menu(r, clk, writes, ula) ==
  [regs |-> r, clk |-> clk, writes |-> writes, ula |-> ula, scroll |-> 3]

\* Writes that lead from one picture to another, or for a while to none.
Vertical ==
  {W("vert_total", 2), W("vert_adj", 1), W("vert_disp", 2), W("vsync_pos", 0), W("rasters", 0)}
Horizontal ==
  {W("horz_total", 4), W("horz_total", 2), W("horz_disp", 1), W("hsync_pos", 1)}
Shared ==
  {W("syncs", [v |-> 1, h |-> 0]), W("ild", [mode |-> 1, skew |-> 0]), W("ild", [mode |-> 0, skew |-> 3])}
Scroll == <<W("start_hi", \h0D), W("start_lo", \hFC)>>

\* What the machine does first of all.
Boot ==
  <<W("horz_total", 2), W("horz_disp", 1), W("syncs", [v |-> 2, h |-> 1]), W("vert_total", 1),
    W("vert_disp", 1), W("ild", [mode |-> 0, skew |-> 0]), W("rasters", 1), W("start_hi", \h0D)>>

Pairs(writes) == {<<v, w>> : v, w \in writes}

MCMenus ==
  {Menu(r, clk, <<>>, r = Small) : r \in {Small, Tall, Laced, Mode7}, clk \in {1, 2}}
  \cup {Menu(Small, 2, p, FALSE) : p \in Pairs(Vertical) \cup {Scroll}}
  \cup {Menu(Small, 2, <<w>>, FALSE) : w \in Horizontal \cup Shared}
  \cup {Menu(Laced, 2, <<w>>, FALSE) : w \in Vertical}
  \cup {Menu(PowerOnRegs, 1, Boot, FALSE)}
=============================================================================
