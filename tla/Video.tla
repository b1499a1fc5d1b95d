-------------------------------- MODULE Video -------------------------------
(***************************************************************************)
(* The picture, from the CRTC to the window: the video ULA clocks the CRTC,*)
(* the system VIA watches its vertical sync, the CRT follows its pulses    *)
(* and hands each field to the view, which the UI thread shows.            *)
(*                                                                         *)
(* The ULA acts on the falling edges of the 2 MHz clock, the first and the *)
(* second of each microsecond.  The first is an edge of the 1 MHz clock    *)
(* too, where the VIA is ticked, and the CRTC when the CPU addresses it,   *)
(* before the ULA takes its turn.                                          *)
(***************************************************************************)
EXTENDS Crtc, Sequences

CONSTANTS
  Menus,        \* a mode to start in, its clock and scroll bits, the register
                \* writes there are, whether the ULA is written; a behaviour
                \* follows one menu
  ScrBuffHeight, \* bound: lines are not counted any further (626 are drawn)
  MaxQueued      \* bound: fields the view may be behind

\* The registers are as wide as they are, and the program writes what fits.
ASSUME MenusAssumption ==
  \A m \in Menus :
    /\ Fits(m.regs) /\ m.writes \in Seq(Writable)
    /\ m.clk \in {1, 2} /\ m.scroll \in 0..3 /\ m.ula \in BOOLEAN
ASSUME ScreenAssumption == ScrBuffHeight \in Nat

VARIABLES
  crtc_clk,     \* of the ULA: CRTC characters per microsecond, 1 or 2
  at,           \* what comes next: the devices of the 1 MHz bus, or the ULA on
                \* the first edge, on the first one with the CPU addressing the
                \* CRTC, or on the second
  todo,         \* CRTC register writes the CPU's program has still to do
  menu,         \* the menu of this behaviour
  ca1,          \* the level of CA1 as the VIA knows it
  pixel_y, even_frame,  \* of the CRT
  frame_buffer, \* of the view: a field waits to be shown
  queued,       \* calls of consume_frame() on the way to the UI thread
  fresh,        \* history: the field that is shown is the last one produced
  settled,      \* history: frames begun since a register was last written
  scan_line,    \* history: scan lines since the frame began, once settled
  frame_lines,  \* history: those of the last two frames
  merged        \* history: a pulse has begun as another ended

boardVars == <<crtc_clk, at, todo, menu, ca1>>
crtVars == <<pixel_y, even_frame>>
viewVars == <<frame_buffer, queued, fresh>>
historyVars == <<settled, scan_line, frame_lines, merged>>
crtcVars == <<regs, crtc, ca1_provider>>
vars == <<crtcVars, boardVars, crtVars, viewVars, historyVars>>

-----------------------------------------------------------------------------
(***************************************************************************)
(* The CRT sees the level of both pulses after every edge.                 *)
(***************************************************************************)
HsyncEnds == crtc.h_sync /\ ~crtc'.h_sync
VsyncEnds == crtc.v_sync /\ ~crtc'.v_sync
Capped(y) == IF y > ScrBuffHeight THEN ScrBuffHeight ELSE y

\* VduView::screen_changed().  The field is stored under a mutex and the call is
\* queued after it is unlocked; between the two the UI thread can only take the
\* new field by an earlier call, and finds none at the later one, so that one step
\* does for both.
screen_changed ==
  /\ queued < MaxQueued
  /\ frame_buffer' = TRUE
  /\ queued' = queued + 1
  /\ fresh' = FALSE

\* Crt::tick()
crt_tick ==
  /\ pixel_y' = IF VsyncEnds THEN (IF even_frame THEN 1 ELSE 0)
                ELSE IF HsyncEnds THEN Capped(pixel_y + 2) ELSE pixel_y
  /\ even_frame' = (even_frame # VsyncEnds)
  /\ IF VsyncEnds THEN screen_changed ELSE UNCHANGED viewVars

-----------------------------------------------------------------------------
(***************************************************************************)
(* One microsecond.                                                        *)
(***************************************************************************)
\* check_ca1() of the VIA, and the dispatch to the CRTC.
Devices ==
  /\ at = "devices"
  /\ ca1' = IF ca1_provider.has THEN (IF 0 \in ca1_provider.data THEN 1 ELSE 0) ELSE ca1
  /\ ca1_provider' = Taken(ca1_provider)
  /\ \/ at' = "first" /\ UNCHANGED <<regs, crtc, todo, historyVars>>
     \/ /\ todo # <<>>
        /\ mmio_write(Head(todo).reg, Head(todo).value)
        /\ todo' = Tail(todo)
        /\ at' = "crtc"
        /\ settled' = 0 /\ scan_line' = 0 /\ frame_lines' = <<0, 0>> /\ UNCHANGED merged
  /\ UNCHANGED <<crtc_clk, menu, crtVars, viewVars>>

\* The history of a character.
Remember ==
  LET ends == crtc'.start_of_frame
      line == Capped(scan_line + (IF crtc.char_cnt = regs.horz_total THEN 1 ELSE 0))
  IN /\ settled' = IF ends /\ settled < 4 THEN settled + 1 ELSE settled
     /\ scan_line' = IF ends \/ settled = 0 THEN 0 ELSE line
     /\ frame_lines' = IF ends /\ settled > 0 THEN <<line, frame_lines[1]>> ELSE frame_lines
     /\ merged' = (crtc'.v_sync /\ (merged \/ (crtc.v_sync /\ ca1_provider' # ca1_provider)))

NextEdge == at' = IF at = "second" THEN "devices" ELSE "second"

\* VideoUla::tick() on an edge: the CRTC is clocked on each, or on the first.
Clocked == at \in {"first", "crtc"} \/ (at = "second" /\ crtc_clk = 2)
maybe_drive_crtc ==
  /\ Clocked
  /\ generate_next_address /\ Remember /\ crt_tick
  /\ NextEdge
  /\ UNCHANGED <<crtc_clk, todo, menu, ca1>>
NotClocked ==
  /\ at = "second" /\ crtc_clk = 1
  /\ NextEdge
  /\ UNCHANGED <<crtcVars, crtc_clk, todo, menu, ca1, crtVars, viewVars, historyVars>>

\* ... and one on which the CPU addresses the ULA: nothing is clocked.
UlaWrite ==
  /\ menu.ula
  /\ at \in {"first", "second"}
  /\ crtc_clk' \in {1, 2}
  /\ NextEdge
  /\ UNCHANGED <<crtcVars, todo, menu, ca1, crtVars, viewVars, historyVars>>

\* Variant of consume_frame: with another call on its way the field is left to it.
consume_frame_skip ==
  /\ queued > 0
  /\ queued' = queued - 1
  /\ frame_buffer' = FALSE
  /\ fresh' = (fresh \/ (frame_buffer /\ queued = 1))
  /\ UNCHANGED <<crtcVars, boardVars, crtVars, historyVars>>

\* VduView::consume_frame(), on the UI thread.
consume_frame ==
  /\ queued > 0
  /\ queued' = queued - 1
  /\ frame_buffer' = FALSE
  /\ fresh' = (fresh \/ frame_buffer)
  /\ UNCHANGED <<crtcVars, boardVars, crtVars, historyVars>>

Worker == Devices \/ maybe_drive_crtc \/ NotClocked \/ UlaWrite
Next == Worker \/ consume_frame

-----------------------------------------------------------------------------
(***************************************************************************)
(* A behaviour begins at power-on, or with a frame of some mode.           *)
(***************************************************************************)
ScanLinesPerRow(r) == IF SyncAndVideo(r) THEN (r.rasters \div 2) + 1 ELSE r.rasters + 1
FrameLines(r) == (r.vert_total + 1) * ScanLinesPerRow(r) + r.vert_adj

FrameOf(r) ==
  [PowerOn EXCEPT !.linear = r.start, !.line_start = r.start, !.next_line_start = r.start,
     !.start_of_frame = TRUE, !.first_raster = TRUE, !.hsync_width_cnt = r.hsync_width,
     !.vsync_width_cnt = (FrameLines(r) - r.vsync_pos * ScanLinesPerRow(r)) % WidthModulus,
     !.v_adj_cnt = (r.vert_adj + 1) % AdjModulus,
     !.enabled = Everything \ {"SKEW"}]

Init ==
  /\ menu \in Menus
  /\ regs = menu.regs
  /\ crtc = IF regs = PowerOnRegs THEN PowerOn ELSE FrameOf(regs)
  /\ todo = menu.writes
  /\ ca1_provider = NewProvider({}) /\ ca1 = 0
  /\ crtc_clk = menu.clk
  /\ at = "devices"
  /\ pixel_y = 0 /\ even_frame = TRUE
  /\ frame_buffer = FALSE /\ queued = 0 /\ fresh = TRUE
  /\ settled = 0 /\ scan_line = 0 /\ frame_lines = <<0, 0>> /\ merged = FALSE

\* The CPU fetches instructions too, so the ULA keeps having edges of its own.
Spec ==
  /\ Init /\ [][Next]_vars
  /\ WF_vars(Worker) /\ SF_vars(maybe_drive_crtc) /\ WF_vars(consume_frame)

-----------------------------------------------------------------------------
(***************************************************************************)
(* Properties.                                                             *)
(***************************************************************************)
\* Registers that make a picture: at least three characters to a line, the
\* displayed part and both pulses inside the frame, more scan lines than the
\* pulse counter can count, an even last scan line where they are counted in
\* twos, and no more rows than are counted.
Regular(r) ==
  /\ 2 <= r.horz_total /\ 1 <= r.horz_disp /\ r.horz_disp + r.skew <= r.horz_total
  /\ 1 <= r.hsync_width /\ r.hsync_pos + r.hsync_width <= r.horz_total
  /\ 1 <= r.vert_disp /\ r.vert_disp <= r.vert_total /\ r.vsync_pos <= r.vert_total
  /\ 1 <= r.vsync_width /\ WidthModulus < FrameLines(r)
  /\ SyncAndVideo(r) => r.rasters % 2 = 0
  /\ 2 * FrameLines(r) + 1 <= ScrBuffHeight

\* Whatever was written to the registers and when, frames, once the registers
\* are left alone, have the number of scan lines that the registers say; two
\* interlaced frames have one more between them.
FramesAreRegular ==
  crtc.start_of_frame /\ settled >= 3 /\ Regular(regs) =>
    IF Interlaced(regs)
    THEN frame_lines[1] + frame_lines[2] = 2 * FrameLines(regs) + 1
    ELSE frame_lines = <<FrameLines(regs), FrameLines(regs)>>

\* The byte of scan line ra of the k-th character of the screen.  The screen is
\* the memory below 8000, as much as the scroll bits say, or the 1 KB of MODE
\* 7, and scrolling rotates it.  What is shown has to fit into it.
Size == Subtrahend[menu.scroll]
ScreenBase == \h8000 - Size
Teletext == regs.start \in \h2800..\h2BFF
Shown == regs.vert_disp * regs.horz_disp + regs.skew
OnScreen == IF Teletext THEN Shown <= \h400
            ELSE 8 * regs.start \in ScreenBase..\h7FFF /\ 8 * Shown <= Size
ScreenByte(k, ra) ==
  IF Teletext THEN \h7C00 + ((regs.start + k) % \h400)
  ELSE ScreenBase + (((8 * (regs.start + k) + ra) - ScreenBase) % Size)

\* What a character must show, by its place in the frame.
ShowsItsByte ==
  LET lines == ScanLinesPerRow(regs)
      row == scan_line \div lines
      ra == IF SyncAndVideo(regs) THEN 2 * (scan_line % lines) ELSE scan_line % lines
      column == crtc.char_cnt
      visible == row < regs.vert_disp /\ column \in regs.skew..(regs.horz_disp + regs.skew - 1)
                 /\ ~Blank(ra) /\ "USER" \in crtc.enabled
  IN /\ display_enable(crtc') <=> visible
     /\ visible => latch_address(crtc, menu.scroll) = ScreenByte(row * regs.horz_disp + column, ra % 8)

\* A settled frame displays the characters of its screen and no others, in
\* order: display is enabled exactly in the displayed rows and columns, and
\* what is latched there is the byte of the screen that belongs there.  With a
\* skew the columns are the displayed ones moved on by the skew, address and
\* all, so that what is shown in a line is as far into the screen.
DisplayIsTheScreen ==
  [][at # "devices" /\ crtc' # crtc /\ settled >= 2 /\ Regular(regs) /\ OnScreen
     => ShowsItsByte]_vars

\* The VIA misses no vertical sync of two scan lines or more: when one ends,
\* the VIA has seen CA1 high, whatever is written, however short the lines and
\* whichever clock the CRTC has; pulses that follow each other without a gap do
\* not count.
VsyncIsSeen == [][VsyncEnds /\ ~merged /\ regs.vsync_width >= 2 => ca1 = 1]_vars

\* A pulse that begins in the row of the pulse as another ends counts on to the
\* width of the counter: it is over before the next one.  And the row after the
\* last one, where the adjustment is, is not the row of the pulse.
PulsesApart(r) ==
  /\ WidthModulus + ScanLinesPerRow(r) < FrameLines(r)
  /\ r.vert_total + 1 = LineModulus => 1 <= r.vsync_pos

\* A settled field has a row in the screen buffer for each scan line.
FieldHasItsLines ==
  [][VsyncEnds /\ settled >= 4 /\ Regular(regs) /\ ~Interlaced(regs) /\ PulsesApart(regs)
     => pixel_y = 2 * FrameLines(regs) + (IF even_frame THEN 0 ELSE 1)]_vars

\* A field that is not shown yet is in the buffer with a call on its way.
NoFrameIsForgotten == ~fresh => frame_buffer /\ queued > 0

\* Whatever state the registers were changed in, the counters find their way
\* back: frames and both levels of vertical sync keep coming.
PictureComesBack ==
  <>[]Regular(regs) =>
    []<>crtc.start_of_frame /\ []<>crtc.v_sync /\ []<>~crtc.v_sync
=============================================================================
