-------------------------------- MODULE Crtc --------------------------------
(***************************************************************************)
(* The 6845 CRTC: counters that turn a dozen registers into the addresses, *)
(* the sync pulses and the display enable of a picture.                    *)
(*                                                                         *)
(* generate_next_address() is a pipeline of small steps on one state, so   *)
(* the counters and latches are the fields of one record, which each step  *)
(* takes and returns.  Left out are what nothing reads: the cursor, which  *)
(* is never switched on because handle_cursor() is never called, the blink *)
(* and dummy raster flags, and all of the frame count but its parity.      *)
(* teletext_mode_ is never set.                                            *)
(***************************************************************************)
EXTENDS DataConnectors

CONSTANTS
  CharModulus,    \* where the counters wrap: characters of a line (256),
  RasterModulus,  \* scan lines of a row (32),
  LineModulus,    \* rows (128),
  AdjModulus,     \* scan lines of the vertical adjustment (32)
  WidthModulus    \* and both pulse widths (16)

ASSUME CrtcAssumption ==
  /\ {CharModulus, RasterModulus, LineModulus, AdjModulus, WidthModulus} \subseteq Nat \ {0, 1}
  /\ RasterModulus % 2 = 0

VARIABLES
  regs,           \* the registers
  crtc,           \* the counters and latches
  ca1_provider    \* irq_provider_, the line to CA1 of the system VIA

\* The flags of display_enabled_; FRAME_SKIP_ENABLE is always set.
Everything == {"VSYNC", "HSYNC", "SKEW", "SCANLINE", "USER"}
AddressModulus == 2^14

PowerOnRegs ==
  [horz_total |-> 0, horz_disp |-> 0, hsync_pos |-> 0, hsync_width |-> 0, vsync_width |-> 0,
   vert_total |-> 0, vert_adj |-> 0, vert_disp |-> 0, vsync_pos |-> 0, interlace |-> 0,
   skew |-> 0, rasters |-> 0, start |-> 0]

\* What fits into each register, and what the CPU may write to it.
RegisterSize ==
  [horz_total |-> CharModulus, horz_disp |-> CharModulus, hsync_pos |-> CharModulus,
   hsync_width |-> WidthModulus, vsync_width |-> WidthModulus, vert_total |-> LineModulus,
   vert_adj |-> AdjModulus, vert_disp |-> LineModulus, vsync_pos |-> LineModulus,
   interlace |-> 4, skew |-> 3, rasters |-> RasterModulus, start |-> AddressModulus]
Fits(r) == DOMAIN r = DOMAIN RegisterSize /\ \A f \in DOMAIN r : r[f] \in 0..(RegisterSize[f] - 1)
Writable ==
       [reg : {"syncs"}, value : [v : 0..(WidthModulus - 1), h : 0..(WidthModulus - 1)]]
  \cup [reg : {"ild"}, value : [mode : 0..3, skew : 0..3]]
  \cup [reg : {"start_hi"}, value : 0..63] \cup [reg : {"start_lo"}, value : 0..255]
  \cup UNION {[reg : {f}, value : 0..(RegisterSize[f] - 1)] :
                f \in {"horz_total", "horz_disp", "hsync_pos", "vert_total", "vert_adj",
                       "vert_disp", "vsync_pos", "rasters"}}

PowerOn ==
  [char_cnt |-> 0, hsync_width_cnt |-> 0, raster_cnt |-> 0, line_cnt |-> 0, vsync_width_cnt |-> 0,
   v_adj_cnt |-> 0, linear |-> 0, line_start |-> 0, next_line_start |-> 0,
   start_of_frame |-> FALSE, h_sync |-> FALSE, first_raster |-> FALSE, v_sync |-> FALSE,
   had_vsync |-> FALSE, in_v_adj |-> FALSE, check_v_adj |-> FALSE, end_of_main |-> FALSE,
   end_of_v_adj |-> FALSE, end_of_frame |-> FALSE, even_logic |-> FALSE, odd_count |-> FALSE,
   enabled |-> {}]

-----------------------------------------------------------------------------
(***************************************************************************)
(* Register writes.  R3 holds both sync widths, and 0 keeps the horizontal *)
(* one; R8 holds the interlace mode and the skew, and a skew of 3 disables *)
(* the display; the start address is written in two halves.                *)
(***************************************************************************)
mmio_write(reg, value) ==
  /\ regs' = CASE reg = "syncs" ->
                    [regs EXCEPT !.vsync_width = value.v,
                                 !.hsync_width = IF value.h = 0 THEN @ ELSE value.h]
               [] reg = "ild" ->
                    [regs EXCEPT !.interlace = value.mode,
                                 !.skew = IF value.skew < 3 THEN value.skew ELSE @]
               [] reg = "start_hi" -> [regs EXCEPT !.start = 256 * value + (@ % 256)]
               [] reg = "start_lo" -> [regs EXCEPT !.start = 256 * (@ \div 256) + value]
               [] OTHER -> [regs EXCEPT ![reg] = value]
  /\ crtc' = IF reg # "ild" THEN crtc
             ELSE [crtc EXCEPT !.enabled = IF value.skew < 3 THEN @ \cup {"USER"} ELSE @ \ {"USER"}]

-----------------------------------------------------------------------------
(***************************************************************************)
(* The end of a scan line.                                                 *)
(***************************************************************************)
Interlaced(r) == r.interlace % 2 = 1
SyncAndVideo(r) == r.interlace = 3

\* Variant of NextRaster: the counter stops at its last value.
NextRasterStops(raster, r) ==
  LET next == IF SyncAndVideo(r) THEN raster + 2 - (raster % 2) ELSE raster + 1
  IN IF next < RasterModulus THEN next ELSE raster

NextRaster(raster, r) ==
  IF SyncAndVideo(r) THEN (raster + 2 - (raster % 2)) % RasterModulus ELSE (raster + 1) % RasterModulus

\* Scan lines 8 to 15 of a row are blank.
Blank(raster) == (raster \div 8) % 2 = 1

handle_end_of_char_line(c) ==
  [c EXCEPT !.line_cnt = (@ + 1) % LineModulus, !.raster_cnt = 0, !.had_vsync = FALSE,
            !.enabled = @ \cup {"SCANLINE"}]

handle_end_of_frame(c, r) ==
  [c EXCEPT !.line_cnt = 0, !.first_raster = TRUE, !.next_line_start = r.start,
            !.line_start = r.start, !.enabled = @ \cup {"VSYNC"},
            !.even_logic = @ /\ c.v_sync]

\* A new frame: every latch of the old one is cleared.
NewFrame(c, r) ==
  LET cleared == [c EXCEPT !.end_of_main = FALSE, !.end_of_v_adj = FALSE, !.end_of_frame = FALSE,
                           !.start_of_frame = TRUE]
  IN handle_end_of_frame(handle_end_of_char_line(cleared), r)

\* Variant of NextScanLine: every scan line begins a new row of addresses.
NextScanLineReload(c, r) ==
  LET next == [c EXCEPT !.first_raster = FALSE,
                        !.vsync_width_cnt = (@ + 1) % WidthModulus,
                        !.line_start = c.next_line_start,
                        !.raster_cnt = NextRaster(@, r)]
  IN IF c.raster_cnt = r.rasters /\ ~c.in_v_adj THEN handle_end_of_char_line(next) ELSE next

\* The next scan line of the row, or the next row unless in vertical adjustment.
NextScanLine(c, r) ==
  LET r9Hit == c.raster_cnt = r.rasters
      raster == NextRaster(c.raster_cnt, r)
      next == [c EXCEPT !.first_raster = FALSE,
                        !.vsync_width_cnt = (@ + 1) % WidthModulus,
                        !.line_start = IF r9Hit THEN c.next_line_start ELSE @,
                        !.raster_cnt = raster,
                        !.enabled = IF Blank(raster) THEN @ \ {"SCANLINE"} ELSE @ \cup {"SCANLINE"}]
  IN IF r9Hit /\ ~c.in_v_adj THEN handle_end_of_char_line(next) ELSE next

\* Variant of EndOfAdjustment: no scan line is inserted.
EndOfAdjustmentPlain(c, r) ==
  IF c.end_of_v_adj THEN NewFrame([c EXCEPT !.in_v_adj = FALSE], r)
  ELSE [c EXCEPT !.in_v_adj = @ \/ c.end_of_main]

\* After the vertical adjustment comes a new frame, or, on even interlaced
\* frames, one more scan line first.
EndOfAdjustment(c, r) ==
  LET dummy == c.end_of_v_adj /\ Interlaced(r) /\ c.even_logic
      next == [c EXCEPT !.in_v_adj = ~c.end_of_v_adj /\ (@ \/ c.end_of_main),
                        !.end_of_frame = @ \/ dummy]
  IN IF c.end_of_frame \/ (c.end_of_v_adj /\ ~dummy) THEN NewFrame(next, r) ELSE next

handle_end_of_scan_line(c, r) ==
  LET next == EndOfAdjustment(NextScanLine(c, r), r)
  IN [next EXCEPT !.linear = next.line_start]

-----------------------------------------------------------------------------
(***************************************************************************)
(* One character: the steps of generate_next_address(), in order.          *)
(***************************************************************************)
BeginFrame(c, r) ==
  IF c.start_of_frame
  THEN [c EXCEPT !.linear = r.start, !.line_start = r.start, !.start_of_frame = FALSE] ELSE c

maybe_handle_hsync(c, r) ==
  LET width == (c.hsync_width_cnt + 1) % WidthModulus
  IN IF ~c.h_sync THEN c
     ELSE [c EXCEPT !.hsync_width_cnt = width, !.h_sync = width # r.hsync_width]

DisplayEnable(c, r) ==
  LET on == IF c.char_cnt = r.skew THEN {"SKEW"} ELSE {}
      off == IF c.char_cnt \in {r.horz_disp + r.skew, r.horz_total + r.skew} THEN {"HSYNC", "SKEW"} ELSE {}
  IN [c EXCEPT !.enabled = (@ \cup on) \ off,
               !.next_line_start = IF c.char_cnt = r.horz_disp THEN c.linear ELSE @]

\* Variant of BeginHsync: a pulse may begin anywhere after its place.
BeginHsyncLate(c, r) ==
  IF c.char_cnt >= r.hsync_pos /\ ~c.h_sync
  THEN [c EXCEPT !.h_sync = TRUE, !.hsync_width_cnt = 0] ELSE c

BeginHsync(c, r) ==
  IF c.char_cnt = r.hsync_pos /\ ~c.h_sync
  THEN [c EXCEPT !.h_sync = TRUE, !.hsync_width_cnt = 0] ELSE c

\* On even interlaced frames vertical sync begins and ends in mid-line.
MayTrigger(c, r) ==
  ~Interlaced(r) \/ ~c.even_logic \/ c.char_cnt = r.horz_total \div 2

\* Variant of VsyncEnding: a pulse is one character long.
VsyncEndingSoon(c, r) == c.v_sync /\ MayTrigger(c, r)

VsyncEnding(c, r) == c.v_sync /\ c.vsync_width_cnt = r.vsync_width /\ MayTrigger(c, r)
VsyncStarting(c, r) ==
  /\ c.line_cnt = r.vsync_pos
  /\ ~c.v_sync \/ VsyncEnding(c, r)
  /\ ~c.had_vsync
  /\ MayTrigger(c, r)

VSync(c, r) ==
  LET begins == VsyncStarting(c, r) /\ ~VsyncEnding(c, r)
  IN [c EXCEPT !.v_sync = VsyncStarting(c, r) \/ (@ /\ ~VsyncEnding(c, r)),
               !.had_vsync = @ \/ begins,
               !.vsync_width_cnt = IF begins THEN 0 ELSE @]

NextAddress(c) == [c EXCEPT !.linear = (@ + 1) % AddressModulus]

\* Whether vertical adjustment ends is decided one character after the last
\* scan line of the main part has been noticed.
CheckAdjustment(c, r) ==
  IF ~(c.check_v_adj /\ c.end_of_main) THEN [c EXCEPT !.check_v_adj = FALSE]
  ELSE [c EXCEPT !.check_v_adj = FALSE,
                 !.end_of_v_adj = @ \/ c.v_adj_cnt = r.vert_adj,
                 !.v_adj_cnt = (@ + 1) % AdjModulus]

LatchEndOfMain(c, r) ==
  LET last == c.line_cnt = r.vert_total /\ c.raster_cnt = r.rasters
  IN IF c.char_cnt # 1 THEN c
     ELSE [c EXCEPT !.check_v_adj = TRUE, !.end_of_main = @ \/ last, !.v_adj_cnt = IF last THEN 0 ELSE @]

NextCharacter(c, r) ==
  IF c.char_cnt = r.horz_total
  THEN [handle_end_of_scan_line(c, r) EXCEPT !.char_cnt = 0, !.enabled = @ \cup {"HSYNC"}]
  ELSE [c EXCEPT !.char_cnt = (@ + 1) % CharModulus]

\* The end of the displayed rows, where the frame is counted.
CheckRows(c, r) ==
  LET r6Hit == c.line_cnt = r.vert_disp
      r7Hit == c.line_cnt = r.vsync_pos
      ends == r6Hit /\ ~c.first_raster /\ "VSYNC" \in c.enabled
      odd == c.odd_count # ends
  IN [c EXCEPT !.enabled = IF ends THEN @ \ {"VSYNC"} ELSE @,
               !.odd_count = odd,
               !.even_logic = IF r6Hit \/ r7Hit THEN odd ELSE @]

\* The states before vertical sync and before the end of the character.
ToVsync(c, r) == BeginHsync(DisplayEnable(maybe_handle_hsync(BeginFrame(c, r), r), r), r)
ToNext(c, r) == LatchEndOfMain(CheckAdjustment(NextAddress(VSync(c, r)), r), r)

\* The end of a pulse is sent before a pulse that begins at the same time, and
\* that one is not sent.
generate_next_address ==
  \E c \in {ToVsync(crtc, regs)} :
    /\ ca1_provider' = IF VsyncEnding(c, regs) THEN provide_data({})
                       ELSE IF VsyncStarting(c, regs) THEN provide_data(Bits)
                       ELSE ca1_provider
    /\ \E d \in {ToNext(c, regs)} : \E e \in {NextCharacter(d, regs)} : crtc' = CheckRows(e, regs)
    /\ UNCHANGED regs

-----------------------------------------------------------------------------
(***************************************************************************)
(* The address on the bus: latch_address() with wrap_output_addr().  c0c1  *)
(* are the two scroll bits of the addressable latch.                       *)
(***************************************************************************)
Subtrahend == [c0c1 \in 0..3 |-> CASE c0c1 = 0 -> \h4000 [] c0c1 = 1 -> \h2000
                                [] c0c1 = 2 -> \h5000 [] OTHER -> \h2800]
Bit(n, b) == (n \div 2^b) % 2 = 1

latch_address(c, c0c1) ==
  LET chunky == (c.linear % \h400) + (IF Bit(c.linear, 11) THEN \h7C00 ELSE \h3C00)
      linear == (c.raster_cnt % 8) + ((c.linear * 8) % 2^16)
  IN IF Bit(c.linear, 13) THEN chunky
     ELSE IF Bit(c.linear, 12) THEN (linear + 2^16 - Subtrahend[c0c1]) % 2^16
     ELSE linear

display_enable(c) == c.enabled = Everything
=============================================================================
