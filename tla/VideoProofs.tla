----------------------------- MODULE VideoProofs -----------------------------
(***************************************************************************)
(* What the picture promises to the rest of the machine and to the person  *)
(* who looks at it, for every size of the counters, every menu of register *)
(* writes and every backlog of the window: no field is lost and no         *)
(* vertical sync, every frame has the scan lines that the registers say,   *)
(* every character shows its own byte, and every field has all its rows.   *)
(***************************************************************************)
EXTENDS Video, TLAPS

-----------------------------------------------------------------------------
\* Every counter has at least two values.
Sizes ==
  /\ CharModulus \in Nat \ {0, 1} /\ RasterModulus \in Nat \ {0, 1} /\ LineModulus \in Nat \ {0, 1}
  /\ AdjModulus \in Nat \ {0, 1} /\ WidthModulus \in Nat \ {0, 1}

\* The counters of the 6845 do.
LEMMA SizesAre == Sizes
  BY CrtcAssumption DEF CrtcAssumption, Sizes

\* The registers as numbers.
LEMMA RegsAreNat ==
  ASSUME NEW r, Fits(r)
  PROVE  /\ r.horz_total \in Nat /\ r.horz_total < CharModulus
         /\ r.horz_disp \in Nat /\ r.hsync_pos \in Nat
         /\ r.hsync_width \in Nat /\ r.hsync_width < WidthModulus
         /\ r.vsync_width \in Nat /\ r.vsync_width < WidthModulus
         /\ r.vert_total \in Nat /\ r.vert_total < LineModulus
         /\ r.vert_adj \in Nat /\ r.vert_adj < AdjModulus
         /\ r.vert_disp \in Nat /\ r.vsync_pos \in Nat
         /\ r.skew \in 0..2 /\ r.rasters \in Nat /\ r.rasters < RasterModulus
         /\ r.start \in Nat /\ r.start < AddressModulus /\ r.interlace \in 0..3
<1> USE SizesAre DEF Sizes, Fits, RegisterSize
<1>1. /\ r.horz_total \in Nat /\ r.horz_total < CharModulus
      /\ r.horz_disp \in Nat /\ r.hsync_pos \in Nat
      /\ r.hsync_width \in Nat /\ r.hsync_width < WidthModulus
      /\ r.vsync_width \in Nat /\ r.vsync_width < WidthModulus
  OBVIOUS
<1>2. /\ r.vert_total \in Nat /\ r.vert_total < LineModulus
      /\ r.vert_adj \in Nat /\ r.vert_adj < AdjModulus
      /\ r.vert_disp \in Nat /\ r.vsync_pos \in Nat
  OBVIOUS
<1>3. /\ r.skew \in 0..2 /\ r.rasters \in Nat /\ r.rasters < RasterModulus
      /\ r.interlace \in 0..3
  OBVIOUS
<1>4. r.start \in Nat /\ r.start < AddressModulus
  BY DEF AddressModulus
<1> QED
  BY <1>1, <1>2, <1>3, <1>4

-----------------------------------------------------------------------------
(***************************************************************************)
(* Fields on their way to the window.                                      *)
(***************************************************************************)
FieldInv ==
  /\ frame_buffer \in BOOLEAN /\ queued \in Nat /\ fresh \in BOOLEAN
  /\ NoFrameIsForgotten

\* A field that the worker produces waits with a call of its own, and the UI
\* thread shows what waits whenever one of the calls arrives.
THEOREM FieldsAreShown == Spec => []NoFrameIsForgotten
<1>1. Init => FieldInv
  <2> SUFFICES ASSUME Init PROVE FieldInv
    OBVIOUS
  <2>1. frame_buffer \in BOOLEAN /\ fresh /\ fresh \in BOOLEAN
    BY Zenon DEF Init
  <2>2. queued \in Nat
    BY DEF Init
  <2> QED
    BY <2>1, <2>2 DEF FieldInv, NoFrameIsForgotten
<1>2. FieldInv /\ [Next]_vars => FieldInv'
  <2> SUFFICES ASSUME FieldInv, [Next]_vars PROVE FieldInv'
    OBVIOUS
  <2> USE DEF FieldInv, NoFrameIsForgotten
  <2>1. CASE UNCHANGED viewVars
    BY <2>1 DEF viewVars
  <2>2. CASE maybe_drive_crtc
    <3>1. CASE screen_changed
      <4>1. frame_buffer' /\ frame_buffer' \in BOOLEAN /\ fresh' \in BOOLEAN
        BY <3>1, Zenon DEF screen_changed
      <4>2. queued' \in Nat /\ queued' > 0
        BY <3>1 DEF screen_changed
      <4> QED
        BY <4>1, <4>2
    <3> QED
      BY <2>1, <2>2, <3>1 DEF maybe_drive_crtc, crt_tick
  <2>3. CASE consume_frame
    <3>1. ~frame_buffer' /\ frame_buffer' \in BOOLEAN
      BY <2>3, Zenon DEF consume_frame
    <3>2. fresh' \in BOOLEAN /\ (fresh' <=> fresh \/ frame_buffer)
      BY <2>3, Zenon DEF consume_frame
    <3>3. queued' \in Nat
      BY <2>3 DEF consume_frame
    <3> QED
      BY <3>1, <3>2, <3>3
  <2>4. (Devices \/ NotClocked \/ UlaWrite \/ UNCHANGED vars) => UNCHANGED viewVars
    BY DEF Devices, NotClocked, UlaWrite, vars
  <2> QED
    BY <2>1, <2>2, <2>3, <2>4 DEF Next, Worker
<1>3. FieldInv => NoFrameIsForgotten
  BY DEF FieldInv
<1> QED
  BY <1>1, <1>2, <1>3, PTL DEF Spec

-----------------------------------------------------------------------------
(***************************************************************************)
(* Vertical sync on its way to the VIA.  Of the CRTC only the pulse and    *)
(* its width matter, and few of the steps of a character touch them.       *)
(***************************************************************************)
Pulse(c) ==
  /\ {"v_sync", "vsync_width_cnt"} \subseteq DOMAIN c
  /\ c.v_sync \in BOOLEAN
  /\ c.vsync_width_cnt \in Nat

SamePulse(c, d) ==
  /\ DOMAIN d = DOMAIN c
  /\ d.v_sync = c.v_sync
  /\ d.vsync_width_cnt = c.vsync_width_cnt

\* The pulse is as it was, and the scan lines counted in it are at most one more.
Counts(c, d) ==
  /\ Pulse(d)
  /\ d.v_sync = c.v_sync
  /\ d.vsync_width_cnt <= c.vsync_width_cnt + 1

\* What comes before the vertical sync leaves the pulse alone.
LEMMA BeforeVsync == ASSUME NEW c, NEW r, Pulse(c) PROVE SamePulse(c, ToVsync(c, r))
<1>1. SamePulse(c, BeginFrame(c, r))
  BY DEF SamePulse, Pulse, BeginFrame
<1>2. \A d : Pulse(d) => SamePulse(d, maybe_handle_hsync(d, r))
  BY DEF SamePulse, Pulse, maybe_handle_hsync
<1>3. \A d : Pulse(d) => SamePulse(d, DisplayEnable(d, r))
  BY DEF SamePulse, Pulse, DisplayEnable
<1>4. \A d : Pulse(d) => SamePulse(d, BeginHsync(d, r))
  BY DEF SamePulse, Pulse, BeginHsync
<1>5. \A d, e : Pulse(d) /\ SamePulse(d, e) => Pulse(e)
  BY DEF SamePulse, Pulse
<1>6. \A d, e, f : SamePulse(d, e) /\ SamePulse(e, f) => SamePulse(d, f)
  BY DEF SamePulse
<1> QED
  BY <1>1, <1>2, <1>3, <1>4, <1>5, <1>6 DEF ToVsync

\* A pulse that begins has no scan lines yet.
LEMMA AtVsync ==
  ASSUME NEW c, NEW r, Pulse(c)
  PROVE  /\ Pulse(VSync(c, r))
         /\ VSync(c, r).v_sync <=> VsyncStarting(c, r) \/ (c.v_sync /\ ~VsyncEnding(c, r))
         /\ VSync(c, r).vsync_width_cnt =
              IF VsyncStarting(c, r) /\ ~VsyncEnding(c, r) THEN 0 ELSE c.vsync_width_cnt
  BY DEF Pulse, VSync

\* What comes after it leaves the pulse alone.
LEMMA AfterVsync ==
  ASSUME NEW c, NEW r, Pulse(c)
  PROVE  SamePulse(c, LatchEndOfMain(CheckAdjustment(NextAddress(c), r), r))
<1>1. SamePulse(c, NextAddress(c))
  BY DEF SamePulse, Pulse, NextAddress
<1>2. \A d : Pulse(d) => SamePulse(d, CheckAdjustment(d, r))
  BY DEF SamePulse, Pulse, CheckAdjustment
<1>3. \A d : Pulse(d) => SamePulse(d, LatchEndOfMain(d, r))
  BY DEF SamePulse, Pulse, LatchEndOfMain
<1>4. \A d, e : Pulse(d) /\ SamePulse(d, e) => Pulse(e)
  BY DEF SamePulse, Pulse
<1>5. \A d, e, f : SamePulse(d, e) /\ SamePulse(e, f) => SamePulse(d, f)
  BY DEF SamePulse
<1> QED
  BY <1>1, <1>2, <1>3, <1>4, <1>5

\* A counter of scan lines counts or wraps.
LEMMA WrapsOrCounts == \A n \in Nat : (n + 1) % WidthModulus \in Nat /\ (n + 1) % WidthModulus <= n + 1
<1>1. WidthModulus \in Nat \ {0}
  BY CrtcAssumption DEF CrtcAssumption
<1> QED
  BY <1>1

\* The end of a scan line counts it, and a new frame changes nothing of the pulse.
LEMMA ScanLineCounts ==
  ASSUME NEW c, NEW r, Pulse(c)
  PROVE  Counts(c, NextScanLine(c, r))
<1>1. \A d : Pulse(d) => SamePulse(d, handle_end_of_char_line(d))
  BY DEF SamePulse, Pulse, handle_end_of_char_line
<1> DEFINE raster == NextRaster(c.raster_cnt, r)
           r9Hit == c.raster_cnt = r.rasters
           next == [c EXCEPT !.first_raster = FALSE,
                      !.vsync_width_cnt = (@ + 1) % WidthModulus,
                      !.line_start = IF r9Hit THEN c.next_line_start ELSE @,
                      !.raster_cnt = raster,
                      !.enabled = IF Blank(raster) THEN @ \ {"SCANLINE"} ELSE @ \cup {"SCANLINE"}]
<1>2. NextScanLine(c, r) \in {next, handle_end_of_char_line(next)}
  BY DEF NextScanLine
<1>3. Counts(c, next)
  <2> HIDE DEF raster, r9Hit
  <2>1. /\ DOMAIN next = DOMAIN c
        /\ next.v_sync = c.v_sync
        /\ next.vsync_width_cnt = (c.vsync_width_cnt + 1) % WidthModulus
    BY DEF Pulse
  <2> HIDE DEF next
  <2> QED
    BY <2>1, WrapsOrCounts DEF Counts, Pulse
<1> HIDE DEF next
<1>4. SamePulse(next, handle_end_of_char_line(next))
  BY <1>1, <1>3 DEF Counts
<1> QED
  BY <1>2, <1>3, <1>4 DEF SamePulse, Counts, Pulse

\* The end of a frame leaves the pulse alone.
LEMMA FrameKeepsPulse ==
  ASSUME NEW c, NEW r, Pulse(c)
  PROVE  SamePulse(c, EndOfAdjustment(c, r))
<1>1. \A d : Pulse(d) => SamePulse(d, handle_end_of_char_line(d))
  BY DEF SamePulse, Pulse, handle_end_of_char_line
<1>2. \A d : Pulse(d) => SamePulse(d, handle_end_of_frame(d, r))
  BY DEF SamePulse, Pulse, handle_end_of_frame
<1>3. \A d, e : Pulse(d) /\ SamePulse(d, e) => Pulse(e)
  BY DEF SamePulse, Pulse
<1>4. \A d, e, f : SamePulse(d, e) /\ SamePulse(e, f) => SamePulse(d, f)
  BY DEF SamePulse
<1>5. \A d : Pulse(d) => SamePulse(d, NewFrame(d, r))
  <2> SUFFICES ASSUME NEW d, Pulse(d) PROVE SamePulse(d, NewFrame(d, r))
    OBVIOUS
  <2> DEFINE cleared == [d EXCEPT !.end_of_main = FALSE, !.end_of_v_adj = FALSE,
                                  !.end_of_frame = FALSE, !.start_of_frame = TRUE]
  <2>1. SamePulse(d, cleared)
    BY DEF SamePulse, Pulse
  <2>2. NewFrame(d, r) = handle_end_of_frame(handle_end_of_char_line(cleared), r)
    BY DEF NewFrame
  <2> HIDE DEF cleared
  <2> QED
    BY <1>1, <1>2, <1>3, <1>4, <2>1, <2>2
<1> DEFINE dummy == c.end_of_v_adj /\ Interlaced(r) /\ c.even_logic
           next == [c EXCEPT !.in_v_adj = ~c.end_of_v_adj /\ (@ \/ c.end_of_main),
                             !.end_of_frame = @ \/ dummy]
<1>6. EndOfAdjustment(c, r) \in {next, NewFrame(next, r)}
  BY DEF EndOfAdjustment
<1>7. SamePulse(c, next)
  <2> HIDE DEF dummy
  <2> QED
    BY DEF SamePulse, Pulse
<1> HIDE DEF next
<1> QED
  BY <1>3, <1>4, <1>5, <1>6, <1>7

\* One character counts at most one scan line.
LEMMA CharacterCounts ==
  ASSUME NEW c, NEW r, Pulse(c)
  PROVE  Counts(c, CheckRows(NextCharacter(c, r), r))
<1>1. \A d : Pulse(d) => SamePulse(d, CheckRows(d, r))
  BY DEF SamePulse, Pulse, CheckRows
<1>2. \A d, e : Counts(c, d) /\ SamePulse(d, e) => Counts(c, e)
  BY DEF SamePulse, Counts, Pulse
<1>3. Counts(c, NextCharacter(c, r))
  <2>1. CASE c.char_cnt = r.horz_total
    <3> DEFINE a == NextScanLine(c, r)
               b == EndOfAdjustment(a, r)
               d == [b EXCEPT !.linear = b.line_start]
               e == [d EXCEPT !.char_cnt = 0, !.enabled = @ \cup {"HSYNC"}]
    <3>1. Counts(c, a) /\ SamePulse(a, b)
      BY ScanLineCounts, FrameKeepsPulse DEF Counts
    <3>2. NextCharacter(c, r) = e
      BY <2>1 DEF NextCharacter, handle_end_of_scan_line
    <3> HIDE DEF a, b
    <3>3. Counts(c, b)
      BY <1>2, <3>1
    <3>4. SamePulse(b, d)
      BY <3>3 DEF SamePulse, Counts, Pulse
    <3> HIDE DEF d
    <3>5. Counts(c, d)
      BY <1>2, <3>3, <3>4
    <3>6. SamePulse(d, e)
      BY <3>5 DEF SamePulse, Counts, Pulse
    <3> HIDE DEF e
    <3> QED
      BY <1>2, <3>2, <3>5, <3>6
  <2>2. CASE c.char_cnt # r.horz_total
    BY <2>2 DEF NextCharacter, Counts, Pulse
  <2> QED
    BY <2>1, <2>2
<1> QED
  BY <1>1, <1>2, <1>3 DEF Counts

-----------------------------------------------------------------------------
(***************************************************************************)
(* What a character does to the pulse and to the line to the VIA.          *)
(***************************************************************************)
PulseEnds ==
  /\ crtc.v_sync /\ ~crtc'.v_sync
  /\ crtc.vsync_width_cnt = regs.vsync_width
  /\ ca1_provider' = provide_data({})
PulseMerges == crtc.v_sync /\ crtc'.v_sync /\ ca1_provider' = provide_data({})
PulseBegins ==
  /\ ~crtc.v_sync /\ crtc'.v_sync
  /\ crtc'.vsync_width_cnt <= 1
  /\ ca1_provider' = provide_data(Bits)
PulseGoesOn ==
  /\ crtc'.v_sync = crtc.v_sync
  /\ crtc'.vsync_width_cnt <= crtc.vsync_width_cnt + 1
  /\ UNCHANGED ca1_provider

\* A character of the CRTC: the pulse ends, begins, does both or goes on.
LEMMA CharacterStep ==
  ASSUME Pulse(crtc), generate_next_address
  PROVE  Pulse(crtc') /\ (PulseEnds \/ PulseMerges \/ PulseBegins \/ PulseGoesOn)
<1> DEFINE c == ToVsync(crtc, regs)
           v == VSync(c, regs)
           d == ToNext(c, regs)
           ends == VsyncEnding(c, regs)
           starts == VsyncStarting(c, regs)
<1>1. /\ ca1_provider' = IF ends THEN provide_data({})
                         ELSE IF starts THEN provide_data(Bits) ELSE ca1_provider
      /\ crtc' = CheckRows(NextCharacter(d, regs), regs)
  BY DEF generate_next_address
<1>2. SamePulse(crtc, c)
  BY BeforeVsync
<1>3. /\ ends => c.v_sync /\ c.vsync_width_cnt = regs.vsync_width
      /\ starts => ~c.v_sync \/ ends
  BY DEF VsyncEnding, VsyncStarting
<1> HIDE DEF c, ends, starts
<1>4. Pulse(c)
  BY <1>2 DEF SamePulse, Pulse
<1>5. /\ Pulse(v)
      /\ v.v_sync <=> starts \/ (c.v_sync /\ ~ends)
      /\ v.vsync_width_cnt = IF starts /\ ~ends THEN 0 ELSE c.vsync_width_cnt
  BY <1>4, AtVsync DEF starts, ends
<1>6. SamePulse(v, d)
  BY <1>5, AfterVsync DEF ToNext
<1> HIDE DEF v, d
<1>7. Pulse(d)
  BY <1>5, <1>6 DEF SamePulse, Pulse
<1>8. Counts(d, crtc')
  BY <1>1, <1>7, CharacterCounts
<1>9. /\ Pulse(crtc')
      /\ crtc'.v_sync <=> starts \/ (crtc.v_sync /\ ~ends)
      /\ crtc'.vsync_width_cnt <= (IF starts /\ ~ends THEN 0 ELSE crtc.vsync_width_cnt) + 1
  BY <1>2, <1>5, <1>6, <1>8 DEF SamePulse, Counts, Pulse
<1>10. /\ ends => crtc.v_sync /\ crtc.vsync_width_cnt = regs.vsync_width
       /\ starts => ~crtc.v_sync \/ ends
  BY <1>2, <1>3 DEF SamePulse
<1>11. CASE ends
  <2>1. ca1_provider' = provide_data({})
    BY <1>1, <1>11
  <2> QED
    BY <1>9, <1>10, <1>11, <2>1 DEF PulseEnds, PulseMerges
<1>12. CASE ~ends /\ starts
  <2>1. ca1_provider' = provide_data(Bits)
    BY <1>1, <1>12
  <2> QED
    BY <1>9, <1>10, <1>12, <2>1 DEF PulseBegins
<1>13. CASE ~ends /\ ~starts
  <2>1. ca1_provider' = ca1_provider
    BY <1>1, <1>13
  <2> QED
    BY <1>9, <1>13, <2>1 DEF PulseGoesOn, Pulse
<1> QED
  BY <1>11, <1>12, <1>13

-----------------------------------------------------------------------------
\* While a pulse lasts the VIA has seen its beginning, or has not been ticked
\* since and too few characters have gone by to count two scan lines.
SyncInv ==
  /\ Pulse(crtc)
  /\ ca1_provider \in Provider
  /\ merged \in BOOLEAN
  /\ crtc.v_sync /\ ~merged =>
       \/ ca1 = 1 /\ ~ca1_provider.has
       \/ /\ ca1_provider = provide_data(Bits)
          /\ \/ at = "second" /\ crtc.vsync_width_cnt <= 1
             \/ at = "devices" /\ crtc.vsync_width_cnt <= 2

\* The display at power on.
LEMMA SyncInit == Init => SyncInv
<1> SUFFICES ASSUME Init PROVE SyncInv
  OBVIOUS
<1>1. Fits(regs)
  BY MenusAssumption DEF Init, MenusAssumption
<1>2. ca1_provider \in Provider /\ ~merged /\ merged \in BOOLEAN
  BY DEF Init, NewProvider, Provider, Byte
<1>3. Pulse(PowerOn) /\ ~PowerOn.v_sync
  BY DEF PowerOn, Pulse
<1>4. Pulse(FrameOf(regs)) /\ ~FrameOf(regs).v_sync
  <2> DEFINE lines == ScanLinesPerRow(regs)
             width == FrameLines(regs) - regs.vsync_pos * lines
  <2>1. lines \in Nat
    BY <1>1, RegsAreNat DEF ScanLinesPerRow
  <2>2. /\ regs.vert_total \in Nat /\ regs.vert_adj \in Nat /\ regs.vsync_pos \in Nat
        /\ WidthModulus \in Nat \ {0}
    BY <1>1, RegsAreNat, SizesAre DEF Sizes
  <2>3. FrameLines(regs) = (regs.vert_total + 1) * lines + regs.vert_adj
    BY DEF FrameLines
  <2> HIDE DEF lines
  <2>4. width % WidthModulus \in Nat
    BY <2>1, <2>2, <2>3
  <2>5. /\ {"v_sync", "vsync_width_cnt"} \subseteq DOMAIN FrameOf(regs)
        /\ FrameOf(regs).v_sync = FALSE
        /\ FrameOf(regs).vsync_width_cnt = width % WidthModulus
    BY DEF FrameOf, PowerOn, lines
  <2> QED
    BY <2>4, <2>5 DEF Pulse
<1>5. crtc \in {PowerOn, FrameOf(regs)}
  BY DEF Init
<1> QED
  BY <1>2, <1>3, <1>4, <1>5 DEF SyncInv

\* A character keeps the account of the pulses.
LEMMA CharacterKeepsSync == SyncInv /\ maybe_drive_crtc => SyncInv'
<1> SUFFICES ASSUME SyncInv, maybe_drive_crtc PROVE SyncInv'
  OBVIOUS
<1>1. Pulse(crtc') /\ (PulseEnds \/ PulseMerges \/ PulseBegins \/ PulseGoesOn)
  BY CharacterStep DEF SyncInv, maybe_drive_crtc
<1>2. /\ at \in {"first", "crtc", "second"}
      /\ at' = IF at = "second" THEN "devices" ELSE "second"
      /\ ca1' = ca1
  BY DEF maybe_drive_crtc, Clocked, NextEdge
<1>3. /\ merged' \in BOOLEAN
      /\ merged' <=> crtc'.v_sync /\ (merged \/ (crtc.v_sync /\ ca1_provider' # ca1_provider))
  BY Zenon DEF maybe_drive_crtc, Remember
<1>4. provide_data({}) \in Provider /\ provide_data(Bits) \in Provider
  BY DEF provide_data, Provider, Byte
<1>5. ca1_provider' \in Provider
  BY <1>1, <1>4 DEF SyncInv, PulseEnds, PulseMerges, PulseBegins, PulseGoesOn
<1>6. ca1_provider # provide_data({}) \/ ~(ca1_provider.has) \/ ca1_provider.data = {}
  BY DEF provide_data
<1>7. ASSUME crtc'.v_sync, ~merged'
      PROVE  \/ ca1' = 1 /\ ~ca1_provider'.has
             \/ /\ ca1_provider' = provide_data(Bits)
                /\ \/ at' = "second" /\ crtc'.vsync_width_cnt <= 1
                   \/ at' = "devices" /\ crtc'.vsync_width_cnt <= 2
  <2>1. CASE PulseEnds
    BY <1>7, <2>1 DEF PulseEnds
  <2>2. CASE PulseMerges
    <3>1. ~merged /\ ca1_provider = provide_data({})
      BY <1>3, <1>7, <2>2 DEF PulseMerges
    <3>2. ca1_provider.has /\ ca1_provider.data = {}
      BY <3>1 DEF provide_data
    <3>3. ca1_provider # provide_data(Bits)
      BY <3>2 DEF provide_data, Bits
    <3> QED
      BY <2>2, <3>1, <3>2, <3>3 DEF SyncInv, PulseMerges
  <2>3. CASE PulseBegins
    BY <1>1, <1>2, <2>3 DEF PulseBegins, Pulse
  <2>4. CASE PulseGoesOn
    <3>1. crtc.v_sync /\ ~merged
      BY <1>3, <1>7, <2>4 DEF PulseGoesOn
    <3> QED
      BY <1>1, <1>2, <2>4, <3>1 DEF PulseGoesOn, Pulse, SyncInv
  <2> QED
    BY <1>1, <2>1, <2>2, <2>3, <2>4
<1> QED
  BY <1>1, <1>3, <1>5, <1>7 DEF SyncInv

\* The VIA takes what waits for it.
LEMMA DevicesKeepSync == SyncInv /\ Devices => SyncInv'
<1> SUFFICES ASSUME SyncInv, Devices PROVE SyncInv'
  OBVIOUS
<1>1. /\ ca1' = IF ca1_provider.has THEN (IF 0 \in ca1_provider.data THEN 1 ELSE 0) ELSE ca1
      /\ ca1_provider' = Taken(ca1_provider)
  BY DEF Devices
<1>2. SamePulse(crtc, crtc')
  BY DEF Devices, mmio_write, SamePulse, SyncInv, Pulse
<1>3. merged' = merged
  BY DEF Devices, historyVars
<1>4. ca1_provider' \in Provider /\ ~ca1_provider'.has
  BY <1>1 DEF Taken, SyncInv, Provider
<1>5. crtc.v_sync /\ ~merged => ca1' = 1
  BY <1>1 DEF SyncInv, provide_data, Bits
<1> QED
  BY <1>2, <1>3, <1>4, <1>5 DEF SyncInv, SamePulse, Pulse

\* Every step keeps the account of the pulses.
LEMMA SyncStep == SyncInv /\ [Next]_vars => SyncInv'
<1> SUFFICES ASSUME SyncInv, [Next]_vars PROVE SyncInv'
  OBVIOUS
<1>1. CASE UNCHANGED <<crtcVars, ca1, merged>> /\ (at' = at \/ (NextEdge /\ at \in {"first", "second"}))
  BY <1>1 DEF SyncInv, crtcVars, Pulse, NextEdge
<1>2. NotClocked \/ UlaWrite \/ consume_frame \/ UNCHANGED vars
        => UNCHANGED <<crtcVars, ca1, merged>> /\ (at' = at \/ (NextEdge /\ at \in {"first", "second"}))
  <2>1. NotClocked \/ UlaWrite => UNCHANGED <<crtcVars, ca1, merged>>
    BY DEF NotClocked, UlaWrite, historyVars
  <2>2. NotClocked \/ UlaWrite => NextEdge /\ at \in {"first", "second"}
    BY DEF NotClocked, UlaWrite
  <2>3. consume_frame \/ UNCHANGED vars => UNCHANGED <<crtcVars, ca1, merged, at>>
    BY DEF consume_frame, vars, boardVars, historyVars
  <2> QED
    BY <2>1, <2>2, <2>3
<1> QED
  BY <1>1, <1>2, CharacterKeepsSync, DevicesKeepSync DEF Next, Worker

\* No vertical sync of two scan lines or more is lost between the CRTC and the
\* VIA, though the line between them holds one value only.
THEOREM SyncsAreSeen == Spec => VsyncIsSeen
<1>1. SyncInv /\ [Next]_vars => [VsyncEnds /\ ~merged /\ regs.vsync_width >= 2 => ca1 = 1]_vars
  <2> SUFFICES ASSUME SyncInv, [Next]_vars, VsyncEnds, ~merged, regs.vsync_width >= 2
               PROVE  ca1 = 1
    OBVIOUS
  <2>1. maybe_drive_crtc
    <3>1. Devices => SamePulse(crtc, crtc')
      BY DEF Devices, mmio_write, SamePulse, SyncInv, Pulse
    <3>2. NotClocked \/ UlaWrite \/ consume_frame \/ UNCHANGED vars => UNCHANGED crtc
      BY DEF NotClocked, UlaWrite, consume_frame, vars, crtcVars
    <3> QED
      BY <3>1, <3>2 DEF Next, Worker, VsyncEnds, SamePulse
  <2>2. PulseEnds
    <3>1. PulseEnds \/ PulseMerges \/ PulseBegins \/ PulseGoesOn
      BY <2>1, CharacterStep DEF SyncInv, maybe_drive_crtc
    <3> QED
      BY <3>1 DEF VsyncEnds, PulseMerges, PulseBegins, PulseGoesOn
  <2>3. at # "devices" /\ crtc.vsync_width_cnt >= 2 /\ crtc.vsync_width_cnt \in Nat
    BY <2>1, <2>2 DEF maybe_drive_crtc, Clocked, PulseEnds, SyncInv, Pulse
  <2> QED
    BY <2>2, <2>3 DEF SyncInv, PulseEnds
<1> QED
  BY SyncInit, SyncStep, <1>1, PTL DEF Spec, VsyncIsSeen

-----------------------------------------------------------------------------
(***************************************************************************)
(* The steps of a character, one at a time: which fields of the CRTC each  *)
(* of them touches, and what it leaves in them. What has been proved of a  *)
(* step stands for its definition from here on.                            *)
(***************************************************************************)
\* What a CRTC holds: its numbers, its flags and the bits of display enable.
Numbers == {"char_cnt", "hsync_width_cnt", "raster_cnt", "line_cnt", "vsync_width_cnt", "v_adj_cnt",
            "linear", "line_start", "next_line_start"}
Flags == {"start_of_frame", "h_sync", "first_raster", "v_sync", "had_vsync", "in_v_adj", "check_v_adj",
          "end_of_main", "end_of_v_adj", "end_of_frame", "even_logic", "odd_count"}
CrtcType(c) ==
  /\ DOMAIN c = Numbers \cup Flags \cup {"enabled"}
  /\ \A f \in Numbers : c[f] \in Nat
  /\ \A f \in Flags : c[f] \in BOOLEAN
  /\ c.enabled \subseteq Everything

\* Of the fields of c, d has the same but those of F.
SameBut(c, d, F) == DOMAIN d = DOMAIN c /\ \A f \in DOMAIN c \ F : d[f] = c[f]

\* The first character of a frame takes the address of the screen.
LEMMA BeginFrameStep ==
  ASSUME NEW c, NEW r, CrtcType(c), r.start \in Nat
  PROVE  LET d == BeginFrame(c, r)
         IN /\ CrtcType(d) /\ SameBut(c, d, {"linear", "line_start", "start_of_frame"})
            /\ ~d.start_of_frame
            /\ d.linear = IF c.start_of_frame THEN r.start ELSE c.linear
            /\ d.line_start = IF c.start_of_frame THEN r.start ELSE c.line_start
  BY DEF CrtcType, Numbers, Flags, SameBut, BeginFrame

\* A horizontal pulse counts its characters and ends with the last of them.
LEMMA HsyncStep ==
  ASSUME NEW c, NEW r, CrtcType(c), WidthModulus \in Nat \ {0}
  PROVE  LET d == maybe_handle_hsync(c, r)
             width == (c.hsync_width_cnt + 1) % WidthModulus
         IN /\ CrtcType(d) /\ SameBut(c, d, {"hsync_width_cnt", "h_sync"})
            /\ d.hsync_width_cnt = IF c.h_sync THEN width ELSE c.hsync_width_cnt
            /\ d.h_sync <=> c.h_sync /\ width # r.hsync_width
<1> DEFINE width == (c.hsync_width_cnt + 1) % WidthModulus
           goes == width # r.hsync_width
           d == maybe_handle_hsync(c, r)
<1>1. width \in Nat /\ goes \in BOOLEAN
  BY DEF CrtcType, Numbers
<1>2. d = IF ~c.h_sync THEN c ELSE [c EXCEPT !.hsync_width_cnt = width, !.h_sync = goes]
  BY DEF maybe_handle_hsync
<1> HIDE DEF width, goes, d
<1>3. CrtcType(d) /\ SameBut(c, d, {"hsync_width_cnt", "h_sync"})
  BY <1>1, <1>2 DEF CrtcType, Numbers, Flags, SameBut
<1>4. d.hsync_width_cnt = IF c.h_sync THEN width ELSE c.hsync_width_cnt
  BY <1>1, <1>2 DEF CrtcType, Numbers, Flags
<1>5. d.h_sync <=> c.h_sync /\ goes
  BY <1>1, <1>2 DEF CrtcType, Numbers, Flags
<1> QED
  BY <1>3, <1>4, <1>5 DEF goes, d, width

\* Display enable changes at the edges of the displayed characters, and the last of
\* them leaves the address of the next row.
LEMMA DisplayStep ==
  ASSUME NEW c, NEW r, CrtcType(c)
  PROVE  LET d == DisplayEnable(c, r)
             ends == c.char_cnt \in {r.horz_disp + r.skew, r.horz_total + r.skew}
         IN /\ CrtcType(d) /\ SameBut(c, d, {"enabled", "next_line_start"})
            /\ d.next_line_start = IF c.char_cnt = r.horz_disp THEN c.linear ELSE c.next_line_start
            /\ \A f \in Everything : f \in d.enabled <=>
                 IF f = "SKEW" THEN ~ends /\ (c.char_cnt = r.skew \/ f \in c.enabled)
                 ELSE IF f = "HSYNC" THEN ~ends /\ f \in c.enabled ELSE f \in c.enabled
  BY DEF CrtcType, Numbers, Flags, SameBut, DisplayEnable, Everything

\* A horizontal pulse begins where the register says.
LEMMA BeginHsyncStep ==
  ASSUME NEW c, NEW r, CrtcType(c)
  PROVE  LET d == BeginHsync(c, r)
             begins == c.char_cnt = r.hsync_pos /\ ~c.h_sync
         IN /\ CrtcType(d) /\ SameBut(c, d, {"hsync_width_cnt", "h_sync"})
            /\ d.hsync_width_cnt = IF begins THEN 0 ELSE c.hsync_width_cnt
            /\ d.h_sync <=> c.h_sync \/ begins
  BY DEF CrtcType, Numbers, Flags, SameBut, BeginHsync

\* A vertical pulse begins and ends; one that begins as another ends does not count
\* its lines anew.
LEMMA VSyncStep ==
  ASSUME NEW c, NEW r, CrtcType(c)
  PROVE  LET d == VSync(c, r)
             begins == VsyncStarting(c, r) /\ ~VsyncEnding(c, r)
         IN /\ CrtcType(d) /\ SameBut(c, d, {"v_sync", "had_vsync", "vsync_width_cnt"})
            /\ d.v_sync <=> VsyncStarting(c, r) \/ (c.v_sync /\ ~VsyncEnding(c, r))
            /\ d.had_vsync <=> c.had_vsync \/ begins
            /\ d.vsync_width_cnt = IF begins THEN 0 ELSE c.vsync_width_cnt
  BY DEF CrtcType, Numbers, Flags, SameBut, VSync

\* The address moves on by one, whether the character is displayed or not.
LEMMA NextAddressStep ==
  ASSUME NEW c, CrtcType(c)
  PROVE  LET d == NextAddress(c)
         IN /\ CrtcType(d) /\ SameBut(c, d, {"linear"})
            /\ d.linear = (c.linear + 1) % AddressModulus
  BY DEF CrtcType, Numbers, Flags, SameBut, NextAddress, AddressModulus

\* The character after the check counts the lines of the adjustment.
LEMMA CheckAdjustmentStep ==
  ASSUME NEW c, NEW r, CrtcType(c), AdjModulus \in Nat \ {0}
  PROVE  LET d == CheckAdjustment(c, r)
             checks == c.check_v_adj /\ c.end_of_main
         IN /\ CrtcType(d) /\ SameBut(c, d, {"check_v_adj", "end_of_v_adj", "v_adj_cnt"})
            /\ ~d.check_v_adj
            /\ d.end_of_v_adj <=> c.end_of_v_adj \/ (checks /\ c.v_adj_cnt = r.vert_adj)
            /\ d.v_adj_cnt = IF checks THEN (c.v_adj_cnt + 1) % AdjModulus ELSE c.v_adj_cnt
<1> DEFINE next == (c.v_adj_cnt + 1) % AdjModulus
           last == c.v_adj_cnt = r.vert_adj
           d == CheckAdjustment(c, r)
<1>1. next \in Nat /\ last \in BOOLEAN
  BY DEF CrtcType, Numbers
<1>2. d = IF ~(c.check_v_adj /\ c.end_of_main) THEN [c EXCEPT !.check_v_adj = FALSE]
          ELSE [c EXCEPT !.check_v_adj = FALSE, !.end_of_v_adj = @ \/ last, !.v_adj_cnt = next]
  BY DEF CheckAdjustment
<1> HIDE DEF next, last, d
<1>3. CrtcType(d) /\ SameBut(c, d, {"check_v_adj", "end_of_v_adj", "v_adj_cnt"}) /\ ~d.check_v_adj
  BY <1>1, <1>2 DEF CrtcType, Numbers, Flags, SameBut
<1>4. d.v_adj_cnt = IF c.check_v_adj /\ c.end_of_main THEN next ELSE c.v_adj_cnt
  BY <1>1, <1>2 DEF CrtcType, Numbers, Flags
<1>5. d.end_of_v_adj <=> c.end_of_v_adj \/ (c.check_v_adj /\ c.end_of_main /\ last)
  BY <1>1, <1>2 DEF CrtcType, Numbers, Flags
<1> QED
  BY <1>3, <1>4, <1>5 DEF next, last, d

\* The second character of the last line of the rows notes that they are over.
LEMMA LatchStep ==
  ASSUME NEW c, NEW r, CrtcType(c)
  PROVE  LET d == LatchEndOfMain(c, r)
             last == c.line_cnt = r.vert_total /\ c.raster_cnt = r.rasters
         IN /\ CrtcType(d) /\ SameBut(c, d, {"check_v_adj", "end_of_main", "v_adj_cnt"})
            /\ d.check_v_adj <=> c.check_v_adj \/ c.char_cnt = 1
            /\ d.end_of_main <=> c.end_of_main \/ (c.char_cnt = 1 /\ last)
            /\ d.v_adj_cnt = IF c.char_cnt = 1 /\ last THEN 0 ELSE c.v_adj_cnt
  BY DEF CrtcType, Numbers, Flags, SameBut, LatchEndOfMain

\* A row ends: the next one begins with its first line.
LEMMA RowEndsStep ==
  ASSUME NEW c, CrtcType(c), LineModulus \in Nat \ {0}
  PROVE  LET d == handle_end_of_char_line(c)
         IN /\ CrtcType(d) /\ SameBut(c, d, {"line_cnt", "raster_cnt", "had_vsync", "enabled"})
            /\ d.line_cnt = (c.line_cnt + 1) % LineModulus
            /\ d.raster_cnt = 0 /\ ~d.had_vsync
            /\ d.enabled = c.enabled \cup {"SCANLINE"}
<1> DEFINE next == (c.line_cnt + 1) % LineModulus
           d == handle_end_of_char_line(c)
<1>1. next \in Nat
  BY DEF CrtcType, Numbers
<1>2. d = [c EXCEPT !.line_cnt = next, !.raster_cnt = 0, !.had_vsync = FALSE, !.enabled = @ \cup {"SCANLINE"}]
  BY DEF handle_end_of_char_line
<1> HIDE DEF next, d
<1>3. CrtcType(d) /\ SameBut(c, d, {"line_cnt", "raster_cnt", "had_vsync", "enabled"})
  BY <1>1, <1>2 DEF CrtcType, Numbers, Flags, SameBut, Everything
<1>4. d.line_cnt = next /\ d.raster_cnt = 0 /\ ~d.had_vsync /\ d.enabled = c.enabled \cup {"SCANLINE"}
  BY <1>1, <1>2 DEF CrtcType, Numbers, Flags
<1> QED
  BY <1>3, <1>4 DEF next, d

\* A frame ends: the next one begins with the first row.
LEMMA FrameEndsStep ==
  ASSUME NEW c, NEW r, CrtcType(c), r.start \in Nat
  PROVE  LET d == handle_end_of_frame(c, r)
         IN /\ CrtcType(d)
            /\ SameBut(c, d, {"line_cnt", "first_raster", "next_line_start", "line_start", "enabled",
                              "even_logic"})
            /\ d.line_cnt = 0 /\ d.first_raster /\ d.next_line_start = r.start /\ d.line_start = r.start
            /\ d.enabled = c.enabled \cup {"VSYNC"}
            /\ d.even_logic <=> c.even_logic /\ c.v_sync
  BY DEF CrtcType, Numbers, Flags, SameBut, handle_end_of_frame, Everything

\* What the end of a frame touches.
FrameFields == {"end_of_main", "end_of_v_adj", "end_of_frame", "start_of_frame", "line_cnt",
  "raster_cnt", "had_vsync", "enabled", "first_raster", "next_line_start", "line_start", "even_logic"}

\* The end of a frame, the end of its last row included.
LEMMA NewFrameStep ==
  ASSUME NEW c, NEW r, CrtcType(c), r.start \in Nat, LineModulus \in Nat \ {0}
  PROVE  LET d == NewFrame(c, r)
         IN /\ CrtcType(d) /\ SameBut(c, d, FrameFields)
            /\ ~d.end_of_main /\ ~d.end_of_v_adj /\ ~d.end_of_frame /\ d.start_of_frame
            /\ d.line_cnt = 0 /\ d.raster_cnt = 0 /\ ~d.had_vsync /\ d.first_raster
            /\ d.next_line_start = r.start /\ d.line_start = r.start
            /\ d.enabled = c.enabled \cup {"SCANLINE", "VSYNC"}
            /\ d.even_logic <=> c.even_logic /\ c.v_sync
<1> DEFINE a == [c EXCEPT !.end_of_main = FALSE, !.end_of_v_adj = FALSE,
                          !.end_of_frame = FALSE, !.start_of_frame = TRUE]
           b == handle_end_of_char_line(a)
           d == handle_end_of_frame(b, r)
<1>1. /\ CrtcType(a) /\ SameBut(c, a, {"end_of_main", "end_of_v_adj", "end_of_frame", "start_of_frame"})
      /\ ~a.end_of_main /\ ~a.end_of_v_adj /\ ~a.end_of_frame /\ a.start_of_frame
  BY DEF CrtcType, Numbers, Flags, SameBut
<1>2. NewFrame(c, r) = d
  BY DEF NewFrame
<1> HIDE DEF a
<1>3. /\ CrtcType(b) /\ SameBut(a, b, {"line_cnt", "raster_cnt", "had_vsync", "enabled"})
      /\ b.raster_cnt = 0 /\ ~b.had_vsync /\ b.enabled = a.enabled \cup {"SCANLINE"}
  BY <1>1, RowEndsStep
<1> HIDE DEF b
<1>4. /\ CrtcType(d)
      /\ SameBut(b, d, {"line_cnt", "first_raster", "next_line_start", "line_start", "enabled", "even_logic"})
      /\ d.line_cnt = 0 /\ d.first_raster /\ d.next_line_start = r.start /\ d.line_start = r.start
      /\ d.enabled = b.enabled \cup {"VSYNC"}
      /\ d.even_logic <=> b.even_logic /\ b.v_sync
  BY <1>3, FrameEndsStep
<1> HIDE DEF d
<1>5. SameBut(c, d, FrameFields)
  BY <1>1, <1>3, <1>4 DEF SameBut, FrameFields, CrtcType, Numbers, Flags
<1>6. ~d.end_of_main /\ ~d.end_of_v_adj /\ ~d.end_of_frame /\ d.start_of_frame
  BY <1>1, <1>3, <1>4 DEF SameBut, CrtcType, Numbers, Flags
<1>7. d.raster_cnt = 0 /\ ~d.had_vsync /\ (d.even_logic <=> c.even_logic /\ c.v_sync)
  BY <1>1, <1>3, <1>4 DEF SameBut, CrtcType, Numbers, Flags
<1>8. d.enabled = c.enabled \cup {"SCANLINE", "VSYNC"}
  BY <1>1, <1>3, <1>4 DEF SameBut, CrtcType, Numbers, Flags
<1> QED
  BY <1>2, <1>4, <1>5, <1>6, <1>7, <1>8

\* The last line of a row, unless the adjustment has begun.
RowEnds(c, r) == c.raster_cnt = r.rasters /\ ~c.in_v_adj

\* The next line of a row is a number.
LEMMA RasterIsNat == ASSUME NEW n \in Nat, NEW r PROVE NextRaster(n, r) \in Nat
<1>1. (n + 2 - (n % 2)) \in Nat /\ (n + 1) \in Nat
  OBVIOUS
<1>2. \A k \in Nat : k % RasterModulus \in Nat
  BY SizesAre DEF Sizes
<1> QED
  BY <1>1, <1>2 DEF NextRaster

\* What the end of a scan line touches.
ScanFields == {"first_raster", "vsync_width_cnt", "line_start", "raster_cnt", "enabled", "line_cnt",
               "had_vsync"}

\* The end of a scan line counts it, within its row and within the pulse.
LEMMA NextScanLineStep ==
  ASSUME NEW c, NEW r, CrtcType(c)
  PROVE  LET d == NextScanLine(c, r)
             raster == NextRaster(c.raster_cnt, r)
         IN /\ CrtcType(d) /\ SameBut(c, d, ScanFields)
            /\ ~d.first_raster
            /\ d.vsync_width_cnt = (c.vsync_width_cnt + 1) % WidthModulus
            /\ d.line_start = IF c.raster_cnt = r.rasters THEN c.next_line_start ELSE c.line_start
            /\ d.raster_cnt = IF RowEnds(c, r) THEN 0 ELSE raster
            /\ d.line_cnt = IF RowEnds(c, r) THEN (c.line_cnt + 1) % LineModulus ELSE c.line_cnt
            /\ d.had_vsync <=> c.had_vsync /\ ~RowEnds(c, r)
            /\ d.enabled = IF RowEnds(c, r) \/ ~Blank(raster) THEN c.enabled \cup {"SCANLINE"}
                           ELSE c.enabled \ {"SCANLINE"}
<1> DEFINE r9Hit == c.raster_cnt = r.rasters
           raster == NextRaster(c.raster_cnt, r)
           width == (c.vsync_width_cnt + 1) % WidthModulus
           blank == Blank(raster)
           a == [c EXCEPT !.first_raster = FALSE,
                          !.vsync_width_cnt = width,
                          !.line_start = IF r9Hit THEN c.next_line_start ELSE @,
                          !.raster_cnt = raster,
                          !.enabled = IF blank THEN @ \ {"SCANLINE"} ELSE @ \cup {"SCANLINE"}]
           d == NextScanLine(c, r)
<1>1. raster \in Nat /\ width \in Nat /\ r9Hit \in BOOLEAN /\ blank \in BOOLEAN
  BY RasterIsNat, SizesAre DEF CrtcType, Numbers, Sizes, Blank
<1>2. d = IF r9Hit /\ ~c.in_v_adj THEN handle_end_of_char_line(a) ELSE a
  BY DEF NextScanLine
<1> HIDE DEF raster, width, blank, r9Hit
<1>3. /\ CrtcType(a)
      /\ SameBut(c, a, {"first_raster", "vsync_width_cnt", "line_start", "raster_cnt", "enabled"})
      /\ ~a.first_raster /\ a.vsync_width_cnt = width
      /\ a.line_start = (IF r9Hit THEN c.next_line_start ELSE c.line_start)
      /\ a.raster_cnt = raster
      /\ a.enabled = (IF blank THEN c.enabled \ {"SCANLINE"} ELSE c.enabled \cup {"SCANLINE"})
  BY <1>1 DEF CrtcType, Numbers, Flags, SameBut, Everything
<1>4. RowEnds(c, r) <=> r9Hit /\ ~c.in_v_adj
  BY DEF RowEnds, r9Hit
<1> HIDE DEF a, d
<1>5. CASE ~RowEnds(c, r)
  <2>1. d = a
    BY <1>2, <1>4, <1>5
  <2>2. SameBut(c, d, ScanFields) /\ d.line_cnt = c.line_cnt /\ d.had_vsync = c.had_vsync
    BY <1>3, <2>1 DEF SameBut, ScanFields, CrtcType, Numbers, Flags
  <2> QED
    BY <1>3, <1>5, <2>1, <2>2 DEF d, raster, width, blank, r9Hit
<1>6. CASE RowEnds(c, r)
  <2>1. d = handle_end_of_char_line(a)
    BY <1>2, <1>4, <1>6
  <2>2. /\ CrtcType(d) /\ SameBut(a, d, {"line_cnt", "raster_cnt", "had_vsync", "enabled"})
        /\ d.line_cnt = (a.line_cnt + 1) % LineModulus
        /\ d.raster_cnt = 0 /\ ~d.had_vsync
        /\ d.enabled = a.enabled \cup {"SCANLINE"}
    BY <1>3, <2>1, RowEndsStep, SizesAre DEF Sizes
  <2>3. SameBut(c, d, ScanFields) /\ a.line_cnt = c.line_cnt
    BY <1>3, <2>2 DEF SameBut, ScanFields, CrtcType, Numbers, Flags
  <2>4. /\ ~d.first_raster /\ d.vsync_width_cnt = width
        /\ d.line_start = (IF r9Hit THEN c.next_line_start ELSE c.line_start)
    BY <1>3, <2>2 DEF SameBut, CrtcType, Numbers, Flags
  <2>5. d.enabled = c.enabled \cup {"SCANLINE"}
    BY <1>3, <2>2
  <2> QED
    BY <1>6, <2>2, <2>3, <2>4, <2>5 DEF d, raster, width, blank, r9Hit
<1> QED
  BY <1>5, <1>6

\* An interlaced frame is followed by one more line or it ends here.
Dummy(c, r) == c.end_of_v_adj /\ Interlaced(r) /\ c.even_logic
FrameEnds(c, r) == c.end_of_frame \/ (c.end_of_v_adj /\ ~Dummy(c, r))

\* The end of a scan line ends the rows, the adjustment or the frame, if it was the
\* last of them.
LEMMA EndOfAdjustmentStep ==
  ASSUME NEW c, NEW r, CrtcType(c), r.start \in Nat
  PROVE  LET d == EndOfAdjustment(c, r)
             ends == FrameEnds(c, r)
         IN /\ CrtcType(d) /\ SameBut(c, d, FrameFields \cup {"in_v_adj"})
            /\ d.in_v_adj <=> ~c.end_of_v_adj /\ (c.in_v_adj \/ c.end_of_main)
            /\ d.end_of_frame <=> ~ends /\ Dummy(c, r)
            /\ d.end_of_main <=> ~ends /\ c.end_of_main
            /\ d.end_of_v_adj <=> ~ends /\ c.end_of_v_adj
            /\ d.start_of_frame <=> ends \/ c.start_of_frame
            /\ d.first_raster <=> ends \/ c.first_raster
            /\ d.line_cnt = IF ends THEN 0 ELSE c.line_cnt
            /\ d.raster_cnt = IF ends THEN 0 ELSE c.raster_cnt
            /\ d.had_vsync <=> ~ends /\ c.had_vsync
            /\ d.next_line_start = IF ends THEN r.start ELSE c.next_line_start
            /\ d.line_start = IF ends THEN r.start ELSE c.line_start
            /\ d.enabled = c.enabled \cup (IF ends THEN {"SCANLINE", "VSYNC"} ELSE {})
            /\ d.even_logic <=> c.even_logic /\ (ends => c.v_sync)
<1> DEFINE dummy == Dummy(c, r)
           ends == FrameEnds(c, r)
           a == [c EXCEPT !.in_v_adj = ~c.end_of_v_adj /\ (@ \/ c.end_of_main),
                          !.end_of_frame = @ \/ dummy]
           d == EndOfAdjustment(c, r)
<1>1. /\ dummy \in BOOLEAN /\ (dummy => c.end_of_v_adj)
      /\ ends \in BOOLEAN /\ (ends <=> c.end_of_frame \/ (c.end_of_v_adj /\ ~dummy))
  BY DEF Dummy, FrameEnds
<1>2. d = IF ends THEN NewFrame(a, r) ELSE a
  BY DEF EndOfAdjustment, Dummy, FrameEnds
<1> HIDE DEF dummy, ends
<1>3. /\ CrtcType(a) /\ SameBut(c, a, {"in_v_adj", "end_of_frame"})
      /\ a.in_v_adj <=> ~c.end_of_v_adj /\ (c.in_v_adj \/ c.end_of_main)
      /\ a.end_of_frame <=> c.end_of_frame \/ dummy
  BY <1>1 DEF CrtcType, Numbers, Flags, SameBut
<1> HIDE DEF a, d
<1>4. CASE ~ends
  <2>1. d = a
    BY <1>2, <1>4
  <2>2. SameBut(c, d, FrameFields \cup {"in_v_adj"})
    BY <1>3, <2>1 DEF SameBut, FrameFields
  <2>3. /\ a.end_of_main = c.end_of_main /\ a.end_of_v_adj = c.end_of_v_adj
        /\ a.start_of_frame = c.start_of_frame /\ a.first_raster = c.first_raster
        /\ a.line_cnt = c.line_cnt /\ a.raster_cnt = c.raster_cnt /\ a.had_vsync = c.had_vsync
        /\ a.next_line_start = c.next_line_start /\ a.line_start = c.line_start
        /\ a.enabled = c.enabled /\ a.even_logic = c.even_logic
    BY <1>3 DEF SameBut, CrtcType, Numbers, Flags
  <2> QED
    BY <1>1, <1>3, <1>4, <2>1, <2>2, <2>3 DEF dummy, ends, d
<1>5. CASE ends
  <2>1. d = NewFrame(a, r)
    BY <1>2, <1>5
  <2>2. /\ CrtcType(d) /\ SameBut(a, d, FrameFields)
        /\ ~d.end_of_main /\ ~d.end_of_v_adj /\ ~d.end_of_frame /\ d.start_of_frame
        /\ d.line_cnt = 0 /\ d.raster_cnt = 0 /\ ~d.had_vsync /\ d.first_raster
        /\ d.next_line_start = r.start /\ d.line_start = r.start
        /\ d.enabled = a.enabled \cup {"SCANLINE", "VSYNC"}
        /\ d.even_logic <=> a.even_logic /\ a.v_sync
    BY <1>3, <2>1, NewFrameStep, SizesAre DEF Sizes
  <2>3. SameBut(c, d, FrameFields \cup {"in_v_adj"})
    BY <1>3, <2>2 DEF SameBut, FrameFields
  <2>4. /\ a.enabled = c.enabled /\ a.even_logic = c.even_logic /\ a.v_sync = c.v_sync
        /\ d.in_v_adj = a.in_v_adj
    BY <1>3, <2>2 DEF SameBut, CrtcType, Numbers, Flags, FrameFields
  <2> QED
    BY <1>1, <1>3, <1>5, <2>2, <2>3, <2>4 DEF dummy, ends, d
<1> QED
  BY <1>1, <1>4, <1>5

\* The row after the last displayed one switches the display off and counts the frame.
LEMMA CheckRowsStep ==
  ASSUME NEW c, NEW r, CrtcType(c)
  PROVE  LET d == CheckRows(c, r)
             ends == c.line_cnt = r.vert_disp /\ ~c.first_raster /\ "VSYNC" \in c.enabled
         IN /\ CrtcType(d) /\ SameBut(c, d, {"enabled", "odd_count", "even_logic"})
            /\ d.enabled = IF ends THEN c.enabled \ {"VSYNC"} ELSE c.enabled
            /\ d.odd_count <=> ~(c.odd_count <=> ends)
            /\ d.even_logic <=> IF c.line_cnt = r.vert_disp \/ c.line_cnt = r.vsync_pos THEN d.odd_count
                                ELSE c.even_logic
<1> DEFINE r6Hit == c.line_cnt = r.vert_disp
           r67Hit == r6Hit \/ c.line_cnt = r.vsync_pos
           ends == r6Hit /\ ~c.first_raster /\ "VSYNC" \in c.enabled
           odd == c.odd_count # ends
           d == CheckRows(c, r)
<1>1. r67Hit \in BOOLEAN /\ ends \in BOOLEAN /\ odd \in BOOLEAN /\ (odd <=> ~(c.odd_count <=> ends))
  BY Zenon DEF CrtcType, Flags
<1>2. d = [c EXCEPT !.enabled = IF ends THEN @ \ {"VSYNC"} ELSE @, !.odd_count = odd,
                    !.even_logic = IF r67Hit THEN odd ELSE @]
  BY DEF CheckRows
<1> HIDE DEF r67Hit, ends, odd, d
<1>3. CrtcType(d) /\ SameBut(c, d, {"enabled", "odd_count", "even_logic"})
  BY <1>1, <1>2 DEF CrtcType, Numbers, Flags, SameBut
<1>4. /\ d.enabled = (IF ends THEN c.enabled \ {"VSYNC"} ELSE c.enabled)
      /\ d.odd_count = odd
      /\ d.even_logic = (IF r67Hit THEN odd ELSE c.even_logic)
  BY <1>1, <1>2 DEF CrtcType, Numbers, Flags
<1> QED
  BY <1>1, <1>3, <1>4 DEF d, ends, odd, r67Hit

\* The character before the counters of characters and lines move on.
Character(c, r) == ToNext(ToVsync(c, r), r)
CharacterFields == {"linear", "line_start", "start_of_frame", "hsync_width_cnt", "h_sync", "enabled",
  "next_line_start", "v_sync", "had_vsync", "vsync_width_cnt", "check_v_adj", "end_of_v_adj",
  "v_adj_cnt", "end_of_main"}

\* The places of a frame at which something happens.
LastLine(c, r) == c.line_cnt = r.vert_total /\ c.raster_cnt = r.rasters
Latches(c, r) == c.char_cnt = 1 /\ LastLine(c, r)
Checks(c) == c.check_v_adj /\ c.end_of_main
Wide(c) == (c.hsync_width_cnt + 1) % WidthModulus
HsyncBegins(c, r) == c.char_cnt = r.hsync_pos /\ ~(c.h_sync /\ Wide(c) # r.hsync_width)
VsyncBegins(c, r) == VsyncStarting(c, r) /\ ~VsyncEnding(c, r)
Blanks(c, r) == c.char_cnt \in {r.horz_disp + r.skew, r.horz_total + r.skew}

\* A character up to vertical sync: address, display enable and horizontal sync.
LEMMA CharacterStart ==
  ASSUME NEW c, NEW r, CrtcType(c), Fits(r)
  PROVE  LET d == ToVsync(c, r)
         IN /\ CrtcType(d)
            /\ SameBut(c, d, {"linear", "line_start", "start_of_frame", "hsync_width_cnt", "h_sync", "enabled",
                              "next_line_start"})
            /\ ~d.start_of_frame
            /\ d.linear = IF c.start_of_frame THEN r.start ELSE c.linear
            /\ d.line_start = IF c.start_of_frame THEN r.start ELSE c.line_start
            /\ d.next_line_start = IF c.char_cnt = r.horz_disp THEN d.linear ELSE c.next_line_start
            /\ \A f \in Everything : f \in d.enabled <=>
                 IF f = "SKEW" THEN ~Blanks(c, r) /\ (c.char_cnt = r.skew \/ f \in c.enabled)
                 ELSE IF f = "HSYNC" THEN ~Blanks(c, r) /\ f \in c.enabled ELSE f \in c.enabled
            /\ d.h_sync <=> (c.h_sync /\ Wide(c) # r.hsync_width) \/ HsyncBegins(c, r)
            /\ d.hsync_width_cnt = IF HsyncBegins(c, r) THEN 0
                                   ELSE IF c.h_sync THEN Wide(c) ELSE c.hsync_width_cnt
<1> DEFINE x == BeginFrame(c, r)
           y == maybe_handle_hsync(x, r)
           z == DisplayEnable(y, r)
           d == BeginHsync(z, r)
<1>1. r.start \in Nat
  BY SizesAre DEF Fits, RegisterSize, AddressModulus, Sizes
<1>2. /\ CrtcType(x) /\ SameBut(c, x, {"linear", "line_start", "start_of_frame"})
      /\ ~x.start_of_frame
      /\ x.linear = (IF c.start_of_frame THEN r.start ELSE c.linear)
      /\ x.line_start = (IF c.start_of_frame THEN r.start ELSE c.line_start)
  BY <1>1, BeginFrameStep
<1> HIDE DEF x
<1>3. /\ CrtcType(y) /\ SameBut(x, y, {"hsync_width_cnt", "h_sync"})
      /\ y.hsync_width_cnt = (IF x.h_sync THEN Wide(x) ELSE x.hsync_width_cnt)
      /\ y.h_sync <=> x.h_sync /\ Wide(x) # r.hsync_width
  BY <1>2, HsyncStep, SizesAre DEF Sizes, Wide
<1> HIDE DEF y
<1>4. /\ CrtcType(z) /\ SameBut(y, z, {"enabled", "next_line_start"})
      /\ z.next_line_start = (IF y.char_cnt = r.horz_disp THEN y.linear ELSE y.next_line_start)
      /\ \A f \in Everything : f \in z.enabled <=>
                 IF f = "SKEW" THEN ~Blanks(y, r) /\ (y.char_cnt = r.skew \/ f \in y.enabled)
                 ELSE IF f = "HSYNC" THEN ~Blanks(y, r) /\ f \in y.enabled ELSE f \in y.enabled
  BY <1>3, DisplayStep DEF Blanks
<1> HIDE DEF z
<1>5. /\ CrtcType(d) /\ SameBut(z, d, {"hsync_width_cnt", "h_sync"})
      /\ d.hsync_width_cnt = (IF z.char_cnt = r.hsync_pos /\ ~z.h_sync THEN 0 ELSE z.hsync_width_cnt)
      /\ d.h_sync <=> z.h_sync \/ (z.char_cnt = r.hsync_pos /\ ~z.h_sync)
  BY <1>4, BeginHsyncStep
<1> HIDE DEF d
<1>6. SameBut(c, d, {"linear", "line_start", "start_of_frame", "hsync_width_cnt", "h_sync", "enabled",
                     "next_line_start"})
  BY <1>2, <1>3, <1>4, <1>5 DEF SameBut
<1> USE DEF SameBut, CrtcType, Numbers, Flags
<1>7. /\ y.char_cnt = c.char_cnt /\ z.char_cnt = c.char_cnt
      /\ x.h_sync = c.h_sync /\ z.h_sync = y.h_sync /\ x.hsync_width_cnt = c.hsync_width_cnt
      /\ z.hsync_width_cnt = y.hsync_width_cnt /\ y.enabled = c.enabled /\ d.enabled = z.enabled
      /\ y.linear = x.linear /\ d.linear = x.linear /\ d.line_start = x.line_start
      /\ d.next_line_start = z.next_line_start /\ y.next_line_start = c.next_line_start
      /\ d.start_of_frame = x.start_of_frame
  BY <1>2, <1>3, <1>4, <1>5
<1>8. Wide(x) = Wide(c) /\ (Blanks(y, r) <=> Blanks(c, r))
  BY <1>7 DEF Wide, Blanks
<1>9. (d.h_sync <=> (c.h_sync /\ Wide(c) # r.hsync_width) \/ HsyncBegins(c, r))
  BY <1>3, <1>5, <1>7, <1>8 DEF HsyncBegins
<1>10. d.hsync_width_cnt = IF HsyncBegins(c, r) THEN 0
                           ELSE IF c.h_sync THEN Wide(c) ELSE c.hsync_width_cnt
  BY <1>3, <1>5, <1>7, <1>8 DEF HsyncBegins
<1>11. \A f \in Everything : f \in d.enabled <=>
                 IF f = "SKEW" THEN ~Blanks(c, r) /\ (c.char_cnt = r.skew \/ f \in c.enabled)
                 ELSE IF f = "HSYNC" THEN ~Blanks(c, r) /\ f \in c.enabled ELSE f \in c.enabled
  BY <1>4, <1>7, <1>8
<1>12. ToVsync(c, r) = d
  BY DEF ToVsync, d, z, y, x
<1> QED
  BY <1>2, <1>4, <1>5, <1>6, <1>7, <1>9, <1>10, <1>11, <1>12

\* A character from vertical sync on: the pulse, the address and the end of the rows.
LEMMA CharacterEnd ==
  ASSUME NEW c, NEW r, CrtcType(c), Fits(r)
  PROVE  LET d == ToNext(c, r)
         IN /\ CrtcType(d)
            /\ SameBut(c, d, {"v_sync", "had_vsync", "vsync_width_cnt", "linear", "check_v_adj",
                              "end_of_v_adj", "v_adj_cnt", "end_of_main"})
            /\ d.v_sync <=> VsyncStarting(c, r) \/ (c.v_sync /\ ~VsyncEnding(c, r))
            /\ d.had_vsync <=> c.had_vsync \/ VsyncBegins(c, r)
            /\ d.vsync_width_cnt = IF VsyncBegins(c, r) THEN 0 ELSE c.vsync_width_cnt
            /\ d.linear = (c.linear + 1) % AddressModulus
            /\ d.check_v_adj <=> c.char_cnt = 1
            /\ d.end_of_main <=> c.end_of_main \/ Latches(c, r)
            /\ d.end_of_v_adj <=> c.end_of_v_adj \/ (Checks(c) /\ c.v_adj_cnt = r.vert_adj)
            /\ d.v_adj_cnt = IF Latches(c, r) THEN 0
                             ELSE IF Checks(c) THEN (c.v_adj_cnt + 1) % AdjModulus ELSE c.v_adj_cnt
<1> DEFINE x == VSync(c, r)
           y == NextAddress(x)
           z == CheckAdjustment(y, r)
           d == LatchEndOfMain(z, r)
<1>1. /\ CrtcType(x) /\ SameBut(c, x, {"v_sync", "had_vsync", "vsync_width_cnt"})
      /\ x.v_sync <=> VsyncStarting(c, r) \/ (c.v_sync /\ ~VsyncEnding(c, r))
      /\ x.had_vsync <=> c.had_vsync \/ VsyncBegins(c, r)
      /\ x.vsync_width_cnt = (IF VsyncBegins(c, r) THEN 0 ELSE c.vsync_width_cnt)
  BY VSyncStep DEF VsyncBegins
<1> HIDE DEF x
<1>2. /\ CrtcType(y) /\ SameBut(x, y, {"linear"})
      /\ y.linear = (x.linear + 1) % AddressModulus
  BY <1>1, NextAddressStep
<1> HIDE DEF y
<1>3. /\ CrtcType(z) /\ SameBut(y, z, {"check_v_adj", "end_of_v_adj", "v_adj_cnt"})
      /\ ~z.check_v_adj
      /\ z.end_of_v_adj <=> y.end_of_v_adj \/ (Checks(y) /\ y.v_adj_cnt = r.vert_adj)
      /\ z.v_adj_cnt = (IF Checks(y) THEN (y.v_adj_cnt + 1) % AdjModulus ELSE y.v_adj_cnt)
  BY <1>2, CheckAdjustmentStep, SizesAre DEF Sizes, Checks
<1> HIDE DEF z
<1>4. /\ CrtcType(d) /\ SameBut(z, d, {"check_v_adj", "end_of_main", "v_adj_cnt"})
      /\ d.check_v_adj <=> z.check_v_adj \/ z.char_cnt = 1
      /\ d.end_of_main <=> z.end_of_main \/ Latches(z, r)
      /\ d.v_adj_cnt = (IF Latches(z, r) THEN 0 ELSE z.v_adj_cnt)
  BY <1>3, LatchStep DEF Latches, LastLine
<1> HIDE DEF d
<1>5. SameBut(c, d, {"v_sync", "had_vsync", "vsync_width_cnt", "linear", "check_v_adj",
                     "end_of_v_adj", "v_adj_cnt", "end_of_main"})
  BY <1>1, <1>2, <1>3, <1>4 DEF SameBut
<1> USE DEF SameBut, CrtcType, Numbers, Flags
<1>6. /\ d.v_sync = x.v_sync /\ d.had_vsync = x.had_vsync /\ d.vsync_width_cnt = x.vsync_width_cnt
      /\ x.linear = c.linear /\ d.linear = y.linear /\ z.char_cnt = c.char_cnt
      /\ z.end_of_main = c.end_of_main /\ d.end_of_v_adj = z.end_of_v_adj
      /\ y.end_of_v_adj = c.end_of_v_adj /\ y.v_adj_cnt = c.v_adj_cnt
      /\ y.check_v_adj = c.check_v_adj /\ y.end_of_main = c.end_of_main
      /\ z.line_cnt = c.line_cnt /\ z.raster_cnt = c.raster_cnt
  BY <1>1, <1>2, <1>3, <1>4
<1>7. (Latches(z, r) <=> Latches(c, r)) /\ (Checks(y) <=> Checks(c))
  BY <1>6 DEF Latches, LastLine, Checks
<1>8. d = ToNext(c, r)
  BY DEF ToNext, d, z, y, x
<1> HIDE DEF SameBut, CrtcType, Numbers, Flags
<1>9. d.linear = (c.linear + 1) % AddressModulus
  BY <1>2, <1>6
<1>10. /\ d.v_sync <=> VsyncStarting(c, r) \/ (c.v_sync /\ ~VsyncEnding(c, r))
       /\ d.had_vsync <=> c.had_vsync \/ VsyncBegins(c, r)
       /\ d.vsync_width_cnt = (IF VsyncBegins(c, r) THEN 0 ELSE c.vsync_width_cnt)
  BY <1>1, <1>6
<1>11. /\ d.check_v_adj <=> c.char_cnt = 1
       /\ d.end_of_main <=> c.end_of_main \/ Latches(c, r)
       /\ d.end_of_v_adj <=> c.end_of_v_adj \/ (Checks(c) /\ c.v_adj_cnt = r.vert_adj)
  BY <1>3, <1>4, <1>6, <1>7
<1>12. d.v_adj_cnt = IF Latches(c, r) THEN 0
                     ELSE IF Checks(c) THEN (c.v_adj_cnt + 1) % AdjModulus ELSE c.v_adj_cnt
  BY <1>3, <1>4, <1>6, <1>7
<1> QED
  BY <1>4, <1>5, <1>8, <1>9, <1>10, <1>11, <1>12

\* What the character has done before the counters of characters and lines move.
LEMMA CharacterDoes ==
  ASSUME NEW c, NEW r, CrtcType(c), Fits(r)
  PROVE  LET d == Character(c, r)
         IN /\ CrtcType(d) /\ SameBut(c, d, CharacterFields)
            /\ ~d.start_of_frame
            /\ d.linear = ((IF c.start_of_frame THEN r.start ELSE c.linear) + 1) % AddressModulus
            /\ d.line_start = IF c.start_of_frame THEN r.start ELSE c.line_start
            /\ d.next_line_start = IF c.char_cnt = r.horz_disp
                                   THEN IF c.start_of_frame THEN r.start ELSE c.linear
                                   ELSE c.next_line_start
            /\ \A f \in Everything : f \in d.enabled <=>
                 IF f = "SKEW" THEN ~Blanks(c, r) /\ (c.char_cnt = r.skew \/ f \in c.enabled)
                 ELSE IF f = "HSYNC" THEN ~Blanks(c, r) /\ f \in c.enabled ELSE f \in c.enabled
            /\ d.h_sync <=> (c.h_sync /\ Wide(c) # r.hsync_width) \/ HsyncBegins(c, r)
            /\ d.hsync_width_cnt = IF HsyncBegins(c, r) THEN 0
                                   ELSE IF c.h_sync THEN Wide(c) ELSE c.hsync_width_cnt
            /\ d.v_sync <=> VsyncStarting(c, r) \/ (c.v_sync /\ ~VsyncEnding(c, r))
            /\ d.had_vsync <=> c.had_vsync \/ VsyncBegins(c, r)
            /\ d.vsync_width_cnt = IF VsyncBegins(c, r) THEN 0 ELSE c.vsync_width_cnt
            /\ d.check_v_adj <=> c.char_cnt = 1
            /\ d.end_of_main <=> c.end_of_main \/ Latches(c, r)
            /\ d.end_of_v_adj <=> c.end_of_v_adj \/ (Checks(c) /\ c.v_adj_cnt = r.vert_adj)
            /\ d.v_adj_cnt = IF Latches(c, r) THEN 0
                             ELSE IF Checks(c) THEN (c.v_adj_cnt + 1) % AdjModulus ELSE c.v_adj_cnt
<1> DEFINE q == ToVsync(c, r)
           d == ToNext(q, r)
<1>1. /\ CrtcType(q)
      /\ SameBut(c, q, {"linear", "line_start", "start_of_frame", "hsync_width_cnt", "h_sync", "enabled",
                        "next_line_start"})
      /\ ~q.start_of_frame
      /\ q.linear = (IF c.start_of_frame THEN r.start ELSE c.linear)
      /\ q.line_start = (IF c.start_of_frame THEN r.start ELSE c.line_start)
      /\ q.next_line_start = (IF c.char_cnt = r.horz_disp THEN q.linear ELSE c.next_line_start)
      /\ \A f \in Everything : f \in q.enabled <=>
           IF f = "SKEW" THEN ~Blanks(c, r) /\ (c.char_cnt = r.skew \/ f \in c.enabled)
           ELSE IF f = "HSYNC" THEN ~Blanks(c, r) /\ f \in c.enabled ELSE f \in c.enabled
      /\ q.h_sync <=> (c.h_sync /\ Wide(c) # r.hsync_width) \/ HsyncBegins(c, r)
      /\ q.hsync_width_cnt = (IF HsyncBegins(c, r) THEN 0
                              ELSE IF c.h_sync THEN Wide(c) ELSE c.hsync_width_cnt)
  BY CharacterStart
<1> HIDE DEF q
<1>2. /\ CrtcType(d)
      /\ SameBut(q, d, {"v_sync", "had_vsync", "vsync_width_cnt", "linear", "check_v_adj",
                              "end_of_v_adj", "v_adj_cnt", "end_of_main"})
      /\ d.v_sync <=> VsyncStarting(q, r) \/ (q.v_sync /\ ~VsyncEnding(q, r))
      /\ d.had_vsync <=> q.had_vsync \/ VsyncBegins(q, r)
      /\ d.vsync_width_cnt = (IF VsyncBegins(q, r) THEN 0 ELSE q.vsync_width_cnt)
      /\ d.linear = (q.linear + 1) % AddressModulus
      /\ d.check_v_adj <=> q.char_cnt = 1
      /\ d.end_of_main <=> q.end_of_main \/ Latches(q, r)
      /\ d.end_of_v_adj <=> q.end_of_v_adj \/ (Checks(q) /\ q.v_adj_cnt = r.vert_adj)
      /\ d.v_adj_cnt = (IF Latches(q, r) THEN 0
                        ELSE IF Checks(q) THEN (q.v_adj_cnt + 1) % AdjModulus ELSE q.v_adj_cnt)
  BY <1>1, CharacterEnd
<1> HIDE DEF d
<1>3. SameBut(c, d, CharacterFields)
  BY <1>1, <1>2 DEF SameBut, CharacterFields
<1>4. /\ q.v_sync = c.v_sync /\ q.had_vsync = c.had_vsync /\ q.vsync_width_cnt = c.vsync_width_cnt
      /\ q.char_cnt = c.char_cnt /\ q.line_cnt = c.line_cnt /\ q.raster_cnt = c.raster_cnt
      /\ q.even_logic = c.even_logic /\ q.end_of_main = c.end_of_main /\ q.end_of_v_adj = c.end_of_v_adj
      /\ q.check_v_adj = c.check_v_adj /\ q.v_adj_cnt = c.v_adj_cnt
  BY <1>1 DEF SameBut, CrtcType, Numbers, Flags
<1>5. /\ d.start_of_frame = q.start_of_frame /\ d.line_start = q.line_start
      /\ d.next_line_start = q.next_line_start /\ d.enabled = q.enabled /\ d.h_sync = q.h_sync
      /\ d.hsync_width_cnt = q.hsync_width_cnt
  BY <1>1, <1>2 DEF SameBut, CrtcType, Numbers, Flags
<1>6. /\ VsyncEnding(q, r) <=> VsyncEnding(c, r)
      /\ VsyncStarting(q, r) <=> VsyncStarting(c, r)
      /\ Latches(q, r) <=> Latches(c, r)
      /\ Checks(q) <=> Checks(c)
  BY <1>4 DEF VsyncEnding, VsyncStarting, MayTrigger, Latches, LastLine, Checks
<1>7. VsyncBegins(q, r) <=> VsyncBegins(c, r)
  BY <1>6 DEF VsyncBegins
<1>8. Character(c, r) = d
  BY DEF Character, d, q
<1>9. d.linear = ((IF c.start_of_frame THEN r.start ELSE c.linear) + 1) % AddressModulus
  BY <1>1, <1>2
<1>10. d.next_line_start = IF c.char_cnt = r.horz_disp
                           THEN IF c.start_of_frame THEN r.start ELSE c.linear
                           ELSE c.next_line_start
  BY <1>1, <1>5
<1>11. /\ ~d.start_of_frame
       /\ d.line_start = (IF c.start_of_frame THEN r.start ELSE c.line_start)
       /\ \A f \in Everything : f \in d.enabled <=>
            IF f = "SKEW" THEN ~Blanks(c, r) /\ (c.char_cnt = r.skew \/ f \in c.enabled)
            ELSE IF f = "HSYNC" THEN ~Blanks(c, r) /\ f \in c.enabled ELSE f \in c.enabled
       /\ d.h_sync <=> (c.h_sync /\ Wide(c) # r.hsync_width) \/ HsyncBegins(c, r)
       /\ d.hsync_width_cnt = (IF HsyncBegins(c, r) THEN 0
                               ELSE IF c.h_sync THEN Wide(c) ELSE c.hsync_width_cnt)
  BY <1>1, <1>5
<1>12. /\ d.v_sync <=> VsyncStarting(c, r) \/ (c.v_sync /\ ~VsyncEnding(c, r))
       /\ d.had_vsync <=> c.had_vsync \/ VsyncBegins(c, r)
       /\ d.vsync_width_cnt = (IF VsyncBegins(c, r) THEN 0 ELSE c.vsync_width_cnt)
  BY <1>2, <1>4, <1>6, <1>7
<1>13. /\ d.check_v_adj <=> c.char_cnt = 1
       /\ d.end_of_main <=> c.end_of_main \/ Latches(c, r)
       /\ d.end_of_v_adj <=> c.end_of_v_adj \/ (Checks(c) /\ c.v_adj_cnt = r.vert_adj)
       /\ d.v_adj_cnt = (IF Latches(c, r) THEN 0
                         ELSE IF Checks(c) THEN (c.v_adj_cnt + 1) % AdjModulus ELSE c.v_adj_cnt)
  BY <1>2, <1>4, <1>6
<1> QED
  BY <1>2, <1>3, <1>8, <1>9, <1>10, <1>11, <1>12, <1>13

\* A character that does not end its scan line.
LEMMA InLineStep ==
  ASSUME NEW c, NEW r, CrtcType(c), Fits(r), c.char_cnt < r.horz_total
  PROVE  LET d == NextCharacter(c, r)
         IN CrtcType(d) /\ SameBut(c, d, {"char_cnt"}) /\ d.char_cnt = c.char_cnt + 1
<1>1. r.horz_total < CharModulus /\ r.horz_total \in Nat /\ c.char_cnt \in Nat
  BY SizesAre DEF Fits, RegisterSize, Sizes, CrtcType, Numbers
<1>2. (c.char_cnt + 1) % CharModulus = c.char_cnt + 1 /\ c.char_cnt # r.horz_total
  BY <1>1, SizesAre DEF Sizes
<1>3. NextCharacter(c, r) = [c EXCEPT !.char_cnt = c.char_cnt + 1]
  BY <1>2 DEF NextCharacter
<1> QED
  BY <1>1, <1>3 DEF CrtcType, Numbers, Flags, SameBut

\* What the last character of a scan line touches.
TurnFields == ScanFields \cup FrameFields \cup {"in_v_adj", "linear", "char_cnt"}

\* A character that ends its scan line.
LEMMA TurnStep ==
  ASSUME NEW c, NEW r, CrtcType(c), Fits(r), c.char_cnt = r.horz_total, ~c.start_of_frame
  PROVE  LET d == NextCharacter(c, r)
             ends == FrameEnds(c, r)
             raster == NextRaster(c.raster_cnt, r)
         IN /\ CrtcType(d) /\ SameBut(c, d, TurnFields)
            /\ d.char_cnt = 0
            /\ d.in_v_adj <=> ~c.end_of_v_adj /\ (c.in_v_adj \/ c.end_of_main)
            /\ d.end_of_frame <=> ~ends /\ Dummy(c, r)
            /\ d.end_of_main <=> ~ends /\ c.end_of_main
            /\ d.end_of_v_adj <=> ~ends /\ c.end_of_v_adj
            /\ d.start_of_frame <=> ends
            /\ d.first_raster <=> ends
            /\ d.line_cnt = IF ends THEN 0
                            ELSE IF RowEnds(c, r) THEN (c.line_cnt + 1) % LineModulus ELSE c.line_cnt
            /\ d.raster_cnt = IF ends \/ RowEnds(c, r) THEN 0 ELSE raster
            /\ d.had_vsync <=> ~ends /\ ~RowEnds(c, r) /\ c.had_vsync
            /\ d.vsync_width_cnt = (c.vsync_width_cnt + 1) % WidthModulus
            /\ d.next_line_start = IF ends THEN r.start ELSE c.next_line_start
            /\ d.line_start = IF ends THEN r.start
                              ELSE IF c.raster_cnt = r.rasters THEN c.next_line_start ELSE c.line_start
            /\ d.linear = d.line_start
            /\ d.even_logic <=> c.even_logic /\ (ends => c.v_sync)
            /\ \A f \in Everything : f \in d.enabled <=>
                 CASE f = "HSYNC" -> TRUE
                   [] f = "VSYNC" -> ends \/ f \in c.enabled
                   [] f = "SCANLINE" -> ends \/ RowEnds(c, r) \/ ~Blank(raster)
                   [] OTHER -> f \in c.enabled
<1> DEFINE raster == NextRaster(c.raster_cnt, r)
           x == NextScanLine(c, r)
           y == EndOfAdjustment(x, r)
           z == [y EXCEPT !.linear = y.line_start]
           d == [z EXCEPT !.char_cnt = 0, !.enabled = @ \cup {"HSYNC"}]
<1>1. /\ CrtcType(x) /\ SameBut(c, x, ScanFields)
      /\ ~x.first_raster
      /\ x.vsync_width_cnt = (c.vsync_width_cnt + 1) % WidthModulus
      /\ x.line_start = (IF c.raster_cnt = r.rasters THEN c.next_line_start ELSE c.line_start)
      /\ x.raster_cnt = (IF RowEnds(c, r) THEN 0 ELSE raster)
      /\ x.line_cnt = (IF RowEnds(c, r) THEN (c.line_cnt + 1) % LineModulus ELSE c.line_cnt)
      /\ x.had_vsync <=> c.had_vsync /\ ~RowEnds(c, r)
      /\ x.enabled = (IF RowEnds(c, r) \/ ~Blank(raster) THEN c.enabled \cup {"SCANLINE"}
                      ELSE c.enabled \ {"SCANLINE"})
  BY NextScanLineStep
<1> HIDE DEF x
<1>2. r.start \in Nat
  BY SizesAre DEF Fits, RegisterSize, AddressModulus, Sizes
<1>3. /\ CrtcType(y) /\ SameBut(x, y, FrameFields \cup {"in_v_adj"})
      /\ y.in_v_adj <=> ~x.end_of_v_adj /\ (x.in_v_adj \/ x.end_of_main)
      /\ y.end_of_frame <=> ~FrameEnds(x, r) /\ Dummy(x, r)
      /\ y.end_of_main <=> ~FrameEnds(x, r) /\ x.end_of_main
      /\ y.end_of_v_adj <=> ~FrameEnds(x, r) /\ x.end_of_v_adj
      /\ y.start_of_frame <=> FrameEnds(x, r) \/ x.start_of_frame
      /\ y.first_raster <=> FrameEnds(x, r) \/ x.first_raster
      /\ y.line_cnt = (IF FrameEnds(x, r) THEN 0 ELSE x.line_cnt)
      /\ y.raster_cnt = (IF FrameEnds(x, r) THEN 0 ELSE x.raster_cnt)
      /\ y.had_vsync <=> ~FrameEnds(x, r) /\ x.had_vsync
      /\ y.next_line_start = (IF FrameEnds(x, r) THEN r.start ELSE x.next_line_start)
      /\ y.line_start = (IF FrameEnds(x, r) THEN r.start ELSE x.line_start)
      /\ y.enabled = x.enabled \cup (IF FrameEnds(x, r) THEN {"SCANLINE", "VSYNC"} ELSE {})
      /\ y.even_logic <=> x.even_logic /\ (FrameEnds(x, r) => x.v_sync)
  BY <1>1, <1>2, EndOfAdjustmentStep
<1> HIDE DEF y
<1>4. CrtcType(z) /\ SameBut(y, z, {"linear"}) /\ z.linear = y.line_start
  BY <1>3 DEF CrtcType, Numbers, Flags, SameBut
<1> HIDE DEF z
<1>5. /\ CrtcType(d) /\ SameBut(z, d, {"char_cnt", "enabled"})
      /\ d.char_cnt = 0 /\ d.enabled = z.enabled \cup {"HSYNC"}
  BY <1>4 DEF CrtcType, Numbers, Flags, SameBut, Everything
<1>6. NextCharacter(c, r) = d
  BY DEF NextCharacter, handle_end_of_scan_line, z, y, x
<1> HIDE DEF d
<1>7. SameBut(c, d, TurnFields)
  <2>1. SameBut(c, x, TurnFields) /\ SameBut(x, y, TurnFields)
    BY <1>1, <1>3 DEF SameBut, TurnFields
  <2>2. SameBut(y, z, TurnFields) /\ SameBut(z, d, TurnFields)
    BY <1>4, <1>5 DEF SameBut, TurnFields, FrameFields
  <2> QED
    BY <2>1, <2>2 DEF SameBut
<1>8. /\ x.end_of_v_adj = c.end_of_v_adj /\ x.end_of_frame = c.end_of_frame
      /\ x.even_logic = c.even_logic /\ x.in_v_adj = c.in_v_adj /\ x.end_of_main = c.end_of_main
      /\ x.start_of_frame = c.start_of_frame /\ x.next_line_start = c.next_line_start
      /\ x.v_sync = c.v_sync
  BY <1>1 DEF SameBut, CrtcType, Numbers, Flags, ScanFields
<1>9. (FrameEnds(x, r) <=> FrameEnds(c, r)) /\ (Dummy(x, r) <=> Dummy(c, r))
  BY <1>8 DEF FrameEnds, Dummy
<1>10. /\ d.in_v_adj = y.in_v_adj /\ d.end_of_frame = y.end_of_frame /\ d.end_of_main = y.end_of_main
       /\ d.end_of_v_adj = y.end_of_v_adj /\ d.start_of_frame = y.start_of_frame
       /\ d.first_raster = y.first_raster /\ d.line_cnt = y.line_cnt /\ d.raster_cnt = y.raster_cnt
       /\ d.had_vsync = y.had_vsync /\ y.vsync_width_cnt = x.vsync_width_cnt
       /\ d.vsync_width_cnt = y.vsync_width_cnt
       /\ d.next_line_start = y.next_line_start /\ d.line_start = y.line_start
       /\ d.linear = z.linear /\ d.even_logic = y.even_logic /\ z.enabled = y.enabled
  BY <1>3, <1>4, <1>5 DEF SameBut, CrtcType, Numbers, Flags, FrameFields
<1> HIDE DEF raster
<1>11. d.enabled = (IF RowEnds(c, r) \/ ~Blank(raster) THEN c.enabled \cup {"SCANLINE"}
                      ELSE c.enabled \ {"SCANLINE"})
             \cup (IF FrameEnds(c, r) THEN {"SCANLINE", "VSYNC"} ELSE {}) \cup {"HSYNC"}
  BY <1>1, <1>3, <1>5, <1>9, <1>10
<1>12. \A f \in Everything : f \in d.enabled <=>
                 CASE f = "HSYNC" -> TRUE
                   [] f = "VSYNC" -> FrameEnds(c, r) \/ f \in c.enabled
                   [] f = "SCANLINE" -> FrameEnds(c, r) \/ RowEnds(c, r) \/ ~Blank(raster)
                   [] OTHER -> f \in c.enabled
  BY <1>11 DEF Everything
<1>13. /\ d.in_v_adj <=> ~c.end_of_v_adj /\ (c.in_v_adj \/ c.end_of_main)
       /\ d.end_of_frame <=> ~FrameEnds(c, r) /\ Dummy(c, r)
       /\ d.end_of_main <=> ~FrameEnds(c, r) /\ c.end_of_main
       /\ d.end_of_v_adj <=> ~FrameEnds(c, r) /\ c.end_of_v_adj
       /\ d.start_of_frame <=> FrameEnds(c, r)
       /\ d.first_raster <=> FrameEnds(c, r)
       /\ d.even_logic <=> c.even_logic /\ (FrameEnds(c, r) => c.v_sync)
       /\ d.had_vsync <=> ~FrameEnds(c, r) /\ ~RowEnds(c, r) /\ c.had_vsync
  BY <1>1, <1>3, <1>8, <1>9, <1>10
<1>14. /\ d.line_cnt = (IF FrameEnds(c, r) THEN 0
                        ELSE IF RowEnds(c, r) THEN (c.line_cnt + 1) % LineModulus ELSE c.line_cnt)
       /\ d.raster_cnt = (IF FrameEnds(c, r) \/ RowEnds(c, r) THEN 0 ELSE raster)
       /\ d.vsync_width_cnt = (c.vsync_width_cnt + 1) % WidthModulus
       /\ d.next_line_start = (IF FrameEnds(c, r) THEN r.start ELSE c.next_line_start)
       /\ d.line_start = (IF FrameEnds(c, r) THEN r.start
                          ELSE IF c.raster_cnt = r.rasters THEN c.next_line_start ELSE c.line_start)
       /\ d.linear = d.line_start
  BY <1>1, <1>3, <1>4, <1>8, <1>9, <1>10
<1> QED
  BY <1>5, <1>6, <1>7, <1>12, <1>13, <1>14, ZenonT(40) DEF raster

-----------------------------------------------------------------------------
(***************************************************************************)
(* The lines of a frame. A position in the frame is a scan line and a      *)
(* character of it, and for a frame that the registers can describe it     *)
(* says what every flag of the end of a row, of the adjustment and of the  *)
(* frame holds.                                                            *)
(***************************************************************************)
\* The scan line a row begins with, the lines of all rows, and the raster address of
\* the i-th line of a row.
RowStart(r, n) == n * ScanLinesPerRow(r)
MainLines(r) == RowStart(r, r.vert_total + 1)
RasterOf(r, i) == IF SyncAndVideo(r) THEN 2 * i ELSE i

\* A row has lines, and its last one is the one the register names.
LEMMA LinesAre ==
  ASSUME NEW r, Fits(r), Regular(r)
  PROVE  /\ ScanLinesPerRow(r) \in Nat \ {0}
         /\ RasterOf(r, ScanLinesPerRow(r) - 1) = r.rasters
  BY RegsAreNat DEF ScanLinesPerRow, RasterOf, Regular

\* The multiples of a number are in the order of their factors.
LEMMA Products ==
  ASSUME NEW k \in Nat, NEW m \in Nat, NEW n \in Nat
  PROVE  /\ m * k \in Nat /\ (m + 1) * k = m * k + k /\ 0 * k = 0
         /\ m < n => m * k + k <= n * k
<1>1. m * k \in Nat /\ (m + 1) * k = m * k + k /\ 0 * k = 0
  OBVIOUS
<1>2. ASSUME m < n PROVE m * k + k <= n * k
  <2>1. PICK j \in Nat : n = (m + 1) + j
    BY <1>2, n - (m + 1) \in Nat
  <2>2. n * k = (m + 1) * k + j * k /\ j * k \in Nat
    BY <2>1
  <2> QED
    BY <1>1, <2>2
<1> QED
  BY <1>1, <1>2

\* The rows follow one another.
LEMMA RowStarts ==
  ASSUME NEW r, Fits(r), Regular(r), NEW n \in Nat
  PROVE  /\ RowStart(r, n) \in Nat
         /\ RowStart(r, 0) = 0
         /\ RowStart(r, n + 1) = RowStart(r, n) + ScanLinesPerRow(r)
  BY LinesAre, Products DEF RowStart

\* A row is over before a later one begins.
LEMMA RowsFollow ==
  ASSUME NEW r, Fits(r), Regular(r), NEW m \in Nat, NEW n \in Nat, m < n
  PROVE  RowStart(r, m) + ScanLinesPerRow(r) <= RowStart(r, n)
  BY LinesAre, Products DEF RowStart

\* The frame: its rows, then the adjustment.
LEMMA FrameIs ==
  ASSUME NEW r, Fits(r), Regular(r)
  PROVE  /\ MainLines(r) \in Nat /\ FrameLines(r) \in Nat
         /\ FrameLines(r) = MainLines(r) + r.vert_adj
         /\ MainLines(r) = RowStart(r, r.vert_total) + ScanLinesPerRow(r)
         /\ RowStart(r, r.vert_disp) \in Nat /\ 1 <= RowStart(r, r.vert_disp)
         /\ RowStart(r, r.vert_disp) < MainLines(r)
         /\ 1 <= MainLines(r)
<1>1. /\ r.vert_total \in Nat /\ r.vert_adj \in Nat /\ r.vert_disp \in Nat
      /\ r.vert_disp <= r.vert_total /\ 1 <= r.vert_disp
  BY RegsAreNat DEF Regular
<1>2. FrameLines(r) = MainLines(r) + r.vert_adj
  BY DEF FrameLines, MainLines, RowStart
<1>3. MainLines(r) = RowStart(r, r.vert_total) + ScanLinesPerRow(r) /\ MainLines(r) \in Nat
  BY <1>1, RowStarts, LinesAre DEF MainLines
<1>4. RowStart(r, 0) + ScanLinesPerRow(r) <= RowStart(r, r.vert_disp)
  BY <1>1, RowsFollow
<1>5. RowStart(r, r.vert_disp) + ScanLinesPerRow(r) <= RowStart(r, r.vert_total + 1)
  BY <1>1, RowsFollow
<1>6. RowStart(r, r.vert_disp) \in Nat /\ RowStart(r, 0) = 0
  BY <1>1, RowStarts
<1> QED
  BY <1>1, <1>2, <1>3, <1>4, <1>5, <1>6, LinesAre DEF MainLines

\* Line s of the frame is line i of row line_cnt.  It belongs to the rows, to the
\* adjustment, or it is the one that interlace inserts; n says how many of its characters
\* the flags have seen.
InRow(c, r, s, i) ==
  /\ i \in 0..(ScanLinesPerRow(r) - 1)
  /\ s = RowStart(r, c.line_cnt) + i /\ c.raster_cnt = RasterOf(r, i)
InMain(c, r, s, n) ==
  /\ ~c.in_v_adj /\ ~c.end_of_frame
  /\ c.line_cnt <= r.vert_total
  /\ \E i \in Nat : InRow(c, r, s, i)
  /\ c.end_of_main <=> LastLine(c, r) /\ n >= 2
  /\ c.end_of_v_adj <=> LastLine(c, r) /\ n >= 3 /\ r.vert_adj = 0
  /\ c.end_of_main => c.v_adj_cnt = IF n = 2 THEN 0 ELSE 1
InAdjustment(c, r, s, n) ==
  /\ c.in_v_adj /\ ~c.end_of_frame /\ c.end_of_main
  /\ c.line_cnt = (r.vert_total + 1) % LineModulus
  /\ MainLines(r) <= s /\ s < FrameLines(r)
  /\ c.end_of_v_adj <=> n >= 3 /\ s = FrameLines(r) - 1
  /\ ~c.end_of_v_adj => c.v_adj_cnt = s - MainLines(r) + (IF n <= 2 THEN 1 ELSE 2)
InInserted(c, r, s) ==
  /\ ~c.in_v_adj /\ c.end_of_frame /\ c.end_of_main /\ c.end_of_v_adj
  /\ c.line_cnt = (r.vert_total + 1) % LineModulus
  /\ s = FrameLines(r) /\ Interlaced(r) /\ c.even_logic
InFrame(c, r, s, n) == InMain(c, r, s, n) \/ InAdjustment(c, r, s, n) \/ InInserted(c, r, s)
Position(c, r, s) ==
  /\ c.char_cnt <= r.horz_total
  /\ c.check_v_adj <=> c.char_cnt = 2
  /\ c.start_of_frame <=> s = 0 /\ c.char_cnt = 0
  /\ c.first_raster <=> s = 0
  /\ InFrame(c, r, s, c.char_cnt)

\* The number of the row after the last one is that of no row that matters.
LEMMA AfterLastRow ==
  ASSUME NEW r, Fits(r), Regular(r)
  PROVE  /\ (r.vert_total + 1) % LineModulus # r.vert_total
         /\ (r.vert_total + 1) % LineModulus # r.vert_disp
         /\ (r.vert_total + 1) % LineModulus \in Nat
<1>1. /\ r.vert_total \in Nat /\ r.vert_total < LineModulus /\ r.vert_disp \in Nat
      /\ r.vert_disp <= r.vert_total /\ 1 <= r.vert_disp
  BY RegsAreNat DEF Regular
<1>2. CASE r.vert_total + 1 < LineModulus
  <2>1. (r.vert_total + 1) % LineModulus = r.vert_total + 1
    BY <1>1, <1>2, SizesAre DEF Sizes
  <2> QED
    BY <1>1, <2>1
<1>3. CASE r.vert_total + 1 = LineModulus
  <2>1. (r.vert_total + 1) % LineModulus = 0
    BY <1>1, <1>3, SizesAre DEF Sizes
  <2> QED
    BY <1>1, <2>1
<1> QED
  BY <1>1, <1>2, <1>3, SizesAre DEF Sizes

\* A character keeps its place in the frame.
LEMMA CharacterInFrame ==
  ASSUME NEW c, NEW r, CrtcType(c), Fits(r), Regular(r), NEW s \in Nat, Position(c, r, s)
  PROVE  InFrame(Character(c, r), r, s, c.char_cnt + 1)
<1> DEFINE d == Character(c, r)
           n == c.char_cnt + 1
<1>1. /\ SameBut(c, d, CharacterFields)
      /\ d.end_of_main <=> c.end_of_main \/ Latches(c, r)
      /\ d.end_of_v_adj <=> c.end_of_v_adj \/ (Checks(c) /\ c.v_adj_cnt = r.vert_adj)
      /\ d.v_adj_cnt = (IF Latches(c, r) THEN 0
                        ELSE IF Checks(c) THEN (c.v_adj_cnt + 1) % AdjModulus ELSE c.v_adj_cnt)
  BY CharacterDoes
<1> HIDE DEF d
<1>2. /\ d.line_cnt = c.line_cnt /\ d.raster_cnt = c.raster_cnt /\ d.in_v_adj = c.in_v_adj
      /\ d.end_of_frame = c.end_of_frame /\ d.even_logic = c.even_logic
  BY <1>1 DEF SameBut, CrtcType, Numbers, Flags, CharacterFields
<1>3. /\ Latches(c, r) <=> c.char_cnt = 1 /\ LastLine(c, r)
      /\ Checks(c) <=> c.char_cnt = 2 /\ c.end_of_main
  BY DEF Latches, Checks, Position
<1>4. c.char_cnt \in Nat /\ c.v_adj_cnt \in Nat /\ n = c.char_cnt + 1
  BY DEF CrtcType, Numbers
<1>5. LastLine(d, r) <=> LastLine(c, r)
  BY <1>2 DEF LastLine
<1>6. c.end_of_main \in BOOLEAN /\ c.end_of_v_adj \in BOOLEAN
  BY DEF CrtcType, Flags
<1> HIDE DEF n
<1>7. CASE InMain(c, r, s, c.char_cnt)
  <2>1. /\ ~c.in_v_adj /\ ~c.end_of_frame
        /\ c.line_cnt <= r.vert_total
        /\ \E i \in Nat : InRow(c, r, s, i)
        /\ c.end_of_main <=> LastLine(c, r) /\ c.char_cnt >= 2
        /\ c.end_of_v_adj <=> LastLine(c, r) /\ c.char_cnt >= 3 /\ r.vert_adj = 0
        /\ c.end_of_main => c.v_adj_cnt = IF c.char_cnt = 2 THEN 0 ELSE 1
    BY <1>7 DEF InMain
  <2>2. \E i \in Nat : InRow(d, r, s, i)
    BY <1>2, <2>1 DEF InRow
  <2>3. d.end_of_main <=> LastLine(d, r) /\ n >= 2
    BY <1>1, <1>3, <1>4, <1>5, <2>1
  <2>4. d.end_of_v_adj <=> LastLine(d, r) /\ n >= 3 /\ r.vert_adj = 0
    BY <1>1, <1>3, <1>4, <1>5, <2>1
  <2>5. (0 + 1) % AdjModulus = 1
    BY SizesAre DEF Sizes
  <2>6. d.end_of_main => d.v_adj_cnt = IF n = 2 THEN 0 ELSE 1
    BY <1>1, <1>3, <1>4, <1>5, <2>1, <2>5
  <2> QED
    BY <1>2, <2>1, <2>2, <2>3, <2>4, <2>6 DEF InFrame, InMain, n, d
<1>8. CASE InAdjustment(c, r, s, c.char_cnt)
  <2>1. /\ c.in_v_adj /\ ~c.end_of_frame /\ c.end_of_main
        /\ c.line_cnt = (r.vert_total + 1) % LineModulus
        /\ MainLines(r) <= s /\ s < FrameLines(r)
        /\ c.end_of_v_adj <=> c.char_cnt >= 3 /\ s = FrameLines(r) - 1
        /\ ~c.end_of_v_adj => c.v_adj_cnt = s - MainLines(r) + (IF c.char_cnt <= 2 THEN 1 ELSE 2)
    BY <1>8 DEF InAdjustment
  <2>2. ~LastLine(c, r)
    BY <2>1, AfterLastRow DEF LastLine
  <2>3. /\ MainLines(r) \in Nat /\ FrameLines(r) = MainLines(r) + r.vert_adj
        /\ r.vert_adj \in Nat /\ r.vert_adj < AdjModulus /\ AdjModulus \in Nat
    BY FrameIs, RegsAreNat, SizesAre DEF Sizes
  <2>4. d.end_of_v_adj <=> n >= 3 /\ s = FrameLines(r) - 1
    BY <1>1, <1>3, <1>4, <2>1, <2>2, <2>3
  <2>5. ~d.end_of_v_adj => d.v_adj_cnt = s - MainLines(r) + (IF n <= 2 THEN 1 ELSE 2)
    <3> SUFFICES ASSUME ~d.end_of_v_adj
                 PROVE  d.v_adj_cnt = s - MainLines(r) + (IF n <= 2 THEN 1 ELSE 2)
      OBVIOUS
    <3>1. c.v_adj_cnt = s - MainLines(r) + (IF c.char_cnt <= 2 THEN 1 ELSE 2)
      BY <1>1, <1>6, <2>1
    <3>2. CASE c.char_cnt # 2
      BY <1>1, <1>3, <1>4, <2>2, <3>1, <3>2
    <3>3. CASE c.char_cnt = 2
      <4>1. s - MainLines(r) + 1 # r.vert_adj
        BY <1>1, <1>3, <2>1, <3>1, <3>3
      <4>2. c.v_adj_cnt + 1 < AdjModulus /\ c.v_adj_cnt + 1 = s - MainLines(r) + 2
        BY <2>1, <2>3, <3>1, <3>3, <4>1
      <4>3. (c.v_adj_cnt + 1) % AdjModulus = c.v_adj_cnt + 1
        BY <1>4, <2>3, <4>2
      <4> QED
        BY <1>1, <1>3, <1>4, <2>1, <2>2, <3>3, <4>2, <4>3
    <3> QED
      BY <3>2, <3>3
  <2> QED
    BY <1>1, <1>2, <2>1, <2>4, <2>5 DEF InFrame, InAdjustment, n, d
<1>9. CASE InInserted(c, r, s)
  BY <1>1, <1>2, <1>9 DEF InFrame, InInserted, d
<1> QED
  BY <1>7, <1>8, <1>9 DEF Position, InFrame, n, d

\* A character as a whole.
Tick(c, r) == CheckRows(NextCharacter(Character(c, r), r), r)

\* The rows that are displayed come first, and what follows them is blank.
IsShown(r, s) == s < RowStart(r, r.vert_disp)
Rows(c, r, s) ==
  /\ "VSYNC" \in c.enabled <=> IsShown(r, s)
  /\ ~IsShown(r, s) => (c.even_logic <=> c.odd_count)

\* Where the displayed rows end.
LEMMA RowsEnd ==
  ASSUME NEW c, NEW r, CrtcType(c), Fits(r), Regular(r), NEW s \in Nat, NEW n, InFrame(c, r, s, n)
  PROVE  /\ c.line_cnt = r.vert_disp => ~IsShown(r, s)
         /\ s = RowStart(r, r.vert_disp) => c.line_cnt = r.vert_disp
<1>1. /\ r.vert_disp \in Nat /\ MainLines(r) \in Nat /\ FrameLines(r) \in Nat
      /\ RowStart(r, r.vert_disp) \in Nat /\ RowStart(r, r.vert_disp) < MainLines(r)
      /\ MainLines(r) <= FrameLines(r) /\ c.line_cnt \in Nat
  BY RegsAreNat, FrameIs DEF CrtcType, Numbers
<1>2. CASE InMain(c, r, s, n)
  <2>1. PICK i \in Nat : InRow(c, r, s, i)
    BY <1>2 DEF InMain
  <2>2. /\ i < ScanLinesPerRow(r) /\ s = RowStart(r, c.line_cnt) + i
        /\ ScanLinesPerRow(r) \in Nat /\ RowStart(r, c.line_cnt) \in Nat
    BY <1>1, <2>1, LinesAre, RowStarts DEF InRow
  <2>3. c.line_cnt < r.vert_disp => s < RowStart(r, r.vert_disp)
    BY <1>1, <2>2, RowsFollow
  <2>4. c.line_cnt > r.vert_disp => s > RowStart(r, r.vert_disp)
    <3>1. SUFFICES ASSUME r.vert_disp < c.line_cnt PROVE s > RowStart(r, r.vert_disp)
      BY <1>1
    <3>2. RowStart(r, r.vert_disp) + ScanLinesPerRow(r) <= RowStart(r, c.line_cnt)
      BY <1>1, <3>1, RowsFollow
    <3> QED
      BY <1>1, <2>2, <3>2, LinesAre
  <2> QED
    BY <1>1, <2>2, <2>3, <2>4 DEF IsShown
<1>3. CASE InAdjustment(c, r, s, n)
  BY <1>1, <1>3, AfterLastRow DEF InAdjustment, IsShown
<1>4. CASE InInserted(c, r, s)
  BY <1>1, <1>4, AfterLastRow DEF InInserted, IsShown
<1> QED
  BY <1>2, <1>3, <1>4 DEF InFrame

\* A scan line goes on.
LEMMA LineGoesOn ==
  ASSUME NEW c, NEW r, CrtcType(c), Fits(r), Regular(r), NEW s \in Nat, Position(c, r, s),
         Rows(c, r, s), c.char_cnt < r.horz_total
  PROVE  LET f == Tick(c, r)
         IN /\ CrtcType(f)
            /\ SameBut(Character(c, r), f, {"char_cnt", "even_logic"})
            /\ f.char_cnt = c.char_cnt + 1
            /\ ~f.start_of_frame /\ Position(f, r, s) /\ Rows(f, r, s)
            /\ f.odd_count <=> c.odd_count
<1> DEFINE d == Character(c, r)
           e == NextCharacter(d, r)
           f == Tick(c, r)
           ends == e.line_cnt = r.vert_disp /\ ~e.first_raster /\ "VSYNC" \in e.enabled
<1>1. /\ CrtcType(d) /\ SameBut(c, d, CharacterFields) /\ ~d.start_of_frame
      /\ d.check_v_adj <=> c.char_cnt = 1
      /\ \A g \in Everything : g \in d.enabled <=>
           IF g = "SKEW" THEN ~Blanks(c, r) /\ (c.char_cnt = r.skew \/ g \in c.enabled)
           ELSE IF g = "HSYNC" THEN ~Blanks(c, r) /\ g \in c.enabled ELSE g \in c.enabled
  BY CharacterDoes
<1>2. InFrame(d, r, s, c.char_cnt + 1)
  BY CharacterInFrame
<1> HIDE DEF d
<1>3. /\ d.char_cnt = c.char_cnt /\ d.line_cnt = c.line_cnt /\ d.first_raster = c.first_raster
      /\ d.odd_count = c.odd_count /\ d.even_logic = c.even_logic
  BY <1>1 DEF SameBut, CrtcType, Numbers, Flags, CharacterFields
<1>4. CrtcType(e) /\ SameBut(d, e, {"char_cnt"}) /\ e.char_cnt = d.char_cnt + 1
  BY <1>1, <1>3, InLineStep
<1> HIDE DEF e
<1>5. /\ CrtcType(f) /\ SameBut(e, f, {"enabled", "odd_count", "even_logic"})
      /\ f.enabled = (IF ends THEN e.enabled \ {"VSYNC"} ELSE e.enabled)
      /\ f.odd_count <=> ~(e.odd_count <=> ends)
      /\ f.even_logic <=> IF e.line_cnt = r.vert_disp \/ e.line_cnt = r.vsync_pos THEN f.odd_count
                          ELSE e.even_logic
  BY <1>4, CheckRowsStep DEF Tick, e, d
<1> HIDE DEF f
<1>6. /\ e.line_cnt = c.line_cnt /\ e.first_raster = c.first_raster /\ e.enabled = d.enabled
      /\ e.odd_count = c.odd_count /\ e.even_logic = c.even_logic
  BY <1>1, <1>3, <1>4 DEF SameBut, CrtcType, Numbers, Flags
<1>7. "VSYNC" \in d.enabled <=> "VSYNC" \in c.enabled
  BY <1>1 DEF Everything
<1>8. ~ends
  BY <1>6, <1>7, RowsEnd DEF Position, Rows
<1>9. f.odd_count <=> c.odd_count
  BY <1>5, <1>6, <1>8
<1>10. Rows(f, r, s)
  BY <1>5, <1>6, <1>7, <1>8, <1>9 DEF Rows
<1>11. SameBut(d, f, {"char_cnt", "even_logic"})
  <2>1. DOMAIN f = DOMAIN d
    BY <1>4, <1>5 DEF SameBut
  <2>2. f.enabled = d.enabled /\ (f.odd_count <=> d.odd_count)
    BY <1>3, <1>5, <1>6, <1>8, <1>9
  <2>3. f.odd_count = d.odd_count
    BY <1>1, <1>5, <2>2 DEF CrtcType, Flags
  <2>4. \A g \in DOMAIN d \ {"enabled", "odd_count", "even_logic", "char_cnt"} : f[g] = d[g]
    BY <1>4, <1>5 DEF SameBut
  <2> QED
    BY <2>1, <2>2, <2>3, <2>4 DEF SameBut
<1>12. f.char_cnt = c.char_cnt + 1
  BY <1>1, <1>3, <1>4, <1>5 DEF SameBut, CrtcType, Numbers, Flags
<1>13. /\ f.check_v_adj = d.check_v_adj /\ f.start_of_frame = d.start_of_frame
       /\ f.first_raster = c.first_raster /\ f.in_v_adj = d.in_v_adj
       /\ f.end_of_frame = d.end_of_frame /\ f.end_of_main = d.end_of_main
       /\ f.end_of_v_adj = d.end_of_v_adj /\ f.v_adj_cnt = d.v_adj_cnt
       /\ f.line_cnt = d.line_cnt /\ f.raster_cnt = d.raster_cnt
  BY <1>1, <1>3, <1>11 DEF SameBut, CrtcType, Numbers, Flags
<1>14. c.char_cnt \in Nat /\ r.horz_total \in Nat
  BY RegsAreNat DEF CrtcType, Numbers
<1>15. InFrame(f, r, s, f.char_cnt)
  <2>1. LastLine(f, r) <=> LastLine(d, r)
    BY <1>13 DEF LastLine
  <2>2. CASE InMain(d, r, s, c.char_cnt + 1)
    <3>1. \E i \in Nat : InRow(f, r, s, i)
      BY <1>13, <2>2 DEF InMain, InRow
    <3> QED
      BY <1>12, <1>13, <2>1, <2>2, <3>1 DEF InMain, InFrame
  <2>3. CASE InAdjustment(d, r, s, c.char_cnt + 1)
    BY <1>12, <1>13, <2>3 DEF InAdjustment, InFrame
  <2>4. CASE InInserted(d, r, s)
    <3>1. ~IsShown(r, s)
      BY <2>4, FrameIs, RegsAreNat DEF InInserted, IsShown
    <3>2. c.even_logic /\ c.odd_count
      BY <1>3, <2>4, <3>1 DEF InInserted, Rows
    <3> QED
      BY <1>5, <1>6, <1>9, <1>13, <2>4, <3>2 DEF InInserted, InFrame
  <2> QED
    BY <1>2, <2>2, <2>3, <2>4 DEF InFrame
<1>16. Position(f, r, s)
  BY <1>1, <1>12, <1>13, <1>14, <1>15 DEF Position
<1> QED
  BY <1>1, <1>5, <1>9, <1>10, <1>11, <1>12, <1>13, <1>16 DEF d, f

\* Where a scan line ends, the row, the adjustment or the frame goes on.
LEMMA LineTurns ==
  ASSUME NEW d, NEW e, NEW r, CrtcType(d), CrtcType(e), Fits(r), Regular(r), NEW s \in Nat,
         NEW n \in Nat, n >= 3, InFrame(d, r, s, n), ~d.start_of_frame, d.char_cnt = r.horz_total,
         e = NextCharacter(d, r), ~FrameEnds(d, r)
  PROVE  \/ InMain(e, r, s + 1, 0) \/ InAdjustment(e, r, s + 1, 0)
         \/ ~e.in_v_adj /\ e.end_of_frame /\ e.end_of_main /\ e.end_of_v_adj
            /\ e.line_cnt = (r.vert_total + 1) % LineModulus
            /\ s + 1 = FrameLines(r) /\ Interlaced(r) /\ d.even_logic
<1>1. /\ e.char_cnt = 0
      /\ e.in_v_adj <=> ~d.end_of_v_adj /\ (d.in_v_adj \/ d.end_of_main)
      /\ e.end_of_frame <=> Dummy(d, r)
      /\ e.end_of_main <=> d.end_of_main
      /\ e.end_of_v_adj <=> d.end_of_v_adj
      /\ e.line_cnt = (IF RowEnds(d, r) THEN (d.line_cnt + 1) % LineModulus ELSE d.line_cnt)
      /\ e.raster_cnt = (IF RowEnds(d, r) THEN 0 ELSE NextRaster(d.raster_cnt, r))
      /\ SameBut(d, e, TurnFields)
  BY TurnStep
<1>2. e.v_adj_cnt = d.v_adj_cnt
  BY <1>1 DEF SameBut, TurnFields, ScanFields, FrameFields, CrtcType, Numbers, Flags
<1>3. /\ r.vert_total \in Nat /\ r.vert_total < LineModulus /\ LineModulus \in Nat
      /\ r.rasters \in Nat /\ r.rasters < RasterModulus /\ RasterModulus \in Nat
      /\ r.vert_adj \in Nat /\ ScanLinesPerRow(r) \in Nat \ {0}
      /\ RasterOf(r, ScanLinesPerRow(r) - 1) = r.rasters
      /\ d.line_cnt \in Nat
  BY RegsAreNat, LinesAre, SizesAre DEF Sizes, CrtcType, Numbers
<1>4. /\ MainLines(r) \in Nat /\ FrameLines(r) = MainLines(r) + r.vert_adj
      /\ MainLines(r) = RowStart(r, r.vert_total) + ScanLinesPerRow(r)
      /\ RowStart(r, r.vert_total) \in Nat
  BY <1>3, FrameIs, RowStarts
<1>5. ~d.end_of_frame /\ (d.end_of_v_adj => Dummy(d, r))
  BY DEF FrameEnds
<1>6. CASE InMain(d, r, s, n)
  <2>1. /\ ~d.in_v_adj /\ d.line_cnt <= r.vert_total
        /\ d.end_of_main <=> LastLine(d, r)
        /\ d.end_of_v_adj <=> LastLine(d, r) /\ r.vert_adj = 0
        /\ d.end_of_main => d.v_adj_cnt = 1
    BY <1>6 DEF InMain
  <2>2. PICK i \in Nat : InRow(d, r, s, i)
    BY <1>6 DEF InMain
  <2>3. /\ i < ScanLinesPerRow(r) /\ s = RowStart(r, d.line_cnt) + i
        /\ d.raster_cnt = RasterOf(r, i) /\ RowStart(r, d.line_cnt) \in Nat
    BY <1>3, <2>2, RowStarts DEF InRow
  <2>4. RowEnds(d, r) <=> i = ScanLinesPerRow(r) - 1
    BY <1>3, <2>1, <2>3 DEF RowEnds, RasterOf
  <2>5. CASE ~RowEnds(d, r)
    <3>1. NextRaster(d.raster_cnt, r) = RasterOf(r, i + 1)
      <4>1. i + 1 <= ScanLinesPerRow(r) - 1
        BY <1>3, <2>3, <2>4, <2>5
      <4>2. CASE SyncAndVideo(r)
        <5>1. 2 * i + 2 <= r.rasters /\ d.raster_cnt = 2 * i
          BY <1>3, <2>3, <4>1, <4>2 DEF RasterOf
        <5>2. (2 * i) % 2 = 0
          OBVIOUS
        <5>3. NextRaster(d.raster_cnt, r) = (2 * i + 2 - 0) % RasterModulus
          BY <4>2, <5>1, <5>2 DEF NextRaster
        <5>4. (2 * i + 2 - 0) % RasterModulus = 2 * i + 2
          BY <1>3, <5>1
        <5> QED
          BY <4>2, <5>3, <5>4 DEF RasterOf
      <4>3. CASE ~SyncAndVideo(r)
        <5>1. i + 1 <= r.rasters /\ d.raster_cnt = i
          BY <1>3, <2>3, <4>1, <4>3 DEF RasterOf
        <5>2. (i + 1) % RasterModulus = i + 1
          BY <1>3, <5>1
        <5> QED
          BY <4>3, <5>1, <5>2 DEF NextRaster, RasterOf
      <4> QED
        BY <4>2, <4>3
    <3>2. ~LastLine(d, r)
      BY <2>1, <2>5 DEF RowEnds, LastLine
    <3>3. InRow(e, r, s + 1, i + 1) /\ i + 1 \in Nat
      BY <1>1, <1>3, <2>3, <2>4, <2>5, <3>1 DEF InRow
    <3>4. ~e.in_v_adj /\ ~e.end_of_frame /\ e.line_cnt <= r.vert_total /\ ~e.end_of_main /\ ~e.end_of_v_adj
      BY <1>1, <2>1, <2>5, <3>2 DEF Dummy
    <3> QED
      BY <3>3, <3>4 DEF InMain
  <2>6. CASE RowEnds(d, r) /\ d.line_cnt < r.vert_total
    <3>1. (d.line_cnt + 1) % LineModulus = d.line_cnt + 1
      BY <1>3, <2>6
    <3>2. s + 1 = RowStart(r, d.line_cnt + 1) + 0
      BY <1>3, <2>3, <2>4, <2>6, RowStarts
    <3>3. RasterOf(r, 0) = 0
      BY DEF RasterOf
    <3>4. InRow(e, r, s + 1, 0)
      BY <1>1, <1>3, <2>6, <3>1, <3>2, <3>3 DEF InRow
    <3>5. ~LastLine(d, r)
      BY <1>3, <2>6 DEF LastLine
    <3>6. ~e.in_v_adj /\ ~e.end_of_frame /\ e.line_cnt <= r.vert_total /\ ~e.end_of_main /\ ~e.end_of_v_adj
      BY <1>1, <1>3, <2>1, <2>6, <3>1, <3>5 DEF Dummy
    <3> QED
      BY <3>4, <3>6 DEF InMain
  <2>7. CASE RowEnds(d, r) /\ d.line_cnt = r.vert_total
    <3>1. LastLine(d, r)
      BY <2>7 DEF LastLine, RowEnds
    <3>2. s + 1 = MainLines(r)
      BY <1>3, <1>4, <2>3, <2>4, <2>7
    <3>3. e.line_cnt = (r.vert_total + 1) % LineModulus /\ e.end_of_main
      BY <1>1, <2>1, <2>7, <3>1
    <3>4. CASE r.vert_adj = 0
      <4>1. e.end_of_v_adj /\ ~e.in_v_adj /\ Dummy(d, r) /\ e.end_of_frame
        BY <1>1, <1>5, <2>1, <3>1, <3>4
      <4> QED
        BY <1>4, <3>2, <3>3, <3>4, <4>1 DEF Dummy
    <3>5. CASE r.vert_adj # 0
      <4>1. ~e.end_of_v_adj /\ e.in_v_adj /\ ~e.end_of_frame
        BY <1>1, <2>1, <3>1, <3>5 DEF Dummy
      <4>2. e.v_adj_cnt = 1
        BY <1>2, <2>1, <3>1
      <4> QED
        BY <1>3, <1>4, <3>2, <3>3, <3>5, <4>1, <4>2 DEF InAdjustment
    <3> QED
      BY <3>4, <3>5
  <2> QED
    BY <1>3, <2>1, <2>5, <2>6, <2>7
<1>7. CASE InAdjustment(d, r, s, n)
  <2>1. /\ d.in_v_adj /\ d.end_of_main
        /\ d.line_cnt = (r.vert_total + 1) % LineModulus
        /\ MainLines(r) <= s /\ s < FrameLines(r)
        /\ d.end_of_v_adj <=> s = FrameLines(r) - 1
        /\ ~d.end_of_v_adj => d.v_adj_cnt = s - MainLines(r) + 2
    BY <1>7 DEF InAdjustment
  <2>2. ~RowEnds(d, r)
    BY <2>1 DEF RowEnds
  <2>3. CASE d.end_of_v_adj
    <3>1. ~e.in_v_adj /\ e.end_of_frame /\ e.end_of_main /\ e.end_of_v_adj
      BY <1>1, <1>5, <2>1, <2>3
    <3> QED
      BY <1>1, <1>3, <1>4, <1>5, <2>1, <2>2, <2>3, <3>1 DEF Dummy
  <2>4. CASE ~d.end_of_v_adj
    <3>1. e.in_v_adj /\ ~e.end_of_frame /\ e.end_of_main /\ ~e.end_of_v_adj
      BY <1>1, <2>1, <2>4 DEF Dummy
    <3>2. e.v_adj_cnt = (s + 1) - MainLines(r) + 1
      BY <1>2, <1>4, <2>1, <2>4
    <3>3. s # FrameLines(r) - 1 /\ FrameLines(r) \in Nat
      BY <1>3, <1>4, <2>1, <2>4
    <3>4. MainLines(r) <= s + 1 /\ s + 1 < FrameLines(r)
      BY <1>4, <2>1, <3>3
    <3> QED
      BY <1>1, <2>1, <2>2, <3>1, <3>2, <3>4 DEF InAdjustment
  <2> QED
    BY <2>3, <2>4
<1>8. CASE InInserted(d, r, s)
  BY <1>5, <1>8 DEF InInserted
<1> QED
  BY <1>6, <1>7, <1>8 DEF InFrame

\* The length of a frame: an odd one may have one more line.
FrameLength(r, odd) == FrameLines(r) + (IF Interlaced(r) /\ odd THEN 1 ELSE 0)
\* Whether the last frame was an odd one.
LastOdd(c, r, s) == IF IsShown(r, s) THEN c.odd_count ELSE ~c.odd_count

\* The end of a line in the rows of the frame.
LEMMA TurnRows ==
  ASSUME NEW d, NEW r, CrtcType(d), Fits(r), d.char_cnt = r.horz_total, ~d.start_of_frame
  PROVE  LET e == NextCharacter(d, r)
             f == CheckRows(e, r)
             ends == e.line_cnt = r.vert_disp /\ ~FrameEnds(d, r) /\ "VSYNC" \in d.enabled
         IN /\ CrtcType(e) /\ CrtcType(f) /\ SameBut(e, f, {"enabled", "odd_count", "even_logic"})
            /\ "VSYNC" \in f.enabled <=> FrameEnds(d, r) \/ ("VSYNC" \in d.enabled /\ ~ends)
            /\ \A g \in Everything \ {"VSYNC"} : g \in f.enabled <=> g \in e.enabled
            /\ f.odd_count <=> ~(d.odd_count <=> ends)
            /\ f.even_logic <=> IF e.line_cnt = r.vert_disp \/ e.line_cnt = r.vsync_pos THEN f.odd_count
                                ELSE d.even_logic /\ (FrameEnds(d, r) => d.v_sync)
<1> DEFINE e == NextCharacter(d, r)
           f == CheckRows(e, r)
           ends == e.line_cnt = r.vert_disp /\ ~FrameEnds(d, r) /\ "VSYNC" \in d.enabled
<1>1. /\ CrtcType(e) /\ SameBut(d, e, TurnFields)
      /\ e.first_raster <=> FrameEnds(d, r)
      /\ e.even_logic <=> d.even_logic /\ (FrameEnds(d, r) => d.v_sync)
      /\ \A g \in Everything : g \in e.enabled <=>
                 CASE g = "HSYNC" -> TRUE
                   [] g = "VSYNC" -> FrameEnds(d, r) \/ g \in d.enabled
                   [] g = "SCANLINE" -> FrameEnds(d, r) \/ RowEnds(d, r) \/ ~Blank(NextRaster(d.raster_cnt, r))
                   [] OTHER -> g \in d.enabled
  BY TurnStep
<1>2. "VSYNC" \in e.enabled <=> FrameEnds(d, r) \/ "VSYNC" \in d.enabled
  BY <1>1 DEF Everything
<1>3. e.odd_count = d.odd_count
  BY <1>1 DEF SameBut, TurnFields, ScanFields, FrameFields, CrtcType, Numbers, Flags
<1> HIDE DEF e
<1>4. ends <=> e.line_cnt = r.vert_disp /\ ~e.first_raster /\ "VSYNC" \in e.enabled
  BY <1>1, <1>2
<1> HIDE DEF ends
<1>5. /\ CrtcType(f) /\ SameBut(e, f, {"enabled", "odd_count", "even_logic"})
      /\ f.enabled = (IF ends THEN e.enabled \ {"VSYNC"} ELSE e.enabled)
      /\ f.odd_count <=> ~(e.odd_count <=> ends)
      /\ f.even_logic <=> IF e.line_cnt = r.vert_disp \/ e.line_cnt = r.vsync_pos THEN f.odd_count
                          ELSE e.even_logic
  BY <1>1, <1>4, CheckRowsStep
<1> HIDE DEF f
<1>6. "VSYNC" \in f.enabled <=> FrameEnds(d, r) \/ ("VSYNC" \in d.enabled /\ ~ends)
  <2>1. "VSYNC" \in f.enabled <=> "VSYNC" \in e.enabled /\ ~ends
    BY <1>5
  <2>2. ends => ~FrameEnds(d, r)
    BY DEF ends
  <2> QED
    BY <1>2, <2>1, <2>2
<1>7. \A g \in Everything \ {"VSYNC"} : g \in f.enabled <=> g \in e.enabled
  BY <1>5
<1> QED
  BY <1>1, <1>3, <1>5, <1>6, <1>7 DEF e, f, ends

\* A frame goes on with its next scan line.
LEMMA LineBegins ==
  ASSUME NEW c, NEW r, CrtcType(c), Fits(r), Regular(r), NEW s \in Nat, Position(c, r, s),
         Rows(c, r, s), c.char_cnt = r.horz_total, ~FrameEnds(Character(c, r), r)
  PROVE  LET f == Tick(c, r)
         IN /\ CrtcType(f) /\ f.char_cnt = 0
            /\ ~f.start_of_frame /\ Position(f, r, s + 1) /\ Rows(f, r, s + 1)
            /\ LastOdd(f, r, s + 1) <=> LastOdd(c, r, s)
<1> DEFINE d == Character(c, r)
           e == NextCharacter(d, r)
           f == CheckRows(e, r)
           ends == e.line_cnt = r.vert_disp /\ "VSYNC" \in d.enabled
<1>1. /\ CrtcType(d) /\ SameBut(c, d, CharacterFields) /\ ~d.start_of_frame
      /\ d.check_v_adj <=> c.char_cnt = 1
      /\ \A g \in Everything : g \in d.enabled <=>
           IF g = "SKEW" THEN ~Blanks(c, r) /\ (c.char_cnt = r.skew \/ g \in c.enabled)
           ELSE IF g = "HSYNC" THEN ~Blanks(c, r) /\ g \in c.enabled ELSE g \in c.enabled
  BY CharacterDoes
<1>2. InFrame(d, r, s, c.char_cnt + 1) /\ ~FrameEnds(d, r)
  BY CharacterInFrame
<1>3. c.char_cnt \in Nat /\ c.char_cnt >= 2
  BY DEF CrtcType, Numbers, Regular
<1> HIDE DEF d
<1>4. /\ d.char_cnt = r.horz_total /\ d.odd_count = c.odd_count /\ d.even_logic = c.even_logic
  BY <1>1 DEF SameBut, CrtcType, Numbers, Flags, CharacterFields
<1>5. "VSYNC" \in d.enabled <=> IsShown(r, s)
  BY <1>1 DEF Everything, Rows
<1>6. /\ CrtcType(e) /\ CrtcType(f) /\ SameBut(e, f, {"enabled", "odd_count", "even_logic"})
      /\ "VSYNC" \in f.enabled <=> ("VSYNC" \in d.enabled /\ ~ends)
      /\ f.odd_count <=> ~(d.odd_count <=> ends)
      /\ f.even_logic <=> IF e.line_cnt = r.vert_disp \/ e.line_cnt = r.vsync_pos THEN f.odd_count
                          ELSE d.even_logic
  BY <1>1, <1>2, <1>4, TurnRows
<1>7. /\ e.char_cnt = 0 /\ ~e.start_of_frame /\ ~e.first_raster /\ SameBut(d, e, TurnFields)
  BY <1>1, <1>2, <1>4, TurnStep
<1>8. \/ InMain(e, r, s + 1, 0) \/ InAdjustment(e, r, s + 1, 0)
      \/ ~e.in_v_adj /\ e.end_of_frame /\ e.end_of_main /\ e.end_of_v_adj
         /\ e.line_cnt = (r.vert_total + 1) % LineModulus
         /\ s + 1 = FrameLines(r) /\ Interlaced(r) /\ d.even_logic
  BY <1>1, <1>2, <1>3, <1>4, <1>6, LineTurns
<1>9. e.check_v_adj = d.check_v_adj
  BY <1>1, <1>7 DEF SameBut, TurnFields, ScanFields, FrameFields, CrtcType, Numbers, Flags
<1> HIDE DEF e, f
<1>10. /\ f.char_cnt = 0 /\ f.check_v_adj = e.check_v_adj /\ f.start_of_frame = e.start_of_frame
       /\ f.first_raster = e.first_raster /\ f.in_v_adj = e.in_v_adj
       /\ f.end_of_frame = e.end_of_frame /\ f.end_of_main = e.end_of_main
       /\ f.end_of_v_adj = e.end_of_v_adj /\ f.v_adj_cnt = e.v_adj_cnt
       /\ f.line_cnt = e.line_cnt /\ f.raster_cnt = e.raster_cnt
  BY <1>6, <1>7 DEF SameBut, CrtcType, Numbers, Flags
<1>11. FrameLines(r) \in Nat /\ RowStart(r, r.vert_disp) \in Nat /\ RowStart(r, r.vert_disp) < FrameLines(r)
  BY FrameIs, RegsAreNat
<1>12. InMain(f, r, s + 1, 0) \/ InAdjustment(f, r, s + 1, 0) \/ InInserted(f, r, s + 1)
  <2>1. LastLine(f, r) <=> LastLine(e, r)
    BY <1>10 DEF LastLine
  <2>2. CASE InMain(e, r, s + 1, 0)
    <3>1. \E i \in Nat : InRow(f, r, s + 1, i)
      BY <1>10, <2>2 DEF InMain, InRow
    <3> QED
      BY <1>10, <2>1, <2>2, <3>1 DEF InMain
  <2>3. CASE InAdjustment(e, r, s + 1, 0)
    BY <1>10, <2>3 DEF InAdjustment
  <2>4. CASE /\ ~e.in_v_adj /\ e.end_of_frame /\ e.end_of_main /\ e.end_of_v_adj
             /\ e.line_cnt = (r.vert_total + 1) % LineModulus
             /\ s + 1 = FrameLines(r) /\ Interlaced(r) /\ d.even_logic
    <3>1. ~IsShown(r, s)
      BY <1>11, <2>4 DEF IsShown
    <3>2. c.odd_count /\ ~ends
      BY <1>4, <1>5, <2>4, <3>1 DEF Rows
    <3> QED
      BY <1>4, <1>6, <1>10, <2>4, <3>2 DEF InInserted
  <2> QED
    BY <1>8, <2>2, <2>3, <2>4
<1>13. InFrame(f, r, s + 1, 0)
  BY <1>12 DEF InFrame
<1>14. Position(f, r, s + 1)
  BY <1>1, <1>3, <1>7, <1>9, <1>10, <1>13, RegsAreNat DEF Position
<1>15. /\ f.line_cnt = r.vert_disp => ~IsShown(r, s + 1)
       /\ s + 1 = RowStart(r, r.vert_disp) => f.line_cnt = r.vert_disp
  BY <1>6, <1>13, RowsEnd
<1>16. ends <=> IsShown(r, s) /\ ~IsShown(r, s + 1)
  BY <1>5, <1>10, <1>11, <1>15 DEF IsShown
<1> HIDE DEF ends
<1>17. IsShown(r, s + 1) => IsShown(r, s)
  BY <1>11 DEF IsShown
<1>18. Rows(f, r, s + 1)
  BY <1>4, <1>5, <1>6, <1>10, <1>15, <1>16, <1>17 DEF Rows, ends
<1>19. LastOdd(f, r, s + 1) <=> LastOdd(c, r, s)
  BY <1>4, <1>6, <1>16, <1>17 DEF LastOdd
<1> QED
  BY <1>6, <1>7, <1>10, <1>14, <1>18, <1>19 DEF Tick, f, e, d

\* A new frame begins, in whatever state the old one was.
LEMMA FrameBegins ==
  ASSUME NEW c, NEW r, CrtcType(c), Fits(r), Regular(r), c.end_of_frame => c.end_of_v_adj,
         c.char_cnt = r.horz_total, FrameEnds(Character(c, r), r)
  PROVE  LET f == Tick(c, r)
         IN /\ CrtcType(f) /\ f.char_cnt = 0 /\ f.start_of_frame /\ ~f.end_of_frame
            /\ Position(f, r, 0) /\ Rows(f, r, 0)
            /\ f.odd_count <=> c.odd_count
<1> DEFINE d == Character(c, r)
           e == NextCharacter(d, r)
           f == CheckRows(e, r)
<1>1. /\ CrtcType(d) /\ SameBut(c, d, CharacterFields) /\ ~d.start_of_frame
      /\ d.check_v_adj <=> c.char_cnt = 1
      /\ d.end_of_v_adj <=> c.end_of_v_adj \/ (Checks(c) /\ c.v_adj_cnt = r.vert_adj)
  BY CharacterDoes
<1>2. FrameEnds(d, r)
  OBVIOUS
<1>3. c.char_cnt \in Nat /\ c.char_cnt >= 2
  BY DEF CrtcType, Numbers, Regular
<1> HIDE DEF d
<1>4. /\ d.char_cnt = r.horz_total /\ d.odd_count = c.odd_count /\ d.end_of_frame = c.end_of_frame
  BY <1>1 DEF SameBut, CrtcType, Numbers, Flags, CharacterFields
<1>5. d.end_of_v_adj
  BY <1>1, <1>2, <1>4 DEF FrameEnds
<1>6. /\ CrtcType(e) /\ CrtcType(f) /\ SameBut(e, f, {"enabled", "odd_count", "even_logic"})
      /\ "VSYNC" \in f.enabled
      /\ f.odd_count <=> d.odd_count
  BY <1>1, <1>2, <1>4, TurnRows
<1>7. /\ e.char_cnt = 0 /\ e.start_of_frame /\ e.first_raster /\ ~e.in_v_adj /\ ~e.end_of_frame
      /\ ~e.end_of_main /\ ~e.end_of_v_adj /\ e.line_cnt = 0 /\ e.raster_cnt = 0
      /\ SameBut(d, e, TurnFields)
  BY <1>1, <1>2, <1>4, <1>5, TurnStep
<1>8. e.check_v_adj = d.check_v_adj
  BY <1>1, <1>7 DEF SameBut, TurnFields, ScanFields, FrameFields, CrtcType, Numbers, Flags
<1> HIDE DEF e, f
<1>9. /\ f.char_cnt = 0 /\ f.check_v_adj = e.check_v_adj /\ f.start_of_frame = e.start_of_frame
      /\ f.first_raster = e.first_raster /\ f.in_v_adj = e.in_v_adj
      /\ f.end_of_frame = e.end_of_frame /\ f.end_of_main = e.end_of_main
      /\ f.end_of_v_adj = e.end_of_v_adj
      /\ f.line_cnt = e.line_cnt /\ f.raster_cnt = e.raster_cnt
  BY <1>6, <1>7 DEF SameBut, CrtcType, Numbers, Flags
<1>10. ScanLinesPerRow(r) \in Nat \ {0} /\ RowStart(r, 0) = 0 /\ RasterOf(r, 0) = 0
  BY LinesAre, RowStarts DEF RasterOf
<1>11. InRow(f, r, 0, 0)
  BY <1>7, <1>9, <1>10 DEF InRow
<1>12. InMain(f, r, 0, 0)
  BY <1>7, <1>9, <1>11, RegsAreNat DEF InMain
<1>13. Position(f, r, 0)
  BY <1>1, <1>3, <1>7, <1>8, <1>9, <1>12, RegsAreNat DEF Position, InFrame
<1>14. Rows(f, r, 0)
  <2>1. IsShown(r, 0)
    BY FrameIs DEF IsShown
  <2> QED
    BY <1>6, <2>1 DEF Rows
<1> QED
  BY <1>4, <1>6, <1>7, <1>9, <1>13, <1>14 DEF Tick, f, e, d

\* The length of a frame.
LEMMA FrameHasLength ==
  ASSUME NEW c, NEW r, CrtcType(c), Fits(r), Regular(r), NEW s \in Nat, Position(c, r, s),
         Rows(c, r, s), c.char_cnt = r.horz_total, FrameEnds(Character(c, r), r)
  PROVE  s + 1 = FrameLength(r, c.odd_count) /\ ~IsShown(r, s)
<1> DEFINE d == Character(c, r)
<1>1. InFrame(d, r, s, c.char_cnt + 1) /\ FrameEnds(d, r)
  BY CharacterInFrame
<1>2. /\ CrtcType(d) /\ SameBut(c, d, CharacterFields)
  BY CharacterDoes
<1>3. c.char_cnt \in Nat /\ c.char_cnt >= 2
  BY DEF CrtcType, Numbers, Regular
<1> HIDE DEF d
<1>4. d.even_logic = c.even_logic /\ d.line_cnt \in Nat
  BY <1>2 DEF SameBut, CrtcType, Numbers, Flags, CharacterFields
<1>5. /\ MainLines(r) \in Nat /\ FrameLines(r) \in Nat /\ FrameLines(r) = MainLines(r) + r.vert_adj
      /\ RowStart(r, r.vert_disp) \in Nat /\ RowStart(r, r.vert_disp) < MainLines(r)
      /\ r.vert_adj \in Nat
  BY FrameIs, RegsAreNat
<1>6. CASE InInserted(d, r, s)
  <2>1. ~IsShown(r, s)
    BY <1>5, <1>6 DEF InInserted, IsShown
  <2> QED
    BY <1>4, <1>5, <1>6, <2>1 DEF InInserted, FrameLength, Rows
<1>7. CASE ~InInserted(d, r, s)
  <2>1. d.end_of_v_adj /\ ~Dummy(d, r)
    BY <1>1, <1>7 DEF InFrame, InMain, InAdjustment, FrameEnds
  <2>2. s + 1 = FrameLines(r)
    <3>1. CASE InMain(d, r, s, c.char_cnt + 1)
      <4>1. LastLine(d, r) /\ r.vert_adj = 0
        BY <2>1, <3>1 DEF InMain
      <4>2. PICK i \in Nat : InRow(d, r, s, i)
        BY <3>1 DEF InMain
      <4>3. i = ScanLinesPerRow(r) - 1
        <5>1. RasterOf(r, i) = RasterOf(r, ScanLinesPerRow(r) - 1)
          BY <4>1, <4>2, LinesAre DEF InRow, LastLine
        <5> QED
          BY <5>1, LinesAre DEF RasterOf
      <4>4. s = RowStart(r, r.vert_total) + i /\ RowStart(r, r.vert_total) \in Nat
        BY <4>1, <4>2, RowStarts, RegsAreNat DEF InRow, LastLine
      <4> QED
        BY <1>5, <4>1, <4>3, <4>4, FrameIs, LinesAre
    <3>2. CASE InAdjustment(d, r, s, c.char_cnt + 1)
      BY <1>5, <2>1, <3>2 DEF InAdjustment
    <3> QED
      BY <1>1, <1>7, <3>1, <3>2 DEF InFrame
  <2>3. ~IsShown(r, s)
    BY <1>5, <2>2 DEF IsShown
  <2>4. ~(Interlaced(r) /\ c.even_logic)
    BY <1>4, <2>1 DEF Dummy
  <2> QED
    BY <1>5, <2>2, <2>3, <2>4 DEF Rows, FrameLength
<1> QED
  BY <1>6, <1>7

\* A character from any state.
LEMMA AnyCharacter ==
  ASSUME NEW c, NEW r, CrtcType(c), Fits(r), c.end_of_frame => c.end_of_v_adj
  PROVE  LET f == Tick(c, r)
         IN /\ CrtcType(f)
            /\ f.end_of_frame => f.end_of_v_adj
            /\ f.start_of_frame <=> c.char_cnt = r.horz_total /\ FrameEnds(Character(c, r), r)
<1> DEFINE d == Character(c, r)
           e == NextCharacter(d, r)
           f == Tick(c, r)
<1>1. /\ CrtcType(d) /\ SameBut(c, d, CharacterFields) /\ ~d.start_of_frame
      /\ d.end_of_v_adj <=> c.end_of_v_adj \/ (Checks(c) /\ c.v_adj_cnt = r.vert_adj)
  BY CharacterDoes
<1> HIDE DEF d
<1>2. d.char_cnt = c.char_cnt /\ d.end_of_frame = c.end_of_frame
  BY <1>1 DEF SameBut, CrtcType, Numbers, Flags, CharacterFields
<1>3. d.end_of_frame => d.end_of_v_adj
  BY <1>1, <1>2
<1>4. /\ CrtcType(e) /\ (e.end_of_frame => e.end_of_v_adj)
      /\ e.start_of_frame <=> c.char_cnt = r.horz_total /\ FrameEnds(d, r)
  <2>1. CASE c.char_cnt = r.horz_total
    <3>1. /\ CrtcType(e)
          /\ e.end_of_frame <=> ~FrameEnds(d, r) /\ Dummy(d, r)
          /\ e.end_of_v_adj <=> ~FrameEnds(d, r) /\ d.end_of_v_adj
          /\ e.start_of_frame <=> FrameEnds(d, r)
      BY <1>1, <1>2, <2>1, TurnStep
    <3> QED
      BY <2>1, <3>1 DEF Dummy
  <2>2. CASE c.char_cnt # r.horz_total
    <3> DEFINE n == (d.char_cnt + 1) % CharModulus
    <3>1. n \in Nat
      BY <1>1, SizesAre DEF CrtcType, Numbers, Sizes
    <3>2. e = [d EXCEPT !.char_cnt = n]
      BY <1>2, <2>2 DEF NextCharacter
    <3> HIDE DEF n, e
    <3>3. CrtcType(e) /\ e.end_of_frame = d.end_of_frame /\ e.end_of_v_adj = d.end_of_v_adj
          /\ e.start_of_frame = d.start_of_frame
      BY <1>1, <3>1, <3>2 DEF CrtcType, Numbers, Flags
    <3> QED
      BY <1>1, <1>3, <2>2, <3>3
  <2> QED
    BY <2>1, <2>2
<1> HIDE DEF e
<1>5. CrtcType(f) /\ SameBut(e, f, {"enabled", "odd_count", "even_logic"})
  BY <1>4, CheckRowsStep DEF f, Tick, e, d
<1> HIDE DEF f
<1>6. f.end_of_frame = e.end_of_frame /\ f.end_of_v_adj = e.end_of_v_adj /\ f.start_of_frame = e.start_of_frame
  BY <1>4, <1>5 DEF SameBut, CrtcType, Numbers, Flags
<1> QED
  BY <1>4, <1>5, <1>6 DEF d, f

\* A register holds what is within its width.
LEMMA FitsAgain ==
  ASSUME NEW r, Fits(r), NEW f \in DOMAIN RegisterSize, NEW v \in 0..(RegisterSize[f] - 1)
  PROVE  Fits([r EXCEPT ![f] = v])
  BY DEF Fits

\* So does the address of the screen.
LEMMA StartFits ==
  ASSUME NEW r, Fits(r), NEW v \in Nat, v < 16384
  PROVE  Fits([r EXCEPT !.start = v])
<1>1. \A m \in Nat : v < m => v \in 0..(m - 1)
  OBVIOUS
<1> DEFINE size == RegisterSize["start"]
<1>2. size = 16384 /\ "start" \in DOMAIN RegisterSize
  BY DEF RegisterSize, AddressModulus
<1> HIDE DEF size
<1>3. size \in Nat /\ v < size
  BY <1>2
<1>4. v \in 0..(size - 1)
  BY <1>1, <1>3
<1> QED
  BY <1>2, <1>4, FitsAgain DEF size

\* The address of the screen is written in two halves.
LEMMA StartHalves ==
  ASSUME NEW r, Fits(r), NEW v \in Nat
  PROVE  /\ v < 64 => 256 * v + (r.start % 256) \in Nat /\ 256 * v + (r.start % 256) < 16384
         /\ v < 256 => 256 * (r.start \div 256) + v \in Nat /\ 256 * (r.start \div 256) + v < 16384
<1>1. r.start \in Nat /\ r.start < 16384
  BY RegsAreNat DEF AddressModulus
<1>2. r.start \div 256 \in Nat /\ r.start \div 256 < 64 /\ r.start % 256 \in Nat /\ r.start % 256 < 256
  BY <1>1
<1> QED
  BY <1>2

\* A write keeps the registers in their widths.
LEMMA WritesFit ==
  ASSUME Fits(regs), CrtcType(crtc), NEW w \in Writable, mmio_write(w.reg, w.value)
  PROVE  Fits(regs') /\ CrtcType(crtc') /\ SameBut(crtc, crtc', {"enabled"})
<1>1. CrtcType(crtc') /\ SameBut(crtc, crtc', {"enabled"})
  <2> DEFINE on == IF w.value.skew < 3 THEN crtc.enabled \cup {"USER"} ELSE crtc.enabled \ {"USER"}
  <2>1. crtc' = crtc \/ crtc' = [crtc EXCEPT !.enabled = on]
    BY DEF mmio_write
  <2>2. on \subseteq Everything
    BY DEF CrtcType, Everything
  <2> HIDE DEF on
  <2> QED
    BY <2>1, <2>2 DEF CrtcType, Numbers, Flags, SameBut
<1>2. Fits(regs')
  <2>1. CASE w.reg = "syncs"
    <3> DEFINE v == w.value.v
               h == IF w.value.h = 0 THEN regs.hsync_width ELSE w.value.h
               a == [regs EXCEPT !["vsync_width"] = v]
    <3>1. w.value \in [v : 0..(WidthModulus - 1), h : 0..(WidthModulus - 1)]
      BY <2>1 DEF Writable
    <3>2. regs' = [regs EXCEPT !["vsync_width"] = v, !["hsync_width"] = h]
      BY <2>1 DEF mmio_write
    <3>3. /\ v \in 0..(RegisterSize["vsync_width"] - 1)
          /\ h \in 0..(RegisterSize["hsync_width"] - 1)
      BY <3>1, SizesAre DEF Fits, RegisterSize, Sizes
    <3>4. "vsync_width" \in DOMAIN RegisterSize /\ "hsync_width" \in DOMAIN RegisterSize
      BY DEF RegisterSize
    <3> HIDE DEF v, h
    <3>5. Fits(a)
      BY <3>3, <3>4, FitsAgain
    <3>6. regs' = [a EXCEPT !["hsync_width"] = h]
      BY <3>2
    <3> HIDE DEF a
    <3> QED
      BY <3>3, <3>4, <3>5, <3>6, FitsAgain
  <2>2. CASE w.reg = "ild"
    <3> DEFINE v == w.value.mode
               h == IF w.value.skew < 3 THEN w.value.skew ELSE regs.skew
               a == [regs EXCEPT !["interlace"] = v]
    <3>1. w.value \in [mode : 0..3, skew : 0..3]
      BY <2>2 DEF Writable
    <3>2. regs' = [regs EXCEPT !["interlace"] = v, !["skew"] = h]
      BY <2>2 DEF mmio_write
    <3>3. /\ v \in 0..(RegisterSize["interlace"] - 1)
          /\ h \in 0..(RegisterSize["skew"] - 1)
      BY <3>1, SizesAre DEF Fits, RegisterSize, Sizes
    <3>4. "interlace" \in DOMAIN RegisterSize /\ "skew" \in DOMAIN RegisterSize
      BY DEF RegisterSize
    <3> HIDE DEF v, h
    <3>5. Fits(a)
      BY <3>3, <3>4, FitsAgain
    <3>6. regs' = [a EXCEPT !["skew"] = h]
      BY <3>2
    <3> HIDE DEF a
    <3> QED
      BY <3>3, <3>4, <3>5, <3>6, FitsAgain
  <2>3. CASE w.reg = "start_hi"
    <3> DEFINE start == 256 * w.value + (regs.start % 256)
    <3>1. w.value \in Nat /\ w.value < 64
      BY <2>3 DEF Writable
    <3>2. regs' = [regs EXCEPT !.start = start]
      BY <2>3 DEF mmio_write
    <3>3. start \in Nat /\ start < 16384
      BY <3>1, StartHalves
    <3> HIDE DEF start
    <3> QED
      BY <3>2, <3>3, StartFits
  <2>4. CASE w.reg = "start_lo"
    <3> DEFINE start == 256 * (regs.start \div 256) + w.value
    <3>1. w.value \in Nat /\ w.value < 256
      BY <2>4 DEF Writable
    <3>2. regs' = [regs EXCEPT !.start = start]
      BY <2>4 DEF mmio_write
    <3>3. start \in Nat /\ start < 16384
      BY <3>1, StartHalves
    <3> HIDE DEF start
    <3> QED
      BY <3>2, <3>3, StartFits
  <2>5. CASE w.reg \notin {"syncs", "ild", "start_hi", "start_lo"}
    <3>1. w.reg \in DOMAIN RegisterSize /\ w.value \in 0..(RegisterSize[w.reg] - 1)
      BY <2>5 DEF Writable, RegisterSize
    <3>2. regs' = [regs EXCEPT ![w.reg] = w.value]
      BY <2>5 DEF mmio_write
    <3> QED
      BY <3>1, <3>2, FitsAgain
  <2> QED
    BY <2>1, <2>2, <2>3, <2>4, <2>5
<1> QED
  BY <1>1, <1>2

-----------------------------------------------------------------------------
(***************************************************************************)
(* Every frame has as many scan lines as the registers say.                *)
(***************************************************************************)
\* What every state of the display has: numbers in their widths, an end of frame only
\* after the adjustment.
VideoType ==
  /\ CrtcType(crtc) /\ Fits(regs)
  /\ menu \in Menus /\ todo \in Seq(Writable)
  /\ settled \in 0..4 /\ scan_line \in Nat /\ frame_lines \in Nat \X Nat
  /\ pixel_y \in Nat /\ even_frame \in BOOLEAN
  /\ crtc.end_of_frame => crtc.end_of_v_adj

\* The last two frames had the lines that the registers say, once they were written in
\* time for them.
Lengths(c, r, s) ==
  /\ settled >= 2 => frame_lines[1] = FrameLength(r, LastOdd(c, r, s))
  /\ settled >= 3 => frame_lines[2] = FrameLength(r, ~LastOdd(c, r, s))

\* Once a frame has begun under registers that describe one, the CRTC is at the place
\* of the frame that the history counts.
FrameInv ==
  settled >= 1 /\ Regular(regs) =>
    /\ Position(crtc, regs, scan_line) /\ Rows(crtc, regs, scan_line)
    /\ Lengths(crtc, regs, scan_line)

\* The display at power on, or at the start of a frame under other registers.
LEMMA VideoTypeInit == Init => VideoType
<1> SUFFICES ASSUME Init PROVE VideoType
  OBVIOUS
<1>1. Fits(regs) /\ menu \in Menus /\ todo \in Seq(Writable)
  BY MenusAssumption DEF Init, MenusAssumption
<1>2. settled \in 0..4 /\ scan_line \in Nat /\ frame_lines \in Nat \X Nat
  BY DEF Init
<1>3. pixel_y \in Nat /\ even_frame \in BOOLEAN
  BY DEF Init
<1>4. CrtcType(PowerOn) /\ ~PowerOn.end_of_frame
  BY DEF PowerOn, CrtcType, Numbers, Flags
<1>5. CrtcType(FrameOf(regs)) /\ ~FrameOf(regs).end_of_frame
  <2> DEFINE width == (FrameLines(regs) - regs.vsync_pos * ScanLinesPerRow(regs)) % WidthModulus
             adj == (regs.vert_adj + 1) % AdjModulus
  <2>1. /\ regs.vert_total \in Nat /\ regs.vert_adj \in Nat /\ regs.vsync_pos \in Nat /\ regs.start \in Nat
        /\ regs.hsync_width \in Nat /\ regs.rasters \in Nat
    BY <1>1, RegsAreNat
  <2>2. ScanLinesPerRow(regs) \in Nat
    BY <2>1 DEF ScanLinesPerRow
  <2>3. FrameLines(regs) \in Nat /\ regs.vsync_pos * ScanLinesPerRow(regs) \in Nat
    BY <2>1, <2>2 DEF FrameLines
  <2>4. width \in Nat /\ adj \in Nat
    BY <2>1, <2>3, SizesAre DEF Sizes
  <2>5. FrameOf(regs) =
          [PowerOn EXCEPT !.linear = regs.start, !.line_start = regs.start,
             !.next_line_start = regs.start, !.start_of_frame = TRUE, !.first_raster = TRUE,
             !.hsync_width_cnt = regs.hsync_width, !.vsync_width_cnt = width, !.v_adj_cnt = adj,
             !.enabled = Everything \ {"SKEW"}]
    BY DEF FrameOf
  <2> DEFINE a == [PowerOn EXCEPT !.linear = regs.start, !.line_start = regs.start,
                     !.next_line_start = regs.start, !.start_of_frame = TRUE, !.first_raster = TRUE]
             b == [a EXCEPT !.hsync_width_cnt = regs.hsync_width, !.vsync_width_cnt = width,
                     !.v_adj_cnt = adj, !.enabled = Everything \ {"SKEW"}]
  <2> HIDE DEF width, adj
  <2>6. CrtcType(a) /\ ~a.end_of_frame
    BY <1>4, <2>1 DEF CrtcType, Numbers, Flags
  <2>7. FrameOf(regs) = b
    BY <2>5
  <2> HIDE DEF a
  <2>8. CrtcType(b) /\ ~b.end_of_frame
    BY <2>1, <2>4, <2>6 DEF CrtcType, Numbers, Flags
  <2> HIDE DEF b
  <2> QED
    BY <2>7, <2>8
<1>6. crtc \in {PowerOn, FrameOf(regs)}
  BY DEF Init
<1> QED
  BY <1>1, <1>2, <1>3, <1>4, <1>5, <1>6 DEF VideoType

\* No frame has been counted yet.
LEMMA FrameInit == Init => FrameInv
  BY DEF Init, FrameInv

\* The counts of the history have a bound, and no frame reaches it.
LEMMA CapIsNat == \A y \in Nat : Capped(y) \in Nat /\ (y <= ScrBuffHeight => Capped(y) = y)
  BY ScreenAssumption DEF Capped, ScreenAssumption

\* What a clocked character does.
LEMMA CharacterIsTick ==
  maybe_drive_crtc => crtc' = Tick(crtc, regs) /\ UNCHANGED <<regs, menu, todo>> /\ Remember /\ crt_tick
<1> SUFFICES ASSUME maybe_drive_crtc PROVE crtc' = Tick(crtc, regs)
  BY DEF maybe_drive_crtc, generate_next_address
<1> QED
  BY DEF maybe_drive_crtc, generate_next_address, Tick, Character

\* A character keeps the numbers in their widths.
LEMMA CharacterKeepsType == VideoType /\ maybe_drive_crtc => VideoType'
<1> SUFFICES ASSUME VideoType, maybe_drive_crtc PROVE VideoType'
  OBVIOUS
<1>1. crtc' = Tick(crtc, regs) /\ UNCHANGED <<regs, menu, todo>> /\ Remember /\ crt_tick
  BY CharacterIsTick
<1>2. CrtcType(crtc') /\ (crtc'.end_of_frame => crtc'.end_of_v_adj)
  BY <1>1, AnyCharacter DEF VideoType
<1>3. settled' \in 0..4
  BY <1>1 DEF Remember, VideoType
<1> DEFINE line == Capped(scan_line + (IF crtc.char_cnt = regs.horz_total THEN 1 ELSE 0))
<1>4. line \in Nat
  <2> DEFINE more == IF crtc.char_cnt = regs.horz_total THEN 1 ELSE 0
  <2>1. scan_line + more \in Nat
    BY DEF VideoType
  <2> QED
    BY <2>1, CapIsNat
<1> HIDE DEF line
<1>5. scan_line' \in Nat /\ frame_lines' \in Nat \X Nat
  BY <1>1, <1>4 DEF Remember, VideoType, line
<1>6. pixel_y' \in Nat
  BY <1>1, CapIsNat DEF crt_tick, VideoType
<1>7. even_frame' \in BOOLEAN
  BY <1>1, Zenon DEF crt_tick
<1> QED
  BY <1>1, <1>2, <1>3, <1>5, <1>6, <1>7 DEF VideoType

\* So does a write, which touches nothing of the CRTC but display enable.
LEMMA WriteKeepsType ==
  ASSUME VideoType, todo # <<>>, mmio_write(Head(todo).reg, Head(todo).value)
  PROVE  CrtcType(crtc') /\ Fits(regs') /\ SameBut(crtc, crtc', {"enabled"}) /\ Tail(todo) \in Seq(Writable)
<1>1. Head(todo) \in Writable /\ Tail(todo) \in Seq(Writable)
  BY DEF VideoType
<1> QED
  BY <1>1, WritesFit DEF VideoType

\* And the devices, which take the next write.
LEMMA DevicesKeepType == VideoType /\ Devices => VideoType'
<1> SUFFICES ASSUME VideoType, Devices PROVE VideoType'
  OBVIOUS
<1>1. UNCHANGED <<menu, pixel_y, even_frame>>
  BY DEF Devices, crtVars
<1>2. CASE UNCHANGED <<regs, crtc, todo, historyVars>>
  BY <1>1, <1>2 DEF VideoType, historyVars
<1>3. CASE /\ todo # <<>>
           /\ mmio_write(Head(todo).reg, Head(todo).value)
           /\ todo' = Tail(todo)
           /\ settled' = 0 /\ scan_line' = 0 /\ frame_lines' = <<0, 0>>
  <2>1. CrtcType(crtc') /\ Fits(regs') /\ SameBut(crtc, crtc', {"enabled"}) /\ todo' \in Seq(Writable)
    BY <1>3, WriteKeepsType
  <2>2. crtc'.end_of_frame = crtc.end_of_frame /\ crtc'.end_of_v_adj = crtc.end_of_v_adj
    BY <2>1 DEF SameBut, VideoType, CrtcType, Numbers, Flags
  <2>3. settled' \in 0..4 /\ scan_line' \in Nat /\ frame_lines' \in Nat \X Nat
    BY <1>3
  <2> QED
    BY <1>1, <2>1, <2>2, <2>3 DEF VideoType
<1> QED
  BY <1>2, <1>3 DEF Devices

\* What the other steps leave alone.
LEMMA OtherSteps ==
  NotClocked \/ UlaWrite \/ consume_frame \/ UNCHANGED vars
    => UNCHANGED <<regs, crtc, menu, todo, pixel_y, even_frame, settled, scan_line, frame_lines>>
<1>1. NotClocked \/ UlaWrite => UNCHANGED <<crtcVars, todo, menu, crtVars, historyVars>>
  BY DEF NotClocked, UlaWrite
<1>2. consume_frame \/ UNCHANGED vars => UNCHANGED <<crtcVars, boardVars, crtVars, historyVars>>
  BY DEF consume_frame, vars
<1> QED
  BY <1>1, <1>2 DEF crtcVars, boardVars, crtVars, historyVars

\* Every step keeps the numbers in their widths.
LEMMA VideoTypeStep == VideoType /\ [Next]_vars => VideoType'
<1> SUFFICES ASSUME VideoType, [Next]_vars PROVE VideoType'
  OBVIOUS
<1>1. CASE NotClocked \/ UlaWrite \/ consume_frame \/ UNCHANGED vars
  <2>1. UNCHANGED <<regs, crtc, menu, todo, pixel_y, even_frame, settled, scan_line, frame_lines>>
    BY <1>1, OtherSteps
  <2> QED
    BY <2>1 DEF VideoType
<1> QED
  BY <1>1, CharacterKeepsType, DevicesKeepType DEF Next, Worker

\* A line is within the frame.
LEMMA InBounds ==
  ASSUME NEW c, NEW r, Fits(r), Regular(r), CrtcType(c), NEW s \in Nat, Position(c, r, s)
  PROVE  s <= FrameLines(r) /\ s + 1 <= ScrBuffHeight
<1>1. /\ MainLines(r) \in Nat /\ FrameLines(r) \in Nat /\ FrameLines(r) = MainLines(r) + r.vert_adj
      /\ r.vert_adj \in Nat /\ ScrBuffHeight \in Nat /\ 2 * FrameLines(r) + 1 <= ScrBuffHeight
      /\ 1 <= MainLines(r)
  BY FrameIs, RegsAreNat, ScreenAssumption DEF Regular, ScreenAssumption
<1>2. s <= FrameLines(r)
  <2>1. CASE InMain(c, r, s, c.char_cnt)
    <3>1. PICK i \in Nat : InRow(c, r, s, i)
      BY <2>1 DEF InMain
    <3>2. c.line_cnt \in Nat /\ c.line_cnt < r.vert_total + 1 /\ r.vert_total + 1 \in Nat
      BY <2>1, RegsAreNat DEF InMain, CrtcType, Numbers
    <3>3. RowStart(r, c.line_cnt) + ScanLinesPerRow(r) <= MainLines(r)
      BY <3>2, RowsFollow DEF MainLines
    <3> QED
      BY <1>1, <3>1, <3>2, <3>3, LinesAre, RowStarts DEF InRow
  <2>2. CASE InAdjustment(c, r, s, c.char_cnt)
    BY <1>1, <2>2 DEF InAdjustment
  <2>3. CASE InInserted(c, r, s)
    BY <1>1, <2>3 DEF InInserted
  <2> QED
    BY <2>1, <2>2, <2>3 DEF Position, InFrame
<1> QED
  BY <1>1, <1>2

\* How the history moves.
LEMMA HistoryMoves ==
  ASSUME VideoType, Remember, settled >= 1, scan_line + 1 <= ScrBuffHeight
  PROVE  LET turns == crtc.char_cnt = regs.horz_total
             line == IF turns THEN scan_line + 1 ELSE scan_line
         IN IF crtc'.start_of_frame
            THEN /\ settled' = IF settled < 4 THEN settled + 1 ELSE 4
                 /\ scan_line' = 0
                 /\ frame_lines' = <<line, frame_lines[1]>>
            ELSE settled' = settled /\ scan_line' = line /\ frame_lines' = frame_lines
<1> DEFINE turns == crtc.char_cnt = regs.horz_total
           line == IF turns THEN scan_line + 1 ELSE scan_line
           capped == Capped(scan_line + (IF turns THEN 1 ELSE 0))
<1>1. capped = line
  <2>1. scan_line \in Nat /\ ScrBuffHeight \in Nat
    BY ScreenAssumption DEF VideoType, ScreenAssumption
  <2>2. line \in Nat /\ line <= ScrBuffHeight /\ capped = Capped(line)
    BY <2>1
  <2> QED
    BY <2>2, CapIsNat
<1>2. /\ settled' = IF crtc'.start_of_frame /\ settled < 4 THEN settled + 1 ELSE settled
      /\ scan_line' = IF crtc'.start_of_frame \/ settled = 0 THEN 0 ELSE capped
      /\ frame_lines' = IF crtc'.start_of_frame /\ settled > 0 THEN <<capped, frame_lines[1]>> ELSE frame_lines
  BY DEF Remember
<1> HIDE DEF capped, line
<1>3. settled \in 0..4 /\ settled # 0 /\ settled > 0
  BY DEF VideoType
<1> QED
  BY <1>1, <1>2, <1>3 DEF line

\* A character moves the CRTC and the history to the same place.
LEMMA CharacterKeepsFrame == VideoType /\ FrameInv /\ maybe_drive_crtc => FrameInv'
<1> SUFFICES ASSUME VideoType, FrameInv, maybe_drive_crtc PROVE FrameInv'
  OBVIOUS
<1>0. regs' = regs
  BY CharacterIsTick
<1> SUFFICES ASSUME settled' >= 1, Regular(regs)
             PROVE  /\ Position(crtc', regs, scan_line') /\ Rows(crtc', regs, scan_line')
                    /\ Lengths(crtc, regs, scan_line)'
  BY <1>0 DEF FrameInv
<1> DEFINE s == scan_line
           d == Character(crtc, regs)
           f == Tick(crtc, regs)
<1>1. crtc' = f /\ regs' = regs /\ Remember
  BY CharacterIsTick
<1>2. f.start_of_frame <=> crtc.char_cnt = regs.horz_total /\ FrameEnds(d, regs)
  BY AnyCharacter DEF VideoType
<1>3. CrtcType(crtc) /\ Fits(regs) /\ s \in Nat /\ (crtc.end_of_frame => crtc.end_of_v_adj)
      /\ settled \in 0..4 /\ frame_lines \in Nat \X Nat
  BY DEF VideoType
<1> HIDE DEF d, f
<1>4. CASE settled = 0
  <2>1. crtc'.start_of_frame /\ settled' = 1 /\ scan_line' = 0
    BY <1>1, <1>4 DEF Remember
  <2>2. Position(f, regs, 0) /\ Rows(f, regs, 0)
    BY <1>1, <1>2, <1>3, <2>1, FrameBegins DEF d, f
  <2> QED
    BY <1>1, <2>1, <2>2 DEF Lengths
<1>5. CASE settled >= 1
  <2>1. Position(crtc, regs, s) /\ Rows(crtc, regs, s) /\ Lengths(crtc, regs, s)
    BY <1>5 DEF FrameInv
  <2>2. s + 1 <= ScrBuffHeight
    BY <1>3, <2>1, InBounds
  <2> DEFINE turns == crtc.char_cnt = regs.horz_total
             line == IF turns THEN s + 1 ELSE s
  <2>3. IF crtc'.start_of_frame
        THEN /\ settled' = IF settled < 4 THEN settled + 1 ELSE 4
             /\ scan_line' = 0
             /\ frame_lines' = <<line, frame_lines[1]>>
        ELSE settled' = settled /\ scan_line' = line /\ frame_lines' = frame_lines
    BY <1>1, <1>5, <2>2, HistoryMoves
  <2>4. crtc.char_cnt \in Nat /\ regs.horz_total \in Nat /\ crtc.char_cnt <= regs.horz_total
    BY <1>3, <2>1, RegsAreNat DEF CrtcType, Numbers, Position
  <2>5. CASE ~turns
    <3>1. /\ ~f.start_of_frame /\ Position(f, regs, s) /\ Rows(f, regs, s)
          /\ f.odd_count <=> crtc.odd_count
      BY <1>3, <2>1, <2>4, <2>5, LineGoesOn DEF f
    <3>2. LastOdd(f, regs, s) <=> LastOdd(crtc, regs, s)
      BY <3>1 DEF LastOdd
    <3>3. scan_line' = s /\ settled' = settled /\ frame_lines' = frame_lines
      BY <1>1, <2>3, <2>5, <3>1
    <3>4. Lengths(crtc, regs, scan_line)'
      BY <1>1, <2>1, <3>2, <3>3 DEF Lengths, FrameLength
    <3> QED
      BY <1>1, <3>1, <3>3, <3>4
  <2>6. CASE turns /\ ~FrameEnds(d, regs)
    <3>1. /\ ~f.start_of_frame /\ Position(f, regs, s + 1) /\ Rows(f, regs, s + 1)
          /\ LastOdd(f, regs, s + 1) <=> LastOdd(crtc, regs, s)
      BY <1>3, <2>1, <2>6, LineBegins DEF f, d
    <3>2. scan_line' = s + 1 /\ settled' = settled /\ frame_lines' = frame_lines
      BY <1>1, <2>3, <2>6, <3>1
    <3>3. Lengths(crtc, regs, scan_line)'
      BY <1>1, <2>1, <3>1, <3>2 DEF Lengths, FrameLength
    <3> QED
      BY <1>1, <3>1, <3>2, <3>3
  <2>7. CASE turns /\ FrameEnds(d, regs)
    <3>1. /\ f.start_of_frame /\ Position(f, regs, 0) /\ Rows(f, regs, 0)
          /\ f.odd_count <=> crtc.odd_count
      BY <1>3, <2>7, FrameBegins DEF f, d
    <3>2. s + 1 = FrameLength(regs, crtc.odd_count) /\ ~IsShown(regs, s)
      BY <1>3, <2>1, <2>7, FrameHasLength DEF d
    <3>3. /\ scan_line' = 0 /\ frame_lines' = <<s + 1, frame_lines[1]>>
          /\ settled' = IF settled < 4 THEN settled + 1 ELSE 4
      BY <1>1, <2>3, <2>7, <3>1
    <3>4. frame_lines'[1] = s + 1 /\ frame_lines'[2] = frame_lines[1]
      BY <3>3
    <3>5. LastOdd(crtc, regs, s) <=> ~crtc.odd_count
      BY <3>2 DEF LastOdd
    <3>6. LastOdd(f, regs, 0) <=> crtc.odd_count
      <4>1. IsShown(regs, 0)
        BY <1>3, FrameIs DEF IsShown
      <4> QED
        BY <3>1, <4>1 DEF LastOdd
    <3>7. settled' >= 3 => settled >= 2
      BY <1>3, <3>3
    <3>8. Lengths(crtc, regs, scan_line)'
      BY <1>1, <2>1, <3>2, <3>3, <3>4, <3>5, <3>6, <3>7 DEF Lengths, FrameLength
    <3> QED
      BY <1>1, <3>1, <3>3, <3>8
  <2> QED
    BY <2>5, <2>6, <2>7
<1> QED
  BY <1>3, <1>4, <1>5

\* Every step keeps the place in the frame; a write only forgets it.
LEMMA FrameStep == VideoType /\ FrameInv /\ [Next]_vars => FrameInv'
<1> SUFFICES ASSUME VideoType, FrameInv, [Next]_vars PROVE FrameInv'
  OBVIOUS
<1>1. CASE UNCHANGED <<regs, crtc, settled, scan_line, frame_lines>>
  BY <1>1 DEF FrameInv, Lengths
<1>2. CASE Devices
  <2>1. CASE settled' = 0
    BY <2>1 DEF FrameInv
  <2>2. CASE UNCHANGED <<regs, crtc, todo, historyVars>>
    BY <1>1, <2>2 DEF historyVars
  <2> QED
    BY <1>2, <2>1, <2>2 DEF Devices
<1>3. NotClocked \/ UlaWrite \/ consume_frame \/ UNCHANGED vars
        => UNCHANGED <<regs, crtc, settled, scan_line, frame_lines>>
  BY OtherSteps
<1> QED
  BY <1>1, <1>2, <1>3, CharacterKeepsFrame DEF Next, Worker

\* A frame has the scan lines of its rows and of its adjustment, and an odd frame that is
\* interlaced one more: from the second whole frame after the registers are left alone,
\* whatever they held before and wherever the frame was when they were written.
THEOREM FramesHaveTheirLines == Spec => []FramesAreRegular
<1>1. VideoType /\ FrameInv => FramesAreRegular
  <2> SUFFICES ASSUME VideoType, FrameInv, crtc.start_of_frame, settled >= 3, Regular(regs)
               PROVE  IF Interlaced(regs)
                      THEN frame_lines[1] + frame_lines[2] = 2 * FrameLines(regs) + 1
                      ELSE frame_lines = <<FrameLines(regs), FrameLines(regs)>>
    BY DEF FramesAreRegular
  <2>1. settled \in 0..4 /\ frame_lines \in Nat \X Nat /\ Fits(regs) /\ FrameLines(regs) \in Nat
    BY FrameIs DEF VideoType
  <2>2. settled >= 1 /\ settled >= 2
    BY <2>1
  <2>3. /\ frame_lines[1] = FrameLength(regs, LastOdd(crtc, regs, scan_line))
        /\ frame_lines[2] = FrameLength(regs, ~LastOdd(crtc, regs, scan_line))
    BY <2>2 DEF FrameInv, Lengths
  <2> QED
    BY <2>1, <2>3 DEF FrameLength
<1> QED
  BY VideoTypeInit, FrameInit, VideoTypeStep, FrameStep, <1>1, PTL DEF Spec

-----------------------------------------------------------------------------
(***************************************************************************)
(* What is on the screen: which characters are displayed, and the address  *)
(* that is fetched for each.                                               *)
(***************************************************************************)
\* What display_enabled_ says of a character; known: its row was entered by an orderly line.
Enables(c, r, known) ==
  /\ "HSYNC" \in c.enabled <=> c.char_cnt <= r.horz_disp + r.skew
  /\ c.char_cnt > r.horz_disp + r.skew => "SKEW" \notin c.enabled
  /\ known => ("SKEW" \in c.enabled <=> r.skew < c.char_cnt /\ c.char_cnt <= r.horz_disp + r.skew)
  /\ "SCANLINE" \in c.enabled <=> ~Blank(c.raster_cnt)

\* The address of a line and of the characters on it, within the width of the counter.
Addr(n) == n % AddressModulus
LineAddress(c, r) == r.start + c.line_cnt * r.horz_disp
Fetches(c, r) ==
  /\ c.line_start = Addr(LineAddress(c, r))
  /\ c.linear = Addr(c.line_start + c.char_cnt)
  /\ c.char_cnt > r.horz_disp => c.next_line_start = Addr(c.line_start + r.horz_disp)

\* Steps of the address may be counted together.
LEMMA Addresses ==
  ASSUME NEW a \in Nat, NEW n \in Nat
  PROVE  /\ Addr(a) \in Nat /\ Addr(Addr(a) + n) = Addr(a + n) /\ Addr(Addr(a)) = Addr(a)
         /\ a < AddressModulus => Addr(a) = a
  BY DEF Addr, AddressModulus

\* A scan line goes on.
LEMMA LineEnables ==
  ASSUME NEW c, NEW r, CrtcType(c), Fits(r), Regular(r), NEW s \in Nat, Position(c, r, s),
         Rows(c, r, s), c.char_cnt < r.horz_total, NEW known \in BOOLEAN, Enables(c, r, known)
  PROVE  Enables(Tick(c, r), r, known)
<1> DEFINE d == Character(c, r)
           f == Tick(c, r)
<1>1. /\ CrtcType(d) /\ SameBut(c, d, CharacterFields)
      /\ \A g \in Everything : g \in d.enabled <=>
           IF g = "SKEW" THEN ~Blanks(c, r) /\ (c.char_cnt = r.skew \/ g \in c.enabled)
           ELSE IF g = "HSYNC" THEN ~Blanks(c, r) /\ g \in c.enabled ELSE g \in c.enabled
  BY CharacterDoes
<1>2. SameBut(d, f, {"char_cnt", "even_logic"}) /\ f.char_cnt = c.char_cnt + 1
  BY LineGoesOn
<1> HIDE DEF d, f
<1>3. f.enabled = d.enabled /\ f.raster_cnt = c.raster_cnt
  BY <1>1, <1>2 DEF SameBut, CrtcType, Numbers, Flags, CharacterFields
<1>4. /\ "HSYNC" \in d.enabled <=> ~Blanks(c, r) /\ "HSYNC" \in c.enabled
      /\ "SKEW" \in d.enabled <=> ~Blanks(c, r) /\ (c.char_cnt = r.skew \/ "SKEW" \in c.enabled)
      /\ "SCANLINE" \in d.enabled <=> "SCANLINE" \in c.enabled
  BY <1>1 DEF Everything
<1>5. /\ c.char_cnt \in Nat /\ r.horz_disp \in Nat /\ r.skew \in Nat /\ r.horz_total \in Nat
      /\ 1 <= r.horz_disp /\ r.horz_disp + r.skew <= r.horz_total
  BY RegsAreNat DEF CrtcType, Numbers, Regular
<1>6. Blanks(c, r) <=> c.char_cnt = r.horz_disp + r.skew
  BY <1>5 DEF Blanks
<1>7. "HSYNC" \in f.enabled <=> f.char_cnt <= r.horz_disp + r.skew
  BY <1>2, <1>3, <1>4, <1>5, <1>6 DEF Enables
<1>8. f.char_cnt > r.horz_disp + r.skew => "SKEW" \notin f.enabled
  BY <1>2, <1>3, <1>4, <1>5, <1>6 DEF Enables
<1>9. known => ("SKEW" \in f.enabled <=> r.skew < f.char_cnt /\ f.char_cnt <= r.horz_disp + r.skew)
  BY <1>2, <1>3, <1>4, <1>5, <1>6 DEF Enables
<1> QED
  BY <1>3, <1>4, <1>7, <1>8, <1>9 DEF Enables, f

\* The addresses of a line follow one another.
LEMMA LineFetches ==
  ASSUME NEW c, NEW r, CrtcType(c), Fits(r), Regular(r), NEW s \in Nat, Position(c, r, s),
         Rows(c, r, s), c.char_cnt < r.horz_total, s < MainLines(r), Fetches(c, r)
  PROVE  Fetches(Tick(c, r), r)
<1> DEFINE d == Character(c, r)
           f == Tick(c, r)
<1>1. /\ CrtcType(d) /\ SameBut(c, d, CharacterFields)
      /\ d.linear = ((IF c.start_of_frame THEN r.start ELSE c.linear) + 1) % AddressModulus
      /\ d.line_start = (IF c.start_of_frame THEN r.start ELSE c.line_start)
      /\ d.next_line_start = (IF c.char_cnt = r.horz_disp
                              THEN IF c.start_of_frame THEN r.start ELSE c.linear
                              ELSE c.next_line_start)
  BY CharacterDoes
<1>2. SameBut(d, f, {"char_cnt", "even_logic"}) /\ f.char_cnt = c.char_cnt + 1
  BY LineGoesOn
<1> HIDE DEF d, f
<1>3. /\ f.linear = d.linear /\ f.line_start = d.line_start /\ f.next_line_start = d.next_line_start
      /\ f.line_cnt = c.line_cnt
  BY <1>1, <1>2 DEF SameBut, CrtcType, Numbers, Flags, CharacterFields
<1>4. /\ c.char_cnt \in Nat /\ c.line_start \in Nat /\ r.horz_disp \in Nat /\ c.line_cnt \in Nat
      /\ r.start \in Nat /\ r.start < AddressModulus
  BY RegsAreNat DEF CrtcType, Numbers
<1>5. c.start_of_frame => c.linear = r.start /\ c.line_start = r.start
  <2> SUFFICES ASSUME c.start_of_frame PROVE c.linear = r.start /\ c.line_start = r.start
    OBVIOUS
  <2>1. s = 0 /\ c.char_cnt = 0
    BY DEF Position
  <2>2. InMain(c, r, 0, 0)
    <3>1. InFrame(c, r, 0, 0)
      BY <2>1 DEF Position
    <3>2. 1 <= MainLines(r) /\ MainLines(r) \in Nat /\ FrameLines(r) >= MainLines(r)
      BY FrameIs, RegsAreNat
    <3> QED
      BY <3>1, <3>2 DEF InFrame, InAdjustment, InInserted
  <2>3. PICK i \in Nat : InRow(c, r, 0, i)
    BY <2>2 DEF InMain
  <2>4. RowStart(r, c.line_cnt) = 0
    BY <1>4, <2>3, RowStarts DEF InRow
  <2>5. c.line_cnt = 0
    <3> SUFFICES ASSUME 0 < c.line_cnt PROVE FALSE
      BY <1>4
    <3>1. RowStart(r, 0) + ScanLinesPerRow(r) <= RowStart(r, c.line_cnt)
      BY <1>4, RowsFollow
    <3> QED
      BY <2>4, <3>1, RowStarts, LinesAre
  <2>6. LineAddress(c, r) = r.start
    BY <1>4, <2>5 DEF LineAddress
  <2> QED
    BY <1>4, <2>1, <2>6, Addresses DEF Fetches
<1>6. /\ f.line_start = c.line_start /\ f.linear = Addr(c.linear + 1)
      /\ f.next_line_start = IF c.char_cnt = r.horz_disp THEN c.linear ELSE c.next_line_start
  BY <1>1, <1>3, <1>5 DEF Addr
<1>7. f.linear = Addr(c.line_start + f.char_cnt)
  <2>1. Addr(Addr(c.line_start + c.char_cnt) + 1) = Addr((c.line_start + c.char_cnt) + 1)
    <3>1. c.line_start + c.char_cnt \in Nat
      BY <1>4
    <3> QED
      BY <3>1, Addresses
  <2>2. (c.line_start + c.char_cnt) + 1 = c.line_start + f.char_cnt
    BY <1>2, <1>4
  <2> QED
    BY <1>6, <2>1, <2>2 DEF Fetches
<1>8. f.char_cnt > r.horz_disp => f.next_line_start = Addr(c.line_start + r.horz_disp)
  BY <1>2, <1>4, <1>6 DEF Fetches
<1>9. LineAddress(f, r) = LineAddress(c, r)
  BY <1>3 DEF LineAddress
<1> QED
  BY <1>6, <1>7, <1>8, <1>9 DEF Fetches, f

\* A scan line begins.
LEMMA TurnEnables ==
  ASSUME NEW c, NEW r, CrtcType(c), Fits(r), Regular(r), c.char_cnt = r.horz_total,
         NEW known \in BOOLEAN,
         known => (c.char_cnt > r.horz_disp + r.skew => "SKEW" \notin c.enabled)
  PROVE  Enables(Tick(c, r), r, known)
<1> DEFINE d == Character(c, r)
           e == NextCharacter(d, r)
           f == CheckRows(e, r)
           raster == NextRaster(d.raster_cnt, r)
<1>1. /\ CrtcType(d) /\ SameBut(c, d, CharacterFields) /\ ~d.start_of_frame
      /\ \A g \in Everything : g \in d.enabled <=>
           IF g = "SKEW" THEN ~Blanks(c, r) /\ (c.char_cnt = r.skew \/ g \in c.enabled)
           ELSE IF g = "HSYNC" THEN ~Blanks(c, r) /\ g \in c.enabled ELSE g \in c.enabled
  BY CharacterDoes
<1> HIDE DEF d
<1>2. d.char_cnt = r.horz_total
  BY <1>1 DEF SameBut, CrtcType, Numbers, Flags, CharacterFields
<1>3. /\ CrtcType(e) /\ e.char_cnt = 0
      /\ e.raster_cnt = (IF FrameEnds(d, r) \/ RowEnds(d, r) THEN 0 ELSE raster)
      /\ \A g \in Everything : g \in e.enabled <=>
                 CASE g = "HSYNC" -> TRUE
                   [] g = "VSYNC" -> FrameEnds(d, r) \/ g \in d.enabled
                   [] g = "SCANLINE" -> FrameEnds(d, r) \/ RowEnds(d, r) \/ ~Blank(raster)
                   [] OTHER -> g \in d.enabled
  BY <1>1, <1>2, TurnStep
<1>4. /\ SameBut(e, f, {"enabled", "odd_count", "even_logic"})
      /\ \A g \in Everything \ {"VSYNC"} : g \in f.enabled <=> g \in e.enabled
  BY <1>1, <1>2, TurnRows
<1> HIDE DEF e, f, raster
<1>5. f.char_cnt = 0 /\ f.raster_cnt = e.raster_cnt
  BY <1>3, <1>4 DEF SameBut, CrtcType, Numbers, Flags
<1>6. /\ "HSYNC" \in f.enabled
      /\ "SKEW" \in f.enabled <=> "SKEW" \in d.enabled
      /\ "SCANLINE" \in f.enabled <=> FrameEnds(d, r) \/ RowEnds(d, r) \/ ~Blank(raster)
  BY <1>3, <1>4 DEF Everything
<1>7. "SKEW" \in d.enabled <=> ~Blanks(c, r) /\ (c.char_cnt = r.skew \/ "SKEW" \in c.enabled)
  BY <1>1 DEF Everything
<1>8. /\ r.horz_disp \in Nat /\ r.skew \in Nat /\ r.horz_total \in Nat
      /\ 1 <= r.horz_disp /\ r.horz_disp + r.skew <= r.horz_total
  BY RegsAreNat DEF Regular
<1>9. known => "SKEW" \notin f.enabled
  BY <1>6, <1>7, <1>8 DEF Blanks
<1>10. ~Blank(0)
  BY DEF Blank
<1>11. "SCANLINE" \in f.enabled <=> ~Blank(f.raster_cnt)
  BY <1>3, <1>5, <1>6, <1>10
<1>12. Enables(f, r, known)
  BY <1>5, <1>6, <1>8, <1>9, <1>11 DEF Enables
<1> QED
  BY <1>12 DEF f, e, d, Tick

\* The lines of a row begin with the same address, and the next row where it ended.
LEMMA TurnFetches ==
  ASSUME NEW c, NEW r, CrtcType(c), Fits(r), Regular(r), c.char_cnt = r.horz_total,
         NEW s \in Nat, Position(c, r, s), s + 1 < MainLines(r), Fetches(c, r)
  PROVE  ~FrameEnds(Character(c, r), r) => Fetches(Tick(c, r), r)
<1> DEFINE d == Character(c, r)
           e == NextCharacter(d, r)
           f == CheckRows(e, r)
<1> SUFFICES ASSUME ~FrameEnds(d, r) PROVE Fetches(f, r)
  BY DEF Tick
<1>1. /\ CrtcType(d) /\ SameBut(c, d, CharacterFields) /\ ~d.start_of_frame
      /\ d.line_start = (IF c.start_of_frame THEN r.start ELSE c.line_start)
      /\ d.next_line_start = (IF c.char_cnt = r.horz_disp
                              THEN IF c.start_of_frame THEN r.start ELSE c.linear
                              ELSE c.next_line_start)
  BY CharacterDoes
<1>2. InFrame(d, r, s, c.char_cnt + 1)
  BY CharacterInFrame
<1> HIDE DEF d
<1>3. d.char_cnt = r.horz_total /\ d.line_cnt = c.line_cnt /\ d.raster_cnt = c.raster_cnt
  BY <1>1 DEF SameBut, CrtcType, Numbers, Flags, CharacterFields
<1>4. /\ CrtcType(e) /\ e.char_cnt = 0
      /\ e.line_cnt = (IF RowEnds(d, r) THEN (d.line_cnt + 1) % LineModulus ELSE d.line_cnt)
      /\ e.line_start = (IF d.raster_cnt = r.rasters THEN d.next_line_start ELSE d.line_start)
      /\ e.linear = e.line_start
  BY <1>1, <1>3, TurnStep
<1>5. SameBut(e, f, {"enabled", "odd_count", "even_logic"})
  BY <1>1, <1>3, TurnRows
<1> HIDE DEF e, f
<1>6. /\ f.char_cnt = 0 /\ f.line_cnt = e.line_cnt /\ f.line_start = e.line_start /\ f.linear = e.linear
  BY <1>4, <1>5 DEF SameBut, CrtcType, Numbers, Flags
<1>7. /\ r.horz_disp \in Nat /\ r.horz_total \in Nat /\ r.horz_disp <= r.horz_total /\ 2 <= r.horz_total
      /\ c.line_start \in Nat /\ c.line_cnt \in Nat /\ r.start \in Nat
      /\ r.vert_total \in Nat /\ r.vert_total < LineModulus /\ LineModulus \in Nat
  BY RegsAreNat, SizesAre DEF CrtcType, Numbers, Regular, Sizes
<1>8. ~c.start_of_frame
  BY <1>7 DEF Position
<1>9. /\ d.line_start = c.line_start
      /\ d.next_line_start = Addr(c.line_start + r.horz_disp)
  BY <1>1, <1>7, <1>8 DEF Fetches
<1>10. MainLines(r) \in Nat /\ MainLines(r) <= FrameLines(r)
  BY FrameIs, RegsAreNat
<1>11. InMain(d, r, s, c.char_cnt + 1)
  BY <1>2, <1>10 DEF InFrame, InAdjustment, InInserted
<1>12. LineAddress(c, r) \in Nat
  BY <1>7 DEF LineAddress
<1>13. CASE RowEnds(d, r)
  <2>1. d.line_cnt # r.vert_total
    <3> SUFFICES ASSUME d.line_cnt = r.vert_total PROVE FALSE
      OBVIOUS
    <3>1. PICK i \in Nat : InRow(d, r, s, i)
      BY <1>11 DEF InMain
    <3>2. i = ScanLinesPerRow(r) - 1
      <4>1. RasterOf(r, i) = RasterOf(r, ScanLinesPerRow(r) - 1)
        BY <1>13, <3>1, LinesAre DEF InRow, RowEnds
      <4> QED
        BY <4>1, LinesAre DEF RasterOf
    <3>3. s = RowStart(r, r.vert_total) + i /\ RowStart(r, r.vert_total) \in Nat
      BY <1>7, <3>1, RowStarts DEF InRow
    <3> QED
      BY <3>2, <3>3, FrameIs, LinesAre
  <2>2. f.line_cnt = c.line_cnt + 1
    <3>1. c.line_cnt + 1 < LineModulus
      BY <1>3, <1>7, <1>11, <2>1 DEF InMain
    <3>2. (c.line_cnt + 1) % LineModulus = c.line_cnt + 1
      BY <1>7, <3>1
    <3> QED
      BY <1>3, <1>4, <1>6, <1>13, <3>2
  <2>3. f.line_start = Addr(c.line_start + r.horz_disp)
    BY <1>4, <1>6, <1>9, <1>13 DEF RowEnds
  <2>4. f.line_start = Addr(LineAddress(c, r) + r.horz_disp)
    BY <1>7, <1>12, <2>3, Addresses DEF Fetches
  <2>5. LineAddress(f, r) = LineAddress(c, r) + r.horz_disp
    <3> DEFINE n == c.line_cnt
    <3>1. (n + 1) * r.horz_disp = n * r.horz_disp + r.horz_disp /\ n * r.horz_disp \in Nat
      BY <1>7, Products
    <3> QED
      BY <1>7, <2>2, <3>1 DEF LineAddress
  <2>6. f.line_start = Addr(f.line_start + 0)
    <3>1. LineAddress(c, r) + r.horz_disp \in Nat
      BY <1>7, <1>12
    <3> QED
      BY <2>4, <3>1, Addresses
  <2> QED
    BY <1>4, <1>6, <1>7, <2>4, <2>5, <2>6 DEF Fetches
<1>14. CASE ~RowEnds(d, r)
  <2>1. d.raster_cnt # r.rasters
    BY <1>11, <1>14 DEF RowEnds, InMain
  <2>2. f.line_cnt = c.line_cnt /\ f.line_start = c.line_start /\ f.linear = f.line_start
    BY <1>3, <1>4, <1>6, <1>9, <1>14, <2>1
  <2>3. LineAddress(f, r) = LineAddress(c, r)
    BY <2>2 DEF LineAddress
  <2>4. f.line_start = Addr(LineAddress(f, r))
    BY <2>2, <2>3 DEF Fetches
  <2>5. f.line_start = Addr(f.line_start + 0)
    BY <1>12, <2>3, <2>4, Addresses
  <2> QED
    BY <1>6, <1>7, <2>2, <2>4, <2>5 DEF Fetches
<1> QED
  BY <1>13, <1>14

\* A new frame begins with its first address.
LEMMA FrameFetches ==
  ASSUME NEW c, NEW r, CrtcType(c), Fits(r), Regular(r), c.char_cnt = r.horz_total,
         FrameEnds(Character(c, r), r)
  PROVE  Fetches(Tick(c, r), r)
<1> DEFINE d == Character(c, r)
           e == NextCharacter(d, r)
           f == CheckRows(e, r)
<1>1. CrtcType(d) /\ SameBut(c, d, CharacterFields) /\ ~d.start_of_frame
  BY CharacterDoes
<1>2. FrameEnds(d, r)
  OBVIOUS
<1> HIDE DEF d
<1>3. d.char_cnt = r.horz_total
  BY <1>1 DEF SameBut, CrtcType, Numbers, Flags, CharacterFields
<1>4. CrtcType(e) /\ e.char_cnt = 0 /\ e.line_cnt = 0 /\ e.line_start = r.start /\ e.linear = r.start
  BY <1>1, <1>2, <1>3, TurnStep
<1>5. SameBut(e, f, {"enabled", "odd_count", "even_logic"})
  BY <1>1, <1>3, TurnRows
<1> HIDE DEF e, f
<1>6. /\ f.char_cnt = 0 /\ f.line_cnt = 0 /\ f.line_start = r.start /\ f.linear = r.start
  BY <1>4, <1>5 DEF SameBut, CrtcType, Numbers, Flags
<1>7. r.start \in Nat /\ r.start < AddressModulus /\ r.horz_disp \in Nat
  BY RegsAreNat
<1>8. LineAddress(f, r) = r.start /\ f.line_start + f.char_cnt = r.start
  BY <1>6, <1>7 DEF LineAddress
<1>9. Addr(r.start) = r.start
  BY <1>7, Addresses
<1>10. Fetches(f, r)
  BY <1>6, <1>7, <1>8, <1>9 DEF Fetches
<1> QED
  BY <1>10 DEF f, e, d, Tick

\* A line is some line of some row.
LEMMA Division ==
  ASSUME NEW m \in Nat \ {0}, NEW i \in Nat
  PROVE  /\ i \div m \in Nat /\ i % m \in 0..(m - 1)
         /\ i = (i \div m) * m + (i % m)
  OBVIOUS

\* And of one row only.
LEMMA DivisionIsUnique ==
  ASSUME NEW m \in Nat \ {0}, NEW q \in Nat, NEW r \in 0..(m - 1), NEW i \in Nat, i = q * m + r
  PROVE  i \div m = q /\ i % m = r
<1> DEFINE p == i \div m
           s == i % m
<1>1. p \in Nat /\ s \in 0..(m - 1) /\ i = p * m + s
  BY Division
<1> HIDE DEF p, s
<1>2. ASSUME NEW a \in Nat, NEW b \in Nat, NEW c \in 0..(m - 1), NEW d \in 0..(m - 1),
             a * m + c = b * m + d
      PROVE  ~(a < b)
  <2> SUFFICES ASSUME a < b PROVE FALSE
    OBVIOUS
  <2>1. a * m + m <= b * m
    BY Products
  <2>2. b * m \in Nat /\ a * m \in Nat
    BY Products
  <2> QED
    BY <1>2, <2>1, <2>2
<1>3. p = q
  BY <1>1, <1>2
<1> QED
  BY <1>1, <1>3 DEF p, s

\* Display enable and the address are what the place in the frame says.
DisplayInv ==
  settled >= 1 /\ Regular(regs) =>
    /\ Enables(crtc, regs, settled >= 2 \/ scan_line >= 1)
    /\ scan_line < MainLines(regs) => Fetches(crtc, regs)

\* A character moves both as the place moves.
LEMMA CharacterKeepsDisplay == VideoType /\ FrameInv /\ DisplayInv /\ maybe_drive_crtc => DisplayInv'
<1> SUFFICES ASSUME VideoType, FrameInv, DisplayInv, maybe_drive_crtc PROVE DisplayInv'
  OBVIOUS
<1>0. regs' = regs
  BY CharacterIsTick
<1> SUFFICES ASSUME settled' >= 1, Regular(regs)
             PROVE  /\ Enables(crtc', regs, settled' >= 2 \/ scan_line' >= 1)
                    /\ scan_line' < MainLines(regs) => Fetches(crtc', regs)
  BY <1>0 DEF DisplayInv
<1> DEFINE s == scan_line
           d == Character(crtc, regs)
           f == Tick(crtc, regs)
           known == settled >= 2 \/ s >= 1
           knows == settled' >= 2 \/ scan_line' >= 1
<1>1. crtc' = f /\ Remember
  BY CharacterIsTick
<1>2. f.start_of_frame <=> crtc.char_cnt = regs.horz_total /\ FrameEnds(d, regs)
  BY AnyCharacter DEF VideoType
<1>3. CrtcType(crtc) /\ Fits(regs) /\ s \in Nat /\ settled \in 0..4
  BY DEF VideoType
<1>4. knows \in BOOLEAN /\ known \in BOOLEAN
  OBVIOUS
<1> HIDE DEF d, f
<1>5. CASE settled = 0
  <2>1. crtc'.start_of_frame /\ settled' = 1 /\ scan_line' = 0
    BY <1>1, <1>5 DEF Remember
  <2>2. crtc.char_cnt = regs.horz_total /\ FrameEnds(d, regs) /\ ~knows
    BY <1>1, <1>2, <2>1
  <2> HIDE DEF knows, known
  <2>3. Enables(f, regs, knows)
    BY <1>3, <1>4, <2>2, TurnEnables DEF f
  <2>4. Fetches(f, regs)
    BY <1>3, <2>2, FrameFetches DEF f, d
  <2> QED
    BY <1>1, <2>3, <2>4 DEF knows
<1>6. CASE settled >= 1
  <2>1. Position(crtc, regs, s) /\ Rows(crtc, regs, s)
    BY <1>6 DEF FrameInv
  <2>2. Enables(crtc, regs, known) /\ (s < MainLines(regs) => Fetches(crtc, regs))
    BY <1>6 DEF DisplayInv
  <2>3. s + 1 <= ScrBuffHeight
    BY <1>3, <2>1, InBounds
  <2> DEFINE turns == crtc.char_cnt = regs.horz_total
             line == IF turns THEN s + 1 ELSE s
  <2>4. IF crtc'.start_of_frame
        THEN /\ settled' = IF settled < 4 THEN settled + 1 ELSE 4
             /\ scan_line' = 0
             /\ frame_lines' = <<line, frame_lines[1]>>
        ELSE settled' = settled /\ scan_line' = line /\ frame_lines' = frame_lines
    BY <1>1, <1>6, <2>3, HistoryMoves
  <2>5. crtc.char_cnt \in Nat /\ regs.horz_total \in Nat /\ crtc.char_cnt <= regs.horz_total
    BY <1>3, <2>1, RegsAreNat DEF CrtcType, Numbers, Position
  <2>6. crtc.char_cnt > regs.horz_disp + regs.skew => "SKEW" \notin crtc.enabled
    BY <2>2 DEF Enables
  <2>7. CASE ~turns
    <3>1. scan_line' = s /\ settled' = settled
      BY <1>1, <1>2, <2>4, <2>7
    <3>2. knows = known
      BY <3>1
    <3> HIDE DEF knows, known
    <3>3. Enables(f, regs, knows)
      BY <1>3, <1>4, <2>1, <2>2, <2>5, <2>7, <3>2, LineEnables DEF f
    <3>4. s < MainLines(regs) => Fetches(f, regs)
      BY <1>3, <2>1, <2>2, <2>5, <2>7, LineFetches DEF f
    <3> QED
      BY <1>1, <3>1, <3>3, <3>4 DEF knows
  <2>8. CASE turns
    <3> HIDE DEF knows, known
    <3>1. Enables(f, regs, knows)
      BY <1>3, <1>4, <2>6, <2>8, TurnEnables DEF f
    <3>2. scan_line' < MainLines(regs) => Fetches(f, regs)
      <4>1. CASE FrameEnds(d, regs)
        BY <1>3, <2>8, <4>1, FrameFetches DEF f, d
      <4>2. CASE ~FrameEnds(d, regs)
        <5>1. scan_line' = s + 1
          BY <1>1, <1>2, <2>4, <2>8, <4>2
        <5>2. MainLines(regs) \in Nat
          BY <1>3, FrameIs
        <5> QED
          BY <1>3, <2>1, <2>2, <2>8, <4>2, <5>1, <5>2, TurnFetches DEF f, d
      <4> QED
        BY <4>1, <4>2
    <3> QED
      BY <1>1, <3>1, <3>2 DEF knows
  <2> QED
    BY <2>7, <2>8
<1> QED
  BY <1>3, <1>5, <1>6

\* Every step keeps display enable and the address.
LEMMA DisplayStepKeeps == VideoType /\ FrameInv /\ DisplayInv /\ [Next]_vars => DisplayInv'
<1> SUFFICES ASSUME VideoType, FrameInv, DisplayInv, [Next]_vars PROVE DisplayInv'
  OBVIOUS
<1>1. CASE UNCHANGED <<regs, crtc, settled, scan_line, frame_lines>>
  BY <1>1 DEF DisplayInv
<1>2. CASE Devices
  <2>1. CASE settled' = 0
    BY <2>1 DEF DisplayInv
  <2>2. CASE UNCHANGED <<regs, crtc, todo, historyVars>>
    BY <1>1, <2>2 DEF historyVars
  <2> QED
    BY <1>2, <2>1, <2>2 DEF Devices
<1>3. NotClocked \/ UlaWrite \/ consume_frame \/ UNCHANGED vars
        => UNCHANGED <<regs, crtc, settled, scan_line, frame_lines>>
  BY OtherSteps
<1> QED
  BY <1>1, <1>2, <1>3, CharacterKeepsDisplay DEF Next, Worker

\* The place of a scan line among the displayed rows.
LEMMA PlaceOfLine ==
  ASSUME NEW c, NEW r, Fits(r), Regular(r), CrtcType(c), NEW s \in Nat, Position(c, r, s)
  PROVE  LET lines == ScanLinesPerRow(r)
             row == s \div lines
             ra == IF SyncAndVideo(r) THEN 2 * (s % lines) ELSE s % lines
         IN /\ row \in Nat
            /\ IsShown(r, s) <=> row < r.vert_disp
            /\ IsShown(r, s) => s < MainLines(r) /\ row = c.line_cnt /\ ra = c.raster_cnt
<1> DEFINE lines == ScanLinesPerRow(r)
           row == s \div lines
           i == s % lines
<1>1. lines \in Nat \ {0}
  BY LinesAre
<1>2. row \in Nat /\ i \in 0..(lines - 1) /\ s = row * lines + i
  BY <1>1, Division
<1>3. r.vert_disp \in Nat
  BY RegsAreNat
<1> HIDE DEF row, i
<1>4. s = RowStart(r, row) + i /\ RowStart(r, row) \in Nat /\ RowStart(r, r.vert_disp) \in Nat
  BY <1>2, <1>3, RowStarts DEF RowStart
<1>5. row < r.vert_disp => IsShown(r, s)
  BY <1>1, <1>2, <1>3, <1>4, RowsFollow DEF IsShown
<1>6. IsShown(r, s) => row < r.vert_disp
  <2>1. CASE r.vert_disp < row
    <3>1. RowStart(r, r.vert_disp) + ScanLinesPerRow(r) <= RowStart(r, row)
      BY <1>2, <1>3, <2>1, RowsFollow
    <3> QED
      BY <1>1, <1>2, <1>4, <3>1 DEF IsShown
  <2>2. CASE r.vert_disp = row
    BY <1>2, <1>4, <2>2 DEF IsShown
  <2> QED
    BY <1>2, <1>3, <2>1, <2>2
<1>7. ASSUME IsShown(r, s)
      PROVE  s < MainLines(r) /\ row = c.line_cnt
             /\ (IF SyncAndVideo(r) THEN 2 * i ELSE i) = c.raster_cnt
  <2>1. s < MainLines(r) /\ MainLines(r) <= FrameLines(r) /\ MainLines(r) \in Nat
    BY <1>4, <1>7, FrameIs, RegsAreNat DEF IsShown
  <2>2. InMain(c, r, s, c.char_cnt)
    BY <2>1 DEF Position, InFrame, InAdjustment, InInserted
  <2>3. PICK j \in Nat : InRow(c, r, s, j)
    BY <2>2 DEF InMain
  <2>4. j \in 0..(lines - 1) /\ s = c.line_cnt * lines + j /\ c.line_cnt \in Nat
    BY <2>3 DEF InRow, RowStart, CrtcType, Numbers
  <2> DEFINE m == ScanLinesPerRow(r)
             q == c.line_cnt
  <2> HIDE DEF m, q
  <2>8. m \in Nat \ {0} /\ q \in Nat /\ j \in 0..(m - 1) /\ s = q * m + j
    BY <1>1, <2>4 DEF m, q
  <2>9. s \div m = q /\ s % m = j
    BY <2>8, DivisionIsUnique
  <2>5. row = c.line_cnt /\ i = j
    BY <2>9 DEF row, i, m, q
  <2> QED
    BY <2>1, <2>3, <2>5 DEF InRow, RasterOf
<1> QED
  BY <1>2, <1>5, <1>6, <1>7 DEF row, i

\* The sizes of the screen.
LEMMA Subtrahends ==
  /\ Subtrahend[0] = 16384 /\ Subtrahend[1] = 8192
  /\ Subtrahend[2] = 20480 /\ Subtrahend[3] = 10240
  BY DEF Subtrahend

\* The bits of the address that say whether it is a teletext page.
LEMMA TeletextBits ==
  ASSUME NEW n \in Nat, 10240 <= n, n < 12288
  PROVE  Bit(n, 13) /\ Bit(n, 11)
<1>1. 2^13 = 8192 /\ 2^11 = 2048
  OBVIOUS
<1>2. n \div 8192 = 1 /\ n \div 2048 = 5
  OBVIOUS
<1> QED
  BY <1>1, <1>2 DEF Bit

\* And whether it is beyond the end of the screen.
LEMMA ScreenBits ==
  ASSUME NEW n \in Nat, n < 6656
  PROVE  ~Bit(n, 13) /\ (Bit(n, 12) <=> n >= 4096)
<1>1. 2^13 = 8192 /\ 2^12 = 4096
  OBVIOUS
<1>2. n \div 8192 = 0 /\ (n >= 4096 => n \div 4096 = 1) /\ (n < 4096 => n \div 4096 = 0)
  OBVIOUS
<1> QED
  BY <1>1, <1>2 DEF Bit

\* The byte of the screen, wrapped once at most.
LEMMA ScreenWraps ==
  ASSUME NEW size \in {16384, 8192, 20480, 10240}, NEW a \in Nat, 32768 - size <= a, a < 32768 + size
  PROVE  (32768 - size) + ((a - (32768 - size)) % size) = IF a < 32768 THEN a ELSE a - size
<1>1. size \in Nat \ {0} /\ size <= 20480
  OBVIOUS
<1> DEFINE b == a - (32768 - size)
<1>2. b \in Nat /\ b < 2 * size /\ a = b + (32768 - size)
  BY <1>1
<1>3. CASE b < size
  <2>1. b % size = b
    BY <1>1, <1>2, <1>3
  <2> HIDE DEF b
  <2>2. (32768 - size) + (b % size) = IF a < 32768 THEN a ELSE a - size
    BY <1>1, <1>2, <1>3, <2>1
  <2> QED
    BY <2>2 DEF b
<1>4. CASE ~(b < size)
  <2>1. b = 1 * size + (b - size) /\ b - size \in 0..(size - 1)
    BY <1>1, <1>2, <1>4
  <2>2. b % size = b - size
    <3> DEFINE t == b - size
    <3> HIDE DEF b, t
    <3>1. b = 1 * size + t /\ t \in 0..(size - 1) /\ b \in Nat
      BY <1>2, <2>1 DEF t
    <3> QED
      BY <1>1, <3>1, DivisionIsUnique DEF t
  <2> HIDE DEF b
  <2>3. (32768 - size) + (b % size) = IF a < 32768 THEN a ELSE a - size
    BY <1>1, <1>2, <1>4, <2>2
  <2> QED
    BY <2>3 DEF b
<1> QED
  BY <1>3, <1>4

\* What the CRTC puts on the bus for the n-th character of its memory.
LEMMA TeletextAddress ==
  ASSUME NEW c, NEW c0c1, c.linear \in Nat, 10240 <= c.linear, c.linear < 12288
  PROVE  latch_address(c, c0c1) = 31744 + (c.linear % 1024)
<1>1. Bit(c.linear, 13) /\ Bit(c.linear, 11)
  BY TeletextBits
<1>2. latch_address(c, c0c1) = (c.linear % 1024) + 31744
  BY <1>1 DEF latch_address
<1>3. c.linear % 1024 \in Nat
  OBVIOUS
<1> QED
  BY <1>2, <1>3

\* An address beyond the end of memory wraps to the start of the screen.
LEMMA ScreenAddress ==
  ASSUME NEW c, NEW c0c1 \in 0..3, c.linear \in Nat, c.raster_cnt \in Nat,
         32768 - Subtrahend[c0c1] <= 8 * c.linear, 8 * c.linear < 32768 + Subtrahend[c0c1]
  PROVE  latch_address(c, c0c1)
           = (32768 - Subtrahend[c0c1])
               + (((8 * c.linear + (c.raster_cnt % 8)) - (32768 - Subtrahend[c0c1])) % Subtrahend[c0c1])
<1> DEFINE size == Subtrahend[c0c1]
           n == c.linear
           ra == c.raster_cnt % 8
           a == 8 * n + ra
<1>1. size \in {16384, 8192, 20480, 10240}
  BY Subtrahends
<1>2. ra \in Nat /\ ra < 8 /\ n \in Nat
  OBVIOUS
<1> HIDE DEF size, n, ra
<1>3. 32768 - size <= 8 * n /\ 8 * n < 32768 + size
  BY DEF size, n
<1>4. n < 6656 /\ 8 * n + 8 <= 32768 + size
  BY <1>1, <1>2, <1>3
<1>5. ~Bit(n, 13) /\ (Bit(n, 12) <=> n >= 4096)
  BY <1>2, <1>4, ScreenBits
<1>6. 2^16 = 65536
  OBVIOUS
<1>7. (n * 8) % 65536 = 8 * n
  BY <1>2, <1>4
<1>8. latch_address(c, c0c1) = IF n >= 4096 THEN (ra + 8 * n + 65536 - size) % 65536 ELSE ra + 8 * n
  BY <1>5, <1>6, <1>7 DEF latch_address, n, ra, size
<1>9. latch_address(c, c0c1) = IF a < 32768 THEN a ELSE a - size
  <2>1. a < 32768 <=> n < 4096
    BY <1>2
  <2>2. a \in Nat /\ a < 53248 /\ a = ra + 8 * n
    BY <1>1, <1>2, <1>4
  <2>3. CASE n >= 4096
    <3>1. a - size \in Nat /\ a - size < 65536
      BY <1>1, <2>1, <2>2, <2>3, <1>2
    <3>2. (ra + 8 * n + 65536 - size) % 65536 = a - size
      <4> DEFINE t == a - size
      <4>1. ra + 8 * n + 65536 - size = t + 65536
        BY <1>1, <2>2, <1>2
      <4> HIDE DEF t
      <4>2. t \in Nat /\ t < 65536
        BY <3>1 DEF t
      <4>3. (t + 65536) % 65536 = t
        BY <4>2
      <4> QED
        BY <4>1, <4>3 DEF t
    <3> QED
      BY <1>8, <2>1, <2>2, <2>3, <3>2, <1>2
  <2>4. CASE n < 4096
    BY <1>2, <1>8, <2>1, <2>2, <2>4
  <2> QED
    BY <1>2, <2>3, <2>4
<1>10. 32768 - size <= a /\ a < 32768 + size /\ a \in Nat
  BY <1>1, <1>2, <1>3, <1>4
<1> HIDE DEF a
<1>11. (32768 - size) + ((a - (32768 - size)) % size) = IF a < 32768 THEN a ELSE a - size
  BY <1>1, <1>10, ScreenWraps
<1>12. latch_address(c, c0c1) = (32768 - size) + ((a - (32768 - size)) % size)
  BY <1>9, <1>11
<1> QED
  BY <1>12 DEF a, size, n, ra

\* Display is enabled for the displayed characters of the displayed scan lines.
LEMMA ShowsEnable ==
  ASSUME NEW c, NEW r, CrtcType(c), Fits(r), Regular(r), NEW s \in Nat, Position(c, r, s),
         Rows(c, r, s), Enables(c, r, TRUE)
  PROVE  display_enable(Tick(c, r)) <=>
           /\ IsShown(r, s) /\ r.skew <= c.char_cnt /\ c.char_cnt < r.horz_disp + r.skew
           /\ ~Blank(c.raster_cnt) /\ "USER" \in c.enabled
<1> DEFINE d == Character(c, r)
           f == Tick(c, r)
<1>1. /\ CrtcType(d) /\ SameBut(c, d, CharacterFields)
      /\ \A g \in Everything : g \in d.enabled <=>
           IF g = "SKEW" THEN ~Blanks(c, r) /\ (c.char_cnt = r.skew \/ g \in c.enabled)
           ELSE IF g = "HSYNC" THEN ~Blanks(c, r) /\ g \in c.enabled ELSE g \in c.enabled
  BY CharacterDoes
<1>2. /\ c.char_cnt \in Nat /\ r.horz_disp \in Nat /\ r.skew \in Nat /\ r.horz_total \in Nat
      /\ 1 <= r.horz_disp /\ r.horz_disp + r.skew <= r.horz_total /\ c.char_cnt <= r.horz_total
  BY RegsAreNat DEF CrtcType, Numbers, Regular, Position
<1>3. CASE c.char_cnt < r.horz_total
  <2>1. CrtcType(f) /\ SameBut(d, f, {"char_cnt", "even_logic"})
    BY <1>3, LineGoesOn
  <2> HIDE DEF d, f
  <2>2. f.enabled = d.enabled /\ f.enabled \subseteq Everything
    BY <1>1, <2>1 DEF SameBut, CrtcType, Numbers, Flags
  <2>3. /\ "HSYNC" \in d.enabled <=> ~Blanks(c, r) /\ "HSYNC" \in c.enabled
        /\ "SKEW" \in d.enabled <=> ~Blanks(c, r) /\ (c.char_cnt = r.skew \/ "SKEW" \in c.enabled)
        /\ "SCANLINE" \in d.enabled <=> "SCANLINE" \in c.enabled
        /\ "VSYNC" \in d.enabled <=> "VSYNC" \in c.enabled
        /\ "USER" \in d.enabled <=> "USER" \in c.enabled
    BY <1>1 DEF Everything
  <2>4. f.enabled = Everything <=>
          "HSYNC" \in d.enabled /\ "SKEW" \in d.enabled /\ "SCANLINE" \in d.enabled
            /\ "VSYNC" \in d.enabled /\ "USER" \in d.enabled
    BY <2>2 DEF Everything
  <2>5. Blanks(c, r) <=> c.char_cnt = r.horz_disp + r.skew
    BY <1>2, <1>3 DEF Blanks
  <2>6. "HSYNC" \in d.enabled /\ "SKEW" \in d.enabled
          <=> r.skew <= c.char_cnt /\ c.char_cnt < r.horz_disp + r.skew
    BY <1>2, <2>3, <2>5 DEF Enables
  <2>7. display_enable(f) <=>
           /\ IsShown(r, s) /\ r.skew <= c.char_cnt /\ c.char_cnt < r.horz_disp + r.skew
           /\ ~Blank(c.raster_cnt) /\ "USER" \in c.enabled
    BY <2>3, <2>4, <2>6 DEF Enables, Rows, display_enable
  <2> QED
    BY <2>7 DEF f
<1>4. CASE c.char_cnt = r.horz_total
  <2>1. Enables(f, r, TRUE)
    BY <1>4, TurnEnables DEF Enables
  <2>2. f.char_cnt = 0
    <3> DEFINE e == NextCharacter(d, r)
               g == CheckRows(e, r)
    <3> HIDE DEF d
    <3>1. ~d.start_of_frame /\ d.char_cnt = r.horz_total
      BY <1>1, <1>4, CharacterDoes DEF SameBut, CrtcType, Numbers, Flags, CharacterFields, d
    <3>2. CrtcType(e) /\ e.char_cnt = 0
      BY <1>1, <3>1, TurnStep
    <3>3. SameBut(e, g, {"enabled", "odd_count", "even_logic"})
      BY <1>1, <3>1, TurnRows
    <3> HIDE DEF e, g
    <3>4. g.char_cnt = 0
      BY <3>2, <3>3 DEF SameBut, CrtcType, Numbers, Flags
    <3> QED
      BY <3>4 DEF Tick, g, e, d
  <2> HIDE DEF f
  <2>3. f.enabled # Everything
    BY <1>2, <2>1, <2>2 DEF Enables, Everything
  <2>4. ~display_enable(f) /\ ~(c.char_cnt < r.horz_disp + r.skew)
    BY <1>2, <1>4, <2>3 DEF display_enable
  <2> QED
    BY <2>4 DEF f
<1> QED
  BY <1>2, <1>3, <1>4

\* A shown character is within the screen, at the address the CRTC has for it.
LEMMA ShownAddress ==
  ASSUME NEW c, NEW r, CrtcType(c), Fits(r), Fetches(c, r), NEW k \in Nat,
         k = c.line_cnt * r.horz_disp + c.char_cnt, r.start + k < AddressModulus
  PROVE  c.linear = r.start + k
<1>1. /\ c.char_cnt \in Nat /\ c.line_cnt \in Nat /\ r.start \in Nat /\ r.horz_disp \in Nat
  BY RegsAreNat DEF CrtcType, Numbers
<1>2. LineAddress(c, r) \in Nat /\ LineAddress(c, r) + c.char_cnt = r.start + k
  <2>1. c.line_cnt * r.horz_disp \in Nat
    BY <1>1
  <2> QED
    BY <1>1, <2>1 DEF LineAddress
<1>3. c.linear = Addr(Addr(LineAddress(c, r)) + c.char_cnt)
  BY DEF Fetches
<1>4. Addr(Addr(LineAddress(c, r)) + c.char_cnt) = Addr(LineAddress(c, r) + c.char_cnt)
  BY <1>1, <1>2, Addresses
<1>5. Addr(r.start + k) = r.start + k
  <2>1. r.start + k \in Nat
    BY <1>1
  <2> QED
    BY <2>1, Addresses
<1> QED
  BY <1>2, <1>3, <1>4, <1>5

\* There are no more of them than the screen has.
LEMMA ShownFits ==
  ASSUME NEW r, Fits(r), NEW row \in Nat, row < r.vert_disp, NEW column \in Nat,
         column < r.horz_disp + r.skew
  PROVE  row * r.horz_disp + column \in Nat
         /\ row * r.horz_disp + column < r.vert_disp * r.horz_disp + r.skew
<1>1. r.horz_disp \in Nat /\ r.vert_disp \in Nat /\ r.skew \in Nat
  BY RegsAreNat
<1>2. /\ row * r.horz_disp + r.horz_disp <= r.vert_disp * r.horz_disp
      /\ row * r.horz_disp \in Nat /\ r.vert_disp * r.horz_disp \in Nat
  BY <1>1, Products
<1> QED
  BY <1>1, <1>2

\* What a character puts on the bus is the byte of the screen at its place.
LEMMA CharacterShows ==
  VideoType /\ FrameInv /\ DisplayInv /\ maybe_drive_crtc /\ settled >= 2 /\ Regular(regs) /\ OnScreen
    => ShowsItsByte
<1> SUFFICES ASSUME VideoType, FrameInv, DisplayInv, maybe_drive_crtc, settled >= 2, Regular(regs), OnScreen
             PROVE  ShowsItsByte
  OBVIOUS
<1> DEFINE lines == ScanLinesPerRow(regs)
           row == scan_line \div lines
           ra == IF SyncAndVideo(regs) THEN 2 * (scan_line % lines) ELSE scan_line % lines
           column == crtc.char_cnt
           visible == row < regs.vert_disp /\ column \in regs.skew..(regs.horz_disp + regs.skew - 1)
                        /\ ~Blank(ra) /\ "USER" \in crtc.enabled
           k == row * regs.horz_disp + column
<1>1. CrtcType(crtc) /\ Fits(regs) /\ scan_line \in Nat /\ settled \in 0..4 /\ menu \in Menus
  BY DEF VideoType
<1>2. Position(crtc, regs, scan_line) /\ Rows(crtc, regs, scan_line)
  BY <1>1 DEF FrameInv
<1>3. Enables(crtc, regs, TRUE) /\ (scan_line < MainLines(regs) => Fetches(crtc, regs))
  BY <1>1 DEF DisplayInv, Enables
<1>4. crtc' = Tick(crtc, regs)
  BY CharacterIsTick
<1>5. /\ row \in Nat
      /\ IsShown(regs, scan_line) <=> row < regs.vert_disp
      /\ IsShown(regs, scan_line) => scan_line < MainLines(regs) /\ row = crtc.line_cnt
                                     /\ ra = crtc.raster_cnt
  BY <1>1, <1>2, PlaceOfLine
<1>6. /\ column \in Nat /\ crtc.raster_cnt \in Nat /\ crtc.line_cnt \in Nat
      /\ regs.skew \in Nat /\ regs.horz_disp \in Nat /\ regs.vert_disp \in Nat /\ regs.start \in Nat
  BY <1>1, RegsAreNat DEF CrtcType, Numbers
<1>7. display_enable(crtc') <=>
           /\ IsShown(regs, scan_line) /\ regs.skew <= column /\ column < regs.horz_disp + regs.skew
           /\ ~Blank(crtc.raster_cnt) /\ "USER" \in crtc.enabled
  BY <1>1, <1>2, <1>3, <1>4, ShowsEnable
<1> HIDE DEF row, ra, lines
<1>8. display_enable(crtc') <=> visible
  BY <1>5, <1>6, <1>7
<1>9. ASSUME visible
      PROVE  latch_address(crtc, menu.scroll) = ScreenByte(k, ra % 8)
  <2>1. /\ scan_line < MainLines(regs) /\ row = crtc.line_cnt /\ ra = crtc.raster_cnt
        /\ row < regs.vert_disp /\ column < regs.horz_disp + regs.skew
    BY <1>5, <1>6, <1>9
  <2>2. k \in Nat /\ k < Shown /\ Shown \in Nat
    <3>1. k \in Nat /\ k < regs.vert_disp * regs.horz_disp + regs.skew
      BY <1>1, <1>5, <1>6, <2>1, ShownFits
    <3>2. regs.vert_disp * regs.horz_disp \in Nat
      BY <1>6
    <3> QED
      BY <1>6, <3>1, <3>2 DEF Shown
  <2>3. menu.scroll \in 0..3
    BY <1>1, MenusAssumption DEF MenusAssumption
  <2>4. Size \in {16384, 8192, 20480, 10240}
    BY <2>3, Subtrahends DEF Size
  <2> HIDE DEF k
  <2>5. regs.start + k < AddressModulus => crtc.linear = regs.start + k
    <3>1. Fetches(crtc, regs)
      BY <1>3, <2>1
    <3>2. k = crtc.line_cnt * regs.horz_disp + crtc.char_cnt
      BY <2>1 DEF k
    <3> QED
      BY <1>1, <2>2, <3>1, <3>2, ShownAddress
  <2>6. AddressModulus = 16384
    BY DEF AddressModulus
  <2>7. CASE Teletext
    <3>1. 10240 <= regs.start /\ regs.start < 11264 /\ k < 1024
      BY <1>6, <2>2, <2>7 DEF Teletext, OnScreen
    <3>2. crtc.linear = regs.start + k
      BY <1>6, <2>2, <2>5, <2>6, <3>1
    <3>3. latch_address(crtc, menu.scroll) = 31744 + (crtc.linear % 1024)
      BY <1>6, <2>2, <3>1, <3>2, TeletextAddress
    <3> QED
      BY <2>7, <3>2, <3>3 DEF ScreenByte
  <2>8. CASE ~Teletext
    <3>1. /\ 32768 - Size <= 8 * regs.start /\ 8 * regs.start < 32768 /\ 8 * Shown <= Size
      BY <1>6, <2>4, <2>8 DEF OnScreen, ScreenBase
    <3>2. 32768 - Size <= 8 * (regs.start + k) /\ 8 * (regs.start + k) < 32768 + Size
      BY <1>6, <2>2, <2>4, <3>1
    <3>3. crtc.linear = regs.start + k
      BY <1>6, <2>2, <2>4, <2>5, <2>6, <3>2
    <3>4. latch_address(crtc, menu.scroll)
            = (32768 - Subtrahend[menu.scroll])
               + (((8 * crtc.linear + (crtc.raster_cnt % 8)) - (32768 - Subtrahend[menu.scroll]))
                    % Subtrahend[menu.scroll])
      <4>1. crtc.linear \in Nat
        BY <1>6, <2>2, <3>3
      <4> QED
        BY <1>6, <2>3, <3>2, <3>3, <4>1, ScreenAddress DEF Size
    <3> QED
      BY <2>1, <2>8, <3>3, <3>4 DEF ScreenByte, ScreenBase, Size
  <2> QED
    BY <2>7, <2>8
<1> QED
  BY <1>8, <1>9 DEF ShowsItsByte, k, ra, row, lines

\* Every displayed character shows its own byte of the screen, wrapped at the screen's
\* end when it is scrolled, and display is enabled for no other.
THEOREM ScreenIsShown == Spec => DisplayIsTheScreen
<1>1. DisplayInv /\ VideoType /\ FrameInv /\ [Next]_vars
        => [at # "devices" /\ crtc' # crtc /\ settled >= 2 /\ Regular(regs) /\ OnScreen => ShowsItsByte]_vars
  <2> SUFFICES ASSUME DisplayInv, VideoType, FrameInv, [Next]_vars, at # "devices", crtc' # crtc,
                      settled >= 2, Regular(regs), OnScreen
               PROVE  ShowsItsByte
    OBVIOUS
  <2>1. maybe_drive_crtc
    BY OtherSteps DEF Next, Worker, Devices
  <2> QED
    BY <2>1, CharacterShows
<1>2. Init => DisplayInv
  BY DEF Init, DisplayInv
<1> QED
  BY VideoTypeInit, FrameInit, VideoTypeStep, FrameStep, DisplayStepKeeps, <1>1, <1>2, PTL
  DEF Spec, DisplayIsTheScreen

-----------------------------------------------------------------------------
(***************************************************************************)
(* The sync pulses, and the rows of a field between two of them. Where the *)
(* pulses end is where the CRT moves on, so its position follows from      *)
(* theirs.                                                                 *)
(***************************************************************************)
\* The pulses after a character: what Tick does with them.
LEMMA PulsesMove ==
  ASSUME NEW c, NEW r, CrtcType(c), Fits(r)
  PROVE  LET f == Tick(c, r)
             turns == c.char_cnt = r.horz_total
             ends == FrameEnds(Character(c, r), r) \/ RowEnds(Character(c, r), r)
             width == IF VsyncBegins(c, r) THEN 0 ELSE c.vsync_width_cnt
         IN /\ f.h_sync <=> (c.h_sync /\ Wide(c) # r.hsync_width) \/ HsyncBegins(c, r)
            /\ f.hsync_width_cnt = IF HsyncBegins(c, r) THEN 0
                                   ELSE IF c.h_sync THEN Wide(c) ELSE c.hsync_width_cnt
            /\ f.v_sync <=> VsyncStarting(c, r) \/ (c.v_sync /\ ~VsyncEnding(c, r))
            /\ f.had_vsync <=> (c.had_vsync \/ VsyncBegins(c, r)) /\ ~(turns /\ ends)
            /\ f.vsync_width_cnt = IF turns THEN (width + 1) % WidthModulus ELSE width
            /\ turns /\ ~ends => f.line_cnt = c.line_cnt
            /\ turns /\ ends => f.raster_cnt = 0
<1> DEFINE d == Character(c, r)
           e == NextCharacter(d, r)
           f == CheckRows(e, r)
           turns == c.char_cnt = r.horz_total
           ends == FrameEnds(d, r) \/ RowEnds(d, r)
           width == IF VsyncBegins(c, r) THEN 0 ELSE c.vsync_width_cnt
           hs == (c.h_sync /\ Wide(c) # r.hsync_width) \/ HsyncBegins(c, r)
           hw == IF HsyncBegins(c, r) THEN 0 ELSE IF c.h_sync THEN Wide(c) ELSE c.hsync_width_cnt
           vs == VsyncStarting(c, r) \/ (c.v_sync /\ ~VsyncEnding(c, r))
           had == c.had_vsync \/ VsyncBegins(c, r)
<1>1. /\ CrtcType(d) /\ SameBut(c, d, CharacterFields) /\ ~d.start_of_frame
      /\ d.h_sync <=> hs
      /\ d.hsync_width_cnt = hw
      /\ d.v_sync <=> vs
      /\ d.had_vsync <=> had
      /\ d.vsync_width_cnt = width
  BY CharacterDoes
<1> HIDE DEF d, hs, hw, vs, had, width
<1>2. d.char_cnt = c.char_cnt /\ d.line_cnt = c.line_cnt
  BY <1>1 DEF SameBut, CrtcType, Numbers, Flags, CharacterFields
<1>3. CASE turns
  <2>1. /\ CrtcType(e) /\ SameBut(d, e, TurnFields)
        /\ e.line_cnt = (IF FrameEnds(d, r) THEN 0
                         ELSE IF RowEnds(d, r) THEN (d.line_cnt + 1) % LineModulus ELSE d.line_cnt)
        /\ e.raster_cnt = (IF FrameEnds(d, r) \/ RowEnds(d, r) THEN 0 ELSE NextRaster(d.raster_cnt, r))
        /\ e.had_vsync <=> ~FrameEnds(d, r) /\ ~RowEnds(d, r) /\ d.had_vsync
        /\ e.vsync_width_cnt = (d.vsync_width_cnt + 1) % WidthModulus
    BY <1>1, <1>2, <1>3, TurnStep
  <2>2. SameBut(e, f, {"enabled", "odd_count", "even_logic"})
    BY <1>1, <1>2, <1>3, TurnRows
  <2> HIDE DEF e, f
  <2>3. e.h_sync = d.h_sync /\ e.hsync_width_cnt = d.hsync_width_cnt /\ e.v_sync = d.v_sync
    BY <1>1, <2>1 DEF SameBut, CrtcType, Numbers, Flags, TurnFields, ScanFields, FrameFields
  <2>4. /\ f.h_sync = e.h_sync /\ f.hsync_width_cnt = e.hsync_width_cnt /\ f.v_sync = e.v_sync
        /\ f.had_vsync = e.had_vsync /\ f.vsync_width_cnt = e.vsync_width_cnt
        /\ f.line_cnt = e.line_cnt /\ f.raster_cnt = e.raster_cnt
    BY <2>1, <2>2 DEF SameBut, CrtcType, Numbers, Flags
  <2>5. /\ f.h_sync <=> hs
        /\ f.hsync_width_cnt = hw
        /\ f.v_sync <=> vs
        /\ f.had_vsync <=> had /\ ~(turns /\ ends)
        /\ f.vsync_width_cnt = IF turns THEN (width + 1) % WidthModulus ELSE width
        /\ turns /\ ~ends => f.line_cnt = c.line_cnt
        /\ turns /\ ends => f.raster_cnt = 0
    BY <1>1, <1>2, <1>3, <2>1, <2>3, <2>4
  <2> QED
    BY <2>5 DEF f, e, d, hs, hw, vs, had, width, Tick
<1>4. CASE ~turns
  <2>1. /\ CrtcType(f) /\ SameBut(d, e, {"char_cnt"})
        /\ SameBut(e, f, {"enabled", "odd_count", "even_logic"})
    <3>1. e = [d EXCEPT !.char_cnt = (@ + 1) % CharModulus]
      BY <1>2, <1>4 DEF NextCharacter
    <3>2. (d.char_cnt + 1) % CharModulus \in Nat
      BY <1>1, SizesAre DEF CrtcType, Numbers, Sizes
    <3>3. CrtcType(e) /\ SameBut(d, e, {"char_cnt"})
      BY <1>1, <3>1, <3>2 DEF CrtcType, Numbers, Flags, SameBut
    <3> QED
      BY <3>3, CheckRowsStep
  <2> HIDE DEF e, f
  <2>2. /\ f.h_sync = d.h_sync /\ f.hsync_width_cnt = d.hsync_width_cnt /\ f.v_sync = d.v_sync
        /\ f.had_vsync = d.had_vsync /\ f.vsync_width_cnt = d.vsync_width_cnt
    BY <1>1, <2>1 DEF SameBut, CrtcType, Numbers, Flags
  <2>3. /\ f.h_sync <=> hs
        /\ f.hsync_width_cnt = hw
        /\ f.v_sync <=> vs
        /\ f.had_vsync <=> had /\ ~(turns /\ ends)
        /\ f.vsync_width_cnt = IF turns THEN (width + 1) % WidthModulus ELSE width
        /\ turns /\ ~ends => f.line_cnt = c.line_cnt
        /\ turns /\ ends => f.raster_cnt = 0
    BY <1>1, <1>4, <2>2
  <2> QED
    BY <2>3 DEF f, e, d, hs, hw, vs, had, width, Tick
<1> QED
  BY <1>3, <1>4

\* The counters of the pulses stay within their width.
Widths(c) == c.hsync_width_cnt < WidthModulus /\ c.vsync_width_cnt < WidthModulus

\* A character keeps the counters within their width.
LEMMA WidthsStep ==
  ASSUME NEW c, NEW r, CrtcType(c), Fits(r), Widths(c)
  PROVE  Widths(Tick(c, r))
<1> DEFINE f == Tick(c, r)
           width == IF VsyncBegins(c, r) THEN 0 ELSE c.vsync_width_cnt
           turns == c.char_cnt = r.horz_total
<1>1. WidthModulus \in Nat \ {0}
  BY SizesAre DEF Sizes
<1>2. c.hsync_width_cnt \in Nat /\ c.vsync_width_cnt \in Nat
  BY DEF CrtcType, Numbers
<1>3. Wide(c) < WidthModulus
  BY <1>1, <1>2 DEF Wide
<1>4. /\ f.hsync_width_cnt = IF HsyncBegins(c, r) THEN 0
                             ELSE IF c.h_sync THEN Wide(c) ELSE c.hsync_width_cnt
      /\ f.vsync_width_cnt = IF turns THEN (width + 1) % WidthModulus ELSE width
  BY PulsesMove
<1>5. width \in Nat /\ width < WidthModulus
  BY <1>1, <1>2 DEF Widths
<1>6. (width + 1) % WidthModulus < WidthModulus
  BY <1>1, <1>5
<1> HIDE DEF width, f
<1>7. Widths(f)
  BY <1>1, <1>3, <1>4, <1>5, <1>6 DEF Widths
<1> QED
  BY <1>7 DEF f

\* The counters of the pulses are within their width in every state.
WidthsInv == Widths(crtc)

\* At power on they are.
LEMMA WidthsInit == Init => WidthsInv
<1> SUFFICES ASSUME Init PROVE WidthsInv
  OBVIOUS
<1>1. Fits(regs) /\ WidthModulus \in Nat \ {0}
  BY MenusAssumption, SizesAre DEF Init, MenusAssumption, Sizes
<1>2. Widths(PowerOn)
  BY <1>1 DEF PowerOn, Widths
<1>3. Widths(FrameOf(regs))
  <2> DEFINE width == (FrameLines(regs) - regs.vsync_pos * ScanLinesPerRow(regs)) % WidthModulus
  <2>1. /\ regs.vert_total \in Nat /\ regs.vert_adj \in Nat /\ regs.vsync_pos \in Nat
        /\ regs.rasters \in Nat /\ regs.hsync_width < WidthModulus
    BY <1>1, RegsAreNat
  <2>2. ScanLinesPerRow(regs) \in Nat
    BY <2>1 DEF ScanLinesPerRow
  <2>3. FrameLines(regs) \in Nat /\ regs.vsync_pos * ScanLinesPerRow(regs) \in Nat
    BY <2>1, <2>2 DEF FrameLines
  <2>4. width < WidthModulus
    BY <1>1, <2>3
  <2> HIDE DEF width
  <2>5. FrameOf(regs).hsync_width_cnt = regs.hsync_width /\ FrameOf(regs).vsync_width_cnt = width
    BY DEF FrameOf, PowerOn, width
  <2> QED
    BY <2>1, <2>4, <2>5 DEF Widths
<1> QED
  BY <1>2, <1>3 DEF Init, WidthsInv

\* No step takes them beyond it.
LEMMA WidthsKept == VideoType /\ WidthsInv /\ [Next]_vars => WidthsInv'
<1> SUFFICES ASSUME VideoType, WidthsInv, [Next]_vars PROVE WidthsInv'
  OBVIOUS
<1>1. CASE maybe_drive_crtc
  BY <1>1, CharacterIsTick, WidthsStep DEF VideoType, WidthsInv
<1>2. CASE Devices
  <2>1. CASE UNCHANGED crtc
    BY <2>1 DEF WidthsInv
  <2>2. CASE todo # <<>> /\ mmio_write(Head(todo).reg, Head(todo).value)
    <3>1. CrtcType(crtc) /\ SameBut(crtc, crtc', {"enabled"})
      BY <2>2, WriteKeepsType DEF VideoType
    <3> QED
      BY <3>1 DEF WidthsInv, Widths, SameBut, CrtcType, Numbers, Flags
  <2> QED
    BY <1>2, <2>1, <2>2 DEF Devices
<1>3. CASE NotClocked \/ UlaWrite \/ consume_frame \/ UNCHANGED vars
  BY <1>3, OtherSteps DEF WidthsInv
<1> QED
  BY <1>1, <1>2, <1>3 DEF Next, Worker

\* A scan line of a frame that is not interlaced, and where the row of the
\* pulse is.
LEMMA PlainFrame ==
  ASSUME NEW c, NEW r, Fits(r), Regular(r), CrtcType(c), NEW s \in Nat, Position(c, r, s), ~Interlaced(r)
  PROVE  s < FrameLines(r)
<1>1. /\ MainLines(r) \in Nat /\ FrameLines(r) \in Nat /\ MainLines(r) <= FrameLines(r)
  BY FrameIs, RegsAreNat
<1>2. CASE InMain(c, r, s, c.char_cnt)
  <2>1. PICK i \in Nat : InRow(c, r, s, i)
    BY <1>2 DEF InMain
  <2>2. c.line_cnt \in Nat /\ c.line_cnt < r.vert_total + 1 /\ r.vert_total + 1 \in Nat
    BY <1>2, RegsAreNat DEF InMain, CrtcType, Numbers
  <2>3. RowStart(r, c.line_cnt) + ScanLinesPerRow(r) <= MainLines(r)
    BY <2>2, RowsFollow DEF MainLines
  <2> QED
    BY <1>1, <2>1, <2>2, <2>3, LinesAre, RowStarts DEF InRow
<1>3. CASE InAdjustment(c, r, s, c.char_cnt)
  BY <1>3 DEF InAdjustment
<1> QED
  BY <1>2, <1>3 DEF Position, InFrame, InInserted

\* The scan line on which the vertical pulse begins.
VLine(r) == RowStart(r, r.vsync_pos)

\* The row of the pulse is where its number says.
LEMMA PulseRow ==
  ASSUME NEW c, NEW r, Fits(r), Regular(r), PulsesApart(r), CrtcType(c), NEW s \in Nat,
         Position(c, r, s), ~Interlaced(r)
  PROVE  /\ VLine(r) \in Nat /\ VLine(r) + ScanLinesPerRow(r) <= FrameLines(r)
         /\ c.line_cnt = r.vsync_pos <=> VLine(r) <= s /\ s < VLine(r) + ScanLinesPerRow(r)
         /\ c.line_cnt = r.vsync_pos => c.raster_cnt = RasterOf(r, s - VLine(r))
<1>1. /\ MainLines(r) \in Nat /\ FrameLines(r) \in Nat /\ MainLines(r) <= FrameLines(r)
      /\ ScanLinesPerRow(r) \in Nat \ {0}
  BY FrameIs, LinesAre, RegsAreNat
<1>2. /\ r.vsync_pos \in Nat /\ r.vsync_pos < r.vert_total + 1 /\ r.vert_total \in Nat
      /\ r.vert_total < LineModulus /\ LineModulus \in Nat \ {0}
  BY RegsAreNat, SizesAre DEF Regular, Sizes
<1>3. VLine(r) \in Nat /\ VLine(r) + ScanLinesPerRow(r) <= MainLines(r)
  BY <1>2, RowStarts, RowsFollow DEF VLine, MainLines
<1>4. CASE InMain(c, r, s, c.char_cnt)
  <2>1. PICK i \in Nat : InRow(c, r, s, i)
    BY <1>4 DEF InMain
  <2>2. /\ i < ScanLinesPerRow(r) /\ s = RowStart(r, c.line_cnt) + i /\ c.line_cnt \in Nat
        /\ RowStart(r, c.line_cnt) \in Nat /\ c.raster_cnt = RasterOf(r, i)
    BY <1>1, <2>1, RowStarts DEF InRow, CrtcType, Numbers
  <2>3. c.line_cnt < r.vsync_pos => s < VLine(r)
    BY <1>1, <1>2, <1>3, <2>2, RowsFollow DEF VLine
  <2>4. r.vsync_pos < c.line_cnt => VLine(r) + ScanLinesPerRow(r) <= s
    <3> SUFFICES ASSUME r.vsync_pos < c.line_cnt PROVE VLine(r) + ScanLinesPerRow(r) <= s
      OBVIOUS
    <3>1. RowStart(r, r.vsync_pos) + ScanLinesPerRow(r) <= RowStart(r, c.line_cnt)
      BY <1>2, <2>2, RowsFollow
    <3> QED
      BY <1>1, <1>3, <2>2, <3>1 DEF VLine
  <2>5. c.line_cnt = r.vsync_pos => s = VLine(r) + i
    BY <2>2 DEF VLine
  <2>6. c.line_cnt = r.vsync_pos => i = s - VLine(r)
    BY <1>3, <2>5
  <2> QED
    BY <1>1, <1>2, <1>3, <2>2, <2>3, <2>4, <2>5, <2>6
<1>5. CASE InAdjustment(c, r, s, c.char_cnt)
  <2>1. c.line_cnt = (r.vert_total + 1) % LineModulus /\ MainLines(r) <= s
    BY <1>5 DEF InAdjustment
  <2>2. c.line_cnt # r.vsync_pos
    <3>1. CASE r.vert_total + 1 < LineModulus
      <4>1. (r.vert_total + 1) % LineModulus = r.vert_total + 1
        BY <1>2, <3>1
      <4> QED
        BY <1>2, <2>1, <4>1
    <3>2. CASE r.vert_total + 1 = LineModulus
      <4>1. LineModulus % LineModulus = 0
        BY <1>2
      <4> QED
        BY <1>2, <2>1, <3>2, <4>1 DEF PulsesApart
    <3> QED
      BY <1>2, <3>1, <3>2
  <2> QED
    BY <1>1, <1>3, <2>1, <2>2
<1> QED
  BY <1>4, <1>5 DEF Position, InFrame, InInserted

\* How a character moves on in frames that are not interlaced.
Moves ==
  LET turns == crtc.char_cnt = regs.horz_total
  IN IF ~turns
     THEN crtc'.char_cnt = crtc.char_cnt + 1 /\ scan_line' = scan_line /\ settled' = settled
     ELSE /\ crtc'.char_cnt = 0
          /\ IF scan_line + 1 < FrameLines(regs)
             THEN scan_line' = scan_line + 1 /\ settled' = settled
             ELSE /\ scan_line + 1 = FrameLines(regs) /\ scan_line' = 0
                  /\ settled' = IF settled < 4 THEN settled + 1 ELSE 4

\* A character moves on as the frame does.
LEMMA CharacterMoves ==
  ASSUME VideoType, FrameInv, maybe_drive_crtc, settled >= 1, Regular(regs), ~Interlaced(regs)
  PROVE  Moves /\ Position(crtc', regs, scan_line')
<1> DEFINE s == scan_line
           d == Character(crtc, regs)
           f == Tick(crtc, regs)
<1>1. crtc' = f /\ regs' = regs /\ Remember
  BY CharacterIsTick
<1>2. f.start_of_frame <=> crtc.char_cnt = regs.horz_total /\ FrameEnds(d, regs)
  BY AnyCharacter DEF VideoType
<1>3. CrtcType(crtc) /\ Fits(regs) /\ s \in Nat /\ (crtc.end_of_frame => crtc.end_of_v_adj)
      /\ settled \in 0..4 /\ FrameLines(regs) \in Nat
  BY FrameIs DEF VideoType
<1> HIDE DEF d, f
<1>4. Position(crtc, regs, s) /\ Rows(crtc, regs, s)
  BY DEF FrameInv
<1>5. s + 1 <= ScrBuffHeight
  BY <1>3, <1>4, InBounds
<1> DEFINE turns == crtc.char_cnt = regs.horz_total
           line == IF turns THEN s + 1 ELSE s
<1>6. IF crtc'.start_of_frame
      THEN /\ settled' = IF settled < 4 THEN settled + 1 ELSE 4
           /\ scan_line' = 0
           /\ frame_lines' = <<line, frame_lines[1]>>
      ELSE settled' = settled /\ scan_line' = line /\ frame_lines' = frame_lines
  BY <1>1, <1>5, HistoryMoves
<1>7. crtc.char_cnt \in Nat /\ regs.horz_total \in Nat /\ crtc.char_cnt <= regs.horz_total
  BY <1>3, <1>4, RegsAreNat DEF CrtcType, Numbers, Position
<1>8. CASE ~turns
  <2>1. ~f.start_of_frame /\ Position(f, regs, s) /\ f.char_cnt = crtc.char_cnt + 1
    BY <1>3, <1>4, <1>7, <1>8, LineGoesOn DEF f
  <2> QED
    BY <1>1, <1>6, <1>8, <2>1 DEF Moves
<1>9. CASE turns /\ ~FrameEnds(d, regs)
  <2>1. ~f.start_of_frame /\ CrtcType(f) /\ f.char_cnt = 0 /\ Position(f, regs, s + 1)
    BY <1>3, <1>4, <1>9, LineBegins DEF f, d
  <2>2. s + 1 < FrameLines(regs)
    BY <1>3, <2>1, PlainFrame
  <2> QED
    BY <1>1, <1>6, <1>9, <2>1, <2>2 DEF Moves
<1>10. CASE turns /\ FrameEnds(d, regs)
  <2>1. f.start_of_frame /\ f.char_cnt = 0 /\ Position(f, regs, 0)
    BY <1>3, <1>10, FrameBegins DEF f, d
  <2>2. s + 1 = FrameLength(regs, crtc.odd_count)
    BY <1>3, <1>4, <1>10, FrameHasLength DEF d
  <2>3. s + 1 = FrameLines(regs)
    BY <1>3, <2>2 DEF FrameLength
  <2>4. ~(s + 1 < FrameLines(regs))
    BY <1>3, <2>3
  <2> QED
    BY <1>1, <1>6, <1>10, <2>1, <2>3, <2>4 DEF Moves
<1> QED
  BY <1>8, <1>9, <1>10

\* The horizontal pulse is where the registers say, or it is the rest of one that
\* began before they were left alone.
GoodH(c, r) ==
  /\ c.h_sync <=> r.hsync_pos < c.char_cnt /\ c.char_cnt <= r.hsync_pos + r.hsync_width
  /\ c.h_sync => c.hsync_width_cnt = c.char_cnt - r.hsync_pos - 1
StaleH(c, r, s) ==
  IF c.h_sync
  THEN \E n \in Nat : /\ 1 <= n /\ n + s <= WidthModulus
                      /\ c.hsync_width_cnt + n \in {r.hsync_width, r.hsync_width + WidthModulus}
  ELSE r.hsync_pos < c.char_cnt /\ c.char_cnt <= r.hsync_pos + r.hsync_width /\ s < WidthModulus
HInv ==
  settled >= 1 /\ Regular(regs) /\ ~Interlaced(regs) =>
    \/ GoodH(crtc, regs)
    \/ settled = 1 /\ StaleH(crtc, regs, scan_line)

\* A horizontal pulse after one character.
LEMMA GoodStep ==
  ASSUME NEW c, NEW r, CrtcType(c), Fits(r), Regular(r), GoodH(c, r), NEW f,
         c.char_cnt <= r.horz_total,
         f.char_cnt = IF c.char_cnt = r.horz_total THEN 0 ELSE c.char_cnt + 1,
         f.h_sync <=> (c.h_sync /\ Wide(c) # r.hsync_width) \/ HsyncBegins(c, r),
         f.hsync_width_cnt = IF HsyncBegins(c, r) THEN 0
                             ELSE IF c.h_sync THEN Wide(c) ELSE c.hsync_width_cnt
  PROVE  /\ GoodH(f, r)
         /\ c.h_sync /\ ~f.h_sync <=> c.char_cnt = r.hsync_pos + r.hsync_width
<1>1. /\ c.char_cnt \in Nat /\ c.hsync_width_cnt \in Nat /\ r.hsync_pos \in Nat /\ r.hsync_width \in Nat
      /\ r.hsync_width < WidthModulus /\ WidthModulus \in Nat \ {0} /\ r.horz_total \in Nat
      /\ 1 <= r.hsync_width /\ r.hsync_pos + r.hsync_width <= r.horz_total
  BY RegsAreNat, SizesAre DEF CrtcType, Numbers, Sizes, Regular
<1>2. c.h_sync => Wide(c) = c.char_cnt - r.hsync_pos
  <2> SUFFICES ASSUME c.h_sync PROVE Wide(c) = c.char_cnt - r.hsync_pos
    OBVIOUS
  <2> DEFINE n == c.char_cnt - r.hsync_pos
  <2>1. n \in Nat /\ n < WidthModulus /\ c.hsync_width_cnt + 1 = n
    BY <1>1 DEF GoodH
  <2> HIDE DEF n
  <2>2. n % WidthModulus = n
    BY <1>1, <2>1
  <2> QED
    BY <2>1, <2>2 DEF Wide, n
<1>3. HsyncBegins(c, r) <=> c.char_cnt = r.hsync_pos
  BY <1>1 DEF HsyncBegins, GoodH
<1>4. c.h_sync /\ Wide(c) = r.hsync_width <=> c.char_cnt = r.hsync_pos + r.hsync_width
  BY <1>1, <1>2 DEF GoodH
<1>5. f.h_sync <=> r.hsync_pos <= c.char_cnt /\ c.char_cnt < r.hsync_pos + r.hsync_width
  BY <1>1, <1>3, <1>4 DEF GoodH
<1>6. f.h_sync <=> r.hsync_pos < f.char_cnt /\ f.char_cnt <= r.hsync_pos + r.hsync_width
  BY <1>1, <1>5
<1>7. f.h_sync => f.hsync_width_cnt = f.char_cnt - r.hsync_pos - 1
  BY <1>1, <1>2, <1>3, <1>5 DEF GoodH
<1>8. c.h_sync /\ ~f.h_sync <=> c.char_cnt = r.hsync_pos + r.hsync_width
  BY <1>1, <1>5 DEF GoodH
<1> QED
  BY <1>6, <1>7, <1>8 DEF GoodH

\* The rest of an earlier pulse after one character; it ends, or counts on.
LEMMA StaleStep ==
  ASSUME NEW c, NEW r, CrtcType(c), Fits(r), Regular(r), NEW s \in Nat, StaleH(c, r, s), NEW f,
         c.char_cnt <= r.horz_total, Widths(c),
         f.char_cnt = IF c.char_cnt = r.horz_total THEN 0 ELSE c.char_cnt + 1,
         f.h_sync <=> (c.h_sync /\ Wide(c) # r.hsync_width) \/ HsyncBegins(c, r),
         f.hsync_width_cnt = IF HsyncBegins(c, r) THEN 0
                             ELSE IF c.h_sync THEN Wide(c) ELSE c.hsync_width_cnt
  PROVE  GoodH(f, r) \/ StaleH(f, r, IF c.char_cnt = r.horz_total THEN s + 1 ELSE s)
<1>1. /\ c.char_cnt \in Nat /\ c.hsync_width_cnt \in Nat /\ r.hsync_pos \in Nat /\ r.hsync_width \in Nat
      /\ r.hsync_width < WidthModulus /\ WidthModulus \in Nat \ {0} /\ r.horz_total \in Nat
      /\ 1 <= r.hsync_width /\ r.hsync_pos + r.hsync_width <= r.horz_total
      /\ c.hsync_width_cnt < WidthModulus
  BY RegsAreNat, SizesAre DEF CrtcType, Numbers, Sizes, Regular, Widths
<1> DEFINE t == IF c.char_cnt = r.horz_total THEN s + 1 ELSE s
<1>2. CASE c.h_sync
  <2>1. PICK n \in Nat : /\ 1 <= n /\ n + s <= WidthModulus
                         /\ c.hsync_width_cnt + n \in {r.hsync_width, r.hsync_width + WidthModulus}
    BY <1>2 DEF StaleH
  <2>2. Wide(c) = IF c.hsync_width_cnt + 1 = WidthModulus THEN 0 ELSE c.hsync_width_cnt + 1
    BY <1>1 DEF Wide
  <2>3. Wide(c) = r.hsync_width <=> n = 1
    BY <1>1, <2>1, <2>2
  <2>4. CASE n = 1
    <3>1. ~(c.h_sync /\ Wide(c) # r.hsync_width)
      BY <2>3, <2>4
    <3>2. HsyncBegins(c, r) <=> c.char_cnt = r.hsync_pos
      BY <3>1 DEF HsyncBegins
    <3>3. CASE c.char_cnt = r.hsync_pos
      <4>1. GoodH(f, r)
        BY <1>1, <3>1, <3>2, <3>3 DEF GoodH
      <4> QED
        BY <4>1
    <3>4. CASE c.char_cnt # r.hsync_pos
      <4>1. ~f.h_sync
        BY <3>1, <3>2, <3>4
      <4>2. CASE r.hsync_pos < f.char_cnt /\ f.char_cnt <= r.hsync_pos + r.hsync_width
        <5>1. t < WidthModulus
          BY <1>1, <2>1, <4>2
        <5> HIDE DEF t
        <5>2. StaleH(f, r, t)
          BY <4>1, <4>2, <5>1 DEF StaleH
        <5> QED
          BY <5>2 DEF t
      <4>3. CASE ~(r.hsync_pos < f.char_cnt /\ f.char_cnt <= r.hsync_pos + r.hsync_width)
        BY <4>1, <4>3 DEF GoodH
      <4> QED
        BY <4>2, <4>3
    <3> QED
      BY <3>3, <3>4
  <2>5. CASE n # 1
    <3>1. ~HsyncBegins(c, r) /\ f.h_sync /\ f.hsync_width_cnt = Wide(c)
      BY <1>2, <2>3, <2>5 DEF HsyncBegins
    <3>2. /\ n - 1 \in Nat /\ 1 <= n - 1 /\ (n - 1) + t <= WidthModulus
          /\ Wide(c) + (n - 1) \in {r.hsync_width, r.hsync_width + WidthModulus}
      BY <1>1, <2>1, <2>2, <2>5
    <3> HIDE DEF t
    <3>3. StaleH(f, r, t)
      BY <3>1, <3>2 DEF StaleH
    <3> QED
      BY <3>3 DEF t
  <2> QED
    BY <2>4, <2>5
<1>3. CASE ~c.h_sync
  <2>1. r.hsync_pos < c.char_cnt /\ c.char_cnt <= r.hsync_pos + r.hsync_width /\ s < WidthModulus
    BY <1>3 DEF StaleH
  <2>2. ~f.h_sync
    BY <1>1, <1>3, <2>1 DEF HsyncBegins
  <2>3. CASE r.hsync_pos < f.char_cnt /\ f.char_cnt <= r.hsync_pos + r.hsync_width
    <3>1. t < WidthModulus
      BY <1>1, <2>1, <2>3
    <3> HIDE DEF t
    <3>2. StaleH(f, r, t)
      BY <2>2, <2>3, <3>1 DEF StaleH
    <3> QED
      BY <3>2 DEF t
  <2>4. CASE ~(r.hsync_pos < f.char_cnt /\ f.char_cnt <= r.hsync_pos + r.hsync_width)
    BY <2>2, <2>4 DEF GoodH
  <2> QED
    BY <2>3, <2>4
<1> QED
  BY <1>2, <1>3

\* The first frame after a write begins.
LEMMA FirstFrame ==
  ASSUME VideoType, maybe_drive_crtc, settled = 0, settled' >= 1, Regular(regs)
  PROVE  /\ settled' = 1 /\ scan_line' = 0 /\ crtc'.char_cnt = 0 /\ Position(crtc', regs, 0)
         /\ crtc.char_cnt = regs.horz_total /\ FrameEnds(Character(crtc, regs), regs)
<1>1. crtc' = Tick(crtc, regs) /\ Remember
  BY CharacterIsTick
<1>2. crtc'.start_of_frame /\ settled' = 1 /\ scan_line' = 0
  BY <1>1 DEF Remember
<1>3. CrtcType(crtc) /\ Fits(regs) /\ (crtc.end_of_frame => crtc.end_of_v_adj)
  BY DEF VideoType
<1>4. crtc.char_cnt = regs.horz_total /\ FrameEnds(Character(crtc, regs), regs)
  BY <1>1, <1>2, <1>3, AnyCharacter
<1>5. crtc'.char_cnt = 0 /\ Position(crtc', regs, 0)
  BY <1>1, <1>3, <1>4, FrameBegins
<1> QED
  BY <1>2, <1>4, <1>5

\* What a character does with the horizontal pulse.
LEMMA CharacterPulses ==
  ASSUME VideoType, maybe_drive_crtc
  PROVE  /\ regs' = regs /\ CrtcType(crtc) /\ CrtcType(crtc') /\ Fits(regs)
         /\ crtc'.h_sync <=> (crtc.h_sync /\ Wide(crtc) # regs.hsync_width) \/ HsyncBegins(crtc, regs)
         /\ crtc'.hsync_width_cnt = IF HsyncBegins(crtc, regs) THEN 0
                                    ELSE IF crtc.h_sync THEN Wide(crtc) ELSE crtc.hsync_width_cnt
<1>1. CrtcType(crtc) /\ Fits(regs) /\ (crtc.end_of_frame => crtc.end_of_v_adj)
  BY DEF VideoType
<1>2. crtc' = Tick(crtc, regs) /\ regs' = regs
  BY CharacterIsTick
<1>3. CrtcType(crtc')
  BY <1>1, <1>2, AnyCharacter
<1>4. /\ crtc'.h_sync <=> (crtc.h_sync /\ Wide(crtc) # regs.hsync_width) \/ HsyncBegins(crtc, regs)
      /\ crtc'.hsync_width_cnt = IF HsyncBegins(crtc, regs) THEN 0
                                 ELSE IF crtc.h_sync THEN Wide(crtc) ELSE crtc.hsync_width_cnt
  BY <1>1, <1>2, PulsesMove
<1> QED
  BY <1>1, <1>2, <1>3, <1>4

\* A character keeps the horizontal pulse in its place.
LEMMA CharacterKeepsHsync ==
  VideoType /\ FrameInv /\ WidthsInv /\ HInv /\ maybe_drive_crtc => HInv'
<1> SUFFICES ASSUME VideoType, FrameInv, WidthsInv, HInv, maybe_drive_crtc PROVE HInv'
  OBVIOUS
<1>1. regs' = regs
  BY CharacterPulses
<1> SUFFICES ASSUME settled' >= 1, Regular(regs), ~Interlaced(regs)
             PROVE  GoodH(crtc', regs) \/ (settled' = 1 /\ StaleH(crtc', regs, scan_line'))
  BY <1>1 DEF HInv
<1>2. /\ CrtcType(crtc) /\ CrtcType(crtc') /\ Fits(regs)
      /\ crtc'.h_sync <=> (crtc.h_sync /\ Wide(crtc) # regs.hsync_width) \/ HsyncBegins(crtc, regs)
      /\ crtc'.hsync_width_cnt = IF HsyncBegins(crtc, regs) THEN 0
                                 ELSE IF crtc.h_sync THEN Wide(crtc) ELSE crtc.hsync_width_cnt
  BY CharacterPulses
<1>3. settled \in 0..4 /\ scan_line \in Nat
  BY DEF VideoType
<1>4. CASE settled = 0
  <2>1. settled' = 1 /\ scan_line' = 0 /\ crtc'.char_cnt = 0
    BY <1>4, FirstFrame
  <2>2. Widths(crtc')
    BY <1>2, CharacterIsTick, WidthsStep DEF WidthsInv
  <2> DEFINE c == crtc'
             w == regs.hsync_width
             n == IF c.hsync_width_cnt < w THEN w - c.hsync_width_cnt
                  ELSE w + WidthModulus - c.hsync_width_cnt
  <2>3. /\ c.hsync_width_cnt \in Nat /\ w \in Nat /\ 1 <= w /\ w < WidthModulus /\ WidthModulus \in Nat
        /\ c.hsync_width_cnt < WidthModulus /\ regs.hsync_pos \in Nat
    BY <1>2, <2>2, RegsAreNat, SizesAre DEF CrtcType, Numbers, Sizes, Regular, Widths
  <2> HIDE DEF c, w
  <2>4. n \in Nat /\ 1 <= n /\ n + 0 <= WidthModulus /\ c.hsync_width_cnt + n \in {w, w + WidthModulus}
    BY <2>3
  <2> HIDE DEF n
  <2>5. crtc'.h_sync => StaleH(crtc', regs, 0)
    BY <2>4 DEF StaleH, c, w
  <2>6. ~crtc'.h_sync => GoodH(crtc', regs)
    BY <2>1, <2>3 DEF GoodH
  <2> QED
    BY <2>1, <2>5, <2>6
<1>5. CASE settled >= 1
  <2>1. Moves /\ Position(crtc, regs, scan_line)
    BY <1>5, CharacterMoves DEF FrameInv
  <2>2. crtc.char_cnt <= regs.horz_total
    BY <2>1 DEF Position
  <2>3. crtc'.char_cnt = IF crtc.char_cnt = regs.horz_total THEN 0 ELSE crtc.char_cnt + 1
    BY <2>1 DEF Moves
  <2>4. CASE GoodH(crtc, regs)
    BY <1>2, <2>2, <2>3, <2>4, GoodStep
  <2>5. CASE settled = 1 /\ StaleH(crtc, regs, scan_line)
    <3> DEFINE t == IF crtc.char_cnt = regs.horz_total THEN scan_line + 1 ELSE scan_line
    <3>1. GoodH(crtc', regs) \/ StaleH(crtc', regs, t)
      BY <1>2, <1>3, <2>2, <2>3, <2>5, StaleStep DEF WidthsInv
    <3>2. CASE scan_line' = t /\ settled' = settled
      BY <2>5, <3>1, <3>2
    <3>3. CASE ~(scan_line' = t /\ settled' = settled)
      <4>1. t = FrameLines(regs) /\ crtc'.char_cnt = 0
        BY <2>1, <3>3 DEF Moves
      <4>2. /\ WidthModulus < FrameLines(regs) /\ WidthModulus \in Nat /\ FrameLines(regs) \in Nat
            /\ regs.hsync_pos \in Nat
        BY <1>2, FrameIs, RegsAreNat, SizesAre DEF Regular, Sizes
      <4>3. ~StaleH(crtc', regs, t)
        BY <4>1, <4>2 DEF StaleH
      <4> QED
        BY <3>1, <4>3
    <3> QED
      BY <3>2, <3>3
  <2> QED
    BY <1>5, <2>4, <2>5 DEF HInv
<1> QED
  BY <1>3, <1>4, <1>5

\* So does every step.
LEMMA HsyncStepKeeps == VideoType /\ FrameInv /\ WidthsInv /\ HInv /\ [Next]_vars => HInv'
<1> SUFFICES ASSUME VideoType, FrameInv, WidthsInv, HInv, [Next]_vars PROVE HInv'
  OBVIOUS
<1>1. CASE UNCHANGED <<regs, crtc, settled, scan_line, frame_lines>>
  BY <1>1 DEF HInv
<1>2. CASE Devices
  <2>1. CASE settled' = 0
    BY <2>1 DEF HInv
  <2>2. CASE UNCHANGED <<regs, crtc, todo, historyVars>>
    BY <1>1, <2>2 DEF historyVars
  <2> QED
    BY <1>2, <2>1, <2>2 DEF Devices
<1>3. NotClocked \/ UlaWrite \/ consume_frame \/ UNCHANGED vars
        => UNCHANGED <<regs, crtc, settled, scan_line, frame_lines>>
  BY OtherSteps
<1> QED
  BY <1>1, <1>2, <1>3, CharacterKeepsHsync DEF Next, Worker

-----------------------------------------------------------------------------
(***************************************************************************)
(* Vertical sync. In the first frame after a write any pulse may still be  *)
(* under way; it ends before the row of the next one, and from then on the *)
(* pulse is where the registers say.                                       *)
(***************************************************************************)
\* The lines since the pulse began in this frame or the one before.
Since(r, s, n) ==
  IF s > VLine(r) \/ (s = VLine(r) /\ n >= 1) THEN s - VLine(r) ELSE s + FrameLines(r) - VLine(r)

\* The vertical pulse is where the registers say.
GoodV(c, r, s) ==
  LET x == Since(r, s, c.char_cnt)
  IN /\ c.v_sync <=> x < r.vsync_width \/ (x = r.vsync_width /\ c.char_cnt = 0)
     /\ c.v_sync => c.vsync_width_cnt = x
     /\ c.line_cnt = r.vsync_pos => (c.had_vsync <=> ~(s = VLine(r) /\ c.char_cnt = 0))
\* A pulse that began before the registers were left alone ends; n counts the
\* lines of both frames.
Fading(c, r, n) ==
  c.v_sync => \E k \in Nat :
    /\ c.vsync_width_cnt + k \in {r.vsync_width, r.vsync_width + WidthModulus}
    /\ c.char_cnt > 0 => k >= 1
    /\ n + k < VLine(r) + ScanLinesPerRow(r) + WidthModulus

\* Whether the pulse of the t-th frame has begun, and the lines of both frames so far.
Begun(r, t, s, n) == t >= 3 \/ (t = 2 /\ (s > VLine(r) \/ (s = VLine(r) /\ n >= 1)))
LinesSeen(r, t, s) == IF t = 1 THEN s ELSE s + FrameLines(r)

\* Before that an earlier pulse fades, from then on the pulse is in its place.
VPhase(c, r, t, s) ==
  /\ s = VLine(r) /\ c.char_cnt = 0 => ~c.had_vsync
  /\ IF Begun(r, t, s, c.char_cnt) THEN GoodV(c, r, s)
     ELSE LinesSeen(r, t, s) >= VLine(r) + ScanLinesPerRow(r) => Fading(c, r, LinesSeen(r, t, s))

\* And so it is in every state.
VInv ==
  settled >= 1 /\ Regular(regs) /\ ~Interlaced(regs) /\ PulsesApart(regs) =>
    VPhase(crtc, regs, settled, scan_line)

\* The numbers of a frame with a pulse.
LEMMA PulseNumbers ==
  ASSUME NEW r, Fits(r), Regular(r), PulsesApart(r)
  PROVE  /\ VLine(r) \in Nat /\ FrameLines(r) \in Nat /\ ScanLinesPerRow(r) \in Nat \ {0}
         /\ VLine(r) + ScanLinesPerRow(r) <= FrameLines(r)
         /\ r.vsync_width \in Nat /\ 1 <= r.vsync_width /\ r.vsync_width < WidthModulus
         /\ WidthModulus \in Nat \ {0} /\ WidthModulus + ScanLinesPerRow(r) < FrameLines(r)
         /\ r.horz_total \in Nat /\ 2 <= r.horz_total
<1>1. /\ r.vsync_width \in Nat /\ 1 <= r.vsync_width /\ r.vsync_width < WidthModulus
      /\ WidthModulus \in Nat \ {0} /\ WidthModulus + ScanLinesPerRow(r) < FrameLines(r)
      /\ r.horz_total \in Nat /\ 2 <= r.horz_total /\ r.vsync_pos \in Nat /\ r.vert_total \in Nat
      /\ r.vsync_pos < r.vert_total + 1 /\ r.vert_adj \in Nat
  BY RegsAreNat, SizesAre DEF Regular, PulsesApart, Sizes
<1>2. RowStart(r, r.vsync_pos) + ScanLinesPerRow(r) <= MainLines(r)
  BY <1>1, RowsFollow DEF MainLines
<1>3. VLine(r) \in Nat /\ ScanLinesPerRow(r) \in Nat \ {0}
  BY <1>1, RowStarts, LinesAre DEF VLine
<1>4. MainLines(r) \in Nat /\ FrameLines(r) \in Nat /\ FrameLines(r) = MainLines(r) + r.vert_adj
  BY FrameIs
<1> QED
  BY <1>1, <1>2, <1>3, <1>4 DEF VLine

\* How a state moves to the next one, as far as vertical sync is concerned:
\* c at line s of the t-th frame to f at line s2 of the t2-th.
Turns(c, r) == c.char_cnt = r.horz_total
MovesTo(c, t, s, f, t2, s2, r) ==
  IF ~Turns(c, r) THEN f.char_cnt = c.char_cnt + 1 /\ s2 = s /\ t2 = t
  ELSE /\ f.char_cnt = 0
       /\ IF s + 1 < FrameLines(r) THEN s2 = s + 1 /\ t2 = t
          ELSE s + 1 = FrameLines(r) /\ s2 = 0 /\ t2 = IF t < 4 THEN t + 1 ELSE 4

\* How vertical sync moves with the character.
PulseWidth(c, r) == IF VsyncBegins(c, r) THEN 0 ELSE c.vsync_width_cnt
PulseMoves(c, f, s2, r) ==
  /\ f.v_sync <=> VsyncStarting(c, r) \/ (c.v_sync /\ ~VsyncEnding(c, r))
  /\ f.vsync_width_cnt = IF Turns(c, r) THEN (PulseWidth(c, r) + 1) % WidthModulus ELSE PulseWidth(c, r)
  /\ \E ends \in BOOLEAN :
       /\ f.had_vsync <=> (c.had_vsync \/ VsyncBegins(c, r)) /\ ~(Turns(c, r) /\ ends)
       /\ Turns(c, r) /\ ~ends => f.line_cnt = c.line_cnt /\ s2 # 0
       /\ Turns(c, r) /\ ends => f.raster_cnt = 0

\* The pulse begins where a row of its own begins.
LEMMA NotYetHad ==
  ASSUME NEW c, NEW f, NEW r, NEW s \in Nat, NEW s2 \in Nat, NEW t \in 1..4, NEW t2,
         CrtcType(c), CrtcType(f), Fits(r), Regular(r), PulsesApart(r), ~Interlaced(r),
         Position(c, r, s), Position(f, r, s2), MovesTo(c, t, s, f, t2, s2, r), PulseMoves(c, f, s2, r),
         s2 = VLine(r), f.char_cnt = 0
  PROVE  ~f.had_vsync
<1>1. PICK ends \in BOOLEAN :
       /\ f.had_vsync <=> (c.had_vsync \/ VsyncBegins(c, r)) /\ ~(Turns(c, r) /\ ends)
       /\ Turns(c, r) /\ ~ends => f.line_cnt = c.line_cnt /\ s2 # 0
  BY DEF PulseMoves
<1>2. c.char_cnt \in Nat
  BY DEF CrtcType, Numbers
<1>3. Turns(c, r)
  BY <1>2 DEF MovesTo
<1>4. CASE ~ends
  <2>1. f.line_cnt = c.line_cnt /\ s2 = s + 1
    BY <1>1, <1>3, <1>4 DEF MovesTo
  <2>2. f.line_cnt = r.vsync_pos
    BY PulseRow, PulseNumbers
  <2>3. VLine(r) <= s /\ VLine(r) \in Nat
    BY <2>1, <2>2, PulseRow
  <2> QED
    BY <2>1, <2>3
<1> QED
  BY <1>1, <1>3, <1>4

\* A pulse in its place after one character.
LEMMA GoodVStep ==
  ASSUME NEW c, NEW f, NEW r, NEW s \in Nat, NEW s2 \in Nat, NEW t \in 1..4, NEW t2,
         CrtcType(c), CrtcType(f), Fits(r), Regular(r), PulsesApart(r), ~Interlaced(r),
         Position(c, r, s), Position(f, r, s2), MovesTo(c, t, s, f, t2, s2, r), PulseMoves(c, f, s2, r),
         GoodV(c, r, s)
  PROVE  /\ GoodV(f, r, s2)
         /\ c.v_sync /\ ~f.v_sync <=> Since(r, s, c.char_cnt) = r.vsync_width /\ c.char_cnt = 0
         /\ f.v_sync /\ ~c.v_sync => s = VLine(r) /\ c.char_cnt = 0
<1> DEFINE V == VLine(r)
           F == FrameLines(r)
           L == ScanLinesPerRow(r)
           W == WidthModulus
           w == r.vsync_width
           n == c.char_cnt
           x == Since(r, s, n)
           y == Since(r, s2, f.char_cnt)
           starts == s = V /\ n = 0
<1>1. /\ V \in Nat /\ F \in Nat /\ L \in Nat \ {0} /\ V + L <= F /\ w \in Nat /\ 1 <= w /\ w < W
      /\ W \in Nat \ {0} /\ W + L < F /\ r.horz_total \in Nat /\ 2 <= r.horz_total
  BY PulseNumbers
<1>2. n \in Nat /\ n <= r.horz_total /\ c.vsync_width_cnt \in Nat
  BY DEF CrtcType, Numbers, Position
<1>3. s < F /\ s2 < F
  BY PlainFrame
<1>4. /\ c.line_cnt = r.vsync_pos <=> V <= s /\ s < V + L
      /\ f.line_cnt = r.vsync_pos <=> V <= s2 /\ s2 < V + L
      /\ f.line_cnt = r.vsync_pos => f.raster_cnt = RasterOf(r, s2 - V)
  BY PulseRow
<1>5. /\ c.v_sync <=> x < w \/ (x = w /\ n = 0)
      /\ c.v_sync => c.vsync_width_cnt = x
      /\ c.line_cnt = r.vsync_pos => (c.had_vsync <=> ~starts)
  BY DEF GoodV
<1>6. IF ~Turns(c, r) THEN f.char_cnt = n + 1 /\ s2 = s
      ELSE f.char_cnt = 0 /\ n = r.horz_total /\ (s2 = s + 1 \/ (s2 = 0 /\ s + 1 = F))
  BY DEF MovesTo, Turns
<1>7. /\ x = IF s > V \/ (s = V /\ n >= 1) THEN s - V ELSE s + F - V
      /\ y = IF s2 > V \/ (s2 = V /\ f.char_cnt >= 1) THEN s2 - V ELSE s2 + F - V
  BY DEF Since
<1>8. MayTrigger(c, r)
  BY DEF MayTrigger
<1>9. /\ VsyncEnding(c, r) <=> c.v_sync /\ c.vsync_width_cnt = w
      /\ VsyncStarting(c, r) <=> /\ c.line_cnt = r.vsync_pos /\ (~c.v_sync \/ VsyncEnding(c, r))
                                 /\ ~c.had_vsync
  BY <1>8 DEF VsyncEnding, VsyncStarting
<1>10. PICK ends \in BOOLEAN :
       /\ f.had_vsync <=> (c.had_vsync \/ VsyncBegins(c, r)) /\ ~(Turns(c, r) /\ ends)
       /\ Turns(c, r) /\ ~ends => f.line_cnt = c.line_cnt /\ s2 # 0
       /\ Turns(c, r) /\ ends => f.raster_cnt = 0
  BY DEF PulseMoves
<1>11. /\ f.v_sync <=> VsyncStarting(c, r) \/ (c.v_sync /\ ~VsyncEnding(c, r))
       /\ f.vsync_width_cnt = IF Turns(c, r) THEN (PulseWidth(c, r) + 1) % W ELSE PulseWidth(c, r)
  BY DEF PulseMoves
<1> HIDE DEF V, F, L, W, w, n, x, y, starts
<1>12. CASE starts
  <2>1. s = V /\ n = 0 /\ x = F /\ ~Turns(c, r)
    BY <1>1, <1>2, <1>7, <1>12 DEF starts, Turns, n
  <2>2. s2 = V /\ f.char_cnt = 1 /\ y = 0
    BY <1>1, <1>6, <1>7, <2>1
  <2>3. ~c.v_sync /\ VsyncStarting(c, r) /\ VsyncBegins(c, r)
    BY <1>1, <1>4, <1>5, <1>9, <1>12, <2>1 DEF VsyncBegins
  <2>4. f.v_sync /\ f.vsync_width_cnt = 0 /\ f.had_vsync
    BY <1>10, <1>11, <2>1, <2>3 DEF PulseWidth
  <2>5. GoodV(f, r, s2)
    BY <1>1, <2>2, <2>4 DEF GoodV, y, w, V
  <2> QED
    BY <1>1, <2>1, <2>3, <2>4, <2>5 DEF x, w, n, V
<1>13. CASE ~starts
  <2>1. ~VsyncStarting(c, r) /\ ~VsyncBegins(c, r)
    BY <1>5, <1>9, <1>13 DEF VsyncBegins
  <2>2. x \in Nat /\ y \in Nat /\ y = (IF Turns(c, r) THEN x + 1 ELSE x)
    <3>1. s # V \/ n >= 1
      BY <1>2, <1>13 DEF starts
    <3> QED
      BY <1>1, <1>2, <1>3, <1>6, <1>7, <3>1
  <2>3. f.v_sync <=> x < w
    BY <1>1, <1>5, <1>9, <1>11, <2>1, <2>2
  <2>4. f.v_sync <=> y < w \/ (y = w /\ f.char_cnt = 0)
    BY <1>1, <1>2, <1>6, <2>2, <2>3
  <2>5. f.v_sync => f.vsync_width_cnt = y
    <3> SUFFICES ASSUME f.v_sync PROVE f.vsync_width_cnt = y
      OBVIOUS
    <3>1. x < w /\ c.vsync_width_cnt = x /\ PulseWidth(c, r) = x
      BY <1>5, <2>1, <2>3 DEF PulseWidth
    <3>2. (x + 1) % W = x + 1
      BY <1>1, <2>2, <3>1
    <3> QED
      BY <1>11, <2>2, <3>1, <3>2
  <2>6. f.line_cnt = r.vsync_pos => (f.had_vsync <=> ~(s2 = V /\ f.char_cnt = 0))
    <3> SUFFICES ASSUME f.line_cnt = r.vsync_pos
                 PROVE  f.had_vsync <=> ~(s2 = V /\ f.char_cnt = 0)
      OBVIOUS
    <3>1. CASE ~Turns(c, r)
      BY <1>2, <1>4, <1>5, <1>6, <1>10, <1>13, <3>1
    <3>2. CASE Turns(c, r) /\ ends
      <4>1. RasterOf(r, s2 - V) = 0 /\ V <= s2
        BY <1>4, <1>10, <3>2
      <4>2. s2 = V
        BY <1>1, <4>1 DEF RasterOf
      <4> QED
        BY <1>6, <1>10, <3>2, <4>2
    <3>3. CASE Turns(c, r) /\ ~ends
      <4>1. c.had_vsync /\ V <= s /\ s2 = s + 1
        BY <1>4, <1>5, <1>6, <1>10, <1>13, <3>3
      <4> QED
        BY <1>1, <1>10, <3>3, <4>1
    <3> QED
      BY <3>1, <3>2, <3>3
  <2>7. GoodV(f, r, s2)
    BY <2>4, <2>5, <2>6 DEF GoodV, y, w, V
  <2>8. c.v_sync /\ ~f.v_sync <=> x = w /\ n = 0
    BY <1>1, <1>5, <2>2, <2>3
  <2>9. f.v_sync => c.v_sync
    BY <1>5, <2>3
  <2> QED
    BY <2>7, <2>8, <2>9 DEF x, w, n
<1> QED
  BY <1>12, <1>13

\* An earlier pulse is a line closer to its end after each line.
LEMMA FadingStep ==
  ASSUME NEW c, NEW f, NEW r, NEW s \in Nat, NEW s2 \in Nat, NEW m \in Nat, NEW t \in 1..4, NEW t2,
         CrtcType(c), Widths(c), CrtcType(f), Fits(r), Regular(r), PulsesApart(r), ~Interlaced(r),
         Position(c, r, s), Position(f, r, s2), MovesTo(c, t, s, f, t2, s2, r), PulseMoves(c, f, s2, r),
         Fading(c, r, m), c.line_cnt # r.vsync_pos
  PROVE  Fading(f, r, IF Turns(c, r) THEN m + 1 ELSE m)
<1> DEFINE W == WidthModulus
           w == r.vsync_width
           n == c.char_cnt
           l == IF Turns(c, r) THEN m + 1 ELSE m
           limit == VLine(r) + ScanLinesPerRow(r) + W
<1>1. /\ w \in Nat /\ 1 <= w /\ w < W /\ W \in Nat \ {0} /\ limit \in Nat /\ 2 <= r.horz_total
  BY PulseNumbers
<1>2. n \in Nat /\ c.vsync_width_cnt \in Nat /\ c.vsync_width_cnt < W
  BY DEF CrtcType, Numbers, Widths
<1>3. MayTrigger(c, r)
  BY DEF MayTrigger
<1>4. ~VsyncStarting(c, r) /\ (VsyncEnding(c, r) <=> c.v_sync /\ c.vsync_width_cnt = w)
      /\ ~VsyncBegins(c, r)
  BY <1>3 DEF VsyncEnding, VsyncStarting, VsyncBegins
<1>5. /\ f.v_sync <=> c.v_sync /\ c.vsync_width_cnt # w
      /\ f.vsync_width_cnt = IF Turns(c, r) THEN (c.vsync_width_cnt + 1) % W ELSE c.vsync_width_cnt
  BY <1>4 DEF PulseMoves, PulseWidth
<1>6. f.char_cnt = IF Turns(c, r) THEN 0 ELSE n + 1
  BY DEF MovesTo
<1> SUFFICES ASSUME f.v_sync
             PROVE  \E k \in Nat : /\ f.vsync_width_cnt + k \in {w, w + W}
                                   /\ f.char_cnt > 0 => k >= 1
                                   /\ l + k < limit
  BY DEF Fading
<1>7. PICK k \in Nat : c.vsync_width_cnt + k \in {w, w + W} /\ m + k < limit
  BY <1>5 DEF Fading
<1> HIDE DEF W, w, n, limit, l
<1>8. k >= 1
  BY <1>1, <1>2, <1>5, <1>7
<1>9. CASE ~Turns(c, r)
  <2>1. f.vsync_width_cnt + k \in {w, w + W} /\ l + k < limit
    BY <1>5, <1>7, <1>9 DEF l
  <2> QED
    BY <1>8, <2>1
<1>10. CASE Turns(c, r)
  <2>1. (c.vsync_width_cnt + 1) % W = IF c.vsync_width_cnt + 1 = W THEN 0 ELSE c.vsync_width_cnt + 1
    BY <1>1, <1>2
  <2>2. /\ k - 1 \in Nat /\ f.vsync_width_cnt + (k - 1) \in {w, w + W} /\ l + (k - 1) < limit
    BY <1>1, <1>2, <1>5, <1>7, <1>8, <1>10, <2>1 DEF l
  <2> QED
    BY <1>6, <1>10, <2>2
<1> QED
  BY <1>9, <1>10

\* Any pulse ends within the width of its counter.
LEMMA AnyPulseFades ==
  ASSUME NEW f, NEW r, CrtcType(f), Widths(f), Fits(r), Regular(r), PulsesApart(r), f.char_cnt = 0
  PROVE  Fading(f, r, VLine(r) + ScanLinesPerRow(r))
<1> DEFINE W == WidthModulus
           w == r.vsync_width
           v == f.vsync_width_cnt
           n == VLine(r) + ScanLinesPerRow(r)
           k == IF v <= w THEN w - v ELSE w + W - v
<1>1. /\ w \in Nat /\ 1 <= w /\ w < W /\ W \in Nat \ {0} /\ n \in Nat
  BY PulseNumbers
<1>2. v \in Nat /\ v < W
  BY DEF CrtcType, Numbers, Widths
<1> HIDE DEF W, w, v, n
<1>3. k \in Nat /\ v + k \in {w, w + W} /\ n + k < n + W
  BY <1>1, <1>2
<1> HIDE DEF k
<1>4. \E j \in Nat : v + j \in {w, w + W} /\ (f.char_cnt > 0 => j >= 1) /\ n + j < n + W
  BY <1>3
<1> QED
  BY <1>4 DEF Fading, W, w, v, n

\* Vertical sync after one character of a frame that is not the first.
LEMMA VPhaseStep ==
  ASSUME NEW c, NEW f, NEW r, NEW s \in Nat, NEW s2 \in Nat, NEW t \in 1..4, NEW t2 \in 1..4,
         CrtcType(c), Widths(c), CrtcType(f), Widths(f), Fits(r), Regular(r), PulsesApart(r),
         ~Interlaced(r),
         Position(c, r, s), Position(f, r, s2), MovesTo(c, t, s, f, t2, s2, r), PulseMoves(c, f, s2, r),
         VPhase(c, r, t, s)
  PROVE  /\ VPhase(f, r, t2, s2)
         /\ Begun(r, t, s, c.char_cnt) => Begun(r, t2, s2, f.char_cnt)
<1> DEFINE V == VLine(r)
           F == FrameLines(r)
           L == ScanLinesPerRow(r)
           W == WidthModulus
           n == c.char_cnt
           was == Begun(r, t, s, n)
           is == Begun(r, t2, s2, f.char_cnt)
           m == LinesSeen(r, t, s)
           l == LinesSeen(r, t2, s2)
<1>1. /\ V \in Nat /\ F \in Nat /\ L \in Nat \ {0} /\ V + L <= F
      /\ W \in Nat \ {0} /\ W + L < F /\ r.horz_total \in Nat /\ 2 <= r.horz_total
  BY PulseNumbers
<1>2. n \in Nat /\ n <= r.horz_total /\ c.vsync_width_cnt \in Nat
  BY DEF CrtcType, Numbers, Position
<1>3. s < F /\ s2 < F
  BY PlainFrame
<1>4. c.line_cnt = r.vsync_pos <=> V <= s /\ s < V + L
  BY PulseRow
<1>5. IF ~Turns(c, r) THEN f.char_cnt = n + 1 /\ s2 = s /\ t2 = t
      ELSE /\ f.char_cnt = 0 /\ n = r.horz_total
           /\ \/ s2 = s + 1 /\ t2 = t
              \/ s2 = 0 /\ s + 1 = F /\ t2 = IF t < 4 THEN t + 1 ELSE 4
  BY DEF MovesTo, Turns
<1>6. s2 = V /\ f.char_cnt = 0 => ~f.had_vsync
  BY NotYetHad
<1>7. /\ was <=> t >= 3 \/ (t = 2 /\ (s > V \/ (s = V /\ n >= 1)))
      /\ is <=> t2 >= 3 \/ (t2 = 2 /\ (s2 > V \/ (s2 = V /\ f.char_cnt >= 1)))
      /\ m = IF t = 1 THEN s ELSE s + F
      /\ l = IF t2 = 1 THEN s2 ELSE s2 + F
  BY DEF Begun, LinesSeen
<1>8. /\ was => GoodV(c, r, s)
      /\ ~was /\ m >= V + L => Fading(c, r, m)
      /\ s = V /\ n = 0 => ~c.had_vsync
  BY DEF VPhase
<1> HIDE DEF V, F, L, W, n, was, is, m, l
<1>9. was => is
  BY <1>1, <1>2, <1>5, <1>7
<1>10. ASSUME is PROVE GoodV(f, r, s2)
  <2>1. CASE was
    BY <1>8, <2>1, GoodVStep
  <2>2. CASE ~was
    <3>1. s = V /\ n = 0 /\ t = 2 /\ ~Turns(c, r) /\ s2 = V /\ f.char_cnt = 1
      BY <1>1, <1>2, <1>3, <1>5, <1>7, <1>10, <2>2
    <3>2. m = V + F
      BY <1>1, <1>7, <3>1
    <3>3. Fading(c, r, m)
      BY <1>1, <1>8, <2>2, <3>2
    <3>4. ~c.v_sync
      <4> SUFFICES ASSUME c.v_sync PROVE FALSE
        OBVIOUS
      <4>1. PICK k \in Nat : m + k < VLine(r) + ScanLinesPerRow(r) + WidthModulus
        BY <3>3 DEF Fading
      <4>2. m + k < V + L + W
        BY <4>1 DEF V, L, W
      <4> QED
        BY <1>1, <3>2, <4>2
    <3>5. ~c.had_vsync /\ c.line_cnt = r.vsync_pos
      BY <1>1, <1>4, <1>8, <3>1
    <3>6. MayTrigger(c, r)
      BY DEF MayTrigger
    <3>7. VsyncStarting(c, r) /\ VsyncBegins(c, r)
      BY <3>4, <3>5, <3>6 DEF VsyncStarting, VsyncEnding, VsyncBegins
    <3>8. f.v_sync /\ f.vsync_width_cnt = 0 /\ f.had_vsync
      BY <3>1, <3>7 DEF PulseMoves, PulseWidth
    <3>9. Since(r, s2, f.char_cnt) = 0 /\ 1 <= r.vsync_width /\ r.vsync_width \in Nat
      BY <1>1, <3>1, PulseNumbers DEF Since, V
    <3> QED
      BY <3>1, <3>8, <3>9 DEF GoodV
  <2> QED
    BY <2>1, <2>2
<1>11. ASSUME ~is, l >= V + L PROVE Fading(f, r, l)
  <2>1. l = IF Turns(c, r) THEN m + 1 ELSE m
    BY <1>1, <1>2, <1>3, <1>5, <1>7, <1>11
  <2>2. m \in Nat
    BY <1>1, <1>7
  <2>3. CASE m >= V + L
    <3>1. Fading(c, r, m)
      BY <1>8, <1>9, <1>11, <2>3
    <3>2. c.line_cnt # r.vsync_pos
      BY <1>1, <1>2, <1>3, <1>4, <1>5, <1>7, <1>11, <2>3
    <3>3. Fading(f, r, IF Turns(c, r) THEN m + 1 ELSE m)
      BY <2>2, <3>1, <3>2, FadingStep
    <3> QED
      BY <2>1, <3>3
  <2>4. CASE ~(m >= V + L)
    <3>1. l = V + L /\ f.char_cnt = 0
      BY <1>1, <1>5, <1>11, <2>1, <2>2, <2>4
    <3>2. Fading(f, r, VLine(r) + ScanLinesPerRow(r))
      BY <3>1, AnyPulseFades
    <3> QED
      BY <3>1, <3>2 DEF V, L
  <2> QED
    BY <2>3, <2>4
<1>12. VPhase(f, r, t2, s2)
  BY <1>6, <1>10, <1>11 DEF VPhase, is, l, V, L
<1> QED
  BY <1>9, <1>12 DEF was, is, n

\* A character of the display is such a move.
LEMMA CharacterMovesPulse ==
  ASSUME VideoType, FrameInv, maybe_drive_crtc, settled >= 1, Regular(regs), ~Interlaced(regs)
  PROVE  /\ MovesTo(crtc, settled, scan_line, crtc', settled', scan_line', regs)
         /\ PulseMoves(crtc, crtc', scan_line', regs)
         /\ Position(crtc, regs, scan_line) /\ Position(crtc', regs, scan_line')
         /\ CrtcType(crtc) /\ CrtcType(crtc') /\ Fits(regs)
         /\ settled \in 1..4 /\ settled' \in 1..4 /\ scan_line \in Nat /\ scan_line' \in Nat
<1> DEFINE c == crtc
           f == Tick(crtc, regs)
           ends == FrameEnds(Character(c, regs), regs) \/ RowEnds(Character(c, regs), regs)
<1>1. crtc' = f /\ regs' = regs
  BY CharacterIsTick
<1>2. CrtcType(c) /\ CrtcType(f) /\ Fits(regs) /\ (c.end_of_frame => c.end_of_v_adj)
  BY <1>1, CharacterPulses DEF VideoType
<1>3. Position(c, regs, scan_line)
  BY DEF FrameInv
<1>4. Moves /\ Position(crtc', regs, scan_line')
  BY CharacterMoves
<1>5. settled \in 1..4 /\ scan_line \in Nat /\ settled' \in 1..4 /\ scan_line' \in Nat
  BY <1>4 DEF VideoType, Moves
<1>6. MovesTo(crtc, settled, scan_line, crtc', settled', scan_line', regs)
  BY <1>4 DEF Moves, MovesTo, Turns
<1>7. f.start_of_frame <=> c.char_cnt = regs.horz_total /\ FrameEnds(Character(c, regs), regs)
  BY <1>2, AnyCharacter
<1>8. /\ f.v_sync <=> VsyncStarting(c, regs) \/ (c.v_sync /\ ~VsyncEnding(c, regs))
      /\ f.had_vsync <=> (c.had_vsync \/ VsyncBegins(c, regs)) /\ ~(Turns(c, regs) /\ ends)
      /\ f.vsync_width_cnt = (IF Turns(c, regs) THEN (PulseWidth(c, regs) + 1) % WidthModulus
                              ELSE PulseWidth(c, regs))
      /\ Turns(c, regs) /\ ~ends => f.line_cnt = c.line_cnt
      /\ Turns(c, regs) /\ ends => f.raster_cnt = 0
  BY <1>2, PulsesMove DEF Turns, PulseWidth
<1>9. Turns(c, regs) /\ ~ends => scan_line' # 0
  <2> SUFFICES ASSUME Turns(c, regs), ~ends, scan_line' = 0 PROVE FALSE
    OBVIOUS
  <2>1. crtc'.char_cnt = 0
    BY <1>6 DEF MovesTo
  <2>2. crtc'.start_of_frame
    BY <1>4, <2>1 DEF Position
  <2> QED
    BY <1>1, <1>7, <2>2
<1> HIDE DEF ends, f
<1>10. ends \in BOOLEAN
  BY DEF ends
<1>11. PulseMoves(crtc, crtc', scan_line', regs)
  BY <1>1, <1>8, <1>9, <1>10 DEF PulseMoves
<1> QED
  BY <1>1, <1>2, <1>3, <1>4, <1>5, <1>6, <1>11

\* A character keeps vertical sync in its place, or brings it there.
LEMMA CharacterKeepsVsync ==
  VideoType /\ FrameInv /\ WidthsInv /\ VInv /\ maybe_drive_crtc => VInv'
<1> SUFFICES ASSUME VideoType, FrameInv, WidthsInv, VInv, maybe_drive_crtc PROVE VInv'
  OBVIOUS
<1>1. regs' = regs
  BY CharacterPulses
<1> SUFFICES ASSUME settled' >= 1, Regular(regs), ~Interlaced(regs), PulsesApart(regs)
             PROVE  VPhase(crtc', regs, settled', scan_line')
  BY <1>1 DEF VInv
<1>2. Widths(crtc) /\ Widths(crtc') /\ settled \in 0..4
  BY CharacterIsTick, WidthsStep DEF WidthsInv, VideoType
<1>3. CASE settled = 0
  <2>1. settled' = 1 /\ scan_line' = 0 /\ crtc'.char_cnt = 0
        /\ crtc.char_cnt = regs.horz_total /\ FrameEnds(Character(crtc, regs), regs)
    BY <1>3, FirstFrame
  <2>2. crtc' = Tick(crtc, regs) /\ CrtcType(crtc) /\ Fits(regs)
    BY CharacterIsTick, CharacterPulses
  <2>3. ~crtc'.had_vsync
    BY <2>1, <2>2, PulsesMove
  <2>4. VLine(regs) \in Nat /\ ScanLinesPerRow(regs) \in Nat \ {0}
    BY <2>2, PulseNumbers
  <2> QED
    BY <2>1, <2>3, <2>4 DEF VPhase, Begun, LinesSeen
<1>4. CASE settled >= 1
  <2>1. VPhase(crtc, regs, settled, scan_line)
    BY <1>4 DEF VInv
  <2> QED
    BY <1>2, <1>4, <2>1, CharacterMovesPulse, VPhaseStep
<1> QED
  BY <1>2, <1>3, <1>4

\* So does every step.
LEMMA VsyncStepKeeps == VideoType /\ FrameInv /\ WidthsInv /\ VInv /\ [Next]_vars => VInv'
<1> SUFFICES ASSUME VideoType, FrameInv, WidthsInv, VInv, [Next]_vars PROVE VInv'
  OBVIOUS
<1>1. CASE UNCHANGED <<regs, crtc, settled, scan_line, frame_lines>>
  BY <1>1 DEF VInv
<1>2. CASE Devices
  <2>1. CASE settled' = 0
    BY <2>1 DEF VInv
  <2>2. CASE UNCHANGED <<regs, crtc, todo, historyVars>>
    BY <1>1, <2>2 DEF historyVars
  <2> QED
    BY <1>2, <2>1, <2>2 DEF Devices
<1>3. NotClocked \/ UlaWrite \/ consume_frame \/ UNCHANGED vars
        => UNCHANGED <<regs, crtc, settled, scan_line, frame_lines>>
  BY OtherSteps
<1> QED
  BY <1>1, <1>2, <1>3, CharacterKeepsVsync DEF Next, Worker

-----------------------------------------------------------------------------
(***************************************************************************)
(* The row of the CRT: it counts from the end of the last vertical pulse.  *)
(***************************************************************************)
\* The scan lines since a pulse ended, and whether one has, in the t-th frame.
SinceEnd(r, s, n) ==
  LET x == Since(r, s, n)
  IN IF x > r.vsync_width \/ (x = r.vsync_width /\ n >= 1) THEN x - r.vsync_width
     ELSE x + FrameLines(r) - r.vsync_width
Ended(r, t, s, n) ==
  LET line == IF t = 2 THEN s ELSE s + FrameLines(r)
      end == VLine(r) + r.vsync_width
  IN t >= 4 \/ (t >= 2 /\ (line > end \/ (line = end /\ n >= 1)))

\* The row the CRT is on: two for each horizontal pulse since, and one more in an odd
\* field.
Row(c, r, s, even) ==
  2 * (SinceEnd(r, s, c.char_cnt) + (IF c.char_cnt > r.hsync_pos + r.hsync_width THEN 1 ELSE 0))
    + (IF even THEN 0 ELSE 1)

\* The CRT is on that row, once a vertical pulse has ended in its place.
PixelInv ==
  settled >= 2 /\ Regular(regs) /\ ~Interlaced(regs) /\ PulsesApart(regs)
    /\ Ended(regs, settled, scan_line, crtc.char_cnt)
  => pixel_y = Row(crtc, regs, scan_line, even_frame)

\* The lines since a pulse, before and after a character.
LEMMA SinceMoves ==
  ASSUME NEW c, NEW f, NEW r, NEW s \in Nat, NEW s2 \in Nat, NEW t \in 2..4, NEW t2 \in 2..4,
         CrtcType(c), CrtcType(f), Fits(r), Regular(r), PulsesApart(r), ~Interlaced(r),
         Position(c, r, s), Position(f, r, s2), MovesTo(c, t, s, f, t2, s2, r)
  PROVE  LET n == c.char_cnt
             x == Since(r, s, n)
             ends == x = r.vsync_width /\ n = 0
         IN /\ SinceEnd(r, s, n) \in Nat /\ SinceEnd(r, s2, f.char_cnt) \in Nat
            /\ ends => SinceEnd(r, s, n) = FrameLines(r) /\ SinceEnd(r, s2, f.char_cnt) = 0
            /\ ~ends => SinceEnd(r, s2, f.char_cnt)
                          = IF Turns(c, r) THEN SinceEnd(r, s, n) + 1 ELSE SinceEnd(r, s, n)
            /\ n >= 1 => SinceEnd(r, s, n) < FrameLines(r)
            /\ Ended(r, t2, s2, f.char_cnt) => Ended(r, t, s, n) \/ ends
            /\ Ended(r, t2, s2, f.char_cnt) => Begun(r, t, s, n)
<1> DEFINE V == VLine(r)
           F == FrameLines(r)
           L == ScanLinesPerRow(r)
           W == WidthModulus
           w == r.vsync_width
           n == c.char_cnt
           n2 == f.char_cnt
           x == Since(r, s, n)
           y == Since(r, s2, n2)
           a == SinceEnd(r, s, n)
           b == SinceEnd(r, s2, n2)
           ends == x = w /\ n = 0
<1>1. /\ V \in Nat /\ F \in Nat /\ L \in Nat \ {0} /\ V + L <= F /\ w \in Nat /\ 1 <= w /\ w < W
      /\ W \in Nat \ {0} /\ W + L < F /\ r.horz_total \in Nat /\ 2 <= r.horz_total
  BY PulseNumbers
<1>2. n \in Nat /\ n <= r.horz_total
  BY DEF CrtcType, Numbers, Position
<1>3. s < F /\ s2 < F
  BY PlainFrame
<1>4. IF ~Turns(c, r) THEN n2 = n + 1 /\ s2 = s /\ t2 = t
      ELSE /\ n2 = 0 /\ n = r.horz_total
           /\ \/ s2 = s + 1 /\ t2 = t
              \/ s2 = 0 /\ s + 1 = F /\ t2 = IF t < 4 THEN t + 1 ELSE 4
  BY DEF MovesTo, Turns
<1>5. /\ x = IF s > V \/ (s = V /\ n >= 1) THEN s - V ELSE s + F - V
      /\ y = IF s2 > V \/ (s2 = V /\ n2 >= 1) THEN s2 - V ELSE s2 + F - V
      /\ a = IF x > w \/ (x = w /\ n >= 1) THEN x - w ELSE x + F - w
      /\ b = IF y > w \/ (y = w /\ n2 >= 1) THEN y - w ELSE y + F - w
  BY DEF Since, SinceEnd
<1>6. /\ Ended(r, t, s, n) <=> t >= 4 \/ (t >= 2 /\ ((IF t = 2 THEN s ELSE s + F) > V + w
                                  \/ ((IF t = 2 THEN s ELSE s + F) = V + w /\ n >= 1)))
      /\ Ended(r, t2, s2, n2) <=> t2 >= 4 \/ (t2 >= 2 /\ ((IF t2 = 2 THEN s2 ELSE s2 + F) > V + w
                                  \/ ((IF t2 = 2 THEN s2 ELSE s2 + F) = V + w /\ n2 >= 1)))
      /\ Begun(r, t, s, n) <=> t >= 3 \/ (t = 2 /\ (s > V \/ (s = V /\ n >= 1)))
  BY DEF Ended, Begun
<1> HIDE DEF V, F, L, W, w, n, n2, x, y, a, b, ends
<1>7. x \in Nat /\ y \in Nat /\ x <= F /\ y <= F /\ (n >= 1 => x < F) /\ (n2 >= 1 => y < F)
  BY <1>1, <1>2, <1>3, <1>4, <1>5
<1>8. a \in Nat /\ b \in Nat /\ (n >= 1 => a < F)
  BY <1>1, <1>2, <1>5, <1>7
<1>9. (s = V /\ n = 0) \/ y = IF Turns(c, r) THEN x + 1 ELSE x
  BY <1>1, <1>2, <1>3, <1>4, <1>5
<1>10. s = V /\ n = 0 => x = F /\ y = 0 /\ ~Turns(c, r)
  BY <1>1, <1>2, <1>4, <1>5
<1>11. ends => a = F /\ b = 0
  BY <1>1, <1>2, <1>4, <1>5, <1>9, <1>10 DEF ends
<1>12. ~ends => b = IF Turns(c, r) THEN a + 1 ELSE a
  <2>1. CASE s = V /\ n = 0
    BY <1>1, <1>5, <1>10, <2>1
  <2>2. CASE ~(s = V /\ n = 0)
    <3>1. CASE Turns(c, r)
      BY <1>1, <1>2, <1>4, <1>5, <1>7, <1>9, <2>2, <3>1
    <3>2. CASE ~Turns(c, r)
      BY <1>1, <1>2, <1>4, <1>5, <1>7, <1>9, <2>2, <3>2 DEF ends
    <3> QED
      BY <3>1, <3>2
  <2> QED
    BY <2>1, <2>2
<1>13. Ended(r, t2, s2, n2) => Begun(r, t, s, n)
  BY <1>1, <1>2, <1>3, <1>4, <1>6
<1>14. Ended(r, t2, s2, n2) => Ended(r, t, s, n) \/ ends
  <2>1. CASE t = 2
    BY <1>1, <1>2, <1>3, <1>4, <1>5, <1>6, <2>1 DEF ends
  <2>2. CASE t = 3
    BY <1>1, <1>2, <1>3, <1>4, <1>5, <1>6, <2>2 DEF ends
  <2>3. CASE t = 4
    BY <1>6, <2>3
  <2> QED
    BY <2>1, <2>2, <2>3
<1> QED
  BY <1>8, <1>11, <1>12, <1>13, <1>14 DEF ends, a, b, x, n, n2, w, F

\* The row after a character is what the CRT moves to.
LEMMA RowMoves ==
  ASSUME NEW c, NEW f, NEW r, NEW s \in Nat, NEW s2 \in Nat, NEW t \in 2..4, NEW t2 \in 2..4,
         CrtcType(c), CrtcType(f), Fits(r), Regular(r), PulsesApart(r), ~Interlaced(r),
         Position(c, r, s), Position(f, r, s2), MovesTo(c, t, s, f, t2, s2, r),
         NEW even \in BOOLEAN, Ended(r, t2, s2, f.char_cnt)
  PROVE  LET ends == Since(r, s, c.char_cnt) = r.vsync_width /\ c.char_cnt = 0
             hends == c.char_cnt = r.hsync_pos + r.hsync_width
         IN /\ Begun(r, t, s, c.char_cnt)
            /\ ends => /\ Row(f, r, s2, ~even) = IF even THEN 1 ELSE 0
                       /\ Row(c, r, s, even) = 2 * FrameLines(r) + (IF even THEN 0 ELSE 1)
            /\ ~ends => /\ Ended(r, t, s, c.char_cnt)
                        /\ Row(f, r, s2, even) = IF hends THEN Row(c, r, s, even) + 2
                                                 ELSE Row(c, r, s, even)
                        /\ hends => Row(c, r, s, even) + 2 <= ScrBuffHeight
            /\ Row(c, r, s, even) \in Nat
<1> DEFINE F == FrameLines(r)
           n == c.char_cnt
           n2 == f.char_cnt
           a == SinceEnd(r, s, n)
           b == SinceEnd(r, s2, n2)
           ends == Since(r, s, n) = r.vsync_width /\ n = 0
           p == r.hsync_pos + r.hsync_width
           odd == IF even THEN 0 ELSE 1
<1>1. /\ a \in Nat /\ b \in Nat
      /\ ends => a = F /\ b = 0
      /\ ~ends => b = IF Turns(c, r) THEN a + 1 ELSE a
      /\ n >= 1 => a < F
      /\ Ended(r, t, s, n) \/ ends
      /\ Begun(r, t, s, n)
  BY SinceMoves
<1>2. /\ F \in Nat /\ n \in Nat /\ n <= r.horz_total /\ p \in Nat /\ 1 <= p /\ p <= r.horz_total
      /\ r.horz_total \in Nat /\ 2 <= r.horz_total /\ 2 * F + 1 <= ScrBuffHeight /\ ScrBuffHeight \in Nat
  BY FrameIs, RegsAreNat, ScreenAssumption DEF CrtcType, Numbers, Position, Regular, ScreenAssumption
<1>3. n2 = IF Turns(c, r) THEN 0 ELSE n + 1
  BY DEF MovesTo
<1>4. Turns(c, r) <=> n = r.horz_total
  BY DEF Turns
<1>5. /\ Row(c, r, s, even) = 2 * (a + (IF n > p THEN 1 ELSE 0)) + odd
      /\ Row(f, r, s2, even) = 2 * (b + (IF n2 > p THEN 1 ELSE 0)) + odd
      /\ Row(f, r, s2, ~even) = 2 * (b + (IF n2 > p THEN 1 ELSE 0)) + (IF ~even THEN 0 ELSE 1)
  BY DEF Row
<1>6. odd \in {0, 1} /\ (IF ~even THEN 0 ELSE 1) = IF even THEN 1 ELSE 0
  OBVIOUS
<1> HIDE DEF F, n, n2, a, b, ends, p, odd
<1>7. Row(c, r, s, even) \in Nat
  BY <1>1, <1>2, <1>5, <1>6
<1>8. ends => /\ Row(f, r, s2, ~even) = IF even THEN 1 ELSE 0
              /\ Row(c, r, s, even) = 2 * F + odd
  BY <1>1, <1>2, <1>3, <1>4, <1>5, <1>6 DEF ends
<1>9. ~ends => Row(f, r, s2, even) = IF n = p THEN Row(c, r, s, even) + 2 ELSE Row(c, r, s, even)
  <2>1. CASE Turns(c, r)
    BY <1>1, <1>2, <1>3, <1>4, <1>5, <1>6, <2>1
  <2>2. CASE ~Turns(c, r)
    BY <1>1, <1>2, <1>3, <1>4, <1>5, <1>6, <2>2
  <2> QED
    BY <2>1, <2>2
<1>10. n = p => Row(c, r, s, even) + 2 <= ScrBuffHeight
  BY <1>1, <1>2, <1>5, <1>6
<1> QED
  BY <1>1, <1>7, <1>8, <1>9, <1>10 DEF ends, n, p, F, odd

\* The pulses end where the registers say.
LEMMA PulsesEnd ==
  ASSUME VideoType, FrameInv, WidthsInv, HInv, VInv, maybe_drive_crtc, settled >= 2,
         Regular(regs), ~Interlaced(regs), PulsesApart(regs)
  PROVE  /\ HsyncEnds <=> crtc.char_cnt = regs.hsync_pos + regs.hsync_width
         /\ Begun(regs, settled, scan_line, crtc.char_cnt) =>
              (VsyncEnds <=> /\ Since(regs, scan_line, crtc.char_cnt) = regs.vsync_width
                             /\ crtc.char_cnt = 0)
<1>1. /\ MovesTo(crtc, settled, scan_line, crtc', settled', scan_line', regs)
      /\ PulseMoves(crtc, crtc', scan_line', regs)
      /\ Position(crtc, regs, scan_line) /\ Position(crtc', regs, scan_line')
      /\ CrtcType(crtc) /\ CrtcType(crtc') /\ Fits(regs)
      /\ settled \in 1..4 /\ settled' \in 1..4 /\ scan_line \in Nat /\ scan_line' \in Nat
  BY CharacterMovesPulse DEF VideoType
<1>2. GoodH(crtc, regs)
  BY <1>1 DEF HInv
<1>3. /\ crtc'.h_sync <=> (crtc.h_sync /\ Wide(crtc) # regs.hsync_width) \/ HsyncBegins(crtc, regs)
      /\ crtc'.hsync_width_cnt = IF HsyncBegins(crtc, regs) THEN 0
                                 ELSE IF crtc.h_sync THEN Wide(crtc) ELSE crtc.hsync_width_cnt
  BY CharacterPulses
<1>4. /\ crtc'.char_cnt = IF crtc.char_cnt = regs.horz_total THEN 0 ELSE crtc.char_cnt + 1
      /\ crtc.char_cnt <= regs.horz_total
  BY <1>1 DEF MovesTo, Turns, Position
<1>5. HsyncEnds <=> crtc.char_cnt = regs.hsync_pos + regs.hsync_width
  BY <1>1, <1>2, <1>3, <1>4, GoodStep DEF HsyncEnds
<1>6. ASSUME Begun(regs, settled, scan_line, crtc.char_cnt)
      PROVE  VsyncEnds <=> /\ Since(regs, scan_line, crtc.char_cnt) = regs.vsync_width
                           /\ crtc.char_cnt = 0
  <2>1. GoodV(crtc, regs, scan_line)
    BY <1>1, <1>6 DEF VInv, VPhase
  <2> QED
    BY <1>1, <2>1, GoodVStep DEF VsyncEnds
<1> QED
  BY <1>5, <1>6

\* A character keeps the CRT on its row.
LEMMA CharacterKeepsPixel ==
  VideoType /\ FrameInv /\ WidthsInv /\ HInv /\ VInv /\ PixelInv /\ maybe_drive_crtc => PixelInv'
<1> SUFFICES ASSUME VideoType, FrameInv, WidthsInv, HInv, VInv, PixelInv, maybe_drive_crtc
             PROVE  PixelInv'
  OBVIOUS
<1>1. regs' = regs
  BY CharacterPulses
<1> SUFFICES ASSUME settled' >= 2, Regular(regs), ~Interlaced(regs), PulsesApart(regs),
                    Ended(regs, settled', scan_line', crtc'.char_cnt)
             PROVE  pixel_y' = Row(crtc', regs, scan_line', even_frame')
  BY <1>1 DEF PixelInv
<1>2. settled >= 1 /\ settled \in 0..4
  <2>1. settled \in 0..4 /\ settled' \in 0..4
    BY CharacterKeepsType DEF VideoType
  <2>2. settled # 0
    BY <2>1, FirstFrame
  <2> QED
    BY <2>1, <2>2
<1>3. /\ MovesTo(crtc, settled, scan_line, crtc', settled', scan_line', regs)
      /\ PulseMoves(crtc, crtc', scan_line', regs)
      /\ Position(crtc, regs, scan_line) /\ Position(crtc', regs, scan_line')
      /\ CrtcType(crtc) /\ CrtcType(crtc') /\ Fits(regs)
      /\ settled \in 1..4 /\ settled' \in 1..4 /\ scan_line \in Nat /\ scan_line' \in Nat
  BY <1>2, CharacterMovesPulse
<1>4. settled >= 2
  <2> SUFFICES ASSUME settled = 1 PROVE FALSE
    BY <1>2
  <2>1. settled' = 2 /\ scan_line' = 0 /\ crtc'.char_cnt = 0
    BY <1>3 DEF MovesTo
  <2>2. VLine(regs) \in Nat /\ regs.vsync_width \in Nat /\ 1 <= regs.vsync_width
    BY <1>3, PulseNumbers
  <2> QED
    BY <2>1, <2>2 DEF Ended
<1>5. settled \in 2..4 /\ settled' \in 2..4 /\ even_frame \in BOOLEAN
  BY <1>3, <1>4 DEF VideoType
<1> DEFINE ends == /\ Since(regs, scan_line, crtc.char_cnt) = regs.vsync_width
                   /\ crtc.char_cnt = 0
           hends == crtc.char_cnt = regs.hsync_pos + regs.hsync_width
           row == Row(crtc, regs, scan_line, even_frame)
<1>6. /\ Begun(regs, settled, scan_line, crtc.char_cnt)
      /\ ends => Row(crtc', regs, scan_line', ~even_frame) = IF even_frame THEN 1 ELSE 0
      /\ ~ends => /\ Ended(regs, settled, scan_line, crtc.char_cnt)
                  /\ Row(crtc', regs, scan_line', even_frame) = IF hends THEN row + 2 ELSE row
                  /\ hends => row + 2 <= ScrBuffHeight
      /\ row \in Nat
  BY <1>3, <1>5, RowMoves
<1>7. (HsyncEnds <=> hends) /\ (VsyncEnds <=> ends)
  BY <1>4, <1>6, PulsesEnd
<1>8. /\ pixel_y' = IF VsyncEnds THEN (IF even_frame THEN 1 ELSE 0)
                    ELSE IF HsyncEnds THEN Capped(pixel_y + 2) ELSE pixel_y
      /\ even_frame' = (even_frame # VsyncEnds)
  BY CharacterIsTick DEF crt_tick
<1> HIDE DEF ends, hends, row
<1>9. CASE ends
  <2>1. even_frame' = ~even_frame
    BY <1>5, <1>7, <1>8, <1>9
  <2> QED
    BY <1>6, <1>7, <1>8, <1>9, <2>1
<1>10. CASE ~ends
  <2>1. even_frame' = even_frame
    <3>1. ~VsyncEnds
      BY <1>7, <1>10
    <3>2. even_frame' = (even_frame # VsyncEnds) /\ even_frame \in BOOLEAN
      BY <1>5, <1>8
    <3>3. CASE even_frame
      BY <3>1, <3>2, <3>3, Zenon
    <3>4. CASE ~even_frame
      <4>1. even_frame = FALSE /\ VsyncEnds = FALSE
        BY <3>1, <3>2, <3>4
      <4>2. even_frame' = (FALSE # FALSE)
        BY <3>2, <4>1, Zenon
      <4> QED
        BY <4>1, <4>2
    <3> QED
      BY <3>3, <3>4
  <2>2. pixel_y = row
    BY <1>4, <1>6, <1>10 DEF PixelInv, row
  <2>3. hends => Capped(row + 2) = row + 2
    BY <1>6, <1>10, CapIsNat
  <2> QED
    BY <1>6, <1>7, <1>8, <1>10, <2>1, <2>2, <2>3
<1> QED
  BY <1>9, <1>10

\* So does every step.
LEMMA PixelStepKeeps ==
  VideoType /\ FrameInv /\ WidthsInv /\ HInv /\ VInv /\ PixelInv /\ [Next]_vars => PixelInv'
<1> SUFFICES ASSUME VideoType, FrameInv, WidthsInv, HInv, VInv, PixelInv, [Next]_vars PROVE PixelInv'
  OBVIOUS
<1>1. CASE UNCHANGED <<regs, crtc, settled, scan_line, pixel_y, even_frame>>
  BY <1>1 DEF PixelInv
<1>2. CASE Devices
  <2>1. UNCHANGED <<pixel_y, even_frame>>
    BY <1>2 DEF Devices, crtVars
  <2>2. CASE settled' = 0
    BY <2>2 DEF PixelInv
  <2>3. CASE UNCHANGED <<regs, crtc, todo, historyVars>>
    BY <1>1, <2>1, <2>3 DEF historyVars
  <2> QED
    BY <1>2, <2>2, <2>3 DEF Devices
<1>3. NotClocked \/ UlaWrite \/ consume_frame \/ UNCHANGED vars
        => UNCHANGED <<regs, crtc, settled, scan_line, pixel_y, even_frame>>
  BY OtherSteps
<1> QED
  BY <1>1, <1>2, <1>3, CharacterKeepsPixel DEF Next, Worker

\* A field that ends has moved the CRT down by two rows for every scan line of the frame,
\* from the row its parity begins with: once the registers have been left alone for three
\* frames, in frames that are not interlaced and whose pulses are apart.
THEOREM FieldsHaveTheirRows == Spec => FieldHasItsLines
<1> DEFINE Inv == VideoType /\ FrameInv /\ WidthsInv /\ HInv /\ VInv /\ PixelInv
<1>1. Init => Inv
  <2>1. Init => HInv /\ VInv /\ PixelInv
    BY DEF Init, HInv, VInv, PixelInv
  <2> QED
    BY <2>1, VideoTypeInit, FrameInit, WidthsInit
<1>2. Inv /\ [Next]_vars => Inv'
  BY VideoTypeStep, FrameStep, WidthsKept, HsyncStepKeeps, VsyncStepKeeps, PixelStepKeeps
<1>3. Inv /\ [Next]_vars
        => [VsyncEnds /\ settled >= 4 /\ Regular(regs) /\ ~Interlaced(regs) /\ PulsesApart(regs)
              => pixel_y = 2 * FrameLines(regs) + (IF even_frame THEN 0 ELSE 1)]_vars
  <2> SUFFICES ASSUME Inv, [Next]_vars, VsyncEnds, settled >= 4, Regular(regs), ~Interlaced(regs),
                      PulsesApart(regs)
               PROVE  pixel_y = 2 * FrameLines(regs) + (IF even_frame THEN 0 ELSE 1)
    OBVIOUS
  <2>1. maybe_drive_crtc
    <3>1. Devices => crtc'.v_sync = crtc.v_sync
      BY WriteKeepsType DEF Devices, VideoType, SameBut, CrtcType, Numbers, Flags
    <3>2. NotClocked \/ UlaWrite \/ consume_frame \/ UNCHANGED vars => UNCHANGED crtc
      BY OtherSteps
    <3> QED
      BY <3>1, <3>2 DEF Next, Worker, VsyncEnds
  <2>2. /\ MovesTo(crtc, settled, scan_line, crtc', settled', scan_line', regs)
        /\ Position(crtc, regs, scan_line) /\ Position(crtc', regs, scan_line')
        /\ CrtcType(crtc) /\ CrtcType(crtc') /\ Fits(regs)
        /\ settled \in 1..4 /\ settled' \in 1..4 /\ scan_line \in Nat /\ scan_line' \in Nat
    BY <2>1, CharacterMovesPulse DEF VideoType
  <2>3. settled \in 2..4 /\ settled' \in 2..4 /\ even_frame \in BOOLEAN /\ settled' = 4
    BY <2>2 DEF VideoType, MovesTo
  <2>4. Ended(regs, settled', scan_line', crtc'.char_cnt) /\ Ended(regs, settled, scan_line, crtc.char_cnt)
    BY <2>3 DEF Ended
  <2>5. Begun(regs, settled, scan_line, crtc.char_cnt)
    BY <2>3 DEF Begun
  <2>6. Since(regs, scan_line, crtc.char_cnt) = regs.vsync_width /\ crtc.char_cnt = 0
    BY <2>1, <2>3, <2>5, PulsesEnd
  <2>7. Row(crtc, regs, scan_line, even_frame) = 2 * FrameLines(regs) + (IF even_frame THEN 0 ELSE 1)
    BY <2>2, <2>3, <2>4, <2>6, RowMoves
  <2> QED
    BY <2>3, <2>4, <2>7 DEF PixelInv
<1> QED
  BY <1>1, <1>2, <1>3, PTL DEF Spec, FieldHasItsLines
=============================================================================
