------------------------------ MODULE ViaProofs -----------------------------
(***************************************************************************)
(* The interrupt output of the system VIA, for every menu of register      *)
(* accesses, key map and width of the timers.                              *)
(***************************************************************************)
EXTENDS SystemVia, TLAPS

Flags == Sources \cup {"IRQ"}

\* What the interrupt registers hold.
Irqs == [ifr : SUBSET Flags, ier : SUBSET Flags, active : BOOLEAN]

\* The inductive invariant: the registers are what they should be, and the
\* accesses are those of a menu.
IrqInv == irqs \in Irqs /\ Consistent(irqs) /\ menu \in Menus

\* update_irq_cache() makes the output agree with any flags and enables.
LEMMA CacheIsRight ==
  ASSUME NEW f \in SUBSET Flags, NEW e \in SUBSET Flags, NEW i \in Irqs,
         i.ifr = f, i.ier = e
  PROVE /\ update_irq_cache(i) \in Irqs
        /\ update_irq_cache(i).ifr = f
        /\ update_irq_cache(i).ier = e
        /\ update_irq_cache(i).active <=> \E s \in Sources : s \in f /\ s \in e
<1>1. "IRQ" \notin Sources
  BY DEF Sources
<1>2. (f \cap e) \ {"IRQ"} # {} <=> \E s \in Sources : s \in f /\ s \in e
  BY <1>1 DEF Flags
<1>3. QED
  BY <1>2 DEF update_irq_cache, Irqs

\* raise_irq() keeps the registers consistent: bit 7 of IFR is stored with the
\* first flag.
LEMMA RaiseKeeps ==
  ASSUME NEW i \in Irqs, Consistent(i), NEW s \in Sources
  PROVE raise_irq(i, s) \in Irqs /\ Consistent(raise_irq(i, s))
<1> DEFINE j == [i EXCEPT !.ifr = i.ifr \cup {s, "IRQ"}]
<1>1. CASE s \in i.ifr
  BY <1>1 DEF raise_irq
<1>2. CASE s \notin i.ifr
  <2>1. j \in Irqs /\ j.ifr = i.ifr \cup {s, "IRQ"} /\ j.ier = i.ier
    BY DEF Irqs, Flags
  <2>2. i.ifr \cup {s, "IRQ"} \in SUBSET Flags /\ i.ier \in SUBSET Flags
    BY DEF Irqs, Flags
  <2>3. raise_irq(i, s) = update_irq_cache(j)
    BY <1>2 DEF raise_irq
  <2>4. s # "IRQ"
    BY DEF Sources
  <2> HIDE DEF j
  <2>5. QED
    BY <2>1, <2>2, <2>3, <2>4, CacheIsRight DEF Consistent
<1>3. QED
  BY <1>1, <1>2

\* clear_irq() keeps them consistent: bit 7 goes with the last flag.
LEMMA ClearKeeps ==
  ASSUME NEW i \in Irqs, Consistent(i), NEW ss \in SUBSET Sources
  PROVE clear_irq(i, ss) \in Irqs /\ Consistent(clear_irq(i, ss))
<1> DEFINE left == i.ifr \ ss
<1> DEFINE f == IF left = {"IRQ"} THEN {} ELSE left
<1> DEFINE j == [i EXCEPT !.ifr = f]
<1>1. CASE left = i.ifr
  BY <1>1 DEF clear_irq
<1>2. CASE left # i.ifr
  <2>1. f \in SUBSET Flags /\ i.ier \in SUBSET Flags
    BY DEF Irqs
  <2>2. j \in Irqs /\ j.ifr = f /\ j.ier = i.ier
    BY <2>1 DEF Irqs
  <2>3. clear_irq(i, ss) = update_irq_cache(j)
    BY <1>2 DEF clear_irq
  <2>4. "IRQ" \notin ss
    BY DEF Sources
  <2>5. PICK s \in ss : s \in i.ifr
    BY <1>2
  <2>6. "IRQ" \in i.ifr
    BY <2>4, <2>5 DEF Consistent
  <2>7. "IRQ" \in f <=> f \ {"IRQ"} # {}
    BY <2>4, <2>6
  <2> HIDE DEF j, f
  <2>8. QED
    BY <2>1, <2>2, <2>3, <2>7, CacheIsRight DEF Consistent
<1>3. QED
  BY <1>1, <1>2

\* write_irq_enable() leaves the flags alone and makes the output agree.
LEMMA EnableKeeps ==
  ASSUME irqs \in Irqs, Consistent(irqs), NEW set \in BOOLEAN, NEW bits \in SUBSET Sources,
         write_irq_enable(set, bits)
  PROVE irqs' \in Irqs /\ Consistent(irqs')
<1> DEFINE e == IF set THEN irqs.ier \cup bits \cup {"IRQ"} ELSE irqs.ier \ (bits \cup {"IRQ"})
<1> DEFINE j == [irqs EXCEPT !.ier = e]
<1>1. e \in SUBSET Flags /\ irqs.ifr \in SUBSET Flags
  BY DEF Irqs, Flags
<1>2. j \in Irqs /\ j.ier = e /\ j.ifr = irqs.ifr
  BY <1>1 DEF Irqs
<1>3. irqs' = update_irq_cache(j)
  BY DEF write_irq_enable
<1> HIDE DEF j, e
<1>4. QED
  BY <1>1, <1>2, <1>3, CacheIsRight DEF Consistent

\* Every register access keeps them consistent.
LEMMA AccessKeeps ==
  ASSUME IrqInv, NEW a \in menu.cpu, Access(a)
  PROVE irqs' \in Irqs /\ Consistent(irqs')
<1> USE DEF IrqInv
<1>1. \A ss \in SUBSET Sources :
        irqs' = clear_irq(irqs, ss) => irqs' \in Irqs /\ Consistent(irqs')
  BY ClearKeeps
<1>2. {"CA1"} \in SUBSET Sources /\ {"CA2"} \in SUBSET Sources /\ {"T1"} \in SUBSET Sources
      /\ {"T2"} \in SUBSET Sources /\ {} \in SUBSET Sources
  BY DEF Sources
<1>3. CASE a.rw = "R" /\ mmio_read(a.reg)
  BY <1>1, <1>2, <1>3 DEF mmio_read
<1>4. CASE a.rw # "R" /\ mmio_write(a.reg, a.data)
  <2>1. a.reg \in {"IFR", "IER_SET", "IER_CLEAR"} => a.data \in SUBSET Sources
    BY <1>4, MenuAssumption DEF MenuAssumption
  <2>2. CASE a.reg = "IFR" /\ irqs' = clear_irq(irqs, a.data)
    BY <1>1, <2>1, <2>2
  <2>3. CASE a.reg = "IER_SET" /\ write_irq_enable(TRUE, a.data)
    BY <2>1, <2>3, EnableKeeps
  <2>4. CASE a.reg = "IER_CLEAR" /\ write_irq_enable(FALSE, a.data)
    BY <2>1, <2>4, EnableKeeps
  <2>5. CASE write_port_a(a.data)
    <3>1. PICK ss \in {{}, {"CA2"}} : irqs' = clear_irq(irqs, {"CA1"} \cup ss)
      BY <2>5 DEF write_port_a
    <3>2. {"CA1"} \cup ss \in SUBSET Sources
      BY <1>2
    <3>3. QED
      BY <1>1, <3>1, <3>2
  <2>6. CASE WriteT1CH(a.data) \/ WriteT2CH(a.data)
    BY <1>1, <1>2, <2>6 DEF WriteT1CH, WriteT2CH
  <2>7. CASE irqs' = irqs
    BY <2>7
  <2>8. write_port_b(a.data) \/ WriteT2CL(a.data) => irqs' = irqs
    BY DEF write_port_b, WriteT2CL
  <2>9. \A low, high : WriteLatch(low, high) => irqs' = irqs
    BY DEF WriteLatch
  <2>10. QED
    BY <1>4, <2>2, <2>3, <2>4, <2>5, <2>6, <2>7, <2>8, <2>9, Zenon DEF mmio_write
<1>5. QED
  BY <1>3, <1>4 DEF Access

\* A microsecond of timers and edges keeps them consistent.
LEMMA TickKeeps ==
  ASSUME irqs \in Irqs, Consistent(irqs), tick_timers
  PROVE irqs' \in Irqs /\ Consistent(irqs')
<1>1. \A i \in Irqs, s \in {"T1", "T2", "CA1", "CA2"} : \A on :
        Consistent(i) => Raised(i, s, on) \in Irqs /\ Consistent(Raised(i, s, on))
  <2> SUFFICES ASSUME NEW i \in Irqs, NEW s \in {"T1", "T2", "CA1", "CA2"}, NEW on, Consistent(i)
               PROVE Raised(i, s, on) \in Irqs /\ Consistent(Raised(i, s, on))
    OBVIOUS
  <2>1. s \in Sources
    BY DEF Sources
  <2>2. QED
    BY <2>1, RaiseKeeps DEF Raised
<1> DEFINE i1 == Raised(irqs, "T1", T1Expires)
<1> DEFINE i2 == Raised(i1, "T2", T2Expires)
<1> DEFINE i3 == Raised(i2, "CA1", Ca1Edge)
<1>2. i1 \in Irqs /\ Consistent(i1)
  BY <1>1
<1> HIDE DEF i1
<1>3. i2 \in Irqs /\ Consistent(i2)
  BY <1>1, <1>2
<1> HIDE DEF i2
<1>4. i3 \in Irqs /\ Consistent(i3)
  BY <1>1, <1>3
<1> HIDE DEF i3
<1>5. irqs' = Raised(i3, "CA2", Ca2Falls)
  BY DEF tick_timers, i1, i2, i3
<1>6. QED
  BY <1>1, <1>4, <1>5

\* Every step of the machine keeps the inductive invariant.
LEMMA IrqStep == IrqInv /\ [SysNext]_sysVars => IrqInv'
<1> SUFFICES ASSUME IrqInv, [SysNext]_sysVars PROVE IrqInv'
  OBVIOUS
<1>1. menu' = menu
  BY DEF SysNext, Worker, KeyboardTick, Devices, check_mmio, Vsync, Host, UiThread, MouseMoves,
     keyPressEvent, keyReleaseEvent, boardVars, sysVars
<1>2. CASE Devices
  BY <1>1, <1>2, TickKeeps DEF Devices, IrqInv
<1>3. CASE check_mmio
  <2>1. CASE irqs' = irqs
    BY <1>1, <2>1 DEF IrqInv
  <2>2. CASE \E a \in menu.cpu : Access(a)
    BY <1>1, <2>2, AccessKeeps DEF IrqInv
  <2>3. QED
    BY <1>3, <2>1, <2>2 DEF check_mmio, chipVars
<1>4. CASE irqs' = irqs
  BY <1>1, <1>4 DEF IrqInv
<1>5. QED
  BY <1>2, <1>3, <1>4 DEF SysNext, Worker, KeyboardTick, Vsync, Host, UiThread, MouseMoves,
     keyPressEvent, keyReleaseEvent, chipVars, sysVars

\* The cached interrupt output of the VIA and the stored bit 7 of IFR agree with
\* the flags and the enables, whatever the CPU, the timers and the lines do.
THEOREM InterruptIsConsistent == SysSpec => []IrqIsConsistent
<1>1. SysInit => IrqInv
  BY DEF SysInit, ViaInit, IrqInv, Irqs, Consistent, Flags
<1>2. IrqInv => IrqIsConsistent
  BY DEF IrqInv, IrqIsConsistent
<1>3. QED
  BY <1>1, <1>2, IrqStep, PTL DEF SysSpec

-----------------------------------------------------------------------------
(***************************************************************************)
(* The addressable latch.  A write of the CPU is in one of three places:   *)
(* in the latch's subscription to port B, in the keyboard's subscription   *)
(* to a pin, or with the keyboard.                                         *)
(***************************************************************************)
\* The latch's outputs once it has seen what is in its subscription.
Applied(out, data) == IF 3 \in data THEN out \cup {Pin(data)} ELSE out \ {Pin(data)}

\* Nothing is waiting for the latch when the CPU may write to it.
PortInv ==
  /\ pb_sub.changed \in BOOLEAN
  /\ at = "access" => ~pb_sub.changed
  /\ driven = IF pb_sub.changed THEN Applied(latched, pb_sub.data) ELSE latched

LineInv ==
  /\ we_src \in Subscriber(WeMask) /\ cl_led_src \in Subscriber(ClMask)
  /\ sl_led_src \in Subscriber(SlMask)
  /\ 3 \in latched <=> IF we_src.changed THEN we_src.data # {} ELSE auto_scan
  /\ 6 \in latched <=> IF cl_led_src.changed THEN cl_led_src.data # {} ELSE "caps" \notin leds
  /\ 7 \in latched <=> IF sl_led_src.changed THEN sl_led_src.data # {} ELSE "shift" \notin leds

LatchInv == PortInv /\ LineInv

\* A subscriber to one pin has that pin's level once it has been notified.
LEMMA OnePin ==
  ASSUME NEW mask, NEW bit \in mask, \A b \in mask : b = bit, NEW bits, NEW pin \in bits,
         \A b \in bits : b = pin, NEW s \in Subscriber(mask), NEW out
  PROVE  /\ Notified(s, mask, out, bits) \in Subscriber(mask)
         /\ pin = bit =>
              Notified(s, mask, out, bits) = [data |-> out \cap mask, changed |-> TRUE]
         /\ pin # bit => Notified(s, mask, out, bits) = s
<1>1. CASE pin = bit
  <2>1. mask \cap bits = mask /\ mask # {}
    BY <1>1
  <2>2. Notified(s, mask, out, bits) =
          [data |-> (s.data \ mask) \cup (out \cap mask), changed |-> TRUE]
    BY <2>1 DEF Notified
  <2>3. s.data \in SUBSET mask
    BY DEF Subscriber
  <2>4. (s.data \ mask) \cup (out \cap mask) = out \cap mask
    BY <2>3
  <2>5. Notified(s, mask, out, bits) = [data |-> out \cap mask, changed |-> TRUE]
    BY <2>2, <2>4
  <2>6. [data |-> out \cap mask, changed |-> TRUE] \in Subscriber(mask)
    BY DEF Subscriber
  <2> QED
    BY <1>1, <2>5, <2>6
<1>2. CASE pin # bit
  <2>1. mask \cap bits = {}
    BY <1>2
  <2> QED
    BY <1>2, <2>1 DEF Notified
<1> QED
  BY <1>1, <1>2

\* The latch takes what port B has published.
LEMMA LatchTickKeeps ==
  ASSUME LatchInv, latch_tick, UNCHANGED <<auto_scan, leds, driven>>, at' = "access"
  PROVE  LatchInv'
<1>1. CASE ~pb_sub.changed
  BY <1>1 DEF latch_tick, LatchInv, PortInv, LineInv
<1>2. CASE pb_sub.changed
  <2> DEFINE pin == Pin(pb_sub.data)
             out == Applied(latched, pb_sub.data)
             bits == {pin}
  <2>1. /\ latched' = out
        /\ we_src' = Notified(we_src, WeMask, out, bits)
        /\ cl_led_src' = Notified(cl_led_src, ClMask, out, bits)
        /\ sl_led_src' = Notified(sl_led_src, SlMask, out, bits)
        /\ pb_sub' = Seen(pb_sub)
    BY <1>2 DEF latch_tick, Applied
  <2>2. driven = out
    BY <1>2 DEF LatchInv, PortInv
  <2>3. pb_sub'.changed = FALSE
    BY <2>1 DEF Seen
  <2>4. PortInv'
    BY <2>1, <2>2, <2>3 DEF PortInv
  <2>5. \A b : b # pin => (b \in out <=> b \in latched)
    BY DEF Applied
  <2>6. /\ we_src \in Subscriber(WeMask) /\ cl_led_src \in Subscriber(ClMask)
        /\ sl_led_src \in Subscriber(SlMask)
        /\ 3 \in WeMask /\ \A b \in WeMask : b = 3
        /\ 6 \in ClMask /\ \A b \in ClMask : b = 6
        /\ 7 \in SlMask /\ \A b \in SlMask : b = 7
        /\ pin \in bits /\ \A b \in bits : b = pin
    BY DEF LatchInv, LineInv, WeMask, ClMask, SlMask
  <2> HIDE DEF pin, out, bits
  <2>7. /\ we_src' \in Subscriber(WeMask)
        /\ 3 \in out <=> IF we_src'.changed THEN we_src'.data # {} ELSE auto_scan
    <3>1. /\ we_src' \in Subscriber(WeMask)
          /\ pin = 3 => we_src' = [data |-> out \cap WeMask, changed |-> TRUE]
          /\ pin # 3 => we_src' = we_src
      BY <2>1, <2>6, OnePin
    <3>2. 3 \in latched <=> IF we_src.changed THEN we_src.data # {} ELSE auto_scan
      BY DEF LatchInv, LineInv
    <3>3. CASE pin = 3
      <4>1. we_src'.changed = TRUE /\ we_src'.data = out \cap WeMask
        BY <3>1, <3>3
      <4> QED
        BY <2>6, <3>1, <4>1
    <3>4. CASE pin # 3
      BY <2>5, <3>1, <3>2, <3>4
    <3> QED
      BY <3>3, <3>4
  <2>8. /\ cl_led_src' \in Subscriber(ClMask)
        /\ 6 \in out <=> IF cl_led_src'.changed THEN cl_led_src'.data # {} ELSE "caps" \notin leds
    <3>1. /\ cl_led_src' \in Subscriber(ClMask)
          /\ pin = 6 => cl_led_src' = [data |-> out \cap ClMask, changed |-> TRUE]
          /\ pin # 6 => cl_led_src' = cl_led_src
      BY <2>1, <2>6, OnePin
    <3>2. 6 \in latched <=> IF cl_led_src.changed THEN cl_led_src.data # {} ELSE "caps" \notin leds
      BY DEF LatchInv, LineInv
    <3>3. CASE pin = 6
      <4>1. cl_led_src'.changed = TRUE /\ cl_led_src'.data = out \cap ClMask
        BY <3>1, <3>3
      <4> QED
        BY <2>6, <3>1, <4>1
    <3>4. CASE pin # 6
      BY <2>5, <3>1, <3>2, <3>4
    <3> QED
      BY <3>3, <3>4
  <2>9. /\ sl_led_src' \in Subscriber(SlMask)
        /\ 7 \in out <=> IF sl_led_src'.changed THEN sl_led_src'.data # {} ELSE "shift" \notin leds
    <3>1. /\ sl_led_src' \in Subscriber(SlMask)
          /\ pin = 7 => sl_led_src' = [data |-> out \cap SlMask, changed |-> TRUE]
          /\ pin # 7 => sl_led_src' = sl_led_src
      BY <2>1, <2>6, OnePin
    <3>2. 7 \in latched <=> IF sl_led_src.changed THEN sl_led_src.data # {} ELSE "shift" \notin leds
      BY DEF LatchInv, LineInv
    <3>3. CASE pin = 7
      <4>1. sl_led_src'.changed = TRUE /\ sl_led_src'.data = out \cap SlMask
        BY <3>1, <3>3
      <4> QED
        BY <2>6, <3>1, <4>1
    <3>4. CASE pin # 7
      BY <2>5, <3>1, <3>2, <3>4
    <3> QED
      BY <3>3, <3>4
  <2>10. LineInv'
    BY <2>1, <2>7, <2>8, <2>9 DEF LineInv
  <2> QED
    BY <2>4, <2>10 DEF LatchInv
<1> QED
  BY <1>1, <1>2

\* The keyboard takes what its three subscriptions hold.
LEMMA ScanKeepsLatch ==
  ASSUME LatchInv, Scan, UNCHANGED <<latched, driven>>
  PROVE  LatchInv'
<1>1. PortInv'
  BY DEF Scan, LatchInv, PortInv
<1>2. \A m : \A s \in Subscriber(m) : Seen(s) \in Subscriber(m) /\ Seen(s).changed = FALSE
  BY DEF Subscriber, Seen
<1>3. /\ we_src' = Seen(we_src) /\ cl_led_src' = Seen(cl_led_src) /\ sl_led_src' = Seen(sl_led_src)
      /\ auto_scan' <=> IF we_src.changed THEN we_src.data # {} ELSE auto_scan
      /\ "caps" \notin leds' <=> IF cl_led_src.changed THEN cl_led_src.data # {}
                                 ELSE "caps" \notin leds
      /\ "shift" \notin leds' <=> IF sl_led_src.changed THEN sl_led_src.data # {}
                                  ELSE "shift" \notin leds
  BY DEF Scan, check_leds, check_we, Lit, On
<1>4. LineInv'
  BY <1>2, <1>3 DEF LatchInv, LineInv
<1> QED
  BY <1>1, <1>4 DEF LatchInv

\* Only a write to port B changes the latch's subscription.
LEMMA AccessToPortB ==
  ASSUME NEW a, Access(a)
  PROVE  IF a.reg = "IORB" THEN \E pb, sent : pb_sub' = Notified(pb_sub, PbMask, pb, sent)
                                              \/ pb_sub' = pb_sub
         ELSE pb_sub' = pb_sub
<1>1. CASE a.rw = "R"
  BY <1>1 DEF Access, mmio_read, outputVars
<1>2. CASE a.rw # "R"
  <2>1. \A low, high : WriteLatch(low, high) => pb_sub' = pb_sub
    BY DEF WriteLatch, outputVars
  <2>2. WriteT1CH(a.data) \/ WriteT2CL(a.data) \/ WriteT2CH(a.data) \/ write_port_a(a.data)
          => pb_sub' = pb_sub
    BY DEF WriteT1CH, WriteT2CL, WriteT2CH, write_port_a, outputVars
  <2>3. write_port_b(a.data) => \/ \E pb, sent : pb_sub' = Notified(pb_sub, PbMask, pb, sent)
                               \/ pb_sub' = pb_sub
    BY DEF write_port_b
  <2>4. mmio_write(a.reg, a.data)
    BY <1>2 DEF Access
  <2> QED
    BY <2>1, <2>2, <2>3, <2>4 DEF mmio_write, outputVars
<1> QED
  BY <1>1, <1>2

\* An access to the VIA keeps the latch and the port in agreement.
LEMMA AccessKeepsLatch == LatchInv /\ check_mmio => LatchInv'
<1> SUFFICES ASSUME LatchInv, check_mmio PROVE LatchInv'
  OBVIOUS
<1>1. UNCHANGED <<latched, auto_scan, leds, we_src, cl_led_src, sl_led_src>> /\ at' = "scan"
  BY DEF check_mmio, scanVars
<1>2. LineInv'
  BY <1>1 DEF LatchInv, LineInv
<1>3. driven = latched /\ ~pb_sub.changed
  BY DEF check_mmio, LatchInv, PortInv
<1>4. CASE UNCHANGED <<pb_sub, driven>>
  <2>1. PortInv'
    BY <1>1, <1>3, <1>4 DEF PortInv, LatchInv
  <2> QED
    BY <1>2, <2>1 DEF LatchInv
<1>5. CASE \E a \in menu.cpu :
          /\ Access(a)
          /\ driven' = IF a.reg # "IORB" \/ ~pb_sub'.changed THEN driven
                       ELSE IF 3 \in pb_sub'.data THEN driven \cup {Pin(pb_sub'.data)}
                       ELSE driven \ {Pin(pb_sub'.data)}
  <2>1. PICK a \in menu.cpu :
          /\ Access(a)
          /\ driven' = IF a.reg # "IORB" \/ ~pb_sub'.changed THEN driven
                       ELSE Applied(driven, pb_sub'.data)
    BY <1>5 DEF Applied
  <2>2. a.reg # "IORB" => pb_sub' = pb_sub
    BY <2>1, AccessToPortB
  <2>3. pb_sub'.changed \in BOOLEAN
    <3>1. pb_sub.changed \in BOOLEAN
      BY DEF LatchInv, PortInv
    <3>2. \A pb, sent : Notified(pb_sub, PbMask, pb, sent).changed \in BOOLEAN
      BY <3>1 DEF Notified
    <3> QED
      BY <2>1, <3>1, <3>2, AccessToPortB
  <2> QED
    BY <1>1, <1>2, <1>3, <2>1, <2>2, <2>3 DEF PortInv, LatchInv
<1> QED
  BY <1>4, <1>5 DEF check_mmio, connectors

\* Every step of the machine keeps the latch and the port in agreement.
LEMMA LatchStep == LatchInv /\ [SysNext]_sysVars => LatchInv'
<1> SUFFICES ASSUME LatchInv, [SysNext]_sysVars PROVE LatchInv'
  OBVIOUS
<1>1. CASE KeyboardTick
  <2>1. UNCHANGED <<latched, driven>>
    BY <1>1 DEF KeyboardTick, chipVars
  <2>2. CASE Irq1 \/ Irq2
    BY <2>1, <2>2 DEF Irq1, Irq2, NextColumn, LatchInv, PortInv, LineInv
  <2> QED
    BY <1>1, <2>1, <2>2, ScanKeepsLatch DEF KeyboardTick
<1>2. CASE Devices
  BY <1>2, LatchTickKeeps DEF Devices
<1>3. CASE check_mmio
  BY <1>3, AccessKeepsLatch
<1>4. CASE Vsync \/ Host \/ UNCHANGED sysVars
  <2>1. UNCHANGED <<pb_sub, at, driven, latched, we_src, cl_led_src, sl_led_src, auto_scan, leds>>
    BY <1>4 DEF Vsync, Host, UiThread, UiStep, MouseMoves, keyPressEvent, keyReleaseEvent,
                connectors, scanVars, boardVars, sysVars
  <2> QED
    BY <2>1 DEF LatchInv, PortInv, LineInv
<1> QED
  BY <1>1, <1>2, <1>3, <1>4 DEF SysNext, Worker

\* No write to the addressable latch is lost on its way to the keyboard.
THEOREM LatchWritesArrive == SysSpec => []LatchFollowsWrites
<1>1. SysInit => LatchInv
  BY DEF SysInit, ViaInit, KeyboardInit, NewSubscriber, Subscriber, Bits, LatchInv, PortInv, LineInv
<1>2. LatchInv => LatchFollowsWrites
  BY DEF LatchInv, PortInv, LineInv, LatchFollowsWrites, On, ClMask, SlMask
<1> QED
  BY <1>1, <1>2, LatchStep, PTL DEF SysSpec

-----------------------------------------------------------------------------
(***************************************************************************)
(* The table of keys.  Until a call of the UI thread is over a key that is *)
(* to be released still counts as accounted for, and the two stores of     *)
(* release_key() leave the table with a key twice or a released one.       *)
(***************************************************************************)
Codes == {k \in SUBSET (0..6) : ~IsDip(k)}
TableKeys == (Codes \ Modifiers) \cup {NoKey}

Calls ==
  [op : {"press", "release"}, key : Codes]
    \cup [op : {"store1"}, key : TableKeys] \cup [op : {"store2"}, key : {NoKey}]

Storing(q) == q # <<>> /\ Head(q).op \in {"store1", "store2"}

\* The keys a queue of calls will release.
Leaving(q) == {q[i].key : i \in {j \in 1..Len(q) : q[j].op = "release"}}

HeldKeys == {held[h] : h \in DOMAIN held}
Accounted == HeldKeys \cup strays \cup Leaving(ui) \cup {NoKey}

TableType ==
  /\ key_1 \in TableKeys /\ key_2 \in TableKeys /\ modifiers \subseteq Modifiers
  /\ \A h \in DOMAIN held : held[h] \in Codes
  /\ menu \in Menus

\* Only the first call can be half of a release, and what will be pressed is
\* held.
QueueInv ==
  /\ ui \in Seq(Calls)
  /\ \A i \in 2..Len(ui) : ui[i].op \in {"press", "release"}
  /\ \A i \in 1..Len(ui) :
       ui[i].op = "press" /\ ui[i].key \notin Modifiers => ui[i].key \in HeldKeys

SoundInv ==
  IF ~Storing(ui)
  THEN /\ key_1 = NoKey => key_2 = NoKey
       /\ key_1 = key_2 => key_1 = NoKey
       /\ key_1 \in Accounted /\ key_2 \in Accounted
  ELSE IF Head(ui).op = "store2" THEN key_1 = key_2 /\ key_1 \in Accounted
  ELSE key_2 = NoKey /\ Head(ui).key \in Accounted

TableInv == TableType /\ QueueInv /\ SoundInv

AnswerInv ==
  /\ pa_sub \in Subscriber(PaMask)
  /\ pa_provider \in Provider
  /\ pa_provider.has /\ truth.sure => (7 \in pa_provider.data <=> truth.down)

\* Taking the first call off a queue, and putting one in front of it.
LEMMA QueueTail ==
  ASSUME NEW S, NEW q \in Seq(S), q # <<>>
  PROVE  /\ Head(q) = q[1] /\ Head(q) \in S /\ 1 \in 1..Len(q)
         /\ Tail(q) \in Seq(S)
         /\ \A i \in 1..Len(Tail(q)) : i + 1 \in 2..Len(q) /\ Tail(q)[i] = q[i + 1]
         /\ \A k \in Leaving(q) :
              k \in Leaving(Tail(q)) \/ (Head(q).op = "release" /\ k = Head(q).key)
<1>1. /\ Head(q) = q[1] /\ Head(q) \in S /\ Len(q) \in Nat /\ Len(q) >= 1
      /\ Tail(q) \in Seq(S) /\ Len(Tail(q)) = Len(q) - 1
      /\ \A i \in 1..Len(Tail(q)) : Tail(q)[i] = q[i + 1]
  OBVIOUS
<1>2. ASSUME NEW k \in Leaving(q)
      PROVE  k \in Leaving(Tail(q)) \/ (Head(q).op = "release" /\ k = Head(q).key)
  <2>1. PICK j \in 1..Len(q) : q[j].op = "release" /\ k = q[j].key
    BY DEF Leaving
  <2>2. CASE j = 1
    BY <1>1, <2>1, <2>2
  <2>3. CASE j # 1
    <3>1. j - 1 \in 1..Len(Tail(q)) /\ Tail(q)[j - 1] = q[j]
      BY <1>1, <2>1, <2>3
    <3> QED
      BY <2>1, <3>1 DEF Leaving
  <2> QED
    BY <2>2, <2>3
<1> QED
  BY <1>1, <1>2

\* A call put in front of a queue.
LEMMA QueuePush ==
  ASSUME NEW S, NEW q \in Seq(S), NEW c \in S
  PROVE  /\ <<c>> \o q \in Seq(S) /\ <<c>> \o q # <<>> /\ Head(<<c>> \o q) = c
         /\ \A i \in 2..Len(<<c>> \o q) : i - 1 \in 1..Len(q) /\ (<<c>> \o q)[i] = q[i - 1]
         /\ (<<c>> \o q)[1] = c
         /\ Leaving(q) \subseteq Leaving(<<c>> \o q)
<1> DEFINE p == <<c>> \o q
<1>1. /\ p \in Seq(S) /\ Len(p) = Len(q) + 1 /\ p[1] = c
      /\ \A i \in 2..Len(p) : p[i] = q[i - 1]
      /\ Len(q) \in Nat
  OBVIOUS
<1> HIDE DEF p
<1>2. p # <<>> /\ Head(p) = c
  BY <1>1
<1>3. ASSUME NEW k \in Leaving(q) PROVE k \in Leaving(p)
  <2>1. PICK j \in 1..Len(q) : q[j].op = "release" /\ k = q[j].key
    BY DEF Leaving
  <2>2. j + 1 \in 2..Len(p) /\ p[j + 1] = q[j] /\ j + 1 \in 1..Len(p)
    BY <1>1, <2>1
  <2> QED
    BY <2>1, <2>2 DEF Leaving
<1>4. \A i \in 2..Len(p) : i - 1 \in 1..Len(q)
  BY <1>1
<1> QED
  BY <1>1, <1>2, <1>3, <1>4 DEF p

\* Codes of the key map, of SHIFT and of no key.
LEMMA CodeFacts ==
  /\ KEY_SHIFT \in Codes /\ KEY_SHIFT \in Modifiers
  /\ NoKey \notin Codes /\ NoKey \notin Modifiers
  /\ \A m \in Menus : \A h \in m.keys : Symbol(h).key \in Codes
<1>1. Column({}) = 0
  BY DEF Column
<1>2. ~IsDip(KEY_SHIFT)
  BY <1>1 DEF IsDip, KEY_SHIFT
<1>3. KEY_SHIFT \in Codes /\ KEY_SHIFT \in Modifiers
  BY <1>2 DEF Codes, KEY_SHIFT, Modifiers
<1>4. 7 \in NoKey /\ NoKey \notin Codes /\ NoKey \notin Modifiers
  BY DEF NoKey, Bits, Codes, Modifiers, KEY_SHIFT, KEY_CTL
<1>5. ASSUME NEW m \in Menus, NEW h \in m.keys PROVE Symbol(h).key \in Codes
  <2> DEFINE shifted == HostShift \in DOMAIN held
  <2>1. h \in DOMAIN Keymap /\ shifted \in BOOLEAN
    BY <1>5, KeymapAssumption DEF KeymapAssumption
  <2>2. Symbol(h) = Keymap[h][shifted]
    BY DEF Symbol
  <2> HIDE DEF shifted
  <2>3. Keymap[h][shifted] \in [key : SUBSET (0..6), shift : BOOLEAN]
    BY <2>1, KeymapAssumption DEF KeymapAssumption
  <2>4. ~IsDip(Keymap[h][shifted].key)
    BY <2>1, KeymapAssumption DEF KeymapAssumption
  <2> QED
    BY <2>2, <2>3, <2>4 DEF Codes
<1> QED
  BY <1>3, <1>4, <1>5

\* What a step that takes the first call off the queue leaves: the rest has no
\* half of a release, and what it will press is still held.
LEMMA RestOfQueue ==
  ASSUME QueueInv, ui # <<>>, ui' = Tail(ui), UNCHANGED held
  PROVE  /\ QueueInv' /\ ~Storing(ui)' /\ Head(ui) \in Calls
         /\ \A k \in Leaving(ui) : k \in Leaving(ui)' \/ (Head(ui).op = "release" /\ k = Head(ui).key)
<1>1. /\ Head(ui) = ui[1] /\ Head(ui) \in Calls /\ ui' \in Seq(Calls)
      /\ \A i \in 1..Len(ui') : i + 1 \in 2..Len(ui) /\ ui'[i] = ui[i + 1]
      /\ \A k \in Leaving(ui) :
              k \in Leaving(ui') \/ (Head(ui).op = "release" /\ k = Head(ui).key)
  BY QueueTail DEF QueueInv
<1>2. Len(ui') \in Nat /\ Len(ui) \in Nat
  BY <1>1 DEF QueueInv
<1>3. \A i \in 1..Len(ui') : ui'[i].op \in {"press", "release"}
  BY <1>1 DEF QueueInv
<1>4. HeldKeys' = HeldKeys
  BY DEF HeldKeys
<1>5. \A i \in 1..Len(ui') :
        ui'[i].op = "press" /\ ui'[i].key \notin Modifiers => ui'[i].key \in HeldKeys'
  BY <1>1, <1>2, <1>4 DEF QueueInv
<1>6. QueueInv'
  BY <1>1, <1>2, <1>3, <1>5 DEF QueueInv
<1>7. ~Storing(ui')
  <2>1. ui' # <<>> => Head(ui') = ui'[1] /\ 1 \in 1..Len(ui')
    BY <1>1
  <2> QED
    BY <1>3, <2>1 DEF Storing
<1> QED
  BY <1>1, <1>6, <1>7 DEF Storing, Leaving

\* The key of a press goes into the table.
LEMMA PressKeepsTable ==
  ASSUME TableInv, ui # <<>>, Head(ui).op = "press", press_key(Head(ui).key),
         UNCHANGED <<held, strays, menu>>
  PROVE  TableInv'
<1> DEFINE key == Head(ui).key
<1>1. /\ ui \in Seq(Calls) /\ Head(ui) = ui[1] /\ 1 \in 1..Len(ui) /\ Tail(ui) \in Seq(Calls)
  BY QueueTail DEF TableInv, QueueInv
<1>2. ui' = Tail(ui)
  BY <1>1 DEF press_key, Then
<1>3. /\ QueueInv' /\ ~Storing(ui)' /\ Head(ui) \in Calls /\ Leaving(ui) \subseteq Leaving(ui)'
  BY <1>2, RestOfQueue DEF TableInv
<1>4. key \in Codes /\ (key \notin Modifiers => key \in HeldKeys)
  BY <1>1, <1>3 DEF TableInv, QueueInv, Calls, TableKeys
<1>5. ~Storing(ui)
  BY DEF Storing
<1>6. Accounted \subseteq Accounted' /\ HeldKeys \subseteq Accounted' /\ NoKey \in Accounted'
  BY <1>3 DEF Accounted, HeldKeys
<1>7. key # NoKey /\ (key \notin Modifiers => key \in TableKeys)
  BY <1>4, CodeFacts DEF TableKeys
<1> HIDE DEF key
<1>8. /\ modifiers' = IF key \in Modifiers THEN modifiers \cup {key} ELSE modifiers
      /\ LET new == key \notin Modifiers /\ key # key_1 /\ key # key_2
         IN /\ key_1' = IF new /\ key_1 = NoKey THEN key ELSE key_1
            /\ key_2' = IF new /\ key_1 # NoKey /\ key_2 = NoKey THEN key ELSE key_2
  BY DEF press_key, key
<1>9. TableType'
  BY <1>7, <1>8 DEF TableInv, TableType
<1>10. SoundInv'
  <2>1. /\ key_1 = NoKey => key_2 = NoKey
        /\ key_1 = key_2 => key_1 = NoKey
        /\ key_1 \in Accounted /\ key_2 \in Accounted
    BY <1>5 DEF TableInv, SoundInv
  <2>2. /\ key_1' = NoKey => key_2' = NoKey
        /\ key_1' = key_2' => key_1' = NoKey
        /\ key_1' \in Accounted' /\ key_2' \in Accounted'
    BY <1>4, <1>6, <1>7, <1>8, <2>1
  <2> QED
    BY <1>3, <2>2 DEF SoundInv
<1> QED
  BY <1>3, <1>9, <1>10 DEF TableInv

\* release_key(): a key that is not the first goes at once.
LEMMA ReleaseKeepsTable ==
  ASSUME TableInv, ui # <<>>, Head(ui).op = "release", release_key(Head(ui).key),
         UNCHANGED <<held, menu>>, strays' = strays \ {Head(ui).key}
  PROVE  TableInv'
<1> DEFINE key == Head(ui).key
           rest == Tail(ui)
<1>1. /\ ui \in Seq(Calls) /\ Head(ui) = ui[1] /\ 1 \in 1..Len(ui) /\ rest \in Seq(Calls)
      /\ Head(ui) \in Calls
      /\ \A i \in 1..Len(rest) : i + 1 \in 2..Len(ui) /\ rest[i] = ui[i + 1]
      /\ \A k \in Leaving(ui) : k \in Leaving(rest) \/ k = key
  BY QueueTail DEF TableInv, QueueInv
<1>2. ~Storing(ui)
  BY DEF Storing
<1>3. /\ key_1 = NoKey => key_2 = NoKey
      /\ key_1 = key_2 => key_1 = NoKey
      /\ key_1 \in Accounted /\ key_2 \in Accounted
  BY <1>2 DEF TableInv, SoundInv
<1>4. key \in Codes /\ key # NoKey
  BY <1>1, CodeFacts DEF Calls, TableKeys
<1>5. HeldKeys' = HeldKeys
  BY DEF HeldKeys
<1>6. ASSUME Leaving(rest) \subseteq Leaving(ui)'
      PROVE  \A k \in Accounted : k # key => k \in Accounted'
  BY <1>1, <1>5, <1>6 DEF Accounted
<1>7. modifiers' \subseteq Modifiers /\ \A h \in DOMAIN held' : held'[h] \in Codes
  BY DEF TableInv, TableType, release_key
<1>8. \A i \in 1..Len(rest) :
         /\ rest[i].op \in {"press", "release"}
         /\ rest[i].op = "press" /\ rest[i].key \notin Modifiers => rest[i].key \in HeldKeys
  <2>1. \A i \in 2..Len(ui) : i \in 1..Len(ui)
    BY <1>1
  <2> QED
    BY <1>1, <2>1 DEF TableInv, QueueInv
<1>9. CASE key = key_1 /\ key_1' = key_2 /\ Then(<<Call("store2", NoKey)>>) /\ UNCHANGED key_2
  <2> DEFINE c == Call("store2", NoKey)
  <2>1. c \in Calls /\ c.op = "store2"
    BY DEF Call, Calls
  <2>2. ui' = <<c>> \o rest
    BY <1>9 DEF Then
  <2> HIDE DEF c, rest
  <2>3. /\ ui' \in Seq(Calls) /\ ui' # <<>> /\ Head(ui') = c /\ ui'[1] = c
        /\ \A i \in 2..Len(ui') : i - 1 \in 1..Len(rest) /\ ui'[i] = rest[i - 1]
        /\ Leaving(rest) \subseteq Leaving(ui')
    BY <1>1, <2>1, <2>2, QueuePush
  <2>4. QueueInv'
    <3>1. Len(ui') \in Nat /\ \A i \in 1..Len(ui') : i = 1 \/ i \in 2..Len(ui')
      BY <2>3
    <3>2. \A i \in 2..Len(ui') :
            /\ ui'[i].op \in {"press", "release"}
            /\ ui'[i].op = "press" /\ ui'[i].key \notin Modifiers => ui'[i].key \in HeldKeys'
      BY <1>5, <1>8, <2>3
    <3> QED
      BY <2>1, <2>3, <3>1, <3>2 DEF QueueInv
  <2>5. key_1' = key_2' /\ key_1' \in Accounted'
    BY <1>3, <1>4, <1>6, <1>9, <2>3 DEF Leaving
  <2>6. SoundInv'
    BY <2>1, <2>3, <2>5 DEF SoundInv, Storing
  <2>7. TableType'
    BY <1>7, <1>9 DEF TableInv, TableType
  <2> QED
    BY <2>4, <2>6, <2>7 DEF TableInv
<1>10. CASE key = key_1 /\ key_2' = NoKey /\ Then(<<Call("store1", key_2)>>) /\ UNCHANGED key_1
  <2> DEFINE c == Call("store1", key_2)
  <2>1. c \in Calls /\ c.op = "store1" /\ c.key = key_2
    BY DEF Call, Calls, TableInv, TableType
  <2>2. ui' = <<c>> \o rest
    BY <1>10 DEF Then
  <2> HIDE DEF c, rest
  <2>3. /\ ui' \in Seq(Calls) /\ ui' # <<>> /\ Head(ui') = c /\ ui'[1] = c
        /\ \A i \in 2..Len(ui') : i - 1 \in 1..Len(rest) /\ ui'[i] = rest[i - 1]
        /\ Leaving(rest) \subseteq Leaving(ui')
    BY <1>1, <2>1, <2>2, QueuePush
  <2>4. QueueInv'
    <3>1. Len(ui') \in Nat /\ \A i \in 1..Len(ui') : i = 1 \/ i \in 2..Len(ui')
      BY <2>3
    <3>2. \A i \in 2..Len(ui') :
            /\ ui'[i].op \in {"press", "release"}
            /\ ui'[i].op = "press" /\ ui'[i].key \notin Modifiers => ui'[i].key \in HeldKeys'
      BY <1>5, <1>8, <2>3
    <3> QED
      BY <2>1, <2>3, <3>1, <3>2 DEF QueueInv
  <2>5. key_2 \in Accounted'
    BY <1>3, <1>4, <1>6, <1>10, <2>3 DEF Leaving
  <2>6. SoundInv'
    BY <1>10, <2>1, <2>3, <2>5 DEF SoundInv, Storing
  <2>7. TableType'
    BY <1>7, <1>10 DEF TableInv, TableType, TableKeys
  <2> QED
    BY <2>4, <2>6, <2>7 DEF TableInv
<1>11. CASE key # key_1 /\ Then(<<>>) /\ UNCHANGED key_1
            /\ key_2' = IF key = key_2 THEN NoKey ELSE key_2
  <2>1. ui' = rest
    BY <1>1, <1>11 DEF Then
  <2>2. QueueInv' /\ ~Storing(ui)'
    BY <2>1, RestOfQueue DEF TableInv
  <2>3. NoKey \in Accounted'
    BY DEF Accounted
  <2>4. key_1' \in Accounted' /\ key_2' \in Accounted'
    BY <1>3, <1>6, <1>11, <2>1, <2>3 DEF Leaving
  <2>5. SoundInv'
    BY <1>3, <1>11, <2>2, <2>4 DEF SoundInv
  <2>6. TableType'
    BY <1>7, <1>11 DEF TableInv, TableType, TableKeys
  <2> QED
    BY <2>2, <2>5, <2>6 DEF TableInv
<1> QED
  BY <1>9, <1>10, <1>11 DEF release_key

\* The second store of release_key() for the first key.
LEMMA StoreKeepsTable ==
  ASSUME TableInv, Storing(ui), ui' = Tail(ui), UNCHANGED <<held, strays, menu, modifiers>>,
         IF Head(ui).op = "store1" THEN key_1' = Head(ui).key /\ UNCHANGED key_2
         ELSE key_2' = Head(ui).key /\ UNCHANGED key_1
  PROVE  TableInv'
<1>1. ui # <<>> /\ Head(ui).op # "release" /\ Head(ui).op \in {"store1", "store2"}
  BY DEF Storing
<1>2. /\ QueueInv' /\ ~Storing(ui)' /\ Head(ui) \in Calls /\ Leaving(ui) \subseteq Leaving(ui)'
  BY <1>1, RestOfQueue DEF TableInv
<1>3. Accounted \subseteq Accounted' /\ NoKey \in Accounted'
  BY <1>2 DEF Accounted, HeldKeys
<1>4. CASE Head(ui).op = "store1"
  <2>1. key_1' = Head(ui).key /\ Head(ui).key \in TableKeys /\ key_2' = key_2
    BY <1>1, <1>2, <1>4 DEF Calls
  <2>2. key_2 = NoKey /\ Head(ui).key \in Accounted
    BY <1>4 DEF TableInv, SoundInv
  <2>3. TableType'
    BY <2>1 DEF TableInv, TableType
  <2>4. SoundInv'
    BY <1>2, <1>3, <2>1, <2>2 DEF SoundInv
  <2> QED
    BY <1>2, <2>3, <2>4 DEF TableInv
<1>5. CASE Head(ui).op = "store2"
  <2>1. key_2' = NoKey /\ key_1' = key_1
    BY <1>1, <1>2, <1>5 DEF Calls
  <2>2. key_1 \in Accounted
    BY <1>5 DEF TableInv, SoundInv
  <2>3. TableType'
    BY <2>1 DEF TableInv, TableType, TableKeys
  <2>4. SoundInv'
    BY <1>2, <1>3, <2>1, <2>2 DEF SoundInv
  <2> QED
    BY <1>2, <2>3, <2>4 DEF TableInv
<1> QED
  BY <1>1, <1>4, <1>5

\* A step of the host that makes no call of the keyboard.
LEMMA HostKeepsTable ==
  ASSUME TableInv, ~Storing(ui), QueueInv', ~Storing(ui)', Accounted \subseteq Accounted',
         UNCHANGED <<keyVars, menu>>, \A h \in DOMAIN held' : held'[h] \in Codes
  PROVE  TableInv'
<1>1. key_1' = key_1 /\ key_2' = key_2 /\ modifiers' = modifiers /\ menu' = menu
  BY DEF keyVars
<1>2. TableType'
  BY <1>1 DEF TableInv, TableType
<1>3. SoundInv'
  BY <1>1 DEF TableInv, SoundInv
<1> QED
  BY <1>2, <1>3 DEF TableInv

\* A key pressed on the host.
LEMMA KeyPressKeepsTable ==
  ASSUME TableInv, NEW h \in menu.keys, keyPressEvent(h)
  PROVE  TableInv'
<1> DEFINE key == Symbol(h).key
           op == IF Symbol(h).shift THEN "press" ELSE "release"
           first == Call(op, KEY_SHIFT)
           second == Call("press", key)
<1>1. /\ ui = <<>> /\ h \notin DOMAIN held
      /\ held' = [k \in DOMAIN held \cup {h} |-> IF k = h THEN key ELSE held[k]]
      /\ ui' = <<first, second>> \/ ui' = <<>>
      /\ UNCHANGED <<keyVars, menu, strays>>
  BY DEF keyPressEvent, Idle, Deliver, boardVars
<1>2. key \in Codes
  BY CodeFacts DEF TableInv, TableType
<1>3. first \in Calls /\ second \in Calls /\ op \in {"press", "release"}
      /\ first.op = op /\ first.key = KEY_SHIFT /\ second.op = "press" /\ second.key = key
  BY <1>2, CodeFacts DEF Calls, Call
<1> HIDE DEF key, op, first, second
<1>4. DOMAIN held' = DOMAIN held \cup {h} /\ held'[h] = key
      /\ \A k \in DOMAIN held : held'[k] = held[k]
  BY <1>1
<1>5. HeldKeys \subseteq HeldKeys' /\ key \in HeldKeys' /\ \A k \in DOMAIN held' : held'[k] \in Codes
  BY <1>1, <1>2, <1>4 DEF HeldKeys, TableInv, TableType
<1>6. ~Storing(ui) /\ Leaving(ui) = {}
  BY <1>1 DEF Storing, Leaving
<1>7. Accounted \subseteq Accounted'
  BY <1>1, <1>5, <1>6 DEF Accounted
<1>8. CASE ui' = <<first, second>>
  <2>1. /\ ui' \in Seq(Calls) /\ Head(ui') = first /\ Len(ui') = 2 /\ ui'[1] = first /\ ui'[2] = second
    BY <1>3, <1>8
  <2>2. \A i \in 1..Len(ui') : i = 1 \/ i = 2
    BY <2>1
  <2>3. QueueInv'
    BY <1>3, <1>5, <2>1, <2>2, CodeFacts DEF QueueInv
  <2>4. ~Storing(ui)'
    BY <1>3, <2>1 DEF Storing
  <2> QED
    BY <1>1, <1>5, <1>6, <1>7, <2>3, <2>4, HostKeepsTable
<1>9. CASE ui' = <<>>
  <2>1. QueueInv' /\ ~Storing(ui)'
    BY <1>9 DEF QueueInv, Storing
  <2> QED
    BY <1>1, <1>5, <1>6, <1>7, <2>1, HostKeepsTable
<1> QED
  BY <1>1, <1>8, <1>9

\* A key released on the host.
LEMMA KeyReleaseKeepsTable ==
  ASSUME TableInv, NEW h \in menu.keys, keyReleaseEvent(h)
  PROVE  TableInv'
<1> DEFINE key == Symbol(h).key
           first == Call("release", key)
           second == Call("release", KEY_SHIFT)
<1>1. /\ ui = <<>> /\ h \in DOMAIN held
      /\ held' = [k \in DOMAIN held \ {h} |-> held[k]]
      /\ UNCHANGED <<keyVars, menu>>
      /\ strays' = IF inside /\ key = held[h] THEN strays ELSE strays \cup {held[h]}
      /\ inside => ui' = <<first>> \o (IF HostShift \in DOMAIN held' THEN <<>> ELSE <<second>>)
      /\ ~inside => ui' = <<>>
  BY DEF keyReleaseEvent, Idle, Deliver, boardVars
<1>2. key \in Codes
  BY CodeFacts DEF TableInv, TableType
<1>3. first \in Calls /\ second \in Calls
      /\ first.op = "release" /\ second.op = "release" /\ first.key = key
  BY <1>2, CodeFacts DEF Calls, Call
<1> HIDE DEF key, first, second
<1>4. \A k \in HeldKeys : k \in HeldKeys' \/ k = held[h]
  BY <1>1 DEF HeldKeys
<1>5. \A k \in DOMAIN held' : held'[k] \in Codes
  BY <1>1 DEF TableInv, TableType
<1>6. ~Storing(ui) /\ Leaving(ui) = {}
  BY <1>1 DEF Storing, Leaving
<1>7. CASE inside
  <2> DEFINE rest == IF HostShift \in DOMAIN held' THEN <<>> ELSE <<second>>
  <2>1. ui' = <<first>> \o rest
    BY <1>1, <1>7
  <2>2. rest \in Seq(Calls) /\ \A i \in 1..Len(rest) : rest[i].op = "release"
    BY <1>3
  <2> HIDE DEF rest
  <2>3. /\ ui' \in Seq(Calls) /\ ui' # <<>> /\ Head(ui') = first /\ ui'[1] = first
        /\ \A i \in 2..Len(ui') : i - 1 \in 1..Len(rest) /\ ui'[i] = rest[i - 1]
    BY <1>3, <2>1, <2>2, QueuePush
  <2>4. 1 \in 1..Len(ui') /\ \A i \in 1..Len(ui') : ui'[i].op = "release"
    <3>1. 1 \in 1..Len(ui') /\ \A i \in 1..Len(ui') : i = 1 \/ i \in 2..Len(ui')
      BY <2>3
    <3> QED
      BY <1>3, <2>2, <2>3, <3>1
  <2>5. QueueInv'
    BY <2>3, <2>4 DEF QueueInv
  <2>6. ~Storing(ui)'
    BY <1>3, <2>3 DEF Storing
  <2>7. key \in Leaving(ui)'
    BY <1>3, <2>3, <2>4 DEF Leaving
  <2>8. Accounted \subseteq Accounted'
    BY <1>1, <1>4, <1>6, <1>7, <2>7 DEF Accounted
  <2> QED
    BY <1>1, <1>5, <1>6, <2>5, <2>6, <2>8, HostKeepsTable
<1>8. CASE ~inside
  <2>1. QueueInv' /\ ~Storing(ui)'
    BY <1>1, <1>8 DEF QueueInv, Storing
  <2>2. Accounted \subseteq Accounted'
    BY <1>1, <1>4, <1>6, <1>8 DEF Accounted
  <2> QED
    BY <1>1, <1>5, <1>6, <2>1, <2>2, HostKeepsTable
<1> QED
  BY <1>7, <1>8

\* Every step keeps the table sound.
LEMMA TableStep == TableInv /\ [SysNext]_sysVars => TableInv'
<1> SUFFICES ASSUME TableInv, [SysNext]_sysVars PROVE TableInv'
  OBVIOUS
<1>1. CASE UiThread
  <2>1. /\ UiStep /\ UNCHANGED <<held, menu>>
        /\ strays' = IF Head(ui).op = "release" THEN strays \ {Head(ui).key} ELSE strays
    BY <1>1 DEF UiThread, boardVars
  <2>2. ui # <<>> /\ Tail(ui) \in Seq(Calls)
    BY <2>1, QueueTail DEF UiStep, TableInv, QueueInv
  <2>3. CASE Head(ui).op = "press" /\ press_key(Head(ui).key)
    BY <2>1, <2>2, <2>3, PressKeepsTable
  <2>4. CASE Head(ui).op = "release" /\ release_key(Head(ui).key)
    BY <2>1, <2>2, <2>4, ReleaseKeepsTable
  <2>5. CASE \/ Head(ui).op = "store1" /\ key_1' = Head(ui).key /\ Then(<<>>)
                /\ UNCHANGED <<key_2, modifiers>>
             \/ Head(ui).op = "store2" /\ key_2' = Head(ui).key /\ Then(<<>>)
                /\ UNCHANGED <<key_1, modifiers>>
    <3>1. ui' = Tail(ui) /\ Storing(ui) /\ UNCHANGED <<strays, modifiers>>
      BY <2>1, <2>2, <2>5 DEF Then, Storing
    <3>2. IF Head(ui).op = "store1" THEN key_1' = Head(ui).key /\ UNCHANGED key_2
          ELSE key_2' = Head(ui).key /\ UNCHANGED key_1
      BY <2>5
    <3> QED
      BY <2>1, <3>1, <3>2, StoreKeepsTable
  <2> QED
    BY <2>1, <2>3, <2>4, <2>5 DEF UiStep
<1>2. CASE \E h \in menu.keys : keyPressEvent(h) \/ keyReleaseEvent(h)
  BY <1>2, KeyPressKeepsTable, KeyReleaseKeepsTable
<1>3. CASE Worker \/ Vsync \/ MouseMoves \/ UNCHANGED sysVars
  <2>1. UNCHANGED <<keyVars, ui, held, strays, menu>>
    BY <1>3 DEF Worker, KeyboardTick, Scan, Irq1, Irq2, Devices, check_mmio, Vsync, MouseMoves,
                hostVars, boardVars, sysVars, keyVars
  <2>2. UNCHANGED <<key_1, key_2, modifiers, ui, held, strays, menu>>
    BY <2>1 DEF keyVars
  <2>3. HeldKeys' = HeldKeys /\ Accounted' = Accounted
    BY <2>2 DEF HeldKeys, Accounted
  <2> QED
    BY <2>2, <2>3 DEF TableInv, TableType, QueueInv, SoundInv
<1> QED
  BY <1>1, <1>2, <1>3 DEF SysNext, Host

\* The table at the start is empty.
LEMMA TableInit == SysInit => TableInv
<1> SUFFICES ASSUME SysInit PROVE TableInv
  OBVIOUS
<1>1. ui = <<>> /\ held = <<>> /\ key_1 = NoKey /\ key_2 = NoKey /\ modifiers = {} /\ menu \in Menus
  BY DEF SysInit, KeyboardInit
<1>2. TableType
  BY <1>1 DEF TableType, TableKeys
<1>3. QueueInv /\ ~Storing(ui)
  BY <1>1 DEF QueueInv, Storing
<1>4. SoundInv
  BY <1>1, <1>3 DEF SoundInv, Accounted
<1> QED
  BY <1>2, <1>3, <1>4 DEF TableInv

\* No interleaving of the two threads, and no order of host key events, leaves
\* a gap, a key twice or a stuck key in the table.
THEOREM TableStaysSound == SysSpec => []TableIsSound
<1>1. TableInv => TableIsSound
  <2> SUFFICES ASSUME TableInv, ui = <<>> PROVE TableIsSound
    BY DEF TableIsSound
  <2>1. ~Storing(ui) /\ Leaving(ui) = {}
    BY DEF Storing, Leaving
  <2> QED
    BY <2>1 DEF TableInv, SoundInv, Accounted, HeldKeys, TableIsSound
<1> QED
  BY <1>1, TableInit, TableStep, PTL DEF SysSpec

-----------------------------------------------------------------------------
(***************************************************************************)
(* The keyboard's answer on port A.  It stays what the keyboard said of    *)
(* the code written last until the CPU takes it.                           *)
(***************************************************************************)
\* For a code it can answer for, check_pa7() says whether the key is down.
LEMMA AnswerForCode ==
  ASSUME TableType, NEW code \in SUBSET PaMask, code # key_2
  PROVE  Pa7(code) <=> Down(code)
<1>1. Column({}) = 0 /\ Column({0}) = 1
  BY DEF Column
<1>2. \A m \in Modifiers : ~IsDip(m)
  BY <1>1 DEF IsDip, Modifiers, KEY_SHIFT, KEY_CTL
<1>3. code # NoKey
  BY DEF PaMask, NoKey, Bits
<1>4. /\ key_1 \in Codes \ Modifiers \/ key_1 = NoKey
      /\ modifiers \subseteq Modifiers
  BY DEF TableType, TableKeys
<1>5. Down(code) <=> (IsDip(code) /\ 9 - Column(code) \in Dips) \/ code \in modifiers \/ code = key_1
  BY <1>3 DEF Down
<1>6. CASE IsDip(code)
  <2>1. code \notin modifiers /\ code # key_1 /\ code \notin Modifiers
    BY <1>2, <1>3, <1>4, <1>6 DEF Codes
  <2> QED
    BY <1>5, <1>6, <2>1 DEF Pa7
<1>7. CASE code \in Modifiers
  <2>1. ~IsDip(code) /\ code # key_1
    BY <1>2, <1>3, <1>4, <1>7
  <2> QED
    BY <1>5, <1>7, <2>1 DEF Pa7
<1>8. CASE ~IsDip(code) /\ code \notin Modifiers
  BY <1>4, <1>5, <1>8 DEF Pa7
<1> QED
  BY <1>6, <1>7, <1>8

\* A scan of the keyboard answers what is asked.
LEMMA ScanAnswers ==
  ASSUME AnswerInv, TableType, Scan,
         truth' = IF pa_sub # pa_sub'
                  THEN [down |-> Down(pa_sub.data),
                        sure |-> Column(pa_sub.data) <= LastColumn /\ pa_sub.data # key_2]
                  ELSE truth
  PROVE  AnswerInv'
<1> DEFINE code == pa_sub.data
<1>1. code \in SUBSET PaMask /\ pa_sub \in Subscriber(PaMask) /\ pa_provider \in Provider
  BY DEF AnswerInv, Subscriber
<1>2. CASE pa_sub' = pa_sub /\ pa_provider' = pa_provider
  BY <1>2 DEF AnswerInv
<1>3. CASE pa_sub.changed /\ pa_sub' = Seen(pa_sub) /\ check_pa7(code)
  <2>1. pa_sub' \in Subscriber(PaMask) /\ pa_sub' # pa_sub
    BY <1>1, <1>3 DEF Seen, Subscriber
  <2>2. truth'.down = Down(code) /\ truth'.sure = (Column(code) <= LastColumn /\ code # key_2)
    BY <2>1
  <2> DEFINE answer == IF Pa7(code) THEN code \cup {7} ELSE {}
  <2>3. CASE Column(code) > LastColumn
    <3>1. pa_provider' = pa_provider
      BY <1>3, <2>3 DEF check_pa7
    <3>2. ~(Column(code) <= LastColumn)
      <4>1. Column(code) \in Nat
        BY DEF Column
      <4>2. LastColumn \in Nat
        BY KeyboardAssumption DEF KeyboardAssumption
      <4> QED
        BY <2>3, <4>1, <4>2
    <3> QED
      BY <1>1, <2>1, <2>2, <3>1, <3>2 DEF AnswerInv
  <2>4. CASE ~(Column(code) > LastColumn)
    <3>1. pa_provider' = [data |-> answer, has |-> TRUE]
      BY <1>3, <2>4 DEF check_pa7, provide_data
    <3>2. answer \in Byte /\ (7 \in answer <=> Pa7(code))
      BY <1>1 DEF PaMask, Byte, Bits
    <3>3. code # key_2 => (Pa7(code) <=> Down(code))
      BY <1>1, AnswerForCode
    <3> HIDE DEF answer, code
    <3>4. pa_provider' \in Provider /\ pa_provider'.data = answer
      BY <3>1, <3>2 DEF Provider
    <3>5. truth'.sure => (7 \in answer <=> truth'.down)
      BY <2>2, <3>2, <3>3
    <3> QED
      BY <2>1, <3>4, <3>5 DEF AnswerInv
  <2> QED
    BY <2>3, <2>4
<1> QED
  BY <1>2, <1>3 DEF Scan

\* The VIA sends port A only to the bits the keyboard listens to, and takes an
\* answer without changing it.
LEMMA ViaKeepsAnswer ==
  ASSUME AnswerInv, UNCHANGED truth,
         pa_provider' = pa_provider \/ pa_provider' = Taken(pa_provider),
         \/ pa_sub' = pa_sub
         \/ \E pa, sent : pa_sub' = Notified(pa_sub, PaMask, pa, sent)
  PROVE  AnswerInv'
<1>1. pa_sub' \in Subscriber(PaMask)
  <2>1. \A pa, sent : Notified(pa_sub, PaMask, pa, sent) \in Subscriber(PaMask)
    BY DEF AnswerInv, Notified, Subscriber
  <2> QED
    BY <2>1 DEF AnswerInv
<1>2. /\ pa_provider' \in Provider /\ pa_provider'.data = pa_provider.data
      /\ pa_provider'.has => pa_provider.has
  BY DEF AnswerInv, Provider, Taken
<1> QED
  BY <1>1, <1>2 DEF AnswerInv

\* What an access does to port A: it takes an answer, or asks.
LEMMA AccessToPortA ==
  ASSUME NEW a, Access(a)
  PROVE  /\ \/ pa_provider' = pa_provider
            \/ "PA_LATCH" \notin acr /\ pa_provider' = Taken(pa_provider)
         /\ pa_sub' = pa_sub \/ \E pa, sent : pa_sub' = Notified(pa_sub, PaMask, pa, sent)
<1>1. CASE a.rw = "R"
  BY <1>1 DEF Access, mmio_read, outputVars, inputVars
<1>2. CASE a.rw # "R"
  <2>1. \A low, high : WriteLatch(low, high) => UNCHANGED <<pa_sub, pa_provider>>
    BY DEF WriteLatch, outputVars, inputVars
  <2>2. WriteT1CH(a.data) \/ WriteT2CL(a.data) \/ WriteT2CH(a.data) \/ write_port_b(a.data)
          => UNCHANGED <<pa_sub, pa_provider>>
    BY DEF WriteT1CH, WriteT2CL, WriteT2CH, write_port_b, outputVars, inputVars
  <2>3. write_port_a(a.data) =>
          /\ UNCHANGED pa_provider
          /\ pa_sub' = pa_sub \/ \E pa, sent : pa_sub' = Notified(pa_sub, PaMask, pa, sent)
    BY DEF write_port_a, inputVars
  <2>4. mmio_write(a.reg, a.data)
    BY <1>2 DEF Access
  <2> QED
    BY <2>1, <2>2, <2>3, <2>4 DEF mmio_write, outputVars, inputVars
<1> QED
  BY <1>1, <1>2

\* Every step keeps the answers true.
LEMMA AnswerStep == AnswerInv /\ TableType /\ [SysNext]_sysVars => AnswerInv'
<1> SUFFICES ASSUME AnswerInv, TableType, [SysNext]_sysVars PROVE AnswerInv'
  OBVIOUS
<1>1. CASE KeyboardTick
  <2>1. CASE Scan
    <3>1. at = "scan"
      BY <2>1 DEF Scan
    <3> QED
      BY <1>1, <2>1, <3>1, ScanAnswers DEF KeyboardTick
  <2>2. CASE Irq1 \/ Irq2
    <3>1. UNCHANGED <<pa_sub, pa_provider, truth>>
      BY <1>1, <2>2 DEF KeyboardTick, Irq1, Irq2
    <3> QED
      BY <3>1 DEF AnswerInv
  <2> QED
    BY <1>1, <2>1, <2>2 DEF KeyboardTick
<1>2. CASE Devices
  <2>1. UNCHANGED <<truth, pa_sub>> /\ (pa_provider' = pa_provider \/ pa_provider' = Taken(pa_provider))
    BY <1>2 DEF Devices, tick_timers, check_ca1
  <2> QED
    BY <2>1, ViaKeepsAnswer
<1>3. CASE check_mmio
  <2>1. UNCHANGED truth
    BY <1>3 DEF check_mmio
  <2>2. CASE UNCHANGED <<pa_sub, pa_provider>>
    BY <2>1, <2>2, ViaKeepsAnswer
  <2>3. CASE \E a \in menu.cpu : Access(a)
    BY <2>1, <2>3, AccessToPortA, ViaKeepsAnswer
  <2> QED
    BY <1>3, <2>2, <2>3 DEF check_mmio, connectors
<1>4. CASE Vsync \/ Host \/ UNCHANGED sysVars
  <2>1. UNCHANGED <<pa_sub, pa_provider, truth>>
    BY <1>4 DEF Vsync, Host, UiThread, UiStep, MouseMoves, keyPressEvent, keyReleaseEvent,
                connectors, boardVars, sysVars
  <2> QED
    BY <2>1 DEF AnswerInv
<1> QED
  BY <1>1, <1>2, <1>3, <1>4 DEF SysNext, Worker

\* A read of port A that takes the keyboard's answer gets a true one.
THEOREM AnswersAreTrue == SysSpec => AnswerIsTrue
<1> DEFINE Inv == TableInv /\ AnswerInv
           Told == at = "access" /\ pa_provider.has /\ ~pa_provider'.has
                     /\ 7 \notin ddra /\ ~pa_sub.changed /\ truth.sure
                   => (7 \in PaRead <=> truth.down)
<1>1. SysInit => AnswerInv
  BY DEF SysInit, ViaInit, NewSubscriber, NewProvider, Subscriber, Provider, Byte, AnswerInv
<1>2. AnswerInv /\ [SysNext]_sysVars => [Told]_sysVars
  <2> SUFFICES ASSUME AnswerInv, SysNext, at = "access", pa_provider.has, ~pa_provider'.has,
                      7 \notin ddra, truth.sure
               PROVE  7 \in PaRead <=> truth.down
    BY DEF Told
  <2>1. check_mmio
    BY DEF SysNext, Worker, KeyboardTick, Scan, Irq1, Irq2, Devices, Vsync, Host, UiThread,
           MouseMoves, keyPressEvent, keyReleaseEvent, Idle, Scanning
  <2>2. pa_provider' # pa_provider
    OBVIOUS
  <2>3. PICK a \in menu.cpu : Access(a)
    BY <2>1, <2>2 DEF check_mmio, connectors
  <2>4. "PA_LATCH" \notin acr
    BY <2>2, <2>3, AccessToPortA
  <2>5. 7 \in PaRead <=> 7 \in pa_provider.data
    BY <2>4 DEF PaRead, read_port_a
  <2> QED
    BY <2>5 DEF AnswerInv
<1> QED
  <2>1. Inv /\ [SysNext]_sysVars => Inv'
    BY AnswerStep, TableStep DEF TableInv
  <2>2. SysInit => Inv
    BY <1>1, TableInit
  <2>3. Inv /\ [SysNext]_sysVars => [Told]_sysVars
    BY <1>2
  <2> QED
    BY <2>1, <2>2, <2>3, PTL DEF SysSpec, AnswerIsTrue
=============================================================================
