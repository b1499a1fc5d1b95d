----------------------------- MODULE SystemVia ------------------------------
(***************************************************************************)
(* The system VIA on the board: once per microsecond the worker ticks the  *)
(* keyboard, the VIA and the addressable latch and then lets the CPU reach *)
(* a register; the CRTC drives CA1; the host's key events arrive on the UI *)
(* thread whenever they like.                                              *)
(*                                                                         *)
(* A host key gives one symbol with the host's SHIFT and one without, and  *)
(* the key map gives each symbol a key and whether SHIFT goes with it.     *)
(* Only the keyboard's part of a microsecond looks at the keys, so the UI  *)
(* thread takes its steps there.                                           *)
(***************************************************************************)
EXTENDS Via, Keyboard

CONSTANTS
  Menus,       \* what there is to do: register accesses of the CPU, host keys,
               \* whether the mouse moves and the CRTC makes vertical syncs; a
               \* behaviour follows one menu
  Keymap       \* the keymap(): what a host key is with and without SHIFT

\* A write to IFR clears the flags its lower seven bits name, and one to IER
\* enables or disables those.
ASSUME MenuAssumption ==
  \A m \in Menus : \A a \in m.cpu :
    a.rw # "R" /\ a.reg \in {"IFR", "IER_SET", "IER_CLEAR"} => a.data \subseteq Sources

\* The key map has the keyboard's own codes: none has bit 7 and none is a switch.
ASSUME KeymapAssumption ==
  /\ Keymap \in [DOMAIN Keymap -> [BOOLEAN -> [key : SUBSET (0..6), shift : BOOLEAN]]]
  /\ \A h \in DOMAIN Keymap, s \in BOOLEAN : ~IsDip(Keymap[h][s].key)
  /\ \A m \in Menus : m.keys \subseteq DOMAIN Keymap

HostShift == "SHIFT"

VARIABLES
  latched,     \* latched_value_ of the addressable latch
  held,        \* the host keys that are down, and what each was pressed as
  inside,      \* the mouse is over the screen, and the event filter installed
  menu,        \* the menu of this behaviour
  driven,      \* history: the pins of the latch the CPU has last set high
  strays,      \* history: keys whose release was not delivered, or to another
  truth        \* history: whether the key the keyboard was last asked for was
               \* down when it looked, and whether it is one it can answer for

boardVars == <<latched, menu, driven, truth>>
hostVars == <<held, inside, strays>>
chipVars == <<portVars, controlVars, irqs, timerVars, ca1, pa_latch>>
connectors == <<pa_provider, ca1_provider, ca2_provider, pa_sub, pb_sub>>
sysVars == <<chipVars, connectors, scanVars, keyVars, at, ui, boardVars, hostVars>>

-----------------------------------------------------------------------------
(***************************************************************************)
(* The addressable latch: IC32Latch::tick().                               *)
(***************************************************************************)
Pin(data) == LET bit(b) == IF b \in data THEN 2^b ELSE 0 IN bit(0) + bit(1) + bit(2)

\* Variant of latch_tick: the pin is taken from all four bits.
latch_tick_pin8 ==
  IF ~pb_sub.changed
  THEN UNCHANGED <<pb_sub, latched, we_src, cl_led_src, sl_led_src>>
  ELSE LET pin == Column(pb_sub.data)
           out == IF 3 \in pb_sub.data THEN latched \cup {pin} ELSE latched \ {pin}
       IN /\ pb_sub' = Seen(pb_sub)
          /\ latched' = out \cap Bits
          /\ we_src' = Notified(we_src, WeMask, out, {pin})
          /\ cl_led_src' = Notified(cl_led_src, ClMask, out, {pin})
          /\ sl_led_src' = Notified(sl_led_src, SlMask, out, {pin})

latch_tick ==
  IF ~pb_sub.changed
  THEN UNCHANGED <<pb_sub, latched, we_src, cl_led_src, sl_led_src>>
  ELSE LET pin == Pin(pb_sub.data)
           out == IF 3 \in pb_sub.data THEN latched \cup {pin} ELSE latched \ {pin}
       IN /\ pb_sub' = Seen(pb_sub)
          /\ latched' = out
          /\ we_src' = Notified(we_src, WeMask, out, {pin})
          /\ cl_led_src' = Notified(cl_led_src, ClMask, out, {pin})
          /\ sl_led_src' = Notified(sl_led_src, SlMask, out, {pin})

-----------------------------------------------------------------------------
(***************************************************************************)
(* The worker's microsecond: keyboard, timers, latch, register access.     *)
(***************************************************************************)
Down(code) ==
  \/ IsDip(code) /\ 9 - Column(code) \in Dips
  \/ code \in modifiers \cup ({key_1, key_2} \ {NoKey})

KeyboardTick ==
  /\ Scan \/ Irq1 \/ Irq2
  /\ truth' = IF at = "scan" /\ pa_sub # pa_sub'
              THEN [down |-> Down(pa_sub.data),
                    sure |-> Column(pa_sub.data) <= LastColumn /\ pa_sub.data # key_2]
              ELSE truth
  /\ UNCHANGED <<chipVars, latched, menu, driven, hostVars>>

Devices ==
  /\ at = "devices"
  /\ tick_timers
  /\ latch_tick
  /\ at' = "access"
  /\ UNCHANGED <<auto_scan, scan_col, leds, keyVars, ui, pa_sub, menu, driven, truth, hostVars>>

\* The dispatch to the VIA, when the CPU is addressing it.
Access(a) == IF a.rw = "R" THEN mmio_read(a.reg) ELSE mmio_write(a.reg, a.data)
check_mmio ==
  /\ at = "access"
  /\ \/ UNCHANGED <<chipVars, connectors, driven>>
     \/ \E a \in menu.cpu :
          /\ Access(a)
          /\ driven' = IF a.reg # "IORB" \/ ~pb_sub'.changed THEN driven
                       ELSE IF 3 \in pb_sub'.data THEN driven \cup {Pin(pb_sub'.data)}
                       ELSE driven \ {Pin(pb_sub'.data)}
  /\ at' = "scan"
  /\ UNCHANGED <<scanVars, keyVars, ui, latched, menu, truth, hostVars>>

Worker == KeyboardTick \/ Devices \/ check_mmio

-----------------------------------------------------------------------------
(***************************************************************************)
(* Everything else.                                                        *)
(***************************************************************************)
Scanning == at \in {"scan", "irq1", "irq2"}

\* The CRTC begins or ends a vertical sync.
Vsync ==
  /\ menu.vsync
  /\ at = "scan"
  /\ \E level \in {{}, Bits} : ca1_provider' = provide_data(level)
  /\ UNCHANGED <<chipVars, pa_provider, ca2_provider, pa_sub, pb_sub, scanVars, keyVars, at, ui,
                 boardVars, hostVars>>

\* What host key h is now.
Symbol(h) == Keymap[h][(HostShift \in DOMAIN held)]
Deliver(calls) == ui' = IF inside THEN calls ELSE <<>>
Idle == Scanning /\ ui = <<>>

\* VduView::keyPressEvent()
keyPressEvent(h) ==
  /\ Idle
  /\ h \notin DOMAIN held
  /\ held' = [k \in DOMAIN held \cup {h} |-> IF k = h THEN Symbol(h).key ELSE held[k]]
  /\ Deliver(<<Call(IF Symbol(h).shift THEN "press" ELSE "release", KEY_SHIFT),
               Call("press", Symbol(h).key)>>)
  /\ UNCHANGED <<chipVars, connectors, scanVars, keyVars, at, boardVars, inside, strays>>

\* VduView::keyReleaseEvent(), which sees the modifiers after the event.
keyReleaseEvent(h) ==
  /\ Idle
  /\ h \in DOMAIN held
  /\ held' = [k \in DOMAIN held \ {h} |-> held[k]]
  /\ Deliver(<<Call("release", Symbol(h).key)>>
             \o (IF HostShift \in DOMAIN held' THEN <<>> ELSE <<Call("release", KEY_SHIFT)>>))
  /\ strays' = IF inside /\ Symbol(h).key = held[h] THEN strays ELSE strays \cup {held[h]}
  /\ UNCHANGED <<chipVars, connectors, scanVars, keyVars, at, boardVars, inside>>

\* enterEvent() and leaveEvent() install and remove the event filter.
MouseMoves ==
  /\ Idle
  /\ menu.mouse
  /\ inside' = ~inside
  /\ UNCHANGED <<chipVars, connectors, scanVars, keyVars, at, ui, boardVars, held, strays>>

\* The UI thread goes on with a call.
UiThread ==
  /\ Scanning
  /\ UiStep
  /\ strays' = IF Head(ui).op = "release" THEN strays \ {Head(ui).key} ELSE strays
  /\ UNCHANGED <<chipVars, boardVars, held, inside>>

Host == UiThread \/ MouseMoves \/ \E h \in menu.keys : keyPressEvent(h) \/ keyReleaseEvent(h)

SysInit ==
  /\ ViaInit /\ KeyboardInit
  /\ latched = Bits /\ driven = Bits
  /\ held = <<>> /\ inside = TRUE /\ strays = {}
  /\ menu \in Menus
  /\ truth = [down |-> FALSE, sure |-> FALSE]

SysNext == Worker \/ Vsync \/ Host

\* Both threads go on.  The UI thread may take its steps at any moment; as it
\* takes them only where the worker looks at the keys, which comes round every
\* microsecond, its fairness is strong here.
SysSpec == SysInit /\ [][SysNext]_sysVars /\ WF_sysVars(Worker) /\ SF_sysVars(UiThread)

-----------------------------------------------------------------------------
(***************************************************************************)
(* Properties.                                                             *)
(***************************************************************************)
\* What the CPU wrote to the latch reaches the keyboard: no write is lost
\* between the port, the latch and the keyboard's subscriptions, and autoscan
\* and both lights are what the keyboard makes of the last write of their pin,
\* as soon as nothing is on its way.  Which level lights a light is On(), from
\* check_leds(); TestKeyboardLEDs.cpp has the opposite one.
LatchFollowsWrites ==
  /\ ~pb_sub.changed => latched = driven
  /\ ~we_src.changed => (auto_scan <=> 3 \in latched)
  /\ ~cl_led_src.changed => ("caps" \in leds <=> On(latched \cap ClMask))
  /\ ~sl_led_src.changed => ("shift" \in leds <=> On(latched \cap SlMask))

\* A read of port A that takes the keyboard's answer to the key code written
\* last gets a true one: PA7 says whether that key was down when the keyboard
\* looked, whatever was written, scanned, latched and left unread before.  The
\* second of two keys and the columns without keys are not answered for.
AnswerIsTrue ==
  [][at = "access" /\ pa_provider.has /\ ~pa_provider'.has
       /\ 7 \notin ddra /\ ~pa_sub.changed /\ truth.sure
     => (7 \in PaRead <=> truth.down)]_sysVars

\* Between two calls of the UI thread the table has no gap, no key twice and no
\* key that is stuck: every key in it is one that a host key that is down was
\* pressed as, or one whose release was lost on the host side.
TableIsSound ==
  ui = <<>> =>
    /\ key_1 = NoKey => key_2 = NoKey
    /\ key_1 = key_2 => key_1 = NoKey
    /\ {key_1, key_2} \ {NoKey} \subseteq {held[h] : h \in DOMAIN held} \cup strays

\* A key in the table, wherever it is moved to, keeps interrupting as long as
\* autoscan is on: time and again CA2 falls as its own column goes by, however
\* the other key comes and goes and whatever the CPU does.
InTable(k) ==
  \/ k \in {key_1, key_2}
  \/ ui # <<>> /\ Head(ui).op = "store1" /\ Head(ui).key = k
Interrupts(k) ==
  at = "devices" /\ scan_col = (Column(k) + 1) % ScanModulus /\ Ca2Falls
HeldKeyInterrupts ==
  \A k \in {Keymap[h][s].key : h \in DOMAIN Keymap, s \in BOOLEAN} \ Modifiers :
    <>[](InTable(k) /\ auto_scan) => []<>Interrupts(k)
=============================================================================
