------------------------------ MODULE Keyboard ------------------------------
(***************************************************************************)
(* The keyboard: the worker scans it once per microsecond, the UI thread   *)
(* presses and releases keys.  The two share key_1, key_2 and the SHIFT    *)
(* and CTRL keys without a lock, so a step of the model ends where one     *)
(* thread may see what the other has done.  A key code has its column in   *)
(* bits 0 to 3 and its row in bits 4 to 6.                                 *)
(***************************************************************************)
EXTENDS ViaConnections, Sequences

CONSTANTS
  ScanModulus,  \* where the column counter wraps (15)
  LastColumn,   \* the last column there is (9)
  Dips          \* the DIP switches that are closed, a set of bits

ASSUME KeyboardAssumption ==
  /\ ScanModulus \in Nat \ {0} /\ LastColumn \in 0..(ScanModulus - 1)
  /\ Dips \subseteq Bits

VARIABLES
  auto_scan,    \* auto_scan_enabled_
  scan_col,
  leds,         \* the lights that are on
  we_src, cl_led_src, sl_led_src,  \* subscribers to the addressable latch
  key_1, key_2, \* the keys down, NoKey when there is none
  modifiers,    \* shift_pressed_ and ctrl_pressed_, as the set of their codes
  at,           \* where the worker is
  ui            \* what the UI thread is about to do

scanVars == <<auto_scan, scan_col, leds, we_src, cl_led_src, sl_led_src>>
keyVars == <<key_1, key_2, modifiers>>

NoKey == Bits
KEY_SHIFT == {}
KEY_CTL == {0}
Modifiers == {KEY_SHIFT, KEY_CTL}
WeMask == {3}
ClMask == {6}
SlMask == {7}

Column(code) ==
  LET bit(b) == IF b \in code THEN 2^b ELSE 0 IN bit(0) + bit(1) + bit(2) + bit(3)
IsDip(code) == code \cap {4, 5, 6} = {} /\ Column(code) \in 2..9

-----------------------------------------------------------------------------
(***************************************************************************)
(* tick() on the worker.                                                   *)
(***************************************************************************)
\* What check_leds() makes of the level of a line: the lights are active low.
On(data) == data = {}

\* A light follows its line when that was notified.
Lit(led, src) ==
  IF src.changed THEN (IF On(src.data) THEN {led} ELSE {}) ELSE leds \cap {led}
check_leds ==
  /\ leds' = Lit("caps", cl_led_src) \cup Lit("shift", sl_led_src)
  /\ cl_led_src' = Seen(cl_led_src)
  /\ sl_led_src' = Seen(sl_led_src)

check_we ==
  /\ auto_scan' = IF we_src.changed THEN we_src.data # {} ELSE auto_scan
  /\ we_src' = Seen(we_src)

\* check_pa7(): is the key down?  A match with key_2 is overwritten at once by
\* the answer for a key that is not down, so key_2 plays no part.
Pa7(code) ==
  CASE IsDip(code) -> 9 - Column(code) \in Dips
    [] code \in Modifiers -> code \in modifiers
    [] OTHER -> code = key_1

\* Variant of check_pa7: only a key that is down is answered for.
check_pa7_stale(code) ==
  pa_provider' = IF Pa7(code) THEN provide_data(code \cup {7}) ELSE pa_provider

check_pa7(code) ==
  pa_provider' = IF Column(code) > LastColumn THEN pa_provider
                 ELSE provide_data(IF Pa7(code) THEN code \cup {7} ELSE {})

\* tick() up to check_irq().
Scan ==
  /\ at = "scan"
  /\ check_leds
  /\ check_we
  /\ IF ~auto_scan' /\ pa_sub.changed
     THEN /\ scan_col' = Column(pa_sub.data)
          /\ check_pa7(pa_sub.data)
          /\ pa_sub' = Seen(pa_sub)
     ELSE UNCHANGED <<scan_col, pa_provider, pa_sub>>
  /\ at' = "irq1"
  /\ UNCHANGED <<keyVars, ui, ca1_provider, ca2_provider, pb_sub>>

\* check_irq(), key_1 and then key_2, and the column that comes next.
KeyInColumn(key) == key # NoKey /\ Column(key) = scan_col
NextColumn ==
  /\ scan_col' = IF auto_scan THEN (scan_col + 1) % ScanModulus ELSE scan_col
  /\ at' = "devices"
Irq1 ==
  /\ at = "irq1"
  /\ IF KeyInColumn(key_1)
     THEN ca2_provider' = provide_data({}) /\ NextColumn
     ELSE at' = "irq2" /\ UNCHANGED <<ca2_provider, scan_col>>
  /\ UNCHANGED <<auto_scan, leds, we_src, cl_led_src, sl_led_src, keyVars, ui,
                 pa_provider, ca1_provider, pa_sub, pb_sub>>

\* Variant of Irq2: only the first key interrupts.
Irq2Never ==
  /\ at = "irq2"
  /\ NextColumn
  /\ UNCHANGED <<auto_scan, leds, we_src, cl_led_src, sl_led_src, keyVars, ui,
                 pa_provider, ca1_provider, ca2_provider, pa_sub, pb_sub>>

Irq2 ==
  /\ at = "irq2"
  /\ ca2_provider' = IF KeyInColumn(key_2) THEN provide_data({}) ELSE ca2_provider
  /\ NextColumn
  /\ UNCHANGED <<auto_scan, leds, we_src, cl_led_src, sl_led_src, keyVars, ui,
                 pa_provider, ca1_provider, pa_sub, pb_sub>>

-----------------------------------------------------------------------------
(***************************************************************************)
(* press_key() and release_key() on the UI thread, one call or one store   *)
(* at a time.  The two stores of release_key() for key_1 race with the     *)
(* worker's reads, and may be seen in either order.                        *)
(***************************************************************************)
Call(op, key) == [op |-> op, key |-> key]
Then(rest) == ui' = rest \o Tail(ui)

press_key(key) ==
  /\ Then(<<>>)
  /\ modifiers' = IF key \in Modifiers THEN modifiers \cup {key} ELSE modifiers
  /\ LET new == key \notin Modifiers /\ key # key_1 /\ key # key_2
     IN /\ key_1' = IF new /\ key_1 = NoKey THEN key ELSE key_1
        /\ key_2' = IF new /\ key_1 # NoKey /\ key_2 = NoKey THEN key ELSE key_2

\* Variant of release_key: only the first key is looked for.
release_key_first(key) ==
  /\ modifiers' = modifiers \ {key}
  /\ Then(<<>>)
  /\ IF key = key_1 THEN key_1' = key_2 /\ key_2' = NoKey ELSE UNCHANGED <<key_1, key_2>>

release_key(key) ==
  /\ modifiers' = modifiers \ {key}
  /\ \/ key = key_1 /\ key_1' = key_2 /\ Then(<<Call("store2", NoKey)>>) /\ UNCHANGED key_2
     \/ key = key_1 /\ key_2' = NoKey /\ Then(<<Call("store1", key_2)>>) /\ UNCHANGED key_1
     \/ key # key_1 /\ Then(<<>>) /\ UNCHANGED key_1 /\ key_2' = IF key = key_2 THEN NoKey ELSE key_2

UiStep ==
  /\ ui # <<>>
  /\ LET c == Head(ui)
     IN \/ c.op = "press" /\ press_key(c.key)
        \/ c.op = "release" /\ release_key(c.key)
        \/ c.op = "store1" /\ key_1' = c.key /\ Then(<<>>) /\ UNCHANGED <<key_2, modifiers>>
        \/ c.op = "store2" /\ key_2' = c.key /\ Then(<<>>) /\ UNCHANGED <<key_1, modifiers>>
  /\ UNCHANGED <<scanVars, at, pa_provider, ca1_provider, ca2_provider, pa_sub, pb_sub>>

KeyboardInit ==
  /\ auto_scan = TRUE /\ scan_col = 0 /\ leds = {}
  /\ we_src = NewSubscriber /\ cl_led_src = NewSubscriber /\ sl_led_src = NewSubscriber
  /\ key_1 = NoKey /\ key_2 = NoKey /\ modifiers = {}
  /\ at = "scan" /\ ui = <<>>
=============================================================================
