------------------------- MODULE BreakpointManager -------------------------
(***************************************************************************)
(* The debugger's breakpoints, watches and logpoints: BreakpointManager    *)
(* owns them and writes and reads them as a file; every change is a Qt     *)
(* signal that main.cc connects to the execution engine's own tables.      *)
(* Signals, slots and dialogs all run on the UI thread, so a handler is    *)
(* one action.  A table maps an address to its optional value: a watch's   *)
(* trigger value, a logpoint's memory address; a breakpoint has none.      *)
(***************************************************************************)
EXTENDS Naturals, Sequences, FiniteSets

CONSTANTS
  AddrSpace,  \* number of addresses (2^16)
  ByteSpace,  \* number of byte values (2^8)
  Null,       \* std::nullopt
  Bad,        \* a field of a file that is not a number
  Numbers,    \* the numbers a file may hold
  MaxLines    \* bound on the length of a file

ASSUME ManagerAssumption ==
  /\ AddrSpace \in Nat \ {0} /\ ByteSpace \in Nat \ {0} /\ MaxLines \in Nat
  /\ Numbers \subseteq Nat /\ Null \notin Nat /\ Bad \notin Nat

VARIABLES
  manager,  \* BreakpointManager's breakpoints_, watches_, logpoints_
  engine    \* ExecutionEngine's breakpoints_, watches_ (triggers), logpoints_

vars == <<manager, engine>>

Kinds == {"BP", "W", "LP"}
Addrs == 0..(AddrSpace - 1)

\* The values a point of each kind can have.
Values(k) == CASE k = "BP" -> {Null}
               [] k = "W"  -> {Null} \cup 0..(ByteSpace - 1)
               [] k = "LP" -> {Null} \cup Addrs

None == [a \in {} |-> Null]
Empty == [k \in Kinds |-> None]

Init ==
  /\ manager = Empty
  /\ engine = Empty

Put(t, k, a, v) ==
  [t EXCEPT ![k] = [x \in DOMAIN t[k] \cup {a} |-> IF x = a THEN v ELSE t[k][x]]]

Drop(t, k, S) == [t EXCEPT ![k] = [x \in DOMAIN t[k] \ S |-> t[k][x]]]

\* set_breakpoint(), set_watch(), set_logpoint(): refused if the address is
\* set; otherwise the signal makes the engine insert the point as well.
SetPoint(p, k, a, v) ==
  IF a \in DOMAIN p.m[k] THEN p
  ELSE [m |-> Put(p.m, k, a, v), e |-> Put(p.e, k, a, v)]

\* The handler leaves the tables as in p.
Becomes(p) == manager' = p.m /\ engine' = p.e

Set(k, a, v) ==
  /\ a \notin DOMAIN manager[k]
  /\ Becomes(SetPoint([m |-> manager, e |-> engine], k, a, v))

\* Variant of Clear: the signal is not emitted.
ClearSilently(k, a) ==
  /\ a \in DOMAIN manager[k]
  /\ manager' = Drop(manager, k, {a})
  /\ UNCHANGED engine

\* clear_breakpoint(), clear_watch(), clear_logpoint()
Clear(k, a) ==
  /\ a \in DOMAIN manager[k]
  /\ manager' = Drop(manager, k, {a})
  /\ engine' = Drop(engine, k, {a})

\* clear_all(), clear_all_watches(), clear_all_logpoints(): one signal for
\* each point the manager had.
ClearAll(k) ==
  /\ manager' = Drop(manager, k, DOMAIN manager[k])
  /\ engine' = Drop(engine, k, DOMAIN manager[k])

-----------------------------------------------------------------------------
(***************************************************************************)
(* Files.  A line is its type, its address and its optional value, as      *)
(* numbers of any size; a blank line or a comment has the type "other".    *)
(***************************************************************************)
Lines == [type : Kinds \cup {"other"}, addr : Numbers \cup {Bad},
          val : Numbers \cup {Bad, Null}]

\* The addresses of a table as a std::map iterates over them.
InOrder(S) ==
  LET I == 1..Cardinality(S)
  IN  CHOOSE s \in [I -> S] : \A i, j \in I : i < j => s[i] < s[j]

\* save_to_file(): the three tables in turn, each in the order of addresses.
TableLines(t, k) ==
  LET order == InOrder(DOMAIN t[k])
  IN  [i \in 1..Len(order) |-> [type |-> k, addr |-> order[i], val |-> t[k][order[i]]]]

\* Variant of SaveLines: the logpoints are left out.
SaveLinesNoLogpoints(t) == TableLines(t, "BP") \o TableLines(t, "W")

SaveLines(t) == TableLines(t, "BP") \o TableLines(t, "W") \o TableLines(t, "LP")

\* The value load_from_file() takes from a line: static_cast keeps the low
\* bits, what is not a number counts as absent.
LineValue(l) ==
  IF l.type = "BP" \/ l.val \in {Null, Bad} THEN Null
  ELSE l.val % (IF l.type = "W" THEN ByteSpace ELSE AddrSpace)

\* load_from_file(): a line whose address is not a number is skipped.
LoadLine(p, l) ==
  IF l.type = "other" \/ l.addr = Bad THEN p
  ELSE SetPoint(p, l.type, l.addr % AddrSpace, LineValue(l))

\* The tables after the first n lines, for every n up to the last.
LoadLines(p, f) ==
  LET after[n \in 0..Len(f)] == IF n = 0 THEN p ELSE LoadLine(after[n - 1], f[n])
  IN  after[Len(f)]

LoadFromFile(f) == Becomes(LoadLines([m |-> manager, e |-> engine], f))

Next ==
  \/ \E k \in Kinds : \/ \E a \in Addrs : (\E v \in Values(k) : Set(k, a, v)) \/ Clear(k, a)
                      \/ ClearAll(k)
  \/ \E n \in 0..MaxLines : \E f \in [1..n -> Lines] : LoadFromFile(f)

Spec == Init /\ [][Next]_vars

-----------------------------------------------------------------------------
\* The engine stops and logs exactly where the manager's windows say it does,
\* with the same triggers, after any sequence of edits and loads, and no point
\* has an address or a value wider than its field.
EngineMirrorsManager ==
  /\ engine = manager
  /\ \A k \in Kinds : /\ DOMAIN manager[k] \subseteq Addrs
                      /\ \A a \in DOMAIN manager[k] : manager[k][a] \in Values(k)

\* What save_to_file() writes, load_from_file() reads back: loaded into an
\* empty manager the file restores every point with its value.
SaveThenLoadRestores ==
  LoadLines([m |-> Empty, e |-> Empty], SaveLines(manager)).m = manager
=============================================================================
