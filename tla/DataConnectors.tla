--------------------------- MODULE DataConnectors ---------------------------
(***************************************************************************)
(* The one-place mailboxes that connect the chips.  A provider holds a     *)
(* value until it is taken; a subscriber accumulates the bits it is sent   *)
(* until they are read.  Neither keeps more than the latest value.  A byte *)
(* is the set of the numbers of its bits that are 1.                       *)
(***************************************************************************)
EXTENDS Naturals

Bits == 0..7
Byte == SUBSET Bits

Provider == [data : Byte, has : BOOLEAN]
NewProvider(initial) == [data |-> initial, has |-> FALSE]
provide_data(byte) == [data |-> byte, has |-> TRUE]
Taken(p) == [p EXCEPT !.has = FALSE]

Subscriber(mask) == [data : SUBSET mask, changed : BOOLEAN]
NewSubscriber == [data |-> {}, changed |-> FALSE]
Seen(s) == [s EXCEPT !.changed = FALSE]

\* notify_subscribers() for one subscriber: the bits that are sent and that it
\* listens to replace its own.
Notified(s, mask, value, bits) ==
  LET sent == mask \cap bits
  IN IF sent = {} THEN s
     ELSE [data |-> (s.data \ sent) \cup (value \cap sent), changed |-> TRUE]
=============================================================================
