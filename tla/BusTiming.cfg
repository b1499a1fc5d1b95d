SPECIFICATION Spec
INVARIANT InterruptIsSeen
PROPERTY AccessServedOnce
