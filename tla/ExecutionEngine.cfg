CONSTANTS
  Addrs = {a1, a2}
  Records = {a1, a2}
  Blank = blank
  Capacity = 2
  Cells = {c1, c2}
  Vals = {v1, v2}
  AnyValue = any
  NoReport = noReport
SPECIFICATION Spec
SYMMETRY Symmetry
INVARIANTS RunPassesNoBreakpoint NothingUnreported
PROPERTIES WatchReportIsTrue ImplementsRecent
