CONSTANTS
  Scenarios <- MCScenarios
  Background <- MCBackground
SPECIFICATION Spec
INVARIANTS
  InterruptIsTransparent
  TakesItsCycles
PROPERTIES
  ImplementsInstructionSet
  SyncComes
CHECK_DEADLOCK FALSE
