SPECIFICATION Spec
CONSTANTS
  Procs = {1, 2, 3, 4}
  MaxCommands = 1
  MaxCrashes = 1
INVARIANTS PidInv SameQueues
PROPERTIES ServersComeBack
CHECK_DEADLOCK FALSE
