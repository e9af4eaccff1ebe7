SPECIFICATION LifeSpec
CONSTANTS
  Clients = {c1, c2}
  Cycles = {k1, k2}
  Loop = Loop
  Exit = Exit
  Recovery = Recovery
  TopSpeed = 1
  TachReadable = TRUE
  Leaves = TRUE
  MaxRestarts = 0
INVARIANTS OneDriver FlagsMatchDrivers NoSilentReverse
PROPERTIES NeverReversedAtSpeed OwnCycleOnly TenureKept
SYMMETRY ThreadSymmetry
CONSTRAINT LeavesEarly
