SPECIFICATION LifeSpec
CONSTANTS
  Clients = {c1}
  Cycles = {k1}
  Loop = Loop
  Exit = Exit
  Recovery = Recovery
  TopSpeed = 2
  TachReadable = FALSE
  Leaves = TRUE
  MaxRestarts = 0
PROPERTY NeverReversedAtSpeed
