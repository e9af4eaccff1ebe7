SPECIFICATION LifeSpec
CONSTANTS
  Clients = {c1}
  Cycles = {k1}
  Loop = Loop
  Exit = Exit
  Recovery = Recovery
  TopSpeed = 2
  TachReadable = TRUE
  Leaves = TRUE
  MaxRestarts = 0
INVARIANT HandedBack
