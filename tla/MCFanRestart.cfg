SPECIFICATION CrashSpec
CONSTANTS
  Clients = {c1}
  Cycles = {k1}
  Loop = Loop
  Exit = Exit
  Recovery = Recovery
  TopSpeed = 1
  TachReadable = TRUE
  Leaves = FALSE
  MaxRestarts = 1
PROPERTIES FansReturned ReverseRecovered
