SPECIFICATION Spec
CONSTANTS
  Clients = {c1}
  Watchdog = Watchdog
  Main = Main
  GPUs = {g1}
  Offsets = {a, b}
  MaxApplies = 2
  MaxRestarts = 1
  SavesFail = FALSE
PROPERTY ResetMeansStock
