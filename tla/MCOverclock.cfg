SPECIFICATION Spec
CONSTANTS
  Clients = {c1}
  Watchdog = Watchdog
  Main = Main
  GPUs = {g1}
  Offsets = {a}
  MaxApplies = 1
  MaxRestarts = 1
  SavesFail = TRUE
INVARIANTS ArmedWhilePending RevertToConfirmed
PROPERTY UndoneUnlessRefused
