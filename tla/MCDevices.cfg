SPECIFICATION ServicesSpec
CONSTANTS
  Clients = {c1}
  Watchdog = Watchdog
  Main = Main
  GPUs = {g1, g2}
  Offsets = {a, b}
  MaxApplies = 2
  MaxRestarts = 0
  SavesFail = FALSE
  Processes = {"p", "q"}
  Newer = {"q"}
  MaxEdits = 1
  MaxCuts = 1
  Players = {"a"}
  Looks = {"black", "red"}
  Moving = {"wave"}
  MaxStarts = 1
  Learners = {"a", "b"}
  Keys = {"v", "t"}
  Bare = {"v"}
  Buttons = {"t"}
  MaxPresses = 2
SYMMETRY CardSymmetry
INVARIANTS CardKnown LightsAsSet
PROPERTIES ConfirmsWhatRuns ReplacedSafely AnsweredOnce
