SPECIFICATION PowerSpec
CONSTANTS
  Clients = {"a"}
  UsedModes = {0, 2}
  Tunable = {0}
  MaxChanges = 2
  MaxRestarts = 1
INVARIANTS FanFollows MachineInMode CapsFollowMode RestoreReady
CONSTRAINT ChangesShared
