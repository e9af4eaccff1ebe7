SPECIFICATION MCSpec
CONSTANTS
  Speeds = {"slow", "fast"}
  DefaultPwm = "fast"
  BelowFloor = {"slow"}
  Slow = {"slow"}
  Temps = {50, 86, 90}
  SensorTicks = 2
  Requests <- MCRequests
  LossActions = {"max"}
  MaxEvents = 2
INVARIANTS HonestStatus CriticalAtFull
PROPERTIES CommittedModeRan AdoptedLeftAlone RequestServed SettingBack
