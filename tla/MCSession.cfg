SPECIFICATION ServicesSpec
CONSTANTS
  Members = {ua, ub}
  Stranger = us
  NoOne = none
  Files = 2
  Values = {x}
  Absent = absent
  MaxEdits = 1
  MaxFaults = 1
  MaxLives = 1
  NetClients = {"a"}
  Devices = {"d", "e"}
  NoDevice = "none"
  MaxMoves = 1
  MaxRefusals = 1
  MaxNetLives = 1
  Shown = {1, 2}
  Capacity = 1
  MaxPublished = 2
  MaxDaemons = 1
INVARIANTS SessionTypes OwnSettings OffMeansOff EventsAccounted RestoreMeansStock
PROPERTIES OneHandOver ArrivalServed AutoKept WidgetCatchesUp
