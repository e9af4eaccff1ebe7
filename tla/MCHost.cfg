SPECIFICATION ServicesSpec
CONSTANTS
  Choosers = {"a"}
  Picks = {1, 3}
  AutoConfigs <- MCAuto
  SamplesToSwitch = 2
  Loads = {"low", "middle", "high"}
  Callers = {"a", "b"}
  Workers = {"v", "w", "u"}
INVARIANT OneWorker
PROPERTIES NeverAbovePick TransitionServed FollowsSwitch EndsReleased
