SPECIFICATION Spec
CONSTANTS
  LinkWait = 1
  LinkPoll = 3
  GoalWait = 2
  DoorWait = 3
  AwayWait = 1
  InitWait = 1
  Retries = 3
  Splits = {1, 3, 5}
  MaxMeals = 5
  Faults = {"misses", "dead"}
INVARIANTS ArmInv ErrandIsThisMeal CountedWasReported
