SPECIFICATION Spec
CONSTANTS
  LinkWait = 1
  LinkPoll = 2
  GoalWait = 1
  DoorWait = 1
  AwayWait = 1
  InitWait = 1
  Retries = 3
  Splits = {1, 3, 5}
  MaxMeals = 4
  Faults = {"misses"}
INVARIANTS RefundedNotHanded
PROPERTIES MeetsContract
