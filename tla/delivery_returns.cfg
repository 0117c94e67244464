SPECIFICATION FairSpec
CONSTANTS
  LinkWait = 1
  LinkPoll = 2
  GoalWait = 1
  DoorWait = 1
  AwayWait = 1
  InitWait = 1
  Retries = 3
  Splits = {3}
  MaxMeals = 1
  Faults = {"late", "refuses", "chatty", "crosses", "misses", "slow", "dead"}
INVARIANTS TypeOK MealsAccounted OneMealEach
PROPERTIES WaitMealReturns
