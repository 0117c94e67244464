SPECIFICATION Spec
CONSTANTS
  Window = 2
  DaysIn = 4
  Months = 1
  Late = 0
  MaxMeals = 2
  MaxSyncs = 0
  MaxOutages = 1
INVARIANTS OfflineWeekSent
