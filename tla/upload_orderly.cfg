SPECIFICATION FairSpec
CONSTANTS
  Window = 2
  DaysIn = 2
  Months = 2
  Late = 0
  MaxMeals = 2
  MaxSyncs = 1
  MaxOutages = 1
INVARIANTS TypeOK YesIsAnswered TwiceAtMost NewestFileSent
PROPERTIES MachineRests
