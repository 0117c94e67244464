SPECIFICATION FairSpec
CONSTANTS
  Price <- MCOnePrice
  Stock0 <- MCOneMeal
  Hopper0 = 1
  Bills = {2}
  WaitMax = 2
  AutoCash = 2
  MealoutWait = 1
  CharMod = 8
  ByteMod = 4
  MaxInserted = 3
  MaxTaps = 1
  Habits = {}
PROPERTIES AlwaysResponsive RefundCompletes SaleEnds CashWaitEnds
