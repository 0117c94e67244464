SPECIFICATION Spec
CONSTANTS
  Price <- MCPrice
  Stock0 <- MCStock
  Hopper0 = 1
  Bills = {2}
  WaitMax = 2
  AutoCash = 2
  MealoutWait = 1
  CharMod = 8
  ByteMod = 2
  MaxInserted = 2
  MaxTaps = 2
  Habits = {"doubletap"}
PROPERTIES RefundNotDropped
