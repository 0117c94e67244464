SPECIFICATION Spec
CONSTANTS
  Price <- MCPrice
  Stock0 <- MCStock
  Hopper0 = 1
  Bills = {2}
  WaitMax = 2
  AutoCash = 2
  MealoutWait = 1
  CharMod = 8
  ByteMod = 2
  MaxInserted = 3
  MaxTaps = 1
  Habits = {}
INVARIANTS IInv TypeOK Ledger NoGiveaway CartInStock BillMatchesCart ClearIsSafe
PROPERTIES Contract
