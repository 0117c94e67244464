SPECIFICATION Spec
CONSTANTS
  Price = 2
  LowCoins = 2
  Coins = 2
  MaxPay = 3
  MaxCart = 2
  HopperFull = 7
  MaxOutages = 2
PROPERTIES OutageIsReported
