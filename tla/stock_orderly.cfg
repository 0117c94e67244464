SPECIFICATION FairSpec
CONSTANTS
  FloorMealNum = 2
  Columns = {0, 1}
  KindNum = 2
  Full = 1
  MaxCart = 2
  MaxOutages = 1
  MaxVisits = 1
  Hasty = 0
INVARIANTS TypeOK NotOverstated ArmFindsMeal CartCanBeFound
PROPERTIES SaleEnds
CHECK_DEADLOCK FALSE
