SPECIFICATION FairSpec
CONSTANTS
  RX3BUF_SIZE = 11
  MaxBytes = 27
  Garbage = {11}
  Paced = 1
  Clears = 1
INVARIANTS TypeOK NothingReadTwice CommandIsFrame UnsetNeedsClear
PROPERTIES Drained
