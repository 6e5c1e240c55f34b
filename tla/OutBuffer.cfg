\* A small buffer that may not grow by settings.
SPECIFICATION FairSpec
CONSTANTS
  Capacity = 3
  Grow = FALSE
  Sizes = {0, 1, 2, 3, 5}
  MaxBytes = 8
INVARIANTS TypeOK NothingLost WriteInterest
PROPERTIES ChannelSpec GrowsOnlyWhenFull AllWritten
