SPECIFICATION FairSpec
PROPERTIES
  ParkedIsReturned
  StaleDrains
CHECK_DEADLOCK FALSE
