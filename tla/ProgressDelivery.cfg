SPECIFICATION LiveSpec
CONSTANTS
  MaxTurns = 2
  MaxUpdates = 2
  MaxCloses = 1
  MaxFailures = 1
  MaxDrivers = 4
INVARIANT DeliveryInv
PROPERTY ShownForward
PROPERTY ReplyArrives
CHECK_DEADLOCK FALSE
