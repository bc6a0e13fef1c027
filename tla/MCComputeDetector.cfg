SPECIFICATION DetectorSpec
CONSTANTS
  Part = {"multihop"}
  None = None
  Torn = Torn
PROPERTY DetectorIsStarted
CHECK_DEADLOCK FALSE
