\* The ultrasonic sensor and its users.
CONSTANTS
  Distances = {5, 10, 15, 20, 25, 30, 35}
  MeasurePeriod = 1
  HoldTime = 4
  DtcPeriod = 2
  ConfirmCount = 3
  BlinkHalf = 1
  BlinkToggles = 6
SPECIFICATION Spec
INVARIANTS
  NoChatter
  LampMeansFault
  WarningIsFresh
PROPERTIES
  HeldOverMissingEcho
  ConfirmedAfterRow
