\* The drive command from the operator to the motor.
CONSTANTS
  MaxDelay = 1
  Threshold = 2
  CyclicTicks = 2
  TimeoutTurns = 3
  BlockEvery = 2
  BlockTicks = 1
  TestTurns = 2
SPECIFICATION Spec
PROPERTIES
  DrivesOnWish
  WishIsObeyed
