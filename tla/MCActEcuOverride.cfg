\* A motor test under safety_override.
CONSTANTS
  Frames <- MCFrames
  Requests <- MCRequests
  TimeoutTicks = 2
  CallsPerMs = 1
  MotorTestMs = 2
  ServoStepMs = 1
SPECIFICATION EcuSpec
INVARIANTS
  OverrideStopsMotor
