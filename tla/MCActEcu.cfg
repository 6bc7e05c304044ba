\* Commands and diagnostic routines on one motor.
CONSTANTS
  Frames <- MCFrames
  Requests <- MCRequests
  TimeoutTicks = 2
  CallsPerMs = 1
  MotorTestMs = 2
  ServoStepMs = 1
SPECIFICATION EcuSpec
INVARIANTS
  MotorHasOneMaster
  EcuDeadMan
PROPERTIES
  RoutineEnds
  RequestTakenWhole
  RoutineOnSchedule
