\* The command path of the ACT ECU under every interleaving.
CONSTANTS
  Frames <- MCFrames
  TimeoutTicks = 3
  CallsPerMs = 2
SPECIFICATION Spec
INVARIANTS
  TypeOK
  OutputsAgree
  TornAtOnePoint
  ForceStopNotLostTwice
PROPERTIES
  ForceStopHonoured
  IsDeadMan
