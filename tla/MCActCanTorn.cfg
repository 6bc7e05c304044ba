\* A torn command drives although no command asked for it.
CONSTANTS
  Frames <- MCFrames
  TimeoutTicks = 3
  CallsPerMs = 2
SPECIFICATION Spec
PROPERTIES
  DriveWasCommanded
