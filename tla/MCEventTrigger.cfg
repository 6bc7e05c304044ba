\* The black box: two events, one recorder that films.
CONSTANTS
  Started <- MCStarted
  PreSecs = 1
  PostSecs = 1
  Cooldown = 2
  RingLen = 2
  MaxTime = 4
  MaxEvents = 2
SPECIFICATION Spec
INVARIANTS
  OneSeam
  CameraClipsDisjoint
  OpenIsUnlisted
PROPERTIES
  EventEnds
CHECK_DEADLOCK FALSE
