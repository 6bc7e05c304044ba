\* The command path and the frames of the BODY ECU under every interleaving.
CONSTANTS
  Frames <- MCFrames
  Timeout = 2
  BeatPeriod = 2
  TxBuffers = 2
SPECIFICATION Spec
INVARIANTS
  RepeatedIsShown
  EventSentWhenRoom
PROPERTIES
  EventReachesBus
  IsDeadMan
