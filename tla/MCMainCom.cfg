\* Supervision, mode and DTCs of the MAIN gateway.
CONSTANTS
  Ecus <- MCEcus
  Controls <- MCControls
  Threshold = 3
  CyclicMs = 2
  TurnMs = 1
  MaxCount = 3
SPECIFICATION Spec
INVARIANTS
  TypeOK
  SilentPcIsHeld
  SilentEcuIsReported
  OverrideIsReported
PROPERTIES
  ConfirmedNotEarly
