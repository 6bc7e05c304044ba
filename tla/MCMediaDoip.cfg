\* Sessions and DTCs of the MEDIA computer.
CONSTANTS
  Conns = {c1, c2}
  Testers = {pc}
  MaxSessions = 2
  NumCodes = 2
  BootOk <- MCBootOk
  MaxFailures = 1
  MaxRestarts = 1
SPECIFICATION Spec
INVARIANTS
  DidAgreesWithDtc
PROPERTIES
  GoneTesterIsForgotten
  ReportSettles
