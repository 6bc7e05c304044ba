\* The deferred close and the connection it hits.
CONSTANTS
  c1 = c1
  c2 = c2
  c3 = c3
  Conns <- MCConns
  NoConn = NoConn
  CloseMs = 3
  TurnMs = 2
SPECIFICATION Spec
PROPERTIES
  CloseHitsOffender
