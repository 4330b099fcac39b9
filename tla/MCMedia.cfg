SPECIFICATION MediaSpec
CONSTANTS
  Receivers = {"r1"}
  Options <- MCOptions
  Timeout = 6
  KeepAlive = 4
INVARIANTS
  MediaTypeOK
  SameSource
  DeadSessionGoes
PROPERTIES
  LiveSessionStays
  SizeAlternates
