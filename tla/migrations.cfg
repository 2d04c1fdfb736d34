CONSTANTS
  p1 = p1
  p2 = p2
  p3 = p3
  Procs <- MCProcs
  LastMig = 3
  Statements <- MCStatements
  Known <- MCKnown
  Checksum <- MCChecksum
  Checksums = {"text", "edited"}
  Modes = {"normal", "capture_only"}
  DefaultMode = "normal"
  MaxFaults = 1
  MaxStarts = 4
SPECIFICATION FairSpec
INVARIANTS ReadyMeansComplete RunOnce InOrder
PROPERTIES FailStop SomeoneGetsThere
CHECK_DEADLOCK FALSE
