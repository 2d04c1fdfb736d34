SPECIFICATION Spec
CONSTANTS
  p1 = p1
  p2 = p2
  ann = ann
  bob = bob
  None = None
  Procs = {p1, p2}
  Reminders <- One
  Trigger <- MCTrigger
  People = {ann}
  RecipientOf <- ToAnn
  Quiet <- QuietAt3
  StartTargets = {"ok"}
  Provider <- Lossy
  MaxRetries = 1
  StoreRetries = 2
  RetryDelay = 1
  BatchSize = 1
  Groups = {{1}}
  Alone = FALSE
  MaxLag = 0
  MaxTime = 2
  MaxAttempts = 2
  MaxCrashes = 1
  MaxSwitches = 0
SYMMETRY Symmetry
INVARIANTS
  DeliveredWasShown
CHECK_DEADLOCK FALSE
