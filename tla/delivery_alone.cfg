SPECIFICATION FairSpec
CONSTANTS
  p1 = p1
  p2 = p2
  ann = ann
  bob = bob
  None = None
  Procs = {p1}
  Reminders <- Two
  Trigger <- MCTrigger
  People = {ann, bob}
  RecipientOf <- ToEach
  Quiet <- QuietAt3
  StartTargets = {"ok"}
  Provider <- Lossy
  MaxRetries = 1
  StoreRetries = 2
  RetryDelay = 1
  BatchSize = 1
  Groups = {{1, 2}}
  Alone = TRUE
  MaxLag = 1
  MaxTime = 4
  MaxAttempts = 4
  MaxCrashes = 1
  MaxSwitches = 1
INVARIANTS
  AttemptsBounded
  RetrySpaced
  RepeatExplained
  LedgerAgrees
PROPERTIES
  NoSendAfterInvalidation
  ImplementsLifecycle
  EventuallyFinished
CHECK_DEADLOCK FALSE
