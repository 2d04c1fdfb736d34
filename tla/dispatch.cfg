SPECIFICATION FairSpec
CONSTANTS
  Reminders = {1,2}
  Elsewhere = {2}
  Answering = {"confirmed","accepted","refused","raised"}
  Window = 0
  VerifyWindow = 1
  Limit = 2
  Groups = {{1}}
  MaxTime = 2
  MaxFaults = 1
  None = None
  Trigger <- AllAt1
  StartTables <- FreshOrRetried
INVARIANT WhatsappOnEvidence
INVARIANT AnsweredOnce
INVARIANT LedgerAgrees
PROPERTY ClosedForGood
PROPERTY EventuallySettled
PROPERTY UnverifiedCloses
