SPECIFICATION FairSpec
CONSTANTS
  m1 = m1
  m2 = m2
  m3 = m3
  w1 = w1
  w2 = w2
  None = None
  Workers = {w1, w2}
  Messages = {m1, m2}
  Recipients <- OneRecipient
  Slots <- MCSlots
  Trigger <- MCTrigger
  Intents <- RaceIntents
  StartTargets = {"absent"}
  MaxEvents = 3
  Window = 1
  MaxTime = 0
  MaxLag = 0
  MaxDeliveries = 2
  MaxCrashes = 0
INVARIANTS
  IInv
  ReminderOfVersion
PROPERTIES
  ImplementsLedger
  CallsEnd
CHECK_DEADLOCK FALSE
