SPECIFICATION Spec
CONSTANTS
  m1 = m1
  m2 = m2
  m3 = m3
  w1 = w1
  w2 = w2
  None = None
  Workers = {w1}
  Messages = {m1, m2, m3}
  Recipients <- OneRecipient
  Slots <- MCSlots
  Trigger <- MCTrigger
  Intents <- AloneIntents
  StartTargets = {"ok"}
  MaxEvents = 3
  Window = 1
  MaxTime = 2
  MaxLag = 1
  MaxDeliveries = 2
  MaxCrashes = 1
SYMMETRY Symmetry
INVARIANTS
  AnswerMatchesEffect
  SupersededOnlyIfOverdue
  CurrentScheduled
  SameIntentOneEffect
  OkAnswerTrue
PROPERTIES
  ReceiptStable
CHECK_DEADLOCK FALSE
