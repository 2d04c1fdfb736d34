SPECIFICATION Spec
CONSTANTS
  m1 = m1
  m2 = m2
  m3 = m3
  w1 = w1
  w2 = w2
  None = None
  Workers = {w1}
  Messages = {m1, m2}
  Recipients <- OneRecipient
  Slots <- MCSlots
  Trigger <- MCTrigger
  Intents <- Twins
  StartTargets = {"ok"}
  MaxEvents = 3
  Window = 1
  MaxTime = 2
  MaxLag = 2
  MaxDeliveries = 1
  MaxCrashes = 0
INVARIANTS
  OneEffectPerWindow
CHECK_DEADLOCK FALSE
