SPECIFICATION Spec
CONSTANTS
  Reminders = {1,2}
  Elsewhere = {2}
  Answering = {"confirmed"}
  Window = 0
  VerifyWindow = 1
  Limit = 2
  Groups = {{1}}
  MaxTime = 2
  MaxFaults = 0
  None = None
  Trigger <- AllAt1
  StartTables <- Fresh
INVARIANT InvalidatedIsTerminal
