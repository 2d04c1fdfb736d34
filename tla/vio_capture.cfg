SPECIFICATION Spec
CONSTANTS
  Reminders = {1,2}
  Elsewhere = {2}
  Answering = {"accepted"}
  Window = 0
  VerifyWindow = 1
  Limit = 2
  Groups = {}
  MaxTime = 2
  MaxFaults = 1
  None = None
  Trigger <- AllAt1
  StartTables <- Fresh
INVARIANT CaptureOnlyReadOnly
