SPECIFICATION Spec
CONSTANTS
  Null = Null
  Absent = Absent
  None = None
  Values <- MCValues
  Strip <- MCStrip
  Bare <- MCBare
  Canonical = {"g1", "g2", "whatsapp:g1"}
  Channels <- MCChannels
  TooLong = {"overlong"}
  Unprintable = {"bell"}
  Payloads <- SilentOnly
  Registered <- MCRegistered
  Answering <- MCReplies
  Bypasses = {FALSE}
  MaxVersions = 1
  MaxChanges = 1
  MaxFaults = 0
CHECK_DEADLOCK FALSE
INVARIANT FinishedIsRecorded
