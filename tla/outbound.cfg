SPECIFICATION Spec
CONSTANTS
  Null = Null
  Absent = Absent
  None = None
  Values <- MCValues
  Strip <- MCStrip
  Bare <- MCBare
  Canonical = {"g1", "g2", "whatsapp:g1"}
  Channels <- MCChannels
  TooLong = {"overlong"}
  Unprintable = {"bell"}
  Payloads <- MCPayloads
  Registered <- MCRegistered
  Answering <- MCReplies
  Bypasses = {TRUE, FALSE}
  MaxVersions = 2
  MaxChanges = 1
  MaxFaults = 1
INVARIANT AcceptedResolves
INVARIANT NoSeamGap
INVARIANT AskedIsWhereSent
PROPERTY SentWhereAsked
CHECK_DEADLOCK FALSE
