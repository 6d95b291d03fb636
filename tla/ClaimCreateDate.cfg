SPECIFICATION Spec
CONSTANTS
  Ids = {0, 1, 2}
  Usernames = {"", "a", "b"}
  Emails = {"", "e"}
  Profiles = {"p"}
  MaxTime = 2
  Nil = Nil
  Procs = {p1, p2}
  Second = 1
  MaxMsgs = 1
  FaultyStorage = FALSE
  Traffic <- RecreatingTraffic
PROPERTIES
  UpdateKeepsCreateDate
