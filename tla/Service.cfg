SPECIFICATION Spec
CONSTANTS
  Ids = {0, 1, 2}
  Usernames = {"", "a", "b"}
  Emails = {"", "e"}
  Profiles = {"p"}
  MaxTime = 2
  Nil = Nil
  Procs = {p1, p2}
  Second = 1
  MaxMsgs = 2
  FaultyStorage = TRUE
  Traffic <- ServiceTraffic
INVARIANTS
  TypeOK
  StoredUnderOwnId
  BatchAddsUp
PROPERTIES
  AppearsOnlyByAdding
  EveryMessageIsHandled
