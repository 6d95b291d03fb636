SPECIFICATION HistorySpec
CONSTANTS
  Ids = {0, 1, 2}
  Usernames = {"", "a", "b"}
  Emails = {"", "e"}
  Profiles = {"p"}
  MaxTime = 2
  Nil = Nil
  Procs = {p1, p2}
  Second = 2
  MaxMsgs = 1
  FaultyStorage = TRUE
  Traffic <- HistoryTraffic
INVARIANTS
  EveryAnswerHadItsMoment
  UsersAccounted
  CreateDateWasGiven
PROPERTIES
  FirstUserEverIsAdmin
SYMMETRY Alike
