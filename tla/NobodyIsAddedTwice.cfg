SPECIFICATION Spec
CONSTANTS
  Ids = {0, 1, 2}
  Usernames = {"", "a"}
  Emails = {""}
  Profiles = {"p"}
  MaxTime = 1
  Nil = Nil
  Clients = {c1, c2}
  Calls <- SomeCalls
  MaxConns = 2
PROPERTIES
  NobodyIsAddedTwice
