SPECIFICATION Spec
CONSTANTS
  Ids = {0, 1, 2}
  Usernames = {"", "a"}
  Emails = {""}
  Profiles = {"p"}
  MaxTime = 1
  Nil = Nil
  Clients = {c1, c2, c3}
  Calls <- SomeCalls
  MaxConns = 2
INVARIANTS
  TypeOK
  SomebodyGivesBack
PROPERTIES
  KeepsItsPromiseBut
  CreateDateNeverMoves
  EachCallReturns
