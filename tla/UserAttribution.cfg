SPECIFICATION ProcessSpec
CONSTANTS
  Nil = Nil
  Calls = {c1}
  WithDatabase = FALSE
  Users = {mud}
  Unwanted = {mud}
  Durations = {3}
  Second = 2
  MaxTime = 3
  NoToken = NoToken
  ListCalls = {}
INVARIANTS
  SpansNameTheirUsers
