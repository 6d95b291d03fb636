SPECIFICATION ProcessSpec
CONSTANTS
  Nil = Nil
  Calls = {c1, c2}
  WithDatabase = TRUE
  Users = {mud}
  Unwanted = {mud}
  Durations = {3}
  Second = 2
  MaxTime = 3
  NoToken = NoToken
  ListCalls = {c1}
INVARIANTS
  ProcessTypeOK
  NobodyIsCutOff
  RequestsAreAnswered
  EveryCallIsCounted
  ActiveRequestsAreActive
  WhatCallsUseIsOpen
  NothingStaysOpen
  OnlyHandlersHoldUpTheEnd
PROPERTIES
  TokensServeTheirTime
  ASignalEndsTheProcess
