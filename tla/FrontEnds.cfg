SPECIFICATION Spec
CONSTANTS
  Window = 1
  MaxMessages = 4
INVARIANTS
  TypeOK
  NothingIsSkipped
  OKIsTheWholeAnswer
  NoCallIsLeft
  NoStandstill
PROPERTIES
  RequestsEnd
  SendersEnd
  ClientEnds
CHECK_DEADLOCK FALSE
