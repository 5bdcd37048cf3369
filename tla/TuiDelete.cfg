SPECIFICATION Spec
CONSTANTS
  NoName = NoName
  BadName = BadName
  NoVal = NoVal
  Closed = Closed
  NoFile = NoFile
  Reserved = Reserved
  Empty = empty
  RevealTicks = 1
  Names <- MCTwoNames
  Vals = {empty, uri}
  Uris = {uri}
  IdleTicks = 0
PROPERTIES DeletedIsGone
CHECK_DEADLOCK FALSE
