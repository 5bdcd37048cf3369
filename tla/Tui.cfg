SPECIFICATION FairSpec
CONSTANTS
  NoName = NoName
  BadName = BadName
  NoVal = NoVal
  Closed = Closed
  NoFile = NoFile
  Reserved = Reserved
  Empty = empty
  RevealTicks = 1
  Names <- MCThreeNames
  Vals = {empty}
  Uris = {empty}
  IdleTicks = 2
INVARIANTS  SelectionIsShown ListIsStored AddsReplaceNothing LockedHoldsNothing
PROPERTIES RevealsOnlySelected  IdleVaultLocks
CHECK_DEADLOCK FALSE
