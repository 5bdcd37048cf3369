SPECIFICATION SerialUpdates
CONSTANTS
  Sessions = {s1, s2}
  Names = {n1, n2}
  Vals = {v1}
  NoVal = NoVal
  Inodes = {i1, i2, i3, i4}
  NoInode = NoInode
  Blank = Blank
  Torn = Torn
  MaxVault = 1
INVARIANTS SavedVaultOpens
CHECK_DEADLOCK FALSE
