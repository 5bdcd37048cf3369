SPECIFICATION FairSpec
CONSTANTS
  NoVal = NoVal
  Nobody = Nobody
  Nap = 1
  Idle = 2
  Clients = {c1, c2}
  Names = {n1}
  Vals = {v1, v2}
INVARIANTS NeverIdleForLong 
PROPERTIES ReceiveKeepsListed AskedIsAnswered
CHECK_DEADLOCK FALSE
