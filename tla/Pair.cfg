SPECIFICATION FairSpec
CONSTANTS
  Nobody = Nobody
  Receivers = {r1, r2}
  Senders = {s1}
  Strays = {p1}
  MaxAttempts = 2
INVARIANTS AckIsTruthful ProgramsMove
PROPERTIES  SenderReturns
CHECK_DEADLOCK FALSE
