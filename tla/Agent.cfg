SPECIFICATION FairSpec
CONSTANTS
  Shells = {c1, c2}
  Agents = {a1, a2}
  Nobody = Nobody
INVARIANTS ProcessesMove SerialAgentKeepsPath SerialBindFindsPathFree
PROPERTIES CommandsReturn AgentsEnd
CHECK_DEADLOCK FALSE
