SPECIFICATION Spec
CONSTANTS
  Shells = {c1, c2}
  Agents = {a1, a2}
  Nobody = Nobody
SYMMETRY MCSymmetry
INVARIANTS LiveAgentKeepsPath
CHECK_DEADLOCK FALSE
