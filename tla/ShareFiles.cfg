SPECIFICATION Spec
CONSTANTS
  Runs = {p1, p2}
  Secrets = {v1, v2}
  Garbage = Garbage
  NoFile = NoFile
  Torn = Torn
  Err = Err
  MaxN = 3
INVARIANTS SuccessMeansAllShares EnoughFilesReconstruct 
SYMMETRY MCSymmetry
CHECK_DEADLOCK FALSE
