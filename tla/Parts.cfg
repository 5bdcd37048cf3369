SPECIFICATION PartsSpec
CONSTANTS
  Add <- gf_add
  Multiply <- Mul
  Invert <- gf_inv
  Secrets <- MCSecrets
  Charsets <- MCCharsets
  ListLengths <- MCListLengths
  Fields <- MCFields
  Seeds <- MCSeeds
  Fresh <- MCFresh
  Values <- MCValues
  Keys <- MCKeys
  Coeffs <- MCCoeffs
  Counts = {1, 2}
  Lengths = {2}
  RandomBytes = {0, 6, 129, 255}
  MaxFields = 3
  Starts = {0, 6, 28}
  MaxWait = 4
  HashEnds = {0, 255}
  MaxN = 3
  Thresholds = {1, 2, 3}
  NTools = 3
  ClearAfter = 3
  MaxCopies = 3
  Capacity = 4
  Times = {0, 1, 32, 33}
  Memories = {8191, 8192, 262144, 1048576, 1048577}
  Threads = {0, 1, 4, 16, 17}
  Iterations = {0, 1, 256, 50000000, 50000001}
  Salts <- MCSalts
  Sizes = {0, 1, 65535, 65536, 65537, 195000, 196000, 785000, 786000, 16776900, 16776901, 16777203, 16777204, 16777216}
  NameSizes = {0, 1, 256, 257}
  SealOverhead = 40
  None = None
  Err = Err
INVARIANTS CharactersAreUnbiased WordsReadTheStream StoredReadsBack ValidForAsLongAsShown ArithmeticIsGF256 EnoughSharesReconstruct FewSharesHide  TypedIsKept WrittenHeaderOpens LimitsAgree
CHECK_DEADLOCK FALSE
