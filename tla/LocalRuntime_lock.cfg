SPECIFICATION RuntimeSpec
CONSTANTS
  w1 = w1
  w2 = w2
  w3 = w3
  Windows <- MCWindows
  Crashes = TRUE
SYMMETRY MCSymmetry
INVARIANTS
  OneModel
  LockIsGivenBack
CHECK_DEADLOCK FALSE
