SPECIFICATION PassSpec
CONSTANTS
  a = a
  b = b
  MaxOps = 4
  Window <- McBuffer
  Buffer <- McBuffer
  BaseOf <- McBaseOf
  Functions <- McFunctions
  DropBefore = TRUE
  DropAfter = TRUE
  MaxRounds = 2
SYMMETRY McSymmetry
INVARIANTS PassTypeOK PlacementIsCertified
CHECK_DEADLOCK FALSE
