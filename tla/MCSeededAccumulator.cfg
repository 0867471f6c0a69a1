SPECIFICATION Spec
CONSTANTS
  a = a
  b = b
  MaxOps = 0
  Names = {"seeded_accumulator"}
  Window <- McWindow
  Buffer <- McBuffer
  BaseOf <- McBaseOf
  Functions <- McFunctions
  Span <- McSpan
  First <- McFirst
  DropBefore = TRUE
  DropAfter = TRUE
  MaxRounds = 16
  MaxTrips = 2
INVARIANT AcceleratorReadsCurrent
