SPECIFICATION Spec
CONSTANTS
  a = a
  b = b
  MaxOps = 3
  Names = {"chain", "host_builds_an_input", "opaque_call", "a_call_leaves_lines_behind", "sliced", "residual_block", "join", "join_with_a_host_branch", "split_contraction", "loop_with_an_accumulator", "layer_norm"}
  Window <- McWindow
  Buffer <- McBuffer
  BaseOf <- McBaseOf
  Functions <- McFunctions
  Span <- McSpan
  First <- McFirst
  DropBefore = TRUE
  DropAfter = TRUE
  MaxRounds = 16
  MaxTrips = 2
INVARIANTS HostReadsCurrent AcceleratorReadsCurrent ResultsStick CacheModelCovers KeptFlushesAreNeeded PlacesFlushesAsTested
PROPERTY EveryCallReturns
