CONSTANTS
  producers = 2
  consumers = 2
  loops = 2
  max = 2
  MaxSpurious = 1
  empty_cv = "empty"
  fill_cv = "fill"
SPECIFICATION FairSpec
INVARIANTS EnsureHolds Ring
PROPERTIES ImplementsQueue Termination
