CONSTANTS
  num_threads = 3
  loops = 2
  VECTOR_SIZE = 2
  Options <- Promised
SPECIFICATION FairSpec
INVARIANTS Disjoint
PROPERTIES ImplementsSerial Termination
