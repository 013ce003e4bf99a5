CONSTANTS
  num_threads = 4
  num_readers = 2
  loops = 2
SPECIFICATION BothSpec
INVARIANTS Exclusion
PROPERTIES StableRead WriterIsNext Termination
