CONSTANTS
  program <- LockPrograms
  loadaddr = 1000
  numthreads <- Few
  reginit <- Args
  intfreq = 3
  intrand = TRUE
  loops = 1
SPECIFICATION FairSpec
INVARIANTS MutualExclusion InTurn
PROPERTIES ImplementsThreads Termination
