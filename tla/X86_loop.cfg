CONSTANTS
  program <- CountDown
  loadaddr = 1000
  numthreads <- Few
  reginit <- Args
  intfreq = 3
  intrand = FALSE
  loops = 3
SPECIFICATION Spec
INVARIANTS LoopEndsAtZero
