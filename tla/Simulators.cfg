CONSTANTS
  NumProcs = 3
  MaxCode = 2
  MaxIO = 3
  HeapSize = 6
  Start = 10
  MaxSize = 3
  MaxNames = 6
  MaxDisks = 4
  MaxChunk = 2
  MaxBlock = 8
  MaxRequest = 5
  Precise = FALSE
  Geometries <- SmallDisks
  Windows <- SmallWindows
  MaxRequests = 2
  MaxLate = 1
  Mappings = {0, 1}
  RaidWindows <- SmallRaidWindows
  SeekSpeeds = {4, 5}
  RaidAddrs = {0, 1, 2, 4}
  MaxRaidReqs = 3
  NumPages = 4
  MaxTrace = 6
  CacheSizes = {2, 3}
  ClockBits = 1
  MaxJobs = 3
  MaxLength = 4
  Quanta = {1, 2}
  AddressSizes = {4, 5}
  MemorySizes = {8}
  MaxRegister = 8
  linearPages = 4
  physPages = 6
  pageSize = 2
  MaxPages = 4
  MaxActions = 7
  MaxForks = 3
SPECIFICATION FairSpec
INVARIANTS WorkConserving HeapInOrder ProcessTree ParityKept ChoiceExists RequestsServed IOsKept BestPolicy
           UseBitsFollowMemory JobTimes Translations AllReaped
PROPERTIES Switching Termination EstimatesExact
