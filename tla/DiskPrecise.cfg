CONSTANTS
  Precise = TRUE
  Geometries <- SmallDisks
  Windows <- SmallWindows
  MaxRequests = 1
  MaxLate = 3
SPECIFICATION DiskSpec
INVARIANT ChoiceExists
