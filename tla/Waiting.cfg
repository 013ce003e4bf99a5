CONSTANTS
  num_threads = 3
  Customers = {c1, c2, c3}
  MAX_CLIENT = 2
  charMax = 5
SPECIFICATION AllSpec
INVARIANTS OneToken BoundedBypass BeforeFirst TableHolds
PROPERTIES NoStarvation AllEnd Answered
