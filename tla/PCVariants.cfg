CONSTANTS
    producers = 2
    consumers = 2
    loops = 2
    max = 2
    items = 4
    MaxSpurious = 1
SPECIFICATION FairSpec
INVARIANTS TakeTurns
PROPERTIES FailStop Termination
