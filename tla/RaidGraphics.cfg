CONSTANTS
  Mappings = {0}
  RaidWindows = {1}
  SeekSpeeds = {4}
  RaidAddrs = {0, 1, 2}
  MaxRaidReqs = 2
SPECIFICATION AnimSpec
PROPERTY AnimationEnds
CHECK_DEADLOCK FALSE
