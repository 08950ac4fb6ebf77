SPECIFICATION VolumeSpec
CONSTANTS
  Speakers = {d1, d2}
  Levels = {30, 70}
  MaxVolume = 300
  Short = {}
  IntOfInfinity = 1000000
CONSTANTS
  d1 = d1
  d2 = d2
PROPERTY VolumeWithinScale
CHECK_DEADLOCK FALSE
