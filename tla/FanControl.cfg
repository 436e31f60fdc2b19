SPECIFICATION FairSpec
CONSTANTS
  Setters = {"httpd", "ws"}
  Fans = {1}
  Levels = {0, 1}
  Thresholds <- MCThresholds
  Delays = {1}
  SecondsPerMinute = 1
  NoThreshold = 2
  FirstDelay = 1
INVARIANTS
  TypeOK
  LostOnlyByOverlap
PROPERTIES
  DelayEnds
  HumidityDrivesFan
