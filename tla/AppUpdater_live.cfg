SPECIFICATION FairSpec
CONSTANTS
  MaxVersion = 1
  Size <- MCSmallSize
  BlockSize = 2
  Commanders = {"httpd"}
  MaxRx = 2
PROPERTY
  EveryUpdateEnds
