SPECIFICATION Spec
CONSTANTS
  MaxVersion = 1
  Size <- MCSmallSize
  BlockSize = 2
  Commanders = {"httpd", "ws"}
  MaxRx = 2
INVARIANT AlwaysBootable
