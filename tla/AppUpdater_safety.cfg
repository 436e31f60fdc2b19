SPECIFICATION Spec
CONSTANTS
  MaxVersion = 2
  Size <- MCSize
  BlockSize = 2
  Commanders = {"httpd"}
  MaxRx = 2
INVARIANTS
  TypeOK
  AlwaysBootable
  DigestFollowsFlash
PROPERTY
  KeepsFlashContract
