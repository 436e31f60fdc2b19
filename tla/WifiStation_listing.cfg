SPECIFICATION Spec
CONSTANTS
  APs = {a, b}
  NoAP = none
  Near = a
  Size = 3
  FailLimit = 1
  RoundLimit = 2
  MaxChanges = 2
INVARIANT
  ListingShowsList
CHECK_DEADLOCK FALSE
