SPECIFICATION FairSpec
CONSTANTS
  APs = {a, b}
  NoAP = none
  Near = a
  Size = 3
  FailLimit = 1
  RoundLimit = 2
  MaxChanges = 2
INVARIANTS
  TypeOK
  MembersWhole
  NextInList
PROPERTIES
  ImplementsAltApList
  GivesUpAfterAll
  FindsListed
CHECK_DEADLOCK FALSE
