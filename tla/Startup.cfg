SPECIFICATION Spec
CONSTANTS
  NoConf = NoConf
  FactoryAP = FactoryAP
  UserAP = UserAP
  Trials = 2
  MaxBoots = 2
INVARIANTS AbortsOnlyWhenHurried StationAsStored
PROPERTY StartupEnds
CHECK_DEADLOCK FALSE
