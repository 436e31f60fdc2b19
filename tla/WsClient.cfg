CONSTANTS
    MaxUpdates = 2
    MaxEnds = 2
SPECIFICATION Spec
INVARIANTS ConnectedIsLive DeadClientIsNoticed
PROPERTIES FreedWhenStopped ReinitHappens UpdateRestarts
CHECK_DEADLOCK FALSE
