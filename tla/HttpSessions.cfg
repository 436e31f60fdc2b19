CONSTANTS
    Capacity = 3
    Fds = {1, 2, 3, 4}
    MaxNumOfClients = 4
SPECIFICATION HttpSpec
INVARIANTS AccountedUnlessTorn NoGhosts ListedUnlessRefused StoppedIsEmpty
PROPERTIES KeepsSessionSet BroadcastReachesListed
