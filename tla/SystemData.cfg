SPECIFICATION MCSpec
CONSTANTS
    Token = {t1, t2}
    Os = {ios}
    TokenCount = 1
    Task = {httpd, wsc}
    Daemon = daemon
    Name = {n0, n1}
    Alert = {a0, a1}
    Threshold = {h0, h1}
    Conf = {c0, c1}
    DefaultName = n0
    DefaultAlert = a0
    DefaultThreshold = h0
    DefaultConf = c0
    Counts = 2
    MaxFails = 1
    MaxBoots = 1
    MaxClock = 1
    MaxCommands = 2
SYMMETRY Symmetry
INVARIANTS TypeOK SettingsKept SavedAtOnce LifeCounted
PROPERTY RestartKeeps
\* The bounds on commands, boots and seconds end the run.
CHECK_DEADLOCK FALSE
