SPECIFICATION EngineSpec
CONSTANTS
    MaxCommands = 4
    MaxJobs = 2
INVARIANT OwnData
\* The bound on the messages ends the run.
CHECK_DEADLOCK FALSE
