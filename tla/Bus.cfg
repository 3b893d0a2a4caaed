CONSTANTS
    StreamOrder <- MCTwoStreams
    EnvStreams <- MCOneEnv
    ReadCount = 2
    MaxCommands = 3
    MaxFailures = 2
    Outages = TRUE
CHECK_DEADLOCK FALSE
SPECIFICATION FairSpec
INVARIANTS TypeOK AckedMeansAnswered
PROPERTIES DropsAreFailures BusSpec Answered
