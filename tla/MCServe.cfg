SPECIFICATION FairSpec
CONSTANTS
    Name <- MCName
    Token <- MCToken
    ProperName <- MCProperName
    Second = 1000
    MaxInt64 = 1000000000
    Inputs <- MCInputs
    MaxEvents = 1
    ProbeTimeout = 30
    PassTimeout = 120
    HealthTimeout = 2
    ShutdownGrace = 5
INVARIANTS
    AcceptedIsSound
    StartFailureHasCause
    NoUseAfterClose
    AlarmIsGenuine
    NoSilentStaleGauge
PROPERTIES
    StartupSettles
    ShutdownEnds
