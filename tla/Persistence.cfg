\* Crashes, restarts, a clock set back between runs and both outcomes of the
\* destroyed appender.
SPECIFICATION FairSpec
CONSTANTS
    MaxEvents = 4
    MaxClock = 4
    MaxStarts = 3
    Refresh = 1
    Needs <- MCNeeds
    AfterDestruction = {"intact", "abort"}
INVARIANTS
    NothingLostWhileServing
    DurableEventsSurvive
    StopLosesNothing
    NeverRefused
PROPERTIES
    EventuallyDurable
CHECK_DEADLOCK FALSE
