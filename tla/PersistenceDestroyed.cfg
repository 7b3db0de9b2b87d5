\* Architecture&Details.md: events are lost should the application crash.
SPECIFICATION Spec
CONSTANTS
    MaxEvents = 2
    MaxClock = 3
    MaxStarts = 2
    Refresh = 1
    Needs <- MCNeeds
    AfterDestruction = {"intact", "abort"}
INVARIANTS
    OrderlyStopLosesNothing
CHECK_DEADLOCK FALSE
