\* README.md: only the events that have not reached the disk are lost.
SPECIFICATION Spec
CONSTANTS
    MaxEvents = 2
    MaxClock = 3
    MaxStarts = 2
    Refresh = 1
    Needs <- MCNeeds
    AfterDestruction = {"intact"}
INVARIANTS
    StartsAfterCrash
CHECK_DEADLOCK FALSE
