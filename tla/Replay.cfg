SPECIFICATION Spec
CONSTANTS
    Scenes <- MCScenes
    Ip = "address"
    Quota = 4
INVARIANTS
    NothingRefused
    RestartKeepsContents
    RestartKeepsOrder
CHECK_DEADLOCK FALSE
