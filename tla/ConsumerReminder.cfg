\* ForumSearchUpdatePlugin: the consumer thread enqueues its own reminder.
\* A thread that retries enqueue for ever takes no step of the model.
SPECIFICATION FairSpec
CONSTANTS
    Producer = {p1, p2}
    Capacity = 1
    MaxCalls = 3
    SendsReminder = TRUE
PROPERTIES
    ReminderReturns
CHECK_DEADLOCK FALSE
