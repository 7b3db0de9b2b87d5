\* Two producers and a consumer that enqueues its own reminders; arrays of two
\* slots, four calls.  The model ends after MaxCalls calls and the stop; a
\* thread that retries enqueue for ever takes no step of the model.
SPECIFICATION FairSpec
CONSTANTS
    Producer = {p1, p2}
    Capacity = 2
    MaxCalls = 4
    SendsReminder = TRUE
INVARIANTS
    ArraysHoldTheBacklog
    DeliveredInOrder
    StopDrainsTheQueue
PROPERTIES
    ImplementsChannel
    EnqueueReturns
    EveryBlobDelivered
    StopReturns
CHECK_DEADLOCK FALSE
