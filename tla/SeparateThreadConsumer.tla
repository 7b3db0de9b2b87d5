----------------------- MODULE SeparateThreadConsumer -----------------------
(***************************************************************************)
(* Helpers::SeparateThreadConsumer, the write-behind queue in front of the *)
(* event files (EventCollector) and of the search index                    *)
(* (ForumSearchUpdatePlugin).  Any thread enqueues into the write array;   *)
(* one consumer thread swaps the two arrays and hands the filled one to    *)
(* the derived class outside of the mutex.                                 *)
(*                                                                         *)
(* The steps are the critical sections of the code: one tryEnqueue, one    *)
(* notify_one, one evaluation of the wait predicate, one swap, one value   *)
(* read by the derived class.                                              *)
(***************************************************************************)
EXTENDS Naturals, Sequences

CONSTANTS
    Producer,       \* threads that call enqueue (I/O threads and the timer)
    Capacity,       \* capacity_ of each of the two arrays
    MaxCalls,       \* bound of the model: number of calls of enqueue, the
                    \* plugin's reminders included
    SendsReminder   \* TRUE for the search plugin, whose onThreadWaitNoValues
                    \* enqueues from the consumer thread itself

ASSUME CapacityAssumption == Capacity \in Nat \ {0}
ASSUME MaxCallsAssumption == MaxCalls \in Nat
ASSUME SendsReminderAssumption == SendsReminder \in BOOLEAN

NoBlob == 0                       \* a slot that was never filled or was freed
Reminder == MaxCalls + 1          \* the empty blob of the search plugin
Blob == 1 .. (MaxCalls + 1)
Slot == 1 .. Capacity
Array == {1, 2}                   \* buffer1_ and buffer2_
Other(a) == 3 - a

VARIABLES
    buffer,           \* buffer[a][i]: contents of slot i of array a
    writeBuffer,      \* the array producers write to (readBuffer_ is the other)
    bufferUsed,       \* bufferUsed_
    stopWriteThread,  \* stopWriteThread_
    calls,            \* number of calls of enqueue made so far
    pc,               \* pc[p]: where producer p is in enqueue
    item,             \* item[p]: the blob producer p is trying to enqueue
    cpc,              \* where the consumer thread is in threadLoop
    final,            \* threadLoop has left its while loop
    woken,            \* blobInQueueCondition_ was signalled while it slept
    values,           \* local "values" of consumeValues: the array taken
    nrOfValues,       \* local "nrOfValues" of consumeValues
    position,         \* how many of them the derived class has read
    spc,              \* where the stopping thread is in stopConsumer
    sent,             \* history: blobs accepted by tryEnqueue, in order
    delivered         \* history: blobs read by the derived class, in order

queueVars == <<buffer, writeBuffer, bufferUsed>>
producerVars == <<calls, pc, item>>
batchVars == <<values, nrOfValues, position>>
consumerVars == <<cpc, final, woken, batchVars>>
stopVars == <<stopWriteThread, spc>>
history == <<sent, delivered>>
vars == <<queueVars, producerVars, consumerVars, stopVars, history>>

ProducerState == {"idle", "trying", "notify"}
ConsumerState == {"loop", "test", "blocking", "waiting", "reminder", "swap",
                  "deliver", "finish", "done"}
StopState == {"running", "notify", "joining", "joined"}

TypeOK ==
    /\ buffer \in [Array -> [Slot -> Blob \cup {NoBlob}]]
    /\ writeBuffer \in Array
    /\ bufferUsed \in 0 .. Capacity
    /\ stopWriteThread \in BOOLEAN
    /\ calls \in 0 .. MaxCalls
    /\ pc \in [Producer -> ProducerState]
    /\ item \in [Producer -> Blob \cup {NoBlob}]
    /\ cpc \in ConsumerState
    /\ final \in BOOLEAN
    /\ woken \in BOOLEAN
    /\ values \in Array
    /\ nrOfValues \in 0 .. Capacity
    /\ position \in 0 .. Capacity
    /\ spc \in StopState
    /\ sent \in Seq(Blob)
    /\ delivered \in Seq(Blob)

Init ==
    /\ buffer = [a \in Array |-> [i \in Slot |-> NoBlob]]
    /\ writeBuffer = 1
    /\ bufferUsed = 0
    /\ stopWriteThread = FALSE
    /\ calls = 0
    /\ pc = [p \in Producer |-> "idle"]
    /\ item = [p \in Producer |-> NoBlob]
    /\ cpc = "loop"
    /\ final = FALSE
    /\ woken = FALSE
    /\ values = 2
    /\ nrOfValues = 0
    /\ position = 0
    /\ spc = "running"
    /\ sent = <<>>
    /\ delivered = <<>>
-----------------------------------------------------------------------------
(* The queue under queueMutex_.                                            *)

Full == bufferUsed >= Capacity

queueEmpty == bufferUsed = 0

\* tryEnqueue on a queue with room: the body after the early return.
Store(v) ==
    /\ ~Full
    /\ buffer' = [buffer EXCEPT ![writeBuffer][bufferUsed + 1] = v]
    /\ bufferUsed' = bufferUsed + 1
    /\ sent' = Append(sent, v)
    /\ UNCHANGED <<writeBuffer, delivered>>

\* blobInQueueCondition_.notify_one(): lost unless the consumer sleeps.
notify_one == woken' = (woken \/ cpc = "waiting")
-----------------------------------------------------------------------------
(* Producers.  No call starts once the owner is being destroyed: the I/O   *)
(* threads were joined, the signals disconnected and the timer joined.     *)

Call(p) ==
    /\ spc = "running"
    /\ pc[p] = "idle"
    /\ calls < MaxCalls
    /\ calls' = calls + 1
    /\ item' = [item EXCEPT ![p] = calls + 1]
    /\ pc' = [pc EXCEPT ![p] = "trying"]
    /\ UNCHANGED <<queueVars, consumerVars, stopVars, history>>

\* A failed tryEnqueue calls onFail, which sleeps and changes nothing, so
\* the loop of enqueue is a producer that stays in "trying".
tryEnqueue(p) ==
    /\ pc[p] = "trying"
    /\ Store(item[p])
    /\ pc' = [pc EXCEPT ![p] = "notify"]
    /\ item' = [item EXCEPT ![p] = NoBlob]
    /\ UNCHANGED <<calls, consumerVars, stopVars>>

Notify(p) ==
    /\ pc[p] = "notify"
    /\ pc' = [pc EXCEPT ![p] = "idle"]
    /\ notify_one
    /\ UNCHANGED <<queueVars, calls, item, cpc, final, batchVars, stopVars,
                   history>>
-----------------------------------------------------------------------------
(* The consumer thread.                                                    *)

\* The predicate of wait_for.
Predicate == ~queueEmpty \/ stopWriteThread

MutantLoopSkipsLastBatch ==
    /\ cpc = "loop"
    /\ cpc' = IF stopWriteThread THEN "finish" ELSE "test"
    /\ final' = stopWriteThread
    /\ UNCHANGED <<queueVars, producerVars, woken, batchVars, stopVars, history>>

MutantLoopForgetsStop ==
    /\ cpc = "loop"
    /\ cpc' = IF stopWriteThread THEN "swap" ELSE "test"
    /\ UNCHANGED <<queueVars, producerVars, final, woken, batchVars, stopVars,
                   history>>

\* The while condition of threadLoop; behind the loop comes one more
\* consumeValues.
threadLoop ==
    /\ cpc = "loop"
    /\ cpc' = IF stopWriteThread THEN "swap" ELSE "test"
    /\ final' = stopWriteThread
    /\ UNCHANGED <<queueVars, producerVars, woken, batchVars, stopVars, history>>

\* wait_for evaluates the predicate before it sleeps.
Test ==
    /\ cpc = "test"
    /\ cpc' = IF Predicate THEN "swap" ELSE "blocking"
    /\ UNCHANGED <<queueVars, producerVars, final, woken, batchVars, stopVars,
                   history>>

\* The predicate was false; a notification sent before the thread sleeps,
\* which takes no conditionMutex_, is lost.
Block ==
    /\ cpc = "blocking"
    /\ cpc' = "waiting"
    /\ woken' = FALSE
    /\ UNCHANGED <<queueVars, producerVars, final, batchVars, stopVars, history>>

Wake ==
    /\ cpc = "waiting"
    /\ woken
    /\ cpc' = IF Predicate THEN "swap" ELSE "blocking"
    /\ woken' = FALSE
    /\ UNCHANGED <<queueVars, producerVars, final, batchVars, stopVars, history>>

MutantWaitWithoutTimeout ==
    /\ cpc = "waiting"
    /\ UNCHANGED vars

\* wait_for gives up after loopWaitMilliseconds_ and returns the predicate.
\* EventCollector::onThreadWaitNoValues is empty, the plugin's calls enqueue.
Timeout ==
    /\ cpc = "waiting"
    /\ \/ /\ Predicate
          /\ cpc' = "swap"
          /\ UNCHANGED calls
       \/ /\ ~Predicate
          /\ ~(SendsReminder /\ calls < MaxCalls)
          /\ cpc' = "loop"
          /\ UNCHANGED calls
       \/ /\ ~Predicate
          /\ SendsReminder /\ calls < MaxCalls
          /\ cpc' = "reminder"
          /\ calls' = calls + 1
    /\ woken' = FALSE
    /\ UNCHANGED <<queueVars, pc, item, final, batchVars, stopVars, history>>

\* ForumSearchUpdatePlugin::onThreadWaitNoValues: enqueue({}) by the
\* consumer thread; its own notify_one finds nobody asleep.
SendReminder ==
    /\ cpc = "reminder"
    /\ Store(Reminder)
    /\ cpc' = "loop"
    /\ UNCHANGED <<producerVars, final, woken, batchVars, stopVars>>

MutantNoSwap ==
    /\ cpc = "swap"
    /\ nrOfValues' = bufferUsed
    /\ values' = writeBuffer
    /\ position' = 0
    /\ bufferUsed' = 0
    /\ cpc' = "deliver"
    /\ UNCHANGED <<buffer, writeBuffer, producerVars, final, woken, stopVars,
                   history>>

MutantNoReset ==
    /\ cpc = "swap"
    /\ nrOfValues' = bufferUsed
    /\ values' = writeBuffer
    /\ position' = 0
    /\ writeBuffer' = Other(writeBuffer)
    /\ cpc' = "deliver"
    /\ UNCHANGED <<buffer, bufferUsed, producerVars, final, woken, stopVars,
                   history>>

\* consumeValues under queueMutex_.
consumeValues ==
    /\ cpc = "swap"
    /\ nrOfValues' = bufferUsed
    /\ values' = writeBuffer
    /\ position' = 0
    /\ writeBuffer' = Other(writeBuffer)
    /\ bufferUsed' = 0
    /\ cpc' = "deliver"
    /\ UNCHANGED <<buffer, producerVars, final, woken, stopVars, history>>

\* The derived class reads the next value of the array it was given.
ReadValue ==
    /\ cpc = "deliver"
    /\ position < nrOfValues
    /\ delivered' = Append(delivered, buffer[values][position + 1])
    /\ position' = position + 1
    /\ UNCHANGED <<queueVars, producerVars, cpc, final, woken, values,
                   nrOfValues, stopVars, sent>>

\* It frees them all and returns to the while condition, or to the end of
\* threadLoop after the last consumeValues.
FreeValues ==
    /\ cpc = "deliver"
    /\ position = nrOfValues
    /\ buffer' = [buffer EXCEPT ![values] =
                    [i \in Slot |-> IF i <= nrOfValues THEN NoBlob
                                    ELSE buffer[values][i]]]
    /\ nrOfValues' = 0
    /\ position' = 0
    /\ cpc' = IF final THEN "finish" ELSE "loop"
    /\ UNCHANGED <<writeBuffer, bufferUsed, producerVars, final, woken, values,
                   stopVars, history>>

\* onThreadFinish and the end of the thread function.
Finish ==
    /\ cpc = "finish"
    /\ cpc' = "done"
    /\ UNCHANGED <<queueVars, producerVars, final, woken, batchVars, stopVars,
                   history>>
-----------------------------------------------------------------------------
(* stopConsumer, called once every producer has returned.                  *)

stopConsumer ==
    /\ spc = "running"
    /\ \A p \in Producer : pc[p] = "idle"
    /\ stopWriteThread' = TRUE
    /\ spc' = "notify"
    /\ UNCHANGED <<queueVars, producerVars, consumerVars, history>>

NotifyStop ==
    /\ spc = "notify"
    /\ spc' = "joining"
    /\ notify_one
    /\ UNCHANGED <<queueVars, producerVars, cpc, final, batchVars,
                   stopWriteThread, history>>

Join ==
    /\ spc = "joining"
    /\ cpc = "done"
    /\ spc' = "joined"
    /\ UNCHANGED <<queueVars, producerVars, consumerVars, stopWriteThread, history>>

\* The consumer is stopped: nothing happens any more.
Stopped ==
    /\ spc = "joined"
    /\ UNCHANGED vars
-----------------------------------------------------------------------------
ProducerStep(p) == Call(p) \/ tryEnqueue(p) \/ Notify(p)

ConsumerStep ==
    threadLoop \/ Test \/ Block \/ Wake \/ Timeout \/ SendReminder
        \/ consumeValues \/ ReadValue \/ FreeValues \/ Finish

StopStep == stopConsumer \/ NotifyStop \/ Join

Next == (\E p \in Producer : ProducerStep(p)) \/ ConsumerStep \/ StopStep \/ Stopped

Spec == Init /\ [][Next]_vars
-----------------------------------------------------------------------------
(* Fairness: the operating system runs every thread that can run, a sleep  *)
(* of wait_for ends, and stopConsumer is the last thing the owner calls    *)
(* (nothing forces the application to stop, so its start is not fair).     *)

FairSpec ==
    /\ Spec
    /\ \A p \in Producer : WF_vars(tryEnqueue(p)) /\ WF_vars(Notify(p))
    /\ WF_vars(ConsumerStep)
    /\ WF_vars(NotifyStop \/ Join)
-----------------------------------------------------------------------------
(* Properties.                                                             *)

\* The blobs taken by the consumer that the derived class has not read yet.
Remaining == nrOfValues - position

\* Each of the arrays holds exactly the blobs that are due next: the taken
\* array the next ones, the write array those after them.  It says that a
\* producer never writes into the array being read (the swap in
\* consumeValues) and that no slot is freed before it is read.
ArraysHoldTheBacklog ==
    /\ Len(sent) = Len(delivered) + Remaining + bufferUsed
    /\ \A i \in 1 .. Remaining :
          buffer[values][position + i] = sent[Len(delivered) + i]
    /\ \A i \in 1 .. bufferUsed :
          buffer[writeBuffer][i] = sent[Len(delivered) + Remaining + i]

\* What the derived class has read is what tryEnqueue accepted, in the order
\* of acceptance, nothing twice and nothing skipped.
DeliveredInOrder ==
    /\ Len(delivered) <= Len(sent)
    /\ \A i \in 1 .. Len(delivered) : delivered[i] = sent[i]

\* When stopConsumer returns every accepted blob has been handed to the
\* derived class: the consumeValues behind the loop of threadLoop misses none.
StopDrainsTheQueue == spc = "joined" => delivered = sent

\* The consumer implements a first-in first-out channel.
Channel == INSTANCE EventChannel WITH Value <- Blob
ImplementsChannel == Channel!ChannelSpec

\* The consumer thread is inside of enqueue and the queue is full: only itself
\* could make room.
WaitsForItself == cpc = "reminder" /\ Full

\* Every call of enqueue by a producer returns: one that found the queue full
\* gets room ("the calling thread will wait"), unless the consumer waits for
\* itself.
EnqueueReturns ==
    \A p \in Producer : (pc[p] = "trying") ~> (pc[p] = "idle" \/ WaitsForItself)

\* Every accepted blob is handed to the derived class although notify_one
\* can be lost: the timed wait of threadLoop makes up for it.
EveryBlobDelivered ==
    \A n \in 1 .. MaxCalls :
        (Len(sent) >= n) ~> (Len(delivered) >= n \/ WaitsForItself)

\* stopConsumer always returns, unless the consumer waits for itself.
StopReturns == (spc = "notify") ~> (spc = "joined" \/ WaitsForItself)

\* enqueue "can be called from any thread", the consumer thread included.
ReminderReturns == (cpc = "reminder") ~> (cpc # "reminder")
=============================================================================
