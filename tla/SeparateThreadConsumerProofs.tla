-------------------- MODULE SeparateThreadConsumerProofs --------------------
(***************************************************************************)
(* For any number of producers, any capacity and any number of calls, the  *)
(* write-behind queue delivers in order, loses nothing when it is stopped  *)
(* and implements a first-in first-out channel.                            *)
(*                                                                         *)
(* The argument: the arrays hold exactly the blobs that are due            *)
(* (ArraysHoldTheBacklog).  That is inductive only together with where the *)
(* threads are: the array being read is never the write array, a batch     *)
(* exists only between the swap and the free, and once the stop flag is up *)
(* nobody can add to the queue after the last swap.                        *)
(***************************************************************************)
EXTENDS SeparateThreadConsumer, TLAPS

\* A batch is in hand only while the derived class works on it, and it lies
\* in the array that producers do not write to.
BatchInv ==
    /\ position <= nrOfValues
    /\ cpc # "deliver" => nrOfValues = 0
    /\ cpc = "deliver" => values # writeBuffer

\* What the stop flag says about the producers and the consumer.
StopInv ==
    /\ stopWriteThread <=> spc # "running"
    /\ spc # "running" => \A p \in Producer : pc[p] = "idle"
    /\ final => stopWriteThread
    /\ final => cpc \in {"swap", "deliver", "finish", "done"}
    /\ cpc \in {"finish", "done"} => final
    /\ final /\ cpc # "swap" => bufferUsed = 0
    /\ spc = "joined" => cpc = "done"

\* A producer inside enqueue holds a blob.
ItemInv == \A p \in Producer : pc[p] = "trying" => item[p] \in Blob

IInv ==
    /\ TypeOK
    /\ BatchInv
    /\ StopInv
    /\ ItemInv
    /\ ArraysHoldTheBacklog
    /\ DeliveredInOrder

USE CapacityAssumption, MaxCallsAssumption, SendsReminderAssumption
-----------------------------------------------------------------------------
(* Facts used by every action that stores into the queue.                  *)

\* Appending keeps the elements that were there.
LEMMA AppendFacts ==
    ASSUME NEW S, NEW s \in Seq(S), NEW v \in S
    PROVE  /\ Append(s, v) \in Seq(S)
           /\ Len(Append(s, v)) = Len(s) + 1
           /\ Append(s, v)[Len(s) + 1] = v
           /\ \A i \in 1 .. Len(s) : Append(s, v)[i] = s[i]
OBVIOUS

\* A tryEnqueue that finds room keeps the arrays equal to the backlog and
\* the delivered blobs a prefix of the accepted ones (the producers' part of
\* the invariant, also used by the plugin's reminder).
LEMMA StoreKeepsBacklog ==
    ASSUME TypeOK, BatchInv, ArraysHoldTheBacklog, DeliveredInOrder,
           NEW v \in Blob, Store(v), cpc' = cpc \/ cpc # "deliver",
           UNCHANGED batchVars
    PROVE  ArraysHoldTheBacklog' /\ DeliveredInOrder'
<1>1. /\ sent \in Seq(Blob) /\ delivered \in Seq(Blob)
      /\ sent' = Append(sent, v) /\ delivered' = delivered
      /\ Len(sent') = Len(sent) + 1
      /\ sent'[Len(sent) + 1] = v
      /\ \A i \in 1 .. Len(sent) : sent'[i] = sent[i]
  BY AppendFacts DEF Store, TypeOK
<1>2. /\ bufferUsed \in Nat /\ bufferUsed' = bufferUsed + 1
      /\ bufferUsed < Capacity
      /\ nrOfValues \in Nat /\ position \in Nat /\ Remaining \in Nat
      /\ Remaining' = Remaining
      /\ Remaining > 0 => values # writeBuffer
      /\ Len(sent) \in Nat /\ Len(delivered) \in Nat
  BY <1>1 DEF Store, Full, TypeOK, Remaining, BatchInv, batchVars
<1>3. /\ buffer'[writeBuffer][bufferUsed + 1] = v
      /\ \A i \in 1 .. bufferUsed : buffer'[writeBuffer][i] = buffer[writeBuffer][i]
      /\ values # writeBuffer => buffer'[values] = buffer[values]
  BY <1>2 DEF Store, TypeOK, Slot
<1>4. Len(sent') = Len(delivered') + Remaining' + bufferUsed'
  BY <1>1, <1>2 DEF ArraysHoldTheBacklog
<1>5. ASSUME NEW i \in 1 .. Remaining'
      PROVE  buffer'[values'][position' + i] = sent'[Len(delivered') + i]
  <2>1. buffer[values][position + i] = sent[Len(delivered) + i]
    BY <1>2, <1>5 DEF ArraysHoldTheBacklog
  <2>2. Len(delivered) + i \in 1 .. Len(sent)
    BY <1>2, <1>5 DEF ArraysHoldTheBacklog
  <2>3. values # writeBuffer
    BY <1>2, <1>5
  <2> QED
    BY <1>1, <1>3, <2>1, <2>2, <2>3 DEF batchVars
<1>6. ASSUME NEW i \in 1 .. bufferUsed'
      PROVE  buffer'[writeBuffer'][i] = sent'[Len(delivered') + Remaining' + i]
  <2>0. writeBuffer' = writeBuffer
    BY DEF Store
  <2>1. CASE i = bufferUsed + 1
    <3>1. Len(delivered) + Remaining + i = Len(sent) + 1
      BY <1>2, <2>1 DEF ArraysHoldTheBacklog
    <3> QED
      BY <1>1, <1>2, <1>3, <2>0, <2>1, <3>1
  <2>2. CASE i \in 1 .. bufferUsed
    <3>1. Len(delivered) + Remaining + i \in 1 .. Len(sent)
      BY <1>2, <2>2 DEF ArraysHoldTheBacklog
    <3>2. buffer[writeBuffer][i] = sent[Len(delivered) + Remaining + i]
      BY <2>2 DEF ArraysHoldTheBacklog
    <3> QED
      BY <1>1, <1>2, <1>3, <2>0, <2>2, <3>1, <3>2
  <2> QED
    BY <1>2, <2>1, <2>2
<1>7. DeliveredInOrder'
  BY <1>1, <1>2 DEF DeliveredInOrder
<1> QED
  BY <1>4, <1>5, <1>6, <1>7 DEF ArraysHoldTheBacklog
-----------------------------------------------------------------------------
(* The invariant holds initially and every step keeps it.                  *)

\* The freshly constructed consumer satisfies the invariant.
LEMMA InitInv == Init => IInv
<1> SUFFICES ASSUME Init PROVE IInv
  OBVIOUS
<1>1. TypeOK
  <2>1. sent \in Seq(Blob) /\ delivered \in Seq(Blob)
    BY DEF Init
  <2>2. buffer \in [Array -> [Slot -> Blob \cup {NoBlob}]]
    BY DEF Init
  <2>3. writeBuffer \in Array /\ values \in Array
    BY DEF Init, Array
  <2>4. stopWriteThread \in BOOLEAN /\ final \in BOOLEAN /\ woken \in BOOLEAN
    BY Zenon DEF Init
  <2>5. bufferUsed \in 0 .. Capacity /\ calls \in 0 .. MaxCalls
        /\ nrOfValues \in 0 .. Capacity /\ position \in 0 .. Capacity
    BY DEF Init
  <2>6. pc \in [Producer -> ProducerState] /\ cpc \in ConsumerState
        /\ spc \in StopState /\ item \in [Producer -> Blob \cup {NoBlob}]
    BY DEF Init, ProducerState, ConsumerState, StopState
  <2> QED
    BY <2>1, <2>2, <2>3, <2>4, <2>5, <2>6 DEF TypeOK
<1>2. BatchInv /\ StopInv /\ ItemInv
  BY DEF Init, BatchInv, StopInv, ItemInv
<1>3. ArraysHoldTheBacklog /\ DeliveredInOrder
  BY DEF Init, ArraysHoldTheBacklog, DeliveredInOrder, Remaining
<1> QED
  BY <1>1, <1>2, <1>3 DEF IInv

\* Every step of a producer, of the consumer thread and of stopConsumer
\* keeps it.
LEMMA StepInv == IInv /\ [Next]_vars => IInv'
<1> SUFFICES ASSUME IInv, [Next]_vars PROVE IInv'
  OBVIOUS
<1> USE DEF IInv
<1>1. ASSUME NEW p \in Producer, Call(p) PROVE IInv'
  <2>1. TypeOK'
    BY <1>1 DEF Call, TypeOK, queueVars, consumerVars, batchVars, stopVars,
                history, Blob, ProducerState
  <2>2. BatchInv' /\ StopInv'
    BY <1>1 DEF Call, BatchInv, StopInv, TypeOK, queueVars, consumerVars,
                batchVars, stopVars
  <2>3. ItemInv'
    BY <1>1 DEF Call, ItemInv, TypeOK, Blob
  <2>4. ArraysHoldTheBacklog' /\ DeliveredInOrder'
    BY <1>1 DEF Call, ArraysHoldTheBacklog, DeliveredInOrder, Remaining,
                queueVars, consumerVars, batchVars, history
  <2> QED
    BY <2>1, <2>2, <2>3, <2>4
<1>2. ASSUME NEW p \in Producer, tryEnqueue(p) PROVE IInv'
  <2>0. item[p] \in Blob /\ Store(item[p]) /\ UNCHANGED batchVars /\ cpc' = cpc
    BY <1>2 DEF tryEnqueue, ItemInv, consumerVars
  <2>1. TypeOK'
    <3>1. sent' \in Seq(Blob) /\ delivered' = delivered
      BY <2>0, AppendFacts DEF Store, TypeOK
    <3>2. buffer' \in [Array -> [Slot -> Blob \cup {NoBlob}]]
      BY <2>0 DEF Store, TypeOK, Full, Slot
    <3> QED
      BY <1>2, <2>0, <3>1, <3>2
      DEF tryEnqueue, Store, Full, TypeOK, consumerVars, batchVars, stopVars,
          ProducerState
  <2>2. BatchInv' /\ StopInv'
    BY <1>2 DEF tryEnqueue, Store, Full, BatchInv, StopInv, TypeOK,
                consumerVars, batchVars, stopVars
  <2>3. ItemInv'
    BY <1>2 DEF tryEnqueue, ItemInv, TypeOK
  <2>4. ArraysHoldTheBacklog' /\ DeliveredInOrder'
    BY <2>0, StoreKeepsBacklog
  <2> QED
    BY <2>1, <2>2, <2>3, <2>4
<1>3. ASSUME NEW p \in Producer, Notify(p) PROVE IInv'
  <2>1. TypeOK'
    BY <1>3 DEF Notify, notify_one, TypeOK, queueVars, batchVars, stopVars,
                history, ProducerState
  <2>2. BatchInv' /\ StopInv' /\ ItemInv'
    BY <1>3 DEF Notify, BatchInv, StopInv, ItemInv, TypeOK, queueVars,
                batchVars, stopVars
  <2>3. ArraysHoldTheBacklog' /\ DeliveredInOrder'
    BY <1>3 DEF Notify, ArraysHoldTheBacklog, DeliveredInOrder, Remaining,
                queueVars, batchVars, history
  <2> QED
    BY <2>1, <2>2, <2>3
<1>4. CASE threadLoop \/ Test \/ Block \/ Wake \/ Timeout \/ Finish
  <2>0. /\ cpc \in {"loop", "test", "blocking", "waiting", "finish"}
        /\ UNCHANGED <<queueVars, pc, item, batchVars, stopVars, history>>
        /\ cpc' # "deliver"
    BY <1>4 DEF threadLoop, Test, Block, Wake, Timeout, Finish, producerVars
  <2>1. TypeOK'
    <3>1. calls' \in 0 .. MaxCalls
      BY <1>4 DEF threadLoop, Test, Block, Wake, Timeout, Finish, TypeOK,
                  producerVars
    <3>2. cpc' \in ConsumerState
      BY <1>4 DEF threadLoop, Test, Block, Wake, Timeout, Finish, ConsumerState
    <3>3. final' \in BOOLEAN
      BY <1>4 DEF threadLoop, Test, Block, Wake, Timeout, Finish, TypeOK
    <3>4. woken' \in BOOLEAN
      BY <1>4 DEF threadLoop, Test, Block, Wake, Timeout, Finish, TypeOK
    <3> QED
      BY <2>0, <3>1, <3>2, <3>3, <3>4
      DEF TypeOK, queueVars, batchVars, stopVars, history
  <2>2. BatchInv' /\ ItemInv'
    BY <2>0 DEF BatchInv, ItemInv, queueVars, batchVars
  <2>3. StopInv'
    BY <1>4 DEF threadLoop, Test, Block, Wake, Timeout, Finish, StopInv, TypeOK,
                queueVars, producerVars, batchVars, stopVars
  <2>4. ArraysHoldTheBacklog' /\ DeliveredInOrder'
    BY <2>0 DEF ArraysHoldTheBacklog, DeliveredInOrder, Remaining,
                queueVars, batchVars, history
  <2> QED
    BY <2>1, <2>2, <2>3, <2>4
<1>5. CASE SendReminder
  <2>0. Reminder \in Blob /\ Store(Reminder) /\ UNCHANGED batchVars /\ cpc # "deliver"
    BY <1>5 DEF SendReminder, Reminder, Blob
  <2>1. TypeOK'
    <3>1. sent' \in Seq(Blob) /\ delivered' = delivered
      BY <2>0, AppendFacts DEF Store, TypeOK
    <3>2. buffer' \in [Array -> [Slot -> Blob \cup {NoBlob}]]
      BY <2>0 DEF Store, TypeOK, Full, Slot
    <3> QED
      BY <1>5, <2>0, <3>1, <3>2
      DEF SendReminder, Store, Full, TypeOK, producerVars, batchVars, stopVars,
          ConsumerState
  <2>2. BatchInv' /\ StopInv' /\ ItemInv'
    BY <1>5 DEF SendReminder, Store, Full, BatchInv, StopInv, ItemInv, TypeOK,
                producerVars, batchVars, stopVars
  <2>3. ArraysHoldTheBacklog' /\ DeliveredInOrder'
    BY <2>0, StoreKeepsBacklog
  <2> QED
    BY <2>1, <2>2, <2>3
<1>6. CASE consumeValues
  <2>1. TypeOK'
    BY <1>6 DEF consumeValues, TypeOK, producerVars, stopVars, history, Array,
                Other, ConsumerState
  <2>2. BatchInv' /\ StopInv' /\ ItemInv'
    BY <1>6 DEF consumeValues, BatchInv, StopInv, ItemInv, TypeOK, producerVars,
                stopVars, Array, Other
  <2>3. ArraysHoldTheBacklog' /\ DeliveredInOrder'
    BY <1>6 DEF consumeValues, ArraysHoldTheBacklog, DeliveredInOrder, Remaining,
                BatchInv, TypeOK, history
  <2> QED
    BY <2>1, <2>2, <2>3
<1>7. CASE ReadValue
  <2> DEFINE v == buffer[values][position + 1]
  <2>1. v \in Blob /\ v = sent[Len(delivered) + 1] /\ Len(delivered) < Len(sent)
    <3>1. Remaining > 0 /\ Len(delivered) \in Nat /\ bufferUsed \in Nat
      BY <1>7 DEF ReadValue, Remaining, TypeOK
    <3>2. v = sent[Len(delivered) + 1] /\ Len(delivered) < Len(sent)
      BY <3>1 DEF ArraysHoldTheBacklog, Remaining, TypeOK
    <3> QED
      BY <3>1, <3>2 DEF TypeOK
  <2>2. /\ delivered' = Append(delivered, v) /\ delivered' \in Seq(Blob)
        /\ Len(delivered') = Len(delivered) + 1
        /\ delivered'[Len(delivered) + 1] = v
        /\ \A i \in 1 .. Len(delivered) : delivered'[i] = delivered[i]
    BY <1>7, <2>1, AppendFacts DEF ReadValue, TypeOK
  <2> HIDE DEF v
  <2>3. TypeOK'
    BY <1>7, <2>2 DEF ReadValue, TypeOK, queueVars, producerVars, stopVars
  <2>4. BatchInv' /\ StopInv' /\ ItemInv'
    BY <1>7 DEF ReadValue, BatchInv, StopInv, ItemInv, TypeOK, queueVars,
                producerVars, stopVars
  <2>5. DeliveredInOrder'
    BY <1>7, <2>1, <2>2 DEF ReadValue, DeliveredInOrder, TypeOK
  <2>6. ArraysHoldTheBacklog'
    <3>1. /\ Remaining' = Remaining - 1 /\ Len(delivered') = Len(delivered) + 1
          /\ position' = position + 1 /\ sent' = sent
          /\ buffer' = buffer /\ bufferUsed' = bufferUsed
          /\ writeBuffer' = writeBuffer /\ values' = values
          /\ Remaining \in Nat \ {0} /\ Len(delivered) \in Nat
          /\ position \in Nat /\ bufferUsed \in Nat /\ Len(sent) \in Nat
      BY <1>7, <2>2 DEF ReadValue, Remaining, TypeOK, queueVars
    <3>2. Len(sent') = Len(delivered') + Remaining' + bufferUsed'
      BY <3>1 DEF ArraysHoldTheBacklog
    <3>3. ASSUME NEW i \in 1 .. Remaining'
          PROVE  buffer'[values'][position' + i] = sent'[Len(delivered') + i]
      <4>1. /\ i + 1 \in 1 .. Remaining
            /\ position' + i = position + (i + 1)
            /\ Len(delivered') + i = Len(delivered) + (i + 1)
        BY <3>1, <3>3
      <4> QED
        BY <3>1, <4>1 DEF ArraysHoldTheBacklog
    <3>4. ASSUME NEW i \in 1 .. bufferUsed'
          PROVE  buffer'[writeBuffer'][i] = sent'[Len(delivered') + Remaining' + i]
      <4>1. Len(delivered') + Remaining' + i = Len(delivered) + Remaining + i
        BY <3>1, <3>4
      <4> QED
        BY <3>1, <4>1 DEF ArraysHoldTheBacklog
    <3> QED
      BY <3>2, <3>3, <3>4 DEF ArraysHoldTheBacklog
  <2> QED
    BY <2>3, <2>4, <2>5, <2>6
<1>8. CASE FreeValues
  <2>1. TypeOK'
    BY <1>8 DEF FreeValues, TypeOK, producerVars, stopVars, history, Blob,
                ConsumerState
  <2>2. BatchInv' /\ StopInv' /\ ItemInv'
    BY <1>8 DEF FreeValues, BatchInv, StopInv, ItemInv, TypeOK, producerVars,
                stopVars
  <2>3. buffer'[writeBuffer] = buffer[writeBuffer]
    BY <1>8 DEF FreeValues, BatchInv, TypeOK
  <2>4. Remaining = 0 /\ Remaining' = 0
    BY <1>8 DEF FreeValues, Remaining, TypeOK
  <2>5. ArraysHoldTheBacklog' /\ DeliveredInOrder'
    BY <1>8, <2>3, <2>4 DEF FreeValues, ArraysHoldTheBacklog, DeliveredInOrder,
                            history
  <2> QED
    BY <2>1, <2>2, <2>5
<1>9. CASE stopConsumer \/ NotifyStop \/ Join
  <2>1. TypeOK'
    BY <1>9 DEF stopConsumer, NotifyStop, Join, notify_one, TypeOK, queueVars,
                producerVars, consumerVars, batchVars, history, StopState
  <2>2. BatchInv' /\ StopInv' /\ ItemInv'
    BY <1>9 DEF stopConsumer, NotifyStop, Join, BatchInv, StopInv, ItemInv,
                TypeOK, queueVars, producerVars, consumerVars, batchVars
  <2>3. ArraysHoldTheBacklog' /\ DeliveredInOrder'
    BY <1>9 DEF stopConsumer, NotifyStop, Join, ArraysHoldTheBacklog,
                DeliveredInOrder, Remaining, queueVars, consumerVars, batchVars,
                history
  <2> QED
    BY <2>1, <2>2, <2>3
<1>10. CASE UNCHANGED vars
  <2>1. TypeOK'
    BY <1>10 DEF TypeOK, vars, queueVars, producerVars, consumerVars, batchVars,
                 stopVars, history
  <2>2. BatchInv' /\ StopInv' /\ ItemInv'
    BY <1>10 DEF BatchInv, StopInv, ItemInv, vars, queueVars, producerVars,
                 consumerVars, batchVars, stopVars
  <2>3. ArraysHoldTheBacklog' /\ DeliveredInOrder'
    BY <1>10 DEF ArraysHoldTheBacklog, DeliveredInOrder, Remaining, vars,
                 queueVars, consumerVars, batchVars, history
  <2> QED
    BY <2>1, <2>2, <2>3
<1> QED
  BY <1>1, <1>2, <1>3, <1>4, <1>5, <1>6, <1>7, <1>8, <1>9, <1>10
  DEF Next, ProducerStep, ConsumerStep, StopStep, Stopped

\* So it holds throughout every execution of the queue.
LEMMA Invariance == Spec => []IInv
  BY InitInv, StepInv, PTL DEF Spec
-----------------------------------------------------------------------------
(* The theorems.                                                           *)

\* Every variable of the queue, of the producers and of the consumer thread
\* keeps its type; in particular bufferUsed_ never passes the capacity.
THEOREM TypeCorrect == Spec => []TypeOK
  BY Invariance, PTL DEF IInv

\* The double buffering of consumeValues is right for any capacity and any
\* number of threads: no producer overwrites a blob that was not yet read.
THEOREM Backlog == Spec => []ArraysHoldTheBacklog
  BY Invariance, PTL DEF IInv

\* What the derived class reads is a prefix of what tryEnqueue accepted.
THEOREM InOrder == Spec => []DeliveredInOrder
  BY Invariance, PTL DEF IInv

\* After stopConsumer nothing accepted is left behind in an array.
THEOREM Drained == Spec => []StopDrainsTheQueue
<1>1. IInv => StopDrainsTheQueue
  <2> SUFFICES ASSUME IInv, spc = "joined" PROVE delivered = sent
    BY DEF StopDrainsTheQueue
  <2>1. bufferUsed = 0 /\ nrOfValues = 0 /\ position = 0
    BY DEF IInv, StopInv, BatchInv, TypeOK
  <2>2. Len(delivered) = Len(sent)
    BY <2>1 DEF IInv, ArraysHoldTheBacklog, Remaining, TypeOK
  <2>3. \A i \in 1 .. Len(delivered) : delivered[i] = sent[i]
    BY DEF IInv, DeliveredInOrder
  <2> QED
    BY <2>2, <2>3 DEF IInv, TypeOK
<1> QED
  BY <1>1, Invariance, PTL

\* The queue implements the abstract channel: a successful tryEnqueue is an
\* Accept, a value read by the derived class a Deliver, the rest stutters.
THEOREM Refinement == Spec => ImplementsChannel
<1>1. Init => Channel!ChannelInit
  BY DEF Init, Channel!ChannelInit
<1>2. IInv /\ [Next]_vars => [Channel!ChannelNext]_(Channel!channelVars)
  <2> SUFFICES ASSUME IInv, [Next]_vars
               PROVE  Channel!ChannelNext \/ UNCHANGED <<sent, delivered>>
    BY DEF Channel!channelVars
  <2>1. ASSUME NEW v \in Blob, Store(v)
        PROVE  Channel!ChannelNext
    BY <2>1 DEF Store, Channel!ChannelNext, Channel!Accept
  <2>2. ASSUME NEW p \in Producer, tryEnqueue(p) PROVE Channel!ChannelNext
    BY <2>1, <2>2 DEF IInv, ItemInv, tryEnqueue
  <2>3. CASE SendReminder
    BY <2>1, <2>3 DEF SendReminder, Reminder, Blob
  <2>4. CASE ReadValue
    <3>1. Remaining > 0 /\ Len(delivered) \in Nat /\ bufferUsed \in Nat
      BY <2>4 DEF ReadValue, Remaining, IInv, TypeOK
    <3>2. Len(delivered) < Len(sent)
          /\ buffer[values][position + 1] = sent[Len(delivered) + 1]
      BY <3>1 DEF IInv, ArraysHoldTheBacklog, Remaining, TypeOK
    <3> QED
      BY <2>4, <3>2 DEF ReadValue, Channel!ChannelNext, Channel!Deliver
  <2>5. CASE UNCHANGED history
    BY <2>5 DEF history
  <2> QED
    BY <2>2, <2>3, <2>4, <2>5
    DEF Next, ProducerStep, ConsumerStep, StopStep, Stopped, Call, Notify,
        threadLoop, Test, Block, Wake, Timeout, consumeValues, FreeValues,
        Finish, stopConsumer, NotifyStop, Join, vars, history
<1> QED
  BY <1>1, <1>2, Invariance, PTL
  DEF Spec, ImplementsChannel, Channel!ChannelSpec
=============================================================================
