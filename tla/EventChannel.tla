---------------------------- MODULE EventChannel ----------------------------
(***************************************************************************)
(* What the rest of the backend relies on when it hands a blob to a        *)
(* SeparateThreadConsumer: an unbounded first-in first-out channel.  A     *)
(* value that was accepted is delivered to the derived class once, after   *)
(* every value accepted before it, and delivery never invents a value.     *)
(* Batching, the two swapped arrays, the condition variable and the wait   *)
(* for room are details that this specification does not mention.          *)
(***************************************************************************)
EXTENDS Naturals, Sequences

CONSTANT Value   \* the values that can be handed over

VARIABLES
    sent,       \* the values accepted so far, in the order of acceptance
    delivered   \* the values the derived class received so far

channelVars == <<sent, delivered>>

ChannelInit ==
    /\ sent = <<>>
    /\ delivered = <<>>

Accept(v) ==
    /\ sent' = Append(sent, v)
    /\ UNCHANGED delivered

Deliver ==
    /\ Len(delivered) < Len(sent)
    /\ delivered' = Append(delivered, sent[Len(delivered) + 1])
    /\ UNCHANGED sent

ChannelNext == (\E v \in Value : Accept(v)) \/ Deliver

ChannelSpec == ChannelInit /\ [][ChannelNext]_channelVars
=============================================================================
