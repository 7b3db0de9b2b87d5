---------------------------- MODULE MCUserContent ----------------------------
(* UserContent on small instances.                                         *)
EXTENDS UserContent, TLC

\* Slots of the same pool are interchangeable.
SlotSymmetry ==
    Permutations(User) \cup Permutations(Thread) \cup Permutations(Message)
    \cup Permutations(Comment) \cup Permutations(Attachment)

\* Each policy permits commands that act on the same pointers.
MCPolicies ==
    {[commands |-> {"vote", "resetVote", "deleteMessage"},
      threads |-> 1, messages |-> 2],
     [commands |-> {"vote", "resetVote", "anonymous"},
      threads |-> 1, messages |-> 1],
     [commands |-> {"comment", "deleteThread", "deleteMessage", "anonymous"},
      threads |-> 1, messages |-> 2],
     [commands |-> {"merge", "move", "deleteThread", "subscribe", "anonymous"},
      threads |-> 2, messages |-> 2],
     [commands |-> {"attach", "send", "deleteMessage", "deleteThread",
                    "anonymous"},
      threads |-> 1, messages |-> 2]}
=============================================================================
