\* Two users, an anonymous visitor and all commands, a group at a time.
SPECIFICATION Spec
CONSTANTS
    User = {u1, u2}
    Thread = {t1, t2}
    Message = {m1, m2}
    Comment = {c1, c2}
    PrivateMessage = {p1}
    Attachment = {a1, a2}
    Anonymous = anonymous
    Null = null
    MaxVotes = 2
    Policies <- MCPolicies
SYMMETRY SlotSymmetry
INVARIANTS
    RelationsAgree
    VotesTracked
    VotesReceivedCoverVotesShown
    CommentsAgree
