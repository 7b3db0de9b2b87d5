-------------------------- MODULE UserContentProofs --------------------------
(***************************************************************************)
(* Proofs about UserContent, for any number of slots, any policy and any   *)
(* bound of votes.                                                         *)
(***************************************************************************)
EXTENDS UserContent, FiniteSetTheorems, TLAPS

-----------------------------------------------------------------------------
(* The inductive invariant, one part per relation.                         *)

\* What is in the forum has an author in the forum; the exception are the
\* comments that deleteUser detached.
OwnersInv ==
    \A x \in Content : x \in live /\ x \notin Comment => createdBy[x] \in Visitor

\* A message in the forum is in a thread in the forum.
ParentsInv == \A m \in Message : m \in live => parentThread[m] \in live

\* A private message exists as long as both parties do.
LettersInv ==
    \A p \in PrivateMessage : p \in live => /\ parties[p].source \in Visitor
                                            /\ parties[p].destination \in live

AuthorsInv == AuthorsAgree /\ OwnersInv
ThreadsInv == ThreadsAgree /\ ParentsInv
MailInv == PrivateMessagesAgree /\ LettersInv
SolvedInv == solved \subseteq live /\ SolvedCommentsCovered

Inv ==
    /\ TypeOK
    /\ AuthorsInv /\ ThreadsInv /\ SubscriptionsAgree /\ MailInv /\ AttachmentsAgree
    /\ VotesTracked /\ ShownCommentsExist /\ SolvedInv

LEMMA Kinds ==
    /\ User \cap Thread = {} /\ User \cap Message = {} /\ User \cap Comment = {}
    /\ User \cap Attachment = {} /\ User \cap PrivateMessage = {}
    /\ Thread \cap Message = {} /\ Thread \cap Comment = {}
    /\ Thread \cap Attachment = {} /\ Thread \cap PrivateMessage = {}
    /\ Message \cap Comment = {} /\ Message \cap Attachment = {}
    /\ Message \cap PrivateMessage = {} /\ Comment \cap Attachment = {}
    /\ Comment \cap PrivateMessage = {} /\ Attachment \cap PrivateMessage = {}
    /\ Anonymous \notin User /\ Null \notin User /\ Null # Anonymous
    /\ Null \notin Thread /\ Null \notin Message
    BY DisjointAssumption, SlotAssumption, NullAssumption DEF Content

LEMMA InvInit == Init => Inv
<1> SUFFICES ASSUME Init PROVE Inv
    OBVIOUS
<1>1. TypeOK
    <2>1. Unset \in [source: Account \cup {Null}, destination: User \cup {Null}]
        BY DEF Unset
    <2>2. None \in [up: Int, down: Int]
        BY DEF None
    <2> QED BY <2>1, <2>2 DEF Init, TypeOK
<1>2. AuthorsInv
    BY DEF Init, AuthorsInv, AuthorsAgree, OwnersInv
<1>3. ThreadsInv /\ SubscriptionsAgree
    BY DEF Init, ThreadsInv, ThreadsAgree, ParentsInv, SubscriptionsAgree, Account
<1>4. MailInv /\ AttachmentsAgree
    BY DEF Init, MailInv, PrivateMessagesAgree, LettersInv, AttachmentsAgree
<1>5. VotesTracked /\ ShownCommentsExist
    BY DEF Init, VotesTracked, ShownCommentsExist
<1>6. SolvedInv
    <2>1. Cardinality({}) = 0
        BY FS_EmptySet
    <2>2. \A m \in Message : comments[m] \cap solved = {} /\ solvedCommentsCount[m] = 0
        BY DEF Init
    <2> QED BY <2>1, <2>2 DEF Init, SolvedInv, SolvedCommentsCovered
<1> QED BY <1>1, <1>2, <1>3, <1>4, <1>5, <1>6 DEF Inv

-----------------------------------------------------------------------------
(* Deletion.  The entities that leave together must be closed under what   *)
(* the pointers of an entity are followed to.                              *)

Closed(gone) ==
    /\ gone \subseteq live
    /\ \A t \in gone \cap Thread : messages[t] \subseteq gone
    /\ \A m \in gone \cap Message : \A c \in comments[m] :
          c \in gone \/ createdBy[c] \in gone
    /\ \A c \in gone \cap Comment, m \in Message : c \in comments[m] => m \in gone
    /\ \A u \in gone \cap User : /\ owned[u] \subseteq gone \cup Comment
                                 /\ received[u] \subseteq gone /\ sent[u] \subseteq gone

LEMMA ReleaseType ==
    ASSUME TypeOK, NEW entities, Release(entities)
    PROVE  TypeOK'
<1> DEFINE gone == entities \cap live
<1>1. ReleaseContent(gone) /\ ReleaseMessages(gone) /\ policy' = policy
    BY DEF Release
<1>2. ReleaseVotes(gone) /\ ReleaseComments(gone)
    BY DEF Release
<1>3. ReleaseSubscriptions(gone) /\ ReleaseMail(gone) /\ ReleaseAttachments(gone)
    BY DEF Release
<1> HIDE DEF gone
<1>4. /\ policy' \in Policies /\ live' \subseteq Slot
      /\ createdBy' \in [Content -> Account \cup {Null}]
      /\ owned' \in [Account -> SUBSET Content]
      /\ parentThread' \in [Message -> Thread \cup {Null}]
      /\ messages' \in [Thread -> SUBSET Message]
    BY <1>1 DEF TypeOK, ReleaseContent, ReleaseMessages
<1>5. /\ upVotes' \in [Message -> SUBSET User] /\ downVotes' \in [Message -> SUBSET User]
      /\ votedMessages' \in [Account -> SUBSET Message]
      /\ votesReceived' \in [Account -> [up: Int, down: Int]]
    <2>1. None \in [up: Int, down: Int]
        BY DEF None
    <2> QED BY <1>2, <2>1 DEF TypeOK, ReleaseVotes
<1>6. /\ solved' \subseteq Comment
      /\ parentMessage' \in [Comment -> Message \cup {Null}]
      /\ comments' \in [Message -> SUBSET Comment]
    BY <1>2 DEF TypeOK, ReleaseComments
<1>7. solvedCommentsCount' \in [Message -> Int]
    <2>1. ASSUME NEW m \in Message
          PROVE  Cardinality(Withdrawn(gone, m) \cap solved) \in Int
        <3>1. IsFiniteSet(Comment)
            BY SlotAssumption
        <3>2. Withdrawn(gone, m) \cap solved \subseteq Comment
            BY DEF Withdrawn
        <3>3. IsFiniteSet(Withdrawn(gone, m) \cap solved)
            BY <3>1, <3>2, FS_Subset
        <3> HIDE DEF gone
        <3>4. Cardinality(Withdrawn(gone, m) \cap solved) \in Nat
            BY <3>3, FS_CardinalityType
        <3> QED BY <3>4
    <2>2. solvedCommentsCount' = [m \in Message |->
              IF m \in gone THEN 0
              ELSE solvedCommentsCount[m] - Cardinality(Withdrawn(gone, m) \cap solved)]
        BY <1>2 DEF ReleaseComments
    <2>3. ASSUME NEW m \in Message
          PROVE  (IF m \in gone THEN 0
                  ELSE solvedCommentsCount[m]
                       - Cardinality(Withdrawn(gone, m) \cap solved)) \in Int
        <3>1. solvedCommentsCount[m] \in Int
            BY DEF TypeOK
        <3> QED BY <2>1, <3>1
    <2> QED BY <2>2, <2>3
<1>8. /\ subscribedUsers' \in [Thread -> SUBSET User]
      /\ subscribedThreads' \in [Account -> SUBSET Thread]
    BY <1>3 DEF TypeOK, ReleaseSubscriptions
<1>9. /\ sent' \in [Account -> SUBSET PrivateMessage]
      /\ received' \in [Account -> SUBSET PrivateMessage]
      /\ parties' \in [PrivateMessage ->
              [source: Account \cup {Null}, destination: User \cup {Null}]]
    <2>1. Unset \in [source: Account \cup {Null}, destination: User \cup {Null}]
        BY DEF Unset
    <2> QED BY <1>3, <2>1 DEF TypeOK, ReleaseMail
<1>10. /\ attachments' \in [Message -> SUBSET Attachment]
       /\ attachedTo' \in [Attachment -> SUBSET Message]
    BY <1>3 DEF TypeOK, ReleaseAttachments
<1> QED BY <1>4, <1>5, <1>6, <1>7, <1>8, <1>9, <1>10 DEF TypeOK

\* Who leaves is nobody's author any more; who stays keeps exactly the
\* content that stays.
LEMMA ReleaseAuthors ==
    ASSUME TypeOK, AuthorsInv, NEW gone, Closed(gone), ReleaseContent(gone),
           ReleaseComments(gone)
    PROVE  AuthorsInv'
<1>1. Anonymous \notin gone /\ Anonymous \notin Content
    BY SlotAssumption DEF Closed, TypeOK, Slot, Content
<1>2. ASSUME NEW u \in Account, NEW x \in Content, x \in owned'[u]
      PROVE  /\ x \in live' /\ createdBy'[x] = u /\ u \in Visitor'
             /\ x \in Comment => \E m \in live' \cap Message :
                                     parentMessage'[x] = m /\ x \in comments'[m]
    <2>1. /\ u \notin gone /\ x \in owned[u]
          /\ ~(x \in gone /\ createdBy[x] = u)
        BY <1>2 DEF ReleaseContent
    <2>2. /\ x \in live /\ createdBy[x] = u /\ u \in Visitor
          /\ x \in Comment => \E m \in live \cap Message :
                                  parentMessage[x] = m /\ x \in comments[m]
        BY <2>1 DEF AuthorsInv, AuthorsAgree
    <2>3. x \notin gone
        BY <2>1, <2>2
    <2>4. x \in live' /\ createdBy'[x] = u /\ u \in Visitor'
        BY <2>1, <2>2, <2>3 DEF ReleaseContent, Visitor
    <2>5. ASSUME x \in Comment
          PROVE  \E m \in live' \cap Message : parentMessage'[x] = m /\ x \in comments'[m]
        <3>1. PICK m \in live \cap Message : parentMessage[x] = m /\ x \in comments[m]
            BY <2>2, <2>5
        <3>2. m \notin gone
            BY <2>1, <2>2, <2>3, <3>1 DEF Closed
        <3>3. x \notin Withdrawn(gone, m)
            <4>1. ASSUME NEW v \in gone \cap User, x \in owned[v]
                  PROVE  FALSE
                <5>1. createdBy[x] = v
                    BY <4>1 DEF AuthorsInv, AuthorsAgree, Account
                <5> QED BY <5>1, <2>1, <2>2
            <4> QED BY <4>1 DEF Withdrawn
        <3>4. parentMessage'[x] = m /\ x \in comments'[m] /\ m \in live'
            BY <2>3, <2>5, <3>1, <3>2, <3>3 DEF ReleaseComments, ReleaseContent
        <3> QED BY <3>1, <3>4
    <2> QED BY <2>4, <2>5
<1>3. ASSUME NEW u \in Account, NEW x \in Content,
             x \in live' /\ createdBy'[x] = u /\ u \in Visitor',
             x \in Comment => \E m \in live' \cap Message :
                                  parentMessage'[x] = m /\ x \in comments'[m]
      PROVE  x \in owned'[u]
    <2>1. /\ x \notin gone /\ x \in live /\ u \notin gone
          /\ createdBy[x] = u /\ u \in Visitor
        BY <1>1, <1>3 DEF ReleaseContent, Visitor
    <2>2. ASSUME x \in Comment
          PROVE  \E m \in live \cap Message : parentMessage[x] = m /\ x \in comments[m]
        BY <1>3, <2>1, <2>2 DEF ReleaseComments, ReleaseContent
    <2>3. x \in owned[u]
        BY <2>1, <2>2 DEF AuthorsInv, AuthorsAgree
    <2> QED BY <2>1, <2>3 DEF ReleaseContent
<1>4. AuthorsAgree'
    BY <1>2, <1>3 DEF AuthorsAgree
<1>5. ASSUME NEW x \in Content, x \in live', x \notin Comment
      PROVE  createdBy'[x] \in Visitor'
    <2>1. x \in live /\ x \notin gone /\ createdBy'[x] = createdBy[x]
        BY <1>5 DEF ReleaseContent
    <2>2. createdBy[x] \in Visitor
        BY <2>1, <1>5 DEF AuthorsInv, OwnersInv
    <2>3. x \in owned[createdBy[x]]
        BY <2>1, <2>2, <1>5 DEF AuthorsInv, AuthorsAgree, Visitor, Account
    <2>4. createdBy[x] \notin gone \cap User
        BY <2>1, <2>3, <1>5 DEF Closed
    <2> QED BY <1>1, <2>1, <2>2, <2>4 DEF ReleaseContent, Visitor
<1>6. OwnersInv'
    BY <1>5 DEF OwnersInv
<1> QED BY <1>4, <1>6 DEF AuthorsInv

LEMMA ReleaseThreads ==
    ASSUME TypeOK, ThreadsInv, NEW gone, Closed(gone), ReleaseContent(gone),
           ReleaseMessages(gone)
    PROVE  ThreadsInv'
<1>1. live' = live \ gone
    BY DEF ReleaseContent
<1>2. ASSUME NEW m \in Message
      PROVE  parentThread'[m] = IF m \in gone THEN Null ELSE parentThread[m]
    BY DEF ReleaseMessages
<1>3. ASSUME NEW t \in Thread
      PROVE  messages'[t] = IF t \in gone THEN {}
                            ELSE messages[t] \ {m \in gone \cap Message : parentThread[m] = t}
    BY DEF ReleaseMessages
<1>4. \A m \in Message, t \in Thread :
          m \in messages[t] <=> m \in live /\ t \in live /\ parentThread[m] = t
    BY DEF ThreadsInv, ThreadsAgree
<1>5. \A m \in Message : m \in live => parentThread[m] \in live
    BY DEF ThreadsInv, ParentsInv
<1>6. \A t \in gone \cap Thread : messages[t] \subseteq gone
    BY DEF Closed
<1>7. Null \notin Thread
    BY Kinds
<1>8. ThreadsAgree'
    <2> SUFFICES ASSUME NEW m \in Message, NEW t \in Thread
                 PROVE  m \in messages'[t] <=>
                            m \in live' /\ t \in live' /\ parentThread'[m] = t
        BY DEF ThreadsAgree
    <2>1. m \in messages[t] <=> m \in live /\ t \in live /\ parentThread[m] = t
        BY <1>4
    <2>2. m \in messages'[t] <=>
              t \notin gone /\ m \in messages[t] /\ ~(m \in gone /\ parentThread[m] = t)
        BY <1>3
    <2>3. CASE m \in gone
        BY <1>1, <2>1, <2>2, <2>3
    <2>4. CASE m \notin gone
        BY <1>1, <1>2, <2>1, <2>2, <2>4
    <2> QED BY <2>3, <2>4
<1>9. ParentsInv'
    <2> SUFFICES ASSUME NEW m \in Message, m \in live'
                 PROVE  parentThread'[m] \in live'
        BY DEF ParentsInv
    <2>1. m \in live /\ m \notin gone /\ parentThread'[m] = parentThread[m]
        BY <1>1, <1>2
    <2>2. parentThread[m] \in Thread \cup {Null} /\ Null \notin live
        BY SlotAssumption DEF TypeOK, Slot, Content
    <2>3. parentThread[m] \in Thread /\ parentThread[m] \in live
        BY <1>5, <2>1, <2>2
    <2>4. m \in messages[parentThread[m]]
        BY <1>4, <2>1, <2>3
    <2>5. parentThread[m] \notin gone
        BY <1>6, <2>1, <2>3, <2>4
    <2> QED BY <1>1, <2>1, <2>3, <2>5
<1> QED BY <1>8, <1>9 DEF ThreadsInv

LEMMA ReleaseSubscribers ==
    ASSUME TypeOK, SubscriptionsAgree, NEW gone, gone \subseteq live, ReleaseContent(gone),
           ReleaseSubscriptions(gone)
    PROVE  SubscriptionsAgree'
<1> SUFFICES ASSUME NEW u \in User, NEW t \in Thread
             PROVE  /\ u \in subscribedUsers'[t] <=> t \in subscribedThreads'[u]
                    /\ u \in subscribedUsers'[t] => {u, t} \subseteq live'
    BY DEF SubscriptionsAgree
<1>1. live' = live \ gone
    BY DEF ReleaseContent
<1>2. subscribedUsers'[t] = IF t \in gone THEN {}
           ELSE subscribedUsers[t] \ {v \in gone \cap User : t \in subscribedThreads[v]}
    BY DEF ReleaseSubscriptions
<1>3. subscribedThreads'[u] = IF u \in gone THEN {}
           ELSE subscribedThreads[u] \ {s \in gone \cap Thread : u \in subscribedUsers[s]}
    BY DEF ReleaseSubscriptions, Account
<1>4. /\ u \in subscribedUsers[t] <=> t \in subscribedThreads[u]
      /\ u \in subscribedUsers[t] => {u, t} \subseteq live
    BY DEF SubscriptionsAgree
<1> QED BY <1>1, <1>2, <1>3, <1>4

LEMMA ReleaseLetters ==
    ASSUME TypeOK, MailInv, NEW gone, Closed(gone), ReleaseContent(gone), ReleaseMail(gone)
    PROVE  MailInv'
<1>1. live' = live \ gone
    BY DEF ReleaseContent
<1>2. Anonymous \notin gone /\ Null \notin Account /\ Null \notin live
    BY SlotAssumption, NullAssumption DEF Closed, TypeOK, Slot, Content, Account
<1>3. ASSUME NEW p \in PrivateMessage
      PROVE  /\ parties'[p] = IF p \in gone THEN Unset ELSE parties[p]
             /\ p \in live => /\ parties[p].source \in Visitor
                              /\ parties[p].destination \in live
             /\ parties[p].source \in Account \cup {Null}
             /\ parties[p].destination \in User \cup {Null}
    BY DEF ReleaseMail, MailInv, LettersInv, TypeOK
<1>4. ASSUME NEW u \in Account
      PROVE  /\ sent'[u] = IF u \in gone THEN {}
                   ELSE sent[u] \ {p \in gone \cap PrivateMessage : parties[p].source = u}
             /\ received'[u] = IF u \in gone THEN {}
                   ELSE received[u]
                        \ {p \in gone \cap PrivateMessage : parties[p].destination = u}
    BY DEF ReleaseMail
<1>5. \A u \in Account, p \in PrivateMessage :
        /\ p \in sent[u] <=> p \in live /\ parties[p].source = u /\ u \in Visitor
        /\ p \in received[u] <=> p \in live /\ parties[p].destination = u /\ u \in live
    BY DEF MailInv, PrivateMessagesAgree
<1>6. PrivateMessagesAgree'
    <2> SUFFICES ASSUME NEW u \in Account, NEW p \in PrivateMessage
                 PROVE  /\ p \in sent'[u] <=>
                              p \in live' /\ parties'[p].source = u /\ u \in Visitor'
                        /\ p \in received'[u] <=>
                              p \in live' /\ parties'[p].destination = u /\ u \in live'
        BY DEF PrivateMessagesAgree
    <2>1. u \in Visitor' <=> u \in Visitor /\ u \notin gone
        BY <1>1, <1>2 DEF Visitor
    <2>2. /\ p \in sent'[u] <=>
                u \notin gone /\ p \in sent[u] /\ ~(p \in gone /\ parties[p].source = u)
          /\ p \in received'[u] <=>
                u \notin gone /\ p \in received[u]
                /\ ~(p \in gone /\ parties[p].destination = u)
        <3>1. CASE u \in gone
            BY <1>4, <3>1
        <3>2. CASE u \notin gone
            <4>1. sent'[u] = sent[u] \ {q \in gone \cap PrivateMessage : parties[q].source = u}
                BY <1>4, <3>2
            <4>2. received'[u] = received[u]
                      \ {q \in gone \cap PrivateMessage : parties[q].destination = u}
                BY <1>4, <3>2
            <4> QED BY <3>2, <4>1, <4>2
        <3> QED BY <3>1, <3>2
    <2>3. /\ p \in sent[u] <=> p \in live /\ parties[p].source = u /\ u \in Visitor
          /\ p \in received[u] <=> p \in live /\ parties[p].destination = u /\ u \in live
        BY <1>5
    <2>4. CASE p \in gone
        BY <1>1, <2>2, <2>3, <2>4
    <2>5. CASE p \notin gone
        <3>1. parties'[p] = parties[p]
            BY <1>3, <2>5
        <3> QED BY <1>1, <2>1, <2>2, <2>3, <2>5, <3>1
    <2> QED BY <2>4, <2>5
<1>7. LettersInv'
    <2> SUFFICES ASSUME NEW p \in PrivateMessage, p \in live'
                 PROVE  parties'[p].source \in Visitor' /\ parties'[p].destination \in live'
        BY DEF LettersInv
    <2>1. p \in live /\ p \notin gone /\ parties'[p] = parties[p]
        BY <1>1, <1>3
    <2>2. parties[p].source \in Visitor /\ parties[p].destination \in live
        BY <1>3, <2>1
    <2>3. parties[p].source \in Account /\ parties[p].destination \in User
        BY <1>2, <1>3, <2>2 DEF Visitor, Account
    <2>4. p \in sent[parties[p].source] /\ p \in received[parties[p].destination]
        BY <1>5, <2>1, <2>2, <2>3 DEF Account
    <2>5. parties[p].source \notin gone /\ parties[p].destination \notin gone
        BY <1>2, <2>1, <2>3, <2>4 DEF Closed, Account
    <2> QED BY <1>1, <2>1, <2>2, <2>5 DEF Visitor
<1> QED BY <1>6, <1>7 DEF MailInv

LEMMA ReleaseFiles ==
    ASSUME TypeOK, AttachmentsAgree, NEW gone, gone \subseteq live, ReleaseContent(gone),
           ReleaseAttachments(gone)
    PROVE  AttachmentsAgree'
<1> SUFFICES ASSUME NEW m \in Message, NEW a \in Attachment
             PROVE  /\ a \in attachments'[m] <=> m \in attachedTo'[a]
                    /\ a \in attachments'[m] => {a, m} \subseteq live'
    BY DEF AttachmentsAgree
<1>1. live' = live \ gone
    BY DEF ReleaseContent
<1>2. attachments'[m] = IF m \in gone THEN {}
           ELSE attachments[m] \ {b \in gone \cap Attachment : m \in attachedTo[b]}
    BY DEF ReleaseAttachments
<1>3. attachedTo'[a] = IF a \in gone THEN {}
           ELSE attachedTo[a] \ {n \in gone \cap Message : a \in attachments[n]}
    BY DEF ReleaseAttachments
<1>4. /\ a \in attachments[m] <=> m \in attachedTo[a]
      /\ a \in attachments[m] => {a, m} \subseteq live
    BY DEF AttachmentsAgree
<1> QED BY <1>1, <1>2, <1>3, <1>4

LEMMA ReleaseVoters ==
    ASSUME TypeOK, VotesTracked, NEW gone, gone \subseteq live, ReleaseContent(gone),
           ReleaseVotes(gone)
    PROVE  VotesTracked'
<1> SUFFICES ASSUME NEW m \in Message
             PROVE  /\ upVotes'[m] \cap downVotes'[m] = {}
                    /\ \A u \in upVotes'[m] \cup downVotes'[m] :
                           /\ {u, m} \subseteq live' /\ createdBy'[m] # u
                           /\ m \in votedMessages'[u]
    BY DEF VotesTracked
<1>1. live' = live \ gone /\ m \in Content
    BY DEF ReleaseContent, Content
<1>2. createdBy'[m] = IF m \in gone THEN Null ELSE createdBy[m]
    BY <1>1 DEF ReleaseContent
<1>3. /\ upVotes'[m] = IF m \in gone THEN {}
               ELSE upVotes[m] \ {v \in gone \cap User : m \in votedMessages[v]}
      /\ downVotes'[m] = IF m \in gone THEN {}
               ELSE downVotes[m]
                    \ ({v \in gone \cap User : m \in votedMessages[v]} \ upVotes[m])
    BY DEF ReleaseVotes
<1>4. /\ upVotes[m] \cap downVotes[m] = {}
      /\ \A u \in upVotes[m] \cup downVotes[m] :
             {u, m} \subseteq live /\ createdBy[m] # u /\ m \in votedMessages[u]
    BY DEF VotesTracked
<1>5. upVotes[m] \subseteq User /\ downVotes[m] \subseteq User
    BY DEF TypeOK
<1>6. upVotes'[m] \cap downVotes'[m] = {}
    BY <1>3, <1>4
<1>7. ASSUME NEW u \in upVotes'[m] \cup downVotes'[m]
      PROVE  {u, m} \subseteq live' /\ createdBy'[m] # u /\ m \in votedMessages'[u]
    <2>1. m \notin gone /\ u \in upVotes[m] \cup downVotes[m] /\ u \in User
        BY <1>3, <1>5, <1>7
    <2>2. u \notin gone
        BY <1>3, <1>4, <1>5, <1>7, <2>1
    <2>3. votedMessages'[u] = votedMessages[u]
               \ {n \in gone \cap Message : u \in upVotes[n] \cup downVotes[n]}
        BY <2>1, <2>2 DEF ReleaseVotes, Account
    <2> QED BY <1>1, <1>2, <1>4, <2>1, <2>2, <2>3
<1> QED BY <1>6, <1>7

\* The comments taken from a message are comments it showed.
LEMMA WithdrawnShown ==
    ASSUME AuthorsInv, NEW gone, NEW m \in Message
    PROVE  Withdrawn(gone, m) \subseteq comments[m]
<1> SUFFICES ASSUME NEW c \in Comment, parentMessage[c] = m,
                    NEW u \in gone \cap User, c \in owned[u]
             PROVE  c \in comments[m]
    BY DEF Withdrawn
<1> QED BY DEF AuthorsInv, AuthorsAgree, Account, Content

LEMMA ReleaseShown ==
    ASSUME TypeOK, AuthorsInv, ShownCommentsExist, NEW gone, Closed(gone),
           ReleaseContent(gone), ReleaseComments(gone)
    PROVE  ShownCommentsExist'
<1> SUFFICES ASSUME NEW m \in Message, NEW c \in comments'[m]
             PROVE  /\ {m, c} \subseteq live' /\ parentMessage'[c] = m
                    /\ createdBy'[c] \in Visitor'
    BY DEF ShownCommentsExist
<1>1. m \notin gone /\ c \in comments[m] /\ c \notin Withdrawn(gone, m)
    BY DEF ReleaseComments
<1>2. c \in Comment /\ c \in Content
    BY <1>1 DEF TypeOK, Content
<1>3. {m, c} \subseteq live /\ parentMessage[c] = m /\ createdBy[c] \in Visitor
    BY <1>1 DEF ShownCommentsExist
<1>4. c \notin gone
    BY <1>1, <1>2 DEF Closed
<1>5. createdBy[c] \notin gone \cap User
    <2> SUFFICES ASSUME createdBy[c] \in gone \cap User PROVE FALSE
        OBVIOUS
    <2>1. c \in owned[createdBy[c]]
        BY <1>1, <1>2, <1>3 DEF AuthorsInv, AuthorsAgree, Account
    <2> QED BY <1>1, <1>2, <1>3, <2>1 DEF Withdrawn
<1>6. createdBy'[c] = createdBy[c] /\ parentMessage'[c] = parentMessage[c]
    BY <1>2, <1>4 DEF ReleaseContent, ReleaseComments
<1>7. Anonymous \notin gone
    BY SlotAssumption DEF Closed, TypeOK, Slot, Content
<1> QED BY <1>1, <1>3, <1>4, <1>5, <1>6, <1>7 DEF ReleaseContent, Visitor

LEMMA ReleaseSolved ==
    ASSUME TypeOK, AuthorsInv, SolvedInv, NEW gone, Closed(gone),
           ReleaseContent(gone), ReleaseComments(gone)
    PROVE  SolvedInv'
<1>1. solved' \subseteq live'
    BY DEF SolvedInv, ReleaseContent, ReleaseComments
<1>2. SolvedCommentsCovered'
    <2> SUFFICES ASSUME NEW m \in Message
                 PROVE  Cardinality(comments'[m] \cap solved') <= solvedCommentsCount'[m]
        BY DEF SolvedCommentsCovered
    <2>1. IsFiniteSet(Comment)
        BY SlotAssumption
    <2>2. CASE m \in gone
        <3>1. comments'[m] \cap solved' = {} /\ solvedCommentsCount'[m] = 0
            BY <2>2 DEF ReleaseComments
        <3> QED BY <3>1, FS_EmptySet
    <2>3. CASE m \notin gone
        <3> DEFINE W == Withdrawn(gone, m)
                   A == comments[m] \cap solved
                   B == W \cap solved
                   C == comments'[m] \cap solved'
        <3>1. W \subseteq comments[m]
            BY WithdrawnShown
        <3>2. C = (comments[m] \ W) \cap (solved \ gone) /\ A \subseteq Comment
            BY <2>3 DEF ReleaseComments, TypeOK
        <3>3. C \subseteq A \ B /\ A \cap B = B
            BY <3>1, <3>2
        <3>4. IsFiniteSet(A)
            BY <2>1, <3>2, FS_Subset
        <3>5. solvedCommentsCount'[m] = solvedCommentsCount[m] - Cardinality(B)
            BY <2>3 DEF ReleaseComments
        <3>6. Cardinality(A) <= solvedCommentsCount[m] /\ solvedCommentsCount[m] \in Int
            BY DEF SolvedInv, SolvedCommentsCovered, TypeOK
        <3> HIDE DEF W, A, B, C
        <3>7. IsFiniteSet(A \ B) /\ Cardinality(A \ B) = Cardinality(A) - Cardinality(A \cap B)
            BY <3>4, FS_Difference
        <3>8. Cardinality(C) <= Cardinality(A \ B) /\ IsFiniteSet(C)
            BY <3>3, <3>7, FS_Subset
        <3>9. IsFiniteSet(B)
            BY <3>3, <3>4, FS_Subset
        <3>10. /\ Cardinality(A) \in Nat /\ Cardinality(B) \in Nat
               /\ Cardinality(C) \in Nat /\ Cardinality(A \ B) \in Nat
            BY <3>4, <3>7, <3>8, <3>9, FS_CardinalityType
        <3>11. Cardinality(C) <= solvedCommentsCount'[m]
            BY <3>3, <3>5, <3>6, <3>7, <3>8, <3>10
        <3> QED BY <3>11 DEF C
    <2> QED BY <2>2, <2>3
<1> QED BY <1>1, <1>2 DEF SolvedInv

LEMMA ReleaseKeepsInv ==
    ASSUME Inv, NEW entities, Release(entities), Closed(entities \cap live)
    PROVE  Inv'
<1> DEFINE gone == entities \cap live
<1>1. /\ ReleaseContent(gone) /\ ReleaseMessages(gone) /\ ReleaseVotes(gone)
      /\ ReleaseComments(gone) /\ ReleaseSubscriptions(gone) /\ ReleaseMail(gone)
      /\ ReleaseAttachments(gone) /\ Closed(gone) /\ gone \subseteq live
    BY DEF Release
<1>2. TypeOK'
    BY ReleaseType DEF Inv
<1> HIDE DEF gone
<1>3. AuthorsInv' /\ ThreadsInv'
    BY <1>1, ReleaseAuthors, ReleaseThreads DEF Inv
<1>4. SubscriptionsAgree' /\ MailInv'
    BY <1>1, ReleaseSubscribers, ReleaseLetters DEF Inv
<1>5. AttachmentsAgree' /\ VotesTracked'
    BY <1>1, ReleaseFiles, ReleaseVoters DEF Inv
<1>6. ShownCommentsExist' /\ SolvedInv'
    BY <1>1, ReleaseShown, ReleaseSolved DEF Inv
<1> QED BY <1>2, <1>3, <1>4, <1>5, <1>6 DEF Inv

-----------------------------------------------------------------------------
(* What the commands that delete collect is closed.                        *)

LEMMA MessageClosed ==
    ASSUME Inv, NEW m \in Message \cap live
    PROVE  Closed(WithComments({m}) \cap live)
<1> DEFINE gone == WithComments({m}) \cap live
<1>1. \A n \in Message : \A c \in comments[n] :
          c \in Comment /\ c \in live /\ parentMessage[c] = n
    BY DEF Inv, ShownCommentsExist, TypeOK
<1>2. gone = {m} \cup comments[m]
    BY <1>1 DEF WithComments
<1>3. comments[m] \subseteq Comment
    BY <1>1
<1> HIDE DEF gone
<1>4. gone \cap Thread = {} /\ gone \cap User = {} /\ gone \cap Message = {m}
    BY <1>2, <1>3, Kinds
<1>5. gone \cap Comment = comments[m]
    BY <1>2, <1>3, Kinds
<1>6. \A c \in gone \cap Comment, n \in Message : c \in comments[n] => n \in gone
    BY <1>1, <1>2, <1>5
<1>7. gone \subseteq live
    BY DEF gone
<1>8. \A n \in gone \cap Message : \A c \in comments[n] : c \in gone
    BY <1>2, <1>4
<1>9. Closed(gone)
    BY <1>4, <1>6, <1>7, <1>8 DEF Closed
<1> QED BY <1>9 DEF gone

LEMMA ThreadClosed ==
    ASSUME Inv, NEW t \in Thread \cap live
    PROVE  Closed(WithMessages({t}) \cap live)
<1> DEFINE gone == WithMessages({t}) \cap live
<1>1. \A n \in Message : \A c \in comments[n] :
          c \in Comment /\ c \in live /\ parentMessage[c] = n
    BY DEF Inv, ShownCommentsExist, TypeOK
<1>2. \A n \in messages[t] : n \in Message /\ n \in live
    BY DEF Inv, ThreadsInv, ThreadsAgree, TypeOK
<1>3. WithMessages({t}) = {t} \cup messages[t] \cup (UNION {comments[n] : n \in messages[t]})
    BY DEF WithMessages, WithComments
<1>4. ASSUME NEW x
      PROVE  x \in gone <=> \/ x = t \/ x \in messages[t]
                            \/ \E n \in messages[t] : x \in comments[n]
    BY <1>1, <1>2, <1>3
<1> HIDE DEF gone
<1>5. gone \cap Thread = {t} /\ gone \cap User = {}
    BY <1>1, <1>2, <1>4, Kinds
<1>6. gone \cap Message = messages[t]
    BY <1>1, <1>2, <1>4, Kinds
<1>7. \A n \in gone \cap Message : \A c \in comments[n] : c \in gone
    BY <1>4, <1>6
<1>8. ASSUME NEW c \in gone \cap Comment, NEW n \in Message, c \in comments[n]
      PROVE  n \in gone
    <2>1. c # t /\ c \notin messages[t]
        BY <1>2, Kinds
    <2>2. PICK k \in messages[t] : c \in comments[k]
        BY <1>4, <2>1
    <2>3. k = n
        BY <1>1, <1>2, <1>8, <2>2
    <2> QED BY <1>4, <2>2, <2>3
<1>9. gone \subseteq live
    BY DEF gone
<1>10. \A s \in gone \cap Thread : messages[s] \subseteq gone
    BY <1>4, <1>5
<1>11. Closed(gone)
    BY <1>5, <1>7, <1>8, <1>9, <1>10 DEF Closed
<1> QED BY <1>11 DEF gone

\* What deleteUser collects, kind by kind.
LEMMA BelongingsByKind ==
    ASSUME TypeOK, NEW u \in User
    PROVE  /\ \A t \in Thread : t \in Belongings(u) <=> t \in owned[u]
           /\ \A m \in Message : m \in Belongings(u) <=>
                  \/ m \in owned[u]
                  \/ \E t \in owned[u] \cap Thread : m \in messages[t]
           /\ \A c \in Comment : c \in Belongings(u) <=>
                  /\ c \notin owned[u]
                  /\ \E m \in Message : m \in Belongings(u) /\ c \in comments[m]
           /\ \A a \in Attachment : a \in Belongings(u) <=> a \in owned[u]
           /\ received[u] \subseteq Belongings(u) /\ sent[u] \subseteq Belongings(u)
           /\ \A v \in User : v \notin Belongings(u)
<1> DEFINE ts == owned[u] \cap Thread
           ms == owned[u] \cap Message
<1>1. /\ owned[u] \subseteq Content /\ received[u] \subseteq PrivateMessage
      /\ sent[u] \subseteq PrivateMessage
    BY DEF TypeOK, Account
<1>2. \A t \in Thread : messages[t] \subseteq Message
    BY DEF TypeOK
<1>3. \A m \in Message : comments[m] \subseteq Comment
    BY DEF TypeOK
<1>4. ASSUME NEW x
      PROVE  x \in WithMessages(ts) <=>
                 \/ x \in ts
                 \/ \E t \in ts : x \in messages[t]
                 \/ \E t \in ts : \E m \in messages[t] : x \in comments[m]
    BY DEF WithMessages, WithComments
<1>5. ASSUME NEW x
      PROVE  x \in WithComments(ms) <=> x \in ms \/ \E m \in ms : x \in comments[m]
    BY DEF WithComments
<1>6. ASSUME NEW x
      PROVE  x \in Belongings(u) <=>
                 \/ /\ x \in WithMessages(ts) \/ x \in WithComments(ms)
                    /\ ~(x \in owned[u] /\ x \in Comment)
                 \/ x \in received[u] \/ x \in sent[u]
                 \/ x \in owned[u] /\ x \in Attachment
    BY DEF Belongings
<1> HIDE DEF ts, ms
<1>7. \A t \in Thread : t \in Belongings(u) <=> t \in owned[u]
    <2> SUFFICES ASSUME NEW t \in Thread PROVE t \in Belongings(u) <=> t \in owned[u]
        OBVIOUS
    <2>1. t \notin Comment /\ t \notin Attachment /\ t \notin PrivateMessage /\ t \notin Message
        BY Kinds
    <2>2. t \in WithMessages(ts) <=> t \in owned[u]
        BY <1>2, <1>3, <1>4, <2>1 DEF ts
    <2>3. t \notin WithComments(ms)
        BY <1>3, <1>5, <2>1 DEF ms
    <2> QED BY <1>1, <1>6, <2>1, <2>2, <2>3
<1>8. ASSUME NEW m \in Message
      PROVE  m \in Belongings(u) <=>
                 m \in owned[u] \/ \E t \in owned[u] \cap Thread : m \in messages[t]
    <2>1. m \notin Comment /\ m \notin Attachment /\ m \notin PrivateMessage /\ m \notin Thread
        BY Kinds
    <2>2. m \in WithMessages(ts) <=> \E t \in owned[u] \cap Thread : m \in messages[t]
        BY <1>2, <1>3, <1>4, <2>1 DEF ts
    <2>3. m \in WithComments(ms) <=> m \in owned[u]
        BY <1>3, <1>5, <2>1 DEF ms
    <2> QED BY <1>1, <1>6, <2>1, <2>2, <2>3
<1>9. ASSUME NEW c \in Comment
      PROVE  c \in Belongings(u) <=>
                 /\ c \notin owned[u]
                 /\ \E m \in Message : m \in Belongings(u) /\ c \in comments[m]
    <2>1. c \notin Message /\ c \notin Attachment /\ c \notin PrivateMessage /\ c \notin Thread
        BY Kinds
    <2>2. c \in WithMessages(ts) <=>
              \E t \in owned[u] \cap Thread : \E m \in messages[t] : c \in comments[m]
        BY <1>2, <1>3, <1>4, <2>1 DEF ts
    <2>3. c \in WithComments(ms) <=> \E m \in owned[u] \cap Message : c \in comments[m]
        BY <1>3, <1>5, <2>1 DEF ms
    <2>4. c \in Belongings(u) <=>
              c \notin owned[u] /\ (c \in WithMessages(ts) \/ c \in WithComments(ms))
        BY <1>1, <1>6, <2>1
    <2> QED BY <1>2, <1>8, <2>2, <2>3, <2>4
<1>10. \A a \in Attachment : a \in Belongings(u) <=> a \in owned[u]
    <2> SUFFICES ASSUME NEW a \in Attachment PROVE a \in Belongings(u) <=> a \in owned[u]
        OBVIOUS
    <2>1. a \notin Message /\ a \notin Comment /\ a \notin PrivateMessage /\ a \notin Thread
        BY Kinds
    <2>2. a \notin WithMessages(ts)
        BY <1>2, <1>3, <1>4, <2>1 DEF ts
    <2>3. a \notin WithComments(ms)
        BY <1>3, <1>5, <2>1 DEF ms
    <2> QED BY <1>1, <1>6, <2>1, <2>2, <2>3
<1>11. received[u] \subseteq Belongings(u) /\ sent[u] \subseteq Belongings(u)
    BY <1>6
<1>12. ASSUME NEW v \in User PROVE v \notin Belongings(u)
    <2>1. /\ v \notin Message /\ v \notin Comment /\ v \notin PrivateMessage
          /\ v \notin Thread /\ v \notin Attachment
        BY Kinds
    <2>2. v \notin WithMessages(ts)
        BY <1>2, <1>3, <1>4, <2>1 DEF ts
    <2>3. v \notin WithComments(ms)
        BY <1>3, <1>5, <2>1 DEF ms
    <2> QED BY <1>1, <1>6, <2>1, <2>2, <2>3
<1> QED BY <1>7, <1>8, <1>9, <1>10, <1>11, <1>12

LEMMA UserClosed ==
    ASSUME Inv, NEW u \in User \cap live
    PROVE  Closed(({u} \cup Belongings(u)) \cap live)
<1> DEFINE gone == ({u} \cup Belongings(u)) \cap live
<1>1. \A n \in Message : \A c \in comments[n] :
          c \in Comment /\ c \in live /\ parentMessage[c] = n
    BY DEF Inv, ShownCommentsExist, TypeOK
<1>2. \A t \in Thread : \A n \in messages[t] : n \in Message /\ n \in live
    BY DEF Inv, ThreadsInv, ThreadsAgree, TypeOK
<1>3. \A x \in owned[u] : x \in Content /\ x \in live /\ createdBy[x] = u
    BY DEF Inv, AuthorsInv, AuthorsAgree, TypeOK, Account
<1>4. received[u] \subseteq live /\ sent[u] \subseteq live
    BY DEF Inv, MailInv, PrivateMessagesAgree, TypeOK, Account
<1>5. TypeOK
    BY DEF Inv
<1>a. \A t \in Thread : t \in Belongings(u) <=> t \in owned[u]
    BY <1>5, BelongingsByKind
<1>b. \A m \in Message : m \in Belongings(u) <=>
          m \in owned[u] \/ \E t \in owned[u] \cap Thread : m \in messages[t]
    BY <1>5, BelongingsByKind
<1>c. \A c \in Comment : c \in Belongings(u) <=>
          /\ c \notin owned[u]
          /\ \E m \in Message : m \in Belongings(u) /\ c \in comments[m]
    BY <1>5, BelongingsByKind
<1>d. /\ \A a \in Attachment : a \in Belongings(u) <=> a \in owned[u]
      /\ received[u] \subseteq Belongings(u) /\ sent[u] \subseteq Belongings(u)
      /\ \A v \in User : v \notin Belongings(u)
    BY <1>5, BelongingsByKind
<1>6. gone \subseteq live /\ u \in gone /\ gone \cap User = {u}
    BY <1>d
<1>7. \A t \in gone \cap Thread : messages[t] \subseteq gone
    BY <1>2, <1>a, <1>b, Kinds
<1>8. ASSUME NEW m \in gone \cap Message, NEW c \in comments[m]
      PROVE  c \in gone \/ createdBy[c] \in gone
    <2>1. c \in Comment /\ c \in live
        BY <1>1
    <2>2. m \in Belongings(u)
        BY Kinds
    <2>3. CASE c \in owned[u]
        BY <1>3, <1>6, <2>3
    <2>4. CASE c \notin owned[u]
        BY <1>c, <2>1, <2>2, <2>4
    <2> QED BY <2>3, <2>4
<1>9. ASSUME NEW c \in gone \cap Comment, NEW m \in Message, c \in comments[m]
      PROVE  m \in gone
    <2>1. c \in Belongings(u)
        BY Kinds
    <2>2. PICK n \in Message : n \in Belongings(u) /\ c \in comments[n]
        BY <1>c, <2>1
    <2>3. n = m
        BY <1>1, <1>9, <2>2
    <2>4. m \in live
        BY <1>2, <1>3, <1>b, <2>2, <2>3
    <2> QED BY <2>2, <2>3, <2>4
<1>10. owned[u] \subseteq gone \cup Comment
    BY <1>3, <1>a, <1>b, <1>d DEF Content
<1>11. received[u] \subseteq gone /\ sent[u] \subseteq gone
    BY <1>4, <1>d
<1> HIDE DEF gone
<1>12. Closed(gone)
    BY <1>6, <1>7, <1>8, <1>9, <1>10, <1>11 DEF Closed
<1> QED BY <1>12 DEF gone

\* A private message or an attachment leaves alone.
LEMMA SingleClosed ==
    ASSUME Inv, NEW x \in PrivateMessage \cup Attachment, x \in live
    PROVE  Closed({x} \cap live)
<1>1. x \notin User /\ x \notin Thread /\ x \notin Message /\ x \notin Comment
    BY Kinds
<1> QED BY <1>1 DEF Closed

LEMMA DeletionsKeepInv ==
    ASSUME Inv,
           \/ \E u \in User : deleteUser(u)
           \/ \E t \in Thread : deleteDiscussionThread(t)
           \/ \E m \in Message : deleteDiscussionMessage(m)
           \/ \E u \in Account, p \in PrivateMessage : deletePrivateMessage(u, p)
           \/ \E a \in Attachment : deleteAttachment(a)
    PROVE  Inv'
<1>1. ASSUME NEW u \in User, deleteUser(u) PROVE Inv'
    <2>1. Closed(({u} \cup Belongings(u)) \cap live)
        BY <1>1, UserClosed DEF deleteUser
    <2> QED BY <1>1, <2>1, ReleaseKeepsInv DEF deleteUser
<1>2. ASSUME NEW t \in Thread, deleteDiscussionThread(t) PROVE Inv'
    <2>1. Closed(WithMessages({t}) \cap live)
        BY <1>2, ThreadClosed DEF deleteDiscussionThread
    <2> QED BY <1>2, <2>1, ReleaseKeepsInv DEF deleteDiscussionThread
<1>3. ASSUME NEW m \in Message, deleteDiscussionMessage(m) PROVE Inv'
    <2>1. Closed(WithComments({m}) \cap live)
        BY <1>3, MessageClosed DEF deleteDiscussionMessage
    <2> QED BY <1>3, <2>1, ReleaseKeepsInv DEF deleteDiscussionMessage
<1>4. ASSUME NEW u \in Account, NEW p \in PrivateMessage, deletePrivateMessage(u, p) PROVE Inv'
    <2>1. Closed({p} \cap live)
        BY <1>4, SingleClosed DEF deletePrivateMessage
    <2> QED BY <1>4, <2>1, ReleaseKeepsInv DEF deletePrivateMessage
<1>5. ASSUME NEW a \in Attachment, deleteAttachment(a) PROVE Inv'
    <2>1. Closed({a} \cap live)
        BY <1>5, SingleClosed DEF deleteAttachment
    <2> QED BY <1>5, <2>1, ReleaseKeepsInv DEF deleteAttachment
<1> QED BY <1>1, <1>2, <1>3, <1>4, <1>5

-----------------------------------------------------------------------------
(* A command that touches none of the variables of a part keeps it.        *)

LEMMA SameRelations ==
    ASSUME AuthorsInv, ThreadsInv, UNCHANGED <<live, createdBy, owned, comments, parentMessage>>,
           UNCHANGED <<parentThread, messages>>
    PROVE  AuthorsInv' /\ ThreadsInv'
<1>1. AuthorsInv'
    BY DEF AuthorsInv, AuthorsAgree, OwnersInv, Visitor
<1>2. ThreadsInv'
    BY DEF ThreadsInv, ThreadsAgree, ParentsInv
<1> QED BY <1>1, <1>2

LEMMA SameComments ==
    ASSUME ShownCommentsExist,
           UNCHANGED <<live, createdBy, comments, parentMessage>>
    PROVE  ShownCommentsExist'
    BY DEF ShownCommentsExist, Visitor

LEMMA SameMail ==
    ASSUME MailInv, UNCHANGED <<live, parties, sent, received>>
    PROVE  MailInv'
    BY DEF MailInv, PrivateMessagesAgree, LettersInv, Visitor

(* A new entity x in a free slot.  No pointer leads to a free slot, so the *)
(* parts that are not about x stay as they are.                            *)

LEMMA GrowThreads ==
    ASSUME TypeOK, ThreadsInv, NEW x, x \notin live, x \notin Message,
           live' = live \cup {x}, UNCHANGED <<parentThread, messages>>
    PROVE  ThreadsInv'
<1>1. \A m \in Message : m \in live => parentThread[m] # x
    BY DEF ThreadsInv, ParentsInv
<1>2. ThreadsAgree'
    BY <1>1 DEF ThreadsInv, ThreadsAgree
<1>3. ParentsInv'
    BY DEF ThreadsInv, ParentsInv
<1> QED BY <1>2, <1>3 DEF ThreadsInv

LEMMA GrowSubscriptions ==
    ASSUME SubscriptionsAgree, NEW x, live' = live \cup {x}, UNCHANGED subscriptionVars
    PROVE  SubscriptionsAgree'
    BY DEF SubscriptionsAgree, subscriptionVars

LEMMA GrowMail ==
    ASSUME TypeOK, MailInv, NEW x \in Slot, x \notin live, x \notin PrivateMessage,
           live' = live \cup {x}, UNCHANGED <<parties, sent, received>>
    PROVE  MailInv'
<1>1. x # Anonymous
    BY SlotAssumption DEF Slot, Content
<1>2. \A p \in PrivateMessage : p \in live => /\ parties[p].source \in Visitor
                                              /\ parties[p].destination \in live
    BY DEF MailInv, LettersInv
<1>3. \A p \in PrivateMessage : p \in live => parties[p].source # x /\ parties[p].destination # x
    BY <1>1, <1>2 DEF Visitor
<1>4. Visitor \subseteq Visitor' /\ \A u \in Visitor' : u \in Visitor \/ u = x
    BY DEF Visitor
<1>5. PrivateMessagesAgree'
    <2> SUFFICES ASSUME NEW u \in Account, NEW p \in PrivateMessage
                 PROVE  /\ p \in sent[u] <=>
                              p \in live' /\ parties[p].source = u /\ u \in Visitor'
                        /\ p \in received[u] <=>
                              p \in live' /\ parties[p].destination = u /\ u \in live'
        BY DEF PrivateMessagesAgree
    <2>1. /\ p \in sent[u] <=> p \in live /\ parties[p].source = u /\ u \in Visitor
          /\ p \in received[u] <=> p \in live /\ parties[p].destination = u /\ u \in live
        BY DEF MailInv, PrivateMessagesAgree
    <2>2. p \in live' <=> p \in live
        OBVIOUS
    <2> QED BY <1>3, <1>4, <2>1, <2>2
<1>6. LettersInv'
    BY <1>2, <1>4 DEF LettersInv
<1> QED BY <1>5, <1>6 DEF MailInv

LEMMA GrowAttachments ==
    ASSUME AttachmentsAgree, NEW x, live' = live \cup {x}, UNCHANGED attachmentVars
    PROVE  AttachmentsAgree'
    BY DEF AttachmentsAgree, attachmentVars

LEMMA GrowVotes ==
    ASSUME VotesTracked, NEW x, x \notin live, live' = live \cup {x},
           \A y \in Content : y # x => createdBy'[y] = createdBy[y],
           UNCHANGED voteVars
    PROVE  VotesTracked'
    BY DEF VotesTracked, voteVars, Content

LEMMA GrowShown ==
    ASSUME TypeOK, ShownCommentsExist, NEW x, x \notin live, live' = live \cup {x},
           \A y \in Content : y # x => createdBy'[y] = createdBy[y],
           UNCHANGED <<comments, parentMessage>>
    PROVE  ShownCommentsExist'
<1> SUFFICES ASSUME NEW m \in Message, NEW c \in comments[m]
             PROVE  /\ {m, c} \subseteq live' /\ parentMessage[c] = m
                    /\ createdBy'[c] \in Visitor'
    BY DEF ShownCommentsExist
<1>1. {m, c} \subseteq live /\ parentMessage[c] = m /\ createdBy[c] \in Visitor
    BY DEF ShownCommentsExist
<1>2. c \in Content /\ c # x
    BY <1>1 DEF TypeOK, Content
<1> QED BY <1>1, <1>2 DEF Visitor

LEMMA GrowSolved ==
    ASSUME SolvedInv, NEW x, live' = live \cup {x}, UNCHANGED commentVars
    PROVE  SolvedInv'
    BY DEF SolvedInv, SolvedCommentsCovered, commentVars

\* A new user or private message: nothing was left to own.
LEMMA GrowAuthors ==
    ASSUME TypeOK, AuthorsInv, ShownCommentsExist, NEW x \in User \cup PrivateMessage,
           x \notin live, live' = live \cup {x},
           UNCHANGED <<createdBy, owned, comments, parentMessage>>
    PROVE  AuthorsInv'
<1>1. x \notin Content /\ x # Anonymous /\ x \notin Message
    BY DisjointAssumption, SlotAssumption DEF Content
<1>2. Visitor \subseteq Visitor' /\ \A v \in Visitor' : v \in Visitor \/ v = x
    BY DEF Visitor
<1>3. \A y \in Content : y \in live' <=> y \in live
    BY <1>1
<1>4. live' \cap Message = live \cap Message
    BY <1>1
<1>5. AuthorsAgree'
    <2> SUFFICES ASSUME NEW v \in Account, NEW y \in Content
                 PROVE  y \in owned[v] <=>
                          /\ y \in live' /\ createdBy[y] = v /\ v \in Visitor'
                          /\ y \in Comment => \E m \in live' \cap Message :
                                                  parentMessage[y] = m /\ y \in comments[m]
        BY DEF AuthorsAgree
    <2>1. y \in owned[v] <=>
              /\ y \in live /\ createdBy[y] = v /\ v \in Visitor
              /\ y \in Comment => \E m \in live \cap Message :
                                      parentMessage[y] = m /\ y \in comments[m]
        BY DEF AuthorsInv, AuthorsAgree
    <2>2. ASSUME y \in live, createdBy[y] = x,
                 y \in Comment => \E m \in live \cap Message :
                                      parentMessage[y] = m /\ y \in comments[m]
          PROVE  FALSE
        <3>1. x \notin Visitor
            BY <1>1 DEF Visitor
        <3>2. CASE y \in Comment
            BY <2>2, <3>1, <3>2 DEF ShownCommentsExist
        <3>3. CASE y \notin Comment
            BY <2>2, <3>1, <3>3 DEF AuthorsInv, OwnersInv
        <3> QED BY <3>2, <3>3
    <2> QED BY <1>2, <1>3, <1>4, <2>1, <2>2
<1>6. OwnersInv'
    BY <1>2, <1>3 DEF AuthorsInv, OwnersInv
<1> QED BY <1>5, <1>6 DEF AuthorsInv

\* A new thread, message or attachment of the poster u.
LEMMA GrowContent ==
    ASSUME TypeOK, AuthorsInv, ShownCommentsExist, NEW x \in Thread \cup Message \cup Attachment,
           x \notin live, NEW u \in Visitor, live' = live \cup {x},
           createdBy' = [createdBy EXCEPT ![x] = u],
           owned' = [owned EXCEPT ![u] = @ \cup {x}],
           UNCHANGED <<comments, parentMessage>>
    PROVE  AuthorsInv'
<1>1. x \in Content /\ x \notin User /\ x \notin Comment /\ u \in Account
    BY Kinds DEF Content, Visitor, Account
<1>2. Visitor' = Visitor
    BY <1>1 DEF Visitor
<1>3. \A y \in Content : createdBy'[y] = IF y = x THEN u ELSE createdBy[y]
    BY DEF TypeOK
<1>4. \A v \in Account : owned'[v] = IF v = u THEN owned[v] \cup {x} ELSE owned[v]
    BY <1>1 DEF TypeOK
<1>5. \A m \in Message, c \in Comment : c \in comments[m] => m \in live
    BY DEF ShownCommentsExist
<1>6. AuthorsAgree'
    <2> SUFFICES ASSUME NEW v \in Account, NEW y \in Content
                 PROVE  y \in owned'[v] <=>
                          /\ y \in live' /\ createdBy'[y] = v /\ v \in Visitor
                          /\ y \in Comment => \E m \in live' \cap Message :
                                                  parentMessage[y] = m /\ y \in comments[m]
        BY <1>2 DEF AuthorsAgree
    <2>1. y \in owned[v] <=>
              /\ y \in live /\ createdBy[y] = v /\ v \in Visitor
              /\ y \in Comment => \E m \in live \cap Message :
                                      parentMessage[y] = m /\ y \in comments[m]
        BY DEF AuthorsInv, AuthorsAgree
    <2>2. CASE y = x
        BY <1>1, <1>3, <1>4, <2>1, <2>2
    <2>3. CASE y # x
        <3>1. /\ y \in live' <=> y \in live
              /\ createdBy'[y] = createdBy[y] /\ (y \in owned'[v] <=> y \in owned[v])
            BY <1>3, <1>4, <2>3
        <3>2. y \in Comment =>
                ((\E m \in live' \cap Message : parentMessage[y] = m /\ y \in comments[m])
                 <=> (\E m \in live \cap Message : parentMessage[y] = m /\ y \in comments[m]))
            BY <1>5
        <3> QED BY <2>1, <3>1, <3>2
    <2> QED BY <2>2, <2>3
<1>7. OwnersInv'
    BY <1>1, <1>2, <1>3 DEF AuthorsInv, OwnersInv
<1> QED BY <1>6, <1>7 DEF AuthorsInv

-----------------------------------------------------------------------------
(* The commands that add.                                                  *)

LEMMA AddUserKeepsInv ==
    ASSUME Inv, NEW u \in User, addNewUser(u)
    PROVE  Inv'
<1>1. /\ u \notin live /\ live' = live \cup {u} /\ u \in Slot
      /\ UNCHANGED <<policy, originVars, owned, messages, voteVars,
                     commentVars, mailVars, subscriptionVars, attachmentVars>>
    BY DEF addNewUser, Slot
<1>2. TypeOK'
    BY <1>1 DEF Inv, TypeOK, originVars, voteVars, commentVars, mailVars,
                subscriptionVars, attachmentVars
<1>3. u \notin Message /\ u \notin PrivateMessage
    BY Kinds
<1>4. AuthorsInv'
    BY <1>1, GrowAuthors DEF Inv, originVars, commentVars
<1>5. ThreadsInv'
    BY <1>1, <1>3, GrowThreads DEF Inv, originVars
<1>6. MailInv'
    BY <1>1, <1>3, GrowMail DEF Inv, originVars, mailVars
<1>7. SubscriptionsAgree' /\ AttachmentsAgree'
    BY <1>1, GrowSubscriptions, GrowAttachments DEF Inv
<1>8. VotesTracked'
    BY <1>1, GrowVotes DEF Inv, originVars
<1>9. ShownCommentsExist' /\ SolvedInv'
    BY <1>1, GrowShown, GrowSolved DEF Inv, originVars, commentVars
<1> QED BY <1>2, <1>4, <1>5, <1>6, <1>7, <1>8, <1>9 DEF Inv

LEMMA AddThreadKeepsInv ==
    ASSUME Inv, NEW u \in Account, NEW t \in Thread, addNewDiscussionThread(u, t)
    PROVE  Inv'
<1>1. /\ u \in Visitor /\ t \notin live /\ live' = live \cup {t}
      /\ createdBy' = [createdBy EXCEPT ![t] = u]
      /\ owned' = [owned EXCEPT ![u] = @ \cup {t}]
      /\ t \in Slot /\ t \in Content
    BY DEF addNewDiscussionThread, Poster, Slot, Content
<1>2. UNCHANGED <<policy, parentThread, parentMessage, parties, messages, voteVars,
                  commentVars, mailVars, subscriptionVars, attachmentVars>>
    BY DEF addNewDiscussionThread
<1>3. TypeOK'
    BY <1>1, <1>2 DEF Inv, TypeOK, voteVars, commentVars, mailVars,
                      subscriptionVars, attachmentVars
<1>4. t \notin Message /\ t \notin PrivateMessage
    BY Kinds
<1>5. \A y \in Content : y # t => createdBy'[y] = createdBy[y]
    BY <1>1 DEF Inv, TypeOK
<1>6. AuthorsInv'
    BY <1>1, <1>2, GrowContent DEF Inv, commentVars
<1>7. ThreadsInv'
    BY <1>1, <1>2, <1>4, GrowThreads DEF Inv
<1>8. MailInv'
    BY <1>1, <1>2, <1>4, GrowMail DEF Inv, mailVars
<1>9. SubscriptionsAgree' /\ AttachmentsAgree'
    BY <1>1, <1>2, GrowSubscriptions, GrowAttachments DEF Inv
<1>10. VotesTracked'
    BY <1>1, <1>2, <1>5, GrowVotes DEF Inv
<1>11. ShownCommentsExist' /\ SolvedInv'
    BY <1>1, <1>2, <1>5, GrowShown, GrowSolved DEF Inv, commentVars
<1> QED BY <1>3, <1>6, <1>7, <1>8, <1>9, <1>10, <1>11 DEF Inv

LEMMA AddAttachmentKeepsInv ==
    ASSUME Inv, NEW u \in User, NEW a \in Attachment, addNewAttachment(u, a)
    PROVE  Inv'
<1>1. /\ u \in Visitor /\ a \notin live /\ live' = live \cup {a}
      /\ createdBy' = [createdBy EXCEPT ![a] = u]
      /\ owned' = [owned EXCEPT ![u] = @ \cup {a}]
      /\ a \in Slot /\ a \in Content /\ u \in Account
    BY DEF addNewAttachment, Visitor, Slot, Content, Account
<1>2. UNCHANGED <<policy, parentThread, parentMessage, parties, messages, voteVars,
                  commentVars, mailVars, subscriptionVars, attachmentVars>>
    BY DEF addNewAttachment
<1>3. TypeOK'
    BY <1>1, <1>2 DEF Inv, TypeOK, voteVars, commentVars, mailVars,
                      subscriptionVars, attachmentVars
<1>4. a \notin Message /\ a \notin PrivateMessage
    BY Kinds
<1>5. \A y \in Content : y # a => createdBy'[y] = createdBy[y]
    BY <1>1 DEF Inv, TypeOK
<1>6. AuthorsInv'
    BY <1>1, <1>2, GrowContent DEF Inv, commentVars
<1>7. ThreadsInv'
    BY <1>1, <1>2, <1>4, GrowThreads DEF Inv
<1>8. MailInv'
    BY <1>1, <1>2, <1>4, GrowMail DEF Inv, mailVars
<1>9. SubscriptionsAgree' /\ AttachmentsAgree'
    BY <1>1, <1>2, GrowSubscriptions, GrowAttachments DEF Inv
<1>10. VotesTracked'
    BY <1>1, <1>2, <1>5, GrowVotes DEF Inv
<1>11. ShownCommentsExist' /\ SolvedInv'
    BY <1>1, <1>2, <1>5, GrowShown, GrowSolved DEF Inv, commentVars
<1> QED BY <1>3, <1>6, <1>7, <1>8, <1>9, <1>10, <1>11 DEF Inv

LEMMA AddMessageKeepsInv ==
    ASSUME Inv, NEW u \in Account, NEW m \in Message, NEW t \in Thread,
           addNewDiscussionMessageInThread(u, m, t)
    PROVE  Inv'
<1>1. /\ u \in Visitor /\ m \notin live /\ t \in live /\ live' = live \cup {m}
      /\ createdBy' = [createdBy EXCEPT ![m] = u]
      /\ owned' = [owned EXCEPT ![u] = @ \cup {m}]
      /\ m \in Slot /\ m \in Content
    BY DEF addNewDiscussionMessageInThread, Poster, Slot, Content
<1>2. /\ parentThread' = [parentThread EXCEPT ![m] = t]
      /\ messages' = [messages EXCEPT ![t] = @ \cup {m}]
    BY DEF addNewDiscussionMessageInThread
<1>3. /\ subscribedUsers' = [subscribedUsers EXCEPT ![t] = @ \cup ({u} \ {Anonymous})]
      /\ subscribedThreads' = [subscribedThreads EXCEPT ![u] = @ \cup {t}]
    BY DEF addNewDiscussionMessageInThread
<1>4. UNCHANGED <<policy, parentMessage, parties, voteVars, commentVars,
                  mailVars, attachmentVars>>
    BY DEF addNewDiscussionMessageInThread
<1>5. TypeOK'
    <2>1. {u} \ {Anonymous} \subseteq User
        BY DEF Account
    <2>2. subscribedUsers' \in [Thread -> SUBSET User]
        BY <1>3, <2>1 DEF Inv, TypeOK
    <2>3. /\ createdBy' \in [Content -> Account \cup {Null}]
          /\ owned' \in [Account -> SUBSET Content]
          /\ live' \subseteq Slot
        BY <1>1 DEF Inv, TypeOK
    <2>4. /\ parentThread' \in [Message -> Thread \cup {Null}]
          /\ messages' \in [Thread -> SUBSET Message]
          /\ subscribedThreads' \in [Account -> SUBSET Thread]
        BY <1>2, <1>3 DEF Inv, TypeOK
    <2> QED BY <1>4, <2>2, <2>3, <2>4 DEF Inv, TypeOK, voteVars, commentVars, mailVars,
                                          attachmentVars
<1>6. m \notin Thread /\ m \notin PrivateMessage /\ m \notin User
    BY Kinds
<1>7. \A y \in Content : y # m => createdBy'[y] = createdBy[y]
    BY <1>1 DEF Inv, TypeOK
<1>8. AuthorsInv'
    BY <1>1, <1>4, GrowContent DEF Inv, commentVars
<1>9. ThreadsInv'
    <2>1. \A n \in Message, s \in Thread :
              n \in messages[s] <=> n \in live /\ s \in live /\ parentThread[n] = s
        BY DEF Inv, ThreadsInv, ThreadsAgree
    <2>2. \A n \in Message : parentThread'[n] = IF n = m THEN t ELSE parentThread[n]
        BY <1>2 DEF Inv, TypeOK
    <2>3. \A s \in Thread : messages'[s] = IF s = t THEN messages[s] \cup {m} ELSE messages[s]
        BY <1>2 DEF Inv, TypeOK
    <2>4. ThreadsAgree'
        <3> SUFFICES ASSUME NEW n \in Message, NEW s \in Thread
                     PROVE  n \in messages'[s] <=>
                                n \in live' /\ s \in live' /\ parentThread'[n] = s
            BY DEF ThreadsAgree
        <3>1. n \in messages[s] <=> n \in live /\ s \in live /\ parentThread[n] = s
            BY <2>1
        <3>2. n \in messages'[s] <=> n \in messages[s] \/ (n = m /\ s = t)
            BY <2>3
        <3>3. s \in live' <=> s \in live
            BY <1>1, <1>6
        <3> QED BY <1>1, <2>2, <3>1, <3>2, <3>3
    <2>5. ParentsInv'
        BY <1>1, <2>2 DEF Inv, ThreadsInv, ParentsInv
    <2> QED BY <2>4, <2>5 DEF ThreadsInv
<1>10. SubscriptionsAgree'
    <2> SUFFICES ASSUME NEW v \in User, NEW s \in Thread
                 PROVE  /\ v \in subscribedUsers'[s] <=> s \in subscribedThreads'[v]
                        /\ v \in subscribedUsers'[s] => {v, s} \subseteq live'
        BY DEF SubscriptionsAgree
    <2>1. /\ v \in subscribedUsers[s] <=> s \in subscribedThreads[v]
          /\ v \in subscribedUsers[s] => {v, s} \subseteq live
        BY DEF Inv, SubscriptionsAgree
    <2>2. v # Anonymous /\ v \in Account
        BY Kinds DEF Account
    <2>3. v \in subscribedUsers'[s] <=> v \in subscribedUsers[s] \/ (v = u /\ s = t)
        BY <1>3, <2>2 DEF Inv, TypeOK
    <2>4. s \in subscribedThreads'[v] <=> s \in subscribedThreads[v] \/ (v = u /\ s = t)
        BY <1>3, <2>2 DEF Inv, TypeOK
    <2>5. v = u => v \in live
        BY <1>1, <2>2 DEF Visitor
    <2> QED BY <1>1, <2>1, <2>3, <2>4, <2>5
<1>11. MailInv'
    BY <1>1, <1>4, <1>6, GrowMail DEF Inv, mailVars
<1>12. AttachmentsAgree'
    BY <1>1, <1>4, GrowAttachments DEF Inv
<1>13. VotesTracked'
    BY <1>1, <1>4, <1>7, GrowVotes DEF Inv
<1>14. ShownCommentsExist' /\ SolvedInv'
    BY <1>1, <1>4, <1>7, GrowShown, GrowSolved DEF Inv, commentVars
<1> QED BY <1>5, <1>8, <1>9, <1>10, <1>11, <1>12, <1>13, <1>14 DEF Inv

LEMMA SendKeepsInv ==
    ASSUME Inv, NEW u \in Account, NEW p \in PrivateMessage, NEW to \in User,
           sendPrivateMessage(u, p, to)
    PROVE  Inv'
<1>1. /\ u \in Visitor /\ p \notin live /\ to \in live /\ live' = live \cup {p}
      /\ parties' = [parties EXCEPT ![p] = [source |-> u, destination |-> to]]
      /\ sent' = [sent EXCEPT ![u] = @ \cup {p}]
      /\ received' = [received EXCEPT ![to] = @ \cup {p}]
      /\ p \in Slot /\ to \in Account
    BY DEF sendPrivateMessage, Poster, Slot, Account
<1>2. UNCHANGED <<policy, createdBy, parentThread, parentMessage, owned, messages,
                  voteVars, commentVars, subscriptionVars, attachmentVars>>
    BY DEF sendPrivateMessage
<1>3. TypeOK'
    BY <1>1, <1>2 DEF Inv, TypeOK, voteVars, commentVars, subscriptionVars, attachmentVars
<1>4. p \notin Message /\ p \notin User /\ p # Anonymous
    BY Kinds, SlotAssumption
<1>5. AuthorsInv'
    BY <1>1, <1>2, GrowAuthors DEF Inv, commentVars
<1>6. ThreadsInv'
    BY <1>1, <1>2, <1>4, GrowThreads DEF Inv
<1>7. MailInv'
    <2>1. \A q \in PrivateMessage :
              parties'[q] = IF q = p THEN [source |-> u, destination |-> to] ELSE parties[q]
        BY <1>1 DEF Inv, TypeOK
    <2>2. \A v \in Account : sent'[v] = IF v = u THEN sent[v] \cup {p} ELSE sent[v]
        BY <1>1 DEF Inv, TypeOK
    <2>3. \A v \in Account : received'[v] = IF v = to THEN received[v] \cup {p} ELSE received[v]
        BY <1>1 DEF Inv, TypeOK
    <2>4. Visitor' = Visitor
        BY <1>1, <1>4 DEF Visitor
    <2>5. PrivateMessagesAgree'
        <3> SUFFICES ASSUME NEW v \in Account, NEW q \in PrivateMessage
                     PROVE  /\ q \in sent'[v] <=>
                                  q \in live' /\ parties'[q].source = v /\ v \in Visitor
                            /\ q \in received'[v] <=>
                                  q \in live' /\ parties'[q].destination = v /\ v \in live'
            BY <2>4 DEF PrivateMessagesAgree
        <3>1. /\ q \in sent[v] <=> q \in live /\ parties[q].source = v /\ v \in Visitor
              /\ q \in received[v] <=> q \in live /\ parties[q].destination = v /\ v \in live
            BY DEF Inv, MailInv, PrivateMessagesAgree
        <3>2. CASE q = p
            BY <1>1, <2>1, <2>2, <2>3, <3>1, <3>2
        <3>3. CASE q # p
            <4>1. parties'[q] = parties[q] /\ (q \in live' <=> q \in live)
                BY <1>1, <2>1, <3>3
            <4>2. (q \in sent'[v] <=> q \in sent[v]) /\ (q \in received'[v] <=> q \in received[v])
                BY <2>2, <2>3, <3>3
            <4>3. v \in live' <=> v \in live
                BY <1>1, <1>4 DEF Account
            <4> QED BY <3>1, <4>1, <4>2, <4>3
        <3> QED BY <3>2, <3>3
    <2>6. LettersInv'
        <3> SUFFICES ASSUME NEW q \in PrivateMessage, q \in live'
                     PROVE  parties'[q].source \in Visitor /\ parties'[q].destination \in live'
            BY <2>4 DEF LettersInv
        <3>1. CASE q = p
            BY <1>1, <2>1, <3>1
        <3>2. CASE q # p
            BY <1>1, <2>1, <3>2 DEF Inv, MailInv, LettersInv
        <3> QED BY <3>1, <3>2
    <2> QED BY <2>5, <2>6 DEF MailInv
<1>8. SubscriptionsAgree' /\ AttachmentsAgree'
    BY <1>1, <1>2, GrowSubscriptions, GrowAttachments DEF Inv
<1>9. VotesTracked'
    BY <1>1, <1>2, GrowVotes DEF Inv
<1>10. ShownCommentsExist' /\ SolvedInv'
    BY <1>1, <1>2, GrowShown, GrowSolved DEF Inv, commentVars
<1> QED BY <1>3, <1>5, <1>6, <1>7, <1>8, <1>9, <1>10 DEF Inv

LEMMA AddCommentKeepsInv ==
    ASSUME Inv, NEW u \in Account, NEW c \in Comment, NEW m \in Message,
           addCommentToDiscussionThreadMessage(u, c, m)
    PROVE  Inv'
<1>1. /\ u \in Visitor /\ c \notin live /\ m \in live /\ live' = live \cup {c}
      /\ createdBy' = [createdBy EXCEPT ![c] = u]
      /\ parentMessage' = [parentMessage EXCEPT ![c] = m]
      /\ owned' = [owned EXCEPT ![u] = @ \cup {c}]
      /\ comments' = [comments EXCEPT ![m] = @ \cup {c}]
      /\ c \in Slot /\ c \in Content
    BY DEF addCommentToDiscussionThreadMessage, Poster, Slot, Content
<1>2. UNCHANGED <<policy, parentThread, parties, messages, voteVars, solved,
                  solvedCommentsCount, mailVars, subscriptionVars, attachmentVars>>
    BY DEF addCommentToDiscussionThreadMessage
<1>3. TypeOK'
    BY <1>1, <1>2 DEF Inv, TypeOK, voteVars, mailVars, subscriptionVars, attachmentVars
<1>4. c \notin Message /\ c \notin PrivateMessage /\ c \notin User
    BY Kinds
<1>5. \A y \in Content : createdBy'[y] = IF y = c THEN u ELSE createdBy[y]
    BY <1>1 DEF Inv, TypeOK
<1>6. \A d \in Comment : parentMessage'[d] = IF d = c THEN m ELSE parentMessage[d]
    BY <1>1 DEF Inv, TypeOK
<1>7. \A n \in Message : comments'[n] = IF n = m THEN comments[n] \cup {c} ELSE comments[n]
    BY <1>1 DEF Inv, TypeOK
<1>8. Visitor' = Visitor /\ live' \cap Message = live \cap Message
    BY <1>1, <1>4 DEF Visitor
<1>9. AuthorsInv'
    <2>1. \A v \in Account : owned'[v] = IF v = u THEN owned[v] \cup {c} ELSE owned[v]
        BY <1>1 DEF Inv, TypeOK
    <2>2. AuthorsAgree'
        <3> SUFFICES ASSUME NEW v \in Account, NEW y \in Content
                     PROVE  y \in owned'[v] <=>
                              /\ y \in live' /\ createdBy'[y] = v /\ v \in Visitor
                              /\ y \in Comment => \E n \in live \cap Message :
                                                    parentMessage'[y] = n /\ y \in comments'[n]
            BY <1>8 DEF AuthorsAgree
        <3>1. y \in owned[v] <=>
                  /\ y \in live /\ createdBy[y] = v /\ v \in Visitor
                  /\ y \in Comment => \E n \in live \cap Message :
                                          parentMessage[y] = n /\ y \in comments[n]
            BY DEF Inv, AuthorsInv, AuthorsAgree
        <3>2. CASE y = c
            <4>1. parentMessage'[c] = m /\ c \in comments'[m] /\ m \in live \cap Message
                BY <1>1, <1>6, <1>7
            <4> QED BY <1>1, <1>5, <2>1, <3>1, <3>2, <4>1
        <3>3. CASE y # c
            <4>1. /\ y \in live' <=> y \in live
                  /\ createdBy'[y] = createdBy[y] /\ (y \in owned'[v] <=> y \in owned[v])
                BY <1>1, <1>5, <2>1, <3>3
            <4>2. y \in Comment => /\ parentMessage'[y] = parentMessage[y]
                                   /\ \A n \in Message : y \in comments'[n] <=> y \in comments[n]
                BY <1>6, <1>7, <3>3
            <4> QED BY <3>1, <4>1, <4>2
        <3> QED BY <3>2, <3>3
    <2>3. OwnersInv'
        BY <1>1, <1>5, <1>8 DEF Inv, AuthorsInv, OwnersInv
    <2> QED BY <2>2, <2>3 DEF AuthorsInv
<1>10. ThreadsInv'
    BY <1>1, <1>2, <1>4, GrowThreads DEF Inv
<1>11. MailInv'
    BY <1>1, <1>2, <1>4, GrowMail DEF Inv, mailVars
<1>12. SubscriptionsAgree' /\ AttachmentsAgree'
    BY <1>1, <1>2, GrowSubscriptions, GrowAttachments DEF Inv
<1>13. VotesTracked'
    BY <1>1, <1>2, <1>5, GrowVotes DEF Inv
<1>14. ShownCommentsExist'
    <2> SUFFICES ASSUME NEW n \in Message, NEW d \in comments'[n]
                 PROVE  /\ {n, d} \subseteq live' /\ parentMessage'[d] = n
                        /\ createdBy'[d] \in Visitor
        BY <1>8 DEF ShownCommentsExist
    <2>1. CASE d = c
        <3>1. c \notin comments[n]
            BY <1>1 DEF Inv, ShownCommentsExist
        <3>2. n = m
            BY <1>7, <2>1, <3>1
        <3> QED BY <1>1, <1>5, <1>6, <2>1, <3>2
    <2>2. CASE d # c
        <3>1. d \in comments[n]
            BY <1>7, <2>2
        <3>2. d \in Comment /\ d \in Content
            BY <3>1 DEF Inv, TypeOK, Content
        <3>3. {n, d} \subseteq live /\ parentMessage[d] = n /\ createdBy[d] \in Visitor
            BY <3>1 DEF Inv, ShownCommentsExist
        <3> QED BY <1>1, <1>5, <1>6, <2>2, <3>2, <3>3
    <2> QED BY <2>1, <2>2
<1>15. SolvedInv'
    <2>1. c \notin solved
        BY <1>1 DEF Inv, SolvedInv
    <2>2. \A n \in Message : comments'[n] \cap solved = comments[n] \cap solved
        BY <1>7, <2>1
    <2> QED BY <1>1, <1>2, <2>2 DEF Inv, SolvedInv, SolvedCommentsCovered
<1> QED BY <1>3, <1>9, <1>10, <1>11, <1>12, <1>13, <1>14, <1>15 DEF Inv

-----------------------------------------------------------------------------
(* The commands that change relations between existing entities.           *)

LEMMA MoveKeepsInv ==
    ASSUME Inv, NEW m \in Message, NEW into \in Thread, moveDiscussionThreadMessage(m, into)
    PROVE  Inv'
<1>1. /\ m \in live /\ into \in live /\ parentThread[m] # into
      /\ messages' = [messages EXCEPT ![into] = @ \cup {m}, ![parentThread[m]] = @ \ {m}]
      /\ parentThread' = [parentThread EXCEPT ![m] = into]
    BY DEF moveDiscussionThreadMessage
<1>2. UNCHANGED <<policy, live, createdBy, parentMessage, parties, owned, voteVars,
                  commentVars, mailVars, subscriptionVars, attachmentVars>>
    BY DEF moveDiscussionThreadMessage
<1>3. TypeOK'
    BY <1>1, <1>2 DEF Inv, TypeOK, voteVars, commentVars, mailVars,
                      subscriptionVars, attachmentVars
<1>4. AuthorsInv'
    BY <1>2 DEF Inv, AuthorsInv, AuthorsAgree, OwnersInv, Visitor, commentVars
<1>5. ThreadsInv'
    <2>1. \A n \in Message, s \in Thread :
              n \in messages[s] <=> n \in live /\ s \in live /\ parentThread[n] = s
        BY DEF Inv, ThreadsInv, ThreadsAgree
    <2>2. \A n \in Message : parentThread'[n] = IF n = m THEN into ELSE parentThread[n]
        BY <1>1 DEF Inv, TypeOK
    <2>3. parentThread[m] \in Thread
        <3>1. parentThread[m] \in live /\ Null \notin live
            BY <1>1, SlotAssumption DEF Inv, ThreadsInv, ParentsInv, TypeOK, Slot, Content
        <3> QED BY <3>1 DEF Inv, TypeOK
    <2>4. \A s \in Thread : messages'[s] =
              IF s = into THEN messages[s] \cup {m}
              ELSE IF s = parentThread[m] THEN messages[s] \ {m} ELSE messages[s]
        BY <1>1, <2>3 DEF Inv, TypeOK
    <2>5. ThreadsAgree'
        <3> SUFFICES ASSUME NEW n \in Message, NEW s \in Thread
                     PROVE  n \in messages'[s] <=>
                                n \in live /\ s \in live /\ parentThread'[n] = s
            BY <1>2 DEF ThreadsAgree
        <3>1. n \in messages[s] <=> n \in live /\ s \in live /\ parentThread[n] = s
            BY <2>1
        <3>2. CASE n = m
            <4>1. parentThread'[n] = into /\ n \in live
                BY <1>1, <2>2, <3>2
            <4>2. n \in messages'[s] <=> s = into
                BY <2>4, <3>1, <3>2
            <4> QED BY <1>1, <4>1, <4>2
        <3>3. CASE n # m
            BY <2>2, <2>4, <3>1, <3>3
        <3> QED BY <3>2, <3>3
    <2>6. ParentsInv'
        BY <1>1, <1>2, <2>2 DEF Inv, ThreadsInv, ParentsInv
    <2> QED BY <2>5, <2>6 DEF ThreadsInv
<1>6. SubscriptionsAgree' /\ AttachmentsAgree'
    BY <1>2 DEF Inv, SubscriptionsAgree, AttachmentsAgree, subscriptionVars, attachmentVars
<1>7. MailInv'
    BY <1>2, SameMail DEF Inv, mailVars
<1>8. VotesTracked'
    BY <1>2 DEF Inv, VotesTracked, voteVars
<1>9. ShownCommentsExist'
    BY <1>2, SameComments DEF Inv, commentVars
<1>10. SolvedInv'
    BY <1>2 DEF Inv, SolvedInv, SolvedCommentsCovered, commentVars
<1> QED BY <1>3, <1>4, <1>5, <1>6, <1>7, <1>8, <1>9, <1>10 DEF Inv

LEMMA MergeKeepsInv ==
    ASSUME Inv, NEW from \in Thread, NEW into \in Thread, mergeDiscussionThreads(from, into)
    PROVE  Inv'
<1>1. /\ from # into /\ from \in live /\ into \in live /\ live' = live \ {from}
      /\ createdBy' = [createdBy EXCEPT ![from] = Null]
      /\ owned' = [owned EXCEPT ![createdBy[from]] = @ \ {from}]
    BY DEF mergeDiscussionThreads
<1>2. /\ parentThread' = [m \in Message |->
               IF m \in messages[from] THEN into ELSE parentThread[m]]
      /\ messages' = [messages EXCEPT ![into] = @ \cup messages[from], ![from] = {}]
    BY DEF mergeDiscussionThreads
<1>3. /\ subscribedUsers' = [subscribedUsers EXCEPT
               ![into] = @ \cup subscribedUsers[from], ![from] = {}]
      /\ subscribedThreads' = [u \in Account |->
               IF u \in subscribedUsers[from]
               THEN (subscribedThreads[u] \cup {into}) \ {from}
               ELSE subscribedThreads[u]]
    BY DEF mergeDiscussionThreads
<1>4. UNCHANGED <<policy, parentMessage, parties, voteVars, commentVars, mailVars,
                  attachmentVars>>
    BY DEF mergeDiscussionThreads
<1>5. TypeOK'
    <2>1. /\ createdBy' \in [Content -> Account \cup {Null}] /\ live' \subseteq Slot
          /\ owned' \in [Account -> SUBSET Content]
        BY <1>1 DEF Inv, TypeOK
    <2>2. /\ parentThread' \in [Message -> Thread \cup {Null}]
          /\ messages' \in [Thread -> SUBSET Message]
        BY <1>2 DEF Inv, TypeOK
    <2>3. /\ subscribedUsers' \in [Thread -> SUBSET User]
          /\ subscribedThreads' \in [Account -> SUBSET Thread]
        BY <1>3 DEF Inv, TypeOK
    <2> QED BY <1>4, <2>1, <2>2, <2>3 DEF Inv, TypeOK, voteVars, commentVars, mailVars,
                                          attachmentVars
<1>6. /\ from \notin User /\ from \notin Message /\ from \notin Comment
      /\ from \notin PrivateMessage /\ from \notin Attachment /\ from # Anonymous
      /\ from \in Content
    BY Kinds, SlotAssumption DEF Content
<1>7. Visitor' = Visitor /\ live' \cap Message = live \cap Message
    BY <1>1, <1>6 DEF Visitor
<1>8. \A y \in Content : createdBy'[y] = IF y = from THEN Null ELSE createdBy[y]
    BY <1>1 DEF Inv, TypeOK
<1>9. AuthorsInv'
    <2>1. createdBy[from] \in Visitor
        BY <1>1, <1>6 DEF Inv, AuthorsInv, OwnersInv
    <2>2. \A v \in Account : owned'[v] = IF v = createdBy[from] THEN owned[v] \ {from}
                                         ELSE owned[v]
        BY <1>1 DEF Inv, TypeOK
    <2>3. AuthorsAgree'
        <3> SUFFICES ASSUME NEW v \in Account, NEW y \in Content
                     PROVE  y \in owned'[v] <=>
                              /\ y \in live' /\ createdBy'[y] = v /\ v \in Visitor
                              /\ y \in Comment => \E n \in live \cap Message :
                                                    parentMessage[y] = n /\ y \in comments[n]
            BY <1>4, <1>7 DEF AuthorsAgree, commentVars
        <3>1. y \in owned[v] <=>
                  /\ y \in live /\ createdBy[y] = v /\ v \in Visitor
                  /\ y \in Comment => \E n \in live \cap Message :
                                          parentMessage[y] = n /\ y \in comments[n]
            BY DEF Inv, AuthorsInv, AuthorsAgree
        <3>2. CASE y = from
            BY <1>1, <2>2, <3>1, <3>2
        <3>3. CASE y # from
            <4>1. /\ y \in live' <=> y \in live
                  /\ createdBy'[y] = createdBy[y] /\ (y \in owned'[v] <=> y \in owned[v])
                BY <1>1, <1>8, <2>2, <3>3
            <4> QED BY <3>1, <4>1
        <3> QED BY <3>2, <3>3
    <2>4. OwnersInv'
        BY <1>1, <1>7, <1>8 DEF Inv, AuthorsInv, OwnersInv
    <2> QED BY <2>3, <2>4 DEF AuthorsInv
<1>10. ThreadsInv'
    <2>1. \A n \in Message, s \in Thread :
              n \in messages[s] <=> n \in live /\ s \in live /\ parentThread[n] = s
        BY DEF Inv, ThreadsInv, ThreadsAgree
    <2>2. \A n \in Message : parentThread'[n] = IF n \in messages[from] THEN into
                                                ELSE parentThread[n]
        BY <1>2
    <2>3. \A s \in Thread : messages'[s] = IF s = from THEN {}
                                           ELSE IF s = into THEN messages[s] \cup messages[from]
                                           ELSE messages[s]
        BY <1>1, <1>2 DEF Inv, TypeOK
    <2>4. ThreadsAgree'
        <3> SUFFICES ASSUME NEW n \in Message, NEW s \in Thread
                     PROVE  n \in messages'[s] <=>
                                n \in live' /\ s \in live' /\ parentThread'[n] = s
            BY DEF ThreadsAgree
        <3>1. n \in messages[s] <=> n \in live /\ s \in live /\ parentThread[n] = s
            BY <2>1
        <3>2. n \in messages[from] <=> n \in live /\ parentThread[n] = from
            BY <1>1, <2>1
        <3>3. n \in live' <=> n \in live
            BY <1>1, <1>6
        <3>4. s \in live' <=> s \in live /\ s # from
            BY <1>1
        <3>5. CASE n \in messages[from]
            <4>1. parentThread'[n] = into /\ n \in live /\ parentThread[n] = from
                BY <2>2, <3>2, <3>5
            <4>2. n \in messages'[s] <=> s = into
                BY <1>1, <2>3, <3>1, <3>5, <4>1
            <4> QED BY <1>1, <3>3, <3>4, <4>1, <4>2
        <3>6. CASE n \notin messages[from]
            <4>1. parentThread'[n] = parentThread[n]
                BY <2>2, <3>6
            <4>2. n \in messages'[s] <=> s # from /\ n \in messages[s]
                BY <2>3, <3>6
            <4> QED BY <3>1, <3>2, <3>3, <3>4, <3>6, <4>1, <4>2
        <3> QED BY <3>5, <3>6
    <2>5. ParentsInv'
        <3> SUFFICES ASSUME NEW n \in Message, n \in live'
                     PROVE  parentThread'[n] \in live'
            BY DEF ParentsInv
        <3>1. parentThread[n] \in live
            BY <1>1 DEF Inv, ThreadsInv, ParentsInv
        <3>2. n \in messages[from] <=> parentThread[n] = from
            BY <1>1, <2>1
        <3> QED BY <1>1, <2>2, <3>1, <3>2
    <2> QED BY <2>4, <2>5 DEF ThreadsInv
<1>11. SubscriptionsAgree'
    <2> SUFFICES ASSUME NEW v \in User, NEW s \in Thread
                 PROVE  /\ v \in subscribedUsers'[s] <=> s \in subscribedThreads'[v]
                        /\ v \in subscribedUsers'[s] => {v, s} \subseteq live'
        BY DEF SubscriptionsAgree
    <2>1. \A r \in Thread : /\ v \in subscribedUsers[r] <=> r \in subscribedThreads[v]
                            /\ v \in subscribedUsers[r] => {v, r} \subseteq live
        BY DEF Inv, SubscriptionsAgree
    <2>2. v \in subscribedUsers'[s] <=>
              /\ s # from
              /\ v \in subscribedUsers[s] \/ (s = into /\ v \in subscribedUsers[from])
        BY <1>1, <1>3 DEF Inv, TypeOK
    <2>3. subscribedThreads'[v] = IF v \in subscribedUsers[from]
                                  THEN (subscribedThreads[v] \cup {into}) \ {from}
                                  ELSE subscribedThreads[v]
        BY <1>3 DEF Account
    <2>4. v \in live' <=> v \in live
        BY <1>1, <1>6
    <2> QED BY <1>1, <2>1, <2>2, <2>3, <2>4
<1>12. MailInv'
    <2>1. PrivateMessagesAgree'
        <3> SUFFICES ASSUME NEW v \in Account, NEW p \in PrivateMessage
                     PROVE  /\ p \in sent[v] <=>
                                  p \in live' /\ parties[p].source = v /\ v \in Visitor
                            /\ p \in received[v] <=>
                                  p \in live' /\ parties[p].destination = v /\ v \in live'
            BY <1>4, <1>7 DEF PrivateMessagesAgree, mailVars
        <3>1. (p \in live' <=> p \in live) /\ (v \in live' <=> v \in live)
            BY <1>1, <1>6 DEF Account
        <3> QED BY <3>1 DEF Inv, MailInv, PrivateMessagesAgree
    <2>2. LettersInv'
        <3> SUFFICES ASSUME NEW p \in PrivateMessage, p \in live'
                     PROVE  parties[p].source \in Visitor /\ parties[p].destination \in live'
            BY <1>4, <1>7 DEF LettersInv
        <3>1. parties[p].source \in Visitor /\ parties[p].destination \in live
            BY <1>1 DEF Inv, MailInv, LettersInv
        <3>2. parties[p].destination \in User \cup {Null}
            BY DEF Inv, TypeOK
        <3>3. from # Null
            BY Kinds
        <3> QED BY <1>1, <1>6, <3>1, <3>2, <3>3
    <2> QED BY <2>1, <2>2 DEF MailInv
<1>13. AttachmentsAgree'
    BY <1>1, <1>4, <1>6 DEF Inv, AttachmentsAgree, attachmentVars
<1>14. VotesTracked'
    <2> SUFFICES ASSUME NEW m \in Message
                 PROVE  /\ upVotes[m] \cap downVotes[m] = {}
                        /\ \A u \in upVotes[m] \cup downVotes[m] :
                               /\ {u, m} \subseteq live' /\ createdBy'[m] # u
                               /\ m \in votedMessages[u]
        BY <1>4 DEF VotesTracked, voteVars
    <2>1. m # from /\ m \in Content /\ createdBy'[m] = createdBy[m]
        BY <1>6, <1>8 DEF Content
    <2>2. upVotes[m] \subseteq User /\ downVotes[m] \subseteq User
        BY DEF Inv, TypeOK
    <2>3. /\ upVotes[m] \cap downVotes[m] = {}
          /\ \A u \in upVotes[m] \cup downVotes[m] :
                 {u, m} \subseteq live /\ createdBy[m] # u /\ m \in votedMessages[u]
        BY DEF Inv, VotesTracked
    <2> QED BY <1>1, <1>6, <2>1, <2>2, <2>3
<1>15. ShownCommentsExist'
    <2> SUFFICES ASSUME NEW m \in Message, NEW c \in comments[m]
                 PROVE  /\ {m, c} \subseteq live' /\ parentMessage[c] = m
                        /\ createdBy'[c] \in Visitor
        BY <1>4, <1>7 DEF ShownCommentsExist, commentVars
    <2>1. {m, c} \subseteq live /\ parentMessage[c] = m /\ createdBy[c] \in Visitor
        BY DEF Inv, ShownCommentsExist
    <2>2. c \in Comment /\ c \in Content
        BY DEF Inv, TypeOK, Content
    <2> QED BY <1>1, <1>6, <1>8, <2>1, <2>2
<1>16. SolvedInv'
    <2>1. solved \subseteq Comment
        BY DEF Inv, TypeOK
    <2> QED BY <1>1, <1>4, <1>6, <2>1 DEF Inv, SolvedInv, SolvedCommentsCovered, commentVars
<1> QED BY <1>5, <1>9, <1>10, <1>11, <1>12, <1>13, <1>14, <1>15, <1>16 DEF Inv

LEMMA SubscribeKeepsInv ==
    ASSUME Inv, NEW u \in User, NEW t \in Thread,
           subscribeToDiscussionThread(u, t) \/ unsubscribeFromDiscussionThread(u, t)
    PROVE  Inv'
<1>1. /\ u \in live /\ t \in live
      /\ \/ /\ subscribedUsers' = [subscribedUsers EXCEPT ![t] = @ \cup {u}]
            /\ subscribedThreads' = [subscribedThreads EXCEPT ![u] = @ \cup {t}]
         \/ /\ subscribedUsers' = [subscribedUsers EXCEPT ![t] = @ \ {u}]
            /\ subscribedThreads' = [subscribedThreads EXCEPT ![u] = @ \ {t}]
    BY DEF subscribeToDiscussionThread, unsubscribeFromDiscussionThread
<1>2. UNCHANGED <<policy, live, originVars, owned, messages, voteVars, commentVars,
                  mailVars, attachmentVars>>
    BY DEF subscribeToDiscussionThread, unsubscribeFromDiscussionThread
<1>3. TypeOK'
    <2>1. /\ subscribedUsers' \in [Thread -> SUBSET User]
          /\ subscribedThreads' \in [Account -> SUBSET Thread]
        BY <1>1 DEF Inv, TypeOK, Account
    <2> QED BY <1>2, <2>1 DEF Inv, TypeOK, originVars, voteVars, commentVars, mailVars,
                              attachmentVars
<1>4. AuthorsInv' /\ ThreadsInv'
    BY <1>2, SameRelations DEF Inv, originVars, commentVars
<1>5. SubscriptionsAgree'
    <2> SUFFICES ASSUME NEW v \in User, NEW s \in Thread
                 PROVE  /\ v \in subscribedUsers'[s] <=> s \in subscribedThreads'[v]
                        /\ v \in subscribedUsers'[s] => {v, s} \subseteq live
        BY <1>2 DEF SubscriptionsAgree
    <2>1. /\ v \in subscribedUsers[s] <=> s \in subscribedThreads[v]
          /\ v \in subscribedUsers[s] => {v, s} \subseteq live
        BY DEF Inv, SubscriptionsAgree
    <2>2. CASE v = u /\ s = t
        BY <1>1, <2>1, <2>2 DEF Inv, TypeOK, Account
    <2>3. CASE ~(v = u /\ s = t)
        <3>1. v \in subscribedUsers'[s] <=> v \in subscribedUsers[s]
            BY <1>1, <2>3 DEF Inv, TypeOK
        <3>2. s \in subscribedThreads'[v] <=> s \in subscribedThreads[v]
            BY <1>1, <2>3 DEF Inv, TypeOK, Account
        <3> QED BY <2>1, <3>1, <3>2
    <2> QED BY <2>2, <2>3
<1>6. MailInv' /\ AttachmentsAgree'
    BY <1>2, SameMail DEF Inv, originVars, mailVars, AttachmentsAgree, attachmentVars
<1>7. VotesTracked'
    BY <1>2 DEF Inv, VotesTracked, originVars, voteVars
<1>8. ShownCommentsExist'
    BY <1>2, SameComments DEF Inv, originVars, commentVars
<1>9. SolvedInv'
    BY <1>2 DEF Inv, SolvedInv, SolvedCommentsCovered, commentVars
<1> QED BY <1>3, <1>4, <1>5, <1>6, <1>7, <1>8, <1>9 DEF Inv

\* A vote is entered on both sides or taken from the message alone; the user
\* may stay among those who voted, never the other way round.
LEMMA VoteKeepsInv ==
    ASSUME Inv, NEW u \in User, NEW m \in Message,
           \/ upVoteDiscussionThreadMessage(u, m)
           \/ downVoteDiscussionThreadMessage(u, m)
           \/ resetVoteDiscussionThreadMessage(u, m)
    PROVE  Inv'
<1>1. MayVote(u, m) /\ (~hasVoted(u, m) \/ UNCHANGED votedMessages)
    BY DEF upVoteDiscussionThreadMessage, downVoteDiscussionThreadMessage,
           resetVoteDiscussionThreadMessage
<1>2. \/ /\ ~hasVoted(u, m)
         /\ votedMessages' = [votedMessages EXCEPT ![u] = @ \cup {m}]
         /\ \/ /\ upVotes' = [upVotes EXCEPT ![m] = @ \cup {u}]
               /\ UNCHANGED downVotes
            \/ /\ downVotes' = [downVotes EXCEPT ![m] = @ \cup {u}]
               /\ UNCHANGED upVotes
      \/ /\ UNCHANGED votedMessages
         /\ \/ /\ upVotes' = [upVotes EXCEPT ![m] = @ \ {u}]
               /\ UNCHANGED downVotes
            \/ /\ downVotes' = [downVotes EXCEPT ![m] = @ \ {u}]
               /\ UNCHANGED upVotes
    BY DEF upVoteDiscussionThreadMessage, downVoteDiscussionThreadMessage,
           resetVoteDiscussionThreadMessage
<1>3. UNCHANGED <<policy, live, originVars, owned, messages, commentVars, mailVars,
                  subscriptionVars, attachmentVars>>
    BY DEF upVoteDiscussionThreadMessage, downVoteDiscussionThreadMessage,
           resetVoteDiscussionThreadMessage
<1>4. m \in Content /\ m \in live /\ u \in live /\ createdBy[m] # u
    BY <1>1 DEF MayVote, Content
<1>5. votesReceived' \in [Account -> [up: Int, down: Int]]
    <2>1. votesReceived \in [Account -> [up: Int, down: Int]]
        BY DEF Inv, TypeOK
    <2>2. createdBy[m] \in Visitor /\ Visitor \subseteq Account
        <3>1. m \notin Comment
            BY Kinds
        <3> QED BY <1>4, <3>1 DEF Inv, AuthorsInv, OwnersInv, Visitor, Account
    <2>3. /\ votesReceived[createdBy[m]] \in [up: Int, down: Int]
          /\ votesReceived[createdBy[m]].up \in Int /\ votesReceived[createdBy[m]].down \in Int
        BY <2>1, <2>2
    <2>4. \/ votesReceived' = [votesReceived EXCEPT ![createdBy[m]].up = @ + 1]
          \/ votesReceived' = [votesReceived EXCEPT ![createdBy[m]].down = @ + 1]
          \/ votesReceived' = [votesReceived EXCEPT ![createdBy[m]].up = @ - 1]
          \/ votesReceived' = [votesReceived EXCEPT ![createdBy[m]].down = @ - 1]
        BY DEF upVoteDiscussionThreadMessage, downVoteDiscussionThreadMessage,
               resetVoteDiscussionThreadMessage
    <2> QED BY <2>1, <2>2, <2>3, <2>4
<1>6. TypeOK'
    <2>1. votedMessages' \in [Account -> SUBSET Message]
        BY <1>2 DEF Inv, TypeOK, Account
    <2>2. upVotes \in [Message -> SUBSET User] /\ downVotes \in [Message -> SUBSET User]
        BY DEF Inv, TypeOK
    <2>3. upVotes' \in [Message -> SUBSET User]
        BY <1>2, <2>2
    <2>4. downVotes' \in [Message -> SUBSET User]
        BY <1>2, <2>2
    <2> QED BY <1>3, <1>5, <2>1, <2>3, <2>4 DEF Inv, TypeOK, originVars, commentVars, mailVars,
                                          subscriptionVars, attachmentVars
<1>7. AuthorsInv' /\ ThreadsInv'
    BY <1>3, SameRelations DEF Inv, originVars, commentVars
<1>8. SubscriptionsAgree' /\ AttachmentsAgree'
    BY <1>3 DEF Inv, SubscriptionsAgree, AttachmentsAgree, subscriptionVars, attachmentVars
<1>9. MailInv'
    BY <1>3, SameMail DEF Inv, originVars, mailVars
<1>10. VotesTracked'
    <2> SUFFICES ASSUME NEW n \in Message
                 PROVE  /\ upVotes'[n] \cap downVotes'[n] = {}
                        /\ \A v \in upVotes'[n] \cup downVotes'[n] :
                               /\ {v, n} \subseteq live /\ createdBy[n] # v
                               /\ n \in votedMessages'[v]
        BY <1>3 DEF VotesTracked, originVars
    <2>1. /\ upVotes[n] \cap downVotes[n] = {}
          /\ \A v \in upVotes[n] \cup downVotes[n] :
                 {v, n} \subseteq live /\ createdBy[n] # v /\ n \in votedMessages[v]
        BY DEF Inv, VotesTracked
    <2>2. upVotes[n] \subseteq User /\ downVotes[n] \subseteq User /\ u \in Account
        BY DEF Inv, TypeOK, Account
    <2>3. \A v \in User : votedMessages[v] \subseteq votedMessages'[v]
        BY <1>2 DEF Inv, TypeOK, Account
    <2>4. CASE n # m
        <3>1. upVotes'[n] = upVotes[n] /\ downVotes'[n] = downVotes[n]
            BY <1>2, <2>4 DEF Inv, TypeOK
        <3> QED BY <2>1, <2>2, <2>3, <3>1
    <2>5. CASE n = m
        <3>1. \/ /\ u \notin upVotes[m] \cup downVotes[m] /\ m \in votedMessages'[u]
                 /\ \/ upVotes'[m] = upVotes[m] \cup {u} /\ downVotes'[m] = downVotes[m]
                    \/ upVotes'[m] = upVotes[m] /\ downVotes'[m] = downVotes[m] \cup {u}
              \/ upVotes'[m] \subseteq upVotes[m] /\ downVotes'[m] \subseteq downVotes[m]
            BY <1>2, <2>2 DEF Inv, TypeOK, hasVoted
        <3> QED BY <1>4, <2>1, <2>2, <2>3, <2>5, <3>1
    <2> QED BY <2>4, <2>5
<1>11. ShownCommentsExist'
    BY <1>3, SameComments DEF Inv, originVars, commentVars
<1>12. SolvedInv'
    BY <1>3 DEF Inv, SolvedInv, SolvedCommentsCovered, commentVars
<1> QED BY <1>6, <1>7, <1>8, <1>9, <1>10, <1>11, <1>12 DEF Inv

LEMMA SolveKeepsInv ==
    ASSUME Inv, NEW c \in Comment, setMessageCommentToSolved(c)
    PROVE  Inv'
<1>1. /\ c \in live /\ c \notin solved /\ solved' = solved \cup {c}
      /\ solvedCommentsCount' = [m \in Message |->
             IF m = parentMessage[c] /\ m \in live
             THEN solvedCommentsCount[m] + 1 ELSE solvedCommentsCount[m]]
    BY DEF setMessageCommentToSolved
<1>2. UNCHANGED <<policy, live, originVars, owned, messages, voteVars, comments, mailVars,
                  subscriptionVars, attachmentVars>>
    BY DEF setMessageCommentToSolved
<1>3. TypeOK'
    BY <1>1, <1>2 DEF Inv, TypeOK, originVars, voteVars, mailVars,
                      subscriptionVars, attachmentVars
<1>4. AuthorsInv' /\ ThreadsInv'
    BY <1>2, SameRelations DEF Inv, originVars
<1>5. SubscriptionsAgree' /\ AttachmentsAgree'
    BY <1>2 DEF Inv, SubscriptionsAgree, AttachmentsAgree, subscriptionVars, attachmentVars
<1>6. MailInv'
    BY <1>2, SameMail DEF Inv, originVars, mailVars
<1>7. VotesTracked'
    BY <1>2 DEF Inv, VotesTracked, originVars, voteVars
<1>8. ShownCommentsExist'
    BY <1>2, SameComments DEF Inv, originVars
<1>9. SolvedInv'
    <2>1. solved' \subseteq live'
        BY <1>1, <1>2 DEF Inv, SolvedInv
    <2>2. ASSUME NEW m \in Message
          PROVE  Cardinality(comments[m] \cap solved') <= solvedCommentsCount'[m]
        <3> DEFINE A == comments[m] \cap solved
        <3>1. IsFiniteSet(Comment)
            BY SlotAssumption
        <3>2. A \subseteq Comment
            BY DEF Inv, TypeOK
        <3>3. IsFiniteSet(A)
            BY <3>1, <3>2, FS_Subset
        <3>4. Cardinality(A) <= solvedCommentsCount[m] /\ solvedCommentsCount[m] \in Int
            BY DEF Inv, SolvedInv, SolvedCommentsCovered, TypeOK
        <3>5. CASE c \in comments[m]
            <4>1. parentMessage[c] = m /\ m \in live
                BY <3>5 DEF Inv, ShownCommentsExist
            <4>2. solvedCommentsCount'[m] = solvedCommentsCount[m] + 1
                BY <1>1, <4>1
            <4>3. comments[m] \cap solved' = A \cup {c} /\ c \notin A
                BY <1>1, <3>5
            <4> HIDE DEF A
            <4>4. Cardinality(A \cup {c}) = Cardinality(A) + 1
                BY <3>3, <4>3, FS_AddElement
            <4>5. Cardinality(A) \in Nat
                BY <3>3, FS_CardinalityType
            <4> QED BY <3>4, <4>2, <4>3, <4>4, <4>5
        <3>6. CASE c \notin comments[m]
            <4>1. comments[m] \cap solved' = A
                BY <1>1, <3>6
            <4>2. \/ solvedCommentsCount'[m] = solvedCommentsCount[m] + 1
                  \/ solvedCommentsCount'[m] = solvedCommentsCount[m]
                BY <1>1
            <4> HIDE DEF A
            <4>3. Cardinality(A) \in Nat
                BY <3>3, FS_CardinalityType
            <4> QED BY <3>4, <4>1, <4>2, <4>3
        <3> QED BY <3>5, <3>6
    <2> QED BY <1>2, <2>1, <2>2 DEF SolvedInv, SolvedCommentsCovered
<1> QED BY <1>3, <1>4, <1>5, <1>6, <1>7, <1>8, <1>9 DEF Inv

LEMMA AttachKeepsInv ==
    ASSUME Inv, NEW a \in Attachment, NEW m \in Message,
           \/ addAttachmentToDiscussionThreadMessage(a, m)
           \/ removeAttachmentFromDiscussionThreadMessage(a, m)
    PROVE  Inv'
<1>1. /\ a \in live /\ m \in live
      /\ \/ /\ attachedTo' = [attachedTo EXCEPT ![a] = @ \cup {m}]
            /\ attachments' = [attachments EXCEPT ![m] = @ \cup {a}]
         \/ /\ attachedTo' = [attachedTo EXCEPT ![a] = @ \ {m}]
            /\ attachments' = [attachments EXCEPT ![m] = @ \ {a}]
    BY DEF addAttachmentToDiscussionThreadMessage,
           removeAttachmentFromDiscussionThreadMessage
<1>2. UNCHANGED <<policy, live, originVars, owned, messages, voteVars, commentVars,
                  mailVars, subscriptionVars>>
    BY DEF addAttachmentToDiscussionThreadMessage,
           removeAttachmentFromDiscussionThreadMessage
<1>3. TypeOK'
    <2>1. /\ attachments \in [Message -> SUBSET Attachment]
          /\ attachedTo \in [Attachment -> SUBSET Message]
        BY DEF Inv, TypeOK
    <2>2. attachments' \in [Message -> SUBSET Attachment]
        BY <1>1, <2>1
    <2>3. attachedTo' \in [Attachment -> SUBSET Message]
        BY <1>1, <2>1
    <2> QED BY <1>2, <2>2, <2>3 DEF Inv, TypeOK, originVars, voteVars, commentVars, mailVars,
                              subscriptionVars
<1>4. AuthorsInv' /\ ThreadsInv'
    BY <1>2, SameRelations DEF Inv, originVars, commentVars
<1>5. SubscriptionsAgree' /\ MailInv'
    BY <1>2, SameMail DEF Inv, SubscriptionsAgree, subscriptionVars, originVars, mailVars
<1>6. AttachmentsAgree'
    <2> SUFFICES ASSUME NEW n \in Message, NEW b \in Attachment
                 PROVE  /\ b \in attachments'[n] <=> n \in attachedTo'[b]
                        /\ b \in attachments'[n] => {b, n} \subseteq live
        BY <1>2 DEF AttachmentsAgree
    <2>1. /\ b \in attachments[n] <=> n \in attachedTo[b]
          /\ b \in attachments[n] => {b, n} \subseteq live
        BY DEF Inv, AttachmentsAgree
    <2>2. CASE b = a /\ n = m
        BY <1>1, <2>1, <2>2 DEF Inv, TypeOK
    <2>3. CASE ~(b = a /\ n = m)
        <3>1. b \in attachments'[n] <=> b \in attachments[n]
            BY <1>1, <2>3 DEF Inv, TypeOK
        <3>2. n \in attachedTo'[b] <=> n \in attachedTo[b]
            BY <1>1, <2>3 DEF Inv, TypeOK
        <3> QED BY <2>1, <3>1, <3>2
    <2> QED BY <2>2, <2>3
<1>7. VotesTracked'
    BY <1>2 DEF Inv, VotesTracked, originVars, voteVars
<1>8. ShownCommentsExist'
    BY <1>2, SameComments DEF Inv, originVars, commentVars
<1>9. SolvedInv'
    BY <1>2 DEF Inv, SolvedInv, SolvedCommentsCovered, commentVars
<1> QED BY <1>3, <1>4, <1>5, <1>6, <1>7, <1>8, <1>9 DEF Inv

-----------------------------------------------------------------------------
LEMMA InvStep == Inv /\ [Next]_vars => Inv'
<1> SUFFICES ASSUME Inv, [Next]_vars PROVE Inv'
    OBVIOUS
<1>1. CASE UNCHANGED vars
    <2>1. UNCHANGED <<policy, live, originVars, owned, messages, voteVars, commentVars,
                      mailVars, subscriptionVars, attachmentVars>>
        BY <1>1 DEF vars
    <2>2. TypeOK'
        BY <2>1 DEF Inv, TypeOK, originVars, voteVars, commentVars, mailVars,
                    subscriptionVars, attachmentVars
    <2>3. AuthorsInv' /\ ThreadsInv'
        BY <2>1, SameRelations DEF Inv, originVars, commentVars
    <2>4. SubscriptionsAgree' /\ AttachmentsAgree'
        BY <2>1 DEF Inv, SubscriptionsAgree, AttachmentsAgree, subscriptionVars, attachmentVars
    <2>5. MailInv'
        BY <2>1, SameMail DEF Inv, originVars, mailVars
    <2>6. VotesTracked'
        BY <2>1 DEF Inv, VotesTracked, originVars, voteVars
    <2>7. ShownCommentsExist'
        BY <2>1, SameComments DEF Inv, originVars, commentVars
    <2>8. SolvedInv'
        BY <2>1 DEF Inv, SolvedInv, SolvedCommentsCovered, commentVars
    <2> QED BY <2>2, <2>3, <2>4, <2>5, <2>6, <2>7, <2>8 DEF Inv
<1>2. CASE UserNext
    BY <1>2, AddUserKeepsInv, DeletionsKeepInv DEF UserNext
<1>3. CASE ThreadNext
    BY <1>3, AddThreadKeepsInv, MergeKeepsInv, SubscribeKeepsInv, DeletionsKeepInv
    DEF ThreadNext
<1>4. CASE MessageNext
    BY <1>4, AddMessageKeepsInv, MoveKeepsInv, VoteKeepsInv, DeletionsKeepInv DEF MessageNext
<1>5. CASE OtherNext
    BY <1>5, AddCommentKeepsInv, SolveKeepsInv, SendKeepsInv, AddAttachmentKeepsInv,
       AttachKeepsInv, DeletionsKeepInv DEF OtherNext
<1> QED BY <1>1, <1>2, <1>3, <1>4, <1>5 DEF Next

LEMMA InvAlways == Spec => []Inv
    BY InvInit, InvStep, PTL DEF Spec

\* The fields of all entities keep their types, in free slots too.
THEOREM TypeCorrect == Spec => []TypeOK
<1>1. Inv => TypeOK
    BY DEF Inv
<1> QED BY <1>1, InvAlways, PTL

\* Authors, threads of messages, subscriptions, private messages and
\* attachments: both ends of every relation agree and none mentions a deleted
\* entity, whatever is merged, moved or deleted and however slots are reused.
THEOREM RelationsTheorem == Spec => []RelationsAgree
<1>1. Inv => RelationsAgree
    BY DEF Inv, AuthorsInv, ThreadsInv, MailInv, RelationsAgree
<1> QED BY <1>1, InvAlways, PTL

\* deleteUser finds every vote of the user through votedMessages_, although
\* resetting a vote leaves the message there.
THEOREM VotesTheorem == Spec => []VotesTracked
<1>1. Inv => VotesTracked
    BY DEF Inv
<1> QED BY <1>1, InvAlways, PTL

\* A message shows comments that are in the forum, know the message and have
\* an author, and the unsigned count of solved comments never wraps.
THEOREM CommentsTheorem == Spec => []CommentsAgree
<1>1. Inv => CommentsAgree
    BY DEF Inv, SolvedInv, CommentsAgree
<1> QED BY <1>1, InvAlways, PTL

-----------------------------------------------------------------------------
(* The statistics of votes received.  The votes that the messages of a     *)
(* user show are a finite set of pairs; Inv tells how it changes.          *)

UpShown(u) == VotesShown(upVotes, u)
DownShown(u) == VotesShown(downVotes, u)

Covered(u) ==
    /\ Cardinality(UpShown(u)) <= votesReceived[u].up
    /\ Cardinality(DownShown(u)) <= votesReceived[u].down

LEMMA ShownFinite ==
    ASSUME NEW S, S \subseteq User \X Message
    PROVE  IsFiniteSet(S) /\ Cardinality(S) \in Nat
<1>1. IsFiniteSet(User) /\ IsFiniteSet(Message)
    BY SlotAssumption
<1>2. IsFiniteSet(User \X Message)
    BY <1>1, FS_Product
<1>3. IsFiniteSet(S)
    BY <1>2, FS_Subset
<1> QED BY <1>3, FS_CardinalityType

LEMMA ShownSmaller ==
    ASSUME NEW S, NEW T, T \subseteq User \X Message, S \subseteq T
    PROVE  Cardinality(S) <= Cardinality(T)
<1>1. IsFiniteSet(T)
    BY ShownFinite
<1> QED BY <1>1, FS_Subset

\* Fewer votes shown and the same statistics.
LEMMA CoveredBySubset ==
    ASSUME Inv, NEW u \in Account, Covered(u), votesReceived'[u] = votesReceived[u],
           UpShown(u)' \subseteq UpShown(u), DownShown(u)' \subseteq DownShown(u)
    PROVE  Covered(u)'
<1>1. UpShown(u) \subseteq User \X Message /\ DownShown(u) \subseteq User \X Message
    BY DEF UpShown, DownShown, VotesShown
<1>2. /\ Cardinality(UpShown(u)') <= Cardinality(UpShown(u))
      /\ Cardinality(DownShown(u)') <= Cardinality(DownShown(u))
    BY <1>1, ShownSmaller
<1>3. Cardinality(UpShown(u)) \in Nat /\ Cardinality(DownShown(u)) \in Nat
    BY <1>1, ShownFinite
<1>4. UpShown(u)' \subseteq User \X Message /\ DownShown(u)' \subseteq User \X Message
    BY <1>1
<1>5. Cardinality(UpShown(u)') \in Nat /\ Cardinality(DownShown(u)') \in Nat
    BY <1>4, ShownFinite
<1>6. votesReceived[u].up \in Int /\ votesReceived[u].down \in Int
    BY DEF Inv, TypeOK
<1>7. /\ Cardinality(UpShown(u)') <= votesReceived'[u].up
      /\ Cardinality(DownShown(u)') <= votesReceived'[u].down
    BY <1>2, <1>3, <1>5, <1>6 DEF Covered
<1> QED BY <1>7 DEF Covered

\* Commands that change neither votes nor the authors of messages in the forum.
LEMMA CoveredUnchanged ==
    ASSUME Inv, NEW u \in Account, Covered(u), UNCHANGED voteVars,
           \A m \in Message : m \in live => createdBy'[m] = createdBy[m]
    PROVE  Covered(u)'
<1>1. UNCHANGED <<votesReceived, upVotes, downVotes>>
    BY DEF voteVars
<1>2. \A m \in Message : \A v \in upVotes[m] \cup downVotes[m] : m \in live
    BY DEF Inv, VotesTracked
<1>3. UpShown(u)' \subseteq UpShown(u)
    BY <1>1, <1>2 DEF UpShown, VotesShown
<1>4. DownShown(u)' \subseteq DownShown(u)
    BY <1>1, <1>2 DEF DownShown, VotesShown
<1> QED BY <1>1, <1>3, <1>4, CoveredBySubset

\* Who is deleted loses the statistics, but all messages as well.
LEMMA CoveredByRelease ==
    ASSUME Inv, Inv', NEW u \in Account, Covered(u), NEW entities, Release(entities)
    PROVE  Covered(u)'
<1> DEFINE gone == entities \cap live
<1>1. ReleaseContent(gone) /\ ReleaseVotes(gone) /\ gone \subseteq live
    BY DEF Release
<1> HIDE DEF gone
<1>2. live' = live \ gone
    BY <1>1 DEF ReleaseContent
<1>3. \A m \in Message : createdBy'[m] = IF m \in gone THEN Null ELSE createdBy[m]
    BY <1>1 DEF ReleaseContent, Content
<1>4. \A m \in Message : upVotes'[m] \subseteq upVotes[m] /\ downVotes'[m] \subseteq downVotes[m]
    BY <1>1 DEF ReleaseVotes
<1>5. votesReceived'[u] = IF u \in gone THEN None ELSE votesReceived[u]
    BY <1>1 DEF ReleaseVotes
<1>6. CASE u \in gone
    <2>1. u \notin Visitor'
        BY <1>1, <1>2, <1>6, SlotAssumption DEF Visitor, Inv, TypeOK, Slot, Content
    <2>2. \A m \in Message : \A v \in upVotes'[m] \cup downVotes'[m] : m \in live'
        BY DEF Inv, VotesTracked
    <2>3. \A m \in Message : m \in live' => createdBy'[m] \in Visitor'
        BY Kinds DEF Inv, AuthorsInv, OwnersInv, Content
    <2>4. UpShown(u)' = {}
        BY <2>1, <2>2, <2>3 DEF UpShown, VotesShown
    <2>5. DownShown(u)' = {}
        BY <2>1, <2>2, <2>3 DEF DownShown, VotesShown
    <2>6. Cardinality({}) = 0
        BY FS_EmptySet
    <2>7. votesReceived'[u].up = 0 /\ votesReceived'[u].down = 0
        BY <1>5, <1>6 DEF None
    <2>8. /\ Cardinality(UpShown(u)') <= votesReceived'[u].up
          /\ Cardinality(DownShown(u)') <= votesReceived'[u].down
        BY <2>4, <2>5, <2>6, <2>7
    <2> QED BY <2>8 DEF Covered
<1>7. CASE u \notin gone
    <2>1. u # Null
        BY Kinds DEF Account
    <2>2. UpShown(u)' \subseteq UpShown(u)
        BY <1>3, <1>4, <2>1 DEF UpShown, VotesShown
    <2>3. DownShown(u)' \subseteq DownShown(u)
        BY <1>3, <1>4, <2>1 DEF DownShown, VotesShown
    <2> QED BY <1>5, <1>7, <2>2, <2>3, CoveredBySubset
<1> QED BY <1>6, <1>7

\* A set of votes shown that gains or loses one vote.
LEMMA OneVote ==
    ASSUME NEW S, S \subseteq User \X Message, NEW x \in User \X Message
    PROVE  /\ Cardinality(S \cup {x}) <= Cardinality(S) + 1
           /\ x \in S => Cardinality(S \ {x}) = Cardinality(S) - 1
<1>1. IsFiniteSet(S) /\ Cardinality(S) \in Nat
    BY ShownFinite
<1>2. Cardinality(S \cup {x}) <= Cardinality(S) + 1
    <2>1. CASE x \in S
        <3>1. S \cup {x} = S
            BY <2>1
        <3>2. Cardinality(S) <= Cardinality(S) + 1
            BY <1>1
        <3> QED BY <3>1, <3>2
    <2>2. CASE x \notin S
        <3>1. Cardinality(S \cup {x}) = Cardinality(S) + 1
            BY <1>1, <2>2, FS_AddElement
        <3>2. Cardinality(S) + 1 \in Nat
            BY <1>1
        <3> QED BY <3>1, <3>2
    <2> QED BY <2>1, <2>2
<1>3. x \in S => Cardinality(S \ {x}) = Cardinality(S) - 1
    BY <1>1, FS_RemoveElement
<1> QED BY <1>2, <1>3

LEMMA CoveredByUpVote ==
    ASSUME Inv, NEW a \in Account, Covered(a), NEW u \in User, NEW m \in Message,
           upVoteDiscussionThreadMessage(u, m)
    PROVE  Covered(a)'
<1>1. UNCHANGED createdBy /\ UNCHANGED downVotes
    BY DEF upVoteDiscussionThreadMessage, originVars
<1>2. \A n \in Message : upVotes'[n] = IF n = m THEN upVotes[n] \cup {u} ELSE upVotes[n]
    BY DEF upVoteDiscussionThreadMessage, Inv, TypeOK
<1>3. /\ votesReceived[a] \in [up: Int, down: Int]
      /\ votesReceived \in [Account -> [up: Int, down: Int]]
    BY DEF Inv, TypeOK
<1>4. votesReceived' = [votesReceived EXCEPT ![createdBy[m]].up = @ + 1]
    BY DEF upVoteDiscussionThreadMessage
<1>5. DownShown(a)' = DownShown(a)
    BY <1>1 DEF DownShown, VotesShown
<1>6. CASE createdBy[m] # a
    <2>1. UpShown(a)' \subseteq UpShown(a)
        BY <1>1, <1>2, <1>6 DEF UpShown, VotesShown
    <2>2. votesReceived'[a] = votesReceived[a]
        BY <1>3, <1>4, <1>6
    <2> QED BY <1>5, <2>1, <2>2, CoveredBySubset
<1>7. CASE createdBy[m] = a
    <2>1. UpShown(a)' \subseteq UpShown(a) \cup {<<u, m>>}
        <3> SUFFICES ASSUME NEW x \in UpShown(a)', x \notin UpShown(a)
                     PROVE  x = <<u, m>>
            OBVIOUS
        <3>1. x \in User \X Message /\ createdBy[x[2]] = a /\ x[1] \in upVotes'[x[2]]
            BY <1>1 DEF UpShown, VotesShown
        <3>2. x[1] \notin upVotes[x[2]]
            BY <3>1 DEF UpShown, VotesShown
        <3>3. x[2] = m /\ x[1] = u
            BY <1>2, <3>1, <3>2
        <3> QED BY <3>1, <3>3
    <2>2. votesReceived'[a].up = votesReceived[a].up + 1
        BY <1>3, <1>4, <1>7
    <2>3. votesReceived'[a].down = votesReceived[a].down
        BY <1>3, <1>4, <1>7
    <2>4. UpShown(a) \subseteq User \X Message /\ <<u, m>> \in User \X Message
        BY DEF UpShown, VotesShown
    <2>5. Cardinality(UpShown(a)') <= Cardinality(UpShown(a) \cup {<<u, m>>})
        BY <2>1, <2>4, ShownSmaller
    <2>6. Cardinality(UpShown(a) \cup {<<u, m>>}) <= Cardinality(UpShown(a)) + 1
        BY <2>4, OneVote
    <2>7. /\ UpShown(a)' \subseteq User \X Message
          /\ UpShown(a) \cup {<<u, m>>} \subseteq User \X Message
        BY <2>1, <2>4
    <2>8. /\ Cardinality(UpShown(a)) \in Nat /\ Cardinality(UpShown(a)') \in Nat
          /\ Cardinality(UpShown(a) \cup {<<u, m>>}) \in Nat
        BY <2>4, <2>7, ShownFinite
    <2>9. Cardinality(UpShown(a)') <= votesReceived'[a].up
        BY <1>3, <2>2, <2>5, <2>6, <2>8 DEF Covered
    <2>10. Cardinality(DownShown(a)') <= votesReceived'[a].down
        BY <1>5, <2>3 DEF Covered
    <2> QED BY <2>9, <2>10 DEF Covered
<1> QED BY <1>6, <1>7

LEMMA CoveredByDownVote ==
    ASSUME Inv, NEW a \in Account, Covered(a), NEW u \in User, NEW m \in Message,
           downVoteDiscussionThreadMessage(u, m)
    PROVE  Covered(a)'
<1>1. UNCHANGED createdBy /\ UNCHANGED upVotes
    BY DEF downVoteDiscussionThreadMessage, originVars
<1>2. \A n \in Message : downVotes'[n] = IF n = m THEN downVotes[n] \cup {u} ELSE downVotes[n]
    BY DEF downVoteDiscussionThreadMessage, Inv, TypeOK
<1>3. /\ votesReceived[a] \in [up: Int, down: Int]
      /\ votesReceived \in [Account -> [up: Int, down: Int]]
    BY DEF Inv, TypeOK
<1>4. votesReceived' = [votesReceived EXCEPT ![createdBy[m]].down = @ + 1]
    BY DEF downVoteDiscussionThreadMessage
<1>5. UpShown(a)' = UpShown(a)
    BY <1>1 DEF UpShown, VotesShown
<1>6. CASE createdBy[m] # a
    <2>1. DownShown(a)' \subseteq DownShown(a)
        BY <1>1, <1>2, <1>6 DEF DownShown, VotesShown
    <2>2. votesReceived'[a] = votesReceived[a]
        BY <1>3, <1>4, <1>6
    <2> QED BY <1>5, <2>1, <2>2, CoveredBySubset
<1>7. CASE createdBy[m] = a
    <2>1. DownShown(a)' \subseteq DownShown(a) \cup {<<u, m>>}
        <3> SUFFICES ASSUME NEW x \in DownShown(a)', x \notin DownShown(a)
                     PROVE  x = <<u, m>>
            OBVIOUS
        <3>1. x \in User \X Message /\ createdBy[x[2]] = a /\ x[1] \in downVotes'[x[2]]
            BY <1>1 DEF DownShown, VotesShown
        <3>2. x[1] \notin downVotes[x[2]]
            BY <3>1 DEF DownShown, VotesShown
        <3>3. x[2] = m /\ x[1] = u
            BY <1>2, <3>1, <3>2
        <3> QED BY <3>1, <3>3
    <2>2. votesReceived'[a].down = votesReceived[a].down + 1
        BY <1>3, <1>4, <1>7
    <2>3. votesReceived'[a].up = votesReceived[a].up
        BY <1>3, <1>4, <1>7
    <2>4. DownShown(a) \subseteq User \X Message /\ <<u, m>> \in User \X Message
        BY DEF DownShown, VotesShown
    <2>5. Cardinality(DownShown(a)') <= Cardinality(DownShown(a) \cup {<<u, m>>})
        BY <2>1, <2>4, ShownSmaller
    <2>6. Cardinality(DownShown(a) \cup {<<u, m>>}) <= Cardinality(DownShown(a)) + 1
        BY <2>4, OneVote
    <2>7. /\ DownShown(a)' \subseteq User \X Message
          /\ DownShown(a) \cup {<<u, m>>} \subseteq User \X Message
        BY <2>1, <2>4
    <2>8. /\ Cardinality(DownShown(a)) \in Nat /\ Cardinality(DownShown(a)') \in Nat
          /\ Cardinality(DownShown(a) \cup {<<u, m>>}) \in Nat
        BY <2>4, <2>7, ShownFinite
    <2>9. Cardinality(DownShown(a)') <= votesReceived'[a].down
        BY <1>3, <2>2, <2>5, <2>6, <2>8 DEF Covered
    <2>10. Cardinality(UpShown(a)') <= votesReceived'[a].up
        BY <1>5, <2>3 DEF Covered
    <2> QED BY <2>9, <2>10 DEF Covered
<1> QED BY <1>6, <1>7

\* The vote taken back is one that was shown.
LEMMA CoveredByReset ==
    ASSUME Inv, NEW a \in Account, Covered(a), NEW u \in User, NEW m \in Message,
           resetVoteDiscussionThreadMessage(u, m)
    PROVE  Covered(a)'
<1>1. UNCHANGED createdBy
    BY DEF resetVoteDiscussionThreadMessage, originVars
<1>2. /\ votesReceived[a] \in [up: Int, down: Int]
      /\ votesReceived \in [Account -> [up: Int, down: Int]]
    BY DEF Inv, TypeOK
<1>3. /\ <<u, m>> \in User \X Message
      /\ UpShown(a) \subseteq User \X Message
      /\ DownShown(a) \subseteq User \X Message
    BY DEF UpShown, DownShown, VotesShown
<1>4. CASE u \in upVotes[m]
    <2>1. /\ upVotes' = [upVotes EXCEPT ![m] = @ \ {u}] /\ UNCHANGED downVotes
          /\ votesReceived' = [votesReceived EXCEPT ![createdBy[m]].up = @ - 1]
        BY <1>4 DEF resetVoteDiscussionThreadMessage
    <2>2. \A n \in Message : upVotes'[n] = IF n = m THEN upVotes[n] \ {u} ELSE upVotes[n]
        BY <2>1 DEF Inv, TypeOK
    <2>3. DownShown(a)' = DownShown(a)
        BY <1>1, <2>1 DEF DownShown, VotesShown
    <2>4. CASE createdBy[m] # a
        <3>1. UpShown(a)' \subseteq UpShown(a)
            BY <1>1, <2>2 DEF UpShown, VotesShown
        <3>2. votesReceived'[a] = votesReceived[a]
            BY <1>2, <2>1, <2>4
        <3> QED BY <2>3, <3>1, <3>2, CoveredBySubset
    <2>5. CASE createdBy[m] = a
        <3>1. <<u, m>> \in UpShown(a)
            BY <1>4, <2>5 DEF UpShown, VotesShown
        <3>2. UpShown(a)' \subseteq UpShown(a) \ {<<u, m>>}
            <4> SUFFICES ASSUME NEW x \in UpShown(a)'
                         PROVE  x \in UpShown(a) /\ x # <<u, m>>
                OBVIOUS
            <4>1. x \in User \X Message /\ createdBy[x[2]] = a /\ x[1] \in upVotes'[x[2]]
                BY <1>1 DEF UpShown, VotesShown
            <4>2. x[1] \in upVotes[x[2]] /\ ~(x[2] = m /\ x[1] = u)
                BY <2>2, <4>1
            <4> QED BY <4>1, <4>2 DEF UpShown, VotesShown
        <3>3. votesReceived'[a].up = votesReceived[a].up - 1
            BY <1>2, <2>1, <2>5
        <3>4. votesReceived'[a].down = votesReceived[a].down
            BY <1>2, <2>1, <2>5
        <3>5. Cardinality(UpShown(a)') <= Cardinality(UpShown(a) \ {<<u, m>>})
            BY <1>3, <3>2, ShownSmaller
        <3>6. Cardinality(UpShown(a) \ {<<u, m>>}) = Cardinality(UpShown(a)) - 1
            BY <1>3, <3>1, OneVote
        <3>7. UpShown(a)' \subseteq User \X Message
            BY <1>3, <3>2
        <3>8. Cardinality(UpShown(a)) \in Nat /\ Cardinality(UpShown(a)') \in Nat
            BY <1>3, <3>7, ShownFinite
        <3>9. Cardinality(UpShown(a)') <= votesReceived'[a].up
            BY <1>2, <3>3, <3>5, <3>6, <3>8 DEF Covered
        <3>10. Cardinality(DownShown(a)') <= votesReceived'[a].down
            BY <2>3, <3>4 DEF Covered
        <3> QED BY <3>9, <3>10 DEF Covered
    <2> QED BY <2>4, <2>5
<1>5. CASE u \notin upVotes[m]
    <2>1. /\ downVotes' = [downVotes EXCEPT ![m] = @ \ {u}] /\ UNCHANGED upVotes
          /\ votesReceived' = [votesReceived EXCEPT ![createdBy[m]].down = @ - 1]
          /\ u \in downVotes[m]
        BY <1>5 DEF resetVoteDiscussionThreadMessage, hasVoted
    <2>2. \A n \in Message : downVotes'[n] = IF n = m THEN downVotes[n] \ {u} ELSE downVotes[n]
        BY <2>1 DEF Inv, TypeOK
    <2>3. UpShown(a)' = UpShown(a)
        BY <1>1, <2>1 DEF UpShown, VotesShown
    <2>4. CASE createdBy[m] # a
        <3>1. DownShown(a)' \subseteq DownShown(a)
            BY <1>1, <2>2 DEF DownShown, VotesShown
        <3>2. votesReceived'[a] = votesReceived[a]
            BY <1>2, <2>1, <2>4
        <3> QED BY <2>3, <3>1, <3>2, CoveredBySubset
    <2>5. CASE createdBy[m] = a
        <3>1. <<u, m>> \in DownShown(a)
            BY <2>1, <2>5 DEF DownShown, VotesShown
        <3>2. DownShown(a)' \subseteq DownShown(a) \ {<<u, m>>}
            <4> SUFFICES ASSUME NEW x \in DownShown(a)'
                         PROVE  x \in DownShown(a) /\ x # <<u, m>>
                OBVIOUS
            <4>1. x \in User \X Message /\ createdBy[x[2]] = a /\ x[1] \in downVotes'[x[2]]
                BY <1>1 DEF DownShown, VotesShown
            <4>2. x[1] \in downVotes[x[2]] /\ ~(x[2] = m /\ x[1] = u)
                BY <2>2, <4>1
            <4> QED BY <4>1, <4>2 DEF DownShown, VotesShown
        <3>3. votesReceived'[a].down = votesReceived[a].down - 1
            BY <1>2, <2>1, <2>5
        <3>4. votesReceived'[a].up = votesReceived[a].up
            BY <1>2, <2>1, <2>5
        <3>5. Cardinality(DownShown(a)') <= Cardinality(DownShown(a) \ {<<u, m>>})
            BY <1>3, <3>2, ShownSmaller
        <3>6. Cardinality(DownShown(a) \ {<<u, m>>}) = Cardinality(DownShown(a)) - 1
            BY <1>3, <3>1, OneVote
        <3>7. DownShown(a)' \subseteq User \X Message
            BY <1>3, <3>2
        <3>8. Cardinality(DownShown(a)) \in Nat /\ Cardinality(DownShown(a)') \in Nat
            BY <1>3, <3>7, ShownFinite
        <3>9. Cardinality(DownShown(a)') <= votesReceived'[a].down
            BY <1>2, <3>3, <3>5, <3>6, <3>8 DEF Covered
        <3>10. Cardinality(UpShown(a)') <= votesReceived'[a].up
            BY <2>3, <3>4 DEF Covered
        <3> QED BY <3>9, <3>10 DEF Covered
    <2> QED BY <2>4, <2>5
<1> QED BY <1>4, <1>5

LEMMA CoverInit == Init => \A a \in Account : Covered(a)
<1> SUFFICES ASSUME Init, NEW a \in Account PROVE Covered(a)
    OBVIOUS
<1>1. UpShown(a) = {} /\ DownShown(a) = {}
    BY DEF Init, UpShown, DownShown, VotesShown
<1>2. votesReceived[a].up = 0 /\ votesReceived[a].down = 0
    BY DEF Init, None
<1>3. Cardinality({}) = 0
    BY FS_EmptySet
<1>4. Cardinality(UpShown(a)) <= 0 /\ Cardinality(DownShown(a)) <= 0
    BY <1>1, <1>3
<1> QED BY <1>2, <1>4 DEF Covered

LEMMA CoverStep ==
    ASSUME Inv, Inv', [Next]_vars, NEW a \in Account, Covered(a)
    PROVE  Covered(a)'
<1>1. ASSUME UNCHANGED voteVars, UNCHANGED createdBy PROVE Covered(a)'
    BY <1>1, CoveredUnchanged
<1>2. ASSUME UNCHANGED voteVars, NEW x \in Content, NEW y, x \notin live \/ x \in Thread,
             createdBy' = [createdBy EXCEPT ![x] = y]
      PROVE  Covered(a)'
    <2>1. \A m \in Message : m \in live => m # x
        BY <1>2, Kinds
    <2>2. \A m \in Message : m # x => createdBy'[m] = createdBy[m]
        BY <1>2 DEF Inv, TypeOK, Content
    <2> QED BY <1>2, <2>1, <2>2, CoveredUnchanged
<1>3. CASE UNCHANGED vars
    BY <1>1, <1>3 DEF vars, originVars
<1>4. CASE UserNext
    <2>1. ASSUME NEW u \in User, addNewUser(u) PROVE Covered(a)'
        BY <1>1, <2>1 DEF addNewUser, originVars
    <2>2. ASSUME NEW u \in User, deleteUser(u) PROVE Covered(a)'
        BY <2>2, CoveredByRelease DEF deleteUser
    <2> QED BY <1>4, <2>1, <2>2 DEF UserNext
<1>5. CASE ThreadNext
    <2>1. ASSUME NEW u \in Account, NEW t \in Thread, addNewDiscussionThread(u, t)
          PROVE  Covered(a)'
        BY <1>2, <2>1 DEF addNewDiscussionThread, Content
    <2>2. ASSUME NEW t \in Thread, deleteDiscussionThread(t) PROVE Covered(a)'
        BY <2>2, CoveredByRelease DEF deleteDiscussionThread
    <2>3. ASSUME NEW from \in Thread, NEW into \in Thread, mergeDiscussionThreads(from, into)
          PROVE  Covered(a)'
        BY <1>2, <2>3 DEF mergeDiscussionThreads, Content
    <2>4. ASSUME NEW u \in User, NEW t \in Thread,
                 subscribeToDiscussionThread(u, t) \/ unsubscribeFromDiscussionThread(u, t)
          PROVE  Covered(a)'
        BY <1>1, <2>4 DEF subscribeToDiscussionThread, unsubscribeFromDiscussionThread, originVars
    <2> QED BY <1>5, <2>1, <2>2, <2>3, <2>4 DEF ThreadNext
<1>6. CASE MessageNext
    <2>1. ASSUME NEW u \in Account, NEW m \in Message, NEW t \in Thread,
                 addNewDiscussionMessageInThread(u, m, t)
          PROVE  Covered(a)'
        BY <1>2, <2>1 DEF addNewDiscussionMessageInThread, Content
    <2>2. ASSUME NEW m \in Message, deleteDiscussionMessage(m) PROVE Covered(a)'
        BY <2>2, CoveredByRelease DEF deleteDiscussionMessage
    <2>3. ASSUME NEW m \in Message, NEW t \in Thread, moveDiscussionThreadMessage(m, t)
          PROVE  Covered(a)'
        BY <1>1, <2>3 DEF moveDiscussionThreadMessage
    <2> QED BY <1>6, <2>1, <2>2, <2>3, CoveredByUpVote, CoveredByDownVote, CoveredByReset
            DEF MessageNext
<1>7. CASE OtherNext
    <2>1. ASSUME NEW u \in Account, NEW c \in Comment, NEW m \in Message,
                 addCommentToDiscussionThreadMessage(u, c, m)
          PROVE  Covered(a)'
        BY <1>2, <2>1 DEF addCommentToDiscussionThreadMessage, Content
    <2>2. ASSUME NEW c \in Comment, setMessageCommentToSolved(c) PROVE Covered(a)'
        BY <1>1, <2>2 DEF setMessageCommentToSolved, originVars
    <2>3. ASSUME NEW u \in Account, NEW p \in PrivateMessage, NEW to \in User,
                 sendPrivateMessage(u, p, to)
          PROVE  Covered(a)'
        BY <1>1, <2>3 DEF sendPrivateMessage
    <2>4. ASSUME NEW u \in Account, NEW p \in PrivateMessage, deletePrivateMessage(u, p)
          PROVE  Covered(a)'
        BY <2>4, CoveredByRelease DEF deletePrivateMessage
    <2>5. ASSUME NEW u \in User, NEW f \in Attachment, addNewAttachment(u, f)
          PROVE  Covered(a)'
        BY <1>2, <2>5 DEF addNewAttachment, Content
    <2>6. ASSUME NEW f \in Attachment, deleteAttachment(f) PROVE Covered(a)'
        BY <2>6, CoveredByRelease DEF deleteAttachment
    <2>7. ASSUME NEW f \in Attachment, NEW m \in Message,
                 \/ addAttachmentToDiscussionThreadMessage(f, m)
                 \/ removeAttachmentFromDiscussionThreadMessage(f, m)
          PROVE  Covered(a)'
        BY <1>1, <2>7 DEF addAttachmentToDiscussionThreadMessage,
                          removeAttachmentFromDiscussionThreadMessage, originVars
    <2> QED BY <1>7, <2>1, <2>2, <2>3, <2>4, <2>5, <2>6, <2>7 DEF OtherNext
<1> QED BY <1>3, <1>4, <1>5, <1>6, <1>7 DEF Next

\* The statistics of votes received cover the votes on the messages of the
\* user at any time; taking votes back never brings them below 0.
THEOREM VotesReceivedTheorem == Spec => []VotesReceivedCoverVotesShown
<1> DEFINE Cover == \A a \in Account : Covered(a)
<1>1. Init => Cover
    BY CoverInit
<1>2. Inv /\ Inv' /\ Cover /\ [Next]_vars => Cover'
    BY CoverStep
<1>3. Cover => VotesReceivedCoverVotesShown
    BY DEF VotesReceivedCoverVotesShown, Covered, UpShown, DownShown
<1> HIDE DEF Cover
<1> QED BY <1>1, <1>2, <1>3, InvAlways, PTL DEF Spec
=============================================================================
