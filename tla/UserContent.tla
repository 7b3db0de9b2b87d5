----------------------------- MODULE UserContent -----------------------------
(***************************************************************************)
(* Users and what they leave in a forum: threads, messages, votes,         *)
(* comments, subscriptions, private messages and attachments, as           *)
(* EntityCollection keeps them.  Every entity is reachable from several    *)
(* others through plain pointers, and deleting one follows the pointers of *)
(* that entity to find the others that mention it.  A pointer that is not  *)
(* found this way dangles, and since entities live in object pools, it may *)
(* later point to an entity created in the same slot.  Hence the entities  *)
(* of this module are slots.                                               *)
(*                                                                         *)
(* A command runs under the write lock and is one action.  Deletions are   *)
(* closed formulas (Release): each says which pointers are followed, and   *)
(* reads the state before the command, which is enough because no step of  *)
(* a cascade adds a pointer.  Tags and categories are in DiscussionGraph.  *)
(***************************************************************************)
EXTENDS Integers, FiniteSets

CONSTANTS
    User, Thread, Message, Comment, PrivateMessage, Attachment,  \* slots
    Anonymous,      \* the user of requests without authentication
    Null,           \* what the pointers of a free slot hold
    Policies,       \* what authorization may permit
    MaxVotes        \* bound of the model: votes a user has received

Account == User \cup {Anonymous}
Content == Thread \cup Message \cup Comment \cup Attachment
Slot == User \cup Content \cup PrivateMessage

Command ==
    {"deleteThread", "deleteMessage", "move", "merge", "subscribe", "vote",
     "resetVote", "comment", "send", "attach", "anonymous"}

\* The permitted commands ("anonymous": posting without authentication), and
\* as a bound of the model, how many threads and messages exist at a time.
Policy == [commands: SUBSET Command, threads: Nat, messages: Nat]

ASSUME SlotAssumption ==
    \A S \in {User, Thread, Message, Comment, PrivateMessage, Attachment} :
        IsFiniteSet(S) /\ Anonymous \notin S /\ Null \notin S
ASSUME NullAssumption == Null # Anonymous
ASSUME DisjointAssumption ==
    /\ User \cap Content = {} /\ PrivateMessage \cap (User \cup Content) = {}
    /\ Thread \cap Message = {} /\ Thread \cap Comment = {}
    /\ Thread \cap Attachment = {} /\ Message \cap Comment = {}
    /\ Message \cap Attachment = {} /\ Comment \cap Attachment = {}
ASSUME PoliciesAssumption == Policies \subseteq Policy
ASSUME MaxVotesAssumption == MaxVotes \in Nat

VARIABLES
    policy,         \* what authorization permits, besides adding users,
                    \* threads and messages and deleting users; never changes
    live,           \* the entities in the collections of EntityCollection
    createdBy,      \* createdBy[x]: the author of a content entity
    parentThread,   \* parentThread[m]: DiscussionThreadMessage::parentThread_
    parentMessage,  \* parentMessage[c]: MessageComment::message_
    solved,         \* the comments with MessageComment::solved_
    parties,        \* parties[p]: PrivateMessage::source_ and destination_
    owned,          \* owned[u]: the four collections threads_,
                    \* threadMessages_, messageComments_ and attachments_
    subscribedThreads,      \* User::subscribedThreads_
    votedMessages,          \* User::votedMessages_
    received,               \* User::receivedPrivateMessages_
    sent,                   \* User::sentPrivateMessages_
    votesReceived,          \* User::receivedUpVotes_, receivedDownVotes_
    messages,               \* DiscussionThread::messages_
    subscribedUsers,        \* DiscussionThread::subscribedUsers_
    upVotes, downVotes,     \* DiscussionThreadMessage::upVotes_, downVotes_
    comments,               \* DiscussionThreadMessage::comments_
    solvedCommentsCount,    \* DiscussionThreadMessage::solvedCommentsCount_
    attachments,            \* DiscussionThreadMessage::attachments_
    attachedTo              \* Attachment::messages_

originVars == <<createdBy, parentThread, parentMessage, parties>>
voteVars == <<votedMessages, votesReceived, upVotes, downVotes>>
commentVars == <<solved, comments, solvedCommentsCount>>
mailVars == <<received, sent>>
subscriptionVars == <<subscribedThreads, subscribedUsers>>
attachmentVars == <<attachments, attachedTo>>
vars == <<policy, live, originVars, owned, messages, voteVars, commentVars,
          mailVars, subscriptionVars, attachmentVars>>

Unset == [source |-> Null, destination |-> Null]
None == [up |-> 0, down |-> 0]

TypeOK ==
    /\ policy \in Policies
    /\ live \subseteq Slot
    /\ createdBy \in [Content -> Account \cup {Null}]
    /\ parentThread \in [Message -> Thread \cup {Null}]
    /\ parentMessage \in [Comment -> Message \cup {Null}]
    /\ solved \subseteq Comment
    /\ parties \in [PrivateMessage ->
            [source: Account \cup {Null}, destination: User \cup {Null}]]
    /\ owned \in [Account -> SUBSET Content]
    /\ subscribedThreads \in [Account -> SUBSET Thread]
    /\ votedMessages \in [Account -> SUBSET Message]
    /\ received \in [Account -> SUBSET PrivateMessage]
    /\ sent \in [Account -> SUBSET PrivateMessage]
    /\ votesReceived \in [Account -> [up: Int, down: Int]]
    /\ messages \in [Thread -> SUBSET Message]
    /\ subscribedUsers \in [Thread -> SUBSET User]
    /\ upVotes \in [Message -> SUBSET User]
    /\ downVotes \in [Message -> SUBSET User]
    /\ comments \in [Message -> SUBSET Comment]
    /\ solvedCommentsCount \in [Message -> Int]
    /\ attachments \in [Message -> SUBSET Attachment]
    /\ attachedTo \in [Attachment -> SUBSET Message]

\* An empty forum.  The fields of a free slot have the values that a new
\* entity starts with.
Init ==
    /\ policy \in Policies
    /\ live = {} /\ solved = {}
    /\ createdBy = [x \in Content |-> Null]
    /\ parentThread = [m \in Message |-> Null]
    /\ parentMessage = [c \in Comment |-> Null]
    /\ parties = [p \in PrivateMessage |-> Unset]
    /\ owned = [u \in Account |-> {}]
    /\ subscribedThreads = [u \in Account |-> {}]
    /\ votedMessages = [u \in Account |-> {}]
    /\ received = [u \in Account |-> {}]
    /\ sent = [u \in Account |-> {}]
    /\ votesReceived = [u \in Account |-> None]
    /\ messages = [t \in Thread |-> {}]
    /\ subscribedUsers = [t \in Thread |-> {}]
    /\ upVotes = [m \in Message |-> {}] /\ downVotes = [m \in Message |-> {}]
    /\ comments = [m \in Message |-> {}]
    /\ solvedCommentsCount = [m \in Message |-> 0]
    /\ attachments = [m \in Message |-> {}]
    /\ attachedTo = [a \in Attachment |-> {}]

-----------------------------------------------------------------------------
(* Deletion: the entities of gone leave their collections; then, from each *)
(* of them, the pointers to the entities that mention it are followed.     *)

ReleaseContent(gone) ==
    /\ live' = live \ gone
    /\ createdBy' = [x \in Content |-> IF x \in gone THEN Null ELSE createdBy[x]]
    /\ owned' = [u \in Account |->
           IF u \in gone THEN {}
           ELSE owned[u] \ {x \in gone \cap Content : createdBy[x] = u}]

ReleaseMessages(gone) ==
    /\ parentThread' =
           [m \in Message |-> IF m \in gone THEN Null ELSE parentThread[m]]
    /\ messages' = [t \in Thread |->
           IF t \in gone THEN {}
           ELSE messages[t] \ {m \in gone \cap Message : parentThread[m] = t}]

\* Mutant: the votes of a deleted user stay on the messages.
MutantReleaseVotes(gone) ==
    /\ upVotes' = [m \in Message |-> IF m \in gone THEN {} ELSE upVotes[m]]
    /\ downVotes' = [m \in Message |-> IF m \in gone THEN {} ELSE downVotes[m]]
    /\ votedMessages' = [u \in Account |->
           IF u \in gone THEN {}
           ELSE votedMessages[u] \ {m \in gone \cap Message :
                                        u \in upVotes[m] \cup downVotes[m]}]
    /\ votesReceived' = [u \in Account |->
           IF u \in gone THEN None ELSE votesReceived[u]]

\* The message is told about its voters by User::votedMessages_, the voters
\* about the message by upVotes_ and downVotes_; the author is not told.
ReleaseVotes(gone) ==
    LET Votes(m) == {u \in gone \cap User : m \in votedMessages[u]}
    IN  /\ upVotes' = [m \in Message |->
               IF m \in gone THEN {} ELSE upVotes[m] \ Votes(m)]
        /\ downVotes' = [m \in Message |->
               IF m \in gone THEN {}
               ELSE downVotes[m] \ (Votes(m) \ upVotes[m])]
        /\ votedMessages' = [u \in Account |->
               IF u \in gone THEN {}
               ELSE votedMessages[u] \ {m \in gone \cap Message :
                                            u \in upVotes[m] \cup downVotes[m]}]
        /\ votesReceived' = [u \in Account |->
               IF u \in gone THEN None ELSE votesReceived[u]]

\* The comments of a deleted user on message m.
Withdrawn(gone, m) ==
    {c \in Comment : /\ parentMessage[c] = m
                     /\ \E u \in gone \cap User : c \in owned[u]}

\* Mutant: the count is lowered without asking whether the comment is solved.
MutantReleaseUnsolved(gone) ==
    /\ solved' = solved \ gone
    /\ parentMessage' =
           [c \in Comment |-> IF c \in gone THEN Null ELSE parentMessage[c]]
    /\ comments' = [m \in Message |->
           IF m \in gone THEN {} ELSE comments[m] \ Withdrawn(gone, m)]
    /\ solvedCommentsCount' = [m \in Message |->
           IF m \in gone THEN 0
           ELSE solvedCommentsCount[m] - Cardinality(Withdrawn(gone, m))]

ReleaseComments(gone) ==
    /\ solved' = solved \ gone
    /\ parentMessage' =
           [c \in Comment |-> IF c \in gone THEN Null ELSE parentMessage[c]]
    /\ comments' = [m \in Message |->
           IF m \in gone THEN {} ELSE comments[m] \ Withdrawn(gone, m)]
    /\ solvedCommentsCount' = [m \in Message |->
           IF m \in gone THEN 0
           ELSE solvedCommentsCount[m]
                - Cardinality(Withdrawn(gone, m) \cap solved)]

ReleaseSubscriptions(gone) ==
    /\ subscribedUsers' = [t \in Thread |->
           IF t \in gone THEN {}
           ELSE subscribedUsers[t]
                \ {u \in gone \cap User : t \in subscribedThreads[u]}]
    /\ subscribedThreads' = [u \in Account |->
           IF u \in gone THEN {}
           ELSE subscribedThreads[u]
                \ {t \in gone \cap Thread : u \in subscribedUsers[t]}]

ReleaseMail(gone) ==
    LET letters == gone \cap PrivateMessage
    IN  /\ sent' = [u \in Account |->
               IF u \in gone THEN {}
               ELSE sent[u] \ {p \in letters : parties[p].source = u}]
        /\ received' = [u \in Account |->
               IF u \in gone THEN {}
               ELSE received[u] \ {p \in letters : parties[p].destination = u}]
        /\ parties' = [p \in PrivateMessage |->
               IF p \in gone THEN Unset ELSE parties[p]]

ReleaseAttachments(gone) ==
    /\ attachments' = [m \in Message |->
           IF m \in gone THEN {}
           ELSE attachments[m]
                \ {a \in gone \cap Attachment : m \in attachedTo[a]}]
    /\ attachedTo' = [a \in Attachment |->
           IF a \in gone THEN {}
           ELSE attachedTo[a]
                \ {m \in gone \cap Message : a \in attachments[m]}]

\* Only what is still in its collection is deleted.
Release(entities) ==
    LET gone == entities \cap live
    IN  /\ ReleaseContent(gone) /\ ReleaseMessages(gone)
        /\ ReleaseVotes(gone) /\ ReleaseComments(gone)
        /\ ReleaseSubscriptions(gone) /\ ReleaseMail(gone)
        /\ ReleaseAttachments(gone)
        /\ UNCHANGED policy

WithComments(ms) == ms \cup UNION {comments[m] : m \in ms}

WithMessages(ts) == ts \cup UNION {WithComments(messages[t]) : t \in ts}

\* Comments of the user are taken from their messages first, so they are not
\* deleted together with the message: they stay in the global collection.
Belongings(u) ==
    LET ts == owned[u] \cap Thread
        ms == owned[u] \cap Message
    IN  ((WithMessages(ts) \cup WithComments(ms)) \ (owned[u] \cap Comment))
        \cup received[u] \cup sent[u] \cup (owned[u] \cap Attachment)

-----------------------------------------------------------------------------
(* Commands.                                                               *)

\* The users that exist, and those who may post.
Visitor == (live \cap User) \cup {Anonymous}
Poster == {u \in Visitor : u = Anonymous => "anonymous" \in policy.commands}

addNewUser(u) ==
    /\ u \notin live
    /\ live' = live \cup {u}
    /\ UNCHANGED <<policy, originVars, owned, messages, voteVars,
                   commentVars, mailVars, subscriptionVars, attachmentVars>>

deleteUser(u) ==
    /\ u \in live
    /\ Release({u} \cup Belongings(u))

addNewDiscussionThread(u, t) ==
    /\ u \in Poster /\ t \notin live
    /\ Cardinality(live \cap Thread) < policy.threads
    /\ live' = live \cup {t}
    /\ createdBy' = [createdBy EXCEPT ![t] = u]
    /\ owned' = [owned EXCEPT ![u] = @ \cup {t}]
    /\ UNCHANGED <<policy, parentThread, parentMessage, parties, messages,
                   voteVars, commentVars, mailVars, subscriptionVars,
                   attachmentVars>>

deleteDiscussionThread(t) ==
    /\ "deleteThread" \in policy.commands
    /\ t \in live
    /\ Release(WithMessages({t}))

\* The author follows the thread from now on; the anonymous user is entered
\* on its own side only.
addNewDiscussionMessageInThread(u, m, t) ==
    /\ u \in Poster /\ m \notin live /\ t \in live
    /\ Cardinality(live \cap Message) < policy.messages
    /\ live' = live \cup {m}
    /\ createdBy' = [createdBy EXCEPT ![m] = u]
    /\ parentThread' = [parentThread EXCEPT ![m] = t]
    /\ owned' = [owned EXCEPT ![u] = @ \cup {m}]
    /\ messages' = [messages EXCEPT ![t] = @ \cup {m}]
    /\ subscribedUsers' =
           [subscribedUsers EXCEPT ![t] = @ \cup ({u} \ {Anonymous})]
    /\ subscribedThreads' = [subscribedThreads EXCEPT ![u] = @ \cup {t}]
    /\ UNCHANGED <<policy, parentMessage, parties, voteVars, commentVars,
                   mailVars, attachmentVars>>

deleteDiscussionMessage(m) ==
    /\ "deleteMessage" \in policy.commands
    /\ m \in live
    /\ Release(WithComments({m}))

moveDiscussionThreadMessage(m, into) ==
    /\ "move" \in policy.commands
    /\ m \in live /\ into \in live /\ parentThread[m] # into
    /\ messages' = [messages EXCEPT ![into] = @ \cup {m},
                                    ![parentThread[m]] = @ \ {m}]
    /\ parentThread' = [parentThread EXCEPT ![m] = into]
    /\ UNCHANGED <<policy, live, createdBy, parentMessage, parties, owned,
                   voteVars, commentVars, mailVars, subscriptionVars,
                   attachmentVars>>

\* Mutant: the users are not told of the thread they now follow.
MutantMergeForgetsUsers(from, into) ==
    LET followers == subscribedUsers[from]
    IN  /\ "merge" \in policy.commands
        /\ from # into /\ from \in live /\ into \in live
        /\ live' = live \ {from}
        /\ createdBy' = [createdBy EXCEPT ![from] = Null]
        /\ owned' = [owned EXCEPT ![createdBy[from]] = @ \ {from}]
        /\ parentThread' = [m \in Message |->
               IF m \in messages[from] THEN into ELSE parentThread[m]]
        /\ messages' = [messages EXCEPT ![into] = @ \cup messages[from],
                                        ![from] = {}]
        /\ subscribedUsers' = [subscribedUsers EXCEPT
                                   ![into] = @ \cup followers, ![from] = {}]
        /\ subscribedThreads' = [u \in Account |->
               IF u \in followers
               THEN subscribedThreads[u] \ {from}
               ELSE subscribedThreads[u]]
        /\ UNCHANGED <<policy, parentMessage, parties, voteVars, commentVars,
                       mailVars, attachmentVars>>

\* Messages and subscriptions go to the other thread before the thread is
\* deleted without its messages.
mergeDiscussionThreads(from, into) ==
    LET followers == subscribedUsers[from]
    IN  /\ "merge" \in policy.commands
        /\ from # into /\ from \in live /\ into \in live
        /\ live' = live \ {from}
        /\ createdBy' = [createdBy EXCEPT ![from] = Null]
        /\ owned' = [owned EXCEPT ![createdBy[from]] = @ \ {from}]
        /\ parentThread' = [m \in Message |->
               IF m \in messages[from] THEN into ELSE parentThread[m]]
        /\ messages' = [messages EXCEPT ![into] = @ \cup messages[from],
                                        ![from] = {}]
        /\ subscribedUsers' = [subscribedUsers EXCEPT
                                   ![into] = @ \cup followers, ![from] = {}]
        /\ subscribedThreads' = [u \in Account |->
               IF u \in followers
               THEN (subscribedThreads[u] \cup {into}) \ {from}
               ELSE subscribedThreads[u]]
        /\ UNCHANGED <<policy, parentMessage, parties, voteVars, commentVars,
                       mailVars, attachmentVars>>

subscribeToDiscussionThread(u, t) ==
    /\ "subscribe" \in policy.commands
    /\ u \in live /\ t \in live /\ u \notin subscribedUsers[t]
    /\ subscribedUsers' = [subscribedUsers EXCEPT ![t] = @ \cup {u}]
    /\ subscribedThreads' = [subscribedThreads EXCEPT ![u] = @ \cup {t}]
    /\ UNCHANGED <<policy, live, originVars, owned, messages, voteVars,
                   commentVars, mailVars, attachmentVars>>

unsubscribeFromDiscussionThread(u, t) ==
    /\ "subscribe" \in policy.commands
    /\ u \in live /\ t \in live /\ u \in subscribedUsers[t]
    /\ subscribedUsers' = [subscribedUsers EXCEPT ![t] = @ \ {u}]
    /\ subscribedThreads' = [subscribedThreads EXCEPT ![u] = @ \ {t}]
    /\ UNCHANGED <<policy, live, originVars, owned, messages, voteVars,
                   commentVars, mailVars, attachmentVars>>

-----------------------------------------------------------------------------
(* Votes.                                                                  *)

hasVoted(u, m) == u \in upVotes[m] \cup downVotes[m]

MayVote(u, m) == u \in live /\ m \in live /\ createdBy[m] # u

upVoteDiscussionThreadMessage(u, m) ==
    /\ "vote" \in policy.commands
    /\ MayVote(u, m) /\ ~hasVoted(u, m)
    /\ votesReceived[createdBy[m]].up < MaxVotes
    /\ votedMessages' = [votedMessages EXCEPT ![u] = @ \cup {m}]
    /\ upVotes' = [upVotes EXCEPT ![m] = @ \cup {u}]
    /\ votesReceived' = [votesReceived EXCEPT ![createdBy[m]].up = @ + 1]
    /\ UNCHANGED <<policy, live, originVars, owned, messages, downVotes,
                   commentVars, mailVars, subscriptionVars, attachmentVars>>

downVoteDiscussionThreadMessage(u, m) ==
    /\ "vote" \in policy.commands
    /\ MayVote(u, m) /\ ~hasVoted(u, m)
    /\ votesReceived[createdBy[m]].down < MaxVotes
    /\ votedMessages' = [votedMessages EXCEPT ![u] = @ \cup {m}]
    /\ downVotes' = [downVotes EXCEPT ![m] = @ \cup {u}]
    /\ votesReceived' = [votesReceived EXCEPT ![createdBy[m]].down = @ + 1]
    /\ UNCHANGED <<policy, live, originVars, owned, messages, upVotes,
                   commentVars, mailVars, subscriptionVars, attachmentVars>>

\* Mutant: the kind of the vote is not looked at.
MutantResetVote(u, m) ==
    /\ "resetVote" \in policy.commands
    /\ MayVote(u, m) /\ hasVoted(u, m)
    /\ upVotes' = [upVotes EXCEPT ![m] = @ \ {u}]
    /\ downVotes' = [downVotes EXCEPT ![m] = @ \ {u}]
    /\ votesReceived' = [votesReceived EXCEPT ![createdBy[m]].up = @ - 1]
    /\ UNCHANGED <<policy, live, originVars, owned, messages, votedMessages,
                   commentVars, mailVars, subscriptionVars, attachmentVars>>

\* The message stays among the voted messages of the user.
resetVoteDiscussionThreadMessage(u, m) ==
    /\ "resetVote" \in policy.commands
    /\ MayVote(u, m) /\ hasVoted(u, m)
    /\ IF u \in upVotes[m]
       THEN /\ upVotes' = [upVotes EXCEPT ![m] = @ \ {u}]
            /\ votesReceived' = [votesReceived EXCEPT ![createdBy[m]].up = @ - 1]
            /\ UNCHANGED downVotes
       ELSE /\ downVotes' = [downVotes EXCEPT ![m] = @ \ {u}]
            /\ votesReceived' = [votesReceived EXCEPT ![createdBy[m]].down = @ - 1]
            /\ UNCHANGED upVotes
    /\ UNCHANGED <<policy, live, originVars, owned, messages, votedMessages,
                   commentVars, mailVars, subscriptionVars, attachmentVars>>

-----------------------------------------------------------------------------
(* Comments, private messages and attachments.                             *)

addCommentToDiscussionThreadMessage(u, c, m) ==
    /\ "comment" \in policy.commands
    /\ u \in Poster /\ c \notin live /\ m \in live
    /\ live' = live \cup {c}
    /\ createdBy' = [createdBy EXCEPT ![c] = u]
    /\ parentMessage' = [parentMessage EXCEPT ![c] = m]
    /\ owned' = [owned EXCEPT ![u] = @ \cup {c}]
    /\ comments' = [comments EXCEPT ![m] = @ \cup {c}]
    /\ UNCHANGED <<policy, parentThread, parties, messages, voteVars, solved,
                   solvedCommentsCount, mailVars, subscriptionVars,
                   attachmentVars>>

\* A comment whose author was deleted can still be solved.  If its message is
\* gone too, the count lies in a free slot and starts from 0 when the slot is
\* used again.
setMessageCommentToSolved(c) ==
    /\ "comment" \in policy.commands
    /\ live \cap User # {} /\ c \in live /\ c \notin solved
    /\ solved' = solved \cup {c}
    /\ solvedCommentsCount' = [m \in Message |->
           IF m = parentMessage[c] /\ m \in live
           THEN solvedCommentsCount[m] + 1 ELSE solvedCommentsCount[m]]
    /\ UNCHANGED <<policy, live, originVars, owned, messages, voteVars,
                   comments, mailVars, subscriptionVars, attachmentVars>>

sendPrivateMessage(u, p, to) ==
    /\ "send" \in policy.commands
    /\ u \in Poster /\ p \notin live /\ to \in live /\ u # to
    /\ live' = live \cup {p}
    /\ parties' = [parties EXCEPT ![p] = [source |-> u, destination |-> to]]
    /\ sent' = [sent EXCEPT ![u] = @ \cup {p}]
    /\ received' = [received EXCEPT ![to] = @ \cup {p}]
    /\ UNCHANGED <<policy, createdBy, parentThread, parentMessage, owned,
                   messages, voteVars, commentVars, subscriptionVars,
                   attachmentVars>>

deletePrivateMessage(u, p) ==
    /\ "send" \in policy.commands
    /\ u \in Poster /\ p \in live
    /\ u \in {parties[p].source, parties[p].destination}
    /\ Release({p})

addNewAttachment(u, a) ==
    /\ "attach" \in policy.commands
    /\ u \in live /\ a \notin live
    /\ live' = live \cup {a}
    /\ createdBy' = [createdBy EXCEPT ![a] = u]
    /\ owned' = [owned EXCEPT ![u] = @ \cup {a}]
    /\ UNCHANGED <<policy, parentThread, parentMessage, parties, messages,
                   voteVars, commentVars, mailVars, subscriptionVars,
                   attachmentVars>>

deleteAttachment(a) ==
    /\ "attach" \in policy.commands
    /\ a \in live
    /\ Release({a})

addAttachmentToDiscussionThreadMessage(a, m) ==
    /\ "attach" \in policy.commands
    /\ a \in live /\ m \in live /\ m \notin attachedTo[a]
    /\ attachedTo' = [attachedTo EXCEPT ![a] = @ \cup {m}]
    /\ attachments' = [attachments EXCEPT ![m] = @ \cup {a}]
    /\ UNCHANGED <<policy, live, originVars, owned, messages, voteVars,
                   commentVars, mailVars, subscriptionVars>>

removeAttachmentFromDiscussionThreadMessage(a, m) ==
    /\ "attach" \in policy.commands
    /\ a \in live /\ m \in live /\ m \in attachedTo[a]
    /\ attachedTo' = [attachedTo EXCEPT ![a] = @ \ {m}]
    /\ attachments' = [attachments EXCEPT ![m] = @ \ {a}]
    /\ UNCHANGED <<policy, live, originVars, owned, messages, voteVars,
                   commentVars, mailVars, subscriptionVars>>

-----------------------------------------------------------------------------
UserNext ==
    \E u \in User : addNewUser(u) \/ deleteUser(u)

ThreadNext ==
    \/ \E u \in Account, t \in Thread : addNewDiscussionThread(u, t)
    \/ \E t \in Thread : deleteDiscussionThread(t)
    \/ \E from, into \in Thread : mergeDiscussionThreads(from, into)
    \/ \E u \in User, t \in Thread : subscribeToDiscussionThread(u, t)
    \/ \E u \in User, t \in Thread : unsubscribeFromDiscussionThread(u, t)

MessageNext ==
    \/ \E u \in Account, m \in Message, t \in Thread :
           addNewDiscussionMessageInThread(u, m, t)
    \/ \E m \in Message : deleteDiscussionMessage(m)
    \/ \E m \in Message, t \in Thread : moveDiscussionThreadMessage(m, t)
    \/ \E u \in User, m \in Message : upVoteDiscussionThreadMessage(u, m)
    \/ \E u \in User, m \in Message : downVoteDiscussionThreadMessage(u, m)
    \/ \E u \in User, m \in Message : resetVoteDiscussionThreadMessage(u, m)

OtherNext ==
    \/ \E u \in Account, c \in Comment, m \in Message :
           addCommentToDiscussionThreadMessage(u, c, m)
    \/ \E c \in Comment : setMessageCommentToSolved(c)
    \/ \E u \in Account, p \in PrivateMessage, to \in User :
           sendPrivateMessage(u, p, to)
    \/ \E u \in Account, p \in PrivateMessage : deletePrivateMessage(u, p)
    \/ \E u \in User, a \in Attachment : addNewAttachment(u, a)
    \/ \E a \in Attachment : deleteAttachment(a)
    \/ \E a \in Attachment, m \in Message :
           addAttachmentToDiscussionThreadMessage(a, m)
    \/ \E a \in Attachment, m \in Message :
           removeAttachmentFromDiscussionThreadMessage(a, m)

Next == UserNext \/ ThreadNext \/ MessageNext \/ OtherNext

Spec == Init /\ [][Next]_vars

-----------------------------------------------------------------------------
(* Properties.                                                             *)

\* A user lists exactly the content created under that account that is still
\* in the forum, and every author listed this way is a user of the forum.  A
\* comment counts as long as its message lists it: deleteUser detaches the
\* comments of the user without deleting them.
AuthorsAgree ==
    \A u \in Account, x \in Content :
        x \in owned[u] <=>
            /\ x \in live /\ createdBy[x] = u /\ u \in Visitor
            /\ x \in Comment => \E m \in live \cap Message :
                                    parentMessage[x] = m /\ x \in comments[m]

\* A message belongs to exactly the thread that lists it, and both exist,
\* after every move, merge and cascade of deletions.
ThreadsAgree ==
    \A m \in Message, t \in Thread :
        m \in messages[t] <=> m \in live /\ t \in live /\ parentThread[m] = t

\* A comment that a message shows is in the forum, knows that message, and
\* its author exists.
ShownCommentsExist ==
    \A m \in Message : \A c \in comments[m] :
        /\ {m, c} \subseteq live /\ parentMessage[c] = m
        /\ createdBy[c] \in Visitor

\* Registered users and threads agree on who follows what, also after merges;
\* neither side mentions a deleted entity.
SubscriptionsAgree ==
    \A u \in User, t \in Thread :
        /\ u \in subscribedUsers[t] <=> t \in subscribedThreads[u]
        /\ u \in subscribedUsers[t] => {u, t} \subseteq live

\* A user has at most one vote on a message, never on an own one, and can be
\* found from it: deleteUser relies on votedMessages_ to remove the votes,
\* even after votes were reset and slots of deleted messages used again.
VotesTracked ==
    \A m \in Message :
        /\ upVotes[m] \cap downVotes[m] = {}
        /\ \A u \in upVotes[m] \cup downVotes[m] :
               /\ {u, m} \subseteq live /\ createdBy[m] # u
               /\ m \in votedMessages[u]

\* The votes, pairs of voter and message, that the messages of u show.
VotesShown(votes, u) ==
    {vote \in User \X Message :
        createdBy[vote[2]] = u /\ vote[1] \in votes[vote[2]]}

\* The statistics of a user never fall below the votes that the messages of
\* the user show (they may be higher: the votes of deleted messages and users
\* still count), in particular never below 0.
VotesReceivedCoverVotesShown ==
    \A u \in Account :
        /\ Cardinality(VotesShown(upVotes, u)) <= votesReceived[u].up
        /\ Cardinality(VotesShown(downVotes, u)) <= votesReceived[u].down

\* The 15-bit count of solved comments never wraps below 0: it covers the
\* solved comments that the message shows.
SolvedCommentsCovered ==
    \A m \in Message :
        Cardinality(comments[m] \cap solved) <= solvedCommentsCount[m]

\* Sender and recipient list exactly the private messages that exist.
PrivateMessagesAgree ==
    \A u \in Account, p \in PrivateMessage :
        /\ p \in sent[u] <=>
               p \in live /\ parties[p].source = u /\ u \in Visitor
        /\ p \in received[u] <=>
               p \in live /\ parties[p].destination = u /\ u \in live

\* Messages and attachments agree on what is attached where; neither side
\* mentions a deleted entity.
AttachmentsAgree ==
    \A m \in Message, a \in Attachment :
        /\ a \in attachments[m] <=> m \in attachedTo[a]
        /\ a \in attachments[m] => {a, m} \subseteq live

\* Both ends of every relation between entities agree, and none mentions a
\* deleted entity: authors, threads of messages, subscriptions, private
\* messages and attachments, after every merge, move and cascade of deletions.
RelationsAgree ==
    /\ AuthorsAgree
    /\ ThreadsAgree
    /\ SubscriptionsAgree
    /\ PrivateMessagesAgree
    /\ AttachmentsAgree

\* The comments a message shows are in the forum, and its count of solved
\* comments covers them although deletions lower it on three paths.
CommentsAgree == ShownCommentsExist /\ SolvedCommentsCovered
=============================================================================
