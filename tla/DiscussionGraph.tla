--------------------------- MODULE DiscussionGraph ---------------------------
(***************************************************************************)
(* The entities that organise a forum: discussion threads, the tags put on *)
(* them and the categories that collect tags, as EntityCollection keeps    *)
(* them.  Every relation is stored on both sides and every count is cached *)
(* next to what it counts, so each command updates many entities; they are *)
(* all updated under the write lock of the collection, hence one action    *)
(* per command.                                                            *)
(*                                                                         *)
(* A thread, tag or category of the model is a slot of the object pool     *)
(* that a new entity may reuse.  Messages are counted, not told apart.     *)
(* Loops whose iterations do not depend on their order are written in      *)
(* closed form: in such a loop a category d receives one reference for     *)
(* each category below it (or equal to it) that the loop visits.           *)
(***************************************************************************)
EXTENDS Integers, FiniteSetsExt, SequencesExt

CONSTANTS
    Thread, Tag, Category,   \* slots of the object pools
    NoCategory,              \* the null parent
    Policies                 \* which commands clients use, on how many entities

OptionalCommand == {"mergeThreads", "mergeTags", "changeParent", "deleteCategory"}

ASSUME SlotAssumption ==
    IsFiniteSet(Thread) /\ IsFiniteSet(Tag) /\ IsFiniteSet(Category)
ASSUME NoCategoryAssumption == NoCategory \notin Category
ASSUME PoliciesAssumption ==
    Policies \subseteq [commands: SUBSET OptionalCommand,  \* besides the others
                        tags: Nat, categories: Nat,       \* at the same time
                        messages: Nat]                    \* in the forum

VARIABLES
    policy,         \* the policy of this behaviour; it never changes
    threads,        \* EntityCollection::threads()
    messageCount,   \* messageCount[t]: DiscussionThread::messageCount()
    threadTags,     \* threadTags[t]: DiscussionThread::tags_
    tags,           \* EntityCollection::tags()
    tagThreads,     \* tagThreads[g]: DiscussionTag::threads_
    tagMessages,    \* tagMessages[g]: DiscussionTag::messageCount_
    tagCategories,  \* tagCategories[g]: DiscussionTag::categories_
    categories,     \* EntityCollection::categories()
    parent,         \* parent[c]: DiscussionCategory::parent_
    children,       \* children[c]: DiscussionCategory::children_
    categoryTags,   \* categoryTags[c]: DiscussionCategory::tags_
    listing         \* which threads the categories list; see Listing

threadVars == <<threads, messageCount, threadTags>>
tagVars == <<tags, tagThreads, tagMessages, tagCategories>>
treeVars == <<categories, parent, children>>
vars == <<policy, threadVars, tagVars, treeVars, categoryTags, listing>>

\* threads[c], messages[c]: threads_ and messageCount_ of category c;
\* of[t]: DiscussionThread::categories_; the others are totalThreads_: its
\* byId_, its referenceCount_ (0: no entry) and its messageCount_.
Listing ==
    [threads: [Category -> SUBSET Thread],
     of: [Thread -> SUBSET Category],
     messages: [Category -> Int],
     total: [Category -> SUBSET Thread],
     references: [Category -> [Thread -> Nat]],
     totalMessages: [Category -> Int]]

TypeOK ==
    /\ policy \in Policies
    /\ threads \subseteq Thread
    /\ messageCount \in [Thread -> Nat]
    /\ threadTags \in [Thread -> SUBSET Tag]
    /\ tags \subseteq Tag
    /\ tagThreads \in [Tag -> SUBSET Thread]
    /\ tagMessages \in [Tag -> Int]
    /\ tagCategories \in [Tag -> SUBSET Category]
    /\ categories \subseteq Category
    /\ parent \in [Category -> Category \cup {NoCategory}]
    /\ children \in [Category -> SUBSET Category]
    /\ categoryTags \in [Category -> SUBSET Tag]
    /\ listing \in Listing

Init ==
    /\ policy \in Policies
    /\ threads = {} /\ tags = {} /\ categories = {}
    /\ messageCount = [t \in Thread |-> 0]
    /\ threadTags = [t \in Thread |-> {}]
    /\ tagThreads = [g \in Tag |-> {}]
    /\ tagMessages = [g \in Tag |-> 0]
    /\ tagCategories = [g \in Tag |-> {}]
    /\ parent = [c \in Category |-> NoCategory]
    /\ children = [c \in Category |-> {}]
    /\ categoryTags = [c \in Category |-> {}]
    /\ listing = [threads |-> [c \in Category |-> {}],
                  of |-> [t \in Thread |-> {}],
                  messages |-> [c \in Category |-> 0],
                  total |-> [c \in Category |-> {}],
                  references |-> [c \in Category |-> [t \in Thread |-> 0]],
                  totalMessages |-> [c \in Category |-> 0]]
-----------------------------------------------------------------------------
(* The tree of categories.                                                 *)

\* The ancestors of c up to, and without, the first one in stop: the least
\* set that climbing from parent to parent stays in.
ParentsUntil(c, stop) ==
    {d \in Category :
        \A S \in SUBSET Category :
            (\A x \in S \cup {c} : parent[x] \in Category \ stop => parent[x] \in S)
                => d \in S}

\* executeOnAllCategoryParents
Ancestors(c) == ParentsUntil(c, {})

\* executeOnCategoryAndAllParents
Lineage(c) == {c} \cup Ancestors(c)

MutantNoCircularityCheck(category, ancestor) == FALSE
hasAncestor(category, ancestor) == ancestor \in Ancestors(category)
-----------------------------------------------------------------------------
(* The threads of a category and the totals that it keeps for its subtree. *)
(* The argument m is a listing, the result the listing after the update.   *)

Messages(S) == SumFunctionOnSet(messageCount, S)

\* How many of the references n[c][t], made by the categories c, category d
\* receives for itself and from below.
Received(n, d, t) ==
    MapThenSumSet(LAMBDA c : n[c][t], {c \in Category : d \in Lineage(c)})

Once(pairs) ==
    [c \in Category |-> [t \in Thread |-> IF <<c, t>> \in pairs THEN 1 ELSE 0]]

\* totalThreads_.add, k[d][t] more references.  Nothing is added for a thread
\* that is still in byId_ but has lost its reference count.
AddTotals(m, k) ==
    LET Fresh(d) == {t \in Thread : /\ k[d][t] > 0
                                    /\ m.references[d][t] = 0
                                    /\ t \notin m.total[d]}
        Ignored(d, t) == m.references[d][t] = 0 /\ t \in m.total[d]
    IN  [m EXCEPT
            !.total = [d \in Category |-> m.total[d] \cup Fresh(d)],
            !.references = [d \in Category |-> [t \in Thread |->
                                IF Ignored(d, t) THEN 0
                                ELSE m.references[d][t] + k[d][t]]],
            !.totalMessages = [d \in Category |->
                                m.totalMessages[d] + Messages(Fresh(d))]]

MutantForgetReferences(m, k) ==
    [m EXCEPT
        !.total = [d \in Category |-> m.total[d] \ {t \in Thread : k[d][t] > 0}],
        !.references = [d \in Category |-> [t \in Thread |->
                                IF m.references[d][t] > k[d][t]
                                THEN m.references[d][t] - k[d][t] ELSE 0]]]

\* decreaseReferenceCount(collection): the entries go, byId_ and
\* messageCount_ stay as they are.
ForgetReferences(m, k) ==
    [m EXCEPT !.references = [d \in Category |-> [t \in Thread |->
                                IF m.references[d][t] > k[d][t]
                                THEN m.references[d][t] - k[d][t] ELSE 0]]]

\* decreaseReferenceCount(thread), k[d][t] times: the last reference removes
\* the thread.
DropReferences(m, k) ==
    LET Gone(d) == {t \in m.total[d] : /\ m.references[d][t] > 0
                                       /\ m.references[d][t] <= k[d][t]}
    IN  [ForgetReferences(m, k) EXCEPT
            !.total = [d \in Category |-> m.total[d] \ Gone(d)],
            !.totalMessages = [d \in Category |->
                                m.totalMessages[d] - Messages(Gone(d))]]

MessagesInserted(n, c) ==
    MapThenSumSet(LAMBDA t : n[c][t] * messageCount[t], Thread)

\* DiscussionCategory::insertDiscussionThreads and
\* insertDiscussionThreadsOfTag: thread t is inserted n[c][t] times into c.
InsertThreads(m, n) ==
    AddTotals(
        [m EXCEPT
            !.threads = [c \in Category |->
                            m.threads[c] \cup {t \in Thread : n[c][t] > 0}],
            !.of = [t \in Thread |-> m.of[t] \cup {c \in Category : n[c][t] > 0}],
            !.messages = [c \in Category |-> m.messages[c] + MessagesInserted(n, c)]],
        [d \in Category |-> [t \in Thread |-> Received(n, d, t)]])

\* The end of deleteDiscussionThreadIfNoOtherTagsReferenceIt, for pairs of a
\* category and a thread.
WithdrawThreads(m, pairs) ==
    LET Listed(c) == {t \in m.threads[c] : <<c, t>> \in pairs}
    IN  DropReferences(
            [m EXCEPT
                !.threads = [c \in Category |-> m.threads[c] \ Listed(c)],
                !.of = [t \in Thread |->
                            m.of[t] \ {c \in Category : t \in Listed(c)}],
                !.messages = [c \in Category |->
                                m.messages[c] - Messages(Listed(c))]],
            [d \in Category |-> [t \in Thread |-> Received(Once(pairs), d, t)]])

MutantLeavesTotalsOnly(m, t, deleteMessages) ==
    LET totalledIn == {d \in Category : t \in m.total[d]}
    IN  [m EXCEPT
            !.of[t] = {},
            !.total = [d \in Category |-> m.total[d] \ {t}],
            !.references = [d \in Category |-> [m.references[d] EXCEPT ![t] = 0]],
            !.totalMessages = [d \in Category |->
                            IF d \in totalledIn
                            THEN m.totalMessages[d] - messageCount[t]
                            ELSE m.totalMessages[d]]]

\* DiscussionCategory::deleteDiscussionThread of every category of a thread
\* that is about to be deleted.
RemoveThread(m, t, deleteMessages) ==
    LET listedIn == {c \in m.of[t] : t \in m.threads[c]}
        totalledIn == {d \in UNION {Lineage(c) : c \in listedIn} : t \in m.total[d]}
    IN  [m EXCEPT
            !.threads = [c \in Category |->
                            IF c \in listedIn THEN m.threads[c] \ {t} ELSE m.threads[c]],
            !.of[t] = {},
            !.messages = [c \in Category |->
                            IF deleteMessages /\ c \in listedIn
                            THEN m.messages[c] - messageCount[t] ELSE m.messages[c]],
            !.total = [d \in Category |->
                            IF d \in totalledIn THEN m.total[d] \ {t} ELSE m.total[d]],
            !.references = [d \in Category |->
                            IF d \in totalledIn
                            THEN [m.references[d] EXCEPT ![t] = 0] ELSE m.references[d]],
            !.totalMessages = [d \in Category |->
                            IF d \in totalledIn
                            THEN m.totalMessages[d] - messageCount[t]
                            ELSE m.totalMessages[d]]]

MutantNeverStops(m, t, delta) ==
    [m EXCEPT
        !.messages = [c \in Category |->
                        IF c \in m.of[t] THEN m.messages[c] + delta ELSE m.messages[c]],
        !.totalMessages = [d \in Category |->
                        m.totalMessages[d] + delta *
                            Cardinality({c \in m.of[t] : d \in Lineage(c)})]]

\* DiscussionCategory::updateMessageCount of every category of the thread.
\* Climbing stops at an ancestor that lists the thread itself.
updateMessageCount(m, t, delta) ==
    LET listedIn == {c \in Category : t \in m.threads[c]}
    IN  [m EXCEPT
            !.messages = [c \in Category |->
                            IF c \in m.of[t] THEN m.messages[c] + delta
                            ELSE m.messages[c]],
            !.totalMessages = [d \in Category |->
                            m.totalMessages[d] + delta *
                                Cardinality({c \in m.of[t] :
                                    d \in {c} \cup ParentsUntil(c, listedIn)})]]

\* DiscussionTag::updateMessageCount of every tag of the thread.
TagMessagesChanged(counts, t, delta) ==
    [g \in Tag |-> IF g \in threadTags[t] THEN counts[g] + delta ELSE counts[g]]
-----------------------------------------------------------------------------
(* Threads and messages.                                                   *)

addNewDiscussionThread(t) ==
    /\ t \notin threads
    /\ threads' = threads \cup {t}
    /\ UNCHANGED <<policy, messageCount, threadTags, tagVars, treeVars,
                   categoryTags, listing>>

\* DiscussionTag::deleteDiscussionThread of every tag of the thread; their
\* categories would withdraw the thread were it not for the tag itself.
DetachFromTags(m, t) ==
    WithdrawThreads(m,
        {<<c, t>> : c \in {d \in UNION {tagCategories[g] : g \in threadTags[t]} :
                              threadTags[t] \cap categoryTags[d] = {}}})

\* EntityCollection::deleteDiscussionThread
ReleaseThread(m, counts, t, deleteMessages) ==
    /\ listing' = DetachFromTags(RemoveThread(m, t, deleteMessages), t)
    /\ tagThreads' = [g \in Tag |-> IF g \in threadTags[t] THEN tagThreads[g] \ {t}
                                    ELSE tagThreads[g]]
    /\ tagMessages' = IF deleteMessages
                      THEN TagMessagesChanged(counts, t, -messageCount[t])
                      ELSE counts
    /\ threads' = threads \ {t}
    /\ threadTags' = [threadTags EXCEPT ![t] = {}]

MutantTagsKeepThread(t) ==
    /\ t \in threads
    /\ listing' = RemoveThread(listing, t, TRUE)
    /\ threads' = threads \ {t}
    /\ threadTags' = [threadTags EXCEPT ![t] = {}]
    /\ messageCount' = [messageCount EXCEPT ![t] = 0]
    /\ UNCHANGED <<policy, tagVars, treeVars, categoryTags>>

deleteDiscussionThread(t) ==
    /\ t \in threads
    /\ ReleaseThread(listing, tagMessages, t, TRUE)
    /\ messageCount' = [messageCount EXCEPT ![t] = 0]
    /\ UNCHANGED <<policy, tags, tagCategories, treeVars, categoryTags>>

ChangeMessages(t, delta) ==
    /\ messageCount' = [messageCount EXCEPT ![t] = @ + delta]
    /\ tagMessages' = TagMessagesChanged(tagMessages, t, delta)
    /\ listing' = updateMessageCount(listing, t, delta)
    /\ UNCHANGED <<policy, threads, threadTags, tags, tagThreads, tagCategories,
                   treeVars, categoryTags>>

addNewDiscussionMessageInThread(t) ==
    /\ t \in threads
    /\ Messages(Thread) < policy.messages
    /\ ChangeMessages(t, 1)

deleteDiscussionMessage(t) ==
    /\ t \in threads
    /\ messageCount[t] > 0
    /\ ChangeMessages(t, -1)

moveDiscussionThreadMessage(from, into) ==
    /\ from \in threads /\ into \in threads /\ from # into
    /\ messageCount[from] > 0
    /\ messageCount' = [messageCount EXCEPT ![from] = @ - 1, ![into] = @ + 1]
    /\ tagMessages' =
          TagMessagesChanged(TagMessagesChanged(tagMessages, into, 1), from, -1)
    /\ listing' = updateMessageCount(updateMessageCount(listing, into, 1), from, -1)
    /\ UNCHANGED <<policy, threads, threadTags, tags, tagThreads, tagCategories,
                   treeVars, categoryTags>>

MutantMergeDeletesMessages(from, into) ==
    /\ "mergeThreads" \in policy.commands
    /\ from \in threads /\ into \in threads /\ from # into
    /\ LET n == messageCount[from]
       IN  ReleaseThread(
              updateMessageCount(updateMessageCount(listing, from, -n), into, n),
              TagMessagesChanged(TagMessagesChanged(tagMessages, from, -n), into, n),
              from, TRUE)
    /\ messageCount' = [messageCount EXCEPT ![into] = @ + messageCount[from],
                                            ![from] = 0]
    /\ UNCHANGED <<policy, tags, tagCategories, treeVars, categoryTags>>

\* The messages move first; the thread they leave still counts them while it
\* is removed from the totals.
mergeDiscussionThreads(from, into) ==
    /\ "mergeThreads" \in policy.commands
    /\ from \in threads /\ into \in threads /\ from # into
    /\ LET n == messageCount[from]
       IN  ReleaseThread(
              updateMessageCount(updateMessageCount(listing, from, -n), into, n),
              TagMessagesChanged(TagMessagesChanged(tagMessages, from, -n), into, n),
              from, FALSE)
    /\ messageCount' = [messageCount EXCEPT ![into] = @ + messageCount[from],
                                            ![from] = 0]
    /\ UNCHANGED <<policy, tags, tagCategories, treeVars, categoryTags>>
-----------------------------------------------------------------------------
(* Tags.                                                                   *)

addNewDiscussionTag(g) ==
    /\ g \notin tags
    /\ Cardinality(tags) < policy.tags
    /\ tags' = tags \cup {g}
    /\ UNCHANGED <<policy, threadVars, tagThreads, tagMessages, tagCategories,
                   treeVars, categoryTags, listing>>

addDiscussionTagToThread(g, t) ==
    /\ g \in tags /\ t \in threads
    /\ g \notin threadTags[t]
    /\ threadTags' = [threadTags EXCEPT ![t] = @ \cup {g}]
    /\ tagThreads' = [tagThreads EXCEPT ![g] = @ \cup {t}]
    /\ tagMessages' = [tagMessages EXCEPT ![g] = @ + messageCount[t]]
    /\ listing' = InsertThreads(listing,
                    Once({<<c, t>> : c \in {d \in tagCategories[g] :
                                               t \notin listing.threads[d]}}))
    /\ UNCHANGED <<policy, threads, messageCount, tags, tagCategories, treeVars,
                   categoryTags>>

MutantIgnoresOtherTags(g, t) ==
    /\ g \in tags /\ t \in threads
    /\ g \in threadTags[t]
    /\ threadTags' = [threadTags EXCEPT ![t] = @ \ {g}]
    /\ tagThreads' = [tagThreads EXCEPT ![g] = @ \ {t}]
    /\ tagMessages' = [tagMessages EXCEPT ![g] = @ - messageCount[t]]
    /\ listing' = WithdrawThreads(listing, {<<c, t>> : c \in tagCategories[g]})
    /\ UNCHANGED <<policy, threads, messageCount, tags, tagCategories, treeVars,
                   categoryTags>>

\* DiscussionTag::deleteDiscussionThread withdraws the thread from the
\* categories of the tag that have no other tag of the thread.
removeDiscussionTagFromThread(g, t) ==
    /\ g \in tags /\ t \in threads
    /\ g \in threadTags[t]
    /\ threadTags' = [threadTags EXCEPT ![t] = @ \ {g}]
    /\ tagThreads' = [tagThreads EXCEPT ![g] = @ \ {t}]
    /\ tagMessages' = [tagMessages EXCEPT ![g] = @ - messageCount[t]]
    /\ listing' = WithdrawThreads(listing,
                    {<<c, t>> : c \in {d \in tagCategories[g] :
                                          threadTags'[t] \cap categoryTags[d] = {}}})
    /\ UNCHANGED <<policy, threads, messageCount, tags, tagCategories, treeVars,
                   categoryTags>>

\* DiscussionCategory::removeTag for the categories in from, where inCategory
\* and onThread are the tags of categories and threads at that time.
RemoveTag(m, g, from, inCategory, onThread) ==
    WithdrawThreads(m,
        {pair \in {c \in from : g \in inCategory[c]} \X tagThreads[g] :
            onThread[pair[2]] \cap (inCategory[pair[1]] \ {g}) = {}})

\* EntityCollection::deleteDiscussionTag
ReleaseTag(m, g, inCategory, onThread) ==
    /\ listing' = RemoveTag(m, g, tagCategories[g], inCategory, onThread)
    /\ categoryTags' = [c \in Category |->
                          IF c \in tagCategories[g] THEN inCategory[c] \ {g}
                          ELSE inCategory[c]]
    /\ threadTags' = [t \in Thread |->
                          IF t \in tagThreads[g] THEN onThread[t] \ {g}
                          ELSE onThread[t]]
    /\ tags' = tags \ {g}
    /\ tagCategories' = [tagCategories EXCEPT ![g] = {}]

MutantKeepsCategoryTag(g) ==
    /\ g \in tags
    /\ listing' = RemoveTag(listing, g, tagCategories[g], categoryTags, threadTags)
    /\ threadTags' = [t \in Thread |-> threadTags[t] \ {g}]
    /\ tags' = tags \ {g}
    /\ tagCategories' = [tagCategories EXCEPT ![g] = {}]
    /\ tagThreads' = [tagThreads EXCEPT ![g] = {}]
    /\ tagMessages' = [tagMessages EXCEPT ![g] = 0]
    /\ UNCHANGED <<policy, threads, messageCount, treeVars, categoryTags>>

deleteDiscussionTag(g) ==
    /\ g \in tags
    /\ ReleaseTag(listing, g, categoryTags, threadTags)
    /\ tagThreads' = [tagThreads EXCEPT ![g] = {}]
    /\ tagMessages' = [tagMessages EXCEPT ![g] = 0]
    /\ UNCHANGED <<policy, threads, messageCount, treeVars>>

\* insertDiscussionThreads moves the threads a category does not list yet to
\* the front of the caller's array.
Kept(array, c) == SelectSeq(array, LAMBDA t : t \notin listing.threads[c])
Compact(array, c) ==
    LET kept == Kept(array, c)
    IN  kept \o SubSeq(array, Len(kept) + 1, Len(array))

\* DiscussionTag::insertDiscussionThreads hands one array to its categories
\* in turn: each inserts what the previous ones left in it.
PlacesInserted(array, order, c, t) ==
    LET Left[k \in 0 .. Len(order)] ==
            IF k = 0 THEN array ELSE Compact(Left[k - 1], order[k])
        Inserted(k) == Kept(Left[k - 1], order[k])
    IN  {place \in (1 .. Len(order)) \X (1 .. Len(array)) :
            /\ order[place[1]] = c
            /\ place[2] <= Len(Inserted(place[1]))
            /\ Inserted(place[1])[place[2]] = t}

\* How often thread t of the array is inserted into category c.
Insertions(array, order) ==
    [c \in Category |-> [t \in Thread |->
        IF c \in ToSet(order) /\ t \in ToSet(array)
        THEN Cardinality(PlacesInserted(array, order, c, t)) ELSE 0]]

\* Every thread of from gets tag into, every category of from gets it too
\* (the tag is not told), and from is deleted.
mergeDiscussionTags(from, into) ==
    /\ "mergeTags" \in policy.commands
    /\ from \in tags /\ into \in tags /\ from # into
    /\ \E array \in SetToSeqs(tagThreads[from] \ tagThreads[into]),
          order \in SetToSeqs(tagCategories[into]) :
          LET merged == tagThreads[from] \cup tagThreads[into]
              added == {c \in tagCategories[from] : into \notin categoryTags[c]}
              inserted == InsertThreads(listing, Insertions(array, order))
          IN  ReleaseTag(
                InsertThreads(inserted,
                    Once({pair \in added \X merged :
                             pair[2] \notin inserted.threads[pair[1]]})),
                from,
                [c \in Category |-> IF c \in added THEN categoryTags[c] \cup {into}
                                    ELSE categoryTags[c]],
                [t \in Thread |-> IF t \in tagThreads[from]
                                  THEN threadTags[t] \cup {into} ELSE threadTags[t]])
    /\ tagThreads' = [tagThreads EXCEPT ![into] = @ \cup tagThreads[from], ![from] = {}]
    /\ tagMessages' = [tagMessages EXCEPT
                          ![into] = @ + Messages(tagThreads[from] \ tagThreads[into]),
                          ![from] = 0]
    /\ UNCHANGED <<policy, threads, messageCount, treeVars>>
-----------------------------------------------------------------------------
(* Categories.                                                             *)

\* An unknown parent id makes a root category.
addNewDiscussionCategory(c, p) ==
    /\ c \notin categories
    /\ Cardinality(categories) < policy.categories
    /\ p \in categories \cup {NoCategory}
    /\ categories' = categories \cup {c}
    /\ parent' = [parent EXCEPT ![c] = p]
    /\ children' = [x \in Category |-> IF x = p THEN children[x] \cup {c}
                                       ELSE children[x]]
    /\ UNCHANGED <<policy, threadVars, tagVars, categoryTags, listing>>

\* The references of a child, as received by the given categories.
ReferencesOf(m, child, receivers) ==
    [d \in Category |-> [t \in Thread |->
        IF d \in receivers THEN m.references[child][t] ELSE 0]]

\* The references of all children of c, as received by c and its ancestors.
ReferencesOfChildren(m, c) ==
    [d \in Category |-> [t \in Thread |->
        IF d \in Lineage(c)
        THEN MapThenSumSet(LAMBDA x : m.references[x][t], children[c])
        ELSE 0]]

\* changeDiscussionCategoryParent and updateCategoryParent.
changeDiscussionCategoryParent(c, p) ==
    /\ "changeParent" \in policy.commands
    /\ c \in categories
    /\ p \in (categories \ {c}) \cup {NoCategory}
    /\ p # NoCategory => ~hasAncestor(p, c)
    /\ parent[c] # NoCategory => parent[c] # p
    /\ parent' = [parent EXCEPT ![c] = p]
    /\ children' = [x \in Category |-> IF x = p THEN children[x] \cup {c}
                                       ELSE children[x] \ {c}]
    /\ LET left == ForgetReferences(listing, ReferencesOf(listing, c, Ancestors(c)))
       IN  listing' = IF p = NoCategory THEN left
                      ELSE AddTotals(left, ReferencesOf(left, c, Lineage(p)))
    /\ UNCHANGED <<policy, threadVars, tagVars, categories, categoryTags>>

\* The children become root categories; then the category lets go of its
\* tags and threads, and its remaining totals leave its ancestors.
deleteDiscussionCategory(c) ==
    /\ "deleteCategory" \in policy.commands
    /\ c \in categories
    /\ categories' = categories \ {c}
    /\ parent' = [x \in Category |-> IF x = c \/ x \in children[c] THEN NoCategory
                                     ELSE parent[x]]
    /\ children' = [x \in Category |-> IF x = c THEN {} ELSE children[x] \ {c}]
    /\ tagCategories' = [g \in Tag |-> IF g \in categoryTags[c]
                                       THEN tagCategories[g] \ {c}
                                       ELSE tagCategories[g]]
    /\ categoryTags' = [categoryTags EXCEPT ![c] = {}]
    /\ LET alone == ForgetReferences(listing, ReferencesOfChildren(listing, c))
           left == ForgetReferences(alone, ReferencesOf(alone, c, Ancestors(c)))
       IN  listing' = [left EXCEPT
                         !.threads[c] = {},
                         !.of = [t \in Thread |-> IF t \in left.threads[c]
                                                  THEN left.of[t] \ {c} ELSE left.of[t]],
                         !.messages[c] = 0,
                         !.total[c] = {},
                         !.references[c] = [t \in Thread |-> 0],
                         !.totalMessages[c] = 0]
    /\ UNCHANGED <<policy, threadVars, tags, tagThreads, tagMessages>>

\* DiscussionTag::addCategory and, unless the category has the tag already,
\* DiscussionCategory::addTag.
addDiscussionTagToCategory(g, c) ==
    /\ g \in tags /\ c \in categories
    /\ c \notin tagCategories[g]
    /\ tagCategories' = [tagCategories EXCEPT ![g] = @ \cup {c}]
    /\ categoryTags' = [categoryTags EXCEPT ![c] = @ \cup {g}]
    /\ listing' = IF g \in categoryTags[c] THEN listing
                  ELSE InsertThreads(listing,
                         Once({c} \X (tagThreads[g] \ listing.threads[c])))
    /\ UNCHANGED <<policy, threadVars, tags, tagThreads, tagMessages, treeVars>>

removeDiscussionTagFromCategory(g, c) ==
    /\ g \in tags /\ c \in categories
    /\ c \in tagCategories[g]
    /\ tagCategories' = [tagCategories EXCEPT ![g] = @ \ {c}]
    /\ categoryTags' = [categoryTags EXCEPT ![c] = @ \ {g}]
    /\ listing' = RemoveTag(listing, g, {c}, categoryTags, threadTags)
    /\ UNCHANGED <<policy, threadVars, tags, tagThreads, tagMessages, treeVars>>
-----------------------------------------------------------------------------
Next ==
    \/ \E t \in Thread :
          \/ addNewDiscussionThread(t) \/ deleteDiscussionThread(t)
          \/ addNewDiscussionMessageInThread(t) \/ deleteDiscussionMessage(t)
    \/ \E from, into \in Thread :
          \/ moveDiscussionThreadMessage(from, into)
          \/ mergeDiscussionThreads(from, into)
    \/ \E g \in Tag : addNewDiscussionTag(g) \/ deleteDiscussionTag(g)
    \/ \E g \in Tag, t \in Thread :
          addDiscussionTagToThread(g, t) \/ removeDiscussionTagFromThread(g, t)
    \/ \E from, into \in Tag : mergeDiscussionTags(from, into)
    \/ \E c \in Category, p \in Category \cup {NoCategory} :
          \/ addNewDiscussionCategory(c, p)
          \/ changeDiscussionCategoryParent(c, p)
    \/ \E c \in Category : deleteDiscussionCategory(c)
    \/ \E g \in Tag, c \in Category :
          \/ addDiscussionTagToCategory(g, c)
          \/ removeDiscussionTagFromCategory(g, c)

Spec == Init /\ [][Next]_vars
-----------------------------------------------------------------------------
(* Properties.                                                             *)

\* A thread and a tag name each other, and neither names an entity that was
\* deleted: no command leaves a dangling pointer between threads and tags.
TagsAndThreadsAgree ==
    /\ \A t \in Thread, g \in Tag : g \in threadTags[t] <=> t \in tagThreads[g]
    /\ \A t \in Thread : threadTags[t] # {} => t \in threads
    /\ \A g \in Tag : tagThreads[g] # {} => g \in tags

\* A thread and a category name each other, and neither names an entity that
\* was deleted.
CategoriesAndThreadsAgree ==
    /\ \A t \in Thread, c \in Category :
          c \in listing.of[t] <=> t \in listing.threads[c]
    /\ \A t \in Thread : listing.of[t] # {} => t \in threads
    /\ \A c \in Category : listing.threads[c] # {} => c \in categories

\* Categories form a forest (every set of categories has one whose parent is
\* outside, so no category is its own ancestor and every loop over parents
\* ends), and children_ is the converse of parent_.
CategoryForest ==
    /\ \A S \in SUBSET Category : S # {} => \E c \in S : parent[c] \notin S
    /\ \A c, d \in Category : d \in children[c] <=> parent[d] = c
    /\ \A c \in Category : parent[c] # NoCategory =>
          c \in categories /\ parent[c] \in categories

\* Clients never use mergeDiscussionTags.
NoTagMerges == "mergeTags" \notin policy.commands

\* The two sides of the relation between tags and categories.
TagsMatchCategories ==
    /\ \A g \in Tag, c \in Category :
          c \in tagCategories[g] <=> g \in categoryTags[c]
    /\ \A g \in Tag : tagCategories[g] # {} => g \in tags
    /\ \A c \in Category : categoryTags[c] # {} => c \in categories

\* Unless tags are merged, a tag and a category name each other, and neither
\* names an entity that was deleted.
TagsAndCategoriesAgree == NoTagMerges => TagsMatchCategories

\* The threads in every category are those of its tags.
ListsMatchTags ==
    \A c \in Category :
        listing.threads[c] = UNION {tagThreads[g] : g \in categoryTags[c]}

\* Unless tags are merged, a category lists exactly the threads of its tags: a
\* thread is neither left behind when its last tag goes nor removed while
\* another one stays.
CategoryListsTaggedThreads == NoTagMerges => ListsMatchTags

\* The cached message count of a tag is the number of messages in its threads
\* and, unless tags are merged, that of a category the number of messages in
\* the threads it lists, whatever was added, moved, merged and deleted.
MessagesCounted ==
    /\ \A g \in Tag : tagMessages[g] = Messages(tagThreads[g])
    /\ NoTagMerges =>
          \A c \in Category : listing.messages[c] = Messages(listing.threads[c])

\* The totals of a category list the threads of its whole subtree, each with
\* one reference for every category of the subtree that lists it.
TotalsListSubtree ==
    \A c \in Category, t \in Thread :
        LET below == {d \in Category : c \in Lineage(d) /\ t \in listing.threads[d]}
        IN  /\ t \in listing.total[c] <=> below # {}
            /\ listing.references[c][t] = Cardinality(below)

\* The total message count of a category counts every message of the threads
\* in its totals once.
MessagesTotalledOnce ==
    \A c \in Category : listing.totalMessages[c] = Messages(listing.total[c])

\* Without the optional commands the totals list the subtree.  If moreover no
\* category has two children, the total message count of a category counts
\* every thread of its subtree once, although updateMessageCount climbs the same
\* ancestors from several categories.
TotalsCounted ==
    policy.commands = {} =>
        /\ TotalsListSubtree
        /\ (\A c \in Category : Cardinality(children[c]) <= 1) => MessagesTotalledOnce

\* Unless categories are moved or tags merged, no thread of its subtree is missing
\* from the totals of a category.  The deletion of a category may leave more there
\* than the subtree, with reference counts that are too high or gone, but no later
\* removal of such a thread takes it away from a category that still has it.
TotalsKeepSubtree ==
    NoTagMerges /\ "changeParent" \notin policy.commands =>
        \A c, d \in Category :
            c \in Lineage(d) => listing.threads[d] \subseteq listing.total[c]

\* Deleting a tag detaches it from categories.
CategoriesHaveLiveTags == \A c \in Category : categoryTags[c] \subseteq tags
=============================================================================
