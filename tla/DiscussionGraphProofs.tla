------------------------ MODULE DiscussionGraphProofs ------------------------
(***************************************************************************)
(* For any number of threads, tags and categories, no command leaves a     *)
(* dangling pointer between threads, tags and categories, and categories   *)
(* stay a forest; without merges of tags, tags and categories agree as     *)
(* well and every category lists exactly the threads of its tags.          *)
(*                                                                         *)
(* The argument: what a command does to the listings is reduced by the     *)
(* lemmas below to threads_ and categories_, the totals play no part.  The *)
(* invariant adds the half of the agreement between tags and categories    *)
(* that merges keep: a category named by a tag names the tag.              *)
(*                                                                         *)
(* The second part adds the cached message counts of tags and categories:  *)
(* sums over the threads listed.  The lemmas about sums over finite sets   *)
(* rest on induction, which is stated for a set of numbers or of sets      *)
(* instead of a predicate and follows from the pigeonhole principle.       *)
(*                                                                         *)
(* The third adds the totals of categories: how often a total references a *)
(* thread, and which categories updateMessageCount meets on its climbs.    *)
(***************************************************************************)
EXTENDS DiscussionGraph, FiniteSetTheorems, TLAPS

Field == {"threads", "of", "messages", "total", "references", "totalMessages"}

\* A listing as far as the proofs look into it.
IsListing(m) ==
    /\ DOMAIN m = Field
    /\ m = [f \in Field |-> m[f]]
    /\ m.threads \in [Category -> SUBSET Thread]
    /\ m.of \in [Thread -> SUBSET Category]

\* Threads and categories name each other in listing m.
Agree(m) ==
    \A t \in Thread, c \in Category : c \in m.of[t] <=> t \in m.threads[c]

GraphType ==
    /\ threads \subseteq Thread
    /\ threadTags \in [Thread -> SUBSET Tag]
    /\ tags \subseteq Tag
    /\ tagThreads \in [Tag -> SUBSET Thread]
    /\ tagCategories \in [Tag -> SUBSET Category]
    /\ categories \subseteq Category
    /\ parent \in [Category -> Category \cup {NoCategory}]
    /\ children \in [Category -> SUBSET Category]
    /\ categoryTags \in [Category -> SUBSET Tag]
    /\ IsListing(listing)
-----------------------------------------------------------------------------
(* What the operations on listings do to threads_ and categories_.         *)

\* The totals have no influence on what a category lists.
LEMMA TotalsKeepListing ==
    ASSUME NEW m, IsListing(m), NEW k
    PROVE  /\ IsListing(AddTotals(m, k)) /\ IsListing(ForgetReferences(m, k))
           /\ IsListing(DropReferences(m, k))
           /\ AddTotals(m, k).threads = m.threads /\ AddTotals(m, k).of = m.of
           /\ ForgetReferences(m, k).threads = m.threads
           /\ ForgetReferences(m, k).of = m.of
           /\ DropReferences(m, k).threads = m.threads
           /\ DropReferences(m, k).of = m.of
<1>1. /\ IsListing(AddTotals(m, k))
      /\ AddTotals(m, k).threads = m.threads /\ AddTotals(m, k).of = m.of
  <2>1. PICK a, b, c : AddTotals(m, k) =
                    [m EXCEPT !.total = a, !.references = b, !.totalMessages = c]
    BY Zenon DEF AddTotals
  <2> QED
    BY <2>1 DEF IsListing, Field
<1>2. /\ IsListing(ForgetReferences(m, k))
      /\ ForgetReferences(m, k).threads = m.threads
      /\ ForgetReferences(m, k).of = m.of
  <2>1. PICK b : ForgetReferences(m, k) = [m EXCEPT !.references = b]
    BY Zenon DEF ForgetReferences
  <2> QED
    BY <2>1 DEF IsListing, Field
<1>3. /\ IsListing(DropReferences(m, k))
      /\ DropReferences(m, k).threads = ForgetReferences(m, k).threads
      /\ DropReferences(m, k).of = ForgetReferences(m, k).of
  <2>1. PICK a, b : DropReferences(m, k) =
                  [ForgetReferences(m, k) EXCEPT !.total = a, !.totalMessages = b]
    BY Zenon DEF DropReferences
  <2> QED
    BY <1>2, <2>1 DEF IsListing, Field
<1> QED
  BY <1>1, <1>2, <1>3

\* Once counts a pair once.
LEMMA OncePositive ==
    ASSUME NEW pairs, NEW c \in Category, NEW t \in Thread
    PROVE  Once(pairs)[c][t] > 0 <=> <<c, t>> \in pairs
BY DEF Once

\* insertDiscussionThreads extends both sides of the relation.
LEMMA InsertListing ==
    ASSUME NEW m, IsListing(m), NEW n
    PROVE  /\ IsListing(InsertThreads(m, n))
           /\ \A c \in Category : InsertThreads(m, n).threads[c] =
                                      m.threads[c] \cup {t \in Thread : n[c][t] > 0}
           /\ \A t \in Thread : InsertThreads(m, n).of[t] =
                                    m.of[t] \cup {c \in Category : n[c][t] > 0}
<1>1. PICK a, k :
        InsertThreads(m, n) =
            AddTotals(
                [m EXCEPT
                    !.threads = [c \in Category |->
                                    m.threads[c] \cup {t \in Thread : n[c][t] > 0}],
                    !.of = [t \in Thread |->
                                    m.of[t] \cup {c \in Category : n[c][t] > 0}],
                    !.messages = a],
                k)
  BY Zenon DEF InsertThreads
<1> DEFINE q == [m EXCEPT
                    !.threads = [c \in Category |->
                                    m.threads[c] \cup {t \in Thread : n[c][t] > 0}],
                    !.of = [t \in Thread |->
                                    m.of[t] \cup {c \in Category : n[c][t] > 0}],
                    !.messages = a]
<1>2. /\ IsListing(q)
      /\ \A c \in Category : q.threads[c] = m.threads[c] \cup {t \in Thread : n[c][t] > 0}
      /\ \A t \in Thread : q.of[t] = m.of[t] \cup {c \in Category : n[c][t] > 0}
  BY DEF IsListing, Field
<1>3. InsertThreads(m, n) = AddTotals(q, k)
  BY <1>1, Zenon
<1> HIDE DEF q
<1>4. /\ IsListing(AddTotals(q, k))
      /\ AddTotals(q, k).threads = q.threads /\ AddTotals(q, k).of = q.of
  BY <1>2, TotalsKeepListing
<1> QED
  BY <1>2, <1>3, <1>4

\* deleteDiscussionThreadIfNoOtherTagsReferenceIt shrinks both sides.
LEMMA WithdrawListing ==
    ASSUME NEW m, IsListing(m), NEW pairs
    PROVE  /\ IsListing(WithdrawThreads(m, pairs))
           /\ \A c \in Category : WithdrawThreads(m, pairs).threads[c] =
                                      {t \in m.threads[c] : <<c, t>> \notin pairs}
           /\ \A t \in Thread : WithdrawThreads(m, pairs).of[t] =
                  {c \in m.of[t] : ~(t \in m.threads[c] /\ <<c, t>> \in pairs)}
<1> DEFINE Listed(c) == {t \in m.threads[c] : <<c, t>> \in pairs}
<1>1. PICK a, k :
        WithdrawThreads(m, pairs) =
            DropReferences(
                [m EXCEPT
                    !.threads = [c \in Category |-> m.threads[c] \ Listed(c)],
                    !.of = [t \in Thread |->
                                m.of[t] \ {c \in Category : t \in Listed(c)}],
                    !.messages = a],
                k)
  BY Zenon DEF WithdrawThreads
<1> DEFINE q == [m EXCEPT
                    !.threads = [c \in Category |-> m.threads[c] \ Listed(c)],
                    !.of = [t \in Thread |->
                                m.of[t] \ {c \in Category : t \in Listed(c)}],
                    !.messages = a]
<1>2. /\ IsListing(q)
      /\ \A c \in Category : q.threads[c] = {t \in m.threads[c] : <<c, t>> \notin pairs}
      /\ \A t \in Thread : q.of[t] =
            {c \in m.of[t] : ~(t \in m.threads[c] /\ <<c, t>> \in pairs)}
  BY DEF IsListing, Field
<1>3. WithdrawThreads(m, pairs) = DropReferences(q, k)
  BY <1>1, Zenon
<1> HIDE DEF q
<1>4. /\ IsListing(DropReferences(q, k))
      /\ DropReferences(q, k).threads = q.threads /\ DropReferences(q, k).of = q.of
  BY <1>2, TotalsKeepListing
<1> QED
  BY <1>2, <1>3, <1>4

\* Neither breaks the agreement of threads and categories.
LEMMA BothSidesChange ==
    ASSUME NEW m, IsListing(m), Agree(m), NEW n, NEW pairs
    PROVE  Agree(InsertThreads(m, n)) /\ Agree(WithdrawThreads(m, pairs))
<1>1. ASSUME NEW t \in Thread, NEW c \in Category
      PROVE  c \in InsertThreads(m, n).of[t] <=> t \in InsertThreads(m, n).threads[c]
  <2>1. /\ InsertThreads(m, n).threads[c] =
              m.threads[c] \cup {u \in Thread : n[c][u] > 0}
        /\ InsertThreads(m, n).of[t] =
              m.of[t] \cup {d \in Category : n[d][t] > 0}
    BY InsertListing
  <2> QED
    BY <2>1 DEF Agree
<1>2. ASSUME NEW t \in Thread, NEW c \in Category
      PROVE  c \in WithdrawThreads(m, pairs).of[t]
                 <=> t \in WithdrawThreads(m, pairs).threads[c]
  <2>1. /\ WithdrawThreads(m, pairs).threads[c] =
              {u \in m.threads[c] : <<c, u>> \notin pairs}
        /\ WithdrawThreads(m, pairs).of[t] =
              {d \in m.of[t] : ~(t \in m.threads[d] /\ <<d, t>> \in pairs)}
    BY WithdrawListing
  <2> QED
    BY <2>1 DEF Agree
<1> QED
  BY <1>1, <1>2 DEF Agree

\* deleteDiscussionThread of all categories of a thread removes it from all
\* that list it.
LEMMA RemoveListing ==
    ASSUME NEW m, IsListing(m), Agree(m), NEW t \in Thread, NEW deleteMessages
    PROVE  /\ IsListing(RemoveThread(m, t, deleteMessages))
           /\ Agree(RemoveThread(m, t, deleteMessages))
           /\ \A c \in Category :
                 RemoveThread(m, t, deleteMessages).threads[c] = m.threads[c] \ {t}
<1> DEFINE listedIn == {c \in m.of[t] : t \in m.threads[c]}
           left == [c \in Category |-> IF c \in listedIn THEN m.threads[c] \ {t}
                                      ELSE m.threads[c]]
<1>1. PICK a, b, d, e :
        RemoveThread(m, t, deleteMessages) =
            [m EXCEPT
                !.threads = left,
                !.of[t] = {},
                !.messages = a, !.total = b, !.references = d, !.totalMessages = e]
  BY Zenon DEF RemoveThread
<1>2. /\ left \in [Category -> SUBSET Thread]
      /\ \A c \in Category : left[c] = m.threads[c] \ {t}
  BY DEF IsListing, Agree
<1> HIDE DEF left
<1>3. /\ DOMAIN RemoveThread(m, t, deleteMessages) = Field
      /\ RemoveThread(m, t, deleteMessages) =
            [f \in Field |-> RemoveThread(m, t, deleteMessages)[f]]
      /\ RemoveThread(m, t, deleteMessages).threads = left
      /\ RemoveThread(m, t, deleteMessages).of = [m.of EXCEPT ![t] = {}]
  BY <1>1 DEF IsListing, Field
<1>4. IsListing(RemoveThread(m, t, deleteMessages))
  BY <1>2, <1>3 DEF IsListing
<1>5. ASSUME NEW u \in Thread, NEW c \in Category
      PROVE  c \in [m.of EXCEPT ![t] = {}][u] <=> u \in left[c]
  BY <1>2 DEF IsListing, Agree
<1> QED
  BY <1>2, <1>3, <1>4, <1>5 DEF Agree

\* Message counts have no influence on what a category lists.
LEMMA CountsKeepListing ==
    ASSUME NEW m, IsListing(m), NEW t, NEW delta
    PROVE  /\ IsListing(updateMessageCount(m, t, delta))
           /\ updateMessageCount(m, t, delta).threads = m.threads
           /\ updateMessageCount(m, t, delta).of = m.of
<1>1. PICK a, b : updateMessageCount(m, t, delta) =
                    [m EXCEPT !.messages = a, !.totalMessages = b]
  BY Zenon DEF updateMessageCount
<1> QED
  BY <1>1 DEF IsListing, Field

\* Deleting a thread removes it from every category and changes nothing else.
LEMMA ReleaseListing ==
    ASSUME NEW m, IsListing(m), Agree(m), NEW t \in Thread, NEW deleteMessages,
           NEW r, r = DetachFromTags(RemoveThread(m, t, deleteMessages), t)
    PROVE  /\ IsListing(r) /\ Agree(r)
           /\ \A c \in Category : r.threads[c] = m.threads[c] \ {t}
<1> DEFINE q == RemoveThread(m, t, deleteMessages)
<1>1. /\ IsListing(q) /\ Agree(q)
      /\ \A c \in Category : q.threads[c] = m.threads[c] \ {t}
  BY RemoveListing
<1>2. PICK C : r = WithdrawThreads(q, {<<c, t>> : c \in C})
  BY Zenon DEF DetachFromTags
<1> HIDE DEF q
<1>3. Agree(r) /\ IsListing(r)
  BY <1>1, <1>2, BothSidesChange, WithdrawListing
<1>4. ASSUME NEW c \in Category
      PROVE  r.threads[c] = m.threads[c] \ {t}
  <2> DEFINE pairs == {<<d, t>> : d \in C}
  <2>1. \A u \in q.threads[c] : <<c, u>> \notin pairs
    BY <1>1
  <2>2. r = WithdrawThreads(q, pairs)
    BY <1>2
  <2> HIDE DEF pairs
  <2>3. r.threads[c] = {u \in q.threads[c] : <<c, u>> \notin pairs}
    BY <1>1, <2>2, WithdrawListing
  <2> QED
    BY <1>1, <2>1, <2>3
<1> QED
  BY <1>3, <1>4
-----------------------------------------------------------------------------
(* What each command does to the listings.                                 *)

Consistent(m) == IsListing(m) /\ Agree(m)

\* DiscussionCategory::updateMessageCount as it is used by the commands that
\* add, delete and move messages.
LEMMA MessagesListing ==
    ASSUME Consistent(listing), NEW t \in Thread, NEW u \in Thread,
           \/ \E delta \in Int : ChangeMessages(t, delta)
           \/ moveDiscussionThreadMessage(t, u)
    PROVE  Consistent(listing') /\ listing'.threads = listing.threads
<1>1. \A m : \A x, delta : Consistent(m) =>
          /\ Consistent(updateMessageCount(m, x, delta))
          /\ updateMessageCount(m, x, delta).threads = m.threads
  BY CountsKeepListing DEF Consistent, Agree
<1>2. CASE \E delta \in Int : ChangeMessages(t, delta)
  BY <1>1, <1>2 DEF ChangeMessages
<1>3. CASE moveDiscussionThreadMessage(t, u)
  <2>1. listing' = updateMessageCount(updateMessageCount(listing, u, 1), t, -1)
    BY <1>3 DEF moveDiscussionThreadMessage
  <2>2. /\ Consistent(updateMessageCount(listing, u, 1))
        /\ updateMessageCount(listing, u, 1).threads = listing.threads
    BY <1>1
  <2> QED
    BY <1>1, <2>1, <2>2
<1> QED
  BY <1>2, <1>3

\* Deleting or merging away a thread.
LEMMA DeleteThreadListing ==
    ASSUME Consistent(listing), NEW t \in Thread, NEW into \in Thread,
           deleteDiscussionThread(t) \/ mergeDiscussionThreads(t, into)
    PROVE  /\ Consistent(listing')
           /\ \A c \in Category : listing'.threads[c] = listing.threads[c] \ {t}
<1>1. CASE deleteDiscussionThread(t)
  <2>1. PICK deleteMessages :
          listing' = DetachFromTags(RemoveThread(listing, t, deleteMessages), t)
    BY <1>1, Zenon DEF deleteDiscussionThread, ReleaseThread
  <2> QED
    BY <2>1, ReleaseListing DEF Consistent
<1>2. CASE mergeDiscussionThreads(t, into)
  <2> DEFINE n == messageCount[t]
             p == updateMessageCount(listing, t, -n)
             q == updateMessageCount(p, into, n)
  <2>1. PICK deleteMessages :
          listing' = DetachFromTags(RemoveThread(q, t, deleteMessages), t)
    BY <1>2, Zenon DEF mergeDiscussionThreads, ReleaseThread
  <2>2. IsListing(p) /\ p.threads = listing.threads /\ p.of = listing.of
    BY CountsKeepListing DEF Consistent
  <2> HIDE DEF p
  <2>3. IsListing(q) /\ q.threads = listing.threads /\ q.of = listing.of
    BY <2>2, CountsKeepListing
  <2>4. Agree(q)
    BY <2>3 DEF Agree, Consistent
  <2> HIDE DEF q
  <2>5. /\ IsListing(listing') /\ Agree(listing')
        /\ \A c \in Category : listing'.threads[c] = q.threads[c] \ {t}
    BY <2>1, <2>3, <2>4, ReleaseListing
  <2> QED
    BY <2>3, <2>5 DEF Consistent
<1> QED
  BY <1>1, <1>2

\* Inserting pairs of a category and a thread, each once.
LEMMA InsertOnce ==
    ASSUME NEW m, Consistent(m), NEW pairs, NEW r, r = InsertThreads(m, Once(pairs))
    PROVE  /\ Consistent(r)
           /\ \A c \in Category : r.threads[c] =
                  m.threads[c] \cup {t \in Thread : <<c, t>> \in pairs}
<1>1. Consistent(r)
  BY InsertListing, BothSidesChange DEF Consistent
<1>2. ASSUME NEW c \in Category
      PROVE  r.threads[c] = m.threads[c] \cup {t \in Thread : <<c, t>> \in pairs}
  <2>1. r.threads[c] = m.threads[c] \cup {t \in Thread : Once(pairs)[c][t] > 0}
    BY InsertListing DEF Consistent
  <2>2. \A t \in Thread : Once(pairs)[c][t] > 0 <=> <<c, t>> \in pairs
    BY OncePositive
  <2> QED
    BY <2>1, <2>2
<1> QED
  BY <1>1, <1>2

\* Withdrawing pairs of a category and a thread takes exactly those threads
\* off the categories.
LEMMA Withdraw ==
    ASSUME NEW m, Consistent(m), NEW pairs, NEW r, r = WithdrawThreads(m, pairs)
    PROVE  /\ Consistent(r)
           /\ \A c \in Category : r.threads[c] =
                  {t \in m.threads[c] : <<c, t>> \notin pairs}
BY WithdrawListing, BothSidesChange DEF Consistent

\* A tag is put on a thread.
LEMMA AddTagToThreadListing ==
    ASSUME GraphType, Consistent(listing), NEW g \in Tag, NEW t \in Thread,
           addDiscussionTagToThread(g, t)
    PROVE  /\ Consistent(listing')
           /\ \A c \in Category : listing'.threads[c] =
                  IF c \in tagCategories[g] THEN listing.threads[c] \cup {t}
                  ELSE listing.threads[c]
<1> DEFINE pairs == {<<c, t>> : c \in {d \in tagCategories[g] :
                                          t \notin listing.threads[d]}}
<1>1. listing' = InsertThreads(listing, Once(pairs))
  BY DEF addDiscussionTagToThread
<1>2. \A c \in Category, u \in Thread :
        <<c, u>> \in pairs <=> u = t /\ c \in tagCategories[g] /\ t \notin listing.threads[c]
  OBVIOUS
<1> HIDE DEF pairs
<1>3. /\ Consistent(listing')
      /\ \A c \in Category : listing'.threads[c] =
            listing.threads[c] \cup {u \in Thread : <<c, u>> \in pairs}
  BY <1>1, InsertOnce
<1> QED
  BY <1>2, <1>3

\* A tag is taken off a thread.
LEMMA RemoveTagFromThreadListing ==
    ASSUME GraphType, Consistent(listing), NEW g \in Tag, NEW t \in Thread,
           removeDiscussionTagFromThread(g, t)
    PROVE  /\ Consistent(listing')
           /\ \A c \in Category : listing'.threads[c] =
                  IF /\ c \in tagCategories[g]
                     /\ (threadTags[t] \ {g}) \cap categoryTags[c] = {}
                  THEN listing.threads[c] \ {t} ELSE listing.threads[c]
<1> DEFINE pairs == {<<c, t>> : c \in {d \in tagCategories[g] :
                                          threadTags'[t] \cap categoryTags[d] = {}}}
<1>0. threadTags'[t] = threadTags[t] \ {g}
  BY DEF removeDiscussionTagFromThread, GraphType
<1>1. listing' = WithdrawThreads(listing, pairs)
  BY DEF removeDiscussionTagFromThread
<1>2. \A c \in Category, u \in Thread :
        <<c, u>> \in pairs <=> /\ u = t /\ c \in tagCategories[g]
                              /\ (threadTags[t] \ {g}) \cap categoryTags[c] = {}
  BY <1>0
<1> HIDE DEF pairs
<1>3. /\ Consistent(listing')
      /\ \A c \in Category : listing'.threads[c] =
            {u \in listing.threads[c] : <<c, u>> \notin pairs}
  BY <1>1, Withdraw
<1>4. \A c \in Category : listing.threads[c] \subseteq Thread
  BY DEF GraphType, IsListing
<1> QED
  BY <1>2, <1>3, <1>4

\* DiscussionCategory::removeTag withdraws the threads that have no other tag
\* of the category.
LEMMA RemoveTagListing ==
    ASSUME NEW m, Consistent(m), NEW g, NEW from, NEW inCategory, NEW onThread,
           NEW r, r = RemoveTag(m, g, from, inCategory, onThread)
    PROVE  /\ Consistent(r)
           /\ \A c \in Category : r.threads[c] =
                  {t \in m.threads[c] :
                      ~(/\ c \in from /\ g \in inCategory[c] /\ t \in tagThreads[g]
                        /\ onThread[t] \cap (inCategory[c] \ {g}) = {})}
<1> DEFINE pairs == {pair \in {c \in from : g \in inCategory[c]} \X tagThreads[g] :
                        onThread[pair[2]] \cap (inCategory[pair[1]] \ {g}) = {}}
<1>1. r = WithdrawThreads(m, pairs)
  BY Zenon DEF RemoveTag
<1>2. \A c, t : <<c, t>> \in pairs <=>
            /\ c \in from /\ g \in inCategory[c] /\ t \in tagThreads[g]
            /\ onThread[t] \cap (inCategory[c] \ {g}) = {}
  OBVIOUS
<1> HIDE DEF pairs
<1>3. /\ Consistent(r)
      /\ \A c \in Category : r.threads[c] =
            {t \in m.threads[c] : <<c, t>> \notin pairs}
  BY <1>1, Withdraw
<1> QED
  BY <1>2, <1>3

\* A tag is deleted.
LEMMA DeleteTagListing ==
    ASSUME Consistent(listing), NEW g \in Tag, deleteDiscussionTag(g)
    PROVE  /\ Consistent(listing')
           /\ \A c \in Category : listing'.threads[c] =
                  {t \in listing.threads[c] :
                      ~(/\ c \in tagCategories[g] /\ g \in categoryTags[c]
                        /\ t \in tagThreads[g]
                        /\ threadTags[t] \cap (categoryTags[c] \ {g}) = {})}
<1>1. listing' = RemoveTag(listing, g, tagCategories[g], categoryTags, threadTags)
  BY DEF deleteDiscussionTag, ReleaseTag
<1> QED
  BY <1>1, RemoveTagListing

\* A tag is taken out of a category.
LEMMA RemoveTagFromCategoryListing ==
    ASSUME Consistent(listing), NEW g \in Tag, NEW d \in Category,
           removeDiscussionTagFromCategory(g, d)
    PROVE  /\ Consistent(listing')
           /\ \A c \in Category : listing'.threads[c] =
                  {t \in listing.threads[c] :
                      ~(/\ c \in {d} /\ g \in categoryTags[c] /\ t \in tagThreads[g]
                        /\ threadTags[t] \cap (categoryTags[c] \ {g}) = {})}
<1>1. listing' = RemoveTag(listing, g, {d}, categoryTags, threadTags)
  BY DEF removeDiscussionTagFromCategory
<1> QED
  BY <1>1, RemoveTagListing

\* A tag is put into a category.
LEMMA AddTagToCategoryListing ==
    ASSUME GraphType, Consistent(listing), NEW g \in Tag, NEW d \in Category,
           addDiscussionTagToCategory(g, d)
    PROVE  /\ Consistent(listing')
           /\ \A c \in Category : listing'.threads[c] =
                  IF c = d /\ g \notin categoryTags[d]
                  THEN listing.threads[c] \cup tagThreads[g] ELSE listing.threads[c]
<1>1. CASE g \in categoryTags[d]
  BY <1>1 DEF addDiscussionTagToCategory
<1>2. CASE g \notin categoryTags[d]
  <2> DEFINE pairs == {d} \X (tagThreads[g] \ listing.threads[d])
  <2>1. listing' = InsertThreads(listing, Once(pairs))
    BY <1>2 DEF addDiscussionTagToCategory
  <2>2. \A c, t : <<c, t>> \in pairs <=>
              c = d /\ t \in tagThreads[g] /\ t \notin listing.threads[d]
    OBVIOUS
  <2> HIDE DEF pairs
  <2>3. /\ Consistent(listing')
        /\ \A c \in Category : listing'.threads[c] =
              listing.threads[c] \cup {t \in Thread : <<c, t>> \in pairs}
    BY <2>1, InsertOnce
  <2>4. tagThreads[g] \subseteq Thread
    BY DEF GraphType
  <2> QED
    BY <1>2, <2>2, <2>3, <2>4
<1> QED
  BY <1>1, <1>2

\* A category gets another parent.
LEMMA ChangeParentListing ==
    ASSUME Consistent(listing), NEW d \in Category, NEW p,
           changeDiscussionCategoryParent(d, p)
    PROVE  Consistent(listing') /\ listing'.threads = listing.threads
<1> DEFINE left == ForgetReferences(listing, ReferencesOf(listing, d, Ancestors(d)))
<1>1. /\ IsListing(left) /\ left.threads = listing.threads /\ left.of = listing.of
  BY TotalsKeepListing DEF Consistent
<1>2. \/ listing' = left
      \/ listing' = AddTotals(left, ReferencesOf(left, d, Lineage(p)))
  BY Zenon DEF changeDiscussionCategoryParent
<1> HIDE DEF left
<1>3. /\ IsListing(listing')
      /\ listing'.threads = listing.threads /\ listing'.of = listing.of
  BY <1>1, <1>2, TotalsKeepListing
<1> QED
  BY <1>3 DEF Consistent, Agree

\* A category is deleted.
LEMMA DeleteCategoryListing ==
    ASSUME Consistent(listing), NEW d \in Category, deleteDiscussionCategory(d)
    PROVE  /\ Consistent(listing')
           /\ \A c \in Category : listing'.threads[c] =
                  IF c = d THEN {} ELSE listing.threads[c]
<1> DEFINE alone == ForgetReferences(listing, ReferencesOfChildren(listing, d))
           left == ForgetReferences(alone, ReferencesOf(alone, d, Ancestors(d)))
<1>1. /\ IsListing(alone) /\ alone.threads = listing.threads
      /\ alone.of = listing.of
  BY TotalsKeepListing DEF Consistent
<1> HIDE DEF alone
<1>2. /\ IsListing(left) /\ left.threads = listing.threads /\ left.of = listing.of
  BY <1>1, TotalsKeepListing
<1>3. PICK a :
        listing' = [left EXCEPT
                      !.threads[d] = {},
                      !.of = [t \in Thread |-> IF t \in left.threads[d]
                                               THEN left.of[t] \ {d} ELSE left.of[t]],
                      !.messages[d] = 0,
                      !.total[d] = {},
                      !.references[d] = a,
                      !.totalMessages[d] = 0]
  BY Zenon DEF deleteDiscussionCategory, alone
<1> HIDE DEF left
<1> DEFINE others == [t \in Thread |-> IF t \in left.threads[d]
                                       THEN left.of[t] \ {d} ELSE left.of[t]]
<1>4. /\ DOMAIN listing' = Field
      /\ listing' = [f \in Field |-> listing'[f]]
      /\ listing'.threads = [left.threads EXCEPT ![d] = {}]
      /\ listing'.of = others
  <2> HIDE DEF others
  <2>1. listing' = [left EXCEPT
                      !.threads[d] = {}, !.of = others, !.messages[d] = 0,
                      !.total[d] = {}, !.references[d] = a, !.totalMessages[d] = 0]
    BY <1>3 DEF others
  <2> QED
    BY <1>2, <2>1 DEF IsListing, Field
<1>5. IsListing(listing')
  BY <1>2, <1>4 DEF IsListing
<1>6. ASSUME NEW t \in Thread, NEW c \in Category
      PROVE  c \in listing'.of[t] <=> t \in listing'.threads[c]
  BY <1>2, <1>4 DEF IsListing, Agree, Consistent
<1> QED
  BY <1>2, <1>4, <1>5, <1>6 DEF IsListing, Agree, Consistent

\* Merging tags adds threads of the two tags, to their categories only.
LEMMA MergeTagsListing ==
    ASSUME GraphType, Consistent(listing), NEW from \in Tag, NEW into \in Tag,
           mergeDiscussionTags(from, into)
    PROVE  /\ Consistent(listing')
           /\ \A c \in Category, t \in Thread : t \in listing'.threads[c] =>
                  \/ t \in listing.threads[c]
                  \/ /\ t \in tagThreads[from] \cup tagThreads[into]
                     /\ c \in tagCategories[from] \cup tagCategories[into]
<1> DEFINE merged == tagThreads[from] \cup tagThreads[into]
           added == {c \in tagCategories[from] : into \notin categoryTags[c]}
           pairs(q) == {pair \in added \X merged :
                          pair[2] \notin q.threads[pair[1]]}
           inCategory == [c \in Category |->
                            IF c \in added THEN categoryTags[c] \cup {into}
                            ELSE categoryTags[c]]
           onThread == [t \in Thread |->
                            IF t \in tagThreads[from] THEN threadTags[t] \cup {into}
                            ELSE threadTags[t]]
<1>1. PICK array \in SetToSeqs(tagThreads[from] \ tagThreads[into]),
           order \in SetToSeqs(tagCategories[into]) :
        LET q == InsertThreads(listing, Insertions(array, order))
        IN  ReleaseTag(InsertThreads(q, Once(pairs(q))), from, inCategory, onThread)
  BY Zenon DEF mergeDiscussionTags
<1> DEFINE n == Insertions(array, order)
           q == InsertThreads(listing, n)
           r == InsertThreads(q, Once(pairs(q)))
<1>2. \A c \in Category, t \in Thread : n[c][t] > 0 =>
          c \in tagCategories[into] /\ t \in tagThreads[from]
  <2>1. ToSet(array) \subseteq tagThreads[from] /\ ToSet(order) \subseteq tagCategories[into]
    BY DEF SetToSeqs, ToSet
  <2>2. \A c \in Category, t \in Thread : n[c][t] > 0 =>
            c \in ToSet(order) /\ t \in ToSet(array)
    <3> HIDE DEF merged, added
    <3> QED
      BY DEF Insertions
  <2> HIDE DEF n
  <2> QED
    BY <2>1, <2>2
<1> HIDE DEF n
<1>3. /\ Consistent(q)
      /\ \A c \in Category : q.threads[c] =
            listing.threads[c] \cup {t \in Thread : n[c][t] > 0}
  BY InsertListing, BothSidesChange DEF Consistent
<1>4. \A c, t : <<c, t>> \in pairs(q) => c \in tagCategories[from] /\ t \in merged
  OBVIOUS
<1> HIDE DEF q, pairs
<1>5. /\ Consistent(r)
      /\ \A c \in Category : r.threads[c] =
            q.threads[c] \cup {t \in Thread : <<c, t>> \in pairs(q)}
  BY <1>3, InsertOnce
<1>6. listing' = RemoveTag(r, from, tagCategories[from], inCategory, onThread)
  BY <1>1, Zenon DEF q, n, pairs, ReleaseTag
<1> HIDE DEF r, inCategory, onThread
<1>7. /\ Consistent(listing')
      /\ \A c \in Category : listing'.threads[c] \subseteq r.threads[c]
  BY <1>5, <1>6, RemoveTagListing
<1> QED
  BY <1>2, <1>3, <1>4, <1>5, <1>7
-----------------------------------------------------------------------------
(* Type correctness of everything but the counts.                          *)

\* No command breaks the agreement of threads and categories.
LEMMA ListingStep ==
    ASSUME GraphType, Consistent(listing), Next
    PROVE  Consistent(listing')
<1>1. ASSUME NEW t \in Thread, addNewDiscussionThread(t)
      PROVE  Consistent(listing')
  BY <1>1 DEF addNewDiscussionThread
<1>2. ASSUME NEW t \in Thread, deleteDiscussionThread(t)
      PROVE  Consistent(listing')
  BY <1>2, DeleteThreadListing
<1>3. ASSUME NEW t \in Thread, addNewDiscussionMessageInThread(t)
      PROVE  Consistent(listing')
  BY <1>3, MessagesListing DEF addNewDiscussionMessageInThread
<1>4. ASSUME NEW t \in Thread, deleteDiscussionMessage(t)
      PROVE  Consistent(listing')
  BY <1>4, MessagesListing DEF deleteDiscussionMessage
<1>5. ASSUME NEW from \in Thread, NEW into \in Thread, moveDiscussionThreadMessage(from, into)
      PROVE  Consistent(listing')
  BY <1>5, MessagesListing
<1>6. ASSUME NEW from \in Thread, NEW into \in Thread, mergeDiscussionThreads(from, into)
      PROVE  Consistent(listing')
  BY <1>6, DeleteThreadListing
<1>7. ASSUME NEW g \in Tag, addNewDiscussionTag(g)
      PROVE  Consistent(listing')
  BY <1>7 DEF addNewDiscussionTag
<1>8. ASSUME NEW g \in Tag, deleteDiscussionTag(g)
      PROVE  Consistent(listing')
  BY <1>8, DeleteTagListing
<1>9. ASSUME NEW g \in Tag, NEW t \in Thread, addDiscussionTagToThread(g, t)
      PROVE  Consistent(listing')
  BY <1>9, AddTagToThreadListing
<1>10. ASSUME NEW g \in Tag, NEW t \in Thread, removeDiscussionTagFromThread(g, t)
      PROVE  Consistent(listing')
  BY <1>10, RemoveTagFromThreadListing
<1>11. ASSUME NEW from \in Tag, NEW into \in Tag, mergeDiscussionTags(from, into)
      PROVE  Consistent(listing')
  BY <1>11, MergeTagsListing
<1>12. ASSUME NEW c \in Category, NEW p \in Category \cup {NoCategory},
              addNewDiscussionCategory(c, p)
      PROVE  Consistent(listing')
  BY <1>12 DEF addNewDiscussionCategory
<1>13. ASSUME NEW c \in Category, NEW p \in Category \cup {NoCategory},
              changeDiscussionCategoryParent(c, p)
      PROVE  Consistent(listing')
  BY <1>13, ChangeParentListing
<1>14. ASSUME NEW c \in Category, deleteDiscussionCategory(c)
      PROVE  Consistent(listing')
  BY <1>14, DeleteCategoryListing
<1>15. ASSUME NEW g \in Tag, NEW c \in Category, addDiscussionTagToCategory(g, c)
      PROVE  Consistent(listing')
  BY <1>15, AddTagToCategoryListing
<1>16. ASSUME NEW g \in Tag, NEW c \in Category, removeDiscussionTagFromCategory(g, c)
      PROVE  Consistent(listing')
  BY <1>16, RemoveTagFromCategoryListing
<1> QED
  BY <1>1, <1>2, <1>3, <1>4, <1>5, <1>6, <1>7, <1>8, <1>9, <1>10, <1>11,
     <1>12, <1>13, <1>14, <1>15, <1>16 DEF Next

\* Every command keeps the part of the state that holds entities well typed.
LEMMA GraphTypeStep ==
    ASSUME GraphType, Consistent(listing), Next
    PROVE  GraphType'
<1>0. IsListing(listing')
  BY ListingStep DEF Consistent
<1>1. ASSUME NEW t \in Thread, addNewDiscussionThread(t)
      PROVE  GraphType'
  BY <1>1, <1>0 DEF
    GraphType, addNewDiscussionThread, threadVars, tagVars, treeVars
<1>2. ASSUME NEW t \in Thread, deleteDiscussionThread(t)
      PROVE  GraphType'
  BY <1>2, <1>0 DEF
    GraphType, deleteDiscussionThread, ReleaseThread, threadVars, tagVars,
    treeVars
<1>3. ASSUME NEW t \in Thread, addNewDiscussionMessageInThread(t)
      PROVE  GraphType'
  BY <1>3, <1>0 DEF
    GraphType, addNewDiscussionMessageInThread, ChangeMessages, threadVars,
    tagVars, treeVars
<1>4. ASSUME NEW t \in Thread, deleteDiscussionMessage(t)
      PROVE  GraphType'
  BY <1>4, <1>0 DEF
    GraphType, deleteDiscussionMessage, ChangeMessages, threadVars, tagVars,
    treeVars
<1>5. ASSUME NEW from \in Thread, NEW into \in Thread, moveDiscussionThreadMessage(from, into)
      PROVE  GraphType'
  BY <1>5, <1>0 DEF
    GraphType, moveDiscussionThreadMessage, threadVars, tagVars, treeVars
<1>6. ASSUME NEW from \in Thread, NEW into \in Thread, mergeDiscussionThreads(from, into)
      PROVE  GraphType'
  BY <1>6, <1>0 DEF
    GraphType, mergeDiscussionThreads, ReleaseThread, threadVars, tagVars,
    treeVars
<1>7. ASSUME NEW g \in Tag, addNewDiscussionTag(g)
      PROVE  GraphType'
  BY <1>7, <1>0 DEF
    GraphType, addNewDiscussionTag, threadVars, tagVars, treeVars
<1>8. ASSUME NEW g \in Tag, deleteDiscussionTag(g)
      PROVE  GraphType'
  BY <1>8, <1>0 DEF
    GraphType, deleteDiscussionTag, ReleaseTag, threadVars, tagVars, treeVars
<1>9. ASSUME NEW g \in Tag, NEW t \in Thread, addDiscussionTagToThread(g, t)
      PROVE  GraphType'
  BY <1>9, <1>0 DEF
    GraphType, addDiscussionTagToThread, threadVars, tagVars, treeVars
<1>10. ASSUME NEW g \in Tag, NEW t \in Thread, removeDiscussionTagFromThread(g, t)
      PROVE  GraphType'
  BY <1>10, <1>0 DEF
    GraphType, removeDiscussionTagFromThread, threadVars, tagVars, treeVars
<1>11. ASSUME NEW from \in Tag, NEW into \in Tag, mergeDiscussionTags(from, into)
      PROVE  GraphType'
  BY <1>11, <1>0 DEF
    GraphType, mergeDiscussionTags, ReleaseTag, threadVars, tagVars, treeVars
<1>12. ASSUME NEW c \in Category, NEW p \in Category \cup {NoCategory},
              addNewDiscussionCategory(c, p)
      PROVE  GraphType'
  BY <1>12, <1>0 DEF
    GraphType, addNewDiscussionCategory, threadVars, tagVars, treeVars
<1>13. ASSUME NEW c \in Category, NEW p \in Category \cup {NoCategory},
              changeDiscussionCategoryParent(c, p)
      PROVE  GraphType'
  BY <1>13, <1>0 DEF
    GraphType, changeDiscussionCategoryParent, threadVars, tagVars, treeVars
<1>14. ASSUME NEW c \in Category, deleteDiscussionCategory(c)
      PROVE  GraphType'
  BY <1>14, <1>0 DEF
    GraphType, deleteDiscussionCategory, threadVars, tagVars, treeVars
<1>15. ASSUME NEW g \in Tag, NEW c \in Category, addDiscussionTagToCategory(g, c)
      PROVE  GraphType'
  BY <1>15, <1>0 DEF
    GraphType, addDiscussionTagToCategory, threadVars, tagVars, treeVars
<1>16. ASSUME NEW g \in Tag, NEW c \in Category, removeDiscussionTagFromCategory(g, c)
      PROVE  GraphType'
  BY <1>16, <1>0 DEF
    GraphType, removeDiscussionTagFromCategory, threadVars, tagVars, treeVars
<1> QED
  BY <1>1, <1>2, <1>3, <1>4, <1>5, <1>6, <1>7, <1>8, <1>9, <1>10, <1>11,
     <1>12, <1>13, <1>14, <1>15, <1>16 DEF Next
-----------------------------------------------------------------------------
(* Threads and tags.                                                       *)

\* Every command updates both sides of the relation between threads and tags.
LEMMA TagsAndThreadsStep ==
    ASSUME GraphType, TagsAndThreadsAgree, Next
    PROVE  TagsAndThreadsAgree'
<1>1. ASSUME NEW t \in Thread, addNewDiscussionThread(t)
      PROVE  TagsAndThreadsAgree'
  BY <1>1 DEF
    GraphType, TagsAndThreadsAgree, addNewDiscussionThread, threadVars,
    tagVars, treeVars
<1>2. ASSUME NEW t \in Thread, deleteDiscussionThread(t)
      PROVE  TagsAndThreadsAgree'
  BY <1>2 DEF
    GraphType, TagsAndThreadsAgree, deleteDiscussionThread, ReleaseThread,
    threadVars, tagVars, treeVars
<1>3. ASSUME NEW t \in Thread, addNewDiscussionMessageInThread(t)
      PROVE  TagsAndThreadsAgree'
  BY <1>3 DEF
    GraphType, TagsAndThreadsAgree, addNewDiscussionMessageInThread,
    ChangeMessages, threadVars, tagVars, treeVars
<1>4. ASSUME NEW t \in Thread, deleteDiscussionMessage(t)
      PROVE  TagsAndThreadsAgree'
  BY <1>4 DEF
    GraphType, TagsAndThreadsAgree, deleteDiscussionMessage, ChangeMessages,
    threadVars, tagVars, treeVars
<1>5. ASSUME NEW from \in Thread, NEW into \in Thread, moveDiscussionThreadMessage(from, into)
      PROVE  TagsAndThreadsAgree'
  BY <1>5 DEF
    GraphType, TagsAndThreadsAgree, moveDiscussionThreadMessage, threadVars,
    tagVars, treeVars
<1>6. ASSUME NEW from \in Thread, NEW into \in Thread, mergeDiscussionThreads(from, into)
      PROVE  TagsAndThreadsAgree'
  BY <1>6 DEF
    GraphType, TagsAndThreadsAgree, mergeDiscussionThreads, ReleaseThread,
    threadVars, tagVars, treeVars
<1>7. ASSUME NEW g \in Tag, addNewDiscussionTag(g)
      PROVE  TagsAndThreadsAgree'
  BY <1>7 DEF
    GraphType, TagsAndThreadsAgree, addNewDiscussionTag, threadVars, tagVars,
    treeVars
<1>8. ASSUME NEW g \in Tag, deleteDiscussionTag(g)
      PROVE  TagsAndThreadsAgree'
  BY <1>8 DEF
    GraphType, TagsAndThreadsAgree, deleteDiscussionTag, ReleaseTag,
    threadVars, tagVars, treeVars
<1>9. ASSUME NEW g \in Tag, NEW t \in Thread, addDiscussionTagToThread(g, t)
      PROVE  TagsAndThreadsAgree'
  BY <1>9 DEF
    GraphType, TagsAndThreadsAgree, addDiscussionTagToThread, threadVars,
    tagVars, treeVars
<1>10. ASSUME NEW g \in Tag, NEW t \in Thread, removeDiscussionTagFromThread(g, t)
      PROVE  TagsAndThreadsAgree'
  BY <1>10 DEF
    GraphType, TagsAndThreadsAgree, removeDiscussionTagFromThread, threadVars,
    tagVars, treeVars
<1>11. ASSUME NEW from \in Tag, NEW into \in Tag, mergeDiscussionTags(from, into)
      PROVE  TagsAndThreadsAgree'
  BY <1>11 DEF
    GraphType, TagsAndThreadsAgree, mergeDiscussionTags, ReleaseTag,
    threadVars, tagVars, treeVars
<1>12. ASSUME NEW c \in Category, NEW p \in Category \cup {NoCategory},
              addNewDiscussionCategory(c, p)
      PROVE  TagsAndThreadsAgree'
  BY <1>12 DEF
    GraphType, TagsAndThreadsAgree, addNewDiscussionCategory, threadVars,
    tagVars, treeVars
<1>13. ASSUME NEW c \in Category, NEW p \in Category \cup {NoCategory},
              changeDiscussionCategoryParent(c, p)
      PROVE  TagsAndThreadsAgree'
  BY <1>13 DEF
    GraphType, TagsAndThreadsAgree, changeDiscussionCategoryParent,
    threadVars, tagVars, treeVars
<1>14. ASSUME NEW c \in Category, deleteDiscussionCategory(c)
      PROVE  TagsAndThreadsAgree'
  BY <1>14 DEF
    GraphType, TagsAndThreadsAgree, deleteDiscussionCategory, threadVars,
    tagVars, treeVars
<1>15. ASSUME NEW g \in Tag, NEW c \in Category, addDiscussionTagToCategory(g, c)
      PROVE  TagsAndThreadsAgree'
  BY <1>15 DEF
    GraphType, TagsAndThreadsAgree, addDiscussionTagToCategory, threadVars,
    tagVars, treeVars
<1>16. ASSUME NEW g \in Tag, NEW c \in Category, removeDiscussionTagFromCategory(g, c)
      PROVE  TagsAndThreadsAgree'
  BY <1>16 DEF
    GraphType, TagsAndThreadsAgree, removeDiscussionTagFromCategory,
    threadVars, tagVars, treeVars
<1> QED
  BY <1>1, <1>2, <1>3, <1>4, <1>5, <1>6, <1>7, <1>8, <1>9, <1>10, <1>11,
     <1>12, <1>13, <1>14, <1>15, <1>16 DEF Next
-----------------------------------------------------------------------------
(* Tags and categories, as far as merges of tags keep it.                  *)

TagsKnowTheirCategories ==
    /\ \A g \in Tag, c \in Category : c \in tagCategories[g] =>
          g \in categoryTags[c] /\ g \in tags /\ c \in categories
    /\ \A c \in Category : categoryTags[c] # {} => c \in categories

\* Every command keeps what a tag says of its categories true, merges of tags
\* included.
LEMMA TagsKnowTheirCategoriesStep ==
    ASSUME GraphType, TagsKnowTheirCategories, Next
    PROVE  TagsKnowTheirCategories'
<1>1. ASSUME NEW t \in Thread, addNewDiscussionThread(t)
      PROVE  TagsKnowTheirCategories'
  BY <1>1 DEF
    GraphType, TagsKnowTheirCategories, addNewDiscussionThread, threadVars,
    tagVars, treeVars
<1>2. ASSUME NEW t \in Thread, deleteDiscussionThread(t)
      PROVE  TagsKnowTheirCategories'
  BY <1>2 DEF
    GraphType, TagsKnowTheirCategories, deleteDiscussionThread, ReleaseThread,
    threadVars, tagVars, treeVars
<1>3. ASSUME NEW t \in Thread, addNewDiscussionMessageInThread(t)
      PROVE  TagsKnowTheirCategories'
  BY <1>3 DEF
    GraphType, TagsKnowTheirCategories, addNewDiscussionMessageInThread,
    ChangeMessages, threadVars, tagVars, treeVars
<1>4. ASSUME NEW t \in Thread, deleteDiscussionMessage(t)
      PROVE  TagsKnowTheirCategories'
  BY <1>4 DEF
    GraphType, TagsKnowTheirCategories, deleteDiscussionMessage,
    ChangeMessages, threadVars, tagVars, treeVars
<1>5. ASSUME NEW from \in Thread, NEW into \in Thread, moveDiscussionThreadMessage(from, into)
      PROVE  TagsKnowTheirCategories'
  BY <1>5 DEF
    GraphType, TagsKnowTheirCategories, moveDiscussionThreadMessage,
    threadVars, tagVars, treeVars
<1>6. ASSUME NEW from \in Thread, NEW into \in Thread, mergeDiscussionThreads(from, into)
      PROVE  TagsKnowTheirCategories'
  BY <1>6 DEF
    GraphType, TagsKnowTheirCategories, mergeDiscussionThreads, ReleaseThread,
    threadVars, tagVars, treeVars
<1>7. ASSUME NEW g \in Tag, addNewDiscussionTag(g)
      PROVE  TagsKnowTheirCategories'
  BY <1>7 DEF
    GraphType, TagsKnowTheirCategories, addNewDiscussionTag, threadVars,
    tagVars, treeVars
<1>8. ASSUME NEW g \in Tag, deleteDiscussionTag(g)
      PROVE  TagsKnowTheirCategories'
  BY <1>8 DEF
    GraphType, TagsKnowTheirCategories, deleteDiscussionTag, ReleaseTag,
    threadVars, tagVars, treeVars
<1>9. ASSUME NEW g \in Tag, NEW t \in Thread, addDiscussionTagToThread(g, t)
      PROVE  TagsKnowTheirCategories'
  BY <1>9 DEF
    GraphType, TagsKnowTheirCategories, addDiscussionTagToThread, threadVars,
    tagVars, treeVars
<1>10. ASSUME NEW g \in Tag, NEW t \in Thread, removeDiscussionTagFromThread(g, t)
      PROVE  TagsKnowTheirCategories'
  BY <1>10 DEF
    GraphType, TagsKnowTheirCategories, removeDiscussionTagFromThread,
    threadVars, tagVars, treeVars
<1>11. ASSUME NEW from \in Tag, NEW into \in Tag, mergeDiscussionTags(from, into)
      PROVE  TagsKnowTheirCategories'
  BY <1>11 DEF
    GraphType, TagsKnowTheirCategories, mergeDiscussionTags, ReleaseTag,
    threadVars, tagVars, treeVars
<1>12. ASSUME NEW c \in Category, NEW p \in Category \cup {NoCategory},
              addNewDiscussionCategory(c, p)
      PROVE  TagsKnowTheirCategories'
  BY <1>12 DEF
    GraphType, TagsKnowTheirCategories, addNewDiscussionCategory, threadVars,
    tagVars, treeVars
<1>13. ASSUME NEW c \in Category, NEW p \in Category \cup {NoCategory},
              changeDiscussionCategoryParent(c, p)
      PROVE  TagsKnowTheirCategories'
  BY <1>13 DEF
    GraphType, TagsKnowTheirCategories, changeDiscussionCategoryParent,
    threadVars, tagVars, treeVars
<1>14. ASSUME NEW c \in Category, deleteDiscussionCategory(c)
      PROVE  TagsKnowTheirCategories'
  BY <1>14 DEF
    GraphType, TagsKnowTheirCategories, deleteDiscussionCategory, threadVars,
    tagVars, treeVars
<1>15. ASSUME NEW g \in Tag, NEW c \in Category, addDiscussionTagToCategory(g, c)
      PROVE  TagsKnowTheirCategories'
  BY <1>15 DEF
    GraphType, TagsKnowTheirCategories, addDiscussionTagToCategory,
    threadVars, tagVars, treeVars
<1>16. ASSUME NEW g \in Tag, NEW c \in Category, removeDiscussionTagFromCategory(g, c)
      PROVE  TagsKnowTheirCategories'
  BY <1>16 DEF
    GraphType, TagsKnowTheirCategories, removeDiscussionTagFromCategory,
    threadVars, tagVars, treeVars
<1> QED
  BY <1>1, <1>2, <1>3, <1>4, <1>5, <1>6, <1>7, <1>8, <1>9, <1>10, <1>11,
     <1>12, <1>13, <1>14, <1>15, <1>16 DEF Next
-----------------------------------------------------------------------------
(* The forest of categories.                                               *)

\* Every set of categories has one whose parent is outside of it.
Grounded(up) == \A S \in SUBSET Category : S # {} => \E c \in S : up[c] \notin S

\* A new category below an existing one, or on its own, makes no cycle.
LEMMA NewCategoryGrounded ==
    ASSUME GraphType, CategoryForest, NEW c \in Category,
           NEW p \in Category \cup {NoCategory}, addNewDiscussionCategory(c, p)
    PROVE  Grounded(parent')
<1>1. SUFFICES ASSUME NEW S \in SUBSET Category, S # {}
               PROVE  \E x \in S : parent'[x] \notin S
  BY DEF Grounded
<1>2. /\ p # c
      /\ \A x \in Category : parent[x] # c
      /\ \A x \in Category : parent'[x] = IF x = c THEN p ELSE parent[x]
  BY NoCategoryAssumption DEF addNewDiscussionCategory, GraphType, CategoryForest
<1>3. CASE S = {c}
  BY <1>2, <1>3
<1>4. CASE S \ {c} # {}
  <2>1. PICK x \in S \ {c} : parent[x] \notin S \ {c}
    BY <1>4 DEF CategoryForest
  <2> QED
    BY <1>2, <2>1
<1> QED
  BY <1>1, <1>3, <1>4

\* A category that is moved below one that is not among its descendants
\* (hasAncestor) makes no cycle: the set that keeps it out of the ancestors of
\* its new parent is closed under parents.
LEMMA MovedCategoryGrounded ==
    ASSUME GraphType, CategoryForest, NEW c \in Category,
           NEW p \in Category \cup {NoCategory}, changeDiscussionCategoryParent(c, p)
    PROVE  Grounded(parent')
<1>1. SUFFICES ASSUME NEW S \in SUBSET Category, S # {}
               PROVE  \E x \in S : parent'[x] \notin S
  BY DEF Grounded
<1>2. /\ p # c
      /\ p # NoCategory => c \notin Ancestors(p)
      /\ \A x \in Category : parent'[x] = IF x = c THEN p ELSE parent[x]
  BY NoCategoryAssumption
     DEF changeDiscussionCategoryParent, hasAncestor, GraphType
<1>3. CASE p \notin S /\ c \in S
  BY <1>2, <1>3
<1>4. CASE c \notin S
  BY <1>1, <1>2, <1>4 DEF CategoryForest
<1>5. CASE p \in S /\ c \in S
  <2>1. p \in Category /\ p # NoCategory /\ c \notin Ancestors(p)
    BY <1>2, <1>5, NoCategoryAssumption
  <2>2. PICK A \in SUBSET Category :
          /\ \A x \in A \cup {p} : parent[x] \in Category => parent[x] \in A
          /\ c \notin A
    BY <2>1 DEF Ancestors, ParentsUntil
  <2> DEFINE U == (A \cup {p}) \cap S
  <2>3. U \in SUBSET Category /\ U # {} /\ c \notin U
    BY <1>2, <1>5, <2>1, <2>2
  <2>4. PICK x \in U : parent[x] \notin U
    BY <2>3 DEF CategoryForest
  <2>5. parent[x] \notin S
    BY <2>2, <2>4
  <2> QED
    BY <1>2, <2>3, <2>4, <2>5
<1> QED
  BY <1>3, <1>4, <1>5

\* A deleted category leaves roots behind.
LEMMA DeletedCategoryGrounded ==
    ASSUME GraphType, CategoryForest, NEW c \in Category, deleteDiscussionCategory(c)
    PROVE  Grounded(parent')
<1>1. SUFFICES ASSUME NEW S \in SUBSET Category, S # {}
               PROVE  \E x \in S : parent'[x] \notin S
  BY DEF Grounded
<1>2. \A x \in Category : parent'[x] = NoCategory \/ parent'[x] = parent[x]
  BY DEF deleteDiscussionCategory, GraphType
<1>3. PICK x \in S : parent[x] \notin S
  BY <1>1 DEF CategoryForest
<1>4. NoCategory \notin S
  BY NoCategoryAssumption
<1> QED
  BY <1>2, <1>3, <1>4

\* Every command keeps the categories a forest.
LEMMA CategoryForestStep ==
    ASSUME GraphType, CategoryForest, Next
    PROVE  CategoryForest'
<1>1. ASSUME NEW t \in Thread, addNewDiscussionThread(t)
      PROVE  CategoryForest'
  BY <1>1 DEF
    CategoryForest, addNewDiscussionThread, treeVars
<1>2. ASSUME NEW t \in Thread, deleteDiscussionThread(t)
      PROVE  CategoryForest'
  BY <1>2 DEF
    CategoryForest, deleteDiscussionThread, ReleaseThread, treeVars
<1>3. ASSUME NEW t \in Thread, addNewDiscussionMessageInThread(t)
      PROVE  CategoryForest'
  BY <1>3 DEF
    CategoryForest, addNewDiscussionMessageInThread, ChangeMessages, treeVars
<1>4. ASSUME NEW t \in Thread, deleteDiscussionMessage(t)
      PROVE  CategoryForest'
  BY <1>4 DEF
    CategoryForest, deleteDiscussionMessage, ChangeMessages, treeVars
<1>5. ASSUME NEW from \in Thread, NEW into \in Thread, moveDiscussionThreadMessage(from, into)
      PROVE  CategoryForest'
  BY <1>5 DEF
    CategoryForest, moveDiscussionThreadMessage, treeVars
<1>6. ASSUME NEW from \in Thread, NEW into \in Thread, mergeDiscussionThreads(from, into)
      PROVE  CategoryForest'
  BY <1>6 DEF
    CategoryForest, mergeDiscussionThreads, ReleaseThread, treeVars
<1>7. ASSUME NEW g \in Tag, addNewDiscussionTag(g)
      PROVE  CategoryForest'
  BY <1>7 DEF
    CategoryForest, addNewDiscussionTag, treeVars
<1>8. ASSUME NEW g \in Tag, deleteDiscussionTag(g)
      PROVE  CategoryForest'
  BY <1>8 DEF
    CategoryForest, deleteDiscussionTag, ReleaseTag, treeVars
<1>9. ASSUME NEW g \in Tag, NEW t \in Thread, addDiscussionTagToThread(g, t)
      PROVE  CategoryForest'
  BY <1>9 DEF
    CategoryForest, addDiscussionTagToThread, treeVars
<1>10. ASSUME NEW g \in Tag, NEW t \in Thread, removeDiscussionTagFromThread(g, t)
      PROVE  CategoryForest'
  BY <1>10 DEF
    CategoryForest, removeDiscussionTagFromThread, treeVars
<1>11. ASSUME NEW from \in Tag, NEW into \in Tag, mergeDiscussionTags(from, into)
      PROVE  CategoryForest'
  BY <1>11 DEF
    CategoryForest, mergeDiscussionTags, ReleaseTag, treeVars
<1>12. ASSUME NEW c \in Category, NEW p \in Category \cup {NoCategory},
              addNewDiscussionCategory(c, p)
      PROVE  CategoryForest'
  <2>1. \A S \in SUBSET Category : S # {} => \E d \in S : parent'[d] \notin S
    BY <1>12, NewCategoryGrounded DEF Grounded
  <2>2. \A d, e \in Category : e \in children'[d] <=> parent'[e] = d
    BY <1>12, NoCategoryAssumption
       DEF addNewDiscussionCategory, GraphType, CategoryForest
  <2>3. \A d \in Category : parent'[d] # NoCategory =>
          d \in categories' /\ parent'[d] \in categories'
    BY <1>12, NoCategoryAssumption
       DEF addNewDiscussionCategory, GraphType, CategoryForest
  <2> QED
    BY <2>1, <2>2, <2>3 DEF CategoryForest
<1>13. ASSUME NEW c \in Category, NEW p \in Category \cup {NoCategory},
              changeDiscussionCategoryParent(c, p)
      PROVE  CategoryForest'
  <2>1. \A S \in SUBSET Category : S # {} => \E d \in S : parent'[d] \notin S
    BY <1>13, MovedCategoryGrounded DEF Grounded
  <2>2. \A d, e \in Category : e \in children'[d] <=> parent'[e] = d
    BY <1>13, NoCategoryAssumption
       DEF changeDiscussionCategoryParent, GraphType, CategoryForest
  <2>3. \A d \in Category : parent'[d] # NoCategory =>
          d \in categories' /\ parent'[d] \in categories'
    BY <1>13, NoCategoryAssumption
       DEF changeDiscussionCategoryParent, GraphType, CategoryForest
  <2> QED
    BY <2>1, <2>2, <2>3 DEF CategoryForest
<1>14. ASSUME NEW c \in Category, deleteDiscussionCategory(c)
      PROVE  CategoryForest'
  <2>1. \A S \in SUBSET Category : S # {} => \E d \in S : parent'[d] \notin S
    BY <1>14, DeletedCategoryGrounded DEF Grounded
  <2>2. \A d, e \in Category : e \in children'[d] <=> parent'[e] = d
    BY <1>14, NoCategoryAssumption
       DEF deleteDiscussionCategory, GraphType, CategoryForest
  <2>3. \A d \in Category : parent'[d] # NoCategory =>
          d \in categories' /\ parent'[d] \in categories'
    BY <1>14, NoCategoryAssumption
       DEF deleteDiscussionCategory, GraphType, CategoryForest
  <2> QED
    BY <2>1, <2>2, <2>3 DEF CategoryForest
<1>15. ASSUME NEW g \in Tag, NEW c \in Category, addDiscussionTagToCategory(g, c)
      PROVE  CategoryForest'
  BY <1>15 DEF
    CategoryForest, addDiscussionTagToCategory, treeVars
<1>16. ASSUME NEW g \in Tag, NEW c \in Category, removeDiscussionTagFromCategory(g, c)
      PROVE  CategoryForest'
  BY <1>16 DEF
    CategoryForest, removeDiscussionTagFromCategory, treeVars
<1> QED
  BY <1>1, <1>2, <1>3, <1>4, <1>5, <1>6, <1>7, <1>8, <1>9, <1>10, <1>11,
     <1>12, <1>13, <1>14, <1>15, <1>16 DEF Next
-----------------------------------------------------------------------------
(* Threads and categories.                                                 *)

Inv ==
    /\ GraphType
    /\ TagsAndThreadsAgree
    /\ TagsKnowTheirCategories
    /\ CategoryForest
    /\ CategoriesAndThreadsAgree

\* Every command updates both sides of the relation between threads and
\* categories.
LEMMA CategoriesAndThreadsStep ==
    ASSUME Inv, Next
    PROVE  CategoriesAndThreadsAgree'
<1>0. Consistent(listing) /\ Consistent(listing') /\ GraphType'
  BY ListingStep, GraphTypeStep
     DEF Inv, CategoriesAndThreadsAgree, Agree, Consistent, GraphType
<1> DEFINE Old(d, u) == u \in listing.threads[d]
           New(d, u) == u \in listing'.threads[d]
           Live == \A d \in Category, u \in Thread :
                      New(d, u) => d \in categories' /\ u \in threads'
<1>a. \A d \in Category, u \in Thread :
          Old(d, u) => d \in categories /\ u \in threads
  BY DEF Inv, CategoriesAndThreadsAgree
<1>b. \A g \in Tag, u \in Thread : u \in tagThreads[g] => u \in threads
  BY DEF Inv, TagsAndThreadsAgree
<1>c. \A g \in Tag, d \in Category : d \in tagCategories[g] => d \in categories
  BY DEF Inv, TagsKnowTheirCategories
<1>d. GraphType
  BY DEF Inv
<1>1. ASSUME NEW t \in Thread, addNewDiscussionThread(t)
      PROVE  Live
  BY <1>1, <1>a DEF addNewDiscussionThread, threadVars, treeVars
<1>2. ASSUME NEW t \in Thread, deleteDiscussionThread(t)
      PROVE  Live
  <2>1. \A d \in Category, u \in Thread : New(d, u) =>
            Old(d, u) /\ u # t
    BY <1>0, <1>d, <1>2, DeleteThreadListing
  <2>2. threads' = threads \ {t} /\ categories' = categories
    BY <1>2 DEF deleteDiscussionThread, ReleaseThread, threadVars, tagVars, treeVars
  <2> QED
    BY <1>a, <2>1, <2>2
<1>3. ASSUME NEW t \in Thread, addNewDiscussionMessageInThread(t)
      PROVE  Live
  <2>1. \A d \in Category, u \in Thread : New(d, u) =>
            Old(d, u)
    BY <1>0, <1>d, <1>3, MessagesListing DEF addNewDiscussionMessageInThread
  <2>2. threads' = threads /\ categories' = categories
    BY <1>3 DEF addNewDiscussionMessageInThread, ChangeMessages, threadVars, tagVars, treeVars
  <2> QED
    BY <1>a, <2>1, <2>2
<1>4. ASSUME NEW t \in Thread, deleteDiscussionMessage(t)
      PROVE  Live
  <2>1. \A d \in Category, u \in Thread : New(d, u) =>
            Old(d, u)
    BY <1>0, <1>d, <1>4, MessagesListing DEF deleteDiscussionMessage
  <2>2. threads' = threads /\ categories' = categories
    BY <1>4 DEF deleteDiscussionMessage, ChangeMessages, threadVars, tagVars, treeVars
  <2> QED
    BY <1>a, <2>1, <2>2
<1>5. ASSUME NEW from \in Thread, NEW into \in Thread, moveDiscussionThreadMessage(from, into)
      PROVE  Live
  <2>1. \A d \in Category, u \in Thread : New(d, u) =>
            Old(d, u)
    BY <1>0, <1>d, <1>5, MessagesListing
  <2>2. threads' = threads /\ categories' = categories
    BY <1>5 DEF moveDiscussionThreadMessage, threadVars, tagVars, treeVars
  <2> QED
    BY <1>a, <2>1, <2>2
<1>6. ASSUME NEW from \in Thread, NEW into \in Thread, mergeDiscussionThreads(from, into)
      PROVE  Live
  <2>1. \A d \in Category, u \in Thread : New(d, u) =>
            Old(d, u) /\ u # from
    BY <1>0, <1>d, <1>6, DeleteThreadListing
  <2>2. threads' = threads \ {from} /\ categories' = categories
    BY <1>6 DEF mergeDiscussionThreads, ReleaseThread, threadVars, tagVars, treeVars
  <2> QED
    BY <1>a, <2>1, <2>2
<1>7. ASSUME NEW g \in Tag, addNewDiscussionTag(g)
      PROVE  Live
  BY <1>7, <1>a DEF addNewDiscussionTag, threadVars, treeVars
<1>8. ASSUME NEW g \in Tag, deleteDiscussionTag(g)
      PROVE  Live
  <2>1. \A d \in Category, u \in Thread : New(d, u) =>
            Old(d, u)
    BY <1>0, <1>d, <1>8, DeleteTagListing
  <2>2. threads' = threads /\ categories' = categories
    BY <1>8 DEF deleteDiscussionTag, ReleaseTag, threadVars, tagVars, treeVars
  <2> QED
    BY <1>a, <2>1, <2>2
<1>9. ASSUME NEW g \in Tag, NEW t \in Thread, addDiscussionTagToThread(g, t)
      PROVE  Live
  <2>0. \A d \in Category : listing'.threads[d] =
            IF d \in tagCategories[g] THEN listing.threads[d] \cup {t}
            ELSE listing.threads[d]
    BY <1>0, <1>d, <1>9, AddTagToThreadListing
  <2>1. \A d \in Category, u \in Thread : New(d, u) =>
            Old(d, u) \/ (d \in tagCategories[g] /\ u = t)
    BY <2>0
  <2>2. /\ threads' = threads /\ categories' = categories
        /\ t \in threads
    BY <1>9 DEF addDiscussionTagToThread, threadVars, tagVars, treeVars
  <2> QED
    BY <1>a, <1>c, <2>1, <2>2
<1>10. ASSUME NEW g \in Tag, NEW t \in Thread, removeDiscussionTagFromThread(g, t)
      PROVE  Live
  <2>1. \A d \in Category, u \in Thread : New(d, u) =>
            Old(d, u)
    BY <1>0, <1>d, <1>10, RemoveTagFromThreadListing
  <2>2. threads' = threads /\ categories' = categories
    BY <1>10 DEF removeDiscussionTagFromThread, threadVars, tagVars, treeVars
  <2> QED
    BY <1>a, <2>1, <2>2
<1>11. ASSUME NEW from \in Tag, NEW into \in Tag, mergeDiscussionTags(from, into)
      PROVE  Live
  <2>1. \A d \in Category, u \in Thread : New(d, u) =>
            \/ Old(d, u)
            \/ /\ d \in tagCategories[from] \cup tagCategories[into]
               /\ u \in tagThreads[from] \cup tagThreads[into]
    BY <1>0, <1>d, <1>11, MergeTagsListing
  <2>2. threads' = threads /\ categories' = categories
    BY <1>11 DEF mergeDiscussionTags, ReleaseTag, threadVars, tagVars, treeVars
  <2> QED
    BY <1>a, <1>b, <1>c, <2>1, <2>2
<1>12. ASSUME NEW c \in Category, NEW p \in Category \cup {NoCategory},
              addNewDiscussionCategory(c, p)
      PROVE  Live
  BY <1>12, <1>a DEF addNewDiscussionCategory, threadVars, treeVars
<1>13. ASSUME NEW c \in Category, NEW p \in Category \cup {NoCategory},
              changeDiscussionCategoryParent(c, p)
      PROVE  Live
  <2>1. \A d \in Category, u \in Thread : New(d, u) =>
            Old(d, u)
    BY <1>0, <1>d, <1>13, ChangeParentListing
  <2>2. threads' = threads /\ categories' = categories
    BY <1>13 DEF changeDiscussionCategoryParent, threadVars, tagVars, treeVars
  <2> QED
    BY <1>a, <2>1, <2>2
<1>14. ASSUME NEW c \in Category, deleteDiscussionCategory(c)
      PROVE  Live
  <2>1. \A d \in Category, u \in Thread : New(d, u) =>
            Old(d, u) /\ d # c
    BY <1>0, <1>d, <1>14, DeleteCategoryListing
  <2>2. threads' = threads /\ categories' = categories \ {c}
    BY <1>14 DEF deleteDiscussionCategory, threadVars, tagVars, treeVars
  <2> QED
    BY <1>a, <2>1, <2>2
<1>15. ASSUME NEW g \in Tag, NEW c \in Category, addDiscussionTagToCategory(g, c)
      PROVE  Live
  <2>0. \A d \in Category : listing'.threads[d] =
            IF d = c /\ g \notin categoryTags[c]
            THEN listing.threads[d] \cup tagThreads[g] ELSE listing.threads[d]
    BY <1>0, <1>d, <1>15, AddTagToCategoryListing
  <2>1. \A d \in Category, u \in Thread : New(d, u) =>
            Old(d, u) \/ (d = c /\ u \in tagThreads[g])
    BY <2>0
  <2>2. /\ threads' = threads /\ categories' = categories
        /\ c \in categories
    BY <1>15 DEF addDiscussionTagToCategory, threadVars, tagVars, treeVars
  <2> QED
    BY <1>a, <1>b, <2>1, <2>2
<1>16. ASSUME NEW g \in Tag, NEW c \in Category, removeDiscussionTagFromCategory(g, c)
      PROVE  Live
  <2>1. \A d \in Category, u \in Thread : New(d, u) =>
            Old(d, u)
    BY <1>0, <1>d, <1>16, RemoveTagFromCategoryListing
  <2>2. threads' = threads /\ categories' = categories
    BY <1>16 DEF removeDiscussionTagFromCategory, threadVars, tagVars, treeVars
  <2> QED
    BY <1>a, <2>1, <2>2
<1>17. Live
  BY <1>1, <1>2, <1>3, <1>4, <1>5, <1>6, <1>7, <1>8, <1>9, <1>10, <1>11,
     <1>12, <1>13, <1>14, <1>15, <1>16 DEF Next
<1> QED
  BY <1>0, <1>17 DEF Consistent, Agree, CategoriesAndThreadsAgree, IsListing
-----------------------------------------------------------------------------
(* Tags and categories, when tags are never merged.                        *)

\* Without merges of tags, every command updates both sides of the relation
\* between tags and categories.
LEMMA TagsAndCategoriesStep ==
    ASSUME NoTagMerges, GraphType, TagsMatchCategories, Next
    PROVE  TagsMatchCategories'
<1>1. ASSUME NEW t \in Thread, addNewDiscussionThread(t)
      PROVE  TagsMatchCategories'
  BY <1>1 DEF
    GraphType, TagsMatchCategories, addNewDiscussionThread, threadVars,
    tagVars, treeVars
<1>2. ASSUME NEW t \in Thread, deleteDiscussionThread(t)
      PROVE  TagsMatchCategories'
  BY <1>2 DEF
    GraphType, TagsMatchCategories, deleteDiscussionThread, ReleaseThread,
    threadVars, tagVars, treeVars
<1>3. ASSUME NEW t \in Thread, addNewDiscussionMessageInThread(t)
      PROVE  TagsMatchCategories'
  BY <1>3 DEF
    GraphType, TagsMatchCategories, addNewDiscussionMessageInThread,
    ChangeMessages, threadVars, tagVars, treeVars
<1>4. ASSUME NEW t \in Thread, deleteDiscussionMessage(t)
      PROVE  TagsMatchCategories'
  BY <1>4 DEF
    GraphType, TagsMatchCategories, deleteDiscussionMessage,
    ChangeMessages, threadVars, tagVars, treeVars
<1>5. ASSUME NEW from \in Thread, NEW into \in Thread, moveDiscussionThreadMessage(from, into)
      PROVE  TagsMatchCategories'
  BY <1>5 DEF
    GraphType, TagsMatchCategories, moveDiscussionThreadMessage,
    threadVars, tagVars, treeVars
<1>6. ASSUME NEW from \in Thread, NEW into \in Thread, mergeDiscussionThreads(from, into)
      PROVE  TagsMatchCategories'
  BY <1>6 DEF
    GraphType, TagsMatchCategories, mergeDiscussionThreads, ReleaseThread,
    threadVars, tagVars, treeVars
<1>7. ASSUME NEW g \in Tag, addNewDiscussionTag(g)
      PROVE  TagsMatchCategories'
  BY <1>7 DEF
    GraphType, TagsMatchCategories, addNewDiscussionTag, threadVars,
    tagVars, treeVars
<1>8. ASSUME NEW g \in Tag, deleteDiscussionTag(g)
      PROVE  TagsMatchCategories'
  BY <1>8 DEF
    GraphType, TagsMatchCategories, deleteDiscussionTag, ReleaseTag,
    threadVars, tagVars, treeVars
<1>9. ASSUME NEW g \in Tag, NEW t \in Thread, addDiscussionTagToThread(g, t)
      PROVE  TagsMatchCategories'
  BY <1>9 DEF
    GraphType, TagsMatchCategories, addDiscussionTagToThread, threadVars,
    tagVars, treeVars
<1>10. ASSUME NEW g \in Tag, NEW t \in Thread, removeDiscussionTagFromThread(g, t)
      PROVE  TagsMatchCategories'
  BY <1>10 DEF
    GraphType, TagsMatchCategories, removeDiscussionTagFromThread,
    threadVars, tagVars, treeVars
<1>11. ASSUME NEW from \in Tag, NEW into \in Tag, mergeDiscussionTags(from, into)
      PROVE  TagsMatchCategories'
  BY <1>11 DEF mergeDiscussionTags, NoTagMerges
<1>12. ASSUME NEW c \in Category, NEW p \in Category \cup {NoCategory},
              addNewDiscussionCategory(c, p)
      PROVE  TagsMatchCategories'
  BY <1>12 DEF
    GraphType, TagsMatchCategories, addNewDiscussionCategory, threadVars,
    tagVars, treeVars
<1>13. ASSUME NEW c \in Category, NEW p \in Category \cup {NoCategory},
              changeDiscussionCategoryParent(c, p)
      PROVE  TagsMatchCategories'
  BY <1>13 DEF
    GraphType, TagsMatchCategories, changeDiscussionCategoryParent,
    threadVars, tagVars, treeVars
<1>14. ASSUME NEW c \in Category, deleteDiscussionCategory(c)
      PROVE  TagsMatchCategories'
  BY <1>14 DEF
    GraphType, TagsMatchCategories, deleteDiscussionCategory, threadVars,
    tagVars, treeVars
<1>15. ASSUME NEW g \in Tag, NEW c \in Category, addDiscussionTagToCategory(g, c)
      PROVE  TagsMatchCategories'
  BY <1>15 DEF
    GraphType, TagsMatchCategories, addDiscussionTagToCategory, threadVars,
    tagVars, treeVars
<1>16. ASSUME NEW g \in Tag, NEW c \in Category, removeDiscussionTagFromCategory(g, c)
      PROVE  TagsMatchCategories'
  BY <1>16 DEF
    GraphType, TagsMatchCategories, removeDiscussionTagFromCategory,
    threadVars, tagVars, treeVars
<1> QED
  BY <1>1, <1>2, <1>3, <1>4, <1>5, <1>6, <1>7, <1>8, <1>9, <1>10, <1>11,
     <1>12, <1>13, <1>14, <1>15, <1>16 DEF Next

\* ListsMatchTags, thread by thread.
ListsTagged(shown, onTag, inCategory) ==
    \A d \in Category, u \in Thread :
        u \in shown[d] <=> \E h \in inCategory[d] : u \in onTag[h]

\* The equation of sets in ListsMatchTags, thread by thread.
LEMMA ListsTaggedMeaning ==
    ASSUME NEW shown \in [Category -> SUBSET Thread],
           NEW onTag \in [Tag -> SUBSET Thread],
           NEW inCategory \in [Category -> SUBSET Tag]
    PROVE  (\A c \in Category : shown[c] = UNION {onTag[g] : g \in inCategory[c]})
               <=> ListsTagged(shown, onTag, inCategory)
<1>1. \A c \in Category :
          /\ shown[c] \subseteq Thread
          /\ UNION {onTag[g] : g \in inCategory[c]} \subseteq Thread
  OBVIOUS
<1>2. \A c \in Category, t \in Thread :
          t \in UNION {onTag[g] : g \in inCategory[c]}
              <=> \E g \in inCategory[c] : t \in onTag[g]
  OBVIOUS
<1>3. ASSUME \A c \in Category : shown[c] = UNION {onTag[g] : g \in inCategory[c]}
      PROVE  ListsTagged(shown, onTag, inCategory)
  BY <1>2, <1>3 DEF ListsTagged
<1>4. ASSUME ListsTagged(shown, onTag, inCategory), NEW c \in Category
      PROVE  shown[c] = UNION {onTag[g] : g \in inCategory[c]}
  <2>1. \A t \in Thread : t \in shown[c] <=> t \in UNION {onTag[g] : g \in inCategory[c]}
    BY <1>2, <1>4 DEF ListsTagged
  <2> QED
    BY <1>1, <2>1
<1> QED
  BY <1>3, <1>4

\* Without merges of tags, every command keeps the list of threads of a
\* category equal to the threads of its tags.
LEMMA ListsTaggedStep ==
    ASSUME NoTagMerges, Inv, TagsMatchCategories, Next,
           ListsTagged(listing.threads, tagThreads, categoryTags)
    PROVE  ListsTagged(listing'.threads, tagThreads', categoryTags')
<1> DEFINE Goal == ListsTagged(listing'.threads, tagThreads', categoryTags')
<1>0. Consistent(listing) /\ GraphType
  BY DEF Inv, CategoriesAndThreadsAgree, Agree, Consistent, GraphType
<1>a. \A d \in Category, u \in Thread :
          u \in listing.threads[d] <=> \E h \in categoryTags[d] : u \in tagThreads[h]
  BY DEF ListsTagged
<1>b. /\ \A h \in Tag, u \in Thread : h \in threadTags[u] <=> u \in tagThreads[h]
      /\ \A h \in Tag, d \in Category : d \in tagCategories[h] <=> h \in categoryTags[d]
      /\ \A d \in Category : categoryTags[d] \subseteq Tag
      /\ \A d \in Category : listing.threads[d] \subseteq Thread
  BY <1>0 DEF Inv, TagsAndThreadsAgree, TagsMatchCategories, GraphType, IsListing
<1>1. ASSUME NEW t \in Thread, addNewDiscussionThread(t)
      PROVE  Goal
  BY <1>1 DEF addNewDiscussionThread, tagVars, ListsTagged
<1>2. ASSUME NEW t \in Thread, deleteDiscussionThread(t)
      PROVE  Goal
  <2>1. \A d \in Category : listing'.threads[d] = listing.threads[d] \ {t}
    BY <1>0, <1>2, DeleteThreadListing
  <2>2. /\ categoryTags' = categoryTags
        /\ \A h \in Tag : tagThreads'[h] = IF h \in threadTags[t] THEN tagThreads[h] \ {t}
                                           ELSE tagThreads[h]
    BY <1>2 DEF deleteDiscussionThread, ReleaseThread
  <2>3. ASSUME NEW d \in Category, NEW u \in Thread
        PROVE  u \in listing'.threads[d] <=> \E h \in categoryTags'[d] : u \in tagThreads'[h]
    <3>1. u \in listing'.threads[d] <=>
              u \in listing.threads[d] /\ u # t
      BY <2>1
    <3>2. (\E h \in categoryTags'[d] : u \in tagThreads'[h]) <=>
              u # t /\ \E h \in categoryTags[d] : u \in tagThreads[h]
      <4>1. \A h \in categoryTags[d] : u \in tagThreads'[h] <=>
                u \in tagThreads[h] /\ u # t
        BY <1>b, <2>2
      <4>2. categoryTags'[d] = categoryTags[d]
        BY <1>b, <2>2
      <4> QED
        BY <4>1, <4>2
    <3> QED
      BY <1>a, <3>1, <3>2
  <2> QED
    BY <2>3 DEF ListsTagged
<1>3. ASSUME NEW t \in Thread, addNewDiscussionMessageInThread(t)
      PROVE  Goal
  <2>1. listing'.threads = listing.threads
    BY <1>0, <1>3, MessagesListing DEF addNewDiscussionMessageInThread
  <2>2. tagThreads' = tagThreads /\ categoryTags' = categoryTags
    BY <1>3 DEF addNewDiscussionMessageInThread, ChangeMessages, tagVars
  <2> QED
    BY <2>1, <2>2
<1>4. ASSUME NEW t \in Thread, deleteDiscussionMessage(t)
      PROVE  Goal
  <2>1. listing'.threads = listing.threads
    BY <1>0, <1>4, MessagesListing DEF deleteDiscussionMessage
  <2>2. tagThreads' = tagThreads /\ categoryTags' = categoryTags
    BY <1>4 DEF deleteDiscussionMessage, ChangeMessages, tagVars
  <2> QED
    BY <2>1, <2>2
<1>5. ASSUME NEW from \in Thread, NEW into \in Thread, moveDiscussionThreadMessage(from, into)
      PROVE  Goal
  <2>1. listing'.threads = listing.threads
    BY <1>0, <1>5, MessagesListing
  <2>2. tagThreads' = tagThreads /\ categoryTags' = categoryTags
    BY <1>5 DEF moveDiscussionThreadMessage, tagVars
  <2> QED
    BY <2>1, <2>2
<1>6. ASSUME NEW from \in Thread, NEW into \in Thread, mergeDiscussionThreads(from, into)
      PROVE  Goal
  <2>1. \A d \in Category : listing'.threads[d] = listing.threads[d] \ {from}
    BY <1>0, <1>6, DeleteThreadListing
  <2>2. /\ categoryTags' = categoryTags
        /\ \A h \in Tag : tagThreads'[h] = IF h \in threadTags[from] THEN tagThreads[h] \ {from}
                                           ELSE tagThreads[h]
    BY <1>6 DEF mergeDiscussionThreads, ReleaseThread
  <2>3. ASSUME NEW d \in Category, NEW u \in Thread
        PROVE  u \in listing'.threads[d] <=> \E h \in categoryTags'[d] : u \in tagThreads'[h]
    <3>1. u \in listing'.threads[d] <=>
              u \in listing.threads[d] /\ u # from
      BY <2>1
    <3>2. (\E h \in categoryTags'[d] : u \in tagThreads'[h]) <=>
              u # from /\ \E h \in categoryTags[d] : u \in tagThreads[h]
      <4>1. \A h \in categoryTags[d] : u \in tagThreads'[h] <=>
                u \in tagThreads[h] /\ u # from
        BY <1>b, <2>2
      <4>2. categoryTags'[d] = categoryTags[d]
        BY <1>b, <2>2
      <4> QED
        BY <4>1, <4>2
    <3> QED
      BY <1>a, <3>1, <3>2
  <2> QED
    BY <2>3 DEF ListsTagged
<1>7. ASSUME NEW g \in Tag, addNewDiscussionTag(g)
      PROVE  Goal
  BY <1>7 DEF addNewDiscussionTag, tagVars, ListsTagged
<1>8. ASSUME NEW g \in Tag, deleteDiscussionTag(g)
      PROVE  Goal
  <2>1. \A d \in Category : listing'.threads[d] =
            {u \in listing.threads[d] :
                ~(/\ d \in tagCategories[g] /\ g \in categoryTags[d] /\ u \in tagThreads[g]
                  /\ threadTags[u] \cap (categoryTags[d] \ {g}) = {})}
    BY <1>0, <1>8, DeleteTagListing
  <2>2. /\ \A d \in Category : categoryTags'[d] = IF d \in tagCategories[g]
                              THEN categoryTags[d] \ {g} ELSE categoryTags[d]
        /\ \A h \in Tag : tagThreads'[h] = IF h = g THEN {} ELSE tagThreads[h]
    BY <1>0, <1>8 DEF deleteDiscussionTag, ReleaseTag, GraphType
  <2>3. ASSUME NEW d \in Category, NEW u \in Thread
        PROVE  u \in listing'.threads[d] <=> \E h \in categoryTags'[d] : u \in tagThreads'[h]
    <3>1. u \in listing'.threads[d] <=>
              /\ u \in listing.threads[d]
              /\ ~(/\ g \in categoryTags[d] /\ u \in tagThreads[g]
                   /\ \A h \in categoryTags[d] \ {g} : u \notin tagThreads[h])
      BY <1>b, <2>1
    <3>2. (\E h \in categoryTags'[d] : u \in tagThreads'[h]) <=>
              \E h \in categoryTags[d] \ {g} : u \in tagThreads[h]
      <4>1. \A h \in categoryTags[d] : u \in tagThreads'[h] <=>
                u \in tagThreads[h] /\ h # g
        BY <1>b, <2>2
      <4>2. categoryTags'[d] = categoryTags[d] \ {g}
        BY <1>b, <2>2
      <4> QED
        BY <4>1, <4>2
    <3> QED
      BY <1>a, <3>1, <3>2
  <2> QED
    BY <2>3 DEF ListsTagged
<1>9. ASSUME NEW g \in Tag, NEW t \in Thread, addDiscussionTagToThread(g, t)
      PROVE  Goal
  <2>1. \A d \in Category : listing'.threads[d] =
            IF d \in tagCategories[g] THEN listing.threads[d] \cup {t}
            ELSE listing.threads[d]
    BY <1>0, <1>9, AddTagToThreadListing
  <2>2. /\ categoryTags' = categoryTags
        /\ \A h \in Tag : tagThreads'[h] = IF h = g THEN tagThreads[h] \cup {t}
                                           ELSE tagThreads[h]
    BY <1>0, <1>9 DEF addDiscussionTagToThread, GraphType
  <2>3. ASSUME NEW d \in Category, NEW u \in Thread
        PROVE  u \in listing'.threads[d] <=> \E h \in categoryTags'[d] : u \in tagThreads'[h]
    <3>1. u \in listing'.threads[d] <=>
              u \in listing.threads[d] \/ (g \in categoryTags[d] /\ u = t)
      BY <1>b, <2>1
    <3>2. (\E h \in categoryTags'[d] : u \in tagThreads'[h]) <=>
              \/ \E h \in categoryTags[d] : u \in tagThreads[h]
              \/ g \in categoryTags[d] /\ u = t
      <4>1. \A h \in categoryTags[d] : u \in tagThreads'[h] <=>
                u \in tagThreads[h] \/ (h = g /\ u = t)
        <5>1. \A h \in categoryTags[d] : tagThreads'[h] =
                IF h = g THEN tagThreads[h] \cup {t} ELSE tagThreads[h]
          BY <1>b, <2>2
        <5> QED
          BY <5>1
      <4>2. categoryTags'[d] = categoryTags[d]
        BY <1>b, <2>2
      <4> QED
        BY <4>1, <4>2
    <3> QED
      BY <1>a, <3>1, <3>2
  <2> QED
    BY <2>3 DEF ListsTagged
<1>10. ASSUME NEW g \in Tag, NEW t \in Thread, removeDiscussionTagFromThread(g, t)
      PROVE  Goal
  <2>1. \A d \in Category : listing'.threads[d] =
            IF /\ d \in tagCategories[g]
               /\ (threadTags[t] \ {g}) \cap categoryTags[d] = {}
            THEN listing.threads[d] \ {t} ELSE listing.threads[d]
    BY <1>0, <1>10, RemoveTagFromThreadListing
  <2>2. /\ categoryTags' = categoryTags
        /\ \A h \in Tag : tagThreads'[h] = IF h = g THEN tagThreads[h] \ {t}
                                           ELSE tagThreads[h]
        /\ g \in threadTags[t]
    BY <1>0, <1>10 DEF removeDiscussionTagFromThread, GraphType
  <2>3. ASSUME NEW d \in Category, NEW u \in Thread
        PROVE  u \in listing'.threads[d] <=> \E h \in categoryTags'[d] : u \in tagThreads'[h]
    <3>1. u \in listing'.threads[d] <=>
              /\ u \in listing.threads[d]
              /\ ~(/\ g \in categoryTags[d] /\ u = t
                   /\ \A h \in categoryTags[d] \ {g} : u \notin tagThreads[h])
      <4>1. u = t => ((threadTags[t] \ {g}) \cap categoryTags[d] = {} <=>
                        \A h \in categoryTags[d] \ {g} : u \notin tagThreads[h])
        <5>1. \A h \in categoryTags[d] : h \in threadTags[t] <=> t \in tagThreads[h]
          BY <1>b
        <5> QED
          BY <5>1
      <4>2. d \in tagCategories[g] <=> g \in categoryTags[d]
        BY <1>b
      <4> QED
        BY <2>1, <4>1, <4>2
    <3>2. (\E h \in categoryTags'[d] : u \in tagThreads'[h]) <=>
              \E h \in categoryTags[d] : u \in tagThreads[h] /\ ~(h = g /\ u = t)
      <4>1. \A h \in categoryTags[d] : u \in tagThreads'[h] <=>
                u \in tagThreads[h] /\ ~(h = g /\ u = t)
        BY <1>b, <2>2
      <4>2. categoryTags'[d] = categoryTags[d]
        BY <1>b, <2>2
      <4> QED
        BY <4>1, <4>2
    <3> QED
      BY <1>a, <3>1, <3>2, <1>b, <2>2
  <2> QED
    BY <2>3 DEF ListsTagged
<1>11. ASSUME NEW from \in Tag, NEW into \in Tag, mergeDiscussionTags(from, into)
      PROVE  Goal
  BY <1>11 DEF mergeDiscussionTags, NoTagMerges
<1>12. ASSUME NEW c \in Category, NEW p \in Category \cup {NoCategory},
              addNewDiscussionCategory(c, p)
      PROVE  Goal
  BY <1>12 DEF addNewDiscussionCategory, tagVars, ListsTagged
<1>13. ASSUME NEW c \in Category, NEW p \in Category \cup {NoCategory},
              changeDiscussionCategoryParent(c, p)
      PROVE  Goal
  <2>1. listing'.threads = listing.threads
    BY <1>0, <1>13, ChangeParentListing
  <2>2. tagThreads' = tagThreads /\ categoryTags' = categoryTags
    BY <1>13 DEF changeDiscussionCategoryParent, tagVars
  <2> QED
    BY <2>1, <2>2
<1>14. ASSUME NEW c \in Category, deleteDiscussionCategory(c)
      PROVE  Goal
  <2>1. \A d \in Category : listing'.threads[d] = IF d = c THEN {} ELSE listing.threads[d]
    BY <1>0, <1>14, DeleteCategoryListing
  <2>2. /\ tagThreads' = tagThreads
        /\ \A d \in Category : categoryTags'[d] = IF d = c THEN {} ELSE categoryTags[d]
    BY <1>0, <1>14 DEF deleteDiscussionCategory, GraphType
  <2>3. ASSUME NEW d \in Category, NEW u \in Thread
        PROVE  u \in listing'.threads[d] <=> \E h \in categoryTags'[d] : u \in tagThreads'[h]
    BY <1>a, <1>b, <2>1, <2>2
  <2> QED
    BY <2>3 DEF ListsTagged
<1>15. ASSUME NEW g \in Tag, NEW c \in Category, addDiscussionTagToCategory(g, c)
      PROVE  Goal
  <2>1. \A d \in Category : listing'.threads[d] =
            IF d = c /\ g \notin categoryTags[c]
            THEN listing.threads[d] \cup tagThreads[g] ELSE listing.threads[d]
    BY <1>0, <1>15, AddTagToCategoryListing
  <2>2. /\ tagThreads' = tagThreads
        /\ \A d \in Category : categoryTags'[d] = IF d = c THEN categoryTags[d] \cup {g}
                                                  ELSE categoryTags[d]
    BY <1>0, <1>15 DEF addDiscussionTagToCategory, GraphType
  <2>3. ASSUME NEW d \in Category, NEW u \in Thread
        PROVE  u \in listing'.threads[d] <=> \E h \in categoryTags'[d] : u \in tagThreads'[h]
    <3>1. u \in listing'.threads[d] <=>
              \/ u \in listing.threads[d]
              \/ d = c /\ g \notin categoryTags[d] /\ u \in tagThreads[g]
      BY <2>1
    <3>2. (\E h \in categoryTags'[d] : u \in tagThreads'[h]) <=>
              \/ \E h \in categoryTags[d] : u \in tagThreads[h]
              \/ d = c /\ u \in tagThreads[g]
      BY <2>2
    <3> QED
      BY <1>a, <3>1, <3>2
  <2> QED
    BY <2>3 DEF ListsTagged
<1>16. ASSUME NEW g \in Tag, NEW c \in Category, removeDiscussionTagFromCategory(g, c)
      PROVE  Goal
  <2>1. \A d \in Category : listing'.threads[d] =
            {u \in listing.threads[d] :
                ~(/\ d \in {c} /\ g \in categoryTags[d] /\ u \in tagThreads[g]
                  /\ threadTags[u] \cap (categoryTags[d] \ {g}) = {})}
    BY <1>0, <1>16, RemoveTagFromCategoryListing
  <2>2. /\ tagThreads' = tagThreads
        /\ \A d \in Category : categoryTags'[d] = IF d = c THEN categoryTags[d] \ {g}
                                                  ELSE categoryTags[d]
    BY <1>0, <1>16 DEF removeDiscussionTagFromCategory, GraphType
  <2>3. ASSUME NEW d \in Category, NEW u \in Thread
        PROVE  u \in listing'.threads[d] <=> \E h \in categoryTags'[d] : u \in tagThreads'[h]
    <3>1. u \in listing'.threads[d] <=>
              /\ u \in listing.threads[d]
              /\ ~(/\ d = c /\ g \in categoryTags[d] /\ u \in tagThreads[g]
                   /\ \A h \in categoryTags[d] \ {g} : u \notin tagThreads[h])
      BY <1>b, <2>1
    <3>2. (\E h \in categoryTags'[d] : u \in tagThreads'[h]) <=>
              \E h \in categoryTags[d] : u \in tagThreads[h] /\ ~(d = c /\ h = g)
      BY <2>2
    <3> QED
      BY <1>a, <3>1, <3>2
  <2> QED
    BY <2>3 DEF ListsTagged
<1> QED
  BY <1>1, <1>2, <1>3, <1>4, <1>5, <1>6, <1>7, <1>8, <1>9, <1>10, <1>11,
     <1>12, <1>13, <1>14, <1>15, <1>16 DEF Next
-----------------------------------------------------------------------------
(* The theorems.                                                           *)

\* The empty forum satisfies the invariant.
LEMMA InitInv == Init => Inv
<1> SUFFICES ASSUME Init
             PROVE  Inv
  OBVIOUS
<1>1. GraphType
  BY DEF Init, GraphType, IsListing, Field
<1>2. TagsAndThreadsAgree /\ TagsKnowTheirCategories /\ CategoriesAndThreadsAgree
  BY DEF Init, TagsAndThreadsAgree, TagsKnowTheirCategories, CategoriesAndThreadsAgree
<1>3. CategoryForest
  BY NoCategoryAssumption DEF Init, CategoryForest
<1> QED
  BY <1>1, <1>2, <1>3 DEF Inv

\* Every command keeps the invariant.
LEMMA StepInv == Inv /\ [Next]_vars => Inv'
<1> SUFFICES ASSUME Inv, [Next]_vars
             PROVE  Inv'
  OBVIOUS
<1>1. CASE Next
  <2>1. GraphType /\ Consistent(listing)
    BY DEF Inv, CategoriesAndThreadsAgree, Consistent, Agree, GraphType
  <2>2. GraphType'
    BY <1>1, <2>1, GraphTypeStep
  <2>3. TagsAndThreadsAgree' /\ TagsKnowTheirCategories' /\ CategoryForest'
    BY <1>1, TagsAndThreadsStep, TagsKnowTheirCategoriesStep, CategoryForestStep DEF Inv
  <2>4. CategoriesAndThreadsAgree'
    BY <1>1, CategoriesAndThreadsStep
  <2> QED
    BY <2>2, <2>3, <2>4 DEF Inv
<1>2. CASE UNCHANGED vars
  <2>1. GraphType'
    BY <1>2 DEF Inv, vars, threadVars, tagVars, treeVars, GraphType, IsListing
  <2>2. TagsAndThreadsAgree' /\ TagsKnowTheirCategories'
    BY <1>2 DEF Inv, vars, threadVars, tagVars, treeVars, TagsAndThreadsAgree,
                TagsKnowTheirCategories
  <2>3. CategoryForest' /\ CategoriesAndThreadsAgree'
    BY <1>2 DEF Inv, vars, threadVars, tagVars, treeVars, CategoryForest,
                CategoriesAndThreadsAgree
  <2> QED
    BY <2>1, <2>2, <2>3 DEF Inv
<1> QED
  BY <1>1, <1>2

\* The inductive invariant holds in every state of a forum, with any number of
\* threads, tags and categories and any mix of commands.
THEOREM Invariance == Spec => []Inv
BY InitInv, StepInv, PTL DEF Spec

\* Threads and tags name each other and never a deleted entity, whatever is
\* created, merged, moved and deleted (EntityCollection and the merges of
\* threads and tags).
THEOREM ThreadsAndTags == Spec => []TagsAndThreadsAgree
<1>1. Inv => TagsAndThreadsAgree
  BY DEF Inv
<1> QED
  BY <1>1, Invariance, PTL

\* The same for threads and categories, although categories are updated in
\* turn through a shared array.
THEOREM ThreadsAndCategories == Spec => []CategoriesAndThreadsAgree
<1>1. Inv => CategoriesAndThreadsAgree
  BY DEF Inv
<1> QED
  BY <1>1, Invariance, PTL

\* The check hasAncestor of changeDiscussionCategoryParent keeps categories
\* free of cycles: executeOnAllCategoryParents always ends.
THEOREM Forest == Spec => []CategoryForest
<1>1. Inv => CategoryForest
  BY DEF Inv
<1> QED
  BY <1>1, Invariance, PTL

\* The invariant of a forum that never merges tags.
UnmergedInv == Inv /\ TagsMatchCategories /\ ListsMatchTags

\* Every command other than a merge of tags keeps the stronger invariant.
LEMMA UnmergedStep ==
    NoTagMerges /\ UnmergedInv /\ [Next]_vars => UnmergedInv'
<1> SUFFICES ASSUME NoTagMerges, UnmergedInv, [Next]_vars
             PROVE  UnmergedInv'
  OBVIOUS
<1>1. Inv /\ Inv' /\ GraphType /\ GraphType'
  BY StepInv DEF UnmergedInv, Inv
<1>2. CASE Next
  <2>1. TagsMatchCategories'
    BY <1>1, <1>2, TagsAndCategoriesStep DEF UnmergedInv
  <2>2. ListsTagged(listing.threads, tagThreads, categoryTags)
    BY <1>1, ListsTaggedMeaning
       DEF UnmergedInv, ListsMatchTags, GraphType, IsListing
  <2>3. ListsTagged(listing'.threads, tagThreads', categoryTags')
    BY <1>1, <1>2, <2>2, ListsTaggedStep DEF UnmergedInv
  <2>4. ListsMatchTags'
    <3>1. /\ listing'.threads \in [Category -> SUBSET Thread]
          /\ tagThreads' \in [Tag -> SUBSET Thread]
          /\ categoryTags' \in [Category -> SUBSET Tag]
      BY <1>1 DEF GraphType, IsListing
    <3>2. \A c \in Category :
              listing'.threads[c] = UNION {tagThreads'[g] : g \in categoryTags'[c]}
      BY <2>3, <3>1, ListsTaggedMeaning
    <3> QED
      BY <3>2 DEF ListsMatchTags
  <2> QED
    BY <1>1, <2>1, <2>4 DEF UnmergedInv
<1>3. CASE UNCHANGED vars
  <2>1. TagsMatchCategories' /\ ListsMatchTags'
    BY <1>3 DEF UnmergedInv, vars, threadVars, tagVars, treeVars,
                TagsMatchCategories, ListsMatchTags
  <2> QED
    BY <1>1, <2>1 DEF UnmergedInv
<1> QED
  BY <1>2, <1>3

\* No command changes the policy.
LEMMA PolicyStays == [Next]_vars => policy' = policy
<1>1. \A t \in Thread :
          \/ addNewDiscussionThread(t) \/ deleteDiscussionThread(t)
          \/ addNewDiscussionMessageInThread(t) \/ deleteDiscussionMessage(t)
          => policy' = policy
  BY DEF addNewDiscussionThread, deleteDiscussionThread, ChangeMessages,
         addNewDiscussionMessageInThread, deleteDiscussionMessage
<1>2. \A from, into \in Thread :
          \/ moveDiscussionThreadMessage(from, into)
          \/ mergeDiscussionThreads(from, into)
          => policy' = policy
  BY DEF moveDiscussionThreadMessage, mergeDiscussionThreads
<1>3. \A g \in Tag : addNewDiscussionTag(g) \/ deleteDiscussionTag(g)
                         => policy' = policy
  BY DEF addNewDiscussionTag, deleteDiscussionTag
<1>4. \A g \in Tag, t \in Thread :
          \/ addDiscussionTagToThread(g, t) \/ removeDiscussionTagFromThread(g, t)
          => policy' = policy
  BY DEF addDiscussionTagToThread, removeDiscussionTagFromThread
<1>5. \A from, into \in Tag : mergeDiscussionTags(from, into) => policy' = policy
  BY DEF mergeDiscussionTags
<1>6. \A c \in Category, p \in Category \cup {NoCategory} :
          \/ addNewDiscussionCategory(c, p) \/ changeDiscussionCategoryParent(c, p)
          => policy' = policy
  BY DEF addNewDiscussionCategory, changeDiscussionCategoryParent
<1>7. \A c \in Category : deleteDiscussionCategory(c) => policy' = policy
  BY DEF deleteDiscussionCategory
<1>8. \A g \in Tag, c \in Category :
          \/ addDiscussionTagToCategory(g, c)
          \/ removeDiscussionTagFromCategory(g, c)
          => policy' = policy
  BY DEF addDiscussionTagToCategory, removeDiscussionTagFromCategory
<1> QED
  BY <1>1, <1>2, <1>3, <1>4, <1>5, <1>6, <1>7, <1>8 DEF Next, vars

\* The stronger invariant holds in every state of a forum without merges of
\* tags.
LEMMA UnmergedInvariance == Spec => [](NoTagMerges => UnmergedInv)
<1>1. Init => (NoTagMerges => UnmergedInv)
  BY InitInv DEF UnmergedInv, Init, TagsMatchCategories, ListsMatchTags
<1>2. (NoTagMerges => UnmergedInv) /\ [Next]_vars
          => (NoTagMerges => UnmergedInv)'
  BY UnmergedStep, PolicyStays DEF NoTagMerges
<1> QED
  BY <1>1, <1>2, PTL DEF Spec

\* Without merges of tags a tag and a category name each other and never a
\* deleted entity (deleteDiscussionTag, deleteDiscussionCategory).
THEOREM TagsAndCategories == Spec => []TagsAndCategoriesAgree
<1>1. (NoTagMerges => UnmergedInv) => TagsAndCategoriesAgree
  BY DEF UnmergedInv, TagsAndCategoriesAgree
<1> QED
  BY <1>1, UnmergedInvariance, PTL

\* Without merges of tags a category lists exactly the threads of its tags
\* (insertDiscussionThreads, deleteDiscussionThreadIfNoOtherTagsReferenceIt).
THEOREM CategoriesListTaggedThreads == Spec => []CategoryListsTaggedThreads
<1>1. (NoTagMerges => UnmergedInv) => CategoryListsTaggedThreads
  BY DEF UnmergedInv, CategoryListsTaggedThreads
<1> QED
  BY <1>1, UnmergedInvariance, PTL
-----------------------------------------------------------------------------
(* Induction over the natural numbers and over finite sets.                *)

\* A set that has 0 and with each number the next one has all of them: the
\* numbers up to some y that are missing would be mapped by n - 1 into
\* themselves without y, and two of them to the same number.
LEMMA NatSetInduction ==
    ASSUME NEW P, 0 \in P, \A n \in Nat : n \in P => n + 1 \in P
    PROVE  \A n \in Nat : n \in P
<1> SUFFICES ASSUME NEW y \in Nat, y \notin P PROVE FALSE
    OBVIOUS
<1> DEFINE C == {n \in 0 .. y : n \notin P}
           f == [n \in C |-> n - 1]
<1>1. IsFiniteSet(C) /\ y \in C
    <2>1. IsFiniteSet(0 .. y)
        BY FS_Interval
    <2> QED BY <2>1, FS_Subset
<1>2. f \in [C -> C \ {y}]
    <2> SUFFICES ASSUME NEW n \in C PROVE n - 1 \in C \ {y}
        OBVIOUS
    <2>1. n # 0 /\ n - 1 \in Nat
        OBVIOUS
    <2>2. n - 1 \notin P
        BY <2>1
    <2> QED BY <2>1, <2>2
<1>3. IsFiniteSet(C \ {y}) /\ Cardinality(C \ {y}) < Cardinality(C)
    <2> HIDE DEF C
    <2>1. Cardinality(C) \in Nat
        BY <1>1, FS_CardinalityType
    <2>2. IsFiniteSet(C \ {y}) /\ Cardinality(C \ {y}) = Cardinality(C) - 1
        BY <1>1, FS_RemoveElement
    <2> QED BY <2>1, <2>2
<1>4. PICK a \in C, b \in C : a # b /\ f[a] = f[b]
    <2> HIDE DEF C, f
    <2> QED BY <1>1, <1>2, <1>3, FS_PigeonHole
<1> QED BY <1>4

\* A set of sets that has {} and with each finite subset of S the subset with
\* one more element of S has every subset of a finite S.
LEMMA FiniteSetInduction ==
    ASSUME NEW S, IsFiniteSet(S), NEW P, {} \in P,
           \A T \in SUBSET S : \A x \in S \ T : T \in P => T \cup {x} \in P
    PROVE  \A T \in SUBSET S : T \in P
<1> DEFINE Q == {n \in Nat : \A T \in SUBSET S : Cardinality(T) = n => T \in P}
<1>1. \A T \in SUBSET S : IsFiniteSet(T) /\ Cardinality(T) \in Nat
    BY FS_Subset, FS_CardinalityType
<1>2. 0 \in Q
    <2>1. ASSUME NEW T \in SUBSET S, Cardinality(T) = 0 PROVE T = {}
        <3>1. IsFiniteSet(T)
            BY <1>1
        <3> QED BY <3>1, <2>1, FS_EmptySet
    <2> QED BY <2>1
<1>3. ASSUME NEW n \in Nat, n \in Q PROVE n + 1 \in Q
    <2> SUFFICES ASSUME NEW T \in SUBSET S, Cardinality(T) = n + 1
                 PROVE  T \in P
        OBVIOUS
    <2>1. T # {}
        <3>1. Cardinality({}) = 0
            BY FS_EmptySet
        <3>2. n + 1 # 0
            OBVIOUS
        <3> QED BY <3>1, <3>2
    <2>2. PICK x \in T : TRUE
        BY <2>1
    <2>3. Cardinality(T \ {x}) = n
        <3>1. IsFiniteSet(T)
            BY <1>1
        <3>2. Cardinality(T \ {x}) = Cardinality(T) - 1
            BY <3>1, <2>2, FS_RemoveElement
        <3> QED BY <3>2
    <2>4. T \ {x} \in P
        BY <1>3, <2>3
    <2>5. (T \ {x}) \cup {x} \in P
        BY <2>4, <2>2
    <2>6. (T \ {x}) \cup {x} = T
        BY <2>2
    <2> QED BY <2>5, <2>6
<1>4. \A n \in Nat : n \in Q
    <2> HIDE DEF Q
    <2> QED BY <1>2, <1>3, NatSetInduction
<1> QED BY <1>1, <1>4

-----------------------------------------------------------------------------
(* Sums.  The folds take the elements of a set in the order of CHOOSE.     *)

Chosen(s) == CHOOSE x \in s : TRUE

\* F adds up the weights w of every subset of T.
IsSum(F, T, w) ==
    F = [s \in SUBSET T |-> IF s = {} THEN 0 ELSE w[Chosen(s)] + F[s \ {Chosen(s)}]]

\* Such a function exists: subsets with n elements need those with fewer.
LEMMA SumExists ==
    ASSUME NEW T, IsFiniteSet(T), NEW w
    PROVE  \E F : IsSum(F, T, w)
<1> DEFINE Small(n) == {s \in SUBSET T : Cardinality(s) <= n}
           Upto(n, F) == F = [s \in Small(n) |->
                                IF s = {} THEN 0 ELSE w[Chosen(s)] + F[s \ {Chosen(s)}]]
           P == {n \in Nat : \E F : Upto(n, F)}
<1>1. \A s \in SUBSET T : /\ IsFiniteSet(s) /\ Cardinality(s) \in Nat
                          /\ Cardinality(s) <= Cardinality(T)
    BY FS_Subset, FS_CardinalityType
<1>2. \A s \in SUBSET T : s # {} => Chosen(s) \in s
    BY DEF Chosen
<1>3. \A s \in SUBSET T : \A x \in s : Cardinality(s \ {x}) = Cardinality(s) - 1
    BY <1>1, FS_RemoveElement
<1>4. \A s \in SUBSET T : Cardinality(s) <= 0 => s = {}
    <2> SUFFICES ASSUME NEW s \in SUBSET T, Cardinality(s) <= 0 PROVE s = {}
        OBVIOUS
    <2>1. Cardinality(s) = 0 /\ IsFiniteSet(s)
        BY <1>1
    <2> QED BY <2>1, FS_EmptySet
<1>5. 0 \in P
    <2> DEFINE F == [s \in Small(0) |-> 0]
    <2>1. Upto(0, F)
        BY <1>4
    <2> QED BY <2>1
<1>6. ASSUME NEW n \in Nat, n \in P PROVE n + 1 \in P
    <2>1. PICK F : Upto(n, F)
        BY <1>6
    <2> DEFINE G == [s \in Small(n + 1) |->
                       IF s = {} THEN 0 ELSE w[Chosen(s)] + F[s \ {Chosen(s)}]]
    <2>2. \A s \in Small(n) : s \in Small(n + 1) /\ G[s] = F[s]
        <3>1. \A s \in Small(n) : s \in Small(n + 1)
            BY <1>1
        <3> QED BY <2>1, <3>1
    <2>3. \A s \in Small(n + 1) : s # {} => s \ {Chosen(s)} \in Small(n)
        <3> SUFFICES ASSUME NEW s \in Small(n + 1), s # {}
                     PROVE  s \ {Chosen(s)} \in Small(n)
            OBVIOUS
        <3>1. Cardinality(s \ {Chosen(s)}) = Cardinality(s) - 1
            BY <1>2, <1>3
        <3>2. Cardinality(s) \in Nat /\ Cardinality(s) <= n + 1
            BY <1>1
        <3>3. Cardinality(s \ {Chosen(s)}) <= n
            BY <3>1, <3>2
        <3> QED BY <3>3
    <2> HIDE DEF Small
    <2>4. Upto(n + 1, G)
        BY <2>2, <2>3
    <2> HIDE DEF Upto
    <2>5. n + 1 \in Nat
        OBVIOUS
    <2> QED BY <2>4, <2>5
<1>7. Cardinality(T) \in P
    <2>1. Cardinality(T) \in Nat
        BY <1>1
    <2> HIDE DEF P
    <2> QED BY <1>5, <1>6, <2>1, NatSetInduction
<1>8. Small(Cardinality(T)) = SUBSET T
    BY <1>1
<1>9. PICK F : Upto(Cardinality(T), F)
    BY <1>7
<1> HIDE DEF Small
<1>10. IsSum(F, T, w)
    BY <1>8, <1>9 DEF IsSum
<1> QED BY <1>10

\* What the recursion says of a subset.
LEMMA SumUnfold ==
    ASSUME NEW T, NEW w, NEW F, IsSum(F, T, w)
    PROVE  /\ F[{}] = 0
           /\ \A s \in SUBSET T : s # {} => /\ Chosen(s) \in s
                                            /\ F[s] = w[Chosen(s)] + F[s \ {Chosen(s)}]
<1>1. \A s \in SUBSET T : F[s] = IF s = {} THEN 0 ELSE w[Chosen(s)] + F[s \ {Chosen(s)}]
    BY DEF IsSum
<1>2. \A s \in SUBSET T : s # {} => Chosen(s) \in s
    BY DEF Chosen
<1> QED BY <1>1, <1>2

SameOn(F, G, S) == \A s \in SUBSET S : F[s] = G[s]

\* Equal weights have equal sums, whatever larger set they are weights of.
LEMMA SumsAgree ==
    ASSUME NEW S, NEW T, IsFiniteSet(S), S \subseteq T, NEW v, NEW w,
           NEW F, IsSum(F, S, v), NEW G, IsSum(G, T, w),
           \A x \in S : v[x] = w[x]
    PROVE  SameOn(F, G, S)
<1> DEFINE P == {n \in Nat : \A s \in SUBSET S : Cardinality(s) = n => F[s] = G[s]}
<1>1. \A s \in SUBSET S : IsFiniteSet(s) /\ Cardinality(s) \in Nat
    BY FS_Subset, FS_CardinalityType
<1>2. F[{}] = 0 /\ G[{}] = 0
    BY SumUnfold
<1>3. \A s \in SUBSET S : s # {} => /\ Chosen(s) \in s
                                    /\ F[s] = v[Chosen(s)] + F[s \ {Chosen(s)}]
                                    /\ G[s] = w[Chosen(s)] + G[s \ {Chosen(s)}]
    <2>1. \A s \in SUBSET S : s \in SUBSET T
        OBVIOUS
    <2>2. \A s \in SUBSET S : s # {} => /\ Chosen(s) \in s
                                        /\ F[s] = v[Chosen(s)] + F[s \ {Chosen(s)}]
        BY SumUnfold
    <2>3. \A s \in SUBSET T : s # {} => G[s] = w[Chosen(s)] + G[s \ {Chosen(s)}]
        BY SumUnfold
    <2> QED BY <2>1, <2>2, <2>3
<1>4. 0 \in P
    <2> SUFFICES ASSUME NEW s \in SUBSET S, Cardinality(s) = 0 PROVE F[s] = G[s]
        OBVIOUS
    <2>1. s = {}
        BY <1>1, FS_EmptySet
    <2> QED BY <1>2, <2>1
<1>5. ASSUME NEW n \in Nat, n \in P PROVE n + 1 \in P
    <2> SUFFICES ASSUME NEW s \in SUBSET S, Cardinality(s) = n + 1 PROVE F[s] = G[s]
        OBVIOUS
    <2>1. s # {}
        <3>1. Cardinality({}) = 0 /\ n + 1 # 0
            BY FS_EmptySet
        <3> QED BY <3>1
    <2>2. Chosen(s) \in s /\ s \ {Chosen(s)} \in SUBSET S
        BY <1>3, <2>1
    <2>3. Cardinality(s \ {Chosen(s)}) = n
        <3>1. Cardinality(s \ {Chosen(s)}) = Cardinality(s) - 1
            BY <1>1, <2>2, FS_RemoveElement
        <3> QED BY <3>1
    <2>4. F[s \ {Chosen(s)}] = G[s \ {Chosen(s)}]
        BY <1>5, <2>2, <2>3
    <2> QED BY <1>3, <2>1, <2>2, <2>4
<1>6. \A n \in Nat : n \in P
    <2> HIDE DEF P
    <2> QED BY <1>4, <1>5, NatSetInduction
<1> QED BY <1>1, <1>6 DEF SameOn

\* Any element of T may be the last one added.
AddsUp(F, T, w) ==
    \A s \in SUBSET T : /\ F[s] \in Int
                        /\ \A x \in T \ s : F[s \cup {x}] = F[s] + w[x]

\* The order of CHOOSE does not matter: any element may be the last one added.
LEMMA SumAdds ==
    ASSUME NEW T, IsFiniteSet(T), NEW w \in [T -> Int], NEW F, IsSum(F, T, w)
    PROVE  AddsUp(F, T, w)
<1> DEFINE P == {n \in Nat : \A s \in SUBSET T : Cardinality(s) = n =>
                   F[s] \in Int /\ \A x \in T \ s : F[s \cup {x}] = F[s] + w[x]}
<1>1. \A s \in SUBSET T : IsFiniteSet(s) /\ Cardinality(s) \in Nat
    BY FS_Subset, FS_CardinalityType
<1>2. F[{}] = 0
    BY SumUnfold
<1>3. \A s \in SUBSET T : s # {} => /\ Chosen(s) \in s
                                    /\ F[s] = w[Chosen(s)] + F[s \ {Chosen(s)}]
    BY SumUnfold
<1>4. 0 \in P
    <2> SUFFICES ASSUME NEW s \in SUBSET T, Cardinality(s) = 0
                 PROVE  F[s] \in Int /\ \A x \in T \ s : F[s \cup {x}] = F[s] + w[x]
        OBVIOUS
    <2>1. s = {}
        BY <1>1, FS_EmptySet
    <2>2. ASSUME NEW x \in T PROVE F[{x}] = w[x]
        <3>1. {x} \in SUBSET T /\ {x} # {} /\ {x} \ {x} = {}
            OBVIOUS
        <3>2. Chosen({x}) = x /\ F[{x}] = w[Chosen({x})] + F[{x} \ {Chosen({x})}]
            BY <1>3, <3>1
        <3>3. F[{x}] = w[x] + 0
            BY <1>2, <3>1, <3>2
        <3> QED BY <3>3
    <2>3. ASSUME NEW x \in T PROVE F[s \cup {x}] = F[s] + w[x]
        <3>1. s \cup {x} = {x} /\ F[s] = 0 /\ w[x] \in Int
            BY <1>2, <2>1
        <3>2. 0 + w[x] = w[x]
            BY <3>1
        <3> QED BY <2>2, <3>1, <3>2
    <2> QED BY <1>2, <2>1, <2>3
<1>5. ASSUME NEW n \in Nat, n \in P PROVE n + 1 \in P
    <2> SUFFICES ASSUME NEW s \in SUBSET T, Cardinality(s) = n + 1
                 PROVE  F[s] \in Int /\ \A x \in T \ s : F[s \cup {x}] = F[s] + w[x]
        OBVIOUS
    <2>1. ASSUME NEW y \in s
          PROVE  /\ s \ {y} \in SUBSET T /\ F[s \ {y}] \in Int
                 /\ \A x \in T \ (s \ {y}) : F[(s \ {y}) \cup {x}] = F[s \ {y}] + w[x]
        <3>1. Cardinality(s \ {y}) = Cardinality(s) - 1
            BY <1>1, FS_RemoveElement
        <3>2. Cardinality(s \ {y}) = n /\ s \ {y} \in SUBSET T
            BY <3>1
        <3> QED BY <1>5, <3>2
    <2>2. ASSUME NEW y \in s PROVE F[s] = F[s \ {y}] + w[y] /\ F[s] \in Int
        <3>1. (s \ {y}) \cup {y} = s /\ y \in T \ (s \ {y})
            OBVIOUS
        <3>2. F[s] = F[s \ {y}] + w[y]
            BY <2>1, <3>1
        <3> QED BY <2>1, <3>1, <3>2
    <2>3. s # {}
        <3>1. Cardinality({}) = 0 /\ n + 1 # 0
            BY FS_EmptySet
        <3> QED BY <3>1
    <2>4. F[s] \in Int
        BY <2>2, <2>3
    <2>5. ASSUME NEW x \in T \ s PROVE F[s \cup {x}] = F[s] + w[x]
        <3> DEFINE y == Chosen(s \cup {x})
        <3>1. y \in s \cup {x} /\ F[s \cup {x}] = w[y] + F[(s \cup {x}) \ {y}]
            BY <1>3
        <3> HIDE DEF y
        <3>2. CASE y = x
            <4>1. (s \cup {x}) \ {y} = s
                BY <3>2
            <4>2. F[s \cup {x}] = w[x] + F[s]
                BY <3>1, <3>2, <4>1
            <4>3. w[x] \in Int
                OBVIOUS
            <4> QED BY <2>4, <4>2, <4>3
        <3>3. CASE y # x
            <4>1. y \in s /\ (s \cup {x}) \ {y} = (s \ {y}) \cup {x} /\ x \in T \ (s \ {y})
                BY <3>1, <3>3
            <4>2. F[(s \cup {x}) \ {y}] = F[s \ {y}] + w[x]
                BY <2>1, <4>1
            <4>3. F[s] = F[s \ {y}] + w[y] /\ F[s \ {y}] \in Int
                BY <2>1, <2>2, <4>1
            <4>4. w[x] \in Int /\ w[y] \in Int
                BY <4>1
            <4> QED BY <3>1, <4>2, <4>3, <4>4
        <3> QED BY <3>2, <3>3
    <2> QED BY <2>4, <2>5
<1>6. \A n \in Nat : n \in P
    <2> HIDE DEF P
    <2> QED BY <1>4, <1>5, NatSetInduction
<1> QED BY <1>1, <1>6 DEF AddsUp

\* The community modules' sum over a set is the one of any set around it.
LEMMA SumOnSet ==
    ASSUME NEW T, IsFiniteSet(T), NEW w, NEW G, IsSum(G, T, w)
    PROVE  \A S \in SUBSET T : SumFunctionOnSet(w, S) = G[S]
<1> SUFFICES ASSUME NEW S \in SUBSET T PROVE SumFunctionOnSet(w, S) = G[S]
    OBVIOUS
<1> DEFINE F == CHOOSE iter : iter = [s \in SUBSET S |->
                  IF s = {} THEN 0
                  ELSE w[CHOOSE x \in s : TRUE] + iter[s \ {CHOOSE x \in s : TRUE}]]
<1>1. SumFunctionOnSet(w, S) = F[S]
    BY DEF SumFunctionOnSet, FoldFunctionOnSet, MapThenFoldSet
<1>2. IsFiniteSet(S)
    BY FS_Subset
<1>3. \E iter : iter = [s \in SUBSET S |->
                  IF s = {} THEN 0
                  ELSE w[CHOOSE x \in s : TRUE] + iter[s \ {CHOOSE x \in s : TRUE}]]
    <2>1. PICK iter : IsSum(iter, S, w)
        BY <1>2, SumExists
    <2> QED BY <2>1 DEF IsSum, Chosen
<1>4. IsSum(F, S, w)
    BY <1>3 DEF IsSum, Chosen
<1> HIDE DEF F
<1>5. F[S] = G[S]
    <2>1. SameOn(F, G, S)
        BY <1>2, <1>4, SumsAgree
    <2> QED BY <2>1 DEF SameOn
<1> QED BY <1>1, <1>5

\* The sum of the empty set, and of a set with one element more or less.
LEMMA SumStep ==
    ASSUME NEW T, IsFiniteSet(T), NEW w \in [T -> Int]
    PROVE  /\ SumFunctionOnSet(w, {}) = 0
           /\ \A S \in SUBSET T : SumFunctionOnSet(w, S) \in Int
           /\ \A S \in SUBSET T : \A x \in T \ S :
                 SumFunctionOnSet(w, S \cup {x}) = SumFunctionOnSet(w, S) + w[x]
           /\ \A S \in SUBSET T : \A x \in S :
                 SumFunctionOnSet(w, S \ {x}) = SumFunctionOnSet(w, S) - w[x]
<1>1. PICK F : IsSum(F, T, w)
    BY SumExists
<1>2. \A S \in SUBSET T : SumFunctionOnSet(w, S) = F[S]
    BY <1>1, SumOnSet
<1>3. F[{}] = 0
    BY <1>1, SumUnfold
<1>4. \A s \in SUBSET T : /\ F[s] \in Int
                          /\ \A x \in T \ s : F[s \cup {x}] = F[s] + w[x]
    <2>1. AddsUp(F, T, w)
        BY <1>1, SumAdds
    <2> QED BY <2>1 DEF AddsUp
<1>5. ASSUME NEW S \in SUBSET T, NEW x \in T \ S
      PROVE  SumFunctionOnSet(w, S \cup {x}) = SumFunctionOnSet(w, S) + w[x]
    <2>1. S \cup {x} \in SUBSET T
        OBVIOUS
    <2> QED BY <1>2, <1>4, <2>1
<1>6. ASSUME NEW S \in SUBSET T, NEW x \in S
      PROVE  SumFunctionOnSet(w, S \ {x}) = SumFunctionOnSet(w, S) - w[x]
    <2>1. S \ {x} \in SUBSET T /\ x \in T \ (S \ {x}) /\ (S \ {x}) \cup {x} = S
        OBVIOUS
    <2>2. SumFunctionOnSet(w, S) = SumFunctionOnSet(w, S \ {x}) + w[x]
        BY <1>5, <2>1
    <2>3. SumFunctionOnSet(w, S \ {x}) \in Int /\ w[x] \in Int
        BY <1>2, <1>4, <2>1
    <2> QED BY <2>2, <2>3
<1>7. SumFunctionOnSet(w, {}) = 0
    BY <1>2, <1>3
<1>8. \A S \in SUBSET T : SumFunctionOnSet(w, S) \in Int
    BY <1>2, <1>4
<1> QED BY <1>5, <1>6, <1>7, <1>8

\* Only the weights of the elements count.
LEMMA SumSameWeights ==
    ASSUME NEW T, IsFiniteSet(T), NEW v, NEW w, NEW S \in SUBSET T,
           \A x \in S : v[x] = w[x]
    PROVE  SumFunctionOnSet(v, S) = SumFunctionOnSet(w, S)
<1>0. IsFiniteSet(S) /\ S \in SUBSET S
    BY FS_Subset
<1>1. PICK F : IsSum(F, S, v)
    BY <1>0, SumExists
<1>2. PICK G : IsSum(G, S, w)
    BY <1>0, SumExists
<1>3. SumFunctionOnSet(v, S) = F[S]
    BY <1>0, <1>1, SumOnSet
<1>4. SumFunctionOnSet(w, S) = G[S]
    BY <1>0, <1>2, SumOnSet
<1>5. F[S] = G[S]
    <2>1. S \subseteq S
        OBVIOUS
    <2>2. SameOn(F, G, S)
        BY <1>0, <1>1, <1>2, <2>1, SumsAgree
    <2> QED BY <1>0, <2>2 DEF SameOn
<1> QED BY <1>3, <1>4, <1>5

\* One weight changes.
LEMMA SumOneChanged ==
    ASSUME NEW T, IsFiniteSet(T), NEW v \in [T -> Int], NEW w \in [T -> Int],
           NEW S \in SUBSET T, NEW x \in T, \A y \in T \ {x} : v[y] = w[y]
    PROVE  SumFunctionOnSet(v, S) =
               IF x \in S THEN SumFunctionOnSet(w, S) + (v[x] - w[x])
               ELSE SumFunctionOnSet(w, S)
<1>1. CASE x \notin S
    <2>1. \A y \in S : v[y] = w[y]
        BY <1>1
    <2> QED BY <1>1, <2>1, SumSameWeights
<1>2. CASE x \in S
    <2> DEFINE R == S \ {x}
    <2>1. R \in SUBSET T /\ \A y \in R : v[y] = w[y]
        OBVIOUS
    <2>2. SumFunctionOnSet(v, R) = SumFunctionOnSet(v, S) - v[x]
        BY <1>2, SumStep
    <2>3. SumFunctionOnSet(w, R) = SumFunctionOnSet(w, S) - w[x]
        BY <1>2, SumStep
    <2>4. SumFunctionOnSet(v, S) \in Int
        BY SumStep
    <2>5. SumFunctionOnSet(w, S) \in Int
        BY SumStep
    <2> HIDE DEF R
    <2>6. SumFunctionOnSet(v, R) = SumFunctionOnSet(w, R)
        BY <2>1, SumSameWeights
    <2>7. v[x] \in Int /\ w[x] \in Int
        OBVIOUS
    <2> QED BY <1>2, <2>2, <2>3, <2>4, <2>5, <2>6, <2>7
<1> QED BY <1>1, <1>2

\* The sum of a union of disjoint sets.
LEMMA SumDisjoint ==
    ASSUME NEW T, IsFiniteSet(T), NEW w \in [T -> Int],
           NEW A \in SUBSET T, NEW B \in SUBSET T, A \cap B = {}
    PROVE  SumFunctionOnSet(w, A \cup B)
               = SumFunctionOnSet(w, A) + SumFunctionOnSet(w, B)
<1> DEFINE Sum(S) == SumFunctionOnSet(w, S)
           P == {S \in SUBSET B : Sum(A \cup S) = Sum(A) + Sum(S)}
<1>1. /\ Sum({}) = 0
      /\ \A S \in SUBSET T : Sum(S) \in Int
      /\ \A S \in SUBSET T : \A x \in T \ S : Sum(S \cup {x}) = Sum(S) + w[x]
    BY SumStep
<1> HIDE DEF Sum
<1>2. {} \in P
    <2>1. A \cup {} = A /\ Sum(A) \in Int
        BY <1>1
    <2>2. Sum(A) + 0 = Sum(A)
        BY <2>1
    <2> QED BY <1>1, <2>1, <2>2
<1>3. ASSUME NEW S \in SUBSET B, NEW x \in B \ S, S \in P
      PROVE  S \cup {x} \in P
    <2>1. /\ A \cup S \in SUBSET T /\ x \in T \ (A \cup S)
          /\ A \cup (S \cup {x}) = (A \cup S) \cup {x}
          /\ S \in SUBSET T /\ x \in T \ S
        OBVIOUS
    <2>2. Sum(A \cup (S \cup {x})) = Sum(A \cup S) + w[x]
        BY <1>1, <2>1
    <2>3. Sum(S \cup {x}) = Sum(S) + w[x]
        BY <1>1, <2>1
    <2>4. Sum(A \cup S) = Sum(A) + Sum(S)
        BY <1>3
    <2>5. Sum(A) \in Int /\ Sum(S) \in Int /\ w[x] \in Int
        BY <1>1, <2>1
    <2>6. Sum(A \cup (S \cup {x})) = Sum(A) + Sum(S \cup {x})
        BY <2>2, <2>3, <2>4, <2>5
    <2> QED BY <2>6
<1>4. IsFiniteSet(B)
    BY FS_Subset
<1>5. B \in P
    <2> HIDE DEF P
    <2>1. \A S \in SUBSET B : S \in P
        BY <1>2, <1>3, <1>4, FiniteSetInduction
    <2> QED BY <2>1
<1> QED BY <1>5 DEF Sum

\* Taking a part away.
LEMMA SumWithout ==
    ASSUME NEW T, IsFiniteSet(T), NEW w \in [T -> Int],
           NEW A \in SUBSET T, NEW B \in SUBSET A
    PROVE  SumFunctionOnSet(w, A \ B)
               = SumFunctionOnSet(w, A) - SumFunctionOnSet(w, B)
<1> DEFINE R == A \ B
<1>1. R \in SUBSET T /\ B \in SUBSET T /\ R \cap B = {} /\ R \cup B = A
    OBVIOUS
<1> HIDE DEF R
<1>2. SumFunctionOnSet(w, R \cup B) = SumFunctionOnSet(w, R) + SumFunctionOnSet(w, B)
    BY <1>1, SumDisjoint
<1>3. SumFunctionOnSet(w, R) \in Int /\ SumFunctionOnSet(w, B) \in Int
    BY <1>1, SumStep
<1>4. SumFunctionOnSet(w, R) = SumFunctionOnSet(w, A) - SumFunctionOnSet(w, B)
    <2>1. SumFunctionOnSet(w, A) = SumFunctionOnSet(w, R) + SumFunctionOnSet(w, B)
        BY <1>1, <1>2, Zenon
    <2> QED BY <1>3, <2>1
<1> QED BY <1>4 DEF R

\* Elements without weight do not count.
LEMMA SumOfZeros ==
    ASSUME NEW T, IsFiniteSet(T), NEW w \in [T -> Int],
           NEW S \in SUBSET T, \A x \in S : w[x] = 0
    PROVE  SumFunctionOnSet(w, S) = 0
<1> DEFINE P == {R \in SUBSET S : SumFunctionOnSet(w, R) = 0}
<1>1. {} \in P
    BY SumStep
<1>2. ASSUME NEW R \in SUBSET S, NEW x \in S \ R, R \in P
      PROVE  R \cup {x} \in P
    <2>1. R \in SUBSET T /\ x \in T \ R
        OBVIOUS
    <2>2. SumFunctionOnSet(w, R \cup {x}) = SumFunctionOnSet(w, R) + w[x]
        BY <2>1, SumStep
    <2>3. SumFunctionOnSet(w, R) = 0 /\ w[x] = 0
        BY <1>2
    <2>4. SumFunctionOnSet(w, R \cup {x}) = 0
        BY <2>2, <2>3
    <2> QED BY <2>4
<1>3. IsFiniteSet(S)
    BY FS_Subset
<1>4. S \in P
    <2> HIDE DEF P
    <2>1. \A R \in SUBSET S : R \in P
        BY <1>1, <1>2, <1>3, FiniteSetInduction
    <2> QED BY <2>1
<1> QED BY <1>4

\* Weights that are 1 on a set and 0 on the others add up to its size.
LEMMA SumOfOnes ==
    ASSUME NEW T, IsFiniteSet(T), NEW w \in [T -> Int],
           NEW S \in SUBSET T, NEW A \in SUBSET S,
           \A x \in A : w[x] = 1, \A x \in S \ A : w[x] = 0
    PROVE  SumFunctionOnSet(w, S) = Cardinality(A)
<1> DEFINE P == {B \in SUBSET A : SumFunctionOnSet(w, B) = Cardinality(B)}
<1>0. IsFiniteSet(A) /\ A \in SUBSET T
    BY FS_Subset
<1>1. {} \in P
    <2>1. SumFunctionOnSet(w, {}) = 0
        BY SumStep
    <2> QED BY <2>1, FS_EmptySet
<1>2. ASSUME NEW B \in SUBSET A, NEW x \in A \ B, B \in P PROVE B \cup {x} \in P
    <2>1. IsFiniteSet(B) /\ Cardinality(B) \in Nat /\ B \in SUBSET T /\ x \in T \ B
        BY <1>0, FS_Subset, FS_CardinalityType
    <2>2. Cardinality(B \cup {x}) = Cardinality(B) + 1
        BY <2>1, FS_AddElement
    <2>3. SumFunctionOnSet(w, B \cup {x}) = SumFunctionOnSet(w, B) + w[x]
        BY <2>1, SumStep
    <2>4. SumFunctionOnSet(w, B \cup {x}) = Cardinality(B \cup {x})
        BY <1>2, <2>2, <2>3
    <2> QED BY <2>4
<1>3. A \in P
    <2> HIDE DEF P
    <2> QED BY <1>0, <1>1, <1>2, FiniteSetInduction
<1>4. SumFunctionOnSet(w, S \ A) = 0
    BY SumOfZeros
<1>5. SumFunctionOnSet(w, S \ A) = SumFunctionOnSet(w, S) - SumFunctionOnSet(w, A)
    BY SumWithout
<1>6. SumFunctionOnSet(w, S) \in Int /\ SumFunctionOnSet(w, A) \in Int
    BY <1>0, SumStep
<1> QED BY <1>3, <1>4, <1>5, <1>6
-----------------------------------------------------------------------------
(* Message counts: what a command does to the sum of the messages of a set *)
(* of threads.  The counts are w before the command and v after it.        *)

Count == [Thread -> Nat]

\* The part of a count that a set has.
Share(t, S, n) == IF t \in S THEN n ELSE 0

\* Counts are weights.
LEMMA CountsAreWeights ==
    ASSUME NEW w \in Count
    PROVE  /\ IsFiniteSet(Thread) /\ w \in [Thread -> Int]
           /\ \A t \in Thread : w[t] \in Nat
           /\ \A S \in SUBSET Thread : SumFunctionOnSet(w, S) \in Int
<1>1. IsFiniteSet(Thread) /\ w \in [Thread -> Int] /\ \A t \in Thread : w[t] \in Nat
  BY SlotAssumption DEF Count
<1> QED
  BY <1>1, SumStep

\* A thread leaves the set; its own count may change with it.
LEMMA ThreadLeaves ==
    ASSUME NEW w \in Count, NEW v, NEW t \in Thread, NEW S \in SUBSET Thread,
           \A u \in Thread \ {t} : v[u] = w[u]
    PROVE  SumFunctionOnSet(v, S \ {t}) = SumFunctionOnSet(w, S) - Share(t, S, w[t])
<1>1. IsFiniteSet(Thread) /\ w \in [Thread -> Int] /\ SumFunctionOnSet(w, S) \in Int
  BY CountsAreWeights
<1> DEFINE R == S \ {t}
<1>2. R \in SUBSET Thread /\ \A u \in R : v[u] = w[u]
  OBVIOUS
<1>3. SumFunctionOnSet(w, R) = SumFunctionOnSet(w, S) - Share(t, S, w[t])
  <2>1. CASE t \in S
    <3>1. SumFunctionOnSet(w, S \ {t}) = SumFunctionOnSet(w, S) - w[t]
      BY <1>1, <2>1, SumStep
    <3> QED
      BY <2>1, <3>1 DEF Share
  <2>2. CASE t \notin S
    <3>1. R = S
      BY <2>2
    <3>2. Share(t, S, w[t]) = 0
      BY <2>2 DEF Share
    <3> HIDE DEF R
    <3> QED
      BY <1>1, <3>1, <3>2
  <2> QED
    BY <2>1, <2>2
<1> HIDE DEF R
<1>4. SumFunctionOnSet(v, R) = SumFunctionOnSet(w, R)
  BY <1>1, <1>2, SumSameWeights
<1> QED
  BY <1>3, <1>4 DEF R

\* The count of one thread changes by n.
LEMMA CountChanges ==
    ASSUME NEW w \in Count, NEW v \in Count, NEW t \in Thread, NEW n \in Int,
           NEW S \in SUBSET Thread,
           \A u \in Thread \ {t} : v[u] = w[u], v[t] = w[t] + n
    PROVE  SumFunctionOnSet(v, S) = SumFunctionOnSet(w, S) + Share(t, S, n)
<1>1. /\ IsFiniteSet(Thread) /\ w \in [Thread -> Int] /\ w[t] \in Int
      /\ SumFunctionOnSet(w, S) \in Int
  BY CountsAreWeights
<1>2. v \in [Thread -> Int]
  BY CountsAreWeights
<1>3. SumFunctionOnSet(v, S) = IF t \in S THEN SumFunctionOnSet(w, S) + (v[t] - w[t])
                               ELSE SumFunctionOnSet(w, S)
  BY <1>1, <1>2, SumOneChanged
<1> QED
  BY <1>1, <1>3 DEF Share

\* A message moves between threads.
LEMMA MessageMoves ==
    ASSUME NEW w \in Count, NEW v \in Count, NEW from \in Thread, NEW into \in Thread,
           NEW S \in SUBSET Thread,
           from # into, v[from] = w[from] - 1, v[into] = w[into] + 1,
           \A u \in Thread \ {from, into} : v[u] = w[u]
    PROVE  SumFunctionOnSet(v, S) =
               (SumFunctionOnSet(w, S) + Share(into, S, 1)) + Share(from, S, -1)
<1> DEFINE mid == [w EXCEPT ![into] = @ + 1]
<1>1. /\ mid \in Count /\ mid[into] = w[into] + 1
      /\ \A u \in Thread \ {into} : mid[u] = w[u]
  BY DEF Count
<1> DEFINE k == -1
<1>2. k \in Int /\ v[from] = mid[from] + k /\ \A u \in Thread \ {from} : v[u] = mid[u]
  BY DEF Count
<1> HIDE DEF mid
<1>3. SumFunctionOnSet(mid, S) = SumFunctionOnSet(w, S) + Share(into, S, 1)
  BY <1>1, CountChanges
<1>4. SumFunctionOnSet(v, S) = SumFunctionOnSet(mid, S) + Share(from, S, k)
  <2> HIDE DEF k
  <2> QED
    BY <1>1, <1>2, CountChanges
<1> QED
  BY <1>3, <1>4

\* A thread is merged into another one.
LEMMA ThreadMerges ==
    ASSUME NEW w \in Count, NEW from \in Thread, NEW into \in Thread,
           NEW S \in SUBSET Thread, from # into,
           NEW v, v[into] = w[into] + w[from],
           \A u \in Thread \ {from, into} : v[u] = w[u]
    PROVE  SumFunctionOnSet(v, S \ {from}) =
               (SumFunctionOnSet(w, S) + Share(from, S, -w[from]))
                   + Share(into, S, w[from])
<1> DEFINE mid == [w EXCEPT ![into] = @ + w[from]]
<1>0. w[from] \in Nat /\ SumFunctionOnSet(w, S) \in Int
  BY CountsAreWeights
<1>1. /\ mid \in Count /\ mid[into] = w[into] + w[from]
      /\ \A u \in Thread \ {into} : mid[u] = w[u]
  BY DEF Count
<1>2. mid[from] = w[from] /\ \A u \in Thread \ {from} : v[u] = mid[u]
  BY DEF Count
<1> HIDE DEF mid
<1>3. SumFunctionOnSet(mid, S) = SumFunctionOnSet(w, S) + Share(into, S, w[from])
  BY <1>0, <1>1, CountChanges
<1>4. SumFunctionOnSet(v, S \ {from}) = SumFunctionOnSet(mid, S) - Share(from, S, w[from])
  <2>1. SumFunctionOnSet(v, S \ {from}) =
            SumFunctionOnSet(mid, S) - Share(from, S, mid[from])
    BY <1>1, <1>2, ThreadLeaves
  <2> QED
    BY <1>2, <2>1
<1> QED
  BY <1>0, <1>3, <1>4 DEF Share
-----------------------------------------------------------------------------
(* The cached counts of tags.                                              *)

CountType == messageCount \in Count /\ tagMessages \in [Tag -> Int]

TagsCounted == \A g \in Tag : tagMessages[g] = SumFunctionOnSet(messageCount, tagThreads[g])

\* A command that adds, deletes or moves messages.
LEMMA TagCountsChange ==
    ASSUME GraphType, CountType, TagsAndThreadsAgree, TagsCounted, NEW t \in Thread,
           NEW delta \in Int, messageCount[t] + delta \in Nat, ChangeMessages(t, delta)
    PROVE  CountType' /\ TagsCounted'
<1>1. /\ messageCount \in Count /\ tagMessages \in [Tag -> Int]
      /\ tagThreads \in [Tag -> SUBSET Thread]
  BY DEF CountType, GraphType
<1>2. /\ messageCount' = [messageCount EXCEPT ![t] = @ + delta]
      /\ tagThreads' = tagThreads
      /\ tagMessages' = [g \in Tag |-> IF g \in threadTags[t] THEN tagMessages[g] + delta
                                       ELSE tagMessages[g]]
  BY DEF ChangeMessages, TagMessagesChanged
<1>3. /\ messageCount' \in Count /\ messageCount'[t] = messageCount[t] + delta
      /\ \A u \in Thread \ {t} : messageCount'[u] = messageCount[u]
  BY <1>1, <1>2 DEF Count
<1>4. tagMessages' \in [Tag -> Int]
  BY <1>1, <1>2
<1>5. ASSUME NEW g \in Tag
      PROVE  tagMessages'[g] = SumFunctionOnSet(messageCount', tagThreads'[g])
  <2>1. tagMessages[g] = SumFunctionOnSet(messageCount, tagThreads[g]) /\ tagMessages[g] \in Int
    BY <1>1 DEF TagsCounted
  <2>2. g \in threadTags[t] <=> t \in tagThreads[g]
    BY DEF TagsAndThreadsAgree
  <2>3. tagMessages'[g] = tagMessages[g] + Share(t, tagThreads[g], delta)
    BY <1>2, <2>1, <2>2 DEF Share
  <2>4. tagThreads[g] \in SUBSET Thread
    BY <1>1
  <2>5. SumFunctionOnSet(messageCount', tagThreads[g]) =
            SumFunctionOnSet(messageCount, tagThreads[g]) + Share(t, tagThreads[g], delta)
    BY <1>1, <1>3, <2>4, CountChanges
  <2> QED
    BY <1>2, <2>1, <2>3, <2>5
<1> QED
  BY <1>3, <1>4, <1>5 DEF CountType, TagsCounted

\* A message moves between threads.
LEMMA TagCountsMove ==
    ASSUME GraphType, CountType, TagsAndThreadsAgree, TagsCounted, NEW from \in Thread,
           NEW into \in Thread, moveDiscussionThreadMessage(from, into)
    PROVE  CountType' /\ TagsCounted'
<1>1. /\ messageCount \in Count /\ tagMessages \in [Tag -> Int]
      /\ tagThreads \in [Tag -> SUBSET Thread]
  BY DEF CountType, GraphType
<1>2. /\ messageCount' = [messageCount EXCEPT ![from] = @ - 1, ![into] = @ + 1]
      /\ messageCount[from] > 0 /\ from # into
      /\ tagThreads' = tagThreads
      /\ tagMessages' = TagMessagesChanged(TagMessagesChanged(tagMessages, into, 1), from, -1)
  BY DEF moveDiscussionThreadMessage
<1>3. /\ messageCount' \in Count
      /\ messageCount'[from] = messageCount[from] - 1
      /\ messageCount'[into] = messageCount[into] + 1
      /\ \A u \in Thread \ {from, into} : messageCount'[u] = messageCount[u]
  BY <1>1, <1>2 DEF Count
<1>4. /\ tagMessages' \in [Tag -> Int]
      /\ \A g \in Tag : tagMessages'[g] =
            (tagMessages[g] + (IF g \in threadTags[into] THEN 1 ELSE 0))
                + (IF g \in threadTags[from] THEN -1 ELSE 0)
  BY <1>1, <1>2 DEF TagMessagesChanged
<1>5. ASSUME NEW g \in Tag
      PROVE  tagMessages'[g] = SumFunctionOnSet(messageCount', tagThreads'[g])
  <2>1. tagMessages[g] = SumFunctionOnSet(messageCount, tagThreads[g]) /\ tagMessages[g] \in Int
    BY <1>1 DEF TagsCounted
  <2>2. /\ g \in threadTags[from] <=> from \in tagThreads[g]
        /\ g \in threadTags[into] <=> into \in tagThreads[g]
    BY DEF TagsAndThreadsAgree
  <2>3. tagMessages'[g] = (tagMessages[g] + Share(into, tagThreads[g], 1))
                              + Share(from, tagThreads[g], -1)
    BY <1>4, <2>1, <2>2 DEF Share
  <2>4. tagThreads[g] \in SUBSET Thread
    BY <1>1
  <2>5. SumFunctionOnSet(messageCount', tagThreads[g]) =
            (SumFunctionOnSet(messageCount, tagThreads[g]) + Share(into, tagThreads[g], 1))
                + Share(from, tagThreads[g], -1)
    <3>1. from # into
      BY <1>2
    <3> QED
      BY <1>1, <1>3, <2>4, <3>1, MessageMoves
  <2> QED
    BY <1>2, <2>1, <2>3, <2>5
<1> QED
  BY <1>3, <1>4, <1>5 DEF CountType, TagsCounted

\* A thread is deleted.
LEMMA TagCountsDelete ==
    ASSUME GraphType, CountType, TagsAndThreadsAgree, TagsCounted, NEW t \in Thread,
           deleteDiscussionThread(t)
    PROVE  CountType' /\ TagsCounted'
<1>1. /\ messageCount \in Count /\ tagMessages \in [Tag -> Int]
      /\ tagThreads \in [Tag -> SUBSET Thread] /\ messageCount[t] \in Nat
  BY DEF CountType, GraphType, Count
<1>2. /\ messageCount' = [messageCount EXCEPT ![t] = 0]
      /\ tagThreads' = [g \in Tag |-> IF g \in threadTags[t] THEN tagThreads[g] \ {t}
                                      ELSE tagThreads[g]]
      /\ tagMessages' = TagMessagesChanged(tagMessages, t, -messageCount[t])
  BY DEF deleteDiscussionThread, ReleaseThread
<1>3. /\ messageCount' \in Count
      /\ \A u \in Thread \ {t} : messageCount'[u] = messageCount[u]
  BY <1>1, <1>2 DEF Count
<1>4. /\ tagMessages' \in [Tag -> Int]
      /\ \A g \in Tag : tagMessages'[g] = IF g \in threadTags[t]
                                          THEN tagMessages[g] + (-messageCount[t])
                                          ELSE tagMessages[g]
  BY <1>1, <1>2 DEF TagMessagesChanged
<1>5. ASSUME NEW g \in Tag
      PROVE  tagMessages'[g] = SumFunctionOnSet(messageCount', tagThreads'[g])
  <2>1. tagMessages[g] = SumFunctionOnSet(messageCount, tagThreads[g]) /\ tagMessages[g] \in Int
    BY <1>1 DEF TagsCounted
  <2>2. g \in threadTags[t] <=> t \in tagThreads[g]
    BY DEF TagsAndThreadsAgree
  <2>3. tagMessages'[g] = tagMessages[g] - Share(t, tagThreads[g], messageCount[t])
    BY <1>1, <1>4, <2>1, <2>2 DEF Share
  <2>4. tagThreads[g] \in SUBSET Thread /\ tagThreads'[g] = tagThreads[g] \ {t}
    BY <1>1, <1>2, <2>2
  <2>5. SumFunctionOnSet(messageCount', tagThreads[g] \ {t}) =
            SumFunctionOnSet(messageCount, tagThreads[g])
                - Share(t, tagThreads[g], messageCount[t])
    BY <1>1, <1>3, <2>4, ThreadLeaves
  <2> QED
    BY <2>1, <2>3, <2>4, <2>5
<1> QED
  BY <1>3, <1>4, <1>5 DEF CountType, TagsCounted

\* A thread is merged into another one.
LEMMA TagCountsMerge ==
    ASSUME GraphType, CountType, TagsAndThreadsAgree, TagsCounted, NEW from \in Thread,
           NEW into \in Thread, mergeDiscussionThreads(from, into)
    PROVE  CountType' /\ TagsCounted'
<1>1. /\ messageCount \in Count /\ tagMessages \in [Tag -> Int]
      /\ tagThreads \in [Tag -> SUBSET Thread] /\ messageCount[from] \in Nat
  BY DEF CountType, GraphType, Count
<1>2. /\ messageCount' = [messageCount EXCEPT ![into] = @ + messageCount[from], ![from] = 0]
      /\ from # into
      /\ tagThreads' = [g \in Tag |-> IF g \in threadTags[from] THEN tagThreads[g] \ {from}
                                      ELSE tagThreads[g]]
      /\ tagMessages' = TagMessagesChanged(
                            TagMessagesChanged(tagMessages, from, -messageCount[from]),
                            into, messageCount[from])
  BY DEF mergeDiscussionThreads, ReleaseThread
<1>3. /\ messageCount' \in Count
      /\ messageCount'[into] = messageCount[into] + messageCount[from]
      /\ \A u \in Thread \ {from, into} : messageCount'[u] = messageCount[u]
  BY <1>1, <1>2 DEF Count
<1>4. /\ tagMessages' \in [Tag -> Int]
      /\ \A g \in Tag : tagMessages'[g] =
            (tagMessages[g] + (IF g \in threadTags[from] THEN -messageCount[from] ELSE 0))
                + (IF g \in threadTags[into] THEN messageCount[from] ELSE 0)
  BY <1>1, <1>2 DEF TagMessagesChanged
<1>5. ASSUME NEW g \in Tag
      PROVE  tagMessages'[g] = SumFunctionOnSet(messageCount', tagThreads'[g])
  <2>1. tagMessages[g] = SumFunctionOnSet(messageCount, tagThreads[g]) /\ tagMessages[g] \in Int
    BY <1>1 DEF TagsCounted
  <2>2. /\ g \in threadTags[from] <=> from \in tagThreads[g]
        /\ g \in threadTags[into] <=> into \in tagThreads[g]
    BY DEF TagsAndThreadsAgree
  <2>3. tagMessages'[g] = (tagMessages[g] + Share(from, tagThreads[g], -messageCount[from]))
                              + Share(into, tagThreads[g], messageCount[from])
    BY <1>4, <2>1, <2>2 DEF Share
  <2>4. tagThreads[g] \in SUBSET Thread /\ tagThreads'[g] = tagThreads[g] \ {from}
    BY <1>1, <1>2, <2>2
  <2>5. SumFunctionOnSet(messageCount', tagThreads[g] \ {from}) =
            (SumFunctionOnSet(messageCount, tagThreads[g])
                + Share(from, tagThreads[g], -messageCount[from]))
                    + Share(into, tagThreads[g], messageCount[from])
    <3>1. from # into
      BY <1>2
    <3> QED
      BY <1>1, <1>3, <2>4, <3>1, ThreadMerges
  <2> QED
    BY <2>1, <2>3, <2>4, <2>5
<1> QED
  BY <1>3, <1>4, <1>5 DEF CountType, TagsCounted

\* A tag is put on a thread, taken off it, or deleted.
LEMMA TagCountsTagged ==
    ASSUME GraphType, CountType, TagsAndThreadsAgree, TagsCounted, NEW g \in Tag,
           \/ \E t \in Thread : addDiscussionTagToThread(g, t)
           \/ \E t \in Thread : removeDiscussionTagFromThread(g, t)
           \/ deleteDiscussionTag(g)
    PROVE  CountType' /\ TagsCounted'
<1>1. /\ messageCount \in Count /\ tagMessages \in [Tag -> Int]
      /\ tagThreads \in [Tag -> SUBSET Thread]
  BY DEF CountType, GraphType
<1>2. /\ IsFiniteSet(Thread) /\ messageCount \in [Thread -> Int]
      /\ \A t \in Thread : messageCount[t] \in Nat
  BY <1>1, CountsAreWeights
<1>3. messageCount' = messageCount
  BY DEF addDiscussionTagToThread, removeDiscussionTagFromThread, deleteDiscussionTag
<1>4. PICK n \in Int, S \in SUBSET Thread :
          /\ tagMessages' = [tagMessages EXCEPT ![g] = n]
          /\ tagThreads' = [tagThreads EXCEPT ![g] = S]
          /\ n = SumFunctionOnSet(messageCount, S)
  <2>0. /\ tagThreads[g] \in SUBSET Thread /\ tagMessages[g] \in Int
        /\ tagMessages[g] = SumFunctionOnSet(messageCount, tagThreads[g])
    BY <1>1 DEF TagsCounted
  <2>1. CASE \E t \in Thread : addDiscussionTagToThread(g, t)
    <3>1. PICK t \in Thread : addDiscussionTagToThread(g, t)
      BY <2>1
    <3> DEFINE n == tagMessages[g] + messageCount[t]
               S == tagThreads[g] \cup {t}
    <3>2. /\ tagMessages' = [tagMessages EXCEPT ![g] = n]
          /\ tagThreads' = [tagThreads EXCEPT ![g] = S]
          /\ t \notin tagThreads[g]
      BY <3>1 DEF addDiscussionTagToThread, TagsAndThreadsAgree
    <3>3. n = SumFunctionOnSet(messageCount, S)
      <4>1. SumFunctionOnSet(messageCount, S) =
                SumFunctionOnSet(messageCount, tagThreads[g]) + messageCount[t]
        BY <1>2, <2>0, <3>2, SumStep
      <4> QED
        BY <2>0, <4>1
    <3>4. n \in Int /\ S \in SUBSET Thread
      BY <1>2, <2>0
    <3> QED
      BY <3>2, <3>3, <3>4
  <2>2. CASE \E t \in Thread : removeDiscussionTagFromThread(g, t)
    <3>1. PICK t \in Thread : removeDiscussionTagFromThread(g, t)
      BY <2>2
    <3> DEFINE n == tagMessages[g] - messageCount[t]
               S == tagThreads[g] \ {t}
    <3>2. /\ tagMessages' = [tagMessages EXCEPT ![g] = n]
          /\ tagThreads' = [tagThreads EXCEPT ![g] = S]
          /\ t \in tagThreads[g]
      BY <3>1 DEF removeDiscussionTagFromThread, TagsAndThreadsAgree
    <3>3. n = SumFunctionOnSet(messageCount, S)
      <4>1. SumFunctionOnSet(messageCount, S) =
                SumFunctionOnSet(messageCount, tagThreads[g]) - messageCount[t]
        BY <1>2, <2>0, <3>2, SumStep
      <4> QED
        BY <2>0, <4>1
    <3>4. n \in Int /\ S \in SUBSET Thread
      BY <1>2, <2>0
    <3> QED
      BY <3>2, <3>3, <3>4
  <2>3. CASE deleteDiscussionTag(g)
    <3> DEFINE n == 0
               S == {}
    <3>1. /\ tagMessages' = [tagMessages EXCEPT ![g] = n]
          /\ tagThreads' = [tagThreads EXCEPT ![g] = S]
      BY <2>3 DEF deleteDiscussionTag
    <3>2. n = SumFunctionOnSet(messageCount, S)
      BY <1>2, SumStep
    <3>3. n \in Int /\ S \in SUBSET Thread
      OBVIOUS
    <3> HIDE DEF n, S
    <3> QED
      BY <3>1, <3>2, <3>3
  <2> QED
    BY <2>1, <2>2, <2>3
<1>5. CountType'
  BY <1>1, <1>3, <1>4 DEF CountType
<1>6. ASSUME NEW h \in Tag
      PROVE  tagMessages'[h] = SumFunctionOnSet(messageCount', tagThreads'[h])
  <2>1. /\ tagMessages'[h] = IF h = g THEN n ELSE tagMessages[h]
        /\ tagThreads'[h] = IF h = g THEN S ELSE tagThreads[h]
    BY <1>1, <1>4
  <2>2. tagMessages[h] = SumFunctionOnSet(messageCount, tagThreads[h])
    BY DEF TagsCounted
  <2> QED
    BY <1>3, <1>4, <2>1, <2>2
<1> QED
  BY <1>5, <1>6 DEF TagsCounted

\* A tag is merged into another one.
LEMMA TagCountsTagMerge ==
    ASSUME GraphType, CountType, TagsCounted, NEW from \in Tag, NEW into \in Tag,
           mergeDiscussionTags(from, into)
    PROVE  CountType' /\ TagsCounted'
<1>1. /\ messageCount \in Count /\ tagMessages \in [Tag -> Int]
      /\ tagThreads \in [Tag -> SUBSET Thread]
  BY DEF CountType, GraphType
<1>2. IsFiniteSet(Thread) /\ messageCount \in [Thread -> Int]
  BY <1>1, CountsAreWeights
<1> DEFINE A == tagThreads[into]
           B == tagThreads[from] \ tagThreads[into]
<1>3. /\ messageCount' = messageCount /\ from # into
      /\ tagThreads' = [tagThreads EXCEPT ![into] = @ \cup tagThreads[from], ![from] = {}]
      /\ tagMessages' = [tagMessages EXCEPT
                            ![into] = @ + SumFunctionOnSet(messageCount, B),
                            ![from] = 0]
  BY Zenon DEF mergeDiscussionTags, Messages
<1>4. /\ A \in SUBSET Thread /\ B \in SUBSET Thread /\ A \cap B = {}
      /\ A \cup tagThreads[from] = A \cup B
  BY <1>1
<1>5. SumFunctionOnSet(messageCount, B) \in Int /\ SumFunctionOnSet(messageCount, {}) = 0
  BY <1>2, <1>4, SumStep
<1>6. SumFunctionOnSet(messageCount, A \cup B) =
          SumFunctionOnSet(messageCount, A) + SumFunctionOnSet(messageCount, B)
  <2> HIDE DEF A, B
  <2> QED
    BY <1>2, <1>4, SumDisjoint
<1>7. CountType'
  BY <1>1, <1>3, <1>5 DEF CountType
<1>8. ASSUME NEW h \in Tag
      PROVE  tagMessages'[h] = SumFunctionOnSet(messageCount', tagThreads'[h])
  <2> HIDE DEF B
  <2>1. tagMessages[h] = SumFunctionOnSet(messageCount, tagThreads[h])
    BY DEF TagsCounted
  <2>2. tagMessages'[h] = IF h = from THEN 0
                          ELSE IF h = into
                               THEN tagMessages[h] + SumFunctionOnSet(messageCount, B)
                               ELSE tagMessages[h]
    BY <1>1, <1>3
  <2>3. tagThreads'[h] = IF h = from THEN {}
                         ELSE IF h = into THEN A \cup tagThreads[from] ELSE tagThreads[h]
    BY <1>1, <1>3
  <2>4. CASE h = from
    BY <1>3, <1>5, <2>2, <2>3, <2>4
  <2>5. CASE h = into /\ h # from
    BY <1>3, <1>4, <1>6, <2>1, <2>2, <2>3, <2>5
  <2>6. CASE h # into /\ h # from
    BY <1>3, <2>1, <2>2, <2>3, <2>6
  <2> QED
    BY <2>4, <2>5, <2>6
<1> QED
  BY <1>7, <1>8 DEF TagsCounted

\* Every command keeps the counts of tags.
LEMMA TagsCountedStep ==
    ASSUME GraphType, CountType, TagsAndThreadsAgree, TagsCounted, Next
    PROVE  CountType' /\ TagsCounted'
<1> DEFINE Goal == CountType' /\ TagsCounted'
<1>0. UNCHANGED <<messageCount, tagThreads, tagMessages>> => Goal
  BY DEF CountType, TagsCounted
<1>1. ASSUME NEW t \in Thread, addNewDiscussionThread(t) PROVE Goal
  BY <1>0, <1>1 DEF addNewDiscussionThread, tagVars
<1>2. ASSUME NEW t \in Thread, deleteDiscussionThread(t) PROVE Goal
  BY <1>2, TagCountsDelete
<1>3. ASSUME NEW t \in Thread,
             addNewDiscussionMessageInThread(t) \/ deleteDiscussionMessage(t)
      PROVE  Goal
  <2>1. messageCount[t] \in Nat
    BY DEF CountType, Count
  <2>2. CASE addNewDiscussionMessageInThread(t)
    <3>1. ChangeMessages(t, 1) /\ messageCount[t] + 1 \in Nat /\ 1 \in Int
      BY <2>1, <2>2 DEF addNewDiscussionMessageInThread
    <3> QED
      BY <3>1, TagCountsChange
  <2>3. CASE deleteDiscussionMessage(t)
    <3> DEFINE k == -1
    <3>1. ChangeMessages(t, k) /\ messageCount[t] + k \in Nat /\ k \in Int
      BY <2>1, <2>3 DEF deleteDiscussionMessage
    <3> HIDE DEF k
    <3> QED
      BY <3>1, TagCountsChange
  <2> QED
    BY <1>3, <2>2, <2>3
<1>4. ASSUME NEW from \in Thread, NEW into \in Thread,
             \/ moveDiscussionThreadMessage(from, into)
             \/ mergeDiscussionThreads(from, into)
      PROVE  Goal
  BY <1>4, TagCountsMove, TagCountsMerge
<1>5. ASSUME NEW g \in Tag, addNewDiscussionTag(g) PROVE Goal
  BY <1>0, <1>5 DEF addNewDiscussionTag, threadVars
<1>6. ASSUME NEW g \in Tag,
             \/ \E t \in Thread : addDiscussionTagToThread(g, t)
             \/ \E t \in Thread : removeDiscussionTagFromThread(g, t)
             \/ deleteDiscussionTag(g)
      PROVE  Goal
  BY <1>6, TagCountsTagged
<1>7. ASSUME NEW from \in Tag, NEW into \in Tag, mergeDiscussionTags(from, into)
      PROVE  Goal
  BY <1>7, TagCountsTagMerge
<1>8. ASSUME NEW c \in Category, NEW p \in Category \cup {NoCategory},
             addNewDiscussionCategory(c, p) \/ changeDiscussionCategoryParent(c, p)
      PROVE  Goal
  BY <1>0, <1>8 DEF addNewDiscussionCategory, changeDiscussionCategoryParent, threadVars,
                    tagVars
<1>9. ASSUME NEW c \in Category, deleteDiscussionCategory(c) PROVE Goal
  BY <1>0, <1>9 DEF deleteDiscussionCategory, threadVars
<1>10. ASSUME NEW g \in Tag, NEW c \in Category,
              addDiscussionTagToCategory(g, c) \/ removeDiscussionTagFromCategory(g, c)
      PROVE  Goal
  BY <1>0, <1>10 DEF addDiscussionTagToCategory, removeDiscussionTagFromCategory, threadVars
<1> HIDE DEF Goal
<1>11. Goal
  BY <1>1, <1>2, <1>3, <1>4, <1>5, <1>6, <1>7, <1>8, <1>9, <1>10 DEF Next
<1> QED
  BY <1>11 DEF Goal
-----------------------------------------------------------------------------
(* The cached counts of categories.                                        *)

\* The message counts of listing m are those of the threads it lists.
Tally(m, w) ==
    /\ m.messages \in [Category -> Int]
    /\ \A c \in Category : m.messages[c] = SumFunctionOnSet(w, m.threads[c])

\* The totals have no influence on the counts of the categories' own threads.
LEMMA TotalsKeepMessages ==
    ASSUME NEW m, IsListing(m), NEW k
    PROVE  /\ AddTotals(m, k).messages = m.messages
           /\ ForgetReferences(m, k).messages = m.messages
           /\ DropReferences(m, k).messages = m.messages
<1>1. AddTotals(m, k).messages = m.messages
  <2>1. PICK a, b, c : AddTotals(m, k) =
                    [m EXCEPT !.total = a, !.references = b, !.totalMessages = c]
    BY Zenon DEF AddTotals
  <2> QED
    BY <2>1 DEF IsListing, Field
<1>2. ForgetReferences(m, k).messages = m.messages
  <2>1. PICK b : ForgetReferences(m, k) = [m EXCEPT !.references = b]
    BY Zenon DEF ForgetReferences
  <2> QED
    BY <2>1 DEF IsListing, Field
<1>3. DropReferences(m, k).messages = ForgetReferences(m, k).messages
  <2>1. PICK a, b : DropReferences(m, k) =
                  [ForgetReferences(m, k) EXCEPT !.total = a, !.totalMessages = b]
    BY Zenon DEF DropReferences
  <2>2. IsListing(ForgetReferences(m, k))
    BY TotalsKeepListing
  <2> QED
    BY <2>1, <2>2 DEF IsListing, Field
<1> QED
  BY <1>1, <1>2, <1>3

\* insertDiscussionThreads adds up the messages of what it inserts.
LEMMA InsertMessages ==
    ASSUME NEW m, IsListing(m), NEW n
    PROVE  InsertThreads(m, n).messages =
               [c \in Category |-> m.messages[c] + MessagesInserted(n, c)]
<1> DEFINE counts == [c \in Category |-> m.messages[c] + MessagesInserted(n, c)]
           shown == [c \in Category |-> m.threads[c] \cup {t \in Thread : n[c][t] > 0}]
           places == [t \in Thread |-> m.of[t] \cup {c \in Category : n[c][t] > 0}]
           q == [m EXCEPT !.threads = shown, !.of = places, !.messages = counts]
<1>1. PICK k : InsertThreads(m, n) = AddTotals(q, k)
  BY Zenon DEF InsertThreads
<1>2. shown \in [Category -> SUBSET Thread] /\ places \in [Thread -> SUBSET Category]
  BY DEF IsListing
<1> HIDE DEF counts, shown, places
<1>3. IsListing(q) /\ q.messages = counts
  BY <1>2 DEF IsListing, Field
<1> HIDE DEF q
<1>4. AddTotals(q, k).messages = q.messages
  BY <1>3, TotalsKeepMessages
<1> QED
  BY <1>1, <1>3, <1>4 DEF counts

\* deleteDiscussionThreadIfNoOtherTagsReferenceIt subtracts the messages of
\* what it removes.
LEMMA WithdrawMessages ==
    ASSUME NEW m, IsListing(m), NEW pairs
    PROVE  WithdrawThreads(m, pairs).messages =
               [c \in Category |-> m.messages[c]
                    - SumFunctionOnSet(messageCount, {t \in m.threads[c] : <<c, t>> \in pairs})]
<1> DEFINE Listed(c) == {t \in m.threads[c] : <<c, t>> \in pairs}
           counts == [c \in Category |->
                        m.messages[c] - SumFunctionOnSet(messageCount, Listed(c))]
           shown == [c \in Category |-> m.threads[c] \ Listed(c)]
           places == [t \in Thread |-> m.of[t] \ {c \in Category : t \in Listed(c)}]
           q == [m EXCEPT !.threads = shown, !.of = places, !.messages = counts]
<1>1. PICK k : WithdrawThreads(m, pairs) = DropReferences(q, k)
  BY Zenon DEF WithdrawThreads, Messages
<1>2. shown \in [Category -> SUBSET Thread] /\ places \in [Thread -> SUBSET Category]
  BY DEF IsListing
<1> HIDE DEF counts, shown, places
<1>3. IsListing(q) /\ q.messages = counts
  BY <1>2 DEF IsListing, Field
<1> HIDE DEF q
<1>4. DropReferences(q, k).messages = q.messages
  BY <1>3, TotalsKeepMessages
<1> QED
  BY <1>1, <1>3, <1>4 DEF counts

\* updateMessageCount changes the counts of all categories of the thread.
LEMMA UpdateMessages ==
    ASSUME NEW m, IsListing(m), NEW t, NEW delta
    PROVE  updateMessageCount(m, t, delta).messages =
               [c \in Category |-> IF c \in m.of[t] THEN m.messages[c] + delta
                                   ELSE m.messages[c]]
<1> DEFINE counts == [c \in Category |-> IF c \in m.of[t] THEN m.messages[c] + delta
                                         ELSE m.messages[c]]
<1>1. PICK b : updateMessageCount(m, t, delta) =
                    [m EXCEPT !.messages = counts, !.totalMessages = b]
  BY Zenon DEF updateMessageCount
<1> HIDE DEF counts
<1>2. updateMessageCount(m, t, delta).messages = counts
  BY <1>1 DEF IsListing, Field
<1> QED
  BY <1>2 DEF counts

\* The counts of listing r are those of m without the messages of thread t.
Released(r, m, t, deleteMessages) ==
    /\ r.messages \in [Category -> Int]
    /\ \A c \in Category : r.messages[c] =
          IF deleteMessages /\ t \in m.threads[c]
          THEN m.messages[c] - messageCount[t] ELSE m.messages[c]

\* Deleting a thread takes its messages off the categories that list it.
LEMMA ReleaseMessages ==
    ASSUME NEW m, IsListing(m), Agree(m), m.messages \in [Category -> Int],
           messageCount \in Count, NEW t \in Thread, NEW deleteMessages \in BOOLEAN
    PROVE  Released(DetachFromTags(RemoveThread(m, t, deleteMessages), t),
                    m, t, deleteMessages)
<1> DEFINE listedIn == {c \in m.of[t] : t \in m.threads[c]}
           counts == [c \in Category |-> IF deleteMessages /\ c \in listedIn
                                         THEN m.messages[c] - messageCount[t]
                                         ELSE m.messages[c]]
           q == RemoveThread(m, t, deleteMessages)
           r == DetachFromTags(q, t)
<1>1. q.messages = counts
  <2>1. PICK a, b, d, e :
          q = [m EXCEPT !.threads = a, !.of[t] = {}, !.messages = counts,
                        !.total = b, !.references = d, !.totalMessages = e]
    BY Zenon DEF RemoveThread
  <2> HIDE DEF q, counts
  <2> QED
    BY <2>1 DEF IsListing, Field
<1>2. messageCount[t] \in Int /\ SumFunctionOnSet(messageCount, {}) = 0
  BY CountsAreWeights, SumStep
<1>3. \A c \in Category : counts[c] \in Int /\ counts[c] =
          IF deleteMessages /\ t \in m.threads[c]
          THEN m.messages[c] - messageCount[t] ELSE m.messages[c]
  BY <1>2 DEF Agree
<1>4. /\ IsListing(q)
      /\ \A c \in Category : q.threads[c] = m.threads[c] \ {t}
  BY RemoveListing
<1>5. PICK C : r = WithdrawThreads(q, {<<c, t>> : c \in C})
  BY Zenon DEF DetachFromTags
<1> DEFINE pairs == {<<c, t>> : c \in C}
<1>6. \A c \in Category : {u \in q.threads[c] : <<c, u>> \in pairs} = {}
  BY <1>4
<1> HIDE DEF q, r, counts, pairs
<1>7. r.messages = [c \in Category |-> q.messages[c]
          - SumFunctionOnSet(messageCount, {u \in q.threads[c] : <<c, u>> \in pairs})]
  <2>1. WithdrawThreads(q, pairs).messages = [c \in Category |-> q.messages[c]
            - SumFunctionOnSet(messageCount, {u \in q.threads[c] : <<c, u>> \in pairs})]
    BY <1>4, WithdrawMessages
  <2>2. r = WithdrawThreads(q, pairs)
    BY <1>5 DEF pairs
  <2> QED
    BY <2>1, <2>2, Zenon
<1>8. ASSUME NEW c \in Category
      PROVE  r.messages[c] = counts[c]
  <2>1. r.messages[c] = q.messages[c]
          - SumFunctionOnSet(messageCount, {u \in q.threads[c] : <<c, u>> \in pairs})
    BY <1>7
  <2>2. r.messages[c] = counts[c] - 0
    BY <1>1, <1>2, <1>6, <2>1
  <2> QED
    BY <1>3, <2>2
<1>9. r.messages \in [Category -> Int]
  <2>1. r.messages = [c \in Category |-> r.messages[c]]
    BY <1>7
  <2> QED
    BY <1>3, <1>8, <2>1
<1>10. Released(r, m, t, deleteMessages)
  BY <1>3, <1>8, <1>9 DEF Released
<1> QED
  BY <1>10 DEF r, q

\* Inserting pairs of a category and a thread adds the messages of their
\* threads once.
LEMMA InsertedOnce ==
    ASSUME messageCount \in Count, NEW pairs, NEW c \in Category
    PROVE  MessagesInserted(Once(pairs), c) =
               SumFunctionOnSet(messageCount, {t \in Thread : <<c, t>> \in pairs})
<1> DEFINE n == Once(pairs)
           w == [t \in Thread |-> n[c][t] * messageCount[t]]
           A == {t \in Thread : <<c, t>> \in pairs}
           B == Thread \ A
           Body(f) == [s \in SUBSET Thread |->
                      IF s = {} THEN 0
                      ELSE n[c][CHOOSE x \in s : TRUE] * messageCount[CHOOSE x \in s : TRUE]
                               + f[s \ {CHOOSE x \in s : TRUE}]]
           iter == CHOOSE f : f = Body(f)
<1>1. IsFiniteSet(Thread) /\ messageCount \in [Thread -> Int]
  BY CountsAreWeights
<1>2. /\ w \in [Thread -> Int]
      /\ \A t \in A : w[t] = messageCount[t]
      /\ \A t \in B : w[t] = 0
  <2>1. \A t \in Thread : n[c][t] = IF <<c, t>> \in pairs THEN 1 ELSE 0
    BY DEF Once
  <2>2. \A t \in Thread : messageCount[t] \in Int
    BY <1>1
  <2> HIDE DEF n
  <2>3. ASSUME NEW t \in Thread
        PROVE  n[c][t] * messageCount[t] = IF <<c, t>> \in pairs THEN messageCount[t] ELSE 0
    <3>1. CASE <<c, t>> \in pairs
      <4>1. n[c][t] = 1
        BY <2>1, <3>1
      <4> QED
        BY <2>2, <3>1, <4>1
    <3>2. CASE <<c, t>> \notin pairs
      <4>1. n[c][t] = 0
        BY <2>1, <3>2
      <4> QED
        BY <2>2, <3>2, <4>1
    <3> QED
      BY <3>1, <3>2
  <2>4. \A t \in Thread : w[t] = IF <<c, t>> \in pairs THEN messageCount[t] ELSE 0
    BY <2>3
  <2>5. ASSUME NEW t \in Thread PROVE w[t] \in Int
    <3> HIDE DEF w
    <3>1. w[t] = messageCount[t] \/ w[t] = 0
      BY <2>4
    <3>2. messageCount[t] \in Int /\ 0 \in Int
      BY <2>2
    <3> QED
      BY <3>1, <3>2, Zenon
  <2>6. w \in [Thread -> Int]
    <3>1. w = [t \in Thread |-> w[t]]
      OBVIOUS
    <3> HIDE DEF w
    <3> QED
      BY <2>5, <3>1
  <2> HIDE DEF w
  <2> QED
    BY <2>4, <2>6
<1>3. MessagesInserted(n, c) = iter[Thread]
  <2> HIDE DEF n
  <2> QED
    BY DEF MessagesInserted, MapThenSumSet, MapThenFoldSet
<1>4. \A f : IsSum(f, Thread, w) <=> f = Body(f)
  <2> HIDE DEF n
  <2>1. \A s \in SUBSET Thread : s # {} =>
            w[Chosen(s)] = n[c][CHOOSE x \in s : TRUE] * messageCount[CHOOSE x \in s : TRUE]
    BY DEF Chosen
  <2> HIDE DEF w
  <2>2. ASSUME NEW f
        PROVE  [s \in SUBSET Thread |-> IF s = {} THEN 0
                                        ELSE w[Chosen(s)] + f[s \ {Chosen(s)}]] =
               Body(f)
    BY <2>1 DEF Chosen
  <2> QED
    BY <2>2 DEF IsSum
<1>5. IsSum(iter, Thread, w)
  <2>1. PICK f : IsSum(f, Thread, w)
    BY <1>1, SumExists
  <2> HIDE DEF n, w, Body
  <2>2. f = Body(f)
    BY <1>4, <2>1
  <2>3. iter = Body(iter)
    BY <2>2
  <2> HIDE DEF iter
  <2> QED
    BY <1>4, <2>3
<1> HIDE DEF iter, w
<1>6. iter[Thread] = SumFunctionOnSet(w, Thread)
  BY <1>1, <1>5, SumOnSet
<1>7. A \in SUBSET Thread /\ B \in SUBSET Thread /\ A \cap B = {} /\ A \cup B = Thread
  OBVIOUS
<1> HIDE DEF A, B
<1>8. SumFunctionOnSet(w, A \cup B) = SumFunctionOnSet(w, A) + SumFunctionOnSet(w, B)
  BY <1>1, <1>2, <1>7, SumDisjoint
<1>9. SumFunctionOnSet(w, B) = 0
  BY <1>1, <1>2, <1>7, SumOfZeros
<1>10. SumFunctionOnSet(w, A) = SumFunctionOnSet(messageCount, A)
  BY <1>1, <1>2, <1>7, SumSameWeights
<1>11. SumFunctionOnSet(messageCount, A) \in Int
  BY <1>7, CountsAreWeights
<1>12. SumFunctionOnSet(w, Thread) = SumFunctionOnSet(messageCount, A) + 0
  BY <1>7, <1>8, <1>9, <1>10, Zenon
<1> QED
  BY <1>3, <1>6, <1>11, <1>12 DEF A

\* Withdrawing threads keeps the counts.
LEMMA TallyWithdraw ==
    ASSUME messageCount \in Count, NEW m, IsListing(m), Tally(m, messageCount), NEW pairs
    PROVE  Tally(WithdrawThreads(m, pairs), messageCount)
<1> DEFINE r == WithdrawThreads(m, pairs)
           Listed(c) == {t \in m.threads[c] : <<c, t>> \in pairs}
<1>1. r.messages = [c \in Category |->
                      m.messages[c] - SumFunctionOnSet(messageCount, Listed(c))]
  BY WithdrawMessages
<1>2. \A c \in Category : r.threads[c] = {t \in m.threads[c] : <<c, t>> \notin pairs}
  BY WithdrawListing
<1>3. /\ IsFiniteSet(Thread) /\ messageCount \in [Thread -> Int]
      /\ \A S \in SUBSET Thread : SumFunctionOnSet(messageCount, S) \in Int
  BY CountsAreWeights
<1> HIDE DEF r
<1>4. ASSUME NEW c \in Category
      PROVE  /\ m.messages[c] \in Int
             /\ SumFunctionOnSet(messageCount, Listed(c)) \in Int
             /\ r.messages[c] = SumFunctionOnSet(messageCount, r.threads[c])
  <2> DEFINE A == m.threads[c]
             B == Listed(c)
  <2>1. /\ A \in SUBSET Thread /\ B \in SUBSET A /\ B \in SUBSET Thread
        /\ r.threads[c] = A \ B
    BY <1>2 DEF IsListing
  <2>2. m.messages[c] = SumFunctionOnSet(messageCount, A) /\ m.messages[c] \in Int
    BY DEF Tally
  <2>3. r.messages[c] = m.messages[c] - SumFunctionOnSet(messageCount, B)
    BY <1>1
  <2>4. SumFunctionOnSet(messageCount, B) \in Int
    BY <1>3, <2>1
  <2> HIDE DEF A, B, Listed
  <2>5. SumFunctionOnSet(messageCount, A \ B) =
            SumFunctionOnSet(messageCount, A) - SumFunctionOnSet(messageCount, B)
    BY <1>3, <2>1, SumWithout
  <2>6. r.messages[c] = SumFunctionOnSet(messageCount, r.threads[c])
    BY <2>1, <2>2, <2>3, <2>5, Zenon
  <2> QED
    BY <2>2, <2>4, <2>6 DEF B
<1> HIDE DEF Listed
<1>5. r.messages \in [Category -> Int]
  BY <1>1, <1>4
<1>6. Tally(r, messageCount)
  BY <1>4, <1>5 DEF Tally
<1> QED
  BY <1>6 DEF r

\* Inserting threads that a category does not list yet keeps the counts.
LEMMA TallyInsert ==
    ASSUME messageCount \in Count, NEW m, Consistent(m), Tally(m, messageCount), NEW pairs,
           \A c \in Category, t \in Thread : <<c, t>> \in pairs => t \notin m.threads[c]
    PROVE  Tally(InsertThreads(m, Once(pairs)), messageCount)
<1> DEFINE r == InsertThreads(m, Once(pairs))
           New(c) == {t \in Thread : <<c, t>> \in pairs}
<1>1. r.messages = [c \in Category |-> m.messages[c] + MessagesInserted(Once(pairs), c)]
  BY InsertMessages DEF Consistent
<1>2. \A c \in Category : r.threads[c] = m.threads[c] \cup New(c)
  BY InsertOnce
<1>3. /\ IsFiniteSet(Thread) /\ messageCount \in [Thread -> Int]
      /\ \A S \in SUBSET Thread : SumFunctionOnSet(messageCount, S) \in Int
  BY CountsAreWeights
<1> HIDE DEF r
<1>4. ASSUME NEW c \in Category
      PROVE  /\ r.messages[c] \in Int
             /\ r.messages[c] = SumFunctionOnSet(messageCount, r.threads[c])
  <2> DEFINE A == m.threads[c]
             B == New(c)
  <2>1. /\ A \in SUBSET Thread /\ B \in SUBSET Thread /\ A \cap B = {}
        /\ r.threads[c] = A \cup B
    BY <1>2 DEF IsListing, Consistent
  <2>2. m.messages[c] = SumFunctionOnSet(messageCount, A) /\ m.messages[c] \in Int
    BY DEF Tally
  <2>3. MessagesInserted(Once(pairs), c) = SumFunctionOnSet(messageCount, B)
    BY InsertedOnce
  <2>4. r.messages[c] = m.messages[c] + SumFunctionOnSet(messageCount, B)
    BY <1>1, <2>3
  <2>5. SumFunctionOnSet(messageCount, B) \in Int
    BY <1>3, <2>1
  <2> HIDE DEF A, B, New
  <2>6. SumFunctionOnSet(messageCount, A \cup B) =
            SumFunctionOnSet(messageCount, A) + SumFunctionOnSet(messageCount, B)
    BY <1>3, <2>1, SumDisjoint
  <2>7. r.messages[c] = SumFunctionOnSet(messageCount, r.threads[c])
    BY <2>1, <2>2, <2>4, <2>6, Zenon
  <2> QED
    BY <2>2, <2>4, <2>5, <2>7
<1>5. r.messages \in [Category -> Int]
  <2>1. r.messages = [c \in Category |-> r.messages[c]]
    BY <1>1
  <2> QED
    BY <1>4, <2>1
<1>6. Tally(r, messageCount)
  BY <1>4, <1>5 DEF Tally
<1> QED
  BY <1>6 DEF r

\* A message is added or deleted.
LEMMA TallyChange ==
    ASSUME Consistent(listing), CountType, Tally(listing, messageCount), NEW t \in Thread,
           NEW delta \in Int, messageCount[t] + delta \in Nat, ChangeMessages(t, delta)
    PROVE  Tally(listing', messageCount')
<1>1. messageCount \in Count
  BY DEF CountType
<1>2. /\ messageCount' = [messageCount EXCEPT ![t] = @ + delta]
      /\ listing' = updateMessageCount(listing, t, delta)
  BY DEF ChangeMessages
<1>3. /\ messageCount' \in Count /\ messageCount'[t] = messageCount[t] + delta
      /\ \A u \in Thread \ {t} : messageCount'[u] = messageCount[u]
  BY <1>1, <1>2 DEF Count
<1>4. /\ listing'.threads = listing.threads
      /\ listing'.messages = [c \in Category |-> IF c \in listing.of[t]
                                THEN listing.messages[c] + delta ELSE listing.messages[c]]
  BY <1>2, CountsKeepListing, UpdateMessages DEF Consistent
<1>5. ASSUME NEW c \in Category
      PROVE  /\ listing'.messages[c] \in Int
             /\ listing'.messages[c] = SumFunctionOnSet(messageCount', listing'.threads[c])
  <2> DEFINE S == listing.threads[c]
  <2>1. /\ listing.messages[c] = SumFunctionOnSet(messageCount, S)
        /\ listing.messages[c] \in Int
    BY DEF Tally
  <2>2. S \in SUBSET Thread /\ (c \in listing.of[t] <=> t \in S)
    BY DEF Consistent, IsListing, Agree
  <2>3. listing'.messages[c] = listing.messages[c] + Share(t, S, delta)
    BY <1>4, <2>1, <2>2 DEF Share
  <2> HIDE DEF S
  <2>4. SumFunctionOnSet(messageCount', S) =
            SumFunctionOnSet(messageCount, S) + Share(t, S, delta)
    BY <1>1, <1>3, <2>2, CountChanges
  <2>5. Share(t, S, delta) \in Int
    BY DEF Share
  <2> QED
    BY <1>4, <2>1, <2>3, <2>4, <2>5 DEF S
<1>6. listing'.messages \in [Category -> Int]
  <2>1. listing'.messages = [c \in Category |-> listing'.messages[c]]
    BY <1>4
  <2> QED
    BY <1>5, <2>1
<1> QED
  BY <1>5, <1>6 DEF Tally

\* Listing r is m after the count of t changed by a and that of u by b.
Updated(r, m, t, a, u, b) ==
    /\ Consistent(r) /\ r.threads = m.threads
    /\ r.messages \in [Category -> Int]
    /\ \A c \in Category : r.messages[c] =
          (m.messages[c] + Share(t, m.threads[c], a)) + Share(u, m.threads[c], b)

\* Two updates in a row, as when messages leave one thread for another one.
LEMMA TwoUpdates ==
    ASSUME NEW m, Consistent(m), m.messages \in [Category -> Int],
           NEW t \in Thread, NEW u \in Thread, NEW a \in Int, NEW b \in Int
    PROVE  Updated(updateMessageCount(updateMessageCount(m, t, a), u, b), m, t, a, u, b)
<1> DEFINE q == updateMessageCount(m, t, a)
           r == updateMessageCount(q, u, b)
<1>1. /\ IsListing(q) /\ q.threads = m.threads /\ q.of = m.of
      /\ q.messages = [c \in Category |-> IF c \in m.of[t] THEN m.messages[c] + a
                                          ELSE m.messages[c]]
  BY CountsKeepListing, UpdateMessages DEF Consistent
<1>2. r = updateMessageCount(q, u, b)
  OBVIOUS
<1> HIDE DEF q, r
<1>3. /\ IsListing(updateMessageCount(q, u, b))
      /\ updateMessageCount(q, u, b).threads = q.threads
      /\ updateMessageCount(q, u, b).of = q.of
      /\ updateMessageCount(q, u, b).messages =
            [c \in Category |-> IF c \in q.of[u] THEN q.messages[c] + b ELSE q.messages[c]]
  BY <1>1, CountsKeepListing, UpdateMessages
<1>4. /\ IsListing(r) /\ r.threads = m.threads /\ r.of = m.of
      /\ r.messages = [c \in Category |-> IF c \in m.of[u] THEN q.messages[c] + b
                                          ELSE q.messages[c]]
  BY <1>1, <1>2, <1>3
<1>5. Consistent(r)
  BY <1>4 DEF Consistent, Agree
<1>6. \A c \in Category : /\ c \in m.of[t] <=> t \in m.threads[c]
                          /\ c \in m.of[u] <=> u \in m.threads[c]
  BY DEF Consistent, Agree
<1>7. \A c \in Category : /\ m.messages[c] \in Int
                          /\ q.messages[c] = m.messages[c] + Share(t, m.threads[c], a)
                          /\ q.messages[c] \in Int
  BY <1>1, <1>6 DEF Share
<1>8. \A c \in Category : /\ r.messages[c] = q.messages[c] + Share(u, m.threads[c], b)
                          /\ r.messages[c] \in Int
  BY <1>4, <1>6, <1>7 DEF Share
<1>9. r.messages \in [Category -> Int]
  BY <1>4, <1>7
<1>10. Updated(r, m, t, a, u, b)
  BY <1>4, <1>5, <1>7, <1>8, <1>9 DEF Updated
<1> QED
  BY <1>10 DEF r, q

\* A message moves between threads.
LEMMA TallyMove ==
    ASSUME Consistent(listing), CountType, Tally(listing, messageCount),
           NEW from \in Thread, NEW into \in Thread, moveDiscussionThreadMessage(from, into)
    PROVE  Tally(listing', messageCount')
<1> DEFINE k == -1
<1>1. messageCount \in Count /\ k \in Int
  BY DEF CountType
<1>2. /\ messageCount' = [messageCount EXCEPT ![from] = @ - 1, ![into] = @ + 1]
      /\ listing' = updateMessageCount(updateMessageCount(listing, into, 1), from, k)
      /\ messageCount[from] > 0 /\ from # into
  BY DEF moveDiscussionThreadMessage
<1>3. /\ messageCount' \in Count
      /\ messageCount'[from] = messageCount[from] - 1
      /\ messageCount'[into] = messageCount[into] + 1
      /\ \A u \in Thread \ {from, into} : messageCount'[u] = messageCount[u]
  BY <1>1, <1>2 DEF Count
<1>4. listing.messages \in [Category -> Int]
  BY DEF Tally
<1>5. /\ listing'.threads = listing.threads /\ listing'.messages \in [Category -> Int]
      /\ \A c \in Category : listing'.messages[c] =
            (listing.messages[c] + Share(into, listing.threads[c], 1))
                + Share(from, listing.threads[c], k)
  <2> HIDE DEF k
  <2>1. 1 \in Int
    OBVIOUS
  <2>2. Updated(updateMessageCount(updateMessageCount(listing, into, 1), from, k),
                listing, into, 1, from, k)
    BY <1>1, <1>4, <2>1, TwoUpdates
  <2> QED
    BY <1>2, <2>2 DEF Updated
<1>6. ASSUME NEW c \in Category
      PROVE  listing'.messages[c] = SumFunctionOnSet(messageCount', listing'.threads[c])
  <2> DEFINE S == listing.threads[c]
  <2>1. listing.messages[c] = SumFunctionOnSet(messageCount, S) /\ S \in SUBSET Thread
    BY DEF Tally, Consistent, IsListing
  <2>2. from # into
    BY <1>2
  <2> HIDE DEF S
  <2>3. SumFunctionOnSet(messageCount', S) =
            (SumFunctionOnSet(messageCount, S) + Share(into, S, 1)) + Share(from, S, -1)
    BY <1>1, <1>3, <2>1, <2>2, MessageMoves
  <2> QED
    BY <1>5, <2>1, <2>3 DEF S
<1> QED
  BY <1>5, <1>6 DEF Tally

\* A thread is deleted.
LEMMA TallyDelete ==
    ASSUME Consistent(listing), CountType, Tally(listing, messageCount), NEW t \in Thread,
           deleteDiscussionThread(t)
    PROVE  Tally(listing', messageCount')
<1>1. messageCount \in Count /\ messageCount[t] \in Nat
  BY DEF CountType, Count
<1>2. /\ messageCount' = [messageCount EXCEPT ![t] = 0]
      /\ listing' = DetachFromTags(RemoveThread(listing, t, TRUE), t)
  BY DEF deleteDiscussionThread, ReleaseThread
<1>3. \A u \in Thread \ {t} : messageCount'[u] = messageCount[u]
  BY <1>1, <1>2 DEF Count
<1>4. \A c \in Category : listing'.threads[c] = listing.threads[c] \ {t}
  BY DeleteThreadListing
<1>5. listing.messages \in [Category -> Int] /\ IsListing(listing) /\ Agree(listing)
  BY DEF Tally, Consistent
<1>6. /\ listing'.messages \in [Category -> Int]
      /\ \A c \in Category : listing'.messages[c] =
            IF t \in listing.threads[c]
            THEN listing.messages[c] - messageCount[t] ELSE listing.messages[c]
  <2>1. TRUE \in BOOLEAN
    OBVIOUS
  <2>2. Released(DetachFromTags(RemoveThread(listing, t, TRUE), t), listing, t, TRUE)
    BY <1>1, <1>5, <2>1, ReleaseMessages
  <2> QED
    BY <1>2, <2>2 DEF Released
<1>7. ASSUME NEW c \in Category
      PROVE  listing'.messages[c] = SumFunctionOnSet(messageCount', listing'.threads[c])
  <2> DEFINE S == listing.threads[c]
  <2>1. listing.messages[c] = SumFunctionOnSet(messageCount, S) /\ S \in SUBSET Thread
    BY <1>5 DEF Tally, IsListing
  <2>2. listing.messages[c] \in Int
    BY <1>5
  <2>3. listing'.messages[c] = listing.messages[c] - Share(t, S, messageCount[t])
    BY <1>1, <1>6, <2>2 DEF Share
  <2> HIDE DEF S
  <2>4. SumFunctionOnSet(messageCount', S \ {t}) =
            SumFunctionOnSet(messageCount, S) - Share(t, S, messageCount[t])
    BY <1>1, <1>3, <2>1, ThreadLeaves
  <2> QED
    BY <1>4, <2>1, <2>3, <2>4 DEF S
<1> QED
  BY <1>6, <1>7 DEF Tally

\* A thread is merged into another one.
LEMMA TallyMerge ==
    ASSUME Consistent(listing), CountType, Tally(listing, messageCount),
           NEW from \in Thread, NEW into \in Thread, mergeDiscussionThreads(from, into)
    PROVE  Tally(listing', messageCount')
<1> DEFINE n == messageCount[from]
           k == -n
           q == updateMessageCount(updateMessageCount(listing, from, k), into, n)
<1>1. messageCount \in Count /\ n \in Nat /\ n \in Int /\ k \in Int
  BY DEF CountType, Count
<1>2. /\ messageCount' = [messageCount EXCEPT ![into] = @ + messageCount[from], ![from] = 0]
      /\ listing' = DetachFromTags(RemoveThread(q, from, FALSE), from)
      /\ from # into
  BY Zenon DEF mergeDiscussionThreads, ReleaseThread
<1>3. /\ messageCount'[into] = messageCount[into] + messageCount[from]
      /\ \A u \in Thread \ {from, into} : messageCount'[u] = messageCount[u]
  BY <1>1, <1>2 DEF Count
<1>4. \A c \in Category : listing'.threads[c] = listing.threads[c] \ {from}
  BY DeleteThreadListing
<1>5. listing.messages \in [Category -> Int]
  BY DEF Tally
<1>6. /\ Consistent(q) /\ q.threads = listing.threads
      /\ q.messages \in [Category -> Int]
      /\ \A c \in Category : q.messages[c] =
            (listing.messages[c] + Share(from, listing.threads[c], k))
                + Share(into, listing.threads[c], n)
  <2> HIDE DEF n, k
  <2>1. Updated(q, listing, from, k, into, n)
    BY <1>1, <1>5, TwoUpdates
  <2> HIDE DEF q
  <2> QED
    BY <2>1 DEF Updated
<1> HIDE DEF q
<1>7. /\ listing'.messages \in [Category -> Int]
      /\ \A c \in Category : listing'.messages[c] = q.messages[c]
  <2>1. FALSE \in BOOLEAN /\ IsListing(q) /\ Agree(q)
    BY <1>6 DEF Consistent
  <2>2. Released(DetachFromTags(RemoveThread(q, from, FALSE), from), q, from, FALSE)
    BY <1>1, <1>6, <2>1, ReleaseMessages
  <2> QED
    BY <1>2, <2>2 DEF Released
<1>8. ASSUME NEW c \in Category
      PROVE  listing'.messages[c] = SumFunctionOnSet(messageCount', listing'.threads[c])
  <2> DEFINE S == listing.threads[c]
  <2>1. listing.messages[c] = SumFunctionOnSet(messageCount, S) /\ S \in SUBSET Thread
    BY DEF Tally, Consistent, IsListing
  <2>2. from # into
    BY <1>2
  <2>3. listing'.messages[c] =
            (listing.messages[c] + Share(from, S, -messageCount[from]))
                + Share(into, S, messageCount[from])
    BY <1>6, <1>7
  <2> HIDE DEF S
  <2>4. SumFunctionOnSet(messageCount', S \ {from}) =
            (SumFunctionOnSet(messageCount, S) + Share(from, S, -messageCount[from]))
                + Share(into, S, messageCount[from])
    BY <1>1, <1>3, <2>1, <2>2, ThreadMerges
  <2> QED
    BY <1>4, <2>1, <2>3, <2>4 DEF S
<1> QED
  BY <1>7, <1>8 DEF Tally

\* A category is moved or deleted.
LEMMA TallyTree ==
    ASSUME Consistent(listing), CountType, Tally(listing, messageCount), NEW d \in Category,
           \/ \E p \in Category \cup {NoCategory} : changeDiscussionCategoryParent(d, p)
           \/ deleteDiscussionCategory(d)
    PROVE  Tally(listing', messageCount')
<1>0. messageCount' = messageCount /\ messageCount \in Count /\ IsListing(listing)
  BY DEF changeDiscussionCategoryParent, deleteDiscussionCategory, threadVars, CountType,
         Consistent
<1>1. CASE \E p \in Category \cup {NoCategory} : changeDiscussionCategoryParent(d, p)
  <2>1. PICK p \in Category \cup {NoCategory} : changeDiscussionCategoryParent(d, p)
    BY <1>1
  <2> DEFINE left == ForgetReferences(listing, ReferencesOf(listing, d, Ancestors(d)))
  <2>2. IsListing(left) /\ left.messages = listing.messages
    BY <1>0, TotalsKeepListing, TotalsKeepMessages
  <2>3. \/ listing' = left
        \/ listing' = AddTotals(left, ReferencesOf(left, d, Lineage(p)))
    BY <2>1, Zenon DEF changeDiscussionCategoryParent
  <2> HIDE DEF left
  <2>4. listing'.messages = listing.messages
    BY <2>2, <2>3, TotalsKeepMessages
  <2>5. listing'.threads = listing.threads
    BY <2>1, ChangeParentListing
  <2> QED
    BY <1>0, <2>4, <2>5 DEF Tally
<1>2. CASE deleteDiscussionCategory(d)
  <2> DEFINE alone == ForgetReferences(listing, ReferencesOfChildren(listing, d))
             left == ForgetReferences(alone, ReferencesOf(alone, d, Ancestors(d)))
  <2>1. IsListing(alone) /\ alone.messages = listing.messages
    BY <1>0, TotalsKeepListing, TotalsKeepMessages
  <2>2. PICK a, b, e :
          listing' = [left EXCEPT
                        !.threads[d] = {}, !.of = b, !.messages[d] = 0, !.total[d] = {},
                        !.references[d] = a, !.totalMessages[d] = e]
    BY <1>2, Zenon DEF deleteDiscussionCategory
  <2> HIDE DEF alone
  <2>3. IsListing(left) /\ left.messages = listing.messages
    BY <2>1, TotalsKeepListing, TotalsKeepMessages
  <2> HIDE DEF left
  <2>4. listing'.messages = [listing.messages EXCEPT ![d] = 0]
    BY <2>2, <2>3 DEF IsListing, Field
  <2>5. \A c \in Category : listing'.threads[c] = IF c = d THEN {} ELSE listing.threads[c]
    BY <1>2, DeleteCategoryListing
  <2>6. SumFunctionOnSet(messageCount, {}) = 0
    BY <1>0, CountsAreWeights, SumStep
  <2>7. /\ listing.messages \in [Category -> Int]
        /\ \A c \in Category : listing.messages[c] =
              SumFunctionOnSet(messageCount, listing.threads[c])
    BY DEF Tally
  <2>8. \A c \in Category : listing'.messages[c] =
            SumFunctionOnSet(messageCount, listing'.threads[c])
    BY <2>4, <2>5, <2>6, <2>7
  <2>9. listing'.messages \in [Category -> Int]
    BY <2>4, <2>7
  <2> QED
    BY <1>0, <2>8, <2>9 DEF Tally
<1> QED
  BY <1>1, <1>2

\* A tag is deleted, or taken off a thread or out of a category.
LEMMA TallyUntag ==
    ASSUME Consistent(listing), CountType, Tally(listing, messageCount), NEW g \in Tag,
           \/ \E t \in Thread : removeDiscussionTagFromThread(g, t)
           \/ \E c \in Category : removeDiscussionTagFromCategory(g, c)
           \/ deleteDiscussionTag(g)
    PROVE  Tally(listing', messageCount')
<1>1. messageCount' = messageCount /\ messageCount \in Count /\ IsListing(listing)
  BY DEF removeDiscussionTagFromThread, removeDiscussionTagFromCategory,
         deleteDiscussionTag, threadVars, CountType, Consistent
<1>2. \E pairs : listing' = WithdrawThreads(listing, pairs)
  <2>1. CASE \E t \in Thread : removeDiscussionTagFromThread(g, t)
    BY <2>1, Zenon DEF removeDiscussionTagFromThread
  <2>2. CASE \E c \in Category : removeDiscussionTagFromCategory(g, c)
    BY <2>2, Zenon DEF removeDiscussionTagFromCategory, RemoveTag
  <2>3. CASE deleteDiscussionTag(g)
    BY <2>3, Zenon DEF deleteDiscussionTag, ReleaseTag, RemoveTag
  <2> QED
    BY <2>1, <2>2, <2>3
<1>3. PICK pairs : listing' = WithdrawThreads(listing, pairs)
  BY <1>2
<1>4. Tally(WithdrawThreads(listing, pairs), messageCount)
  BY <1>1, TallyWithdraw
<1> QED
  BY <1>1, <1>3, <1>4, Zenon

\* A tag is put on a thread or into a category.
LEMMA TallyTag ==
    ASSUME GraphType, Consistent(listing), CountType, Tally(listing, messageCount),
           NEW g \in Tag,
           \/ \E t \in Thread : addDiscussionTagToThread(g, t)
           \/ \E c \in Category : addDiscussionTagToCategory(g, c)
    PROVE  Tally(listing', messageCount')
<1>1. messageCount' = messageCount /\ messageCount \in Count
  BY DEF addDiscussionTagToThread, addDiscussionTagToCategory, threadVars, CountType
<1>2. ASSUME NEW pairs, listing' = InsertThreads(listing, Once(pairs)),
             \A c \in Category, t \in Thread : <<c, t>> \in pairs => t \notin listing.threads[c]
      PROVE  Tally(listing', messageCount')
  <2>1. Tally(InsertThreads(listing, Once(pairs)), messageCount)
    BY <1>1, <1>2, TallyInsert
  <2> QED
    BY <1>1, <1>2, <2>1, Zenon
<1>3. CASE \E t \in Thread : addDiscussionTagToThread(g, t)
  <2>1. PICK t \in Thread : addDiscussionTagToThread(g, t)
    BY <1>3
  <2> DEFINE pairs == {<<c, t>> : c \in {d \in tagCategories[g] :
                                            t \notin listing.threads[d]}}
  <2>2. listing' = InsertThreads(listing, Once(pairs))
    BY <2>1 DEF addDiscussionTagToThread
  <2>3. \A c \in Category, u \in Thread : <<c, u>> \in pairs => u \notin listing.threads[c]
    OBVIOUS
  <2> HIDE DEF pairs
  <2> QED
    BY <1>2, <2>2, <2>3
<1>4. CASE \E c \in Category : addDiscussionTagToCategory(g, c)
  <2>1. PICK d \in Category : addDiscussionTagToCategory(g, d)
    BY <1>4
  <2>2. CASE g \in categoryTags[d]
    <3>1. listing' = listing
      BY <2>1, <2>2 DEF addDiscussionTagToCategory
    <3> QED
      BY <1>1, <3>1, Zenon
  <2>3. CASE g \notin categoryTags[d]
    <3> DEFINE pairs == {d} \X (tagThreads[g] \ listing.threads[d])
    <3>1. listing' = InsertThreads(listing, Once(pairs))
      BY <2>1, <2>3 DEF addDiscussionTagToCategory
    <3>2. \A c \in Category, u \in Thread : <<c, u>> \in pairs => u \notin listing.threads[c]
      OBVIOUS
    <3> HIDE DEF pairs
    <3> QED
      BY <1>2, <3>1, <3>2
  <2> QED
    BY <2>2, <2>3
<1> QED
  BY <1>3, <1>4

\* Every command other than a merge of tags keeps the counts of categories.
LEMMA TallyStep ==
    ASSUME NoTagMerges, GraphType, Consistent(listing), CountType,
           Tally(listing, messageCount), Next
    PROVE  Tally(listing', messageCount')
<1> DEFINE Goal == Tally(listing', messageCount')
<1>0. UNCHANGED <<messageCount, listing>> => Goal
  BY Zenon
<1>1. ASSUME NEW t \in Thread, addNewDiscussionThread(t) PROVE Goal
  BY <1>0, <1>1 DEF addNewDiscussionThread
<1>2. ASSUME NEW t \in Thread, deleteDiscussionThread(t) PROVE Goal
  BY <1>2, TallyDelete
<1>3. ASSUME NEW t \in Thread,
             addNewDiscussionMessageInThread(t) \/ deleteDiscussionMessage(t)
      PROVE  Goal
  <2>1. messageCount[t] \in Nat
    BY DEF CountType, Count
  <2>2. CASE addNewDiscussionMessageInThread(t)
    <3>1. ChangeMessages(t, 1) /\ messageCount[t] + 1 \in Nat /\ 1 \in Int
      BY <2>1, <2>2 DEF addNewDiscussionMessageInThread
    <3> QED
      BY <3>1, TallyChange
  <2>3. CASE deleteDiscussionMessage(t)
    <3> DEFINE k == -1
    <3>1. ChangeMessages(t, k) /\ messageCount[t] + k \in Nat /\ k \in Int
      BY <2>1, <2>3 DEF deleteDiscussionMessage
    <3> HIDE DEF k
    <3> QED
      BY <3>1, TallyChange
  <2> QED
    BY <1>3, <2>2, <2>3
<1>4. ASSUME NEW from \in Thread, NEW into \in Thread,
             \/ moveDiscussionThreadMessage(from, into)
             \/ mergeDiscussionThreads(from, into)
      PROVE  Goal
  BY <1>4, TallyMove, TallyMerge
<1>5. ASSUME NEW g \in Tag, addNewDiscussionTag(g) PROVE Goal
  BY <1>0, <1>5 DEF addNewDiscussionTag, threadVars
<1>6. ASSUME NEW g \in Tag,
             \/ \E t \in Thread : removeDiscussionTagFromThread(g, t)
             \/ \E c \in Category : removeDiscussionTagFromCategory(g, c)
             \/ deleteDiscussionTag(g)
      PROVE  Goal
  BY <1>6, TallyUntag
<1>7. ASSUME NEW g \in Tag,
             \/ \E t \in Thread : addDiscussionTagToThread(g, t)
             \/ \E c \in Category : addDiscussionTagToCategory(g, c)
      PROVE  Goal
  BY <1>7, TallyTag
<1>8. ASSUME NEW from \in Tag, NEW into \in Tag, mergeDiscussionTags(from, into)
      PROVE  Goal
  BY <1>8 DEF mergeDiscussionTags, NoTagMerges
<1>9. ASSUME NEW c \in Category, NEW p \in Category \cup {NoCategory},
             addNewDiscussionCategory(c, p)
      PROVE  Goal
  BY <1>0, <1>9 DEF addNewDiscussionCategory, threadVars
<1>10. ASSUME NEW d \in Category,
              \/ \E p \in Category \cup {NoCategory} : changeDiscussionCategoryParent(d, p)
              \/ deleteDiscussionCategory(d)
      PROVE  Goal
  BY <1>10, TallyTree
<1> HIDE DEF Goal
<1>11. Goal
  BY <1>1, <1>2, <1>3, <1>4, <1>5, <1>6, <1>7, <1>8, <1>9, <1>10 DEF Next
<1> QED
  BY <1>11 DEF Goal

\* The invariant behind MessagesCounted.
CountInv ==
    /\ Inv /\ CountType /\ TagsCounted
    /\ NoTagMerges => Tally(listing, messageCount)

\* Every command keeps it.
LEMMA CountStep == CountInv /\ [Next]_vars => CountInv'
<1> SUFFICES ASSUME CountInv, [Next]_vars
             PROVE  CountInv'
  OBVIOUS
<1>1. Inv' /\ policy' = policy
  BY StepInv, PolicyStays DEF CountInv
<1>2. CASE Next
  <2>1. GraphType /\ Consistent(listing) /\ TagsAndThreadsAgree
    BY DEF CountInv, Inv, CategoriesAndThreadsAgree, Consistent, Agree, GraphType
  <2>2. CountType' /\ TagsCounted'
    BY <1>2, <2>1, TagsCountedStep DEF CountInv
  <2>3. NoTagMerges => Tally(listing', messageCount')
    BY <1>2, <2>1, TallyStep DEF CountInv
  <2>4. NoTagMerges' <=> NoTagMerges
    BY <1>1 DEF NoTagMerges
  <2> QED
    BY <1>1, <2>2, <2>3, <2>4 DEF CountInv
<1>3. CASE UNCHANGED vars
  <2>1. CountType' /\ TagsCounted'
    BY <1>3 DEF CountInv, vars, threadVars, tagVars, CountType, TagsCounted
  <2>2. messageCount' = messageCount /\ listing' = listing
    BY <1>3 DEF vars, threadVars
  <2>3. NoTagMerges => Tally(listing', messageCount')
    BY <2>2, Zenon DEF CountInv
  <2>4. NoTagMerges' <=> NoTagMerges
    BY <1>1 DEF NoTagMerges
  <2> QED
    BY <1>1, <2>1, <2>3, <2>4 DEF CountInv
<1> QED
  BY <1>2, <1>3

LEMMA CountInit == Init => CountInv
<1> SUFFICES ASSUME Init
             PROVE  CountInv
  OBVIOUS
<1>1. Inv /\ messageCount \in Count /\ tagMessages \in [Tag -> Int]
  BY InitInv DEF Init, Count
<1>2. SumFunctionOnSet(messageCount, {}) = 0
  BY <1>1, CountsAreWeights, SumStep
<1>3. TagsCounted
  BY <1>2 DEF Init, TagsCounted
<1>4. /\ listing.messages \in [Category -> Int]
      /\ \A c \in Category : listing.messages[c] = 0 /\ listing.threads[c] = {}
  BY DEF Init
<1>5. Tally(listing, messageCount)
  BY <1>2, <1>4 DEF Tally
<1> QED
  BY <1>1, <1>3, <1>5 DEF CountInv, CountType

\* The cached message counts of tags and, without merges of tags, of categories
\* are right after any sequence of commands, merges of threads included
\* (DiscussionTag and DiscussionCategory::updateMessageCount,
\* insertDiscussionThreads, deleteDiscussionThreadIfNoOtherTagsReferenceIt).
THEOREM MessagesCountedTheorem == Spec => []MessagesCounted
<1>1. CountInv => MessagesCounted
  BY DEF CountInv, TagsCounted, Tally, MessagesCounted, Messages
<1> QED
  BY <1>1, CountInit, CountStep, PTL DEF Spec

-----------------------------------------------------------------------------
(* The ancestors of a category.                                            *)

\* Climbing from c stays in S unless it stops.
Climbs(up, c, stop, S) ==
    \A x \in S \cup {c} : up[x] \in Category \ stop => up[x] \in S

\* The ancestors up to the first one in stop are closed themselves, do not
\* meet stop, and each of them is the parent of another one or of c.
LEMMA ParentsUntilProperties ==
    ASSUME NEW c \in Category, NEW stop
    PROVE  /\ ParentsUntil(c, stop) \subseteq Category \ stop
           /\ Climbs(parent, c, stop, ParentsUntil(c, stop))
           /\ \A S \in SUBSET Category :
                 Climbs(parent, c, stop, S) => ParentsUntil(c, stop) \subseteq S
           /\ \A y \in ParentsUntil(c, stop) :
                 \E z \in ParentsUntil(c, stop) \cup {c} : parent[z] = y
<1> DEFINE A == ParentsUntil(c, stop)
<1>1. A \subseteq Category
    BY DEF ParentsUntil
<1>2. ASSUME NEW S \in SUBSET Category, Climbs(parent, c, stop, S) PROVE A \subseteq S
    BY <1>2 DEF ParentsUntil, Climbs
<1>3. Climbs(parent, c, stop, A)
    <2> SUFFICES ASSUME NEW x \in A \cup {c}, parent[x] \in Category \ stop,
                        NEW S \in SUBSET Category, Climbs(parent, c, stop, S)
                 PROVE  parent[x] \in S
        BY DEF ParentsUntil, Climbs
    <2>1. x \in S \cup {c}
        BY <1>2
    <2> QED BY <2>1 DEF Climbs
<1> HIDE DEF A
<1>4. A \subseteq A \ stop
    <2>1. Climbs(parent, c, stop, A \ stop)
        BY <1>3 DEF Climbs
    <2> QED BY <1>1, <1>2, <2>1
<1>5. ASSUME NEW y \in A PROVE \E z \in A \cup {c} : parent[z] = y
    <2> SUFFICES ASSUME \A z \in A \cup {c} : parent[z] # y PROVE FALSE
        OBVIOUS
    <2>1. Climbs(parent, c, stop, A \ {y})
        BY <1>3 DEF Climbs
    <2>2. A \subseteq A \ {y}
        BY <1>1, <1>2, <2>1
    <2> QED BY <2>2
<1> QED BY <1>1, <1>2, <1>3, <1>4, <1>5 DEF A

\* No two categories have the same parent.
Only(up) == \A x, y \in Category : up[x] = up[y] /\ up[x] \in Category => x = y

\* Where climbing from a category of L is stopped by the next one of L, it
\* meets an ancestor if and only if climbing without a stop does.
LEMMA ClimbReaches ==
    ASSUME NEW L \in SUBSET Category, NEW d \in Category
    PROVE  (\E c \in L : d \in {c} \cup ParentsUntil(c, L)) <=> \E c \in L : d \in Lineage(c)
<1>1. ASSUME NEW c \in L PROVE ParentsUntil(c, L) \subseteq Ancestors(c)
    <2>1. Climbs(parent, c, L, Ancestors(c))
        <3>1. Climbs(parent, c, {}, Ancestors(c))
            BY ParentsUntilProperties DEF Ancestors
        <3> QED BY <3>1 DEF Climbs
    <2>2. Ancestors(c) \subseteq Category
        BY DEF Ancestors, ParentsUntil
    <2> QED BY <2>1, <2>2, ParentsUntilProperties
<1>2. ASSUME NEW c \in L, d \in Lineage(c),
             \A x \in L : d \notin {x} \cup ParentsUntil(x, L)
      PROVE  FALSE
    <2> DEFINE S == {x \in Category : d \notin {x} \cup ParentsUntil(x, L)}
    <2>1. L \subseteq S
        BY <1>2
    <2>2. ASSUME NEW x \in S, parent[x] \in Category, parent[x] \notin L
          PROVE  parent[x] \in S
        <3> DEFINE y == parent[x]
        <3>1. Climbs(parent, x, L, ParentsUntil(x, L)) /\ ParentsUntil(x, L) \subseteq Category
            BY ParentsUntilProperties
        <3>2. y \in ParentsUntil(x, L)
            BY <2>2, <3>1 DEF Climbs
        <3>3. Climbs(parent, y, L, ParentsUntil(x, L))
            BY <3>1, <3>2 DEF Climbs
        <3>4. ParentsUntil(y, L) \subseteq ParentsUntil(x, L)
            BY <2>2, <3>1, <3>3, ParentsUntilProperties
        <3> QED BY <2>2, <3>2, <3>4
    <2>3. Climbs(parent, c, {}, S)
        BY <2>1, <2>2 DEF Climbs
    <2>4. Ancestors(c) \subseteq S
        BY <2>3, ParentsUntilProperties DEF Ancestors
    <2> QED BY <1>2, <2>4 DEF Lineage
<1> QED BY <1>1, <1>2 DEF Lineage

\* Unless a category has two children, at most one of the climbs meets d.
LEMMA ClimbReachesOnce ==
    ASSUME Only(parent), NEW L \in SUBSET Category, NEW d \in Category,
           NEW a \in L, NEW b \in L,
           d \in {a} \cup ParentsUntil(a, L), d \in {b} \cup ParentsUntil(b, L)
    PROVE  a = b
<1> SUFFICES ASSUME a # b PROVE FALSE
    OBVIOUS
<1> DEFINE A == ParentsUntil(a, L)
           B == ParentsUntil(b, L)
<1>1. A \subseteq Category \ L /\ B \subseteq Category \ L
    BY ParentsUntilProperties
<1>2. d \in A /\ d \in B
    BY <1>1
<1>3. Climbs(parent, a, L, A)
    BY ParentsUntilProperties
<1>4. \A y \in B : \E z \in B \cup {b} : parent[z] = y
    BY ParentsUntilProperties
<1>5. \A S \in SUBSET Category : Climbs(parent, a, L, S) => A \subseteq S
    BY ParentsUntilProperties
<1> HIDE DEF A, B
<1>6. ASSUME NEW x \in (A \ B) \cup {a}, parent[x] \in Category \ L
      PROVE  parent[x] \in A \ B
    <2>1. parent[x] \in A
        BY <1>3, <1>6 DEF Climbs
    <2>2. ASSUME parent[x] \in B PROVE FALSE
        <3>1. PICK z \in B \cup {b} : parent[z] = parent[x]
            BY <1>4, <2>2
        <3>2. z \in Category /\ x \in Category
            BY <1>1
        <3>3. z = x
            BY <1>6, <3>1, <3>2 DEF Only
        <3> QED BY <1>1, <3>3
    <2> QED BY <2>1, <2>2
<1>7. Climbs(parent, a, L, A \ B) /\ A \ B \in SUBSET Category
    BY <1>1, <1>6 DEF Climbs
<1>8. A \subseteq A \ B
    BY <1>5, <1>7
<1> QED BY <1>2, <1>8

-----------------------------------------------------------------------------
(* What the operations on listings do to the totals.                       *)

\* The threads that k adds to the totals of category d.
Fresh(m, k, d) ==
    {t \in Thread : k[d][t] > 0 /\ m.references[d][t] = 0 /\ t \notin m.total[d]}

\* The threads whose last references k takes from category d.
Gone(m, k, d) ==
    {t \in m.total[d] : m.references[d][t] > 0 /\ m.references[d][t] <= k[d][t]}

\* The totals of r are those of m with k added.
Raised(r, m, k) ==
    /\ r.total = [d \in Category |-> m.total[d] \cup Fresh(m, k, d)]
    /\ r.references = [d \in Category |-> [t \in Thread |->
                          IF m.references[d][t] = 0 /\ t \in m.total[d] THEN 0
                          ELSE m.references[d][t] + k[d][t]]]
    /\ r.totalMessages = [d \in Category |->
                             m.totalMessages[d]
                                 + SumFunctionOnSet(messageCount, Fresh(m, k, d))]

\* The totals of r are those of m without k.
Lowered(r, m, k) ==
    /\ r.total = [d \in Category |-> m.total[d] \ Gone(m, k, d)]
    /\ r.references = [d \in Category |-> [t \in Thread |->
                          IF m.references[d][t] > k[d][t]
                          THEN m.references[d][t] - k[d][t] ELSE 0]]
    /\ r.totalMessages = [d \in Category |->
                             m.totalMessages[d]
                                 - SumFunctionOnSet(messageCount, Gone(m, k, d))]

LEMMA AddTotalsRaises ==
    ASSUME NEW m, IsListing(m), NEW k
    PROVE  Raised(AddTotals(m, k), m, k)
<1> DEFINE a == [d \in Category |-> m.total[d] \cup Fresh(m, k, d)]
           b == [d \in Category |-> [t \in Thread |->
                          IF m.references[d][t] = 0 /\ t \in m.total[d] THEN 0
                          ELSE m.references[d][t] + k[d][t]]]
           e == [d \in Category |->
                   m.totalMessages[d] + SumFunctionOnSet(messageCount, Fresh(m, k, d))]
           r == AddTotals(m, k)
<1>1. r = [m EXCEPT !.total = a, !.references = b, !.totalMessages = e]
    BY Zenon DEF AddTotals, Fresh, Messages
<1> HIDE DEF a, b, e, r
<1>2. r.total = a /\ r.references = b /\ r.totalMessages = e
    BY <1>1 DEF IsListing, Field
<1> QED BY <1>2, Zenon DEF Raised, a, b, e, r

LEMMA DropReferencesLowers ==
    ASSUME NEW m, IsListing(m), NEW k
    PROVE  Lowered(DropReferences(m, k), m, k)
<1> DEFINE a == [d \in Category |-> m.total[d] \ Gone(m, k, d)]
           b == [d \in Category |-> [t \in Thread |->
                          IF m.references[d][t] > k[d][t]
                          THEN m.references[d][t] - k[d][t] ELSE 0]]
           e == [d \in Category |->
                   m.totalMessages[d] - SumFunctionOnSet(messageCount, Gone(m, k, d))]
           r == DropReferences(m, k)
           f == ForgetReferences(m, k)
<1>1. r = [f EXCEPT !.total = a, !.totalMessages = e]
    BY Zenon DEF DropReferences, Gone, Messages
<1>2. f = [m EXCEPT !.references = b]
    BY Zenon DEF ForgetReferences
<1> HIDE DEF a, b, e, r, f
<1>3. r.total = a /\ r.references = b /\ r.totalMessages = e
    BY <1>1, <1>2 DEF IsListing, Field
<1> QED BY <1>3, Zenon DEF Lowered, a, b, e, r

\* The references that pairs of a category and a thread make in all.
Climbing(n) == [d \in Category |-> [t \in Thread |-> Received(n, d, t)]]

LEMMA InsertTotals ==
    ASSUME NEW m, IsListing(m), NEW n
    PROVE  Raised(InsertThreads(m, n), m, Climbing(n))
<1> DEFINE counts == [c \in Category |-> m.messages[c] + MessagesInserted(n, c)]
           shown == [c \in Category |-> m.threads[c] \cup {t \in Thread : n[c][t] > 0}]
           places == [t \in Thread |-> m.of[t] \cup {c \in Category : n[c][t] > 0}]
           q == [m EXCEPT !.threads = shown, !.of = places, !.messages = counts]
           k == Climbing(n)
<1>1. InsertThreads(m, n) = AddTotals(q, k)
    BY Zenon DEF InsertThreads, Climbing
<1>2. shown \in [Category -> SUBSET Thread] /\ places \in [Thread -> SUBSET Category]
    BY DEF IsListing
<1> HIDE DEF counts, shown, places, k
<1>3. /\ IsListing(q) /\ q.total = m.total /\ q.references = m.references
      /\ q.totalMessages = m.totalMessages
    BY <1>2 DEF IsListing, Field
<1> HIDE DEF q
<1>4. Raised(AddTotals(q, k), q, k)
    BY <1>3, AddTotalsRaises
<1>5. Raised(AddTotals(q, k), m, k)
    <2>1. \A d : Fresh(q, k, d) = Fresh(m, k, d)
        BY <1>3 DEF Fresh
    <2>2. ASSUME NEW r, Raised(r, q, k) PROVE Raised(r, m, k)
        BY <1>3, <2>1, <2>2 DEF Raised
    <2> QED BY <1>4, <2>2
<1> QED BY <1>1, <1>5 DEF k

LEMMA WithdrawTotals ==
    ASSUME NEW m, IsListing(m), NEW pairs
    PROVE  Lowered(WithdrawThreads(m, pairs), m, Climbing(Once(pairs)))
<1> DEFINE Listed(c) == {t \in m.threads[c] : <<c, t>> \in pairs}
           counts == [c \in Category |->
                        m.messages[c] - SumFunctionOnSet(messageCount, Listed(c))]
           shown == [c \in Category |-> m.threads[c] \ Listed(c)]
           places == [t \in Thread |-> m.of[t] \ {c \in Category : t \in Listed(c)}]
           q == [m EXCEPT !.threads = shown, !.of = places, !.messages = counts]
           k == Climbing(Once(pairs))
<1>1. WithdrawThreads(m, pairs) = DropReferences(q, k)
    BY Zenon DEF WithdrawThreads, Messages, Climbing
<1>2. shown \in [Category -> SUBSET Thread] /\ places \in [Thread -> SUBSET Category]
    BY DEF IsListing
<1> HIDE DEF counts, shown, places, k
<1>3. /\ IsListing(q) /\ q.total = m.total /\ q.references = m.references
      /\ q.totalMessages = m.totalMessages
    BY <1>2 DEF IsListing, Field
<1> HIDE DEF q
<1>4. Lowered(DropReferences(q, k), q, k)
    BY <1>3, DropReferencesLowers
<1>5. Lowered(DropReferences(q, k), m, k)
    <2>1. \A d : Gone(q, k, d) = Gone(m, k, d)
        BY <1>3 DEF Gone
    <2> QED BY <1>3, <1>4, <2>1, Zenon DEF Lowered
<1> QED BY <1>1, <1>5 DEF k

\* A category receives one reference for each pair below it.
LEMMA ReceivedOnce ==
    ASSUME NEW pairs, NEW d \in Category, NEW t \in Thread
    PROVE  Climbing(Once(pairs))[d][t] =
               Cardinality({c \in Category : d \in Lineage(c) /\ <<c, t>> \in pairs})
<1> DEFINE n == Once(pairs)
           S == {c \in Category : d \in Lineage(c)}
           A == {c \in Category : d \in Lineage(c) /\ <<c, t>> \in pairs}
           w == [c \in S |-> n[c][t]]
           Body(f) == [s \in SUBSET S |->
                         IF s = {} THEN 0
                         ELSE n[CHOOSE x \in s : TRUE][t] + f[s \ {CHOOSE x \in s : TRUE}]]
           iter == CHOOSE f : f = Body(f)
<1>1. IsFiniteSet(S) /\ A \in SUBSET S
    BY SlotAssumption, FS_Subset
<1>2. \A c \in S : w[c] = IF c \in A THEN 1 ELSE 0
    BY DEF Once
<1>3. w \in [S -> Int]
    <2>1. w = [c \in S |-> w[c]]
        OBVIOUS
    <2> HIDE DEF w, S, A
    <2> QED BY <1>2, <2>1
<1>4. Received(n, d, t) = iter[S]
    <2> HIDE DEF n
    <2> QED BY DEF Received, MapThenSumSet, MapThenFoldSet
<1>5. \A f : IsSum(f, S, w) <=> f = Body(f)
    <2> HIDE DEF n, S
    <2>1. \A s \in SUBSET S : s # {} => w[Chosen(s)] = n[CHOOSE x \in s : TRUE][t]
        BY DEF Chosen
    <2> HIDE DEF w
    <2>2. ASSUME NEW f
          PROVE  [s \in SUBSET S |-> IF s = {} THEN 0
                                     ELSE w[Chosen(s)] + f[s \ {Chosen(s)}]] = Body(f)
        BY <2>1 DEF Chosen
    <2> QED BY <2>2 DEF IsSum
<1>6. IsSum(iter, S, w)
    <2>1. PICK f : IsSum(f, S, w)
        BY <1>1, SumExists
    <2> HIDE DEF n, w, Body, S
    <2>2. f = Body(f)
        BY <1>5, <2>1
    <2>3. iter = Body(iter)
        BY <2>2
    <2> HIDE DEF iter
    <2> QED BY <1>5, <2>3
<1>7. Climbing(n)[d][t] = Received(n, d, t)
    BY DEF Climbing
<1> HIDE DEF n, S, w, iter, A
<1>8. iter[S] = SumFunctionOnSet(w, S)
    BY <1>1, <1>6, SumOnSet
<1>9. SumFunctionOnSet(w, S) = Cardinality(A)
    BY <1>1, <1>2, <1>3, SumOfOnes
<1>10. Climbing(n)[d][t] = Cardinality(A)
    BY <1>4, <1>7, <1>8, <1>9
<1> QED BY <1>10 DEF n, A

-----------------------------------------------------------------------------
(* The totals list the subtree.                                            *)

Line == [c \in Category |-> Lineage(c)]

\* The categories of the subtree of d that list thread t.
Below(m, line, d, t) == {c \in Category : d \in line[c] /\ t \in m.threads[c]}

TotalType(m) ==
    /\ m.total \in [Category -> SUBSET Thread]
    /\ m.references \in [Category -> [Thread -> Nat]]
    /\ m.totalMessages \in [Category -> Int]

Subtree(m, line) ==
    \A d \in Category, t \in Thread :
        /\ t \in m.total[d] <=> Below(m, line, d, t) # {}
        /\ m.references[d][t] = Cardinality(Below(m, line, d, t))

Grand(m, w) == \A d \in Category : m.totalMessages[d] = SumFunctionOnSet(w, m.total[d])

\* The sums need not be right unless one holds.
Totals(m, w, line, one) ==
    TotalType(m) /\ Subtree(m, line) /\ (one => Grand(m, w))

LEMMA SetOfCategories ==
    ASSUME NEW A \in SUBSET Category
    PROVE  /\ IsFiniteSet(A) /\ Cardinality(A) \in Nat
           /\ Cardinality(A) = 0 <=> A = {}
BY SlotAssumption, FS_Subset, FS_CardinalityType, FS_EmptySet

LEMMA DisjointCategories ==
    ASSUME NEW A \in SUBSET Category, NEW B \in SUBSET Category, A \cap B = {}
    PROVE  Cardinality(A \cup B) = Cardinality(A) + Cardinality(B)
<1>1. IsFiniteSet(A) /\ IsFiniteSet(B) /\ Cardinality(A) \in Nat /\ Cardinality(B) \in Nat
    BY SetOfCategories
<1>2. Cardinality(A \cup B) = Cardinality(A) + Cardinality(B) - Cardinality(A \cap B)
    BY <1>1, FS_Union
<1>3. Cardinality(A \cap B) = 0
    BY FS_EmptySet
<1> QED BY <1>1, <1>2, <1>3

\* Inserting threads that a category does not list yet.
LEMMA TotalsInsert ==
    ASSUME messageCount \in Count, NEW m, Consistent(m), NEW one,
           Totals(m, messageCount, Line, one),
           NEW pairs,
           \A c \in Category, t \in Thread : <<c, t>> \in pairs => t \notin m.threads[c]
    PROVE  Totals(InsertThreads(m, Once(pairs)), messageCount, Line, one)
<1> DEFINE r == InsertThreads(m, Once(pairs))
           k == Climbing(Once(pairs))
           New(d, t) == {c \in Category : d \in Lineage(c) /\ <<c, t>> \in pairs}
<1>1. Raised(r, m, k)
    BY InsertTotals DEF Consistent
<1>2. \A c \in Category : r.threads[c] = m.threads[c] \cup {t \in Thread : <<c, t>> \in pairs}
    BY InsertOnce
<1>3. \A d \in Category, t \in Thread : k[d][t] = Cardinality(New(d, t))
    BY ReceivedOnce
<1>4. /\ IsFiniteSet(Thread) /\ messageCount \in [Thread -> Int]
      /\ \A S \in SUBSET Thread : SumFunctionOnSet(messageCount, S) \in Int
    BY CountsAreWeights
<1> HIDE DEF r, k
<1>5. ASSUME NEW d \in Category, NEW t \in Thread
      PROVE  /\ t \in r.total[d] <=> Below(r, Line, d, t) # {}
             /\ r.references[d][t] \in Nat
             /\ r.references[d][t] = Cardinality(Below(r, Line, d, t))
    <2> DEFINE A == Below(m, Line, d, t)
               B == New(d, t)
    <2>1. A \in SUBSET Category /\ B \in SUBSET Category /\ A \cap B = {}
        BY DEF Below
    <2>2. Below(r, Line, d, t) = A \cup B
        BY <1>2 DEF Below, Line
    <2>3. (t \in m.total[d] <=> A # {}) /\ m.references[d][t] = Cardinality(A)
        BY DEF Totals, Subtree
    <2>4. r.references[d][t] = IF m.references[d][t] = 0 /\ t \in m.total[d] THEN 0
                               ELSE m.references[d][t] + k[d][t]
        BY <1>1 DEF Raised
    <2>5. t \in r.total[d] <=> \/ t \in m.total[d]
                               \/ k[d][t] > 0 /\ m.references[d][t] = 0
        BY <1>1 DEF Raised, Fresh
    <2>6. k[d][t] = Cardinality(B)
        BY <1>3
    <2> HIDE DEF A, B, New
    <2>7. /\ Cardinality(A) \in Nat /\ (Cardinality(A) = 0 <=> A = {})
          /\ Cardinality(B) \in Nat /\ (Cardinality(B) = 0 <=> B = {})
        BY <2>1, SetOfCategories
    <2>8. Cardinality(A \cup B) = Cardinality(A) + Cardinality(B)
        BY <2>1, DisjointCategories
    <2>9. r.references[d][t] = Cardinality(A) + Cardinality(B)
        BY <2>3, <2>4, <2>6, <2>7
    <2>10. t \in r.total[d] <=> A \cup B # {}
        BY <2>3, <2>5, <2>6, <2>7
    <2> QED BY <2>2, <2>7, <2>8, <2>9, <2>10
<1>6. ASSUME NEW d \in Category
      PROVE  /\ r.total[d] \in SUBSET Thread /\ r.totalMessages[d] \in Int
             /\ one => r.totalMessages[d] = SumFunctionOnSet(messageCount, r.total[d])
    <2> DEFINE A == m.total[d]
               B == Fresh(m, k, d)
    <2>1. /\ A \in SUBSET Thread /\ B \in SUBSET Thread /\ A \cap B = {}
          /\ r.total[d] = A \cup B
        BY <1>1 DEF Raised, Totals, TotalType, Fresh
    <2>2. one => m.totalMessages[d] = SumFunctionOnSet(messageCount, A)
        BY DEF Totals, Grand
    <2>i. m.totalMessages[d] \in Int
        BY DEF Totals, TotalType
    <2>3. r.totalMessages[d] = m.totalMessages[d] + SumFunctionOnSet(messageCount, B)
        BY <1>1 DEF Raised
    <2> HIDE DEF A, B
    <2>4. SumFunctionOnSet(messageCount, A \cup B) =
              SumFunctionOnSet(messageCount, A) + SumFunctionOnSet(messageCount, B)
        BY <1>4, <2>1, SumDisjoint
    <2>5. A \cup B \in SUBSET Thread /\ r.totalMessages[d] \in Int
        BY <1>4, <2>1, <2>3, <2>i
    <2>6. one => r.totalMessages[d] = SumFunctionOnSet(messageCount, r.total[d])
        BY <2>1, <2>2, <2>3, <2>4, Zenon
    <2> QED BY <2>1, <2>5, <2>6
<1>7. TotalType(r)
    <2>1. /\ r.total = [d \in Category |-> r.total[d]]
          /\ r.totalMessages = [d \in Category |-> r.totalMessages[d]]
          /\ r.references = [d \in Category |-> [t \in Thread |-> r.references[d][t]]]
        BY <1>1 DEF Raised
    <2> QED BY <1>5, <1>6, <2>1 DEF TotalType
<1>8. Totals(r, messageCount, Line, one)
    BY <1>5, <1>6, <1>7 DEF Totals, Subtree, Grand
<1> QED BY <1>8 DEF r

\* Withdrawing threads from categories that list them; a thread that no
\* category lists is left alone.
LEMMA TotalsWithdraw ==
    ASSUME messageCount \in Count, NEW m, Consistent(m), NEW one,
           Totals(m, messageCount, Line, one),
           NEW pairs,
           \A t \in Thread : \/ \A c \in Category : <<c, t>> \in pairs => t \in m.threads[c]
                             \/ \A c \in Category : t \notin m.threads[c]
    PROVE  Totals(WithdrawThreads(m, pairs), messageCount, Line, one)
<1> DEFINE r == WithdrawThreads(m, pairs)
           k == Climbing(Once(pairs))
           Old(d, t) == {c \in Category : d \in Lineage(c) /\ <<c, t>> \in pairs}
<1>1. Lowered(r, m, k)
    BY WithdrawTotals DEF Consistent
<1>2. \A c \in Category : r.threads[c] = {t \in m.threads[c] : <<c, t>> \notin pairs}
    BY Withdraw
<1>3. \A d \in Category, t \in Thread : k[d][t] = Cardinality(Old(d, t))
    BY ReceivedOnce
<1>4. /\ IsFiniteSet(Thread) /\ messageCount \in [Thread -> Int]
      /\ \A S \in SUBSET Thread : SumFunctionOnSet(messageCount, S) \in Int
    BY CountsAreWeights
<1> HIDE DEF r, k
<1>5. ASSUME NEW d \in Category, NEW t \in Thread
      PROVE  /\ t \in r.total[d] <=> Below(r, Line, d, t) # {}
             /\ r.references[d][t] \in Nat
             /\ r.references[d][t] = Cardinality(Below(r, Line, d, t))
    <2> DEFINE A == Below(m, Line, d, t)
               B == Old(d, t)
               R == Below(r, Line, d, t)
    <2>1. A \in SUBSET Category /\ B \in SUBSET Category /\ R \in SUBSET Category
        BY DEF Below
    <2>2. R = A \ B
        BY <1>2 DEF Below, Line
    <2>a. B \subseteq A \/ A = {}
        BY DEF Below, Line
    <2>3. (t \in m.total[d] <=> A # {}) /\ m.references[d][t] = Cardinality(A)
        BY DEF Totals, Subtree
    <2>4. r.references[d][t] = IF m.references[d][t] > k[d][t]
                               THEN m.references[d][t] - k[d][t] ELSE 0
        BY <1>1 DEF Lowered
    <2>5. t \in r.total[d] <=> /\ t \in m.total[d]
                               /\ ~(m.references[d][t] > 0 /\ m.references[d][t] <= k[d][t])
        BY <1>1 DEF Lowered, Gone
    <2>6. k[d][t] = Cardinality(B)
        BY <1>3
    <2> HIDE DEF A, B, Old, R
    <2>7. /\ Cardinality(A) \in Nat /\ (Cardinality(A) = 0 <=> A = {})
          /\ Cardinality(B) \in Nat
          /\ Cardinality(R) \in Nat /\ (Cardinality(R) = 0 <=> R = {})
        BY <2>1, SetOfCategories
    <2> DEFINE Goal == /\ t \in r.total[d] <=> R # {}
                       /\ r.references[d][t] \in Nat
                       /\ r.references[d][t] = Cardinality(R)
    <2> SUFFICES Goal
        BY DEF R
    <2>8. CASE B \subseteq A
        <3>1. R \cup B = A /\ R \cap B = {}
            BY <2>2, <2>8
        <3>2. Cardinality(A) = Cardinality(R) + Cardinality(B)
            BY <2>1, <3>1, DisjointCategories
        <3> QED BY <2>3, <2>4, <2>5, <2>6, <2>7, <3>1, <3>2
    <2>9. CASE A = {}
        <3>1. R = {}
            BY <2>2, <2>9
        <3> QED BY <2>3, <2>4, <2>5, <2>6, <2>7, <2>9, <3>1
    <2> QED BY <2>a, <2>8, <2>9
<1>6. ASSUME NEW d \in Category
      PROVE  /\ r.total[d] \in SUBSET Thread /\ r.totalMessages[d] \in Int
             /\ one => r.totalMessages[d] = SumFunctionOnSet(messageCount, r.total[d])
    <2> DEFINE A == m.total[d]
               B == Gone(m, k, d)
    <2>1. /\ A \in SUBSET Thread /\ B \in SUBSET A /\ r.total[d] = A \ B
        BY <1>1 DEF Lowered, Totals, TotalType, Gone
    <2>2. one => m.totalMessages[d] = SumFunctionOnSet(messageCount, A)
        BY DEF Totals, Grand
    <2>i. m.totalMessages[d] \in Int
        BY DEF Totals, TotalType
    <2>3. r.totalMessages[d] = m.totalMessages[d] - SumFunctionOnSet(messageCount, B)
        BY <1>1 DEF Lowered
    <2> HIDE DEF A, B
    <2>4. SumFunctionOnSet(messageCount, A \ B) =
              SumFunctionOnSet(messageCount, A) - SumFunctionOnSet(messageCount, B)
        BY <1>4, <2>1, SumWithout
    <2>5. A \ B \in SUBSET Thread /\ r.totalMessages[d] \in Int
        BY <1>4, <2>1, <2>3, <2>i
    <2>6. one => r.totalMessages[d] = SumFunctionOnSet(messageCount, r.total[d])
        BY <2>1, <2>2, <2>3, <2>4, Zenon
    <2> QED BY <2>1, <2>5, <2>6
<1>7. TotalType(r)
    <2>1. /\ r.total = [d \in Category |-> r.total[d]]
          /\ r.totalMessages = [d \in Category |-> r.totalMessages[d]]
          /\ r.references = [d \in Category |-> [t \in Thread |-> r.references[d][t]]]
        BY <1>1 DEF Lowered
    <2> QED BY <1>5, <1>6, <2>1 DEF TotalType
<1>8. Totals(r, messageCount, Line, one)
    BY <1>5, <1>6, <1>7 DEF Totals, Subtree, Grand
<1> QED BY <1>8 DEF r

\* Totals are the same for counts that differ in threads they do not list.
LEMMA TotalsReweighed ==
    ASSUME NEW m, NEW v, NEW w, NEW line, NEW one,
           Totals(m, w, line, one),
           \A d \in Category : \A u \in m.total[d] : v[u] = w[u]
    PROVE  Totals(m, v, line, one)
<1>1. ASSUME NEW d \in Category, one PROVE m.totalMessages[d] = SumFunctionOnSet(v, m.total[d])
    <2>1. m.total[d] \in SUBSET Thread /\ IsFiniteSet(Thread)
        BY SlotAssumption DEF Totals, TotalType
    <2>2. SumFunctionOnSet(v, m.total[d]) = SumFunctionOnSet(w, m.total[d])
        BY <2>1, SumSameWeights
    <2> QED BY <1>1, <2>2 DEF Totals, Grand
<1> QED BY <1>1 DEF Totals, Grand

\* Taking a thread out of the categories that list it, and of their ancestors.
LEMMA TotalsRemove ==
    ASSUME messageCount \in Count, NEW m, Consistent(m), NEW one,
           Totals(m, messageCount, Line, one), NEW t \in Thread, NEW deleteMessages
    PROVE  Totals(RemoveThread(m, t, deleteMessages), messageCount, Line, one)
<1> DEFINE r == RemoveThread(m, t, deleteMessages)
           listedIn == {c \in m.of[t] : t \in m.threads[c]}
           totalledIn == {d \in UNION {Lineage(c) : c \in listedIn} : t \in m.total[d]}
           a == [d \in Category |-> IF d \in totalledIn THEN m.total[d] \ {t}
                                    ELSE m.total[d]]
           b == [d \in Category |-> IF d \in totalledIn
                                    THEN [m.references[d] EXCEPT ![t] = 0]
                                    ELSE m.references[d]]
           e == [d \in Category |-> IF d \in totalledIn
                                    THEN m.totalMessages[d] - messageCount[t]
                                    ELSE m.totalMessages[d]]
<1>1. r.total = a /\ r.references = b /\ r.totalMessages = e
    <2>1. PICK x, y : r = [m EXCEPT !.threads = x, !.of[t] = {}, !.messages = y,
                                    !.total = a, !.references = b, !.totalMessages = e]
        BY Zenon DEF RemoveThread
    <2> HIDE DEF r, a, b, e
    <2> QED BY <2>1 DEF IsListing, Field, Consistent
<1>2. \A c \in Category : r.threads[c] = m.threads[c] \ {t}
    BY RemoveListing DEF Consistent
<1>3. ASSUME NEW d \in Category PROVE d \in totalledIn <=> t \in m.total[d]
    <2>1. t \in m.total[d] <=> \E c \in Category : d \in Lineage(c) /\ t \in m.threads[c]
        <3>1. t \in m.total[d] <=> Below(m, Line, d, t) # {}
            BY DEF Totals, Subtree
        <3> QED BY <3>1 DEF Below, Line
    <2>2. \A c \in Category : c \in listedIn <=> t \in m.threads[c]
        BY DEF Consistent, Agree
    <2>3. listedIn \subseteq Category
        BY DEF Consistent, IsListing
    <2> QED BY <2>1, <2>2, <2>3
<1>4. /\ IsFiniteSet(Thread) /\ messageCount \in [Thread -> Int]
      /\ \A S \in SUBSET Thread : SumFunctionOnSet(messageCount, S) \in Int
    BY CountsAreWeights
<1>5. TotalType(m) /\ Subtree(m, Line) /\ (one => Grand(m, messageCount))
    BY DEF Totals
<1> HIDE DEF r, totalledIn
<1>6. ASSUME NEW d \in Category, NEW u \in Thread
      PROVE  /\ u \in r.total[d] <=> Below(r, Line, d, u) # {}
             /\ r.references[d][u] \in Nat
             /\ r.references[d][u] = Cardinality(Below(r, Line, d, u))
    <2>1. /\ u \in m.total[d] <=> Below(m, Line, d, u) # {}
          /\ m.references[d][u] = Cardinality(Below(m, Line, d, u))
        BY <1>5 DEF Subtree
    <2>2. m.references[d] \in [Thread -> Nat]
        BY <1>5 DEF TotalType
    <2>3. CASE u = t
        <3>1. Below(r, Line, d, u) = {}
            BY <1>2, <2>3 DEF Below
        <3>2. Cardinality(Below(r, Line, d, u)) = 0
            BY <3>1, FS_EmptySet
        <3>3. u \notin r.total[d]
            BY <1>1, <1>3, <2>3
        <3>4. CASE t \in m.total[d]
            BY <1>1, <1>3, <2>2, <2>3, <3>1, <3>2, <3>3, <3>4
        <3>5. CASE t \notin m.total[d]
            <4>1. Cardinality(Below(m, Line, d, u)) = 0
                BY <2>1, <2>3, <3>5, FS_EmptySet
            <4>2. r.references[d] = m.references[d]
                BY <1>1, <1>3, <3>5
            <4> QED BY <2>1, <3>1, <3>2, <3>3, <4>1, <4>2
        <3> QED BY <3>4, <3>5
    <2>4. CASE u # t
        <3>1. Below(r, Line, d, u) = Below(m, Line, d, u)
            BY <1>2, <2>4 DEF Below
        <3>2. r.references[d][u] = m.references[d][u] /\ m.references[d][u] \in Nat
            BY <1>1, <2>2, <2>4
        <3>3. u \in r.total[d] <=> u \in m.total[d]
            BY <1>1, <2>4
        <3> QED BY <2>1, <3>1, <3>2, <3>3
    <2> QED BY <2>3, <2>4
<1>7. ASSUME NEW d \in Category
      PROVE  /\ r.total[d] \in SUBSET Thread /\ r.totalMessages[d] \in Int
             /\ one => r.totalMessages[d] = SumFunctionOnSet(messageCount, r.total[d])
    <2>1. /\ m.total[d] \in SUBSET Thread /\ messageCount[t] \in Int
          /\ m.totalMessages[d] \in Int
        BY <1>4, <1>5 DEF TotalType
    <2>2. one => m.totalMessages[d] = SumFunctionOnSet(messageCount, m.total[d])
        BY <1>5 DEF Grand
    <2>3. CASE d \in totalledIn
        <3>1. t \in m.total[d]
            BY <1>3, <2>3
        <3>2. SumFunctionOnSet(messageCount, m.total[d] \ {t})
                = SumFunctionOnSet(messageCount, m.total[d]) - messageCount[t]
            BY <1>4, <2>1, <3>1, SumStep
        <3>3. /\ r.total[d] = m.total[d] \ {t}
              /\ r.totalMessages[d] = m.totalMessages[d] - messageCount[t]
            BY <1>1, <2>3
        <3> QED BY <1>4, <2>1, <2>2, <3>2, <3>3
    <2>4. CASE d \notin totalledIn
        <3>1. r.total[d] = m.total[d] /\ r.totalMessages[d] = m.totalMessages[d]
            BY <1>1, <2>4
        <3> QED BY <1>4, <2>1, <2>2, <3>1
    <2> QED BY <2>3, <2>4
<1>8. TotalType(r)
    <2>1. r.total = [d \in Category |-> r.total[d]]
        BY <1>1
    <2>2. r.totalMessages = [d \in Category |-> r.totalMessages[d]]
        BY <1>1
    <2>3. r.references = [d \in Category |-> r.references[d]]
        BY <1>1
    <2>4. ASSUME NEW d \in Category PROVE r.references[d] \in [Thread -> Nat]
        BY <1>1, <1>5 DEF TotalType
    <2> QED BY <1>7, <2>1, <2>2, <2>3, <2>4 DEF TotalType
<1>9. Totals(r, messageCount, Line, one)
    BY <1>6, <1>7, <1>8 DEF Totals, Subtree, Grand
<1> QED BY <1>9 DEF r

\* deleteDiscussionThread
LEMMA TotalsDelete ==
    ASSUME Consistent(listing), CountType, NEW one,
           Totals(listing, messageCount, Line, one), NEW t \in Thread,
           deleteDiscussionThread(t)
    PROVE  Totals(listing', messageCount', Line, one)
<1> DEFINE q == RemoveThread(listing, t, TRUE)
<1>1. PICK C : listing' = WithdrawThreads(q, {<<c, t>> : c \in C})
    BY Zenon DEF deleteDiscussionThread, ReleaseThread, DetachFromTags
<1>2. messageCount \in Count
    BY DEF CountType
<1>3. Totals(q, messageCount, Line, one)
    BY <1>2, TotalsRemove
<1>4. Consistent(q) /\ \A c \in Category : q.threads[c] = listing.threads[c] \ {t}
    BY RemoveListing DEF Consistent
<1> DEFINE pairs == {<<c, t>> : c \in C}
<1>5. \A u \in Thread : \/ \A c \in Category : <<c, u>> \in pairs => u \in q.threads[c]
                        \/ \A c \in Category : u \notin q.threads[c]
    BY <1>4
<1>6. \A c \in Category : listing'.threads[c] = listing.threads[c] \ {t}
    BY DeleteThreadListing
<1> HIDE DEF q, pairs
<1>7. Totals(WithdrawThreads(q, pairs), messageCount, Line, one)
    BY <1>2, <1>3, <1>4, <1>5, TotalsWithdraw
<1>8. Totals(listing', messageCount, Line, one)
    BY <1>1, <1>7 DEF pairs
<1>9. \A d \in Category : t \notin listing'.total[d]
    <2> TAKE d \in Category
    <2>1. Below(listing', Line, d, t) = {}
        BY <1>6 DEF Below
    <2> QED BY <1>8, <2>1 DEF Totals, Subtree
<1>10. \A u \in Thread \ {t} : messageCount'[u] = messageCount[u]
    BY <1>2 DEF deleteDiscussionThread, Count
<1>11. \A d \in Category : listing'.total[d] \in SUBSET Thread
    BY <1>8 DEF Totals, TotalType
<1>12. \A d \in Category : \A u \in listing'.total[d] : messageCount'[u] = messageCount[u]
    BY <1>9, <1>10, <1>11
<1> HIDE DEF deleteDiscussionThread
<1> QED BY <1>8, <1>12, TotalsReweighed

-----------------------------------------------------------------------------
(* Messages come and go.                                                   *)

\* The totals of r are those of m with delta more messages of thread t.
TotalsUpdated(r, m, t, delta, one) ==
    /\ Consistent(r) /\ r.threads = m.threads
    /\ r.total = m.total /\ r.references = m.references
    /\ r.totalMessages \in [Category -> Int]
    /\ one => r.totalMessages =
          [d \in Category |-> m.totalMessages[d] + Share(t, m.total[d], delta)]

\* Several categories of a thread climb to the same ancestors, but every
\* ancestor is met once unless the climbs come from different children.
LEMMA UpdateTotals ==
    ASSUME NEW m, Consistent(m), TotalType(m), Subtree(m, Line),
           NEW t \in Thread, NEW delta \in Int
    PROVE  TotalsUpdated(updateMessageCount(m, t, delta), m, t, delta, Only(parent))
<1> DEFINE r == updateMessageCount(m, t, delta)
           listedIn == {c \in Category : t \in m.threads[c]}
           Met(d) == {c \in m.of[t] : d \in {c} \cup ParentsUntil(c, listedIn)}
           e == [d \in Category |-> m.totalMessages[d] + delta * Cardinality(Met(d))]
<1>1. /\ r.total = m.total /\ r.references = m.references /\ r.totalMessages = e
    <2>1. PICK a : r = [m EXCEPT !.messages = a, !.totalMessages = e]
        BY Zenon DEF updateMessageCount
    <2> HIDE DEF r, e
    <2> QED BY <2>1 DEF IsListing, Field, Consistent
<1>2. IsListing(r) /\ r.threads = m.threads /\ r.of = m.of
    BY CountsKeepListing DEF Consistent
<1>3. Consistent(r)
    BY <1>2, Zenon DEF Consistent, Agree
<1>4. m.of[t] = listedIn
    BY DEF Consistent, Agree, IsListing
<1>5. ASSUME NEW d \in Category, Only(parent)
      PROVE  e[d] = m.totalMessages[d] + Share(t, m.total[d], delta)
    <2>1. listedIn \in SUBSET Category
        OBVIOUS
    <2>2. t \in m.total[d] <=> \E c \in listedIn : d \in Lineage(c)
        <3>1. t \in m.total[d] <=> Below(m, Line, d, t) # {}
            BY DEF Subtree
        <3> QED BY <3>1 DEF Below, Line
    <2> HIDE DEF listedIn
    <2>3. Met(d) = {c \in listedIn : d \in {c} \cup ParentsUntil(c, listedIn)}
        BY <1>4
    <2>4. t \in m.total[d] <=> Met(d) # {}
        <3>1. (\E c \in listedIn : d \in {c} \cup ParentsUntil(c, listedIn))
                  <=> \E c \in listedIn : d \in Lineage(c)
            BY <2>1, ClimbReaches
        <3> QED BY <2>2, <2>3, <3>1
    <2>5. \A a, b \in Met(d) : a = b
        BY <1>5, <2>1, <2>3, ClimbReachesOnce
    <2> HIDE DEF Met
    <2>6. m.totalMessages[d] \in Int /\ e[d] = m.totalMessages[d] + delta * Cardinality(Met(d))
        BY DEF TotalType
    <2>7. CASE t \in m.total[d]
        <3>1. PICK a \in Met(d) : TRUE
            BY <2>4, <2>7
        <3>2. Met(d) = {a}
            BY <2>5, <3>1
        <3>3. Cardinality(Met(d)) = 1
            BY <3>2, FS_Singleton
        <3> QED BY <2>6, <2>7, <3>3 DEF Share
    <2>8. CASE t \notin m.total[d]
        <3>1. Cardinality(Met(d)) = 0
            BY <2>4, <2>8, FS_EmptySet
        <3> QED BY <2>6, <2>8, <3>1 DEF Share
    <2> QED BY <2>7, <2>8
<1>6. ASSUME Only(parent)
      PROVE  e = [d \in Category |-> m.totalMessages[d] + Share(t, m.total[d], delta)]
    <2>1. e = [d \in Category |-> e[d]]
        OBVIOUS
    <2> HIDE DEF e
    <2> QED BY <1>5, <1>6, <2>1
<1>7. e \in [Category -> Int]
    <2>1. ASSUME NEW d \in Category PROVE e[d] \in Int
        <3>1. Met(d) \in SUBSET Category
            BY <1>4
        <3> HIDE DEF Met
        <3>2. Cardinality(Met(d)) \in Int /\ m.totalMessages[d] \in Int
            BY <3>1, SetOfCategories DEF TotalType
        <3> QED BY <3>2
    <2>2. e = [d \in Category |-> e[d]]
        OBVIOUS
    <2> HIDE DEF e
    <2> QED BY <2>1, <2>2
<1> HIDE DEF r, e
<1> QED BY <1>1, <1>2, <1>3, <1>6, <1>7 DEF TotalsUpdated, r

\* A listing with the threads and references of another one has its totals.
LEMMA SameTotals ==
    ASSUME NEW m, NEW r, TotalType(m), Subtree(m, Line),
           r.threads = m.threads, r.total = m.total, r.references = m.references,
           r.totalMessages \in [Category -> Int]
    PROVE  TotalType(r) /\ Subtree(r, Line)
<1>1. \A d, t : Below(r, Line, d, t) = Below(m, Line, d, t)
    BY DEF Below
<1> QED BY <1>1 DEF TotalType, Subtree

LEMMA ShareIsInt ==
    ASSUME NEW t, NEW S, NEW n \in Int
    PROVE  Share(t, S, n) \in Int
BY DEF Share

\* addNewDiscussionMessageInThread, deleteDiscussionMessage
LEMMA TotalsChange ==
    ASSUME Consistent(listing), CountType,
           Totals(listing, messageCount, Line, Only(parent)), NEW t \in Thread,
           NEW delta \in Int, messageCount[t] + delta \in Nat, ChangeMessages(t, delta)
    PROVE  Totals(listing', messageCount', Line, Only(parent))
<1>1. /\ TotalType(listing) /\ Subtree(listing, Line)
      /\ Only(parent) => Grand(listing, messageCount)
    BY DEF Totals
<1>2. listing' = updateMessageCount(listing, t, delta)
    BY DEF ChangeMessages
<1>3. TotalsUpdated(updateMessageCount(listing, t, delta), listing, t, delta, Only(parent))
    BY <1>1, UpdateTotals
<1>4. TotalsUpdated(listing', listing, t, delta, Only(parent))
    BY <1>2, <1>3
<1>5. /\ messageCount \in Count /\ messageCount' \in Count
      /\ messageCount'[t] = messageCount[t] + delta
      /\ \A u \in Thread \ {t} : messageCount'[u] = messageCount[u]
    BY DEF ChangeMessages, CountType, Count
<1>6. ASSUME NEW d \in Category, Only(parent)
      PROVE  listing'.totalMessages[d] = SumFunctionOnSet(messageCount', listing'.total[d])
    <2>1. /\ listing'.total[d] = listing.total[d]
          /\ listing'.totalMessages[d] =
                listing.totalMessages[d] + Share(t, listing.total[d], delta)
        BY <1>4, <1>6 DEF TotalsUpdated
    <2>2. /\ listing.total[d] \in SUBSET Thread
          /\ listing.totalMessages[d] = SumFunctionOnSet(messageCount, listing.total[d])
          /\ listing.totalMessages[d] \in Int
        BY <1>1, <1>6 DEF TotalType, Grand
    <2>3. SumFunctionOnSet(messageCount', listing.total[d])
            = SumFunctionOnSet(messageCount, listing.total[d])
                + Share(t, listing.total[d], delta)
        BY <1>5, <2>2, CountChanges
    <2> QED BY <2>1, <2>2, <2>3, ShareIsInt
<1>7. listing'.totalMessages \in [Category -> Int]
    BY <1>4 DEF TotalsUpdated
<1>8. TotalType(listing') /\ Subtree(listing', Line)
    BY <1>1, <1>4, <1>7, SameTotals DEF TotalsUpdated
<1> QED BY <1>6, <1>8 DEF Totals, Grand

\* moveDiscussionThreadMessage
LEMMA TotalsMove ==
    ASSUME Consistent(listing), CountType,
           Totals(listing, messageCount, Line, Only(parent)),
           NEW from \in Thread, NEW into \in Thread,
           moveDiscussionThreadMessage(from, into)
    PROVE  Totals(listing', messageCount', Line, Only(parent))
<1> DEFINE k == -1
           q == updateMessageCount(listing, into, 1)
<1>1. /\ TotalType(listing) /\ Subtree(listing, Line)
      /\ Only(parent) => Grand(listing, messageCount)
    BY DEF Totals
<1>2. listing' = updateMessageCount(q, from, k)
    BY DEF moveDiscussionThreadMessage
<1>k. k \in Int /\ 1 \in Int
    OBVIOUS
<1>3. TotalsUpdated(q, listing, into, 1, Only(parent))
    BY <1>1, UpdateTotals
<1> HIDE DEF k, q
<1>4. q.totalMessages \in [Category -> Int]
    BY <1>3 DEF TotalsUpdated
<1>5. TotalType(q) /\ Subtree(q, Line) /\ Consistent(q)
    BY <1>1, <1>3, <1>4, SameTotals DEF TotalsUpdated
<1>6. TotalsUpdated(updateMessageCount(q, from, k), q, from, k, Only(parent))
    BY <1>k, <1>5, UpdateTotals
<1>7. TotalsUpdated(listing', q, from, k, Only(parent))
    BY <1>2, <1>6
<1>8. /\ messageCount \in Count /\ messageCount' \in Count /\ from # into
      /\ messageCount'[from] = messageCount[from] - 1
      /\ messageCount'[into] = messageCount[into] + 1
      /\ \A u \in Thread \ {from, into} : messageCount'[u] = messageCount[u]
    BY DEF moveDiscussionThreadMessage, CountType, Count
<1>9. ASSUME NEW d \in Category, Only(parent)
      PROVE  listing'.totalMessages[d] = SumFunctionOnSet(messageCount', listing'.total[d])
    <2>1. /\ q.total[d] = listing.total[d] /\ listing'.total[d] = listing.total[d]
          /\ q.totalMessages[d] =
                listing.totalMessages[d] + Share(into, listing.total[d], 1)
          /\ listing'.totalMessages[d] =
                q.totalMessages[d] + Share(from, q.total[d], k)
        BY <1>3, <1>7, <1>9 DEF TotalsUpdated
    <2>2. /\ listing.total[d] \in SUBSET Thread
          /\ listing.totalMessages[d] = SumFunctionOnSet(messageCount, listing.total[d])
          /\ listing.totalMessages[d] \in Int
        BY <1>1, <1>9 DEF TotalType, Grand
    <2>3. SumFunctionOnSet(messageCount', listing.total[d])
            = (SumFunctionOnSet(messageCount, listing.total[d])
                 + Share(into, listing.total[d], 1)) + Share(from, listing.total[d], k)
        BY <1>8, <2>2, MessageMoves DEF k
    <2>4. Share(into, listing.total[d], 1) \in Int /\ Share(from, listing.total[d], k) \in Int
        BY <1>k, ShareIsInt
    <2> QED BY <2>1, <2>2, <2>3, <2>4
<1>10. listing'.totalMessages \in [Category -> Int]
    BY <1>7 DEF TotalsUpdated
<1>11. TotalType(listing') /\ Subtree(listing', Line)
    BY <1>5, <1>7, <1>10, SameTotals DEF TotalsUpdated
<1> QED BY <1>9, <1>11 DEF Totals, Grand

-----------------------------------------------------------------------------
(* Threads get and lose tags.                                              *)

\* deleteDiscussionTag, removeDiscussionTagFromThread and
\* removeDiscussionTagFromCategory withdraw threads only from categories that
\* list them, because these have the tag.
LEMMA TotalsUntag ==
    ASSUME UnmergedInv, CountType, NEW one,
           Totals(listing, messageCount, Line, one), NEW g \in Tag,
           \/ \E t \in Thread : removeDiscussionTagFromThread(g, t)
           \/ \E c \in Category : removeDiscussionTagFromCategory(g, c)
           \/ deleteDiscussionTag(g)
    PROVE  Totals(listing', messageCount', Line, one)
<1>1. messageCount' = messageCount /\ messageCount \in Count
    BY DEF removeDiscussionTagFromThread, removeDiscussionTagFromCategory,
           deleteDiscussionTag, threadVars, CountType
<1>2. Consistent(listing)
    BY DEF UnmergedInv, Inv, GraphType, Consistent, Agree, CategoriesAndThreadsAgree
<1>3. ASSUME NEW pairs, listing' = WithdrawThreads(listing, pairs),
             \A c \in Category, t \in Thread : <<c, t>> \in pairs => t \in listing.threads[c]
      PROVE  Totals(listing', messageCount', Line, one)
    <2>1. Totals(WithdrawThreads(listing, pairs), messageCount, Line, one)
        BY <1>1, <1>2, <1>3, TotalsWithdraw
    <2> QED BY <1>1, <1>3, <2>1, Zenon
<1>4. ASSUME NEW c \in Category, NEW t \in Thread, g \in categoryTags[c], t \in tagThreads[g]
      PROVE  t \in listing.threads[c]
    <2>1. listing.threads[c] = UNION {tagThreads[h] : h \in categoryTags[c]}
        BY DEF UnmergedInv, ListsMatchTags
    <2> QED BY <1>4, <2>1
<1>5. ASSUME NEW from, NEW inCategory, NEW onThread,
             listing' = RemoveTag(listing, g, from, inCategory, onThread),
             inCategory = categoryTags
      PROVE  Totals(listing', messageCount', Line, one)
    <2> DEFINE pairs == {pair \in {c \in from : g \in inCategory[c]} \X tagThreads[g] :
                            onThread[pair[2]] \cap (inCategory[pair[1]] \ {g}) = {}}
    <2>1. listing' = WithdrawThreads(listing, pairs)
        BY <1>5, Zenon DEF RemoveTag
    <2>2. \A c \in Category, t \in Thread :
              <<c, t>> \in pairs => g \in categoryTags[c] /\ t \in tagThreads[g]
        BY <1>5
    <2> HIDE DEF pairs
    <2> QED BY <1>3, <1>4, <2>1, <2>2
<1>6. CASE \E t \in Thread : removeDiscussionTagFromThread(g, t)
    <2>1. PICK t \in Thread : removeDiscussionTagFromThread(g, t)
        BY <1>6
    <2> DEFINE pairs == {<<c, t>> : c \in {d \in tagCategories[g] :
                                              threadTags'[t] \cap categoryTags[d] = {}}}
    <2>2. listing' = WithdrawThreads(listing, pairs) /\ g \in threadTags[t]
        BY <2>1 DEF removeDiscussionTagFromThread
    <2>3. t \in tagThreads[g]
        BY <2>2 DEF UnmergedInv, Inv, TagsAndThreadsAgree
    <2>4. \A c \in tagCategories[g] : c \in Category => g \in categoryTags[c]
        BY DEF UnmergedInv, TagsMatchCategories
    <2>5. \A c \in Category, u \in Thread : <<c, u>> \in pairs =>
              u = t /\ g \in categoryTags[c]
        BY <2>4
    <2> HIDE DEF pairs
    <2> QED BY <1>3, <1>4, <2>2, <2>3, <2>5
<1>7. CASE \E c \in Category : removeDiscussionTagFromCategory(g, c)
    <2>1. PICK c \in Category : removeDiscussionTagFromCategory(g, c)
        BY <1>7
    <2>2. listing' = RemoveTag(listing, g, {c}, categoryTags, threadTags)
        BY <2>1 DEF removeDiscussionTagFromCategory
    <2> QED BY <1>5, <2>2
<1>8. CASE deleteDiscussionTag(g)
    <2>1. listing' = RemoveTag(listing, g, tagCategories[g], categoryTags, threadTags)
        BY <1>8 DEF deleteDiscussionTag, ReleaseTag
    <2> QED BY <1>5, <2>1
<1> QED BY <1>6, <1>7, <1>8

\* addDiscussionTagToThread and addDiscussionTagToCategory insert threads only
\* into categories that do not list them.
LEMMA TotalsTag ==
    ASSUME Consistent(listing), CountType, NEW one,
           Totals(listing, messageCount, Line, one), NEW g \in Tag,
           \/ \E t \in Thread : addDiscussionTagToThread(g, t)
           \/ \E c \in Category : addDiscussionTagToCategory(g, c)
    PROVE  Totals(listing', messageCount', Line, one)
<1>1. messageCount' = messageCount /\ messageCount \in Count
    BY DEF addDiscussionTagToThread, addDiscussionTagToCategory, threadVars, CountType
<1>2. ASSUME NEW pairs, listing' = InsertThreads(listing, Once(pairs)),
             \A c \in Category, t \in Thread : <<c, t>> \in pairs => t \notin listing.threads[c]
      PROVE  Totals(listing', messageCount', Line, one)
    <2>1. Totals(InsertThreads(listing, Once(pairs)), messageCount, Line, one)
        BY <1>1, <1>2, TotalsInsert
    <2> QED BY <1>1, <1>2, <2>1, Zenon
<1>3. CASE \E t \in Thread : addDiscussionTagToThread(g, t)
    <2>1. PICK t \in Thread : addDiscussionTagToThread(g, t)
        BY <1>3
    <2> DEFINE pairs == {<<c, t>> : c \in {d \in tagCategories[g] :
                                              t \notin listing.threads[d]}}
    <2>2. listing' = InsertThreads(listing, Once(pairs))
        BY <2>1 DEF addDiscussionTagToThread
    <2>3. \A c \in Category, u \in Thread : <<c, u>> \in pairs => u \notin listing.threads[c]
        OBVIOUS
    <2> HIDE DEF pairs
    <2> QED BY <1>2, <2>2, <2>3
<1>4. CASE \E c \in Category : addDiscussionTagToCategory(g, c)
    <2>1. PICK d \in Category : addDiscussionTagToCategory(g, d)
        BY <1>4
    <2>2. CASE g \in categoryTags[d]
        <3>1. listing' = listing
            BY <2>1, <2>2 DEF addDiscussionTagToCategory
        <3> QED BY <1>1, <3>1, Zenon
    <2>3. CASE g \notin categoryTags[d]
        <3> DEFINE pairs == {d} \X (tagThreads[g] \ listing.threads[d])
        <3>1. listing' = InsertThreads(listing, Once(pairs))
            BY <2>1, <2>3 DEF addDiscussionTagToCategory
        <3>2. \A c \in Category, u \in Thread : <<c, u>> \in pairs => u \notin listing.threads[c]
            OBVIOUS
        <3> HIDE DEF pairs
        <3> QED BY <1>2, <3>1, <3>2
    <2> QED BY <2>2, <2>3
<1> QED BY <1>3, <1>4

-----------------------------------------------------------------------------
(* A new category.                                                         *)

\* It is nobody's ancestor.
LEMMA LineageStays ==
    ASSUME GraphType, CategoryForest, NEW c \in Category,
           NEW p \in Category \cup {NoCategory}, addNewDiscussionCategory(c, p),
           NEW x \in Category, x # c
    PROVE  Lineage(x)' = Lineage(x)
<1>1. /\ \A y \in Category : parent[y] # c
      /\ \A y \in Category : parent'[y] = IF y = c THEN p ELSE parent[y]
    BY NoCategoryAssumption DEF addNewDiscussionCategory, GraphType, CategoryForest
<1>2. /\ Ancestors(x) = {d \in Category : \A S \in SUBSET Category :
                            Climbs(parent, x, {}, S) => d \in S}
      /\ Ancestors(x)' = {d \in Category : \A S \in SUBSET Category :
                             Climbs(parent', x, {}, S) => d \in S}
    BY Zenon DEF Ancestors, ParentsUntil, Climbs
<1>3. ASSUME NEW S \in SUBSET Category
      PROVE  /\ Climbs(parent, x, {}, S) => Climbs(parent', x, {}, S \ {c})
             /\ Climbs(parent', x, {}, S) => Climbs(parent, x, {}, S \ {c})
    BY <1>1 DEF Climbs
<1>4. ASSUME NEW d \in Category
      PROVE  (\A S \in SUBSET Category : Climbs(parent, x, {}, S) => d \in S)
                 <=> \A S \in SUBSET Category : Climbs(parent', x, {}, S) => d \in S
    <2>1. ASSUME \A S \in SUBSET Category : Climbs(parent, x, {}, S) => d \in S,
                 NEW S \in SUBSET Category, Climbs(parent', x, {}, S)
          PROVE  d \in S
        <3>1. Climbs(parent, x, {}, S \ {c}) /\ S \ {c} \in SUBSET Category
            BY <1>3, <2>1
        <3>2. d \in S \ {c}
            BY <2>1, <3>1
        <3> QED BY <3>2
    <2>2. ASSUME \A S \in SUBSET Category : Climbs(parent', x, {}, S) => d \in S,
                 NEW S \in SUBSET Category, Climbs(parent, x, {}, S)
          PROVE  d \in S
        <3>1. Climbs(parent', x, {}, S \ {c}) /\ S \ {c} \in SUBSET Category
            BY <1>3, <2>2
        <3>2. d \in S \ {c}
            BY <2>2, <3>1
        <3> QED BY <3>2
    <2> QED BY <2>1, <2>2
<1>5. Ancestors(x)' = Ancestors(x)
    BY <1>2, <1>4
<1> QED BY <1>5 DEF Lineage

LEMMA TotalsNewCategory ==
    ASSUME GraphType, CategoryForest, CategoriesAndThreadsAgree,
           NEW one, Totals(listing, messageCount, Line, one), NEW c \in Category,
           NEW p \in Category \cup {NoCategory}, addNewDiscussionCategory(c, p)
    PROVE  Totals(listing', messageCount', Line', one)
<1>1. listing' = listing /\ messageCount' = messageCount /\ c \notin categories
    BY DEF addNewDiscussionCategory, threadVars
<1>2. listing.threads[c] = {}
    BY <1>1 DEF CategoriesAndThreadsAgree
<1>3. \A x \in Category : x # c => Line'[x] = Line[x]
    BY LineageStays DEF Line
<1>4. ASSUME NEW d \in Category, NEW t \in Thread
      PROVE  Below(listing, Line', d, t) = Below(listing, Line, d, t)
    BY <1>2, <1>3 DEF Below
<1>5. Totals(listing, messageCount, Line', one)
    BY <1>4 DEF Totals, Subtree
<1> QED BY <1>1, <1>5, Zenon

-----------------------------------------------------------------------------
(* The inductive invariant.                                                *)

LEMMA LineStays == parent' = parent => Line' = Line
BY Zenon DEF Line, Lineage, Ancestors, ParentsUntil

\* Without moves, deletions and merges of categories, only a new category
\* changes the tree.
LEMMA TreeStays ==
    ASSUME policy.commands = {}, Next
    PROVE  \/ parent' = parent
           \/ \E c \in Category, p \in Category \cup {NoCategory} :
                 addNewDiscussionCategory(c, p)
<1>1. ASSUME NEW t \in Thread,
             \/ addNewDiscussionThread(t) \/ deleteDiscussionThread(t)
             \/ addNewDiscussionMessageInThread(t) \/ deleteDiscussionMessage(t)
      PROVE  parent' = parent
    BY <1>1 DEF addNewDiscussionThread, deleteDiscussionThread, treeVars,
                addNewDiscussionMessageInThread, deleteDiscussionMessage, ChangeMessages
<1>2. ASSUME NEW from \in Thread, NEW into \in Thread,
             \/ moveDiscussionThreadMessage(from, into)
             \/ mergeDiscussionThreads(from, into)
      PROVE  parent' = parent
    BY <1>2 DEF moveDiscussionThreadMessage, mergeDiscussionThreads, treeVars
<1>3. ASSUME NEW g \in Tag, addNewDiscussionTag(g) \/ deleteDiscussionTag(g)
      PROVE  parent' = parent
    BY <1>3 DEF addNewDiscussionTag, deleteDiscussionTag, treeVars
<1>4. ASSUME NEW g \in Tag, NEW t \in Thread,
             addDiscussionTagToThread(g, t) \/ removeDiscussionTagFromThread(g, t)
      PROVE  parent' = parent
    BY <1>4 DEF addDiscussionTagToThread, removeDiscussionTagFromThread, treeVars
<1>5. ASSUME NEW from \in Tag, NEW into \in Tag, mergeDiscussionTags(from, into)
      PROVE  parent' = parent
    BY <1>5 DEF mergeDiscussionTags
<1>6. ASSUME NEW c \in Category, NEW p, changeDiscussionCategoryParent(c, p) PROVE FALSE
    BY <1>6 DEF changeDiscussionCategoryParent
<1>7. ASSUME NEW c \in Category, deleteDiscussionCategory(c) PROVE FALSE
    BY <1>7 DEF deleteDiscussionCategory
<1>8. ASSUME NEW g \in Tag, NEW c \in Category,
             addDiscussionTagToCategory(g, c) \/ removeDiscussionTagFromCategory(g, c)
      PROVE  parent' = parent
    BY <1>8 DEF addDiscussionTagToCategory, removeDiscussionTagFromCategory, treeVars
<1> QED BY <1>1, <1>2, <1>3, <1>4, <1>5, <1>6, <1>7, <1>8 DEF Next

\* If no two categories have the same parent, none had before.
LEMMA OnlyWas ==
    ASSUME policy.commands = {}, GraphType, CategoryForest, Next, Only(parent')
    PROVE  Only(parent)
<1>1. ASSUME NEW c \in Category, NEW p \in Category \cup {NoCategory},
             addNewDiscussionCategory(c, p)
      PROVE  Only(parent)
    <2>1. /\ parent[c] \notin Category
          /\ \A y \in Category : y # c => parent'[y] = parent[y]
        BY <1>1, NoCategoryAssumption DEF addNewDiscussionCategory, GraphType, CategoryForest
    <2> QED BY <2>1 DEF Only
<1> QED BY <1>1, TreeStays

\* The invariant behind TotalsCounted.
TotalsInv ==
    policy.commands = {} => Totals(listing, messageCount, Line, Only(parent))

LEMMA TotalsStep ==
    ASSUME policy.commands = {}, UnmergedInv, CountInv,
           Totals(listing, messageCount, Line, Only(parent)), Next
    PROVE  Totals(listing', messageCount', Line', Only(parent'))
<1>1. /\ GraphType /\ CategoryForest /\ CategoriesAndThreadsAgree /\ CountType
      /\ Consistent(listing)
    BY DEF CountInv, UnmergedInv, Inv, GraphType, Consistent, Agree, CategoriesAndThreadsAgree
<1> DEFINE Goal == Totals(listing', messageCount', Line, Only(parent))
<1>2. ASSUME NEW c \in Category, NEW p \in Category \cup {NoCategory},
             addNewDiscussionCategory(c, p)
      PROVE  Totals(listing', messageCount', Line', Only(parent'))
    <2>1. Totals(listing', messageCount', Line', Only(parent))
        BY <1>1, <1>2, TotalsNewCategory
    <2>2. Only(parent') => Only(parent)
        BY <1>1, OnlyWas
    <2> QED BY <2>1, <2>2 DEF Totals
<1>3. ASSUME parent' = parent PROVE Goal
    <2>0. UNCHANGED <<messageCount, listing>> => Goal
        BY Zenon
    <2>1. ASSUME NEW t \in Thread, addNewDiscussionThread(t) PROVE Goal
        BY <2>0, <2>1 DEF addNewDiscussionThread
    <2>2. ASSUME NEW t \in Thread, deleteDiscussionThread(t) PROVE Goal
        BY <1>1, <2>2, TotalsDelete
    <2>3. ASSUME NEW t \in Thread,
                 addNewDiscussionMessageInThread(t) \/ deleteDiscussionMessage(t)
          PROVE  Goal
        <3>1. messageCount[t] \in Nat
            BY <1>1 DEF CountType, Count
        <3>2. CASE addNewDiscussionMessageInThread(t)
            <4>1. ChangeMessages(t, 1) /\ messageCount[t] + 1 \in Nat /\ 1 \in Int
                BY <3>1, <3>2 DEF addNewDiscussionMessageInThread
            <4> QED BY <1>1, <4>1, TotalsChange
        <3>3. CASE deleteDiscussionMessage(t)
            <4> DEFINE k == -1
            <4>1. ChangeMessages(t, k) /\ messageCount[t] + k \in Nat /\ k \in Int
                BY <3>1, <3>3 DEF deleteDiscussionMessage
            <4> HIDE DEF k
            <4> QED BY <1>1, <4>1, TotalsChange
        <3> QED BY <2>3, <3>2, <3>3
    <2>4. ASSUME NEW from \in Thread, NEW into \in Thread,
                 moveDiscussionThreadMessage(from, into)
          PROVE  Goal
        BY <1>1, <2>4, TotalsMove
    <2>5. ASSUME NEW from \in Thread, NEW into \in Thread,
                 mergeDiscussionThreads(from, into)
          PROVE  FALSE
        BY <2>5 DEF mergeDiscussionThreads
    <2>6. ASSUME NEW g \in Tag, addNewDiscussionTag(g) PROVE Goal
        BY <2>0, <2>6 DEF addNewDiscussionTag, threadVars
    <2>7. ASSUME NEW g \in Tag,
                 \/ \E t \in Thread : removeDiscussionTagFromThread(g, t)
                 \/ \E c \in Category : removeDiscussionTagFromCategory(g, c)
                 \/ deleteDiscussionTag(g)
          PROVE  Goal
        BY <1>1, <2>7, TotalsUntag
    <2>8. ASSUME NEW g \in Tag,
                 \/ \E t \in Thread : addDiscussionTagToThread(g, t)
                 \/ \E c \in Category : addDiscussionTagToCategory(g, c)
          PROVE  Goal
        BY <1>1, <2>8, TotalsTag
    <2>9. ASSUME NEW from \in Tag, NEW into \in Tag, mergeDiscussionTags(from, into)
          PROVE  FALSE
        BY <2>9 DEF mergeDiscussionTags
    <2>10. ASSUME NEW c \in Category, NEW p \in Category \cup {NoCategory},
                  addNewDiscussionCategory(c, p)
           PROVE  Goal
        BY <2>0, <2>10 DEF addNewDiscussionCategory, threadVars
    <2>11. ASSUME NEW c \in Category, NEW p, changeDiscussionCategoryParent(c, p) PROVE FALSE
        BY <2>11 DEF changeDiscussionCategoryParent
    <2>12. ASSUME NEW c \in Category, deleteDiscussionCategory(c) PROVE FALSE
        BY <2>12 DEF deleteDiscussionCategory
    <2> HIDE DEF Goal
    <2> QED BY <2>1, <2>2, <2>3, <2>4, <2>5, <2>6, <2>7, <2>8, <2>9, <2>10, <2>11, <2>12
            DEF Next
<1>4. CASE parent' = parent
    <2>1. Line' = Line
        BY <1>4, LineStays
    <2> QED BY <1>3, <1>4, <2>1, Zenon
<1> QED BY <1>2, <1>4, TreeStays

LEMMA TotalsInvInit == Init => TotalsInv
<1> SUFFICES ASSUME Init PROVE Totals(listing, messageCount, Line, Only(parent))
    BY DEF TotalsInv
<1>1. /\ \A c \in Category : listing.threads[c] = {} /\ listing.total[c] = {}
                             /\ listing.totalMessages[c] = 0
      /\ \A c \in Category, t \in Thread : listing.references[c][t] = 0
      /\ TotalType(listing)
    BY DEF Init, TotalType
<1>2. ASSUME NEW d \in Category, NEW t \in Thread
      PROVE  Below(listing, Line, d, t) = {}
    BY <1>1 DEF Below
<1>3. Cardinality({}) = 0
    BY FS_EmptySet
<1>4. messageCount \in Count
    BY DEF Init, Count
<1>5. SumFunctionOnSet(messageCount, {}) = 0
    BY <1>4, CountsAreWeights, SumStep
<1> QED BY <1>1, <1>2, <1>3, <1>5 DEF Totals, Subtree, Grand

LEMMA TotalsInvStep ==
    (NoTagMerges => UnmergedInv) /\ CountInv /\ TotalsInv /\ [Next]_vars => TotalsInv'
<1> SUFFICES ASSUME NoTagMerges => UnmergedInv, CountInv, TotalsInv, [Next]_vars,
                    policy'.commands = {}
             PROVE  Totals(listing', messageCount', Line', Only(parent'))
    BY Zenon DEF TotalsInv, Totals, TotalType, Subtree, Grand, Below, Only
<1>1. policy' = policy
    BY PolicyStays
<1>2. policy.commands = {} /\ NoTagMerges
    BY <1>1 DEF NoTagMerges
<1>3. CASE Next
    BY <1>2, <1>3, TotalsStep DEF TotalsInv
<1>4. CASE UNCHANGED vars
    <2>1. listing' = listing /\ messageCount' = messageCount /\ parent' = parent
        BY <1>4 DEF vars, threadVars, treeVars
    <2>2. Line' = Line
        BY <2>1, LineStays
    <2>3. Totals(listing, messageCount, Line, Only(parent))
        BY <1>2 DEF TotalsInv
    <2> QED BY <2>1, <2>2, <2>3, Zenon
<1> QED BY <1>3, <1>4

\* Without moves, deletions and merges of categories, a category totals the
\* threads of its subtree; and it counts each of their messages once, though
\* updateMessageCount climbs from every category of a thread, unless a category
\* has two children.
THEOREM TotalsCountedTheorem == Spec => []TotalsCounted
<1>1. ASSUME TotalsInv, CountInv, policy.commands = {}
      PROVE  Totals(listing, messageCount, Line, Only(parent))
    BY <1>1 DEF TotalsInv
<1>2. ASSUME TotalsInv, CountInv, policy.commands = {} PROVE TotalsListSubtree
    <2>1. Subtree(listing, Line)
        BY <1>1, <1>2 DEF Totals
    <2>2. ASSUME NEW c \in Category, NEW t \in Thread
          PROVE  LET below == {d \in Category : c \in Lineage(d) /\ t \in listing.threads[d]}
                 IN  /\ t \in listing.total[c] <=> below # {}
                     /\ listing.references[c][t] = Cardinality(below)
        <3>1. Below(listing, Line, c, t)
                  = {d \in Category : c \in Lineage(d) /\ t \in listing.threads[d]}
            BY DEF Below, Line
        <3>2. /\ t \in listing.total[c] <=> Below(listing, Line, c, t) # {}
              /\ listing.references[c][t] = Cardinality(Below(listing, Line, c, t))
            BY <2>1 DEF Subtree
        <3> QED BY <3>1, <3>2, Zenon
    <2> QED BY <2>2, Zenon DEF TotalsListSubtree
<1>3. ASSUME TotalsInv, CountInv, policy.commands = {},
             \A c \in Category : Cardinality(children[c]) <= 1
      PROVE  \A c \in Category : listing.totalMessages[c] = Messages(listing.total[c])
    <2>1. Only(parent)
        <3> SUFFICES ASSUME NEW x \in Category, NEW y \in Category, parent[x] = parent[y],
                            parent[x] \in Category, x # y
                     PROVE  FALSE
            BY DEF Only
        <3> DEFINE c == parent[x]
        <3>1. {x, y} \in SUBSET children[c] /\ children[c] \in SUBSET Category
            BY <1>3 DEF CountInv, Inv, CategoryForest, GraphType
        <3>2. IsFiniteSet(children[c]) /\ Cardinality(children[c]) \in Nat
            BY <3>1, SetOfCategories
        <3>3. Cardinality({x, y}) <= Cardinality(children[c])
            BY <3>1, <3>2, FS_Subset
        <3>4. Cardinality({x, y}) = 2
            <4>1. IsFiniteSet({x}) /\ Cardinality({x}) = 1
                BY FS_Singleton
            <4>2. Cardinality({x} \cup {y}) = Cardinality({x}) + 1
                BY <4>1, FS_AddElement
            <4>3. {x} \cup {y} = {x, y}
                OBVIOUS
            <4> QED BY <4>1, <4>2, <4>3
        <3>5. Cardinality(children[c]) <= 1
            BY <1>3
        <3> HIDE DEF c
        <3> QED BY <3>2, <3>3, <3>4, <3>5
    <2> QED BY <1>1, <1>3, <2>1 DEF Totals, Grand, Messages
<1>4. TotalsInv /\ CountInv => TotalsCounted
    BY <1>2, <1>3 DEF TotalsCounted, MessagesTotalledOnce
<1>5. Spec => []CountInv
    BY CountInit, CountStep, PTL DEF Spec
<1> QED BY <1>4, <1>5, TotalsInvInit, TotalsInvStep, UnmergedInvariance, PTL DEF Spec
=============================================================================
