-------------------------- MODULE PrivilegesProofs --------------------------
(* For every set of users, entities and configurations and every number of  *)
(* commands: the first account keeps the forum, recorded grants are of      *)
(* accounts that exist, and messages are shown one by one or together alike.*)
EXTENDS Privileges, FiniteSetTheorems, TLAPS

\* The grants of the forum: the first account has one that never ends, the
\* others' are smaller in size.
ForumGrants ==
    \A g \in grants : g.entity = Forum =>
        /\ g.value \in Int
        /\ IF g.user = first THEN g.value = Top /\ g.expires = 0
           ELSE Abs(g.value) < Top

Crown == [user |-> first, entity |-> Forum, value |-> Top, expires |-> 0]

\* What a step needs to know: accounts, grants and requirements of the forum.
Reign ==
    /\ policy \in Policies
    /\ users \subseteq User
    /\ DOMAIN messages \subseteq Message
    /\ IF first = NoUser THEN users = {} /\ grants = {}
       ELSE first \in users /\ Crown \in grants
    /\ ForumGrants
    /\ DOMAIN required = DOMAIN Holders
    /\ \A k \in DOMAIN Holders :
          required[k] \in [Holders[k] -> [Privilege -> Value \cup {Unset}]]
    /\ \A k \in DOMAIN Holders, p \in Privilege :
           required[k][Forum][p] \in -Top .. Top

LEMMA ForumHolds ==
    \A k \in DOMAIN Holders : Forum \in Holders[k]
BY DEF Holders

LEMMA ForumScope == Scope(Forum) = {Forum}
BY EntitiesAssumption DEF Scope

\* What fits into 16 bits keeps its value.
LEMMA NarrowKeeps ==
    ASSUME NEW v \in -Limit .. Limit - 1
    PROVE  Narrow(v) = v
<1>1. v + Limit \in 0 .. 2 * Limit - 1 /\ 2 * Limit \in Nat \ {0}
  BY LimitAssumption, TopAssumption
<1>2. (v + Limit) % (2 * Limit) = v + Limit
  BY <1>1
<1> QED BY <1>2, LimitAssumption DEF Narrow

\* What an account is worth without grants is an integer below Top.
LEMMA DefaultBelowTop ==
    ASSUME Reign, BonusInRange, NEW u
    PROVE  defaultPositiveValue(u) \in Nat /\ defaultPositiveValue(u) < Top
<1> DEFINE own == {m \in DOMAIN messages : messages[m].author = u}
<1>1. own \subseteq Message
  BY DEF Reign
<1>2. IsFiniteSet(own)
  BY <1>1, EntitiesAssumption, FS_Subset
<1>3. Cardinality(own) \in Nat /\ Cardinality(own) <= Cardinality(Message)
  BY <1>1, <1>2, EntitiesAssumption, FS_CardinalityType, FS_Subset
<1>4. messageCount(u) \in 0 .. Cardinality(Message)
  <2>1. Cardinality(Message) \in Nat
    BY EntitiesAssumption, FS_CardinalityType
  <2>2. messageCount(u) = Cardinality(own)
    BY DEF messageCount
  <2> QED BY <1>3, <2>1, <2>2
<1>5. /\ policy.default \in Nat /\ policy.maxBonus \in Nat
      /\ policy.default + policy.maxBonus < Top
  BY PoliciesAssumption DEF Reign
<1>6. PICK bonus \in 0 .. Limit - 1 : bonus = policy.multiplier * messageCount(u)
  BY <1>4 DEF BonusInRange
<1>7. Narrow(policy.multiplier * messageCount(u)) = bonus
  <2>1. bonus \in -Limit .. Limit - 1
    BY LimitAssumption
  <2> QED BY <1>6, <2>1, NarrowKeeps
<1> QED
  BY <1>5, <1>7, TopAssumption, LimitAssumption DEF defaultPositiveValue, Lesser

\* Forum-wide an account holds at most Top and at least nothing, and less than Top
\* is taken from it.
LEMMA ForumValues ==
    ASSUME Reign, BonusInRange, NEW u
    PROVE  /\ \A p \in Positive(u, {Forum}) : p \in Int /\ p <= Top
           /\ \A p \in Largest(Positive(u, {Forum})) :
                  p \in 0 .. Top /\ (u # first => p < Top)
           /\ \A n \in Negative(u, {Forum}) \cup {0} : n \in -Top .. 0
<1>1. ASSUME NEW p \in Positive(u, {Forum})
      PROVE  /\ p \in Int /\ p <= Top
             /\ u # first => p < Top
  <2>1. CASE u = Anonymous
    BY <1>1, <2>1, TopAssumption DEF Positive
  <2>2. CASE u # Anonymous /\ p = defaultPositiveValue(u)
    BY <2>2, DefaultBelowTop, TopAssumption
  <2>3. CASE u # Anonymous /\ p # defaultPositiveValue(u)
    <3>1. PICK g \in grants : g.user = u /\ g.entity = Forum /\ g.value = p
      BY <1>1, <2>3 DEF Positive
    <3> QED BY <3>1, TopAssumption DEF Reign, ForumGrants, Abs
  <2> QED BY <2>1, <2>2, <2>3
<1>2. \E q \in Positive(u, {Forum}) : q \in Nat
  <2>1. CASE u = Anonymous
    BY <2>1 DEF Positive
  <2>2. CASE u # Anonymous
    BY <2>2, DefaultBelowTop DEF Positive
  <2> QED BY <2>1, <2>2
<1>3. ASSUME NEW n \in Negative(u, {Forum}) PROVE n \in -Top .. 0
  <2>1. PICK g \in grants : g.entity = Forum /\ g.value = n /\ g.value < 0
    BY <1>3 DEF Negative
  <2> QED BY <2>1, TopAssumption DEF Reign, ForumGrants, Abs
<1>4. ASSUME NEW p \in Largest(Positive(u, {Forum}))
      PROVE  p \in 0 .. Top /\ (u # first => p < Top)
  <2>1. /\ p \in Positive(u, {Forum})
        /\ \A q \in Positive(u, {Forum}) : q <= p
    BY DEF Largest
  <2> QED BY <1>1, <1>2, <2>1, TopAssumption
<1>5. 0 \in -Top .. 0
  BY TopAssumption
<1> QED BY <1>1, <1>3, <1>4, <1>5

\* Forum-wide nobody exceeds Top, and only the first account has it.
LEMMA NobodyAboveTop ==
    ASSUME Reign, BonusInRange, NEW u, NEW v \in Int, Effective(u, Forum, v)
    PROVE  v <= Top /\ (u # first => v < Top)
<1>1. PICK p \in Largest(Positive(u, {Forum})),
           n \in Smallest(Negative(u, {Forum}) \cup {0}) : Narrow(p + n) >= v
  BY ForumScope DEF Effective, Reaches
<1>2. p \in 0 .. Top /\ (u # first => p < Top) /\ n \in -Top .. 0
  BY ForumValues DEF Smallest
<1>3. p + n \in -Limit .. Limit - 1
  BY <1>2, TopAssumption, LimitAssumption
<1>4. Narrow(p + n) = p + n
  BY <1>3, NarrowKeeps
<1> QED BY <1>1, <1>2, <1>4, TopAssumption

\* The first account has Top and nothing that lowers it.
LEMMA FirstHasTop ==
    ASSUME Reign, BonusInRange, first # NoUser, NEW v \in Int, v <= Top
    PROVE  Effective(first, Forum, v) /\ Top \in Largest(Positive(first, {Forum}))
<1>1. first # Anonymous
  BY UsersAssumption DEF Reign
<1>2. /\ Crown \in grants /\ Crown.user = first /\ Crown.entity = Forum
      /\ Crown.value = Top /\ Crown.expires = 0
  BY DEF Reign, Crown
<1>3. Crown.value > 0 /\ Live(Crown)
  BY <1>2, TopAssumption DEF Live
<1>4. Top \in Positive(first, {Forum})
  BY <1>1, <1>2, <1>3 DEF Positive
<1>5. Top \in Largest(Positive(first, {Forum}))
  BY <1>4, ForumValues DEF Largest
<1>6. Negative(first, {Forum}) = {}
  BY TopAssumption DEF Negative, Reign, ForumGrants
<1>7. 0 \in Smallest(Negative(first, {Forum}) \cup {0})
  BY <1>6 DEF Smallest
<1>8. Narrow(Top + 0) = Top
  BY NarrowKeeps, TopAssumption, LimitAssumption
<1>9. Narrow(Top + 0) >= v
  BY <1>8, TopAssumption
<1> QED BY <1>5, <1>7, <1>9, ForumScope DEF Effective, Reaches

LEMMA ReignKeepsTheForum == Reign => FirstUserKeepsTheForum
<1> SUFFICES ASSUME Reign, BonusInRange, first # NoUser PROVE FirstUserKeepsTheForum
  BY DEF FirstUserKeepsTheForum
<1>1. first \in users
  BY DEF Reign
<1>2. Effective(first, Forum, Top)
  BY FirstHasTop, TopAssumption
<1>3. ASSUME NEW k \in DOMAIN Holders, NEW p \in Privilege
      PROVE isAllowed(first, k, Forum, p)
  <2>1. required[k][Forum][p] \in -Top .. Top
    BY <1>3 DEF Reign
  <2>2. OrZero(required[k][Forum][p]) = required[k][Forum][p]
    BY <2>1, EntitiesAssumption, TopAssumption DEF OrZero
  <2>3. RequiredOf(k, Forum, p) = {required[k][Forum][p]}
    BY EntitiesAssumption DEF RequiredOf
  <2>4. Effective(first, Forum, required[k][Forum][p])
    BY <2>1, FirstHasTop, TopAssumption
  <2> QED BY <2>2, <2>3, <2>4 DEF isAllowed
<1>4. ASSUME NEW u \in users \ {first} PROVE ~Effective(u, Forum, Top)
  <2>1. Top \in Int /\ ~(Top < Top)
    BY TopAssumption
  <2> QED BY <1>4, <2>1, NobodyAboveTop
<1> QED BY <1>1, <1>2, <1>3, <1>4 DEF FirstUserKeepsTheForum

LEMMA InitReign == Init => Reign
<1> SUFFICES ASSUME Init PROVE Reign
  OBVIOUS
<1>1. /\ policy \in Policies /\ users \subseteq User
      /\ DOMAIN messages \subseteq Message
  BY PoliciesAssumption DEF Init
<1>2. IF first = NoUser THEN users = {} /\ grants = {}
      ELSE first \in users /\ Crown \in grants
  BY PoliciesAssumption DEF Init, Crown
<1>3. ForumGrants
  BY TopAssumption DEF Init, ForumGrants
<1>4. /\ DOMAIN required = DOMAIN Holders
      /\ \A k \in DOMAIN Holders :
             required[k] \in [Holders[k] -> [Privilege -> Value \cup {Unset}]]
  BY <1>1, PoliciesAssumption DEF Init, Privilege, Value
<1>5. ASSUME NEW k \in DOMAIN Holders, NEW p \in Privilege
      PROVE required[k][Forum][p] \in -Top .. Top
  <2>1. Forum \in Holders[k]
    BY ForumHolds
  <2>2. required[k][Forum][p] = policy.required[p]
    BY <2>1 DEF Init
  <2> QED BY <1>1, <2>2, PoliciesAssumption DEF Privilege
<1> QED BY <1>1, <1>2, <1>3, <1>4, <1>5 DEF Reign

\* A grant on another entity, or one that is smaller than Top in size and
\* not for the first account, leaves the first account in place.
LEMMA GrantKeepsReign ==
    ASSUME Reign, NEW u, NEW e, NEW v \in Int, NEW d,
           first # NoUser,
           e = Forum => u # first /\ Abs(v) < Top,
           grants' = Granted(grants, u, e, v, d), first' = first
    PROVE  ForumGrants' /\ Crown' \in grants'
<1>1. CASE v = 0
  <2>1. ~(Crown.user = u /\ Crown.entity = e)
    BY DEF Crown
  <2>2. Crown \in grants' /\ Crown' = Crown
    BY <1>1, <2>1 DEF Granted, Reign, Crown
  <2> QED BY <1>1, <2>2 DEF Granted, ForumGrants, Reign
<1>2. CASE v # 0
  <2> DEFINE new == [user |-> u, entity |-> e, value |-> v,
                     expires |-> calculatePrivilegeExpires(d)]
  <2>1. grants' = grants \cup {new}
    BY <1>2 DEF Granted
  <2>2. Crown \in grants' /\ Crown' = Crown
    BY <2>1 DEF Reign, Crown
  <2>3. new.entity = Forum => new.value \in Int /\ new.user # first /\ Abs(new.value) < Top
    OBVIOUS
  <2> QED BY <2>1, <2>2, <2>3 DEF ForumGrants, Reign
<1> QED BY <1>1, <1>2

LEMMA ChangeKeepsReign ==
    ASSUME Reign, NEW u, NEW kind, NEW e, NEW p, NEW v, Change(u, kind, e, p, v)
    PROVE  Reign'
<1>1. /\ DOMAIN required' = DOMAIN Holders
      /\ \A k \in DOMAIN Holders :
             required'[k] \in [Holders[k] -> [Privilege -> Value \cup {Unset}]]
  BY DEF Change, Reign, isValidPrivilegeValue
<1>2. ASSUME NEW k \in DOMAIN Holders, NEW q \in Privilege
      PROVE required'[k][Forum][q] \in -Top .. Top
  <2>1. Forum \in Holders[k] /\ required[k][Forum][q] \in -Top .. Top
    BY <1>2, ForumHolds DEF Reign
  <2>2. v \in -Top .. Top
    BY DEF Change, isValidPrivilegeValue, Value
  <2>3. required'[k][Forum][q] \in {required[k][Forum][q], v}
    BY <2>1 DEF Change, Reign
  <2> QED BY <2>1, <2>2, <2>3
<1>3. ForumGrants' /\ Crown' = Crown
  BY DEF Change, Reign, ForumGrants, Crown
<1> QED BY <1>1, <1>2, <1>3 DEF Change, Reign

LEMMA AssignKeepsReign ==
    ASSUME Reign, BonusInRange, NEW u, NEW kind, NEW e, NEW target, NEW v, NEW d,
           Assign(u, kind, e, target, v, d)
    PROVE  Reign'
<1>1. target \in users /\ v \in Int
  BY DEF Assign, Acceptable, isValidPrivilegeValue, Value
<1>2. first # NoUser
  BY <1>1 DEF Reign
<1>3. ASSUME e = Forum PROVE target # first /\ Abs(v) < Top
  <2>1. Abs(v) \in Int /\ Abs(Top) = Top
    BY <1>1, TopAssumption DEF Abs
  <2>2. Effective(u, Forum, Abs(v) + 1)
    BY <1>3 DEF Assign, allowPrivilegeAssignment
  <2>3. Abs(v) + 1 <= Top
    BY <2>1, <2>2, NobodyAboveTop
  <2>4. ASSUME target = first PROVE FALSE
    <3>1. Top \in OldValue(target, Forum)
      <4>1. Negative(target, {Forum}) = {}
        BY <2>4, TopAssumption DEF Negative, Reign, ForumGrants
      <4>2. Top \in Largest(Positive(target, {Forum}))
        BY <1>2, <2>4, FirstHasTop, TopAssumption
      <4> QED BY <4>1, <4>2 DEF OldValue, Largest
    <3>2. Effective(u, Forum, Abs(Top) + 1)
      BY <1>3, <3>1 DEF Assign, allowPrivilegeAssignment
    <3>3. Top + 1 \in Int /\ ~(Top + 1 <= Top)
      BY TopAssumption
    <3> QED BY <2>1, <3>2, <3>3, NobodyAboveTop
  <2> QED BY <2>1, <2>3, <2>4, TopAssumption
<1>4. grants' = Granted(grants, target, e, v, d) /\ first' = first
  BY DEF Assign
<1>5. ForumGrants' /\ Crown' \in grants'
  BY <1>1, <1>2, <1>3, <1>4, GrantKeepsReign
<1> QED BY <1>2, <1>5 DEF Assign, Reign

\* The grant that comes with a new thread or message.
LEMMA UncheckedKeepsReign ==
    ASSUME Reign, NEW u \in users, NEW e, e # Forum, NEW v, NEW d,
           AssignUnchecked(u, e, v, d), first' = first
    PROVE  first # NoUser /\ ForumGrants' /\ Crown' \in grants'
<1>1. first # NoUser
  BY DEF Reign
<1>2. CASE Acceptable(u, v, d)
  <2>1. v \in Int
    BY <1>2 DEF Acceptable, isValidPrivilegeValue, Value
  <2>2. grants' = Granted(grants, u, e, v, d)
    BY <1>2 DEF AssignUnchecked
  <2> QED BY <1>1, <2>1, <2>2, GrantKeepsReign
<1>3. CASE ~Acceptable(u, v, d)
  BY <1>1, <1>3 DEF AssignUnchecked, Reign, ForumGrants, Crown
<1> QED BY <1>2, <1>3

\* Every command on requirements is a Change, every assignment an Assign.
LEMMA ChangesAreChange == ChangeRequired => \E u, kind, e, p, v : Change(u, kind, e, p, v)
BY SMT DEF ChangeRequired,
   changeDiscussionThreadMessageRequiredPrivilegeForThreadMessage,
   changeDiscussionThreadMessageRequiredPrivilegeForThread,
   changeDiscussionThreadRequiredPrivilegeForThread,
   changeDiscussionThreadMessageRequiredPrivilegeForTag,
   changeDiscussionThreadRequiredPrivilegeForTag,
   changeDiscussionTagRequiredPrivilegeForTag,
   changeDiscussionCategoryRequiredPrivilegeForCategory,
   changeDiscussionThreadMessageRequiredPrivilegeForumWide,
   changeDiscussionThreadRequiredPrivilegeForumWide,
   changeDiscussionTagRequiredPrivilegeForumWide,
   changeDiscussionCategoryRequiredPrivilegeForumWide,
   changeForumWideRequiredPrivilege

LEMMA AssignsAreAssign ==
    AssignPrivilege => \E u, kind, e, target, v, d : Assign(u, kind, e, target, v, d)
BY Zenon DEF AssignPrivilege, assignDiscussionThreadMessagePrivilege,
   assignDiscussionThreadPrivilege, assignDiscussionTagPrivilege,
   assignDiscussionCategoryPrivilege, assignForumWidePrivilege

LEMMA PolicyStays == [Next]_vars => policy' = policy
<1> SUFFICES ASSUME [Next]_vars PROVE policy' = policy
  OBVIOUS
<1>1. CASE ChangeRequired
  BY <1>1, ChangesAreChange DEF Change
<1>2. CASE AssignPrivilege
  BY <1>2, AssignsAreAssign DEF Assign
<1>3. CASE ChangeContent
  BY <1>3, Zenon DEF ChangeContent, changeForumWideDefaultPrivilegeLevel, addNewUser,
     deleteUser, addNewDiscussionThread, addNewDiscussionMessageInThread
<1> QED BY <1>1, <1>2, <1>3 DEF Next, Tick, vars

LEMMA StepReign == Reign /\ BonusInRange /\ [Next]_vars => Reign'
<1> SUFFICES ASSUME Reign, BonusInRange, [Next]_vars PROVE Reign'
  OBVIOUS
<1>1. CASE ChangeRequired
  <2>1. \E u, kind, e, p, v : Change(u, kind, e, p, v)
    BY <1>1, ChangesAreChange
  <2> QED BY <2>1, ChangeKeepsReign
<1>2. CASE AssignPrivilege
  <2>1. \E u, kind, e, target, v, d : Assign(u, kind, e, target, v, d)
    BY <1>2, AssignsAreAssign
  <2> QED BY <2>1, AssignKeepsReign
<1>3. ASSUME NEW u, NEW l, NEW v, NEW d,
             changeForumWideDefaultPrivilegeLevel(u, l, v, d)
      PROVE Reign'
  BY <1>3 DEF changeForumWideDefaultPrivilegeLevel, Reign, ForumGrants, Crown
<1>4. ASSUME NEW u, NEW new \in User, addNewUser(u, new) PROVE Reign'
  <2>1. CASE users = {}
    <3>1. first = NoUser /\ grants = {}
      BY <2>1 DEF Reign
    <3>2. /\ first' = new /\ grants' = {[user |-> new, entity |-> Forum,
                                         value |-> Top, expires |-> 0]}
      BY <1>4, <2>1, <3>1, TopAssumption DEF addNewUser, Granted,
         calculatePrivilegeExpires
    <3>3. ForumGrants' /\ Crown' \in grants'
      BY <3>2, TopAssumption DEF ForumGrants, Crown
    <3> QED BY <1>4, <3>2, <3>3, UsersAssumption DEF addNewUser, Reign
  <2>2. CASE users # {}
    BY <1>4, <2>2 DEF addNewUser, Reign, ForumGrants, Crown
  <2> QED BY <2>1, <2>2
<1>5. ASSUME NEW u, NEW target, deleteUser(u, target) PROVE Reign'
  <2>1. target \in users /\ first # NoUser
    BY <1>5 DEF deleteUser, Reign
  <2>2. ASSUME target = first PROVE FALSE
    <3>1. Top \in Largest(Positive(target, {Forum}))
      BY <2>1, <2>2, FirstHasTop, TopAssumption
    <3>2. Effective(u, Forum, Top + 1)
      BY <1>5, <3>1 DEF deleteUser, isAllowedOnUser
    <3>3. Top + 1 \in Int /\ ~(Top + 1 <= Top)
      BY TopAssumption
    <3> QED BY <3>2, <3>3, NobodyAboveTop
  <2>3. first' \in users' /\ users' \subseteq User /\ DOMAIN messages' \subseteq Message
    BY <1>5, <2>1, <2>2 DEF deleteUser, Reign
  <2> QED BY <1>5, <2>1, <2>3 DEF deleteUser, Reign, ForumGrants, Crown
<1>6. ASSUME NEW u \in Actors, NEW t \in Thread, addNewDiscussionThread(u, t)
      PROVE Reign'
  <2>1. CASE u = Anonymous
    BY <1>6, <2>1 DEF addNewDiscussionThread, Reign, ForumGrants, Crown
  <2>2. CASE u # Anonymous
    <3>1. u \in users /\ t # Forum
      BY <1>6, <2>2, EntitiesAssumption DEF Actors
    <3>2. first # NoUser /\ ForumGrants' /\ Crown' \in grants'
      BY <1>6, <2>2, <3>1, UncheckedKeepsReign DEF addNewDiscussionThread
    <3> QED BY <1>6, <3>2 DEF addNewDiscussionThread, Reign
  <2> QED BY <2>1, <2>2
<1>7. ASSUME NEW u \in Actors, NEW t, NEW m \in Message,
             addNewDiscussionMessageInThread(u, t, m)
      PROVE Reign'
  <2>1. DOMAIN messages' \subseteq Message
    BY <1>7 DEF addNewDiscussionMessageInThread, Reign
  <2>2. CASE u = Anonymous
    BY <1>7, <2>1, <2>2 DEF addNewDiscussionMessageInThread, Reign, ForumGrants, Crown
  <2>3. CASE u # Anonymous
    <3>1. u \in users /\ m # Forum
      BY <1>7, <2>3, EntitiesAssumption DEF Actors
    <3>2. first # NoUser /\ ForumGrants' /\ Crown' \in grants'
      BY <1>7, <2>3, <3>1, UncheckedKeepsReign DEF addNewDiscussionMessageInThread
    <3> QED BY <1>7, <2>1, <3>2 DEF addNewDiscussionMessageInThread, Reign
  <2> QED BY <2>2, <2>3
<1>8. CASE ChangeContent
  BY <1>3, <1>4, <1>5, <1>6, <1>7, <1>8 DEF ChangeContent
<1>9. CASE Tick
  BY <1>9 DEF Tick, Reign, ForumGrants, Crown
<1>10. CASE UNCHANGED vars
  BY <1>10 DEF vars, Reign, ForumGrants, Crown
<1> QED BY <1>1, <1>2, <1>8, <1>9, <1>10 DEF Next

\* deleteUser, the assign commands and the change commands can neither
\* remove nor overrule the first account, however they are combined.
THEOREM FirstUserTheorem == Spec => []FirstUserKeepsTheForum
<1>1. BonusInRange' /\ [Next]_vars => BonusInRange
  <2> SUFFICES ASSUME [Next]_vars PROVE policy' = policy
    BY DEF BonusInRange
  <2> QED BY PolicyStays
<1>2. Spec => [](BonusInRange => Reign)
  BY <1>1, InitReign, StepReign, PTL DEF Spec
<1>3. (BonusInRange => Reign) => FirstUserKeepsTheForum
  BY ReignKeepsTheForum DEF FirstUserKeepsTheForum
<1> QED BY <1>2, <1>3, PTL

----------------------------------------------------------------------------
(* Grants that are recorded.                                                *)

\* Whoever posts is an account that exists, unless anonymous.
LEMMA RecordedStep ==
    RecordedGrantsAreAccepted /\ [Next]_vars => RecordedGrantsAreAccepted'
<1> SUFFICES ASSUME RecordedGrantsAreAccepted, [Next]_vars
             PROVE  RecordedGrantsAreAccepted'
  OBVIOUS
<1>1. ASSUME refused' = refused PROVE RecordedGrantsAreAccepted'
  BY <1>1 DEF RecordedGrantsAreAccepted
<1>2. ASSUME NEW u \in users, NEW e, NEW v, NEW d, AssignUnchecked(u, e, v, d)
      PROVE  RecordedGrantsAreAccepted'
  BY <1>2 DEF AssignUnchecked, RecordedGrantsAreAccepted
<1>3. CASE ChangeRequired
  <2>1. \E u, kind, e, p, v : Change(u, kind, e, p, v)
    BY <1>3, ChangesAreChange
  <2> QED BY <1>1, <2>1 DEF Change
<1>4. CASE AssignPrivilege
  <2>1. \E u, kind, e, target, v, d : Assign(u, kind, e, target, v, d)
    BY <1>4, AssignsAreAssign
  <2> QED BY <1>1, <2>1 DEF Assign
<1>5. CASE ChangeContent
  <2>1. ASSUME NEW u, NEW l, NEW v, NEW d, changeForumWideDefaultPrivilegeLevel(u, l, v, d)
        PROVE  RecordedGrantsAreAccepted'
    BY <1>1, <2>1 DEF changeForumWideDefaultPrivilegeLevel
  <2>2. ASSUME NEW u, NEW new, addNewUser(u, new) \/ deleteUser(u, new)
        PROVE  RecordedGrantsAreAccepted'
    BY <1>1, <2>2 DEF addNewUser, deleteUser
  <2>3. ASSUME NEW u \in Actors, NEW t, addNewDiscussionThread(u, t)
        PROVE  RecordedGrantsAreAccepted'
    <3>1. CASE u = Anonymous
      BY <1>1, <2>3, <3>1 DEF addNewDiscussionThread
    <3>2. CASE u # Anonymous
      <4>1. u \in users
        BY <3>2 DEF Actors
      <4> QED BY <1>2, <2>3, <3>2, <4>1 DEF addNewDiscussionThread
    <3> QED BY <3>1, <3>2
  <2>4. ASSUME NEW u \in Actors, NEW t, NEW m, addNewDiscussionMessageInThread(u, t, m)
        PROVE  RecordedGrantsAreAccepted'
    <3>1. CASE u = Anonymous
      BY <1>1, <2>4, <3>1 DEF addNewDiscussionMessageInThread
    <3>2. CASE u # Anonymous
      <4>1. u \in users
        BY <3>2 DEF Actors
      <4> QED BY <1>2, <2>4, <3>2, <4>1 DEF addNewDiscussionMessageInThread
    <3> QED BY <3>1, <3>2
  <2> QED BY <1>5, <2>1, <2>2, <2>3, <2>4 DEF ChangeContent
<1>6. CASE Tick \/ UNCHANGED vars
  BY <1>1, <1>6 DEF Tick, vars
<1> QED BY <1>3, <1>4, <1>5, <1>6 DEF Next

\* The only recorded grant that the importer refuses is one of a default level
\* that should not have been accepted; never one for an account that does not
\* exist, which the unchecked calls of the repositories could make.
THEOREM RecordedTheorem == Spec => []RecordedGrantsAreAccepted
<1>1. Init => RecordedGrantsAreAccepted
  BY DEF Init, RecordedGrantsAreAccepted
<1> QED BY <1>1, RecordedStep, PTL DEF Spec

----------------------------------------------------------------------------
(* One message or many.                                                     *)

MessagesExist == DOMAIN messages \subseteq Message

LEMMA MessagesStep == MessagesExist /\ [Next]_vars => MessagesExist'
<1> SUFFICES ASSUME MessagesExist, [Next]_vars PROVE MessagesExist'
  OBVIOUS
<1>1. ASSUME messages' = messages PROVE MessagesExist'
  BY <1>1 DEF MessagesExist
<1>2. CASE ChangeContent
  <2>1. ASSUME NEW u, NEW target, deleteUser(u, target) PROVE MessagesExist'
    BY <2>1 DEF deleteUser, MessagesExist
  <2>2. ASSUME NEW u, NEW t, NEW m \in Message, addNewDiscussionMessageInThread(u, t, m)
        PROVE  MessagesExist'
    BY <2>2 DEF addNewDiscussionMessageInThread, MessagesExist
  <2> QED BY <1>1, <1>2, <2>1, <2>2 DEF ChangeContent, addNewUser,
             changeForumWideDefaultPrivilegeLevel, addNewDiscussionThread
<1> QED BY <1>1, <1>2, ChangesAreChange, AssignsAreAssign
        DEF Next, Change, Assign, Tick, vars

\* The values on a message are those on it alone and those on its thread.
LEMMA ScopeOfMessage ==
    ASSUME MessagesExist, NEW m \in DOMAIN messages
    PROVE  Scope(m) = {m} \cup ThreadScope(messages[m].thread)
BY DEF MessagesExist, Scope

LEMMA PositiveJoins ==
    ASSUME NEW u, NEW S, NEW T
    PROVE  Positive(u, S \cup T) = Positive(u, S) \cup Positive(u, T)
<1>1. CASE u = Anonymous
  BY <1>1 DEF Positive
<1>2. CASE u # Anonymous
  <2>1. ASSUME NEW s
        PROVE  Positive(u, s) = {defaultPositiveValue(u)}
                 \cup {g.value : g \in {x \in grants : /\ x.user = u /\ x.entity \in s
                                                       /\ x.value > 0 /\ Live(x)}}
    BY <1>2 DEF Positive
  <2>2. ASSUME NEW s, NEW y
        PROVE  y \in Positive(u, s) <=>
                 \/ y = defaultPositiveValue(u)
                 \/ \E g \in grants : /\ y = g.value /\ g.user = u /\ g.entity \in s
                                      /\ g.value > 0 /\ Live(g)
    BY <2>1
  <2> QED BY <2>2
<1> QED BY <1>1, <1>2

LEMMA NegativeJoins ==
    ASSUME NEW u, NEW S, NEW T
    PROVE  Negative(u, S \cup T) = Negative(u, S) \cup Negative(u, T)
<1>1. ASSUME NEW s, NEW y
      PROVE  y \in Negative(u, s) <=>
               \E g \in grants : /\ y = g.value /\ g.user = u /\ g.entity \in s
                                 /\ g.value < 0 /\ Live(g)
  BY DEF Negative
<1> QED BY <1>1

LEMMA BatchIsSingle == MessagesExist => BatchAgreesWithSingle
<1> SUFFICES ASSUME MessagesExist, NEW u \in Actors, NEW t \in DOMAIN tagsOf
             PROVE  computeDiscussionThreadMessageVisibilityAllowed(u, t)
                      = {m \in DOMAIN messages : /\ messages[m].thread = t
                                                 /\ isAllowed(u, "message", m, "USE")}
  BY DEF BatchAgreesWithSingle
<1> DEFINE need(m) == IF required["message"][m]["USE"] # Unset
                      THEN {required["message"][m]["USE"]}
                      ELSE ThreadRequired("message", t, "USE")
           shown(m) == \A r \in need(m) :
                          Reaches(Positive(u, {m}) \cup Positive(u, ThreadScope(t)),
                                  Negative(u, {m}) \cup Negative(u, ThreadScope(t)), OrZero(r))
<1>1. computeDiscussionThreadMessageVisibilityAllowed(u, t)
        = {m \in {x \in DOMAIN messages : messages[x].thread = t} : shown(m)}
  BY DEF computeDiscussionThreadMessageVisibilityAllowed
<1>2. ASSUME NEW m \in DOMAIN messages, messages[m].thread = t
      PROVE  shown(m) <=> isAllowed(u, "message", m, "USE")
  <2>1. m \in Message
    BY DEF MessagesExist
  <2>2. RequiredOf("message", m, "USE") = need(m)
    BY <1>2, <2>1 DEF RequiredOf, MessageRequired
  <2>3. Scope(m) = {m} \cup ThreadScope(t)
    BY <1>2, ScopeOfMessage
  <2>4. Positive(u, Scope(m)) = Positive(u, {m}) \cup Positive(u, ThreadScope(t))
    BY <2>3, PositiveJoins
  <2>5. Negative(u, Scope(m)) = Negative(u, {m}) \cup Negative(u, ThreadScope(t))
    BY <2>3, NegativeJoins
  <2> HIDE DEF need
  <2> QED BY <2>2, <2>4, <2>5 DEF isAllowed, Effective
<1> HIDE DEF shown
<1> QED BY <1>1, <1>2

\* computeDiscussionThreadMessageVisibilityAllowed and isAllowed agree on every
\* message in every reachable state.
THEOREM BatchTheorem == Spec => []BatchAgreesWithSingle
<1>1. Init => MessagesExist
  BY PoliciesAssumption DEF Init, MessagesExist
<1> QED BY <1>1, MessagesStep, BatchIsSingle, PTL DEF Spec
=============================================================================
