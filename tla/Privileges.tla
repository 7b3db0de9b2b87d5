---------------------------- MODULE Privileges ----------------------------
(* Required and granted privileges: AuthorizationGrantedPrivilegeStore,     *)
(* the privilege part of DefaultAuthorization and the commands of           *)
(* MemoryRepositoryAuthorization, together with the places where a grant    *)
(* is made without being asked for (the first user, new threads and         *)
(* messages).  Each command runs under the collection's write lock, so it   *)
(* is one step.                                                             *)
(*                                                                          *)
(* Of the privileges of one kind only ADJUST, which guards the commands of  *)
(* this module, is told apart from the rest (USE).  Grants are kept in a    *)
(* set: the store keeps equal grants twice, but every reader takes a        *)
(* maximum, a minimum or erases all of them.                                *)
EXTENDS Integers, FiniteSets

CONSTANTS
    User,           \* accounts
    Anonymous,      \* the visitor without an account
    NoUser,         \* the value of first before any account exists
    Thread, Message, Tag, Category,
    Forum,          \* the entity of forum-wide privileges
    Unset,          \* an optional that holds no value
    Top,            \* MaxPrivilegeValue; MinPrivilegeValue is -Top
    Limit,          \* PrivilegeValueIntType holds -Limit .. Limit - 1
    MaxClock,       \* bound on the clock
    MaxCommands,    \* bound on the number of commands
    Policies        \* configurations, see policy

ASSUME TopAssumption == Top \in Nat \ {0}
ASSUME LimitAssumption == Limit \in Nat /\ Top < Limit
ASSUME UsersAssumption ==
    Anonymous \notin User /\ NoUser \notin User \cup {Anonymous}
ASSUME EntitiesAssumption ==
    /\ Forum \notin Thread \cup Message \cup Tag \cup Category
    /\ IsFiniteSet(Message)
    /\ Unset \notin Int
\* An account starts below the highest value even with the largest bonus, and the
\* configured requirements can be met.
ASSUME PoliciesAssumption ==
    \A c \in Policies :
        /\ c.users \subseteq User
        /\ c.first \in User \cup {NoUser}
        /\ IF c.first = NoUser THEN c.users = {} ELSE c.first \in c.users
        /\ DOMAIN c.messages \subseteq Message
        /\ c.default \in Nat /\ c.maxBonus \in Nat /\ c.multiplier \in Int
        /\ c.default + c.maxBonus < Top
        /\ \A p \in {"USE", "ADJUST"} : c.required[p] \in -Top .. Top
        /\ c.values \subseteq -Top .. Top
        /\ c.durations \subseteq Nat
        /\ c.levelValues \subseteq Int /\ c.levelDurations \subseteq Int

VARIABLES
    policy,         \* the configuration and the tags and categories; constant
    users,          \* accounts that exist
    first,          \* the account that was created when there was none
    tagsOf,         \* thread -> its tags, for the threads that exist
    messages,       \* message -> its thread and author, for those that exist
    required,       \* kind -> entity -> privilege -> value or Unset
    grants,         \* the entries of the granted privilege store
    levels,         \* what creators of threads and messages are granted
    now,            \* Context::getCurrentTime()
    refused,        \* why the importer refuses a recorded grant, if it does
    commands        \* number of commands so far

vars == <<policy, users, first, tagsOf, messages, required, grants, levels,
          now, refused, commands>>

Privilege == {"USE", "ADJUST"}
Value == -Top .. Top
Entity == Thread \cup Message \cup Tag \cup Category \cup {Forum}

\* The entities that hold required values for each kind of privilege.
Holders ==
    [message |-> Message \cup Thread \cup Tag \cup {Forum},
     thread |-> Thread \cup Tag \cup {Forum},
     tag |-> Tag \cup {Forum},
     category |-> Category \cup {Forum},
     forum |-> {Forum}]

TypeOK ==
    /\ policy \in Policies
    /\ users \subseteq User
    /\ first \in User \cup {NoUser}
    /\ DOMAIN tagsOf \subseteq Thread
    /\ \A t \in DOMAIN tagsOf : tagsOf[t] \subseteq Tag
    /\ DOMAIN messages \subseteq Message
    /\ DOMAIN required = DOMAIN Holders
    /\ \A k \in DOMAIN Holders :
           required[k] \in [Holders[k] -> [Privilege -> Value \cup {Unset}]]
    /\ \A g \in grants : /\ g.user \in User
                         /\ g.entity \in Entity
                         /\ g.value \in Value \ {0}
                         /\ g.expires \in Nat
    /\ levels \in [{"thread", "message"} -> [value : Int, duration : Int]]
    /\ now \in Nat
    /\ refused \subseteq {"account", "level"}
    /\ commands \in 0 .. MaxCommands
----------------------------------------------------------------------------
(* Required values.                                                         *)

\* The category asks the forum next, never its parent.
TagRequired(kind, g, p) ==
    IF required[kind][g][p] # Unset THEN required[kind][g][p]
    ELSE required[kind][Forum][p]

CategoryRequired(c, p) ==
    IF required["category"][c][p] # Unset THEN required["category"][c][p]
    ELSE required["category"][Forum][p]

\* The values of which a thread requires the largest.
ThreadRequired(kind, t, p) ==
    IF required[kind][t][p] # Unset THEN {required[kind][t][p]}
    ELSE IF tagsOf[t] = {} THEN {required[kind][Forum][p]}
    ELSE {TagRequired(kind, g, p) : g \in tagsOf[t]}

MessageRequired(m, p) ==
    IF required["message"][m][p] # Unset THEN {required["message"][m][p]}
    ELSE ThreadRequired("message", messages[m].thread, p)

RequiredOf(kind, e, p) ==
    IF e \in Message THEN MessageRequired(e, p)
    ELSE IF e \in Thread THEN ThreadRequired(kind, e, p)
    ELSE IF e \in Tag THEN {TagRequired(kind, e, p)}
    ELSE IF e \in Category THEN {CategoryRequired(e, p)}
    ELSE {required[kind][Forum][p]}
----------------------------------------------------------------------------
(* Granted values.                                                          *)

Live(g) == ~(g.expires > 0 /\ g.expires < now)

messageCount(u) == Cardinality({m \in DOMAIN messages : messages[m].author = u})

Lesser(a, b) == IF a < b THEN a ELSE b

\* What a PrivilegeValueIntType keeps of an integer.
Narrow(v) == ((v + Limit) % (2 * Limit)) - Limit

\* The product loses its high bits before it is compared with the largest bonus.
defaultPositiveValue(u) ==
    policy.default
        + Lesser(policy.maxBonus, Narrow(policy.multiplier * messageCount(u)))

\* The values of which calculatePrivilege keeps the largest (positive) and
\* the smallest (negative), for the entities of a scope.
Positive(u, scope) ==
    IF u = Anonymous THEN {0}
    ELSE {defaultPositiveValue(u)}
         \cup {g.value : g \in {x \in grants : /\ x.user = u
                                              /\ x.entity \in scope
                                              /\ x.value > 0
                                              /\ Live(x)}}

Negative(u, scope) ==
    {g.value : g \in {x \in grants : /\ x.user = u
                                    /\ x.entity \in scope
                                    /\ x.value < 0
                                    /\ Live(x)}}

ThreadScope(t) == {t, Forum} \cup tagsOf[t]

\* A category, its parents up to the root, and the forum.
Ancestors(c) ==
    LET up[n \in 0 .. Cardinality(Category)] ==
            IF n = 0 THEN {c}
            ELSE up[n - 1] \cup {policy.parent[x] : x \in up[n - 1] \ {Forum}}
    IN up[Cardinality(Category)] \cup {Forum}

\* The entities whose grants count on an entity.
Scope(e) ==
    IF e \in Message THEN {e} \cup ThreadScope(messages[e].thread)
    ELSE IF e \in Thread THEN ThreadScope(e)
    ELSE IF e \in Tag THEN {e, Forum}
    ELSE IF e \in Category THEN Ancestors(e)
    ELSE {Forum}

Largest(values) == {v \in values : \A w \in values : w <= v}
Smallest(values) == {v \in values : \A w \in values : v <= w}

\* getEffectivePrivilegeValue(positive, negative) >= v, where positive is a
\* maximum and negative a minimum, zero if there is none.
Reaches(positive, negative, v) ==
    \E p \in Largest(positive), n \in Smallest(negative \cup {0}) : Narrow(p + n) >= v

Effective(u, e, v) == Reaches(Positive(u, Scope(e)), Negative(u, Scope(e)), v)

OrZero(v) == IF v = Unset THEN 0 ELSE v

isAllowed(u, kind, e, p) ==
    \A r \in RequiredOf(kind, e, p) : Effective(u, e, OrZero(r))

Abs(v) == IF v < 0 THEN -v ELSE v

\* isAllowed for a command on another user: the value must exceed what the
\* target was granted forum-wide.
isAllowedOnUser(u, target) ==
    /\ isAllowed(u, "forum", Forum, "USE")
    /\ \A p \in Largest(Positive(target, {Forum})) : Effective(u, Forum, p + 1)

allowPrivilegeUpdate(u, e, old, new) ==
    /\ old # Unset => Effective(u, e, Abs(old))
    /\ Effective(u, e, Abs(new))

\* computeOldValueForAssigningPrivileges: the largest size of what the target was
\* granted on this entity alone.
OldValue(target, e) ==
    Largest(Positive(target, {e}) \cup {Abs(v) : v \in Negative(target, {e})})

MutantAssignAtMost(u, e, target, new) ==
    /\ \A old \in OldValue(target, e) : Effective(u, e, Abs(old))
    /\ Effective(u, e, Abs(new))

allowPrivilegeAssignment(u, e, target, new) ==
    /\ \A old \in OldValue(target, e) : Effective(u, e, Abs(old) + 1)
    /\ Effective(u, e, Abs(new) + 1)
----------------------------------------------------------------------------
(* The direct functions, which both the commands and the importer call.     *)

calculatePrivilegeExpires(duration) == IF duration = 0 THEN 0 ELSE now + duration

isValidPrivilegeValue(v) == v \in Value

isValidPrivilegeDuration(d) == d >= 0

\* The conditions under which an assign function accepts its arguments.
Acceptable(u, v, d) ==
    u \in users /\ isValidPrivilegeValue(v) /\ isValidPrivilegeDuration(d)

Granted(gs, u, e, v, d) ==
    IF v = 0 THEN {g \in gs : ~(g.user = u /\ g.entity = e)}
    ELSE gs \cup {[user |-> u, entity |-> e, value |-> v,
                   expires |-> calculatePrivilegeExpires(d)]}

\* An assign function is called and the event recorded; the caller looks at
\* neither's result.
AssignUnchecked(u, e, v, d) ==
    /\ grants' = IF Acceptable(u, v, d) THEN Granted(grants, u, e, v, d)
                 ELSE grants
    /\ refused' = refused \cup
           {r \in {"account", "level"} :
               IF r = "account" THEN u \notin users
               ELSE ~isValidPrivilegeValue(v) \/ ~isValidPrivilegeDuration(d)}
----------------------------------------------------------------------------
(* Commands.                                                                *)

Count == commands < MaxCommands /\ commands' = commands + 1

Change(u, kind, e, p, v) ==
    /\ Count
    /\ isValidPrivilegeValue(v)
    /\ isAllowed(u, kind, e, "ADJUST")
    /\ allowPrivilegeUpdate(u, e, required[kind][e][p], v)
    /\ required' = [required EXCEPT ![kind][e][p] = v]
    /\ UNCHANGED <<policy, users, first, tagsOf, messages, grants, levels, now,
                   refused>>

Assign(u, kind, e, target, v, d) ==
    /\ Count
    /\ Acceptable(target, v, d)
    /\ u # target
    /\ isAllowed(u, kind, e, "ADJUST")
    /\ allowPrivilegeAssignment(u, e, target, v)
    /\ grants' = Granted(grants, target, e, v, d)
    /\ UNCHANGED <<policy, users, first, tagsOf, messages, required, levels,
                   now, refused>>

changeDiscussionThreadMessageRequiredPrivilegeForThreadMessage(u, m, p, v) ==
    m \in DOMAIN messages /\ Change(u, "message", m, p, v)

changeDiscussionThreadMessageRequiredPrivilegeForThread(u, t, p, v) ==
    t \in DOMAIN tagsOf /\ Change(u, "message", t, p, v)

changeDiscussionThreadRequiredPrivilegeForThread(u, t, p, v) ==
    t \in DOMAIN tagsOf /\ Change(u, "thread", t, p, v)

changeDiscussionThreadMessageRequiredPrivilegeForTag(u, g, p, v) ==
    Change(u, "message", g, p, v)

changeDiscussionThreadRequiredPrivilegeForTag(u, g, p, v) ==
    Change(u, "thread", g, p, v)

changeDiscussionTagRequiredPrivilegeForTag(u, g, p, v) ==
    Change(u, "tag", g, p, v)

changeDiscussionCategoryRequiredPrivilegeForCategory(u, c, p, v) ==
    Change(u, "category", c, p, v)

changeDiscussionThreadMessageRequiredPrivilegeForumWide(u, p, v) ==
    Change(u, "message", Forum, p, v)

changeDiscussionThreadRequiredPrivilegeForumWide(u, p, v) ==
    Change(u, "thread", Forum, p, v)

changeDiscussionTagRequiredPrivilegeForumWide(u, p, v) ==
    Change(u, "tag", Forum, p, v)

changeDiscussionCategoryRequiredPrivilegeForumWide(u, p, v) ==
    Change(u, "category", Forum, p, v)

changeForumWideRequiredPrivilege(u, p, v) == Change(u, "forum", Forum, p, v)

assignDiscussionThreadMessagePrivilege(u, m, target, v, d) ==
    m \in DOMAIN messages /\ Assign(u, "message", m, target, v, d)

assignDiscussionThreadPrivilege(u, t, target, v, d) ==
    t \in DOMAIN tagsOf /\ Assign(u, "thread", t, target, v, d)

assignDiscussionTagPrivilege(u, g, target, v, d) ==
    Assign(u, "tag", g, target, v, d)

assignDiscussionCategoryPrivilege(u, c, target, v, d) ==
    Assign(u, "category", c, target, v, d)

assignForumWidePrivilege(u, target, v, d) ==
    Assign(u, "forum", Forum, target, v, d)

\* The value is tested as if it were the duration and the duration is not
\* tested; neither is compared with the privileges of the user.
changeForumWideDefaultPrivilegeLevel(u, l, v, d) ==
    /\ Count
    /\ isValidPrivilegeDuration(v)
    /\ isAllowed(u, "forum", Forum, "ADJUST")
    /\ levels' = [levels EXCEPT ![l] = [value |-> v, duration |-> d]]
    /\ UNCHANGED <<policy, users, first, tagsOf, messages, required, grants,
                   now, refused>>

\* Only a visitor registers.  The first account is granted everything.
addNewUser(u, new) ==
    /\ Count
    /\ u = Anonymous
    /\ new \notin users
    /\ isAllowed(u, "forum", Forum, "USE")
    /\ users' = users \cup {new}
    /\ IF users = {}
       THEN /\ first' = new
            /\ grants' = Granted(grants, new, Forum, Top, 0)
       ELSE UNCHANGED <<first, grants>>
    /\ UNCHANGED <<policy, tagsOf, messages, required, levels, now, refused>>

\* The content of the user goes too; grants stay, their identifiers are
\* never used again.
deleteUser(u, target) ==
    /\ Count
    /\ target \in users
    /\ isAllowedOnUser(u, target)
    /\ users' = users \ {target}
    /\ messages' = [m \in {x \in DOMAIN messages : messages[x].author # target}
                    |-> messages[m]]
    /\ UNCHANGED <<policy, first, tagsOf, required, grants, levels, now, refused>>

MutantAddThread(u, t) ==
    /\ Count
    /\ t \notin DOMAIN tagsOf
    /\ isAllowed(u, "forum", Forum, "USE")
    /\ tagsOf' = [x \in DOMAIN tagsOf \cup {t} |->
                     IF x = t THEN {} ELSE tagsOf[x]]
    /\ AssignUnchecked(u, t, levels["thread"].value, levels["thread"].duration)
    /\ UNCHANGED <<policy, users, first, messages, required, levels, now>>

\* The creator, unless anonymous, is granted the default level and the grant
\* recorded.
addNewDiscussionThread(u, t) ==
    /\ Count
    /\ t \notin DOMAIN tagsOf
    /\ isAllowed(u, "forum", Forum, "USE")
    /\ tagsOf' = [x \in DOMAIN tagsOf \cup {t} |->
                     IF x = t THEN {} ELSE tagsOf[x]]
    /\ IF u = Anonymous THEN UNCHANGED <<grants, refused>>
       ELSE AssignUnchecked(u, t, levels["thread"].value,
                            levels["thread"].duration)
    /\ UNCHANGED <<policy, users, first, messages, required, levels, now>>

addNewDiscussionMessageInThread(u, t, m) ==
    /\ Count
    /\ t \in DOMAIN tagsOf
    /\ m \notin DOMAIN messages
    /\ isAllowed(u, "thread", t, "USE")
    /\ messages' = [x \in DOMAIN messages \cup {m} |->
                       IF x = m THEN [thread |-> t, author |-> u]
                       ELSE messages[x]]
    /\ IF u = Anonymous THEN UNCHANGED <<grants, refused>>
       ELSE AssignUnchecked(u, m, levels["message"].value,
                            levels["message"].duration)
    /\ UNCHANGED <<policy, users, first, tagsOf, required, levels, now>>

Tick ==
    /\ now < MaxClock
    /\ now' = now + 1
    /\ UNCHANGED <<policy, users, first, tagsOf, messages, required, grants,
                   levels, refused, commands>>
----------------------------------------------------------------------------
\* A forum with the accounts, threads and messages of its configuration: the
\* first account holds Top, required values are set forum-wide only.
Init ==
    /\ policy \in Policies
    /\ users = policy.users
    /\ first = policy.first
    /\ tagsOf = policy.tagsOf
    /\ messages = policy.messages
    /\ required = [k \in DOMAIN Holders |-> [e \in Holders[k] |->
                      [p \in Privilege |-> IF e = Forum THEN policy.required[p]
                                           ELSE Unset]]]
    /\ grants = IF first = NoUser THEN {}
                ELSE {[user |-> first, entity |-> Forum, value |-> Top,
                       expires |-> 0]}
    /\ levels = policy.levels
    /\ now = 1
    /\ refused = {}
    /\ commands = 0

Actors == users \cup {Anonymous}

ChangeRequired ==
    \E u \in Actors, p \in Privilege, v \in policy.values :
        \/ \E m \in Message \cap policy.open :
              changeDiscussionThreadMessageRequiredPrivilegeForThreadMessage(u, m, p, v)
        \/ \E t \in Thread \cap policy.open :
              \/ changeDiscussionThreadMessageRequiredPrivilegeForThread(u, t, p, v)
              \/ changeDiscussionThreadRequiredPrivilegeForThread(u, t, p, v)
        \/ \E g \in Tag \cap policy.open :
              \/ changeDiscussionThreadMessageRequiredPrivilegeForTag(u, g, p, v)
              \/ changeDiscussionThreadRequiredPrivilegeForTag(u, g, p, v)
              \/ changeDiscussionTagRequiredPrivilegeForTag(u, g, p, v)
        \/ \E c \in Category \cap policy.open :
              changeDiscussionCategoryRequiredPrivilegeForCategory(u, c, p, v)
        \/ /\ Forum \in policy.open
           /\ \/ changeDiscussionThreadMessageRequiredPrivilegeForumWide(u, p, v)
              \/ changeDiscussionThreadRequiredPrivilegeForumWide(u, p, v)
              \/ changeDiscussionTagRequiredPrivilegeForumWide(u, p, v)
              \/ changeDiscussionCategoryRequiredPrivilegeForumWide(u, p, v)
              \/ changeForumWideRequiredPrivilege(u, p, v)

AssignPrivilege ==
    \E u \in Actors, target \in User, v \in policy.values, d \in policy.durations :
        \/ \E m \in Message \cap policy.open :
              assignDiscussionThreadMessagePrivilege(u, m, target, v, d)
        \/ \E t \in Thread \cap policy.open :
              assignDiscussionThreadPrivilege(u, t, target, v, d)
        \/ \E g \in Tag \cap policy.open :
              assignDiscussionTagPrivilege(u, g, target, v, d)
        \/ \E c \in Category \cap policy.open :
              assignDiscussionCategoryPrivilege(u, c, target, v, d)
        \/ Forum \in policy.open /\ assignForumWidePrivilege(u, target, v, d)

ChangeContent ==
    \E u \in Actors :
        \/ \E l \in {"thread", "message"}, v \in policy.levelValues,
              d \in policy.levelDurations :
              changeForumWideDefaultPrivilegeLevel(u, l, v, d)
        \/ \E new \in User : addNewUser(u, new)
        \/ \E target \in User : deleteUser(u, target)
        \/ \E t \in Thread : addNewDiscussionThread(u, t)
        \/ \E t \in Thread, m \in Message : addNewDiscussionMessageInThread(u, t, m)

Next == ChangeRequired \/ AssignPrivilege \/ ChangeContent \/ Tick

Spec == Init /\ [][Next]_vars
----------------------------------------------------------------------------
(* Reading many messages of one thread at once.                             *)

MutantBatch(u, t) ==
    {m \in {x \in DOMAIN messages : messages[x].thread = t} :
        LET own == required["message"][m]["USE"]
            need == IF own # Unset THEN {own}
                    ELSE ThreadRequired("message", t, "USE")
        IN \A r \in need :
              Reaches(Positive(u, {m}) \cup Positive(u, ThreadScope(t)),
                      Negative(u, {m}), OrZero(r))}

\* What computeDiscussionThreadMessageVisibilityAllowed lets a user see: the
\* values of the thread are computed once and joined with each message's.
computeDiscussionThreadMessageVisibilityAllowed(u, t) ==
    LET threadPositive == Positive(u, ThreadScope(t))
        threadNegative == Negative(u, ThreadScope(t))
        threadRequired == ThreadRequired("message", t, "USE")
    IN {m \in {x \in DOMAIN messages : messages[x].thread = t} :
           LET own == required["message"][m]["USE"]
               need == IF own # Unset THEN {own} ELSE threadRequired
           IN \A r \in need :
                 Reaches(Positive(u, {m}) \cup threadPositive,
                         Negative(u, {m}) \cup threadNegative, OrZero(r))}
----------------------------------------------------------------------------
(* Properties.                                                              *)

\* However much is posted, no bonus loses bits.
BonusInRange ==
    \A n \in 0 .. Cardinality(Message) : policy.multiplier * n \in 0 .. Limit - 1

\* Whatever the others are granted and change, the account that was created
\* first is never deleted (deleteUser), keeps the highest value forum-wide
\* and meets every forum-wide requirement; nobody else reaches that value.  A
\* bonus that lost its high bits could be so negative that its sum with a
\* negative grant wraps around to the highest value.
FirstUserKeepsTheForum ==
    BonusInRange /\ first # NoUser =>
        /\ first \in users
        /\ Effective(first, Forum, Top)
        /\ \A k \in DOMAIN Holders, p \in Privilege :
               isAllowed(first, k, Forum, p)
        /\ \A u \in users \ {first} : ~Effective(u, Forum, Top)

\* The grants that come with the creation of a user, thread or message are
\* recorded without a look at their result (MemoryRepositoryDiscussionThread,
\* MemoryRepositoryDiscussionThreadMessage, MemoryRepositoryUser); the
\* importer stops at an event that it refuses.  It refuses a default level
\* that changeForumWideDefaultPrivilegeLevel should not have accepted, and
\* nothing else.
RecordedGrantsAreAccepted == refused \subseteq {"level"}

\* computeDiscussionThreadMessageVisibilityAllowed, which answers for all
\* messages of a thread at once, shows each user what isAllowed shows.
BatchAgreesWithSingle ==
    \A u \in Actors, t \in DOMAIN tagsOf :
        computeDiscussionThreadMessageVisibilityAllowed(u, t)
            = {m \in DOMAIN messages : /\ messages[m].thread = t
                                       /\ isAllowed(u, "message", m, "USE")}
=============================================================================
