------------------------------- MODULE Replay -------------------------------
(* Users, threads, messages, tags, categories and attachments, the events   *)
(* that commands record about them, and the import of these events at the   *)
(* next start.                                                              *)
(*                                                                          *)
(* A command and the importer call the same direct function of a            *)
(* repository: the command with the current time, user and address, the     *)
(* importer with those of the event.  What the event carries is read by     *)
(* EventObserver from the entity as it is after the change.                 *)
(*                                                                          *)
(* Removals, merges, votes, comments, private messages, privileges and      *)
(* counters are the subject of other modules; here their events are         *)
(* written and read without effect.  How events reach the disk is the       *)
(* subject of module EventPersistence.                                      *)
(*                                                                          *)
(* Identifiers and texts are strings: "" is the identifier of the anonymous *)
(* user, no identifier at all, an empty text, or no address.                *)
EXTENDS EventFormats, FiniteSets, SequencesExt

CONSTANTS
    Scenes,         \* configurations and bounds, see scene
    Ip,             \* the address that all requests come from
    Quota           \* defaultUserQuota of attachments

ASSUME AddressAssumption == Ip # "" /\ Quota \in Nat

\* Commands whose first or second value is a text that validateString wants not to
\* be empty.  The second value of ADD_NEW_USER is the authentication.
FirstIsText ==
    {"ADD_NEW_USER", "ADD_NEW_DISCUSSION_THREAD", "ADD_NEW_DISCUSSION_TAG",
     "ADD_NEW_DISCUSSION_CATEGORY", "ADD_NEW_ATTACHMENT"}
SecondIsText ==
    {"ADD_NEW_USER", "CHANGE_USER_NAME", "CHANGE_DISCUSSION_THREAD_NAME",
     "ADD_NEW_DISCUSSION_THREAD_MESSAGE", "CHANGE_DISCUSSION_THREAD_MESSAGE_CONTENT",
     "CHANGE_DISCUSSION_TAG_NAME", "CHANGE_DISCUSSION_CATEGORY_NAME",
     "CHANGE_ATTACHMENT_NAME"}

\* Generated identifiers are not empty.  The pin order of a thread is read with 16
\* bits, the display order of a category with as many as the machine prefers.
ASSUME ScenesAssumption ==
    \A s \in Scenes :
        /\ "" \notin s.ids["users"] \cup s.ids["categories"]
        /\ \A type \in DOMAIN s.asks : \A v \in s.asks[type] :
               /\ type \in FirstIsText => v[1] # ""
               /\ type \in SecondIsText => v[2] # ""
               /\ type = "CHANGE_DISCUSSION_CATEGORY_DISPLAY_ORDER" =>
                      v[2] \in Int
               /\ type = "CHANGE_DISCUSSION_THREAD_PIN_DISPLAY_ORDER" =>
                      v[2] \in UnsignedShort

VARIABLES
    scene,      \* what is asked for, how often, and the configuration
    phase,      \* "serving", "importing" or "refused"
    now,        \* Context::getCurrentTime()
    db,         \* the entity collection
    stopped,    \* history: the collection when the program stopped last
    log,        \* the events on disk
    imported,   \* number of events imported so far
    served,     \* number of commands served
    restarts    \* number of times that the program was stopped

vars == <<scene, phase, now, db, stopped, log, imported, served, restarts>>

NoEntity == [id \in {} |-> <<>>]
Kind == {"users", "threads", "messages", "tags", "categories", "attachments"}

\* The collection; subscribedThreads relates users, the anonymous one
\* included, to threads.
EmptyDb ==
    [users |-> NoEntity, threads |-> NoEntity, messages |-> NoEntity,
     tags |-> NoEntity, categories |-> NoEntity, attachments |-> NoEntity,
     subscribedThreads |-> {}]

Init ==
    /\ scene \in Scenes
    /\ phase = "serving"
    /\ now = 1
    /\ db = EmptyDb /\ stopped = EmptyDb
    /\ log = <<>> /\ imported = 0 /\ served = 0 /\ restarts = 0
----------------------------------------------------------------------------
(* The direct functions.  Each returns a status and the collection.  A      *)
(* context c has the time, the user and the address of a command or of an   *)
(* event.                                                                   *)

Result(status, d) == [status |-> status, db |-> d]
Ok(d) == Result("OK", d)

\* The current user; one that does not exist is anonymous.
getCurrentUser(d, c) == IF c.by \in DOMAIN d.users THEN c.by ELSE ""

\* All entities have: who created and updated them (by), when (at), from where (ip).
Dates(created, updated, visible) ==
    [created |-> created, updated |-> updated, visible |-> visible]
Pair(created, updated) == [created |-> created, updated |-> updated]

\* An identifier that is there already keeps its entity.
Insert(d, kind, id, e) ==
    Ok([d EXCEPT ![kind] = [x \in DOMAIN d[kind] \cup {id} |->
                               IF x \in DOMAIN d[kind] THEN d[kind][x] ELSE e]])

Taken(d, kind, name) == \E id \in DOMAIN d[kind] : d[kind][id].name = name

\* A function that looks an entity up and changes it.
Change(d, kind, id, e(_)) ==
    IF id \in DOMAIN d[kind] THEN Ok([d EXCEPT ![kind][id] = e(d[kind][id])])
    ELSE Result("NOT_FOUND", d)

\* The same, without effect when the value is there already.
ChangeUnlessSame(d, kind, id, field, value, e(_)) ==
    IF id \in DOMAIN d[kind] /\ d[kind][id][field] = value
    THEN Result("NO_EFFECT", d) ELSE Change(d, kind, id, e)

updateLastUpdated(e, d, c) ==
    [e EXCEPT !.at.updated = c.time, !.ip.updated = c.ip,
              !.by.updated = getCurrentUser(d, c)]

updateThreadLastUpdated(e, d, c) ==
    [updateLastUpdated(e, d, c) EXCEPT !.at.visible = c.time]

\* Users.
addNewUser(d, c, id, name, auth) ==
    IF \E u \in DOMAIN d.users : d.users[u].auth = auth
    THEN Result("USER_WITH_SAME_AUTH_ALREADY_EXISTS", d)
    ELSE IF Taken(d, "users", name) THEN Result("ALREADY_EXISTS", d)
    ELSE Insert(d, "users", id,
                [name |-> name, auth |-> auth, info |-> "", title |-> "",
                 signature |-> "", logo |-> "", quota |-> Quota,
                 quoteHistory |-> <<>>, at |-> Dates(c.time, 0, 0),
                 by |-> Pair(getCurrentUser(d, c), ""), ip |-> Pair(c.ip, "")])

changeUserName(d, c, id, newName) ==
    IF id \in DOMAIN d.users /\ Taken(d, "users", newName)
    THEN Result("ALREADY_EXISTS", d)
    ELSE Change(d, "users", id, LAMBDA u : [u EXCEPT !.name = newName])

changeUserInfo(d, c, id, new) ==
    Change(d, "users", id, LAMBDA u : [u EXCEPT !.info = new])

changeUserTitle(d, c, id, new) ==
    Change(d, "users", id, LAMBDA u : [u EXCEPT !.title = new])

changeUserSignature(d, c, id, new) ==
    Change(d, "users", id, LAMBDA u : [u EXCEPT !.signature = new])

changeUserLogo(d, c, id, new) ==
    Change(d, "users", id, LAMBDA u : [u EXCEPT !.logo = new])

deleteUserLogo(d, c, id) ==
    Change(d, "users", id, LAMBDA u : [u EXCEPT !.logo = ""])

changeUserAttachmentQuota(d, c, id, new) ==
    Change(d, "users", id, LAMBDA u : [u EXCEPT !.quota = new])

\* Threads.
addNewDiscussionThread(d, c, id, name, approved) ==
    Insert(d, "threads", id,
           [name |-> name, pinDisplayOrder |-> 0, approved |-> approved,
            subscribedUsers |-> {}, at |-> Dates(c.time, c.time, c.time),
            by |-> Pair(getCurrentUser(d, c), ""), ip |-> Pair(c.ip, "")])

changeDiscussionThreadName(d, c, id, new) ==
    Change(d, "threads", id,
           LAMBDA t : updateThreadLastUpdated([t EXCEPT !.name = new], d, c))

\* The thread has 14 bits for it.
changeDiscussionThreadPinDisplayOrder(d, c, id, new) ==
    Change(d, "threads", id,
           LAMBDA t : updateThreadLastUpdated(
               [t EXCEPT !.pinDisplayOrder = new % 16384], d, c))

changeDiscussionThreadApproval(d, c, id, new) ==
    Change(d, "threads", id,
           LAMBDA t : updateThreadLastUpdated([t EXCEPT !.approved = new], d, c))

subscribeToDiscussionThread(d, c, id) ==
    LET u == getCurrentUser(d, c)
    IN IF id \notin DOMAIN d.threads THEN Result("NOT_FOUND", d)
       ELSE IF u \in d.threads[id].subscribedUsers THEN Result("NO_EFFECT", d)
       ELSE Ok([d EXCEPT !.threads[id].subscribedUsers = @ \cup {u},
                         !.subscribedThreads = @ \cup {<<u, id>>}])

unsubscribeFromDiscussionThread(d, c, id) ==
    LET u == getCurrentUser(d, c)
    IN IF id \notin DOMAIN d.threads THEN Result("NOT_FOUND", d)
       ELSE IF u \notin d.threads[id].subscribedUsers THEN Result("NO_EFFECT", d)
       ELSE Ok([d EXCEPT !.threads[id].subscribedUsers = @ \ {u},
                         !.subscribedThreads = @ \ {<<u, id>>}])

\* Messages.  The author follows the thread; in the list of the thread the
\* anonymous user does not appear.
addNewDiscussionMessageInThread(d, c, id, thread, approved, content) ==
    LET u == getCurrentUser(d, c)
    IN IF thread \notin DOMAIN d.threads THEN Result("NOT_FOUND", d)
       ELSE Insert([d EXCEPT !.threads[thread].at.visible = c.time,
                             !.threads[thread].subscribedUsers = @ \cup ({u} \ {""}),
                             !.subscribedThreads = @ \cup {<<u, thread>>}],
                   "messages", id,
                   [thread |-> thread, content |-> content, approved |-> approved,
                    reason |-> "", at |-> Dates(c.time, 0, 0),
                    by |-> Pair(u, ""), ip |-> Pair(c.ip, "")])

MutantContent(d, c, id, new, reason) ==
    IF id \notin DOMAIN d.messages THEN Result("NOT_FOUND", d)
    ELSE LET m == d.messages[id]
             editor == IF getCurrentUser(d, c) = m.by.created THEN m.by.updated
                       ELSE getCurrentUser(d, c)
         IN Ok([d EXCEPT !.messages[id] =
                   [m EXCEPT !.content = new, !.reason = reason,
                             !.at.updated = now, !.ip.updated = c.ip,
                             !.by.updated = editor],
                !.threads[m.thread].at.visible = now])

\* The editor is recorded unless he is the author.
changeDiscussionThreadMessageContent(d, c, id, new, reason) ==
    IF id \notin DOMAIN d.messages THEN Result("NOT_FOUND", d)
    ELSE LET m == d.messages[id]
             editor == IF getCurrentUser(d, c) = m.by.created THEN m.by.updated
                       ELSE getCurrentUser(d, c)
         IN Ok([d EXCEPT !.messages[id] =
                   [m EXCEPT !.content = new, !.reason = reason,
                             !.at.updated = c.time, !.ip.updated = c.ip,
                             !.by.updated = editor],
                !.threads[m.thread].at.visible = c.time])

changeDiscussionThreadMessageApproval(d, c, id, new) ==
    ChangeUnlessSame(d, "messages", id, "approved", new,
                     LAMBDA m : [m EXCEPT !.approved = new])

quoteUserInMessage(d, message, user) ==
    Change(d, "users", user,
           LAMBDA u : [u EXCEPT !.quoteHistory = Append(@, message)])

\* Tags.
addNewDiscussionTag(d, c, id, name) ==
    IF Taken(d, "tags", name) THEN Result("ALREADY_EXISTS", d)
    ELSE Insert(d, "tags", id,
                [name |-> name, uiBlob |-> "", at |-> Dates(c.time, 0, 0),
                 by |-> Pair("", ""), ip |-> Pair(c.ip, "")])

changeDiscussionTagName(d, c, id, new) ==
    Change(d, "tags", id,
           LAMBDA t : updateLastUpdated([t EXCEPT !.name = new], d, c))

changeDiscussionTagUiBlob(d, c, id, new) ==
    Change(d, "tags", id, LAMBDA t : [t EXCEPT !.uiBlob = new])

\* Categories.
addNewDiscussionCategory(d, c, id, name, parent) ==
    IF Taken(d, "categories", name) THEN Result("ALREADY_EXISTS", d)
    ELSE Insert(d, "categories", id,
                [name |-> name, description |-> "", displayOrder |-> 0,
                 parent |-> IF parent \in DOMAIN d.categories THEN parent ELSE "",
                 at |-> Dates(c.time, 0, 0), by |-> Pair("", ""),
                 ip |-> Pair(c.ip, "")])

changeDiscussionCategoryName(d, c, id, new) ==
    IF id \in DOMAIN d.categories /\ Taken(d, "categories", new)
    THEN Result("ALREADY_EXISTS", d)
    ELSE Change(d, "categories", id,
                LAMBDA x : updateLastUpdated([x EXCEPT !.name = new], d, c))

changeDiscussionCategoryDescription(d, c, id, new) ==
    Change(d, "categories", id,
           LAMBDA x : updateLastUpdated([x EXCEPT !.description = new], d, c))

NotNegative(n) == IF n < 0 THEN 0 ELSE n

changeDiscussionCategoryDisplayOrder(d, c, id, new) ==
    Change(d, "categories", id,
           LAMBDA x : updateLastUpdated(
               [x EXCEPT !.displayOrder = NotNegative(new)], d, c))

hasAncestor(parentOf, category, ancestor) ==
    LET above[x \in DOMAIN parentOf] ==
            parentOf[x] # "" /\ (parentOf[x] = ancestor \/ above[parentOf[x]])
    IN above[category]

ParentOf(d) == [x \in DOMAIN d.categories |-> d.categories[x].parent]

\* A parent that does not exist makes the category one of the root.
changeDiscussionCategoryParent(d, c, id, newParent) ==
    IF id \notin DOMAIN d.categories THEN Result("NOT_FOUND", d)
    ELSE IF newParent \in DOMAIN d.categories /\ hasAncestor(ParentOf(d), newParent, id)
    THEN Result("CIRCULAR_REFERENCE_NOT_ALLOWED", d)
    ELSE IF newParent # "" /\ d.categories[id].parent = newParent
    THEN Result("NO_EFFECT", d)
    ELSE Change(d, "categories", id,
                LAMBDA x : updateLastUpdated(
                    [x EXCEPT !.parent = IF newParent \in DOMAIN d.categories
                                         THEN newParent ELSE ""], d, c))

\* Attachments.
addNewAttachment(d, c, id, name, size, approved) ==
    Insert(d, "attachments", id,
           [name |-> name, size |-> size, approved |-> approved,
            at |-> Dates(c.time, 0, 0), by |-> Pair(getCurrentUser(d, c), ""),
            ip |-> Pair(c.ip, "")])

changeAttachmentName(d, c, id, new) ==
    Change(d, "attachments", id, LAMBDA a : [a EXCEPT !.name = new])

changeAttachmentApproval(d, c, id, new) ==
    ChangeUnlessSame(d, "attachments", id, "approved", new,
                     LAMBDA a : [a EXCEPT !.approved = new])
----------------------------------------------------------------------------
(* EventImporter: what each import function does with the values it read.   *)

ImportUserEvent(type, d, c, v) ==
    CASE type = "ADD_NEW_USER" -> addNewUser(d, c, v[1], v[3], v[2])
      [] type = "CHANGE_USER_NAME" -> changeUserName(d, c, v[1], v[2])
      [] type = "CHANGE_USER_INFO" -> changeUserInfo(d, c, v[1], v[2])
      [] type = "CHANGE_USER_TITLE" -> changeUserTitle(d, c, v[1], v[2])
      [] type = "CHANGE_USER_SIGNATURE" -> changeUserSignature(d, c, v[1], v[2])
      [] type = "CHANGE_USER_LOGO" -> changeUserLogo(d, c, v[1], v[2])
      [] type = "CHANGE_USER_ATTACHMENT_QUOTA" ->
             changeUserAttachmentQuota(d, c, v[1], v[2])

ImportThreadEvent(type, d, c, v) ==
    CASE type = "ADD_NEW_DISCUSSION_THREAD" ->
             addNewDiscussionThread(d, c, v[1], v[2], v[3] # 0)
      [] type = "CHANGE_DISCUSSION_THREAD_NAME" ->
             changeDiscussionThreadName(d, c, v[1], v[2])
      [] type = "CHANGE_DISCUSSION_THREAD_PIN_DISPLAY_ORDER" ->
             changeDiscussionThreadPinDisplayOrder(d, c, v[1], v[2])
      [] type = "CHANGE_DISCUSSION_THREAD_APPROVAL" ->
             changeDiscussionThreadApproval(d, c, v[1], v[2] # 0)
      [] type = "SUBSCRIBE_TO_DISCUSSION_THREAD" ->
             subscribeToDiscussionThread(d, c, v[1])
      [] type = "UNSUBSCRIBE_FROM_DISCUSSION_THREAD" ->
             unsubscribeFromDiscussionThread(d, c, v[1])

ImportMessageEvent(type, d, c, v) ==
    CASE type = "ADD_NEW_DISCUSSION_THREAD_MESSAGE" ->
             addNewDiscussionMessageInThread(d, c, v[1], v[2], v[3] # 0, v[4])
      [] type = "CHANGE_DISCUSSION_THREAD_MESSAGE_CONTENT" ->
             changeDiscussionThreadMessageContent(d, c, v[1], v[2], v[3])
      [] type = "CHANGE_DISCUSSION_THREAD_MESSAGE_APPROVAL" ->
             changeDiscussionThreadMessageApproval(d, c, v[1], v[2] # 0)
      [] type = "QUOTE_USER_IN_DISCUSSION_THREAD_MESSAGE" ->
             quoteUserInMessage(d, v[1], v[2])

ImportTagOrCategoryEvent(type, d, c, v) ==
    CASE type = "ADD_NEW_DISCUSSION_TAG" -> addNewDiscussionTag(d, c, v[1], v[2])
      [] type = "CHANGE_DISCUSSION_TAG_NAME" ->
             changeDiscussionTagName(d, c, v[1], v[2])
      [] type = "CHANGE_DISCUSSION_TAG_UI_BLOB" ->
             changeDiscussionTagUiBlob(d, c, v[1], v[2])
      [] type = "ADD_NEW_DISCUSSION_CATEGORY" ->
             addNewDiscussionCategory(d, c, v[1], v[3], v[2])
      [] type = "CHANGE_DISCUSSION_CATEGORY_NAME" ->
             changeDiscussionCategoryName(d, c, v[1], v[2])
      [] type = "CHANGE_DISCUSSION_CATEGORY_DESCRIPTION" ->
             changeDiscussionCategoryDescription(d, c, v[1], v[2])
      [] type = "CHANGE_DISCUSSION_CATEGORY_DISPLAY_ORDER" ->
             changeDiscussionCategoryDisplayOrder(d, c, v[1], v[2])
      [] type = "CHANGE_DISCUSSION_CATEGORY_PARENT" ->
             changeDiscussionCategoryParent(d, c, v[1], v[2])

ImportAttachmentEvent(type, d, c, v) ==
    CASE type = "ADD_NEW_ATTACHMENT" ->
             addNewAttachment(d, c, v[1], v[2], v[3], v[4] = 1)
      [] type = "CHANGE_ATTACHMENT_NAME" -> changeAttachmentName(d, c, v[1], v[2])
      [] type = "CHANGE_ATTACHMENT_APPROVAL" ->
             changeAttachmentApproval(d, c, v[1], v[2] # 0)

UserEvent ==
    {"ADD_NEW_USER", "CHANGE_USER_NAME", "CHANGE_USER_INFO", "CHANGE_USER_TITLE",
     "CHANGE_USER_SIGNATURE", "CHANGE_USER_LOGO", "CHANGE_USER_ATTACHMENT_QUOTA"}
ThreadEvent ==
    {"ADD_NEW_DISCUSSION_THREAD", "CHANGE_DISCUSSION_THREAD_NAME",
     "CHANGE_DISCUSSION_THREAD_PIN_DISPLAY_ORDER",
     "CHANGE_DISCUSSION_THREAD_APPROVAL", "SUBSCRIBE_TO_DISCUSSION_THREAD",
     "UNSUBSCRIBE_FROM_DISCUSSION_THREAD"}
MessageEvent ==
    {"ADD_NEW_DISCUSSION_THREAD_MESSAGE", "CHANGE_DISCUSSION_THREAD_MESSAGE_CONTENT",
     "CHANGE_DISCUSSION_THREAD_MESSAGE_APPROVAL",
     "QUOTE_USER_IN_DISCUSSION_THREAD_MESSAGE"}
TagOrCategoryEvent ==
    {"ADD_NEW_DISCUSSION_TAG", "CHANGE_DISCUSSION_TAG_NAME",
     "CHANGE_DISCUSSION_TAG_UI_BLOB", "ADD_NEW_DISCUSSION_CATEGORY",
     "CHANGE_DISCUSSION_CATEGORY_NAME", "CHANGE_DISCUSSION_CATEGORY_DESCRIPTION",
     "CHANGE_DISCUSSION_CATEGORY_DISPLAY_ORDER", "CHANGE_DISCUSSION_CATEGORY_PARENT"}
AttachmentEvent ==
    {"ADD_NEW_ATTACHMENT", "CHANGE_ATTACHMENT_NAME", "CHANGE_ATTACHMENT_APPROVAL"}

\* The types whose effect is the subject of other modules.
OtherEvent ==
    Range(EventType) \ (UserEvent \cup ThreadEvent \cup MessageEvent
                        \cup TagOrCategoryEvent \cup AttachmentEvent)

Import(type, d, c, v) ==
    CASE type \in UserEvent -> ImportUserEvent(type, d, c, v)
      [] type \in ThreadEvent -> ImportThreadEvent(type, d, c, v)
      [] type \in MessageEvent -> ImportMessageEvent(type, d, c, v)
      [] type \in TagOrCategoryEvent -> ImportTagOrCategoryEvent(type, d, c, v)
      [] type \in AttachmentEvent -> ImportAttachmentEvent(type, d, c, v)
      [] OTHER -> Ok(d)
----------------------------------------------------------------------------
(* EventObserver: what an event tells of an entity, read after the change.  *)

Flag(b) == IF b THEN 1 ELSE 0

UserPayload(type, id, u) ==
    CASE type = "ADD_NEW_USER" -> <<id, u.auth, u.name>>
      [] type = "CHANGE_USER_NAME" -> <<id, u.name>>
      [] type = "CHANGE_USER_INFO" -> <<id, u.info>>
      [] type = "CHANGE_USER_TITLE" -> <<id, u.title>>
      [] type = "CHANGE_USER_SIGNATURE" -> <<id, u.signature>>
      [] type = "CHANGE_USER_LOGO" -> <<id, u.logo>>
      [] type = "CHANGE_USER_ATTACHMENT_QUOTA" -> <<id, u.quota>>

ThreadPayload(type, id, t) ==
    CASE type = "ADD_NEW_DISCUSSION_THREAD" -> <<id, t.name, Flag(t.approved)>>
      [] type = "CHANGE_DISCUSSION_THREAD_NAME" -> <<id, t.name>>
      [] type = "CHANGE_DISCUSSION_THREAD_PIN_DISPLAY_ORDER" ->
             <<id, t.pinDisplayOrder>>
      [] type = "CHANGE_DISCUSSION_THREAD_APPROVAL" -> <<id, Flag(t.approved)>>
      [] OTHER -> <<id>>

MessagePayload(type, id, m) ==
    CASE type = "ADD_NEW_DISCUSSION_THREAD_MESSAGE" ->
             <<id, m.thread, Flag(m.approved), m.content>>
      [] type = "CHANGE_DISCUSSION_THREAD_MESSAGE_CONTENT" ->
             <<id, m.content, m.reason>>
      [] type = "CHANGE_DISCUSSION_THREAD_MESSAGE_APPROVAL" -> <<id, Flag(m.approved)>>

MutantTagPayload(type, id, t) == <<id, t.name>>

TagPayload(type, id, t) ==
    IF type = "CHANGE_DISCUSSION_TAG_UI_BLOB" THEN <<id, t.uiBlob>> ELSE <<id, t.name>>

CategoryPayload(type, id, x) ==
    CASE type = "ADD_NEW_DISCUSSION_CATEGORY" -> <<id, x.parent, x.name>>
      [] type = "CHANGE_DISCUSSION_CATEGORY_NAME" -> <<id, x.name>>
      [] type = "CHANGE_DISCUSSION_CATEGORY_DESCRIPTION" -> <<id, x.description>>
      [] type = "CHANGE_DISCUSSION_CATEGORY_DISPLAY_ORDER" -> <<id, x.displayOrder>>
      [] type = "CHANGE_DISCUSSION_CATEGORY_PARENT" -> <<id, x.parent>>

AttachmentPayload(type, id, a) ==
    CASE type = "ADD_NEW_ATTACHMENT" -> <<id, a.name, a.size, Flag(a.approved)>>
      [] type = "CHANGE_ATTACHMENT_NAME" -> <<id, a.name>>
      [] type = "CHANGE_ATTACHMENT_APPROVAL" -> <<id, Flag(a.approved)>>

\* An event of the type has n values, and the importer refuses empty text only in
\* these places.
Carries(type, n, texts) ==
    LET w == Written[type]
    IN /\ type \in Range(EventType)
       /\ Len(w.fields) = n
       /\ \A i \in 1 .. n : Read[type][w.version][i] = "nonempty" => i \in texts

\* The payloads have as many values as are written.  Only the display order of a
\* category is cut.
ASSUME PayloadsAssumption ==
    /\ \A type \in Range(EventType) : \A i \in 1 .. Len(Written[type].fields) :
           Written[type].fields[i] = "i16" =>
               type = "CHANGE_DISCUSSION_CATEGORY_DISPLAY_ORDER" /\ i = 2
    /\ Written["CHANGE_DISCUSSION_CATEGORY_DISPLAY_ORDER"].fields[2] = "i16"
    /\ \A type \in {"CHANGE_USER_NAME", "CHANGE_DISCUSSION_THREAD_NAME",
                    "ADD_NEW_DISCUSSION_TAG", "CHANGE_DISCUSSION_TAG_NAME",
                    "CHANGE_DISCUSSION_CATEGORY_NAME", "CHANGE_ATTACHMENT_NAME"} :
           Carries(type, 2, {2})
    /\ \A type \in {"CHANGE_USER_INFO", "CHANGE_USER_TITLE", "CHANGE_USER_SIGNATURE",
                    "CHANGE_USER_LOGO", "CHANGE_USER_ATTACHMENT_QUOTA",
                    "CHANGE_DISCUSSION_THREAD_PIN_DISPLAY_ORDER",
                    "CHANGE_DISCUSSION_THREAD_APPROVAL",
                    "CHANGE_DISCUSSION_THREAD_MESSAGE_APPROVAL",
                    "QUOTE_USER_IN_DISCUSSION_THREAD_MESSAGE",
                    "CHANGE_DISCUSSION_TAG_UI_BLOB",
                    "CHANGE_DISCUSSION_CATEGORY_DESCRIPTION",
                    "CHANGE_DISCUSSION_CATEGORY_DISPLAY_ORDER",
                    "CHANGE_DISCUSSION_CATEGORY_PARENT", "CHANGE_ATTACHMENT_APPROVAL"} :
           Carries(type, 2, {})
    /\ \A type \in {"SUBSCRIBE_TO_DISCUSSION_THREAD",
                    "UNSUBSCRIBE_FROM_DISCUSSION_THREAD"} : Carries(type, 1, {})
    /\ Carries("ADD_NEW_USER", 3, {2, 3})
    /\ Carries("ADD_NEW_DISCUSSION_THREAD", 3, {2})
    /\ Carries("ADD_NEW_DISCUSSION_CATEGORY", 3, {3})
    /\ Carries("CHANGE_DISCUSSION_THREAD_MESSAGE_CONTENT", 3, {2})
    /\ Carries("ADD_NEW_DISCUSSION_THREAD_MESSAGE", 4, {4})
    /\ Carries("ADD_NEW_ATTACHMENT", 4, {2})
    /\ Carries("ASSIGN_FORUM_WIDE_PRIVILEGE", 3, {})
    /\ \A type \in {"ASSIGN_DISCUSSION_THREAD_PRIVILEGE",
                    "ASSIGN_DISCUSSION_THREAD_MESSAGE_PRIVILEGE"} : Carries(type, 4, {})
----------------------------------------------------------------------------
(* Commands.  A scene says what is asked for: for each type of event the    *)
(* values of the parameters, identifiers of new entities aside.  Whether a  *)
(* user may do so is the subject of module Privileges.                      *)

Caller == DOMAIN db.users \cup {""}

\* A parameter list that the scene has for a command.
Asked(type) == IF type \in DOMAIN scene.asks THEN scene.asks[type] ELSE {}

\* generateUniqueId()
NewId(kind) == CHOOSE id \in scene.ids[kind] : id \notin DOMAIN db[kind]
Room(kind) == scene.ids[kind] \ DOMAIN db[kind] # {}

\* The context of the direct function that a command calls.
Current(by) == [time |-> now, by |-> by, ip |-> Ip]

Event(type, values) == [type |-> type, values |-> values]

\* The effect r of a direct function, and the events that follow: their
\* context reads the clock again.
Commit(by, r, events) ==
    /\ phase = "serving" /\ served < scene.commands
    /\ r.status = "OK"
    /\ served' = served + 1
    /\ db' = r.db
    /\ \E t \in {now, now + 1} :
           /\ now' = t
           /\ log' = log \o [i \in 1 .. Len(events) |->
                 Encode(events[i].type,
                        [time |-> t, by |-> by,
                         ip |-> IF scene.persistIPAddresses THEN Ip ELSE ""],
                        events[i].values)]
    /\ UNCHANGED <<scene, phase, stopped, imported, restarts>>

MaxPrivilegeValue == 32000

\* Only visitors register.  The first one to do so is granted everything.
AddNewUser ==
    \E v \in Asked("ADD_NEW_USER") :
        LET id == NewId("users")
            r == addNewUser(db, Current(""), id, v[1], v[2])
        IN /\ Room("users") /\ r.status = "OK"
           /\ Commit("", r,
                 <<Event("ADD_NEW_USER", UserPayload("ADD_NEW_USER", id, r.db.users[id]))>>
                 \o IF Cardinality(DOMAIN r.db.users) = 1
                    THEN <<Event("ASSIGN_FORUM_WIDE_PRIVILEGE", <<id, MaxPrivilegeValue, 0>>)>>
                    ELSE <<>>)

ChangeUser ==
    \E type \in UserEvent \ {"ADD_NEW_USER"}, by \in Caller :
        \E v \in Asked(type) :
            LET r == ImportUserEvent(type, db, Current(by), v)
            IN /\ r.status = "OK"
               /\ Commit(by, r, <<Event(type, UserPayload(type, v[1], r.db.users[v[1]]))>>)

DeleteUserLogo ==
    \E id \in DOMAIN db.users, by \in Caller :
        LET r == deleteUserLogo(db, Current(by), id)
            type == "CHANGE_USER_LOGO"
        IN /\ Asked(type) # {}
           /\ Commit(by, r, <<Event(type, UserPayload(type, id, r.db.users[id]))>>)

\* The author is granted a privilege on the thread when there is a default level.
AddNewDiscussionThread ==
    \E v \in Asked("ADD_NEW_DISCUSSION_THREAD"), by \in Caller, approved \in BOOLEAN :
        LET id == NewId("threads")
            r == addNewDiscussionThread(db, Current(by), id, v[1], approved)
        IN /\ Room("threads")
           /\ Commit(by, r,
                 <<Event("ADD_NEW_DISCUSSION_THREAD",
                         ThreadPayload("ADD_NEW_DISCUSSION_THREAD", id, r.db.threads[id]))>>
                 \o IF by # "" /\ scene.defaultLevel
                    THEN <<Event("ASSIGN_DISCUSSION_THREAD_PRIVILEGE", <<id, by, 1, 0>>)>>
                    ELSE <<>>)

ChangeDiscussionThread ==
    \E type \in ThreadEvent \ {"ADD_NEW_DISCUSSION_THREAD"}, by \in Caller :
        \E v \in Asked(type) :
            LET r == ImportThreadEvent(type, db, Current(by), v)
            IN /\ r.status = "OK"
               /\ by = "" => type \notin {"SUBSCRIBE_TO_DISCUSSION_THREAD",
                                          "UNSUBSCRIBE_FROM_DISCUSSION_THREAD"}
               /\ Commit(by, r,
                         <<Event(type, ThreadPayload(type, v[1], r.db.threads[v[1]]))>>)

\* extractUuidReferences
Mentioned(text) == IF text \in DOMAIN scene.mentions THEN scene.mentions[text] ELSE {}

\* Quotes the users that exist.
Quote(d, message, users) ==
    [d EXCEPT !.users = [u \in DOMAIN @ |->
        IF u \in users THEN quoteUserInMessage(d, message, u).db.users[u] ELSE @[u]]]

QuoteEvents(d, message, users) ==
    LET quoted == SetToSeq(users \cap DOMAIN d.users)
    IN [i \in 1 .. Len(quoted) |->
           Event("QUOTE_USER_IN_DISCUSSION_THREAD_MESSAGE", <<message, quoted[i]>>)]

AddNewDiscussionMessageInThread ==
    \E v \in Asked("ADD_NEW_DISCUSSION_THREAD_MESSAGE"), by \in Caller,
       approved \in BOOLEAN :
        LET id == NewId("messages")
            type == "ADD_NEW_DISCUSSION_THREAD_MESSAGE"
            r == addNewDiscussionMessageInThread(db, Current(by), id, v[1], approved, v[2])
            alreadySubscribed == <<by, v[1]>> \in db.subscribedThreads
        IN /\ Room("messages") /\ r.status = "OK"
           /\ Commit(by, Ok(Quote(r.db, id, Mentioned(v[2]))),
                 <<Event(type, MessagePayload(type, id, r.db.messages[id]))>>
                 \o (IF alreadySubscribed THEN <<>>
                     ELSE <<Event("SUBSCRIBE_TO_DISCUSSION_THREAD", <<v[1]>>)>>)
                 \o (IF by # "" /\ scene.defaultLevel
                     THEN <<Event("ASSIGN_DISCUSSION_THREAD_MESSAGE_PRIVILEGE",
                                  <<id, by, 1, 0>>)>>
                     ELSE <<>>)
                 \o QuoteEvents(r.db, id, Mentioned(v[2])))

\* The users that the text mentioned before are looked up in the new text.
ChangeDiscussionThreadMessageContent ==
    \E v \in Asked("CHANGE_DISCUSSION_THREAD_MESSAGE_CONTENT"), by \in Caller :
        LET type == "CHANGE_DISCUSSION_THREAD_MESSAGE_CONTENT"
            r == changeDiscussionThreadMessageContent(db, Current(by), v[1], v[2], v[3])
            quoted == Mentioned(v[2]) \ Mentioned(r.db.messages[v[1]].content)
        IN /\ r.status = "OK"
           /\ Commit(by, Ok(Quote(r.db, v[1], quoted)),
                 QuoteEvents(r.db, v[1], quoted)
                 \o <<Event(type, MessagePayload(type, v[1], r.db.messages[v[1]]))>>)

ChangeDiscussionThreadMessageApproval ==
    \E v \in Asked("CHANGE_DISCUSSION_THREAD_MESSAGE_APPROVAL"), by \in Caller :
        LET type == "CHANGE_DISCUSSION_THREAD_MESSAGE_APPROVAL"
            r == ImportMessageEvent(type, db, Current(by), v)
        IN /\ r.status = "OK"
           /\ Commit(by, r, <<Event(type, MessagePayload(type, v[1], r.db.messages[v[1]]))>>)

AddNewDiscussionTag ==
    \E v \in Asked("ADD_NEW_DISCUSSION_TAG"), by \in Caller :
        LET id == NewId("tags")
            type == "ADD_NEW_DISCUSSION_TAG"
            r == addNewDiscussionTag(db, Current(by), id, v[1])
        IN /\ Room("tags") /\ r.status = "OK"
           /\ Commit(by, r, <<Event(type, TagPayload(type, id, r.db.tags[id]))>>)

\* That the new name is free is checked here, not by the direct function.
ChangeDiscussionTag ==
    \E type \in {"CHANGE_DISCUSSION_TAG_NAME", "CHANGE_DISCUSSION_TAG_UI_BLOB"},
       by \in Caller :
        \E v \in Asked(type) :
            LET r == ImportTagOrCategoryEvent(type, db, Current(by), v)
            IN /\ type = "CHANGE_DISCUSSION_TAG_NAME" => ~Taken(db, "tags", v[2])
               /\ r.status = "OK"
               /\ Commit(by, r, <<Event(type, TagPayload(type, v[1], r.db.tags[v[1]]))>>)

AddNewDiscussionCategory ==
    \E v \in Asked("ADD_NEW_DISCUSSION_CATEGORY"), by \in Caller :
        LET id == NewId("categories")
            type == "ADD_NEW_DISCUSSION_CATEGORY"
            r == addNewDiscussionCategory(db, Current(by), id, v[1], v[2])
        IN /\ Room("categories") /\ r.status = "OK"
           /\ Commit(by, r, <<Event(type, CategoryPayload(type, id, r.db.categories[id]))>>)

ChangeDiscussionCategory ==
    \E type \in {"CHANGE_DISCUSSION_CATEGORY_NAME",
                 "CHANGE_DISCUSSION_CATEGORY_DESCRIPTION",
                 "CHANGE_DISCUSSION_CATEGORY_DISPLAY_ORDER",
                 "CHANGE_DISCUSSION_CATEGORY_PARENT"}, by \in Caller :
        \E v \in Asked(type) :
            LET r == ImportTagOrCategoryEvent(type, db, Current(by), v)
            IN /\ type = "CHANGE_DISCUSSION_CATEGORY_DISPLAY_ORDER" => v[2] >= 0
               /\ type = "CHANGE_DISCUSSION_CATEGORY_PARENT" => v[1] # v[2]
               /\ r.status = "OK"
               /\ Commit(by, r,
                     <<Event(type, CategoryPayload(type, v[1], r.db.categories[v[1]]))>>)

\* Users have a quota; visitors add nothing.
AddNewAttachment ==
    \E v \in Asked("ADD_NEW_ATTACHMENT"), by \in DOMAIN db.users, approved \in BOOLEAN :
        LET id == NewId("attachments")
            type == "ADD_NEW_ATTACHMENT"
            r == addNewAttachment(db, Current(by), id, v[1], v[2], approved)
            own == {a \in DOMAIN db.attachments : db.attachments[a].by.created = by}
        IN /\ Room("attachments")
           /\ FoldSet(LAMBDA a, n : n + db.attachments[a].size, v[2], own)
                  <= db.users[by].quota
           /\ Commit(by, r, <<Event(type, AttachmentPayload(type, id, r.db.attachments[id]))>>)

ChangeAttachment ==
    \E type \in AttachmentEvent \ {"ADD_NEW_ATTACHMENT"}, by \in Caller :
        \E v \in Asked(type) :
            LET r == ImportAttachmentEvent(type, db, Current(by), v)
            IN /\ r.status = "OK"
               /\ Commit(by, r,
                     <<Event(type, AttachmentPayload(type, v[1], r.db.attachments[v[1]]))>>)

\* A command of another module, with arbitrary values.
OtherCommand ==
    \E type \in OtherEvent :
        /\ type \in DOMAIN scene.asks
        /\ Commit("", Ok(db),
              <<Event(type, [i \in 1 .. Len(Written[type].fields) |->
                                IF Written[type].fields[i] \in {"id", "text"}
                                THEN "x" ELSE 1])>>)
----------------------------------------------------------------------------
(* The program is stopped and started again.                                *)

Stop ==
    /\ phase = "serving" /\ restarts < scene.restarts
    /\ phase' = "importing"
    /\ restarts' = restarts + 1
    /\ stopped' = db /\ db' = EmptyDb
    /\ imported' = 0
    /\ UNCHANGED <<scene, now, log, served>>

\* The values as the import function of the event reads them.
Values(e) == [i \in 1 .. Len(e.cells) |-> e.cells[i].value]

\* processEvent
ProcessEvent ==
    /\ phase = "importing" /\ imported < Len(log)
    /\ LET e == log[imported + 1]
           r == IF Decodes(e) THEN Import(ImporterOf(e), db, e.context, Values(e))
                ELSE Result("UNREADABLE", db)
       IN IF r.status \in {"OK", "NO_EFFECT"}
          THEN db' = r.db /\ imported' = imported + 1 /\ phase' = phase
          ELSE phase' = "refused" /\ UNCHANGED <<db, imported>>
    /\ UNCHANGED <<scene, now, stopped, log, served, restarts>>

Start ==
    /\ phase = "importing" /\ imported = Len(log)
    /\ phase' = "serving"
    /\ now' = now + 1
    /\ UNCHANGED <<scene, db, stopped, log, imported, served, restarts>>

Next ==
    \/ AddNewUser \/ ChangeUser \/ DeleteUserLogo
    \/ AddNewDiscussionThread \/ ChangeDiscussionThread
    \/ AddNewDiscussionMessageInThread \/ ChangeDiscussionThreadMessageContent
    \/ ChangeDiscussionThreadMessageApproval
    \/ AddNewDiscussionTag \/ ChangeDiscussionTag
    \/ AddNewDiscussionCategory \/ ChangeDiscussionCategory
    \/ AddNewAttachment \/ ChangeAttachment
    \/ OtherCommand
    \/ Stop \/ ProcessEvent \/ Start

Spec == Init /\ [][Next]_vars
----------------------------------------------------------------------------
(* Properties.                                                              *)

\* Everything was imported.
Complete == phase = "importing" /\ imported = Len(log)

Trimmed(t) == [t EXCEPT !.subscribedUsers = @ \ {""}]

\* What must survive a restart: times and addresses aside, and but for the
\* anonymous user, whom a subscription that is recorded with his first message
\* adds to the list of a thread.
Contents(d) ==
    [d EXCEPT !.threads = [t \in DOMAIN @ |-> Trimmed(@[t])]]

\* An event has 16 bits for the display order of a category, and the importer takes
\* one below zero for zero.
KeptOrder(n) == NotNegative(Signed(n))

Narrowed(c) == [c EXCEPT !.displayOrder = KeptOrder(@)]

AsRecorded(d) ==
    [d EXCEPT !.categories = [x \in DOMAIN @ |-> Narrowed(@[x])]]

Known(e) ==
    [e EXCEPT !.at = 0,
              !.ip = IF scene.persistIPAddresses THEN @
                     ELSE [created |-> "", updated |-> ""]]

\* An event that a command recorded is read back by the import function of its
\* type, to its last byte, and the direct function accepts it: the importer
\* never refuses the program's own log, which would keep it from starting.
NothingRefused == phase # "refused"

\* After an import the collection holds what it held when the program stopped:
\* the same entities with the same attributes, authors and subscriptions.  Of a
\* display order it holds what an event has room for.
RestartKeepsContents ==
    Complete =>
        LET a == Contents(AsRecorded(stopped))
            b == Contents(db)
        IN /\ a.subscribedThreads = b.subscribedThreads
           /\ \A k \in Kind :
                  [id \in DOMAIN a[k] |-> Known(a[k][id])]
                  = [id \in DOMAIN b[k] |-> Known(b[k][id])]

\* The clock is read again when a command is recorded.  So an import may date a
\* change later than the program did, but never past a later change: threads and
\* messages keep their order by time.
RestartKeepsOrder ==
    Complete =>
        LET Stamp == {<<k, id, f>> : k \in Kind, id \in UNION {DOMAIN stopped[k] : k \in Kind},
                                     f \in {"created", "updated", "visible"}}
            Dated == {s \in Stamp : /\ s[2] \in DOMAIN stopped[s[1]] \cap DOMAIN db[s[1]]
                                    /\ stopped[s[1]][s[2]].at[s[3]] # 0}
            Was(s) == stopped[s[1]][s[2]].at[s[3]]
            Is(s) == db[s[1]][s[2]].at[s[3]]
        IN \A s \in Dated :
               /\ Was(s) <= Is(s)
               /\ \A t \in Dated : Was(s) < Was(t) => Is(s) <= Was(t)
=============================================================================
