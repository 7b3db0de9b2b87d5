----------------------------- MODULE Endpoints -----------------------------
(* The way from a path to a call of a repository: the routes of             *)
(* ServiceEndpointManager and HttpRouter, the parameters that the methods   *)
(* of ServiceEndpoints hand over, the checks of the CommandHandler methods, *)
(* and what DefaultAuthorization asks before it looks at privileges.        *)
(*                                                                          *)
(* Commands and views are named by their members of the enums Command and   *)
(* View.  The views of one list in several orders, among which an endpoint  *)
(* chooses by the orderby query parameter, share one name without _BY_.     *)
EXTENDS Integers, Sequences, FiniteSets, TLC

Each(names, value) == [n \in names |-> value]
----------------------------------------------------------------------------
(* Routes: the verb and the words of the path.                              *)

UserRoutes ==
    [SHOW_VERSION |-> <<"GET", "metrics", "version">>,
     COUNT_ENTITIES |-> <<"GET", "statistics", "entitycount">>,
     GET_USERS |-> <<"GET", "users">>,
     GET_CURRENT_USER |-> <<"GET", "users", "current">>,
     GET_USERS_ONLINE |-> <<"GET", "users", "online">>,
     GET_USER_BY_ID |-> <<"GET", "users", "id">>,
     GET_USER_BY_NAME |-> <<"GET", "users", "name">>,
     GET_MULTIPLE_USERS_BY_ID |-> <<"GET", "users", "multiple", "ids">>,
     GET_MULTIPLE_USERS_BY_NAME |-> <<"GET", "users", "multiple", "names">>,
     SEARCH_USERS_BY_NAME |-> <<"GET", "users", "search">>,
     ADD_USER |-> <<"POST", "users">>,
     DELETE_USER |-> <<"DELETE", "users">>,
     CHANGE_USER_NAME |-> <<"PUT", "users", "name">>,
     CHANGE_USER_INFO |-> <<"PUT", "users", "info">>,
     CHANGE_USER_TITLE |-> <<"PUT", "users", "title">>,
     CHANGE_USER_SIGNATURE |-> <<"PUT", "users", "signature">>,
     CHANGE_USER_ATTACHMENT_QUOTA |-> <<"PUT", "users", "attachment_quota">>,
     GET_USER_LOGO |-> <<"GET", "users", "logo">>,
     CHANGE_USER_LOGO |-> <<"PUT", "users", "logo">>,
     DELETE_USER_LOGO |-> <<"DELETE", "users", "logo">>,
     GET_USER_VOTE_HISTORY |-> <<"GET", "users", "votehistory">>,
     GET_USER_QUOTED_HISTORY |-> <<"GET", "users", "quotedhistory">>,
     GET_USERS_SUBSCRIBED_TO_DISCUSSION_THREAD |->
        <<"GET", "users", "subscribed", "thread">>]

ThreadRoutes ==
    [GET_DISCUSSION_THREADS |-> <<"GET", "threads">>,
     GET_DISCUSSION_THREAD_BY_ID |-> <<"GET", "threads", "id">>,
     GET_MULTIPLE_DISCUSSION_THREADS_BY_ID |-> <<"GET", "threads", "multiple">>,
     GET_DISCUSSION_THREADS_OF_USER |-> <<"GET", "threads", "user">>,
     GET_SUBSCRIBED_DISCUSSION_THREADS_OF_USER |->
        <<"GET", "threads", "subscribed", "user">>,
     GET_DISCUSSION_THREADS_WITH_TAG |-> <<"GET", "threads", "tag">>,
     GET_DISCUSSION_THREADS_OF_CATEGORY |-> <<"GET", "threads", "category">>,
     SEARCH_DISCUSSION_THREADS_BY_NAME |-> <<"GET", "threads", "search">>,
     ADD_DISCUSSION_THREAD |-> <<"POST", "threads">>,
     DELETE_DISCUSSION_THREAD |-> <<"DELETE", "threads">>,
     CHANGE_DISCUSSION_THREAD_NAME |-> <<"PUT", "threads", "name">>,
     CHANGE_DISCUSSION_THREAD_PIN_DISPLAY_ORDER |->
        <<"PUT", "threads", "pindisplayorder">>,
     CHANGE_DISCUSSION_THREAD_APPROVAL |-> <<"PUT", "threads", "approval">>,
     MERGE_DISCUSSION_THREADS |-> <<"POST", "threads", "merge">>,
     SUBSCRIBE_TO_THREAD |-> <<"POST", "threads", "subscribe">>,
     UNSUBSCRIBE_FROM_THREAD |-> <<"POST", "threads", "unsubscribe">>,
     ADD_DISCUSSION_TAG_TO_THREAD |-> <<"POST", "threads", "tag">>,
     REMOVE_DISCUSSION_TAG_FROM_THREAD |-> <<"DELETE", "threads", "tag">>]

MessageRoutes ==
    [GET_MULTIPLE_DISCUSSION_THREAD_MESSAGES_BY_ID |->
        <<"GET", "thread_messages", "multiple">>,
     GET_DISCUSSION_THREAD_MESSAGES_OF_USER_BY_CREATED |->
        <<"GET", "thread_messages", "user">>,
     GET_LATEST_DISCUSSION_THREAD_MESSAGES |->
        <<"GET", "thread_messages", "latest">>,
     GET_MESSAGE_COMMENTS |-> <<"GET", "thread_messages", "allcomments">>,
     GET_MESSAGE_COMMENTS_OF_DISCUSSION_THREAD_MESSAGE |->
        <<"GET", "thread_messages", "comments">>,
     GET_MESSAGE_COMMENTS_OF_USER |->
        <<"GET", "thread_messages", "comments", "user">>,
     GET_DISCUSSION_THREAD_MESSAGE_RANK |-> <<"GET", "thread_messages", "rank">>,
     ADD_DISCUSSION_THREAD_MESSAGE |-> <<"POST", "thread_messages">>,
     DELETE_DISCUSSION_THREAD_MESSAGE |-> <<"DELETE", "thread_messages">>,
     CHANGE_DISCUSSION_THREAD_MESSAGE_CONTENT |->
        <<"PUT", "thread_messages", "content">>,
     CHANGE_DISCUSSION_THREAD_MESSAGE_APPROVAL |->
        <<"PUT", "thread_messages", "approval">>,
     MOVE_DISCUSSION_THREAD_MESSAGE |-> <<"POST", "thread_messages", "move">>,
     UP_VOTE_DISCUSSION_THREAD_MESSAGE |-> <<"POST", "thread_messages", "upvote">>,
     DOWN_VOTE_DISCUSSION_THREAD_MESSAGE |->
        <<"POST", "thread_messages", "downvote">>,
     RESET_VOTE_DISCUSSION_THREAD_MESSAGE |->
        <<"POST", "thread_messages", "resetvote">>,
     ADD_COMMENT_TO_DISCUSSION_THREAD_MESSAGE |->
        <<"POST", "thread_messages", "comment">>,
     SET_MESSAGE_COMMENT_SOLVED |->
        <<"PUT", "thread_messages", "comment", "solved">>,
     GET_USER_RECEIVED_PRIVATE_MESSAGES |->
        <<"GET", "private_messages", "received">>,
     GET_USER_SENT_PRIVATE_MESSAGES |-> <<"GET", "private_messages", "sent">>,
     SEND_PRIVATE_MESSAGE |-> <<"POST", "private_messages">>,
     DELETE_PRIVATE_MESSAGE |-> <<"DELETE", "private_messages">>]

TagAndCategoryRoutes ==
    [GET_DISCUSSION_TAGS |-> <<"GET", "tags">>,
     ADD_DISCUSSION_TAG |-> <<"POST", "tags">>,
     DELETE_DISCUSSION_TAG |-> <<"DELETE", "tags">>,
     CHANGE_DISCUSSION_TAG_NAME |-> <<"PUT", "tags", "name">>,
     CHANGE_DISCUSSION_TAG_UI_BLOB |-> <<"PUT", "tags", "uiblob">>,
     MERGE_DISCUSSION_TAG_INTO_OTHER_TAG |-> <<"POST", "tags", "merge">>,
     GET_DISCUSSION_CATEGORIES |-> <<"GET", "categories">>,
     GET_DISCUSSION_CATEGORIES_FROM_ROOT |-> <<"GET", "categories", "root">>,
     GET_DISCUSSION_CATEGORY_BY_ID |-> <<"GET", "category">>,
     ADD_DISCUSSION_CATEGORY |-> <<"POST", "categories">>,
     DELETE_DISCUSSION_CATEGORY |-> <<"DELETE", "categories">>,
     CHANGE_DISCUSSION_CATEGORY_NAME |-> <<"PUT", "categories", "name">>,
     CHANGE_DISCUSSION_CATEGORY_DESCRIPTION |->
        <<"PUT", "categories", "description">>,
     CHANGE_DISCUSSION_CATEGORY_PARENT |-> <<"PUT", "categories", "parent">>,
     CHANGE_DISCUSSION_CATEGORY_DISPLAY_ORDER |->
        <<"PUT", "categories", "displayorder">>,
     ADD_DISCUSSION_TAG_TO_CATEGORY |-> <<"POST", "categories", "tag">>,
     REMOVE_DISCUSSION_TAG_FROM_CATEGORY |-> <<"DELETE", "categories", "tag">>]

AttachmentRoutes ==
    [GET_ATTACHMENTS |-> <<"GET", "attachments">>,
     GET_ATTACHMENTS_OF_USER |-> <<"GET", "attachments", "user">>,
     CAN_GET_ATTACHMENT |-> <<"GET", "attachments", "try">>,
     GET_ATTACHMENT |-> <<"GET", "attachment">>,
     CAN_ADD_ATTACHMENT |-> <<"POST", "attachments", "can_add">>,
     ADD_ATTACHMENT |-> <<"POST", "attachments">>,
     DELETE_ATTACHMENT |-> <<"DELETE", "attachments">>,
     CHANGE_ATTACHMENT_NAME |-> <<"PUT", "attachments", "name">>,
     CHANGE_ATTACHMENT_APPROVAL |-> <<"PUT", "attachments", "approval">>,
     ADD_ATTACHMENT_TO_DISCUSSION_THREAD_MESSAGE |->
        <<"POST", "attachments", "message">>,
     REMOVE_ATTACHMENT_FROM_DISCUSSION_THREAD_MESSAGE |->
        <<"DELETE", "attachments", "message">>]

PrivilegeRoutes ==
    LET Required(e) == <<"GET", "privileges", "required", e>>
        Assigned(e) == <<"GET", "privileges", "assigned", e>>
        Change(k, e) == <<"POST", "privileges", k, "required", e>>
        Assign(k) == <<"POST", "privileges", k, "assign">>
    IN [GET_REQUIRED_PRIVILEGES_FOR_THREAD_MESSAGE |-> Required("thread_message"),
        GET_ASSIGNED_PRIVILEGES_FOR_THREAD_MESSAGE |-> Assigned("thread_message"),
        GET_REQUIRED_PRIVILEGES_FOR_THREAD |-> Required("thread"),
        GET_ASSIGNED_PRIVILEGES_FOR_THREAD |-> Assigned("thread"),
        GET_REQUIRED_PRIVILEGES_FOR_TAG |-> Required("tag"),
        GET_ASSIGNED_PRIVILEGES_FOR_TAG |-> Assigned("tag"),
        GET_REQUIRED_PRIVILEGES_FOR_CATEGORY |-> Required("category"),
        GET_ASSIGNED_PRIVILEGES_FOR_CATEGORY |-> Assigned("category"),
        GET_FORUM_WIDE_CURRENT_USER_PRIVILEGES |->
            <<"GET", "privileges", "forum_wide", "current_user">>,
        GET_FORUM_WIDE_REQUIRED_PRIVILEGES |-> Required("forum_wide"),
        GET_FORUM_WIDE_DEFAULT_PRIVILEGE_LEVELS |->
            <<"GET", "privileges", "defaults", "forum_wide">>,
        GET_FORUM_WIDE_ASSIGNED_PRIVILEGES |-> Assigned("forum_wide"),
        GET_ASSIGNED_PRIVILEGES_FOR_USER |-> Assigned("user"),
        CHANGE_DISCUSSION_THREAD_MESSAGE_REQUIRED_PRIVILEGE_FOR_THREAD_MESSAGE |->
            Change("thread_message", "thread_message"),
        CHANGE_DISCUSSION_THREAD_MESSAGE_REQUIRED_PRIVILEGE_FOR_THREAD |->
            Change("thread_message", "thread"),
        CHANGE_DISCUSSION_THREAD_REQUIRED_PRIVILEGE_FOR_THREAD |->
            Change("thread", "thread"),
        CHANGE_DISCUSSION_THREAD_MESSAGE_REQUIRED_PRIVILEGE_FOR_TAG |->
            Change("thread_message", "tag"),
        CHANGE_DISCUSSION_THREAD_REQUIRED_PRIVILEGE_FOR_TAG |->
            Change("thread", "tag"),
        CHANGE_DISCUSSION_TAG_REQUIRED_PRIVILEGE_FOR_TAG |-> Change("tag", "tag"),
        CHANGE_DISCUSSION_CATEGORY_REQUIRED_PRIVILEGE_FOR_CATEGORY |->
            Change("category", "category"),
        CHANGE_DISCUSSION_THREAD_MESSAGE_REQUIRED_PRIVILEGE |->
            Change("thread_message", "forum_wide"),
        CHANGE_DISCUSSION_THREAD_REQUIRED_PRIVILEGE |->
            Change("thread", "forum_wide"),
        CHANGE_DISCUSSION_TAG_REQUIRED_PRIVILEGE |-> Change("tag", "forum_wide"),
        CHANGE_DISCUSSION_CATEGORY_REQUIRED_PRIVILEGE |->
            Change("category", "forum_wide"),
        CHANGE_FORUM_WIDE_REQUIRED_PRIVILEGE |->
            Change("forum_wide", "forum_wide"),
        CHANGE_FORUM_WIDE_DEFAULT_PRIVILEGE_LEVEL |->
            <<"POST", "privileges", "forum_wide", "defaults", "forum_wide">>,
        ASSIGN_DISCUSSION_THREAD_MESSAGE_PRIVILEGE |-> Assign("thread_message"),
        ASSIGN_DISCUSSION_THREAD_PRIVILEGE |-> Assign("thread"),
        ASSIGN_DISCUSSION_TAG_PRIVILEGE |-> Assign("tag"),
        ASSIGN_DISCUSSION_CATEGORY_PRIVILEGE |-> Assign("category"),
        ASSIGN_FORUM_WIDE_PRIVILEGE |-> Assign("forum_wide")]

Routes == UserRoutes @@ ThreadRoutes @@ MessageRoutes @@ TagAndCategoryRoutes
          @@ AttachmentRoutes @@ PrivilegeRoutes

Endpoint == DOMAIN Routes

\* The views of canAdd are asked for with POST.
IsView(e) == Routes[e][1] = "GET" \/ e = "CAN_ADD_ATTACHMENT"
----------------------------------------------------------------------------
(* HttpRouter.  A path is compared character by character, so a route also  *)
(* matches where its last word is only the beginning of a word of the path. *)

\* Of the words used here, those that begin with another one.
ProperPrefix ==
    {<<"attachment", "attachments">>, <<"comment", "comments">>,
     <<"thread", "threads">>, <<"thread", "thread_message">>,
     <<"thread", "thread_messages">>, <<"thread_message", "thread_messages">>,
     <<"subscribe", "subscribed">>, <<"user", "users">>, <<"tag", "tags">>,
     <<"id", "ids">>, <<"name", "names">>, <<"assign", "assigned">>}

Matches(route, path) ==
    /\ Len(route) <= Len(path)
    /\ \A i \in 1 .. Len(route) - 1 : route[i] = path[i]
    /\ \/ route[Len(route)] = path[Len(route)]
       \/ <<route[Len(route)], path[Len(route)]>> \in ProperPrefix

\* The order of the routes in the map: longer ones first.
Longer(r, s) ==
    \/ Len(r) > Len(s)
    \/ Len(r) = Len(s) /\ <<s[Len(s)], r[Len(r)]>> \in ProperPrefix

\* The endpoint that a path leads to; every path used here has one.
forward(path) ==
    CHOOSE e \in Endpoint :
        /\ Matches(Routes[e], path)
        /\ \A o \in Endpoint : Matches(Routes[o], path)
                                  => ~Longer(Routes[o], Routes[e])

\* Whether none of the values that follow the route of e in a path begins with
\* the word that ends a longer route in its place.
ClearOfRoutes(e, values) ==
    \A o \in Endpoint, i \in 1 .. 4 :
        Len(Routes[o]) = Len(Routes[e]) + i =>
            LET word == Routes[o][Len(Routes[o])]
            IN values[i] # word /\ <<word, values[i]>> \notin ProperPrefix

\* A route that matches the route of another endpoint is tried after it.
ASSUME RoutesAssumption ==
    \A e \in Endpoint :
        /\ Routes[e] \in Seq(STRING) /\ Routes[e] # << >>
        /\ ~Longer(Routes[e], Routes[e])
        /\ \A o \in Endpoint \ {e} :
              Matches(Routes[o], Routes[e]) =>
                 Longer(Routes[e], Routes[o]) /\ ~Longer(Routes[o], Routes[e])

\* The parts of a path after its route, "" for those it does not have.
extractExtraPathParts(e, path) ==
    LET n == Len(Routes[e])
    IN [i \in 1 .. 4 |-> IF n + i <= Len(path) THEN path[n + i] ELSE ""]
----------------------------------------------------------------------------
(* ServiceEndpoints: the parameters an endpoint hands over in their order,  *)
(* i for extraPathParts[i - 1] and Body for the body of the request.        *)

Body == 0

UserViewsGive ==
    Each({"SHOW_VERSION", "COUNT_ENTITIES", "GET_USERS", "GET_CURRENT_USER",
          "GET_USERS_ONLINE", "GET_USER_VOTE_HISTORY",
          "GET_USER_QUOTED_HISTORY"}, <<>>)
    @@ Each({"GET_USER_BY_ID", "GET_USER_BY_NAME", "GET_MULTIPLE_USERS_BY_ID",
             "GET_MULTIPLE_USERS_BY_NAME", "SEARCH_USERS_BY_NAME",
             "GET_USER_LOGO", "GET_USERS_SUBSCRIBED_TO_DISCUSSION_THREAD"}, <<1>>)

UserCommandsGive ==
    Each({"GET_USER_RECEIVED_PRIVATE_MESSAGES", "GET_USER_SENT_PRIVATE_MESSAGES"},
         <<>>)
    @@ Each({"ADD_USER"}, <<Body>>)
    @@ Each({"DELETE_USER", "DELETE_USER_LOGO", "DELETE_PRIVATE_MESSAGE"}, <<1>>)
    @@ Each({"CHANGE_USER_NAME", "CHANGE_USER_INFO", "CHANGE_USER_TITLE",
             "CHANGE_USER_SIGNATURE", "CHANGE_USER_LOGO",
             "SEND_PRIVATE_MESSAGE"}, <<1, Body>>)
    @@ Each({"CHANGE_USER_ATTACHMENT_QUOTA"}, <<1, 2>>)

ThreadViewsGive ==
    Each({"GET_DISCUSSION_THREADS"}, <<>>)
    @@ Each({"GET_DISCUSSION_THREAD_BY_ID", "GET_MULTIPLE_DISCUSSION_THREADS_BY_ID",
             "GET_DISCUSSION_THREADS_OF_USER", "GET_DISCUSSION_THREADS_WITH_TAG"},
            <<1>>)

MoreThreadViewsGive ==
    Each({"GET_DISCUSSION_THREADS_OF_CATEGORY", "SEARCH_DISCUSSION_THREADS_BY_NAME",
          "GET_SUBSCRIBED_DISCUSSION_THREADS_OF_USER"}, <<1>>)

ThreadCommandsGive ==
    Each({"ADD_DISCUSSION_THREAD"}, <<Body>>)
    @@ Each({"DELETE_DISCUSSION_THREAD", "SUBSCRIBE_TO_THREAD",
             "UNSUBSCRIBE_FROM_THREAD"}, <<1>>)
    @@ Each({"CHANGE_DISCUSSION_THREAD_NAME",
             "CHANGE_DISCUSSION_THREAD_PIN_DISPLAY_ORDER"}, <<1, Body>>)
    @@ Each({"CHANGE_DISCUSSION_THREAD_APPROVAL", "MERGE_DISCUSSION_THREADS"},
            <<1, 2>>)
    @@ Each({"ADD_DISCUSSION_TAG_TO_THREAD", "REMOVE_DISCUSSION_TAG_FROM_THREAD"},
            <<2, 1>>)

MessageViewsGive ==
    Each({"GET_LATEST_DISCUSSION_THREAD_MESSAGES", "GET_MESSAGE_COMMENTS"}, <<>>)
    @@ Each({"GET_MULTIPLE_DISCUSSION_THREAD_MESSAGES_BY_ID",
             "GET_DISCUSSION_THREAD_MESSAGES_OF_USER_BY_CREATED",
             "GET_DISCUSSION_THREAD_MESSAGE_RANK",
             "GET_MESSAGE_COMMENTS_OF_DISCUSSION_THREAD_MESSAGE",
             "GET_MESSAGE_COMMENTS_OF_USER"}, <<1>>)

MessageCommandsGive ==
    Each({"DELETE_DISCUSSION_THREAD_MESSAGE", "UP_VOTE_DISCUSSION_THREAD_MESSAGE",
          "DOWN_VOTE_DISCUSSION_THREAD_MESSAGE",
          "RESET_VOTE_DISCUSSION_THREAD_MESSAGE", "SET_MESSAGE_COMMENT_SOLVED"},
         <<1>>)
    @@ Each({"ADD_DISCUSSION_THREAD_MESSAGE",
             "ADD_COMMENT_TO_DISCUSSION_THREAD_MESSAGE"}, <<1, Body>>)
    @@ Each({"CHANGE_DISCUSSION_THREAD_MESSAGE_CONTENT"}, <<1, Body, 2>>)
    @@ Each({"CHANGE_DISCUSSION_THREAD_MESSAGE_APPROVAL",
             "MOVE_DISCUSSION_THREAD_MESSAGE"}, <<1, 2>>)

TagsGive ==
    Each({"GET_DISCUSSION_TAGS"}, <<>>)
    @@ Each({"ADD_DISCUSSION_TAG"}, <<Body>>)
    @@ Each({"DELETE_DISCUSSION_TAG"}, <<1>>)
    @@ Each({"CHANGE_DISCUSSION_TAG_NAME", "CHANGE_DISCUSSION_TAG_UI_BLOB"},
            <<1, Body>>)
    @@ Each({"MERGE_DISCUSSION_TAG_INTO_OTHER_TAG"}, <<1, 2>>)

CategoriesGive ==
    Each({"GET_DISCUSSION_CATEGORIES", "GET_DISCUSSION_CATEGORIES_FROM_ROOT"}, <<>>)
    @@ Each({"ADD_DISCUSSION_CATEGORY"}, <<Body, 1>>)
    @@ Each({"GET_DISCUSSION_CATEGORY_BY_ID", "DELETE_DISCUSSION_CATEGORY"}, <<1>>)
    @@ Each({"CHANGE_DISCUSSION_CATEGORY_NAME",
             "CHANGE_DISCUSSION_CATEGORY_DESCRIPTION",
             "CHANGE_DISCUSSION_CATEGORY_PARENT",
             "CHANGE_DISCUSSION_CATEGORY_DISPLAY_ORDER"}, <<1, Body>>)
    @@ Each({"ADD_DISCUSSION_TAG_TO_CATEGORY",
             "REMOVE_DISCUSSION_TAG_FROM_CATEGORY"}, <<2, 1>>)

AttachmentViewsGive ==
    Each({"GET_ATTACHMENTS"}, <<>>)
    @@ Each({"GET_ATTACHMENTS_OF_USER", "CAN_GET_ATTACHMENT", "GET_ATTACHMENT"},
            <<1>>)

AttachmentCommandsGive ==
    Each({"CAN_ADD_ATTACHMENT"}, <<>>)
    @@ Each({"DELETE_ATTACHMENT"}, <<1>>)
    @@ Each({"ADD_ATTACHMENT", "CHANGE_ATTACHMENT_NAME",
             "CHANGE_ATTACHMENT_APPROVAL",
             "ADD_ATTACHMENT_TO_DISCUSSION_THREAD_MESSAGE",
             "REMOVE_ATTACHMENT_FROM_DISCUSSION_THREAD_MESSAGE"}, <<1, 2>>)

PrivilegeViewsGive ==
    Each({"GET_FORUM_WIDE_CURRENT_USER_PRIVILEGES",
          "GET_FORUM_WIDE_REQUIRED_PRIVILEGES",
          "GET_FORUM_WIDE_DEFAULT_PRIVILEGE_LEVELS",
          "GET_FORUM_WIDE_ASSIGNED_PRIVILEGES"}, <<>>)
    @@ Each({"GET_REQUIRED_PRIVILEGES_FOR_THREAD_MESSAGE",
             "GET_ASSIGNED_PRIVILEGES_FOR_THREAD_MESSAGE",
             "GET_REQUIRED_PRIVILEGES_FOR_THREAD",
             "GET_ASSIGNED_PRIVILEGES_FOR_THREAD", "GET_REQUIRED_PRIVILEGES_FOR_TAG",
             "GET_ASSIGNED_PRIVILEGES_FOR_TAG",
             "GET_REQUIRED_PRIVILEGES_FOR_CATEGORY",
             "GET_ASSIGNED_PRIVILEGES_FOR_CATEGORY",
             "GET_ASSIGNED_PRIVILEGES_FOR_USER"}, <<1>>)

EntityPrivilegeChanges ==
    {"CHANGE_DISCUSSION_THREAD_MESSAGE_REQUIRED_PRIVILEGE_FOR_THREAD_MESSAGE",
     "CHANGE_DISCUSSION_THREAD_MESSAGE_REQUIRED_PRIVILEGE_FOR_THREAD",
     "CHANGE_DISCUSSION_THREAD_REQUIRED_PRIVILEGE_FOR_THREAD",
     "CHANGE_DISCUSSION_THREAD_MESSAGE_REQUIRED_PRIVILEGE_FOR_TAG",
     "CHANGE_DISCUSSION_THREAD_REQUIRED_PRIVILEGE_FOR_TAG",
     "CHANGE_DISCUSSION_TAG_REQUIRED_PRIVILEGE_FOR_TAG",
     "CHANGE_DISCUSSION_CATEGORY_REQUIRED_PRIVILEGE_FOR_CATEGORY"}

ForumPrivilegeChanges ==
    {"CHANGE_DISCUSSION_THREAD_MESSAGE_REQUIRED_PRIVILEGE",
     "CHANGE_DISCUSSION_THREAD_REQUIRED_PRIVILEGE",
     "CHANGE_DISCUSSION_TAG_REQUIRED_PRIVILEGE",
     "CHANGE_DISCUSSION_CATEGORY_REQUIRED_PRIVILEGE",
     "CHANGE_FORUM_WIDE_REQUIRED_PRIVILEGE"}

EntityAssignments ==
    {"ASSIGN_DISCUSSION_THREAD_MESSAGE_PRIVILEGE",
     "ASSIGN_DISCUSSION_THREAD_PRIVILEGE", "ASSIGN_DISCUSSION_TAG_PRIVILEGE",
     "ASSIGN_DISCUSSION_CATEGORY_PRIVILEGE"}

PrivilegeChangesGive ==
    Each(EntityPrivilegeChanges, <<1, 2, 3>>)
    @@ Each(ForumPrivilegeChanges, <<1, 2>>)
    @@ Each({"CHANGE_FORUM_WIDE_DEFAULT_PRIVILEGE_LEVEL"}, <<1, 2, 3>>)

PrivilegeAssignmentsGive ==
    Each(EntityAssignments, <<1, 2, 3, 4>>)
    @@ Each({"ASSIGN_FORUM_WIDE_PRIVILEGE"}, <<1, 2, 3>>)

Gives ==
    UserViewsGive @@ UserCommandsGive @@ ThreadViewsGive @@ MoreThreadViewsGive
    @@ ThreadCommandsGive @@ MessageViewsGive @@ MessageCommandsGive @@ TagsGive
    @@ CategoriesGive @@ AttachmentViewsGive @@ AttachmentCommandsGive
    @@ PrivilegeViewsGive @@ PrivilegeChangesGive @@ PrivilegeAssignmentsGive
----------------------------------------------------------------------------
(* CommandHandler.  A method refuses the parameters unless n of them, or at *)
(* least n, are not empty; it then uses the parameters up to index reads,   *)
(* of which those in parsed must survive normalize, convertTo or            *)
(* parsePrivilege and those in optional are used only if they were given.   *)

Takes(n, parsed) ==
    [exact |-> TRUE, n |-> n, reads |-> n, parsed |-> parsed, optional |-> {}]

TakesAtLeast(n, reads, parsed, optional) ==
    [exact |-> FALSE, n |-> n, reads |-> reads, parsed |-> parsed,
     optional |-> optional]

\* The methods without a check.
TakesNothing == TakesAtLeast(0, 0, {}, {})

UserHandlers ==
    Each({"SHOW_VERSION", "COUNT_ENTITIES", "GET_CURRENT_USER", "GET_USERS",
          "GET_USERS_ONLINE", "GET_USER_VOTE_HISTORY", "GET_USER_QUOTED_HISTORY",
          "GET_USER_RECEIVED_PRIVATE_MESSAGES", "GET_USER_SENT_PRIVATE_MESSAGES"},
         TakesNothing)
    @@ Each({"GET_USER_BY_ID", "GET_MULTIPLE_USERS_BY_ID",
             "GET_MULTIPLE_USERS_BY_NAME", "GET_USER_LOGO"}, Takes(1, {}))
    @@ Each({"ADD_USER", "GET_USER_BY_NAME", "SEARCH_USERS_BY_NAME"},
            Takes(1, {1}))

UserCommandHandlers ==
    Each({"CHANGE_USER_NAME", "SEND_PRIVATE_MESSAGE"}, Takes(2, {2}))
    @@ Each({"CHANGE_USER_INFO", "CHANGE_USER_TITLE", "CHANGE_USER_SIGNATURE"},
            TakesAtLeast(1, 2, {}, {}))
    @@ Each({"CHANGE_USER_ATTACHMENT_QUOTA"}, TakesAtLeast(1, 2, {2}, {}))
    @@ Each({"CHANGE_USER_LOGO"}, Takes(2, {}))
    @@ Each({"DELETE_USER_LOGO", "DELETE_USER", "DELETE_PRIVATE_MESSAGE"},
            Takes(1, {}))

ThreadHandlers ==
    Each({"GET_DISCUSSION_THREADS"}, TakesNothing)
    @@ Each({"ADD_DISCUSSION_THREAD", "SEARCH_DISCUSSION_THREADS_BY_NAME"},
            Takes(1, {1}))
    @@ Each({"GET_DISCUSSION_THREAD_BY_ID", "GET_MULTIPLE_DISCUSSION_THREADS_BY_ID",
             "DELETE_DISCUSSION_THREAD", "GET_DISCUSSION_THREADS_OF_USER"},
            Takes(1, {}))
    @@ Each({"CHANGE_DISCUSSION_THREAD_NAME",
             "CHANGE_DISCUSSION_THREAD_PIN_DISPLAY_ORDER"}, Takes(2, {2}))
    @@ Each({"CHANGE_DISCUSSION_THREAD_APPROVAL"}, TakesAtLeast(2, 2, {}, {}))
    @@ Each({"MERGE_DISCUSSION_THREADS"}, Takes(2, {}))

SubscriptionHandlers ==
    Each({"SUBSCRIBE_TO_THREAD", "UNSUBSCRIBE_FROM_THREAD",
          "GET_SUBSCRIBED_DISCUSSION_THREADS_OF_USER",
          "GET_USERS_SUBSCRIBED_TO_DISCUSSION_THREAD"}, Takes(1, {}))

MessageHandlers ==
    Each({"GET_LATEST_DISCUSSION_THREAD_MESSAGES", "GET_MESSAGE_COMMENTS"},
         TakesNothing)
    @@ Each({"DELETE_DISCUSSION_THREAD_MESSAGE", "UP_VOTE_DISCUSSION_THREAD_MESSAGE",
             "DOWN_VOTE_DISCUSSION_THREAD_MESSAGE",
             "RESET_VOTE_DISCUSSION_THREAD_MESSAGE",
             "GET_MULTIPLE_DISCUSSION_THREAD_MESSAGES_BY_ID",
             "GET_DISCUSSION_THREAD_MESSAGES_OF_USER_BY_CREATED",
             "GET_DISCUSSION_THREAD_MESSAGE_RANK",
             "GET_MESSAGE_COMMENTS_OF_DISCUSSION_THREAD_MESSAGE",
             "GET_MESSAGE_COMMENTS_OF_USER", "SET_MESSAGE_COMMENT_SOLVED"},
            Takes(1, {}))
    @@ Each({"ADD_DISCUSSION_THREAD_MESSAGE",
             "ADD_COMMENT_TO_DISCUSSION_THREAD_MESSAGE"}, Takes(2, {2}))
    @@ Each({"CHANGE_DISCUSSION_THREAD_MESSAGE_CONTENT"},
            TakesAtLeast(2, 2, {2}, {3}))
    @@ Each({"CHANGE_DISCUSSION_THREAD_MESSAGE_APPROVAL"},
            TakesAtLeast(2, 2, {}, {}))
    @@ Each({"MOVE_DISCUSSION_THREAD_MESSAGE"}, Takes(2, {}))

TagHandlers ==
    Each({"GET_DISCUSSION_TAGS"}, TakesNothing)
    @@ Each({"ADD_DISCUSSION_TAG"}, Takes(1, {1}))
    @@ Each({"DELETE_DISCUSSION_TAG", "GET_DISCUSSION_THREADS_WITH_TAG"},
            Takes(1, {}))
    @@ Each({"CHANGE_DISCUSSION_TAG_NAME"}, Takes(2, {2}))
    @@ Each({"CHANGE_DISCUSSION_TAG_UI_BLOB", "ADD_DISCUSSION_TAG_TO_THREAD",
             "REMOVE_DISCUSSION_TAG_FROM_THREAD",
             "MERGE_DISCUSSION_TAG_INTO_OTHER_TAG"}, Takes(2, {}))

CategoryHandlers ==
    Each({"GET_DISCUSSION_CATEGORIES", "GET_DISCUSSION_CATEGORIES_FROM_ROOT"},
         TakesNothing)
    @@ Each({"ADD_DISCUSSION_CATEGORY"}, TakesAtLeast(1, 1, {1}, {2}))
    @@ Each({"GET_DISCUSSION_CATEGORY_BY_ID", "DELETE_DISCUSSION_CATEGORY",
             "GET_DISCUSSION_THREADS_OF_CATEGORY"}, Takes(1, {}))
    @@ Each({"CHANGE_DISCUSSION_CATEGORY_NAME",
             "CHANGE_DISCUSSION_CATEGORY_DISPLAY_ORDER"}, Takes(2, {2}))
    @@ Each({"CHANGE_DISCUSSION_CATEGORY_DESCRIPTION",
             "CHANGE_DISCUSSION_CATEGORY_PARENT", "ADD_DISCUSSION_TAG_TO_CATEGORY",
             "REMOVE_DISCUSSION_TAG_FROM_CATEGORY"}, Takes(2, {}))

AttachmentHandlers ==
    Each({"GET_ATTACHMENTS", "CAN_ADD_ATTACHMENT"}, TakesNothing)
    @@ Each({"GET_ATTACHMENTS_OF_USER", "CAN_GET_ATTACHMENT", "GET_ATTACHMENT",
             "DELETE_ATTACHMENT"}, Takes(1, {}))
    @@ Each({"ADD_ATTACHMENT"}, Takes(2, {1, 2}))
    @@ Each({"CHANGE_ATTACHMENT_NAME"}, Takes(2, {2}))
    @@ Each({"CHANGE_ATTACHMENT_APPROVAL",
             "ADD_ATTACHMENT_TO_DISCUSSION_THREAD_MESSAGE",
             "REMOVE_ATTACHMENT_FROM_DISCUSSION_THREAD_MESSAGE"}, Takes(2, {}))

EntityPrivilegeHandlers ==
    Each({e \in DOMAIN PrivilegeViewsGive : PrivilegeViewsGive[e] = <<1>>}
            \ {"GET_ASSIGNED_PRIVILEGES_FOR_USER"}, Takes(1, {}))
    @@ Each(EntityPrivilegeChanges, Takes(3, {2, 3}))

ForumPrivilegeHandlers ==
    Each({e \in DOMAIN PrivilegeViewsGive : PrivilegeViewsGive[e] = <<>>},
         TakesNothing)
    @@ Each({"GET_ASSIGNED_PRIVILEGES_FOR_USER"}, Takes(1, {}))
    @@ Each(ForumPrivilegeChanges, Takes(2, {1, 2}))
    @@ Each({"CHANGE_FORUM_WIDE_DEFAULT_PRIVILEGE_LEVEL"}, Takes(3, {1, 2, 3}))

AssignmentHandlers ==
    Each(EntityAssignments, Takes(4, {3, 4}))
    @@ Each({"ASSIGN_FORUM_WIDE_PRIVILEGE"}, Takes(3, {2, 3}))

Handlers ==
    UserHandlers @@ UserCommandHandlers @@ ThreadHandlers @@ SubscriptionHandlers
    @@ MessageHandlers @@ TagHandlers @@ CategoryHandlers @@ AttachmentHandlers
    @@ EntityPrivilegeHandlers @@ ForumPrivilegeHandlers @@ AssignmentHandlers

\* The values that are not empty and those that normalization or conversion
\* makes something of.
countNonEmpty(values) == Cardinality({i \in DOMAIN values : values[i] # ""})

Parses(value) == value \notin {"", "bad"}


checkNumberOfParameters(h, values) ==
    IF h.exact THEN countNonEmpty(values) = h.n ELSE countNonEmpty(values) >= h.n

\* Whether the method gets to its call of the repository.
Accepts(h, values) ==
    /\ checkNumberOfParameters(h, values)
    /\ \A i \in h.parsed : i \in DOMAIN values /\ Parses(values[i])
\* Each endpoint hands over as many parameters as its handler counts and reads.
ASSUME HandlersAssumption ==
    \A e \in Endpoint :
        LET h == Handlers[e]
        IN /\ Gives[e] \in Seq(0 .. 4)
           /\ h.exact \in BOOLEAN /\ h.n \in 0 .. Len(Gives[e])
           /\ h.exact => h.n = Len(Gives[e])
           /\ h.reads \in 0 .. Len(Gives[e])
           /\ h.parsed \subseteq 1 .. Len(Gives[e])
----------------------------------------------------------------------------
(* DefaultAuthorization: what each command is throttled as.                 *)

UserThrottling ==
    Each({"ADD_USER", "SEND_PRIVATE_MESSAGE"}, "NEW_CONTENT")
    @@ Each({"CHANGE_USER_NAME", "CHANGE_USER_INFO", "CHANGE_USER_TITLE",
             "CHANGE_USER_SIGNATURE", "CHANGE_USER_ATTACHMENT_QUOTA",
             "CHANGE_USER_LOGO", "DELETE_USER_LOGO", "DELETE_USER"}, "EDIT_CONTENT")

ThreadThrottling ==
    Each({"ADD_DISCUSSION_THREAD"}, "NEW_CONTENT")
    @@ Each({"CHANGE_DISCUSSION_THREAD_NAME",
             "CHANGE_DISCUSSION_THREAD_PIN_DISPLAY_ORDER",
             "CHANGE_DISCUSSION_THREAD_APPROVAL", "DELETE_DISCUSSION_THREAD",
             "MERGE_DISCUSSION_THREADS"}, "EDIT_CONTENT")
    @@ Each({"SUBSCRIBE_TO_THREAD", "UNSUBSCRIBE_FROM_THREAD"}, "SUBSCRIBE")

MessageThrottling ==
    Each({"ADD_DISCUSSION_THREAD_MESSAGE",
          "ADD_COMMENT_TO_DISCUSSION_THREAD_MESSAGE"}, "NEW_CONTENT")
    @@ Each({"DELETE_DISCUSSION_THREAD_MESSAGE",
             "CHANGE_DISCUSSION_THREAD_MESSAGE_CONTENT",
             "CHANGE_DISCUSSION_THREAD_MESSAGE_APPROVAL",
             "MOVE_DISCUSSION_THREAD_MESSAGE", "SET_MESSAGE_COMMENT_SOLVED"},
            "EDIT_CONTENT")
    @@ Each({"UP_VOTE_DISCUSSION_THREAD_MESSAGE",
             "DOWN_VOTE_DISCUSSION_THREAD_MESSAGE",
             "RESET_VOTE_DISCUSSION_THREAD_MESSAGE"}, "VOTE")

TagThrottling ==
    Each({"ADD_DISCUSSION_TAG"}, "NEW_CONTENT")
    @@ Each({"CHANGE_DISCUSSION_TAG_NAME", "CHANGE_DISCUSSION_TAG_UI_BLOB",
             "DELETE_DISCUSSION_TAG", "ADD_DISCUSSION_TAG_TO_THREAD",
             "REMOVE_DISCUSSION_TAG_FROM_THREAD",
             "MERGE_DISCUSSION_TAG_INTO_OTHER_TAG"}, "EDIT_CONTENT")

CategoryThrottling ==
    Each({"ADD_DISCUSSION_CATEGORY"}, "NEW_CONTENT")
    @@ Each({"CHANGE_DISCUSSION_CATEGORY_NAME",
             "CHANGE_DISCUSSION_CATEGORY_DESCRIPTION",
             "CHANGE_DISCUSSION_CATEGORY_PARENT",
             "CHANGE_DISCUSSION_CATEGORY_DISPLAY_ORDER",
             "DELETE_DISCUSSION_CATEGORY", "ADD_DISCUSSION_TAG_TO_CATEGORY",
             "REMOVE_DISCUSSION_TAG_FROM_CATEGORY"}, "EDIT_CONTENT")

AttachmentThrottling ==
    Each({"CAN_ADD_ATTACHMENT", "ADD_ATTACHMENT"}, "NEW_CONTENT")
    @@ Each({"CHANGE_ATTACHMENT_NAME", "CHANGE_ATTACHMENT_APPROVAL",
             "DELETE_ATTACHMENT",
             "REMOVE_ATTACHMENT_FROM_DISCUSSION_THREAD_MESSAGE"}, "EDIT_CONTENT")

PrivilegeThrottling ==
    Each(EntityPrivilegeChanges \cup ForumPrivilegeChanges \cup EntityAssignments
         \cup {"CHANGE_FORUM_WIDE_DEFAULT_PRIVILEGE_LEVEL",
               "ASSIGN_FORUM_WIDE_PRIVILEGE"}, "EDIT_PRIVILEGES")

Throttling ==
    UserThrottling @@ ThreadThrottling @@ MessageThrottling @@ TagThrottling
    @@ CategoryThrottling @@ AttachmentThrottling @@ PrivilegeThrottling

\* The commands refused before they are throttled: to a request without an
\* identity, before the lock is taken, or to whoever acts without an account.
RefusedToVisitors ==
    {e \in DOMAIN Throttling : Throttling[e] = "VOTE"}
    \cup {"SET_MESSAGE_COMMENT_SOLVED"}

RefusedToAnonymous ==
    {"SUBSCRIBE_TO_THREAD", "UNSUBSCRIBE_FROM_THREAD", "CAN_ADD_ATTACHMENT",
     "ADD_ATTACHMENT"}

\* The commands that are not throttled on a thread that has no message yet.
FreeOnEmptyThread ==
    {"ADD_DISCUSSION_THREAD_MESSAGE", "ADD_DISCUSSION_TAG_TO_THREAD"}
=============================================================================
