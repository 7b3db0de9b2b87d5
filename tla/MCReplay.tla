------------------------------ MODULE MCReplay ------------------------------
(* Instances of module Replay.  The scenes of the passing run are kept      *)
(* apart so that each group of commands is tried in all orders.             *)
EXTENDS Replay

Scene(asks, most, stops) ==
    [asks |-> asks, commands |-> most, restarts |-> stops,
     ids |-> [users |-> {"u1", "u2"}, threads |-> {"t1"}, messages |-> {"m1", "m2"},
              tags |-> {"g1", "g2"}, categories |-> {"c1", "c2"},
              attachments |-> {"a1", "a2"}],
     mentions |-> ("@u1" :> {"u1"} @@ "@u1 @u9" :> {"u1", "u9"}),
     persistIPAddresses |-> TRUE, defaultLevel |-> FALSE]

Register == [ADD_NEW_USER |-> {<<"ann", "auth1">>}]

Accounts ==
    Scene([ADD_NEW_USER |-> {<<"ann", "auth1">>, <<"bob", "auth2">>, <<"ann", "auth2">>},
           CHANGE_USER_NAME |-> {<<"u1", "bob">>, <<"u2", "ann">>},
           CHANGE_USER_INFO |-> {<<"u1", "info">>}], 4, 1)

Profiles ==
    Scene(Register @@
          [CHANGE_USER_TITLE |-> {<<"u1", "title">>},
           CHANGE_USER_SIGNATURE |-> {<<"u1", "">>, <<"u1", "signature">>},
           CHANGE_USER_LOGO |-> {<<"u1", "logo">>},
           CHANGE_USER_ATTACHMENT_QUOTA |-> {<<"u1", 0>>}], 3, 1)

Threads ==
    [Scene(Register @@
           [ADD_NEW_DISCUSSION_THREAD |-> {<<"talk">>},
            CHANGE_DISCUSSION_THREAD_NAME |-> {<<"t1", "chat">>},
            CHANGE_DISCUSSION_THREAD_PIN_DISPLAY_ORDER |-> {<<"t1", 65535>>},
            CHANGE_DISCUSSION_THREAD_APPROVAL |-> {<<"t1", 0>>, <<"t1", 1>>},
            SUBSCRIBE_TO_DISCUSSION_THREAD |-> {<<"t1">>},
            UNSUBSCRIBE_FROM_DISCUSSION_THREAD |-> {<<"t1">>}], 4, 1)
     EXCEPT !.defaultLevel = TRUE]

Messages ==
    Scene(Register @@
          [ADD_NEW_DISCUSSION_THREAD |-> {<<"talk">>},
           ADD_NEW_DISCUSSION_THREAD_MESSAGE |-> {<<"t1", "hello">>, <<"t1", "@u1 @u9">>},
           CHANGE_DISCUSSION_THREAD_MESSAGE_CONTENT |->
               {<<"m1", "hi", "typo">>, <<"m1", "@u1", "">>},
           CHANGE_DISCUSSION_THREAD_MESSAGE_APPROVAL |-> {<<"m1", 0>>, <<"m1", 1>>},
           UNSUBSCRIBE_FROM_DISCUSSION_THREAD |-> {<<"t1">>}], 4, 1)

\* A user who no longer follows a thread posts again.
Followers ==
    Scene(Register @@
          [ADD_NEW_DISCUSSION_THREAD |-> {<<"talk">>},
           ADD_NEW_DISCUSSION_THREAD_MESSAGE |-> {<<"t1", "hello">>},
           UNSUBSCRIBE_FROM_DISCUSSION_THREAD |-> {<<"t1">>}], 5, 1)

\* Addresses are not recorded; the program is restarted twice.
Hidden == [Messages EXCEPT !.persistIPAddresses = FALSE, !.commands = 3,
                           !.restarts = 2, !.defaultLevel = TRUE]

Tags ==
    Scene([ADD_NEW_DISCUSSION_TAG |-> {<<"red">>, <<"blue">>},
           CHANGE_DISCUSSION_TAG_NAME |-> {<<"g1", "red">>, <<"g1", "green">>,
                                           <<"g2", "red">>},
           CHANGE_DISCUSSION_TAG_UI_BLOB |-> {<<"g1", "blob">>}], 4, 2)

Categories ==
    Scene([ADD_NEW_DISCUSSION_CATEGORY |->
               {<<"top", "">>, <<"sub", "c1">>, <<"top", "c9">>},
           CHANGE_DISCUSSION_CATEGORY_NAME |-> {<<"c1", "sub">>, <<"c2", "top">>},
           CHANGE_DISCUSSION_CATEGORY_DESCRIPTION |-> {<<"c1", "about">>},
           CHANGE_DISCUSSION_CATEGORY_DISPLAY_ORDER |-> {<<"c1", 32768>>, <<"c1", 65543>>},
           CHANGE_DISCUSSION_CATEGORY_PARENT |->
               {<<"c1", "c2">>, <<"c2", "c1">>, <<"c2", "">>, <<"c1", "c1">>}], 5, 1)

Attachments ==
    Scene(Register @@
          [ADD_NEW_ATTACHMENT |-> {<<"pic", 2>>, <<"doc", 3>>},
           CHANGE_USER_ATTACHMENT_QUOTA |-> {<<"u1", 2>>},
           CHANGE_ATTACHMENT_NAME |-> {<<"a1", "photo">>},
           CHANGE_ATTACHMENT_APPROVAL |-> {<<"a1", 0>>, <<"a1", 1>>}], 4, 1)

Others == Scene([type \in OtherEvent |-> {}], 1, 1)

MCScenes == {Accounts, Profiles, Threads, Messages, Followers, Hidden, Tags,
             Categories, Attachments, Others}
=============================================================================
