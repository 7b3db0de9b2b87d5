---------------------------- MODULE EventFormats ----------------------------
(* The contents of the event store: for each type of event the fields that  *)
(* EventObserver writes after the context, and those that EventImporter     *)
(* reads for each version of the type.                                      *)
(*                                                                          *)
(* A stored event is a record with the code of its type, its version, its   *)
(* context and its cells; a cell keeps the type that it was written with.   *)
(* Only widths matter to a reader: it takes the next bytes for what it      *)
(* expects.  Text is prefixed by its length.                                *)
EXTENDS Integers, Sequences, TLC

Each(names, value) == [n \in names |-> value]

Width ==
    [id |-> 16, text |-> 0, u16 |-> 2, i16 |-> 2, u32 |-> 4, u64 |-> 8,
     privilege |-> 2, value |-> 2, duration |-> 8]

\* Integers of 16 bits.
UnsignedShort == 0 .. 65535
----------------------------------------------------------------------------
(* The codes of the types.                                                  *)

\* enum EventType; UNKNOWN is 0.
EventType ==
    <<"ADD_NEW_USER", "CHANGE_USER_NAME", "CHANGE_USER_INFO", "CHANGE_USER_TITLE",
      "CHANGE_USER_SIGNATURE", "CHANGE_USER_LOGO", "DELETE_USER",
      "ADD_NEW_DISCUSSION_THREAD", "CHANGE_DISCUSSION_THREAD_NAME",
      "CHANGE_DISCUSSION_THREAD_PIN_DISPLAY_ORDER", "DELETE_DISCUSSION_THREAD",
      "MERGE_DISCUSSION_THREADS", "SUBSCRIBE_TO_DISCUSSION_THREAD",
      "UNSUBSCRIBE_FROM_DISCUSSION_THREAD", "ADD_NEW_DISCUSSION_THREAD_MESSAGE",
      "CHANGE_DISCUSSION_THREAD_MESSAGE_CONTENT",
      "INCREMENT_DISCUSSION_THREAD_NUMBER_OF_VISITS",
      "MOVE_DISCUSSION_THREAD_MESSAGE", "DELETE_DISCUSSION_THREAD_MESSAGE",
      "DISCUSSION_THREAD_MESSAGE_UP_VOTE", "DISCUSSION_THREAD_MESSAGE_DOWN_VOTE",
      "DISCUSSION_THREAD_MESSAGE_RESET_VOTE",
      "ADD_COMMENT_TO_DISCUSSION_THREAD_MESSAGE",
      "SOLVE_DISCUSSION_THREAD_MESSAGE_COMMENT", "ADD_NEW_DISCUSSION_TAG",
      "CHANGE_DISCUSSION_TAG_NAME", "CHANGE_DISCUSSION_TAG_UI_BLOB",
      "DELETE_DISCUSSION_TAG", "ADD_DISCUSSION_TAG_TO_THREAD",
      "REMOVE_DISCUSSION_TAG_FROM_THREAD", "MERGE_DISCUSSION_TAGS",
      "ADD_NEW_DISCUSSION_CATEGORY", "CHANGE_DISCUSSION_CATEGORY_NAME",
      "CHANGE_DISCUSSION_CATEGORY_DESCRIPTION",
      "CHANGE_DISCUSSION_CATEGORY_DISPLAY_ORDER",
      "CHANGE_DISCUSSION_CATEGORY_PARENT", "DELETE_DISCUSSION_CATEGORY",
      "ADD_DISCUSSION_TAG_TO_CATEGORY", "REMOVE_DISCUSSION_TAG_FROM_CATEGORY",
      "CHANGE_DISCUSSION_THREAD_MESSAGE_REQUIRED_PRIVILEGE_FOR_THREAD_MESSAGE",
      "CHANGE_DISCUSSION_THREAD_MESSAGE_REQUIRED_PRIVILEGE_FOR_THREAD",
      "CHANGE_DISCUSSION_THREAD_MESSAGE_REQUIRED_PRIVILEGE_FOR_TAG",
      "CHANGE_DISCUSSION_THREAD_MESSAGE_REQUIRED_PRIVILEGE_FORUM_WIDE",
      "CHANGE_DISCUSSION_THREAD_REQUIRED_PRIVILEGE_FOR_THREAD",
      "CHANGE_DISCUSSION_THREAD_REQUIRED_PRIVILEGE_FOR_TAG",
      "CHANGE_DISCUSSION_THREAD_REQUIRED_PRIVILEGE_FORUM_WIDE",
      "CHANGE_DISCUSSION_TAG_REQUIRED_PRIVILEGE_FOR_TAG",
      "CHANGE_DISCUSSION_TAG_REQUIRED_PRIVILEGE_FORUM_WIDE",
      "CHANGE_DISCUSSION_CATEGORY_REQUIRED_PRIVILEGE_FOR_CATEGORY",
      "CHANGE_DISCUSSION_CATEGORY_REQUIRED_PRIVILEGE_FORUM_WIDE",
      "CHANGE_FORUM_WIDE_REQUIRED_PRIVILEGE",
      "CHANGE_FORUM_WIDE_DEFAULT_PRIVILEGE_LEVEL",
      "ASSIGN_DISCUSSION_THREAD_MESSAGE_PRIVILEGE",
      "ASSIGN_DISCUSSION_THREAD_PRIVILEGE", "ASSIGN_DISCUSSION_TAG_PRIVILEGE",
      "ASSIGN_DISCUSSION_CATEGORY_PRIVILEGE", "ASSIGN_FORUM_WIDE_PRIVILEGE",
      "QUOTE_USER_IN_DISCUSSION_THREAD_MESSAGE",
      "CHANGE_DISCUSSION_THREAD_MESSAGE_APPROVAL",
      "INCREMENT_USER_LATEST_VISITED_PAGE", "CHANGE_DISCUSSION_THREAD_APPROVAL",
      "SEND_PRIVATE_MESSAGE", "DELETE_PRIVATE_MESSAGE",
      "CHANGE_USER_ATTACHMENT_QUOTA", "ADD_NEW_ATTACHMENT",
      "CHANGE_ATTACHMENT_NAME", "CHANGE_ATTACHMENT_APPROVAL",
      "ADD_ATTACHMENT_TO_DISCUSSION_THREAD_MESSAGE",
      "REMOVE_ATTACHMENT_FROM_DISCUSSION_THREAD_MESSAGE", "DELETE_ATTACHMENT",
      "INCREMENT_ATTACHMENT_NUMBER_OF_GETS">>

\* The import functions "must be in the same order as the elements of
\* EventType": the groups of the list, each in its order.
ContentImporters ==
    <<"ADD_NEW_USER", "CHANGE_USER_NAME", "CHANGE_USER_INFO", "CHANGE_USER_TITLE",
      "CHANGE_USER_SIGNATURE", "CHANGE_USER_LOGO", "DELETE_USER">>
    \o <<"ADD_NEW_DISCUSSION_THREAD", "CHANGE_DISCUSSION_THREAD_NAME",
         "CHANGE_DISCUSSION_THREAD_PIN_DISPLAY_ORDER", "DELETE_DISCUSSION_THREAD",
         "MERGE_DISCUSSION_THREADS", "SUBSCRIBE_TO_DISCUSSION_THREAD",
         "UNSUBSCRIBE_FROM_DISCUSSION_THREAD">>
    \o <<"ADD_NEW_DISCUSSION_THREAD_MESSAGE",
         "CHANGE_DISCUSSION_THREAD_MESSAGE_CONTENT",
         "INCREMENT_DISCUSSION_THREAD_NUMBER_OF_VISITS",
         "MOVE_DISCUSSION_THREAD_MESSAGE", "DELETE_DISCUSSION_THREAD_MESSAGE",
         "DISCUSSION_THREAD_MESSAGE_UP_VOTE",
         "DISCUSSION_THREAD_MESSAGE_DOWN_VOTE",
         "DISCUSSION_THREAD_MESSAGE_RESET_VOTE",
         "ADD_COMMENT_TO_DISCUSSION_THREAD_MESSAGE",
         "SOLVE_DISCUSSION_THREAD_MESSAGE_COMMENT">>
    \o <<"ADD_NEW_DISCUSSION_TAG", "CHANGE_DISCUSSION_TAG_NAME",
         "CHANGE_DISCUSSION_TAG_UI_BLOB", "DELETE_DISCUSSION_TAG",
         "ADD_DISCUSSION_TAG_TO_THREAD", "REMOVE_DISCUSSION_TAG_FROM_THREAD",
         "MERGE_DISCUSSION_TAGS">>
    \o <<"ADD_NEW_DISCUSSION_CATEGORY", "CHANGE_DISCUSSION_CATEGORY_NAME",
         "CHANGE_DISCUSSION_CATEGORY_DESCRIPTION",
         "CHANGE_DISCUSSION_CATEGORY_DISPLAY_ORDER",
         "CHANGE_DISCUSSION_CATEGORY_PARENT", "DELETE_DISCUSSION_CATEGORY",
         "ADD_DISCUSSION_TAG_TO_CATEGORY", "REMOVE_DISCUSSION_TAG_FROM_CATEGORY">>

PrivilegeImporters ==
    <<"CHANGE_DISCUSSION_THREAD_MESSAGE_REQUIRED_PRIVILEGE_FOR_THREAD_MESSAGE",
      "CHANGE_DISCUSSION_THREAD_MESSAGE_REQUIRED_PRIVILEGE_FOR_THREAD",
      "CHANGE_DISCUSSION_THREAD_MESSAGE_REQUIRED_PRIVILEGE_FOR_TAG",
      "CHANGE_DISCUSSION_THREAD_MESSAGE_REQUIRED_PRIVILEGE_FORUM_WIDE",
      "CHANGE_DISCUSSION_THREAD_REQUIRED_PRIVILEGE_FOR_THREAD",
      "CHANGE_DISCUSSION_THREAD_REQUIRED_PRIVILEGE_FOR_TAG",
      "CHANGE_DISCUSSION_THREAD_REQUIRED_PRIVILEGE_FORUM_WIDE",
      "CHANGE_DISCUSSION_TAG_REQUIRED_PRIVILEGE_FOR_TAG",
      "CHANGE_DISCUSSION_TAG_REQUIRED_PRIVILEGE_FORUM_WIDE",
      "CHANGE_DISCUSSION_CATEGORY_REQUIRED_PRIVILEGE_FOR_CATEGORY",
      "CHANGE_DISCUSSION_CATEGORY_REQUIRED_PRIVILEGE_FORUM_WIDE",
      "CHANGE_FORUM_WIDE_REQUIRED_PRIVILEGE",
      "CHANGE_FORUM_WIDE_DEFAULT_PRIVILEGE_LEVEL">>
    \o <<"ASSIGN_DISCUSSION_THREAD_MESSAGE_PRIVILEGE",
         "ASSIGN_DISCUSSION_THREAD_PRIVILEGE", "ASSIGN_DISCUSSION_TAG_PRIVILEGE",
         "ASSIGN_DISCUSSION_CATEGORY_PRIVILEGE", "ASSIGN_FORUM_WIDE_PRIVILEGE">>

LaterImporters ==
    <<"QUOTE_USER_IN_DISCUSSION_THREAD_MESSAGE",
      "CHANGE_DISCUSSION_THREAD_MESSAGE_APPROVAL",
      "INCREMENT_USER_LATEST_VISITED_PAGE", "CHANGE_DISCUSSION_THREAD_APPROVAL">>
    \o <<"SEND_PRIVATE_MESSAGE", "DELETE_PRIVATE_MESSAGE">>
    \o <<"CHANGE_USER_ATTACHMENT_QUOTA", "ADD_NEW_ATTACHMENT",
         "CHANGE_ATTACHMENT_NAME", "CHANGE_ATTACHMENT_APPROVAL",
         "ADD_ATTACHMENT_TO_DISCUSSION_THREAD_MESSAGE",
         "REMOVE_ATTACHMENT_FROM_DISCUSSION_THREAD_MESSAGE", "DELETE_ATTACHMENT",
         "INCREMENT_ATTACHMENT_NUMBER_OF_GETS">>

importFunctions == ContentImporters \o PrivilegeImporters \o LaterImporters
----------------------------------------------------------------------------
(* EventObserver: the version and the fields of each event.                 *)

Format(version, fields) == [version |-> version, fields |-> fields]

UserEventsWritten ==
    Each({"ADD_NEW_USER"}, Format(1, <<"id", "text", "text">>))
    @@ Each({"CHANGE_USER_NAME", "CHANGE_USER_INFO", "CHANGE_USER_TITLE",
             "CHANGE_USER_SIGNATURE", "CHANGE_USER_LOGO"},
            Format(1, <<"id", "text">>))
    @@ Each({"CHANGE_USER_ATTACHMENT_QUOTA"}, Format(1, <<"id", "u64">>))

AccountEventsWritten ==
    Each({"DELETE_USER", "DELETE_PRIVATE_MESSAGE"}, Format(1, <<"id">>))
    @@ Each({"SEND_PRIVATE_MESSAGE"}, Format(1, <<"id", "id", "text">>))

ThreadEventsWritten ==
    Each({"ADD_NEW_DISCUSSION_THREAD"}, Format(2, <<"id", "text", "u32">>))
    @@ Each({"CHANGE_DISCUSSION_THREAD_NAME"}, Format(1, <<"id", "text">>))
    @@ Each({"CHANGE_DISCUSSION_THREAD_PIN_DISPLAY_ORDER"}, Format(1, <<"id", "u16">>))
    @@ Each({"CHANGE_DISCUSSION_THREAD_APPROVAL"}, Format(1, <<"id", "u32">>))
    @@ Each({"DELETE_DISCUSSION_THREAD", "SUBSCRIBE_TO_DISCUSSION_THREAD",
             "UNSUBSCRIBE_FROM_DISCUSSION_THREAD"}, Format(1, <<"id">>))
    @@ Each({"MERGE_DISCUSSION_THREADS", "MOVE_DISCUSSION_THREAD_MESSAGE"},
            Format(1, <<"id", "id">>))

MessageEventsWritten ==
    Each({"ADD_NEW_DISCUSSION_THREAD_MESSAGE"},
         Format(3, <<"id", "id", "u32", "text">>))
    @@ Each({"CHANGE_DISCUSSION_THREAD_MESSAGE_CONTENT"},
            Format(1, <<"id", "text", "text">>))
    @@ Each({"CHANGE_DISCUSSION_THREAD_MESSAGE_APPROVAL"}, Format(1, <<"id", "u32">>))
    @@ Each({"DELETE_DISCUSSION_THREAD_MESSAGE", "DISCUSSION_THREAD_MESSAGE_UP_VOTE",
             "DISCUSSION_THREAD_MESSAGE_DOWN_VOTE",
             "DISCUSSION_THREAD_MESSAGE_RESET_VOTE",
             "SOLVE_DISCUSSION_THREAD_MESSAGE_COMMENT"}, Format(1, <<"id">>))
    @@ Each({"ADD_COMMENT_TO_DISCUSSION_THREAD_MESSAGE"},
            Format(1, <<"id", "id", "text">>))
    @@ Each({"QUOTE_USER_IN_DISCUSSION_THREAD_MESSAGE"}, Format(1, <<"id", "id">>))

TagEventsWritten ==
    Each({"ADD_NEW_DISCUSSION_TAG", "CHANGE_DISCUSSION_TAG_NAME",
          "CHANGE_DISCUSSION_TAG_UI_BLOB"}, Format(1, <<"id", "text">>))
    @@ Each({"DELETE_DISCUSSION_TAG"}, Format(1, <<"id">>))
    @@ Each({"ADD_DISCUSSION_TAG_TO_THREAD", "REMOVE_DISCUSSION_TAG_FROM_THREAD",
             "MERGE_DISCUSSION_TAGS"}, Format(1, <<"id", "id">>))

CategoryEventsWritten ==
    Each({"ADD_NEW_DISCUSSION_CATEGORY"}, Format(1, <<"id", "id", "text">>))
    @@ Each({"CHANGE_DISCUSSION_CATEGORY_NAME",
             "CHANGE_DISCUSSION_CATEGORY_DESCRIPTION"}, Format(1, <<"id", "text">>))
    @@ Each({"CHANGE_DISCUSSION_CATEGORY_DISPLAY_ORDER"}, Format(1, <<"id", "i16">>))
    @@ Each({"CHANGE_DISCUSSION_CATEGORY_PARENT", "ADD_DISCUSSION_TAG_TO_CATEGORY",
             "REMOVE_DISCUSSION_TAG_FROM_CATEGORY"}, Format(1, <<"id", "id">>))
    @@ Each({"DELETE_DISCUSSION_CATEGORY"}, Format(1, <<"id">>))

AttachmentEventsWritten ==
    Each({"ADD_NEW_ATTACHMENT"}, Format(1, <<"id", "text", "u64", "u32">>))
    @@ Each({"CHANGE_ATTACHMENT_NAME"}, Format(1, <<"id", "text">>))
    @@ Each({"CHANGE_ATTACHMENT_APPROVAL"}, Format(1, <<"id", "u32">>))
    @@ Each({"ADD_ATTACHMENT_TO_DISCUSSION_THREAD_MESSAGE",
             "REMOVE_ATTACHMENT_FROM_DISCUSSION_THREAD_MESSAGE"},
            Format(1, <<"id", "id">>))
    @@ Each({"DELETE_ATTACHMENT"}, Format(1, <<"id">>))

MessagePrivilegeEventsWritten ==
    Each({"CHANGE_DISCUSSION_THREAD_MESSAGE_REQUIRED_PRIVILEGE_FOR_THREAD_MESSAGE",
          "CHANGE_DISCUSSION_THREAD_MESSAGE_REQUIRED_PRIVILEGE_FOR_THREAD",
          "CHANGE_DISCUSSION_THREAD_MESSAGE_REQUIRED_PRIVILEGE_FOR_TAG",
          "CHANGE_DISCUSSION_THREAD_REQUIRED_PRIVILEGE_FOR_THREAD",
          "CHANGE_DISCUSSION_THREAD_REQUIRED_PRIVILEGE_FOR_TAG"},
         Format(1, <<"id", "privilege", "value">>))
    @@ Each({"CHANGE_DISCUSSION_THREAD_MESSAGE_REQUIRED_PRIVILEGE_FORUM_WIDE",
             "CHANGE_DISCUSSION_THREAD_REQUIRED_PRIVILEGE_FORUM_WIDE"},
            Format(1, <<"privilege", "value">>))

ForumPrivilegeEventsWritten ==
    Each({"CHANGE_DISCUSSION_TAG_REQUIRED_PRIVILEGE_FOR_TAG",
          "CHANGE_DISCUSSION_CATEGORY_REQUIRED_PRIVILEGE_FOR_CATEGORY"},
         Format(1, <<"id", "privilege", "value">>))
    @@ Each({"CHANGE_DISCUSSION_TAG_REQUIRED_PRIVILEGE_FORUM_WIDE",
             "CHANGE_DISCUSSION_CATEGORY_REQUIRED_PRIVILEGE_FORUM_WIDE",
             "CHANGE_FORUM_WIDE_REQUIRED_PRIVILEGE"},
            Format(1, <<"privilege", "value">>))
    @@ Each({"CHANGE_FORUM_WIDE_DEFAULT_PRIVILEGE_LEVEL"},
            Format(1, <<"privilege", "value", "duration">>))

AssignmentEventsWritten ==
    Each({"ASSIGN_DISCUSSION_THREAD_MESSAGE_PRIVILEGE",
          "ASSIGN_DISCUSSION_THREAD_PRIVILEGE", "ASSIGN_DISCUSSION_TAG_PRIVILEGE",
          "ASSIGN_DISCUSSION_CATEGORY_PRIVILEGE"},
         Format(1, <<"id", "id", "value", "duration">>))
    @@ Each({"ASSIGN_FORUM_WIDE_PRIVILEGE"}, Format(1, <<"id", "value", "duration">>))

\* These carry an empty context.
PeriodicEventsWritten ==
    Each({"INCREMENT_DISCUSSION_THREAD_NUMBER_OF_VISITS",
          "INCREMENT_ATTACHMENT_NUMBER_OF_GETS"}, Format(1, <<"id", "u32">>))
    @@ Each({"INCREMENT_USER_LATEST_VISITED_PAGE"}, Format(1, <<"id", "id", "u32">>))

Written ==
    UserEventsWritten @@ AccountEventsWritten @@ ThreadEventsWritten
    @@ MessageEventsWritten @@ TagEventsWritten @@ CategoryEventsWritten
    @@ AttachmentEventsWritten @@ MessagePrivilegeEventsWritten
    @@ ForumPrivilegeEventsWritten @@ AssignmentEventsWritten @@ PeriodicEventsWritten
----------------------------------------------------------------------------
(* EventImporter: the fields that each version of a type is read by.  Some  *)
(* text must not be empty.                                                  *)

Versions(names, v1) == Each(names, <<v1>>)

UserEventsRead ==
    Versions({"ADD_NEW_USER"}, <<"id", "nonempty", "nonempty">>)
    @@ Versions({"CHANGE_USER_NAME"}, <<"id", "nonempty">>)
    @@ Versions({"CHANGE_USER_INFO", "CHANGE_USER_TITLE", "CHANGE_USER_SIGNATURE",
                 "CHANGE_USER_LOGO"}, <<"id", "text">>)
    @@ Versions({"CHANGE_USER_ATTACHMENT_QUOTA"}, <<"id", "u64">>)
    @@ Versions({"DELETE_USER", "DELETE_PRIVATE_MESSAGE"}, <<"id">>)
    @@ Versions({"SEND_PRIVATE_MESSAGE"}, <<"id", "id", "nonempty">>)

\* The first version of a thread has no approval.
ThreadEventsRead ==
    [ADD_NEW_DISCUSSION_THREAD |->
        <<<<"id", "nonempty">>, <<"id", "nonempty", "u32">>>>]
    @@ Versions({"CHANGE_DISCUSSION_THREAD_NAME"}, <<"id", "nonempty">>)
    @@ Versions({"DELETE_DISCUSSION_THREAD", "SUBSCRIBE_TO_DISCUSSION_THREAD",
                 "UNSUBSCRIBE_FROM_DISCUSSION_THREAD"}, <<"id">>)
    @@ Versions({"MERGE_DISCUSSION_THREADS"}, <<"id", "id">>)

\* Neither have the first versions of a message; the second and the fourth refer
\* to the text by its size and its offset in a file of its own.
MessageEventsRead ==
    [ADD_NEW_DISCUSSION_THREAD_MESSAGE |->
        <<<<"id", "id", "nonempty">>, <<"id", "id", "u32", "u64">>,
          <<"id", "id", "u32", "nonempty">>, <<"id", "id", "u32", "u32", "u64">>>>]
    @@ Versions({"CHANGE_DISCUSSION_THREAD_MESSAGE_CONTENT"},
                <<"id", "nonempty", "text">>)
    @@ Versions({"CHANGE_DISCUSSION_THREAD_MESSAGE_APPROVAL"}, <<"id", "u32">>)
    @@ Versions({"MOVE_DISCUSSION_THREAD_MESSAGE"}, <<"id", "id">>)
    @@ Versions({"DELETE_DISCUSSION_THREAD_MESSAGE",
                 "DISCUSSION_THREAD_MESSAGE_UP_VOTE",
                 "DISCUSSION_THREAD_MESSAGE_DOWN_VOTE",
                 "DISCUSSION_THREAD_MESSAGE_RESET_VOTE",
                 "SOLVE_DISCUSSION_THREAD_MESSAGE_COMMENT"}, <<"id">>)
    @@ Versions({"ADD_COMMENT_TO_DISCUSSION_THREAD_MESSAGE"},
                <<"id", "id", "nonempty">>)
    @@ Versions({"QUOTE_USER_IN_DISCUSSION_THREAD_MESSAGE"}, <<"id", "id">>)

TagAndCategoryEventsRead ==
    Versions({"ADD_NEW_DISCUSSION_TAG", "CHANGE_DISCUSSION_TAG_NAME",
              "CHANGE_DISCUSSION_CATEGORY_NAME"}, <<"id", "nonempty">>)
    @@ Versions({"CHANGE_DISCUSSION_TAG_UI_BLOB",
                 "CHANGE_DISCUSSION_CATEGORY_DESCRIPTION"}, <<"id", "text">>)
    @@ Versions({"DELETE_DISCUSSION_TAG", "DELETE_DISCUSSION_CATEGORY"}, <<"id">>)
    @@ Versions({"ADD_DISCUSSION_TAG_TO_THREAD", "REMOVE_DISCUSSION_TAG_FROM_THREAD",
                 "MERGE_DISCUSSION_TAGS", "CHANGE_DISCUSSION_CATEGORY_PARENT",
                 "ADD_DISCUSSION_TAG_TO_CATEGORY",
                 "REMOVE_DISCUSSION_TAG_FROM_CATEGORY"}, <<"id", "id">>)
    @@ Versions({"ADD_NEW_DISCUSSION_CATEGORY"}, <<"id", "id", "nonempty">>)
    @@ Versions({"CHANGE_DISCUSSION_CATEGORY_DISPLAY_ORDER"}, <<"id", "i16">>)

AttachmentEventsRead ==
    Versions({"ADD_NEW_ATTACHMENT"}, <<"id", "nonempty", "u64", "u32">>)
    @@ Versions({"CHANGE_ATTACHMENT_NAME"}, <<"id", "nonempty">>)
    @@ Versions({"CHANGE_ATTACHMENT_APPROVAL"}, <<"id", "u32">>)
    @@ Versions({"ADD_ATTACHMENT_TO_DISCUSSION_THREAD_MESSAGE",
                 "REMOVE_ATTACHMENT_FROM_DISCUSSION_THREAD_MESSAGE"}, <<"id", "id">>)
    @@ Versions({"DELETE_ATTACHMENT"}, <<"id">>)

CounterEventsRead ==
    Versions({"INCREMENT_DISCUSSION_THREAD_NUMBER_OF_VISITS",
              "INCREMENT_ATTACHMENT_NUMBER_OF_GETS",
              "CHANGE_DISCUSSION_THREAD_APPROVAL"}, <<"id", "u32">>)
    @@ Versions({"INCREMENT_USER_LATEST_VISITED_PAGE"}, <<"id", "id", "u32">>)
    @@ Versions({"CHANGE_DISCUSSION_THREAD_PIN_DISPLAY_ORDER"}, <<"id", "u16">>)

PrivilegeEventsRead ==
    Versions({"CHANGE_DISCUSSION_THREAD_MESSAGE_REQUIRED_PRIVILEGE_FOR_THREAD_MESSAGE",
              "CHANGE_DISCUSSION_THREAD_MESSAGE_REQUIRED_PRIVILEGE_FOR_THREAD",
              "CHANGE_DISCUSSION_THREAD_MESSAGE_REQUIRED_PRIVILEGE_FOR_TAG",
              "CHANGE_DISCUSSION_THREAD_REQUIRED_PRIVILEGE_FOR_THREAD",
              "CHANGE_DISCUSSION_THREAD_REQUIRED_PRIVILEGE_FOR_TAG",
              "CHANGE_DISCUSSION_TAG_REQUIRED_PRIVILEGE_FOR_TAG",
              "CHANGE_DISCUSSION_CATEGORY_REQUIRED_PRIVILEGE_FOR_CATEGORY"},
             <<"id", "privilege", "value">>)
    @@ Versions({"CHANGE_DISCUSSION_THREAD_MESSAGE_REQUIRED_PRIVILEGE_FORUM_WIDE",
                 "CHANGE_DISCUSSION_THREAD_REQUIRED_PRIVILEGE_FORUM_WIDE",
                 "CHANGE_DISCUSSION_TAG_REQUIRED_PRIVILEGE_FORUM_WIDE",
                 "CHANGE_DISCUSSION_CATEGORY_REQUIRED_PRIVILEGE_FORUM_WIDE",
                 "CHANGE_FORUM_WIDE_REQUIRED_PRIVILEGE"}, <<"privilege", "value">>)

AssignmentEventsRead ==
    Versions({"CHANGE_FORUM_WIDE_DEFAULT_PRIVILEGE_LEVEL"},
             <<"privilege", "value", "duration">>)
    @@ Versions({"ASSIGN_DISCUSSION_THREAD_MESSAGE_PRIVILEGE",
                 "ASSIGN_DISCUSSION_THREAD_PRIVILEGE",
                 "ASSIGN_DISCUSSION_TAG_PRIVILEGE",
                 "ASSIGN_DISCUSSION_CATEGORY_PRIVILEGE"},
                <<"id", "id", "value", "duration">>)
    @@ Versions({"ASSIGN_FORUM_WIDE_PRIVILEGE"}, <<"id", "value", "duration">>)

Read ==
    UserEventsRead @@ ThreadEventsRead @@ MessageEventsRead
    @@ TagAndCategoryEventsRead @@ AttachmentEventsRead @@ CounterEventsRead
    @@ PrivilegeEventsRead @@ AssignmentEventsRead
----------------------------------------------------------------------------
(* Writing and reading.                                                     *)

\* What is left of a number in a signed field of 16 bits.
Signed(v) == LET r == v % 65536 IN IF r < 32768 THEN r ELSE r - 65536

\* recordBlob: the values of the fields in their order.
Encode(type, context, values) ==
    LET f == Written[type]
    IN [code |-> CHOOSE i \in 1 .. Len(EventType) : EventType[i] = type,
        version |-> f.version,
        context |-> context,
        cells |-> [i \in 1 .. Len(f.fields) |->
                     [type |-> f.fields[i],
                      value |-> IF f.fields[i] = "i16" THEN Signed(values[i])
                                ELSE values[i]]]]

\* processEvent finds the import function by the code of the type.
ImporterOf(e) == importFunctions[e.code]

MutantFits(field, cell) ==
    IF field \in {"text", "nonempty"} THEN cell.type = "text" /\ cell.value # ""
    ELSE cell.type # "text" /\ Width[field] = Width[cell.type]

\* READ_UUID, READ_TYPE, READ_STRING and READ_NONEMPTY_STRING of one cell.
Fits(field, cell) ==
    IF field \in {"text", "nonempty"}
    THEN cell.type = "text" /\ (field = "nonempty" => cell.value # "")
    ELSE cell.type # "text" /\ Width[field] = Width[cell.type]

\* The event is read to its end, neither more nor less.
Decodes(e) ==
    /\ e.code <= Len(importFunctions)
    /\ e.version <= Len(Read[ImporterOf(e)])
    /\ LET fields == Read[ImporterOf(e)][e.version]
       IN /\ Len(fields) = Len(e.cells)
          /\ \A i \in 1 .. Len(fields) : Fits(fields[i], e.cells[i])

\* Each type has its import function at its place; this function knows the version
\* that is written and takes its fields one by one.
ASSUME FormatsAssumption ==
    /\ Len(importFunctions) = Len(EventType)
    /\ \A i \in 1 .. Len(EventType) :
           LET written == Written[EventType[i]]
               read == Read[EventType[i]]
           IN /\ importFunctions[i] = EventType[i]
              /\ written.fields \in Seq(DOMAIN Width)
              /\ written.version \in 1 .. Len(read)
              /\ Len(read[written.version]) = Len(written.fields)
              /\ \A j \in 1 .. Len(written.fields) :
                     Fits(read[written.version][j],
                          [type |-> written.fields[j], value |-> "text"])
=============================================================================
