------------------------- MODULE MCEventPersistence -------------------------
(* EventPersistence on small instances: every second event refers to the   *)
(* entity created by the event before it.                                  *)
EXTENDS EventPersistence

MCNeeds(e) == IF e % 2 = 0 THEN {e - 1} ELSE {}
=============================================================================
