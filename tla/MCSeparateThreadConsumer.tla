---------------------- MODULE MCSeparateThreadConsumer ----------------------
(* SeparateThreadConsumer on small instances.                              *)
EXTENDS SeparateThreadConsumer
=============================================================================
