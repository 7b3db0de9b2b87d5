------------------------- MODULE MCPeriodicCounters -------------------------
(* PeriodicCounters on small instances.  The run checks liveness, so it     *)
(* uses no symmetry.                                                       *)
EXTENDS PeriodicCounters
=============================================================================
