------------------------- MODULE MCObservationStore -------------------------
(* Instances of ObservationStore for TLC. *)
EXTENDS ObservationStore, TLC

CONSTANTS s1
=============================================================================
