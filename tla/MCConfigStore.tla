--------------------------- MODULE MCConfigStore ---------------------------
(* The configuration store, made finite for TLC. *)
EXTENDS ConfigStore, TLC

=============================================================================
