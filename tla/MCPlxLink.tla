----------------------------- MODULE MCPlxLink -----------------------------
(* The command link, made finite for TLC. *)
EXTENDS PlxLink, TLC

=============================================================================
