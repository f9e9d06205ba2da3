------------------------------ MODULE MCAdapter ------------------------------
(* The goal adapter with its limits at one or two. *)
EXTENDS AdapterChecks

=============================================================================
