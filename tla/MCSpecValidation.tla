-------------------------- MODULE MCSpecValidation --------------------------
(* Model checking of SpecValidation: every graph over the keys.            *)
EXTENDS SpecValidation
=============================================================================
