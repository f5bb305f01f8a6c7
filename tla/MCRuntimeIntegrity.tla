------------------------- MODULE MCRuntimeIntegrity --------------------------
(* The instance of RuntimeIntegrity for TLC.                                *)
EXTENDS RuntimeIntegrity
==============================================================================
