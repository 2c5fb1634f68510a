---------------------------- MODULE MCSatelFrame ----------------------------
(* SatelFrame over the bytes that matter to the format: FE, F0 and 0D, and *)
(* one that does not.                                                      *)
EXTENDS SatelFrame

MCPass == <<18, 52, 255, 255, 255, 255, 255, 255>>
=============================================================================
