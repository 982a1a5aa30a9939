----------------------------- MODULE MCResearch ------------------------------
(* Small instances of Research for TLC.                                      *)
EXTENDS Research
==============================================================================
