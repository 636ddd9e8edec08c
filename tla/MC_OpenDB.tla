----------------------------- MODULE MC_OpenDB ------------------------------
(***************************************************************************)
(* Two keys (so that SMove and a clear of one key next to another are    *)
(* exercised), one hash field and value, one member, and sorted-set       *)
(* scores 1..2.  A process restart (Open) may happen between any two      *)
(* commands.                                                               *)
(***************************************************************************)
EXTENDS OpenDB, TLC

CONSTANTS k1, k2, f1, f2, v1, m1
=============================================================================
