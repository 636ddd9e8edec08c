------------------------------- MODULE MC_List -------------------------------
(***************************************************************************)
(* Two keys and two values; seqs four wide so that a few pushes wrap      *)
(* headSeq below 0 and tailSeq past the top.  Readers r1 and r2 are the   *)
(* LLen callers: MC_List.cfg has one, MC_List_LLenRace.cfg both.          *)
(***************************************************************************)
EXTENDS List, TLC

CONSTANTS k1, k2, v1, v2, r1, r2
=============================================================================
