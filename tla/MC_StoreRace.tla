---------------------------- MODULE MC_StoreRace ----------------------------
(***************************************************************************)
(* Two goroutines, one holding hashIndex.mu and one holding zsetIndex.mu,  *)
(* each storing the entries of two calls.  Entries of different Marks go  *)
(* to different files, which no step of another family touches; the race *)
(* needs two families' entries with one Mark, as HSet and ZClear give.   *)
(***************************************************************************)
EXTENDS StoreRace, TLC

CONSTANTS k1, k2, v1, f1, hashW, zsetW

\* HSet on the hash lock and ZClear on the zset lock: NewEntryNoExtra gives
\* the ZClear entries Mark ZSetZClear = 2 = Hash, the hash family
SharedWork ==
    hashW :> << NewEntry(k1, v1, f1, Hash, HashHSet), NewEntry(k2, v1, f1, Hash, HashHSet) >>
 @@ zsetW :> << NewEntryNoExtra(k1, Empty, ZSet, ZSetZClear),
                NewEntryNoExtra(k2, Empty, ZSet, ZSetZClear) >>
=============================================================================
