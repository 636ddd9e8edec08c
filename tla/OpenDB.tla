------------------------------- MODULE OpenDB -------------------------------
(***************************************************************************)
(* The hash, set and sorted-set command layer of OpenDB over the segment  *)
(* manager, and Open's rebuilding of their indexes from the data files.   *)
(*                                                                         *)
(* Each command runs under its category's write lock, so one command is   *)
(* one atomic step here: the index update and the OpenDB.store it makes   *)
(* happen together, in the order of the code.  A command called with     *)
(* several fields or members (HMSet, SAdd m1 m2, ...) repeats the single- *)
(* item step under the same lock, so the single-item step is modelled.    *)
(* Open is a restart: Build, NewDBFile and loadIdxFromFiles on the files  *)
(* the previous run left; nothing in memory survives it.                  *)
(***************************************************************************)
EXTENDS Segments

CONSTANTS
    Keys,           \* keys the commands are called with
    Fields,         \* hash fields
    Vals,           \* hash values (non-empty: HSet of an empty value is a no-op)
    Members,        \* set and sorted-set members
    Scores,         \* scores ZAdd is called with
    Increments,     \* increments ZIncrBy is called with
    MaxScore,       \* bound: largest score ZIncrBy may produce
    MaxPairs,       \* bound: field-value pairs of one HMSet call
    NoKey,          \* the key has no entry in the index's map
    Nil             \* HGet / ZScore of a field or member that is absent

VARIABLES
    hashIdx,    \* db.hashIndex.indexes: hashIdx[k] is NoKey or [Fields -> Vals \cup {Nil}]
    setIdx,     \* db.setIndex.indexes: setIdx[k] is NoKey or a set of members
    zsetIdx,    \* db.zsetIndex.indexes: zsetIdx[k] is NoKey or [Members -> score or Nil]
    pending,    \* the [k, f, v] HMSet still has to store and set, under the
                \* hash lock; <<>> when no HMSet is in its loop
    hmBefore    \* history: hashIdx when the running HMSet call began

idxVars == <<hashIdx, setIdx, zsetIdx>>
vars == <<disk, active, archFiles, hist, up, storeErr, firstFault, faults,
          hashIdx, setIdx, zsetIdx, pending, hmBefore>>

-----------------------------------------------------------------------------
(* ds/hash: a map of key to a map of field to value.                      *)

EmptyHash == [f \in Fields |-> Nil]

\* Hash.exist
HExist(h, k) == h[k] # NoKey

\* Hash.HGet: nil when the key or the field is absent
IdxHGet(h, k, f) == IF HExist(h, k) THEN h[k][f] ELSE Nil

\* Hash.HSet: create the key's map when absent, then set the field
IdxHSet(h, k, f, v) ==
    [h EXCEPT ![k] = [(IF @ = NoKey THEN EmptyHash ELSE @) EXCEPT ![f] = v]]

\* Hash.HSetNx: set the field only when it does not exist yet
IdxHSetNx(h, k, f, v) == IF IdxHGet(h, k, f) # Nil THEN h ELSE IdxHSet(h, k, f, v)

\* Hash.HDel: remove the field if present; the key's map stays, even empty
IdxHDel(h, k, f) == IF IdxHGet(h, k, f) # Nil THEN [h EXCEPT ![k][f] = Nil] ELSE h

\* Hash.HClear: delete the key's map
IdxHClear(h, k) == [h EXCEPT ![k] = NoKey]

\* the fields the key's map holds; a field HDel removed is gone from it
HFields(h, k) == IF HExist(h, k) THEN {f \in Fields : h[k][f] # Nil} ELSE {}

\* Hash.HGetAll: each field with its value, in Go's map order (here a set)
IdxHGetAll(h, k) == {<<f, h[k][f]>> : f \in HFields(h, k)}

\* Hash.HExists
IdxHExists(h, k, f) == f \in HFields(h, k)

\* Hash.HLen: len of the key's map, 0 when the key is absent
IdxHLen(h, k) == Cardinality(HFields(h, k))

\* Hash.HKeys
IdxHKeys(h, k) == HFields(h, k)

\* Hash.HVals: the values, each as often as it is held (a bag)
IdxHVals(h, k) == [v \in {h[k][f] : f \in HFields(h, k)} |-> Cardinality({f \in HFields(h, k) : h[k][f] = v})]

(* ds/set (not in this repository; the contract of spec.md 4.4).          *)

IdxSIsMember(s, k, m) == s[k] # NoKey /\ m \in s[k]

IdxSAdd(s, k, m) == [s EXCEPT ![k] = (IF @ = NoKey THEN {} ELSE @) \cup {m}]

IdxSRem(s, k, m) == IF IdxSIsMember(s, k, m) THEN [s EXCEPT ![k] = @ \ {m}] ELSE s

IdxSMove(s, src, dst, m) ==
    IF IdxSIsMember(s, src, m) THEN IdxSAdd([s EXCEPT ![src] = @ \ {m}], dst, m) ELSE s

IdxSClear(s, k) == [s EXCEPT ![k] = NoKey]

IdxSMembers(s, k) == IF s[k] = NoKey THEN {} ELSE s[k]

\* Set.SUnion and Set.SDiff of the keys ks, in order
IdxSUnion(s, ks) == UNION {IdxSMembers(s, ks[i]) : i \in DOMAIN ks}

IdxSDiff(s, ks) ==
    IF ks = <<>> THEN {} ELSE IdxSMembers(s, ks[1]) \ IdxSUnion(s, Tail(ks))

(* ds/zset (not in this repository; the contract of spec.md 4.4).         *)

EmptyZset == [m \in Members |-> Nil]

IdxZScore(z, k, m) == IF z[k] = NoKey THEN Nil ELSE z[k][m]

IdxZAdd(z, k, score, m) ==
    [z EXCEPT ![k] = [(IF @ = NoKey THEN EmptyZset ELSE @) EXCEPT ![m] = score]]

\* SortedSet.ZIncrBy: the member's new score, 0 + increment when absent
IncrScore(z, k, inc, m) == IF IdxZScore(z, k, m) = Nil THEN inc ELSE IdxZScore(z, k, m) + inc

IdxZRem(z, k, m) == IF IdxZScore(z, k, m) # Nil THEN [z EXCEPT ![k][m] = Nil] ELSE z

IdxZClear(z, k) == [z EXCEPT ![k] = NoKey]

IdxZCard(z, k) == IF z[k] = NoKey THEN 0 ELSE Cardinality({m \in Members : z[k][m] # Nil})

-----------------------------------------------------------------------------
(* Read paths the commands call (opendb.go, hash.go, set.go, zset.go).    *)
(* Each takes the category's read lock and returns the index's answer.    *)

\* checkKeyValue: only an empty key is rejected; the size checks are TODO
CheckKeyValue(k) == k # Empty

\* checkExpired: a stub that reports no key as expired
CheckExpired(k, t) == FALSE

HGet(k, f) ==
    IF ~CheckKeyValue(k) \/ CheckExpired(k, Hash) THEN Nil ELSE IdxHGet(hashIdx, k, f)

\* HMGet of the fields of one HMSet call: the value of each, nil if absent
HMGet(k, fs) ==
    IF ~CheckKeyValue(k) \/ CheckExpired(k, Hash) THEN Nil
    ELSE [i \in DOMAIN fs |-> IdxHGet(hashIdx, k, fs[i])]

HKeyExists(k) == CheckKeyValue(k) /\ ~CheckExpired(k, Hash) /\ HExist(hashIdx, k)

SKeyExists(k) == CheckKeyValue(k) /\ ~CheckExpired(k, Set) /\ setIdx[k] # NoKey

\* ZScore: <<ok, score>>
ZScore(k, m) ==
    IF CheckExpired(k, ZSet) \/ IdxZScore(zsetIdx, k, m) = Nil THEN <<FALSE, 0>>
    ELSE <<TRUE, IdxZScore(zsetIdx, k, m)>>

ZKeyExists(k) == CheckKeyValue(k) /\ ~CheckExpired(k, ZSet) /\ zsetIdx[k] # NoKey

\* a read that returns none for an empty key or an expired one, else val
ReadIdx(k, t, none, val) == IF ~CheckKeyValue(k) \/ CheckExpired(k, t) THEN none ELSE val

HGetAll(k) == ReadIdx(k, Hash, {}, IdxHGetAll(hashIdx, k))

HExists(k, f) == ReadIdx(k, Hash, FALSE, IdxHExists(hashIdx, k, f))

HLen(k) == ReadIdx(k, Hash, 0, IdxHLen(hashIdx, k))

HKeys(k) == ReadIdx(k, Hash, {}, IdxHKeys(hashIdx, k))

HVals(k) == ReadIdx(k, Hash, <<>>, IdxHVals(hashIdx, k))

\* SIsMember checks no key
SIsMember(k, m) == IF CheckExpired(k, Set) THEN FALSE ELSE IdxSIsMember(setIdx, k, m)

SCard(k) == ReadIdx(k, Set, 0, Cardinality(IdxSMembers(setIdx, k)))

SMembers(k) == ReadIdx(k, Set, {}, IdxSMembers(setIdx, k))

\* SUnion and SDiff: no keys return nil; expired keys are left out
ValidKeys(ks) == SelectSeq(ks, LAMBDA k : ~CheckExpired(k, Set))

SUnion(ks) == IF ks = <<>> THEN {} ELSE IdxSUnion(setIdx, ValidKeys(ks))

SDiff(ks) == IF ks = <<>> THEN {} ELSE IdxSDiff(setIdx, ValidKeys(ks))

\* ZCard checks no key
ZCard(k) == IF CheckExpired(k, ZSet) THEN 0 ELSE IdxZCard(zsetIdx, k)

-----------------------------------------------------------------------------
(* Commands (hash.go, set.go, zset.go).  A guard is the early return that *)
(* makes the call change nothing; the rest is the body under the lock.    *)
(* The score text Float64ToStr writes into Extra is kept as the score:    *)
(* StrToFloat64 reads an integer score back exactly.                      *)

(* A command that stores first returns store's error before it touches  *)
(* its index.                                                              *)
AfterStore(idx, new) == idx' = IF storeErr' THEN idx ELSE new

HSet(k, f, v) ==
    /\ CheckKeyValue(k)
    /\ HGet(k, f) # v
    /\ Store(NewEntry(k, v, f, Hash, HashHSet))
    /\ AfterStore(hashIdx, IdxHSet(hashIdx, k, f, v))
    /\ UNCHANGED <<setIdx, zsetIdx>>

\* the index is updated first; the entry is stored when the field was new
HSetNx(k, f, v) ==
    /\ CheckKeyValue(k)
    /\ IdxHGet(hashIdx, k, f) = Nil
    /\ hashIdx' = IdxHSetNx(hashIdx, k, f, v)
    /\ Store(NewEntry(k, v, f, Hash, HashHSet))
    /\ UNCHANGED <<setIdx, zsetIdx>>

\* HMSet's insertVals: the pairs whose value differs from what HMGet
\* returned for their field (all of them when HMGet returned nil)
InsertVals(k, pairs) ==
    LET existVals == HMGet(k, [i \in DOMAIN pairs |-> pairs[i][1]])
        Differs(i) == existVals = Nil \/ pairs[i][2] # existVals[i]
        kept == SelectSeq([i \in DOMAIN pairs |-> i], Differs)
    IN  [j \in DOMAIN kept |-> [k |-> k, f |-> pairs[kept[j]][1], v |-> pairs[kept[j]][2]]]

(* HMSet(key, f1, v1, f2, v2, ...) up to taking the hash lock: HMGet and  *)
(* insertVals happen before the lock.  With nothing to insert it returns. *)
HMSet(k, pairs) ==
    LET ins == InsertVals(k, pairs)
    IN  /\ up
        /\ CheckKeyValue(k)
        /\ ins # <<>>
        /\ pending' = ins
        /\ hmBefore' = hashIdx
        /\ UNCHANGED <<disk, active, archFiles, hist, up, storeErr, firstFault, faults, idxVars>>

(* One turn of HMSet's loop under the hash lock: store the next pair's    *)
(* entry, then set it in the index; a store error returns from HMSet.      *)
HMSetStore ==
    LET p == Head(pending)
    IN  /\ pending # <<>>
        /\ Store(NewEntry(p.k, p.v, p.f, Hash, HashHSet))
        /\ AfterStore(hashIdx, IdxHSet(hashIdx, p.k, p.f, p.v))
        /\ pending' = IF storeErr' THEN <<>> ELSE Tail(pending)
        /\ UNCHANGED <<setIdx, zsetIdx, hmBefore>>

HDel(k, f) ==
    /\ CheckKeyValue(k)
    /\ IdxHGet(hashIdx, k, f) # Nil
    /\ hashIdx' = IdxHDel(hashIdx, k, f)
    /\ Store(NewEntry(k, Empty, f, Hash, HashHDel))
    /\ UNCHANGED <<setIdx, zsetIdx>>

HClear(k) ==
    /\ CheckKeyValue(k)
    /\ HKeyExists(k)
    /\ Store(NewEntryNoExtra(k, Empty, Hash, HashHClear))
    /\ AfterStore(hashIdx, IdxHClear(hashIdx, k))
    /\ UNCHANGED <<setIdx, zsetIdx>>

SAdd(k, m) ==
    /\ CheckKeyValue(k)
    /\ ~IdxSIsMember(setIdx, k, m)
    /\ Store(NewEntryNoExtra(k, m, Set, SetSAdd))
    /\ AfterStore(setIdx, IdxSAdd(setIdx, k, m))
    /\ UNCHANGED <<hashIdx, zsetIdx>>

\* SPop(key, 1): the index pops a member it picks, then its removal is stored
SPop(k) ==
    /\ CheckKeyValue(k)
    /\ ~CheckExpired(k, Set)
    /\ \E m \in Members :
          /\ IdxSIsMember(setIdx, k, m)
          /\ setIdx' = IdxSRem(setIdx, k, m)
          /\ Store(NewEntryNoExtra(k, m, Set, SetSRem))
    /\ UNCHANGED <<hashIdx, zsetIdx>>

SRem(k, m) ==
    /\ CheckKeyValue(k)
    /\ ~CheckExpired(k, Set)
    /\ IdxSIsMember(setIdx, k, m)
    /\ setIdx' = IdxSRem(setIdx, k, m)
    /\ Store(NewEntryNoExtra(k, m, Set, SetSRem))
    /\ UNCHANGED <<hashIdx, zsetIdx>>

SMove(src, dst, m) ==
    /\ ~CheckExpired(src, Set)
    /\ ~CheckExpired(dst, Set)
    /\ IdxSIsMember(setIdx, src, m)
    /\ setIdx' = IdxSMove(setIdx, src, dst, m)
    /\ Store(NewEntry(src, m, dst, Set, SetSMove))
    /\ UNCHANGED <<hashIdx, zsetIdx>>

SClear(k) ==
    /\ SKeyExists(k)
    /\ Store(NewEntryNoExtra(k, Empty, Set, SetSClear))
    /\ AfterStore(setIdx, IdxSClear(setIdx, k))
    /\ UNCHANGED <<hashIdx, zsetIdx>>

ZAdd(k, score, m) ==
    /\ CheckKeyValue(k)
    /\ ~(ZScore(k, m)[1] /\ ZScore(k, m)[2] = score)
    /\ Store(NewEntry(k, m, score, ZSet, ZSetZAdd))
    /\ AfterStore(zsetIdx, IdxZAdd(zsetIdx, k, score, m))
    /\ UNCHANGED <<hashIdx, setIdx>>

\* fault: the Extra written is the increment instead of the new score
ZIncrByLogsIncrement(k, inc, m) ==
    LET score == IncrScore(zsetIdx, k, inc, m)
    IN  /\ CheckKeyValue(k)
        /\ score <= MaxScore
        /\ zsetIdx' = IdxZAdd(zsetIdx, k, score, m)
        /\ Store(NewEntry(k, m, inc, ZSet, ZSetZAdd))
        /\ UNCHANGED <<hashIdx, setIdx>>

\* the index computes the new score, which is then stored as a ZAdd entry
ZIncrBy(k, inc, m) ==
    LET score == IncrScore(zsetIdx, k, inc, m)
    IN  /\ CheckKeyValue(k)
        /\ score <= MaxScore
        /\ zsetIdx' = IdxZAdd(zsetIdx, k, score, m)
        /\ Store(NewEntry(k, m, score, ZSet, ZSetZAdd))
        /\ UNCHANGED <<hashIdx, setIdx>>

ZRem(k, m) ==
    /\ CheckKeyValue(k)
    /\ ~CheckExpired(k, ZSet)
    /\ IdxZScore(zsetIdx, k, m) # Nil
    /\ zsetIdx' = IdxZRem(zsetIdx, k, m)
    /\ Store(NewEntryNoExtra(k, m, ZSet, ZSetZRem))
    /\ UNCHANGED <<hashIdx, setIdx>>

ZClear(k) ==
    /\ ZKeyExists(k)
    /\ Store(NewEntryNoExtra(k, Empty, ZSet, ZSetZClear))
    /\ AfterStore(zsetIdx, IdxZClear(zsetIdx, k))
    /\ UNCHANGED <<hashIdx, setIdx>>

-----------------------------------------------------------------------------
(* Replay (index.go, loadIdxFromFiles).                                   *)

NewIndexes ==
    [hash |-> [k \in Keys |-> NoKey],
     set  |-> [k \in Keys |-> NoKey],
     zset |-> [k \in Keys |-> NoKey]]

\* buildHashIndex: the operation is read from GetMark
BuildHashIndex(h, e) ==
    CASE e.mark = HashHSet   -> IdxHSet(h, e.key, e.extra, e.value)
      [] e.mark = HashHDel   -> IdxHDel(h, e.key, e.extra)
      [] e.mark = HashHClear -> IdxHClear(h, e.key)
      [] OTHER               -> h

\* buildSetIndex: the operation is read from GetMark
BuildSetIndex(s, e) ==
    CASE e.mark = SetSAdd   -> IdxSAdd(s, e.key, e.value)
      [] e.mark = SetSRem   -> IdxSRem(s, e.key, e.value)
      [] e.mark = SetSMove  -> IdxSMove(s, e.key, e.extra, e.value)
      [] e.mark = SetSClear -> IdxSClear(s, e.key)
      [] OTHER              -> s

\* buildZsetIndex: the operation is read from GetType
BuildZsetIndex(z, e) ==
    CASE e.type = ZSetZAdd   -> IdxZAdd(z, e.key, e.extra, e.value)
      [] e.type = ZSetZRem   -> IdxZRem(z, e.key, e.value)
      [] e.type = ZSetZClear -> IdxZClear(z, e.key)
      [] OTHER               -> z

\* buildStringIndex returns at once: Open leaves db.strIndex nil
BuildStringIndex(ix, e) == ix

\* buildIndex dispatches on GetMark; List entries go to the list index,
\* which is not modelled (the List* operations it switches on are not in
\* the repository).
BuildIndex(ix, e) ==
    CASE e.mark = String -> BuildStringIndex(ix, e)
      [] e.mark = Hash   -> [ix EXCEPT !.hash = BuildHashIndex(@, e)]
      [] e.mark = Set    -> [ix EXCEPT !.set = BuildSetIndex(@, e)]
      [] e.mark = ZSet   -> [ix EXCEPT !.zset = BuildZsetIndex(@, e)]
      [] OTHER           -> ix

\* one data type of loadIdxFromFiles: e.Mark is overwritten with the type
\* before buildIndex, and entries with an empty key are skipped
LoadType(ix, d, t) ==
    FoldLeft(LAMBDA acc, e : IF e.key = Empty THEN acc
                             ELSE BuildIndex(acc, [e EXCEPT !.mark = t]),
             ix, Recovered(d, t))

LoadIdxFromFiles(d) ==
    FoldLeft(LAMBDA acc, t : LoadType(acc, d, t), NewIndexes,
             <<String, List, Hash, Set, ZSet>>)

-----------------------------------------------------------------------------
(* Open on an empty directory.                                             *)
Init ==
    /\ SegInit
    /\ hashIdx = NewIndexes.hash
    /\ setIdx = NewIndexes.set
    /\ zsetIdx = NewIndexes.zset
    /\ pending = <<>>
    /\ hmBefore = NewIndexes.hash

(* Open after the process stopped: Build and NewDBFile (Reopen), then     *)
(* loadIdxFromFiles into fresh indexes.  Reopen only creates empty files, *)
(* so the files scanned hold what disk holds.                              *)
Open ==
    /\ Reopen
    /\ LET ix == LoadIdxFromFiles(disk)
       IN  /\ hashIdx' = ix.hash
           /\ setIdx' = ix.set
           /\ zsetIdx' = ix.zset

(* Merge on a store made by Open: Open never sets db.dbFile, so the first *)
(* statement, db.dbFile.Offset == 0, dereferences nil and the panic ends  *)
(* the process before anything is read, written or removed.                *)
Merge ==
    /\ up
    /\ up' = FALSE
    /\ UNCHANGED <<disk, active, archFiles, hist, storeErr, firstFault, faults, idxVars>>

(* Every other command and Merge run between HMSet calls: a command of    *)
(* another category could also run during HMSet's loop, but the model     *)
(* keeps the loop free of them.                                            *)
Commands ==
    \/ \E k \in Keys, f \in Fields, v \in Vals : HSet(k, f, v) \/ HSetNx(k, f, v)
    \/ \E k \in Keys, f \in Fields : HDel(k, f)
    \/ \E k \in Keys : HClear(k) \/ SPop(k) \/ SClear(k) \/ ZClear(k)
    \/ \E k \in Keys, m \in Members : SAdd(k, m) \/ SRem(k, m) \/ ZRem(k, m)
    \/ \E src, dst \in Keys, m \in Members : SMove(src, dst, m)
    \/ \E k \in Keys, s \in Scores, m \in Members : ZAdd(k, s, m)
    \/ \E k \in Keys, i \in Increments, m \in Members : ZIncrBy(k, i, m)
    \/ Merge

\* the argument lists of one HMSet call
PairLists == UNION {[1..n -> Fields \X Vals] : n \in 1..MaxPairs}

Next ==
    \/ /\ pending = <<>>
       /\ \/ \E k \in Keys, pairs \in PairLists : HMSet(k, pairs)
          \/ Commands /\ UNCHANGED <<pending, hmBefore>>
    \/ HMSetStore
    \/ Open /\ pending' = <<>> /\ UNCHANGED hmBefore

Spec == Init /\ [][Next]_vars

-----------------------------------------------------------------------------
(* Properties.                                                             *)

ScoreRange == Scores \cup Increments \cup (0..MaxScore)

TypeOK ==
    /\ SegTypeOK([key : Keys, value : Vals \cup Members \cup {Empty},
                  extra : Fields \cup Keys \cup ScoreRange \cup {Empty},
                  mark : DataTypes, type : DataTypes])
    /\ hashIdx \in [Keys -> {NoKey} \cup [Fields -> Vals \cup {Nil}]]
    /\ setIdx \in [Keys -> {NoKey} \cup SUBSET Members]
    /\ zsetIdx \in [Keys -> {NoKey} \cup [Members -> ScoreRange \cup {Nil}]]
    /\ pending \in Seq([k : Keys, f : Fields, v : Vals])
    /\ hmBefore \in [Keys -> {NoKey} \cup [Fields -> Vals \cup {Nil}]]

(* A member a sorted set holds when the process stops is back after Open, *)
(* with the same score: ZAdd and ZIncrBy store the score the index ends   *)
(* up with, and replay applies the ZAdd entries in file and offset order. *)
ZScoresSurviveOpen ==
    [][Open => \A k \in Keys, m \in Members :
                 IdxZScore(zsetIdx, k, m) # Nil =>
                     IdxZScore(zsetIdx', k, m) = IdxZScore(zsetIdx, k, m)]_vars

\* what every read command of the hash, set and sorted-set types returns
Observed ==
    [hget |-> [k \in Keys, f \in Fields |-> HGet(k, f)],
     hexists |-> [k \in Keys, f \in Fields |-> HExists(k, f)],
     hash |-> [k \in Keys |-> <<HKeyExists(k), HGetAll(k), HLen(k), HKeys(k), HVals(k)>>],
     sismember |-> [k \in Keys, m \in Members |-> SIsMember(k, m)],
     set |-> [k \in Keys |-> <<SKeyExists(k), SCard(k), SMembers(k)>>],
     sunion |-> [ks \in Keys \X Keys |-> <<SUnion(ks), SDiff(ks)>>],
     zscore |-> [k \in Keys, m \in Members |-> ZScore(k, m)],
     zset |-> [k \in Keys |-> <<ZKeyExists(k), ZCard(k)>>]]

(* spec.md 8, recovery idempotence: closing and reopening yields an index *)
(* state observably identical, for all read operations, to the state     *)
(* just before the stop.  Open rebuilds the hash, set and sorted-set      *)
(* indexes from the files; every read of them must answer as before.     *)
IndexSurvivesOpen == [][Open => Observed' = Observed]_vars

(* spec.md 5: within a category, append and index update are one step;   *)
(* if the append fails the index is left untouched, the operation reports *)
(* failure and no partial success is visible.  A command whose store      *)
(* returned an error while the process goes on (WriteAt failed, or        *)
(* NewDBFile failed at rotation) leaves every index as it was when the    *)
(* command began: for HMSet, whose pairs are stored one at a time, that   *)
(* is hmBefore.  HSetNx, HDel, SPop, SRem, SMove, ZIncrBy and ZRem change *)
(* the index before they call store; HMSet returns at the first failing   *)
(* store with the earlier pairs set.                                       *)
IndexUntouchedOnFailedStore ==
    [][(storeErr' /\ up') =>
          /\ UNCHANGED <<setIdx, zsetIdx>>
          /\ hashIdx' = IF pending # <<>> THEN hmBefore ELSE hashIdx]_vars
=============================================================================
