-------------------------------- MODULE List --------------------------------
(***************************************************************************)
(* The list commands of list.go: LPush, RPush, LPop, RPop and LLen.       *)
(* Every key has its own index tree (db.listIndex.trees[key]) holding the *)
(* key's meta, the pair headSeq/tailSeq, under the key itself, and each   *)
(* value under encodeListKey(key, seq).  The values are those at seqs     *)
(* headSeq + 1 .. tailSeq - 1; LPush writes at headSeq and decrements it, *)
(* RPush writes at tailSeq and increments it, all in uint32 arithmetic.   *)
(* The commands do not pass the tree to listMeta/getVal: they first point *)
(* the shared field db.listIndex.idxTree at it, and the lookups go        *)
(* through that field.                                                     *)
(*                                                                         *)
(* writeLogEntry followed by updateIndexTree is modelled by its effect on *)
(* the tree, and writeLogEntry may fail (at most MaxFaults times).  Pushes *)
(* and pops hold listIndex.mu.Lock and are one step each; LLen holds the  *)
(* read lock and is two steps, split where it has set idxTree.  The       *)
(* discard notifications at the end of popInternal only feed garbage      *)
(* collection of the log and are left out.                                *)
(***************************************************************************)
EXTENDS Naturals, Sequences, SequencesExt

CONSTANTS
    Keys, Vals, Readers,
    Nil,            \* no value stored under a tree key
    NoTree,         \* trees[key] == nil; idxTree not set
    SeqBits,        \* width of headSeq and tailSeq (32 in the code)
    InitialListSeq, \* initialListSeq
    MaxPush,        \* bound: values per LPush or RPush call
    MaxLen,         \* bound: values a list holds (2^32 - 2 in the code)
    MaxOps,         \* bound: push and pop calls
    MaxFaults       \* bound: failing writeLogEntry calls

VARIABLES
    trees,   \* trees[k]: NoTree, or [meta |-> Nil or <<headSeq, tailSeq>>, items]
    idxTree, \* the key whose tree db.listIndex.idxTree points at, or NoTree
    rpc,     \* rpc[r]: "meta" while reader r is inside LLen, else "idle"
    rkey,    \* rkey[r]: the key of r's LLen
    ret,     \* ret[r]: <<key, result>> of r's last LLen
    ops,
    faults

vars == <<trees, idxTree, rpc, rkey, ret, ops, faults>>

Mod  == 2 ^ SeqBits
Seqs == 0 .. (Mod - 1)

\* fault: the seqs kept in a wider signed integer
U32Wide(x) == x

\* uint32 arithmetic, at width SeqBits
U32(x) == x % Mod

\* art.NewART()
EmptyTree == [meta |-> Nil, items |-> [s \in Seqs |-> Nil]]

\* listMeta on a tree: headSeq, tailSeq, or the initial pair if none saved
MetaOf(tr) ==
    IF tr.meta = Nil THEN <<InitialListSeq, U32(InitialListSeq + 1)>> ELSE tr.meta

(* listMeta(key) as LLen runs it: getVal looks key up in the tree idxTree *)
(* points at; in another key's tree it is ErrKeyNotFound, which listMeta  *)
(* treats as a new list.                                                  *)
ListMeta(k) ==
    IF idxTree = k THEN MetaOf(trees[k]) ELSE MetaOf(EmptyTree)

\* pushInternal when every call succeeds: the value at headSeq (tailSeq),
\* then saveListMeta with headSeq - 1 (tailSeq + 1)
PushInternal(tr, v, isLeft) ==
    LET m == MetaOf(tr)
    IN  IF isLeft
        THEN [meta |-> <<U32(m[1] - 1), m[2]>>, items |-> [tr.items EXCEPT ![m[1]] = v]]
        ELSE [meta |-> <<m[1], U32(m[2] + 1)>>, items |-> [tr.items EXCEPT ![m[2]] = v]]

\* pushInternal whose saveListMeta fails: the value is in the tree, the meta is not moved
PushValueOnly(tr, v, isLeft) ==
    [tr EXCEPT !.items[IF isLeft THEN MetaOf(tr)[1] ELSE MetaOf(tr)[2]] = v]

(* The loop of LPush/RPush over its values, returning at the first error: *)
(* the possible trees afterwards, each with whether a write failed.       *)
PushOutcomes(tr, vs, isLeft) ==
    LET upTo(i) == FoldLeft(LAMBDA t, v : PushInternal(t, v, isLeft), tr, SubSeq(vs, 1, i))
    IN  {[tree |-> upTo(Len(vs)), failed |-> FALSE]}
        \cup {[tree |-> upTo(i - 1), failed |-> TRUE] : i \in 1..Len(vs)}
        \cup {[tree |-> PushValueOnly(upTo(i - 1), vs[i], isLeft), failed |-> TRUE] : i \in 1..Len(vs)}

\* fault: the seq popped is the free slot next to the values
PopSeqOffByOne(m, isLeft) == IF isLeft THEN m[1] ELSE m[2]

\* the seq popInternal reads and deletes: headSeq + 1 or tailSeq - 1
PopSeq(m, isLeft) == IF isLeft THEN U32(m[1] + 1) ELSE U32(m[2] - 1)

(* popInternal on a key that has a tree: the possible trees afterwards.   *)
(* An empty list (size <= 0 on uint32, so size = 0) gets its meta reset   *)
(* if it moved, the error of that saveListMeta dropped.  Otherwise getVal *)
(* of the value (ErrKeyNotFound returns at once), writeLogEntry of the    *)
(* delete record, idxTree.Delete, and saveListMeta, each failure          *)
(* returning at once.                                                      *)
PopOutcomes(tr, isLeft) ==
    LET m    == MetaOf(tr)
        init == MetaOf(EmptyTree)
        seq  == PopSeq(m, isLeft)
        nm   == IF isLeft THEN <<U32(m[1] + 1), m[2]>> ELSE <<m[1], U32(m[2] - 1)>>
    IN  IF U32(m[2] - m[1] - 1) = 0
        THEN IF m = init THEN {[tree |-> tr, failed |-> FALSE]}
             ELSE {[tree |-> [tr EXCEPT !.meta = init], failed |-> FALSE],
                   [tree |-> tr, failed |-> TRUE]}
        ELSE IF tr.items[seq] = Nil THEN {[tree |-> tr, failed |-> FALSE]}
        ELSE {[tree |-> [meta |-> nm, items |-> [tr.items EXCEPT ![seq] = Nil]], failed |-> FALSE],
              [tree |-> tr, failed |-> TRUE],
              [tree |-> [tr EXCEPT !.items[seq] = Nil], failed |-> TRUE]}

\* fault: int arithmetic instead of uint32
LLenSigned(m) == m[2] - m[1] - 1

\* LLen's result: int(tailSeq - headSeq - 1), the subtraction in uint32
LLenOf(m) == U32(m[2] - m[1] - 1)

(***************************************************************************)
(* Reference: the list a tree holds, walking from headSeq + 1 to tailSeq. *)
(***************************************************************************)
View(k) ==
    IF trees[k] = NoTree THEN <<>>
    ELSE LET m == MetaOf(trees[k])
             n == CHOOSE n \in Seqs : U32(m[1] + n + 1) = m[2]
         IN  [i \in 1..n |-> trees[k].items[U32(m[1] + i)]]

PushArgs == UNION {[1..n -> Vals] : n \in 1..MaxPush}

NoReader == \A r \in Readers : rpc[r] = "idle"

\* an outcome o of a write path: its tree for key k, one more fault if it failed
Apply(k, o) ==
    /\ o.failed => faults < MaxFaults
    /\ trees' = [trees EXCEPT ![k] = o.tree]
    /\ faults' = IF o.failed THEN faults + 1 ELSE faults

Init ==
    /\ trees = [k \in Keys |-> NoTree]
    /\ idxTree = NoTree
    /\ rpc = [r \in Readers |-> "idle"]
    /\ rkey = [r \in Readers |-> NoTree]
    /\ ret = [r \in Readers |-> <<NoTree, 0>>]
    /\ ops = 0
    /\ faults = 0

(* LPush (isLeft) and RPush: under listIndex.mu.Lock, create the key's    *)
(* tree if it has none, point idxTree at it, and pushInternal the values. *)
Push(k, vs, isLeft) ==
    /\ NoReader
    /\ ops < MaxOps
    /\ Len(View(k)) + Len(vs) <= MaxLen
    /\ \E o \in PushOutcomes(IF trees[k] = NoTree THEN EmptyTree ELSE trees[k], vs, isLeft) :
          Apply(k, o)
    /\ idxTree' = k
    /\ ops' = ops + 1
    /\ UNCHANGED <<rpc, rkey, ret>>

(* LPop (isLeft) and RPop: under listIndex.mu.Lock; a key with no tree    *)
(* returns nil, nil; otherwise idxTree is pointed at it and popInternal   *)
(* runs.                                                                   *)
Pop(k, isLeft) ==
    /\ NoReader
    /\ ops < MaxOps
    /\ \/ /\ trees[k] = NoTree
          /\ UNCHANGED <<trees, idxTree, faults>>
       \/ /\ trees[k] # NoTree
          /\ \E o \in PopOutcomes(trees[k], isLeft) : Apply(k, o)
          /\ idxTree' = k
    /\ ops' = ops + 1
    /\ UNCHANGED <<rpc, rkey, ret>>

\* LLen under listIndex.mu.RLock, up to and including idxTree = trees[key]
LLenBegin(r, k) ==
    /\ rpc[r] = "idle"
    /\ \/ /\ trees[k] = NoTree
          /\ ret' = [ret EXCEPT ![r] = <<k, 0>>]
          /\ UNCHANGED <<idxTree, rpc, rkey>>
       \/ /\ trees[k] # NoTree
          /\ idxTree' = k
          /\ rpc' = [rpc EXCEPT ![r] = "meta"]
          /\ rkey' = [rkey EXCEPT ![r] = k]
          /\ UNCHANGED ret
    /\ UNCHANGED <<trees, ops, faults>>

\* the rest of LLen: listMeta(key) through idxTree, then the length
LLenMeta(r) ==
    /\ rpc[r] = "meta"
    /\ ret' = [ret EXCEPT ![r] = <<rkey[r], LLenOf(ListMeta(rkey[r]))>>]
    /\ rpc' = [rpc EXCEPT ![r] = "idle"]
    /\ UNCHANGED <<trees, idxTree, rkey, ops, faults>>

Next ==
    \/ \E k \in Keys :
          \/ \E vs \in PushArgs, isLeft \in BOOLEAN : Push(k, vs, isLeft)
          \/ \E isLeft \in BOOLEAN : Pop(k, isLeft)
    \/ \E r \in Readers :
          \/ LLenMeta(r)
          \/ \E k \in Keys : LLenBegin(r, k)

Spec == Init /\ [][Next]_vars

-----------------------------------------------------------------------------
Tree == [meta : {Nil} \cup (Seqs \X Seqs), items : [Seqs -> Vals \cup {Nil}]]

TypeOK ==
    /\ trees \in [Keys -> {NoTree} \cup Tree]
    /\ idxTree \in Keys \cup {NoTree}
    /\ rpc \in [Readers -> {"idle", "meta"}]
    /\ rkey \in [Readers -> Keys \cup {NoTree}]
    /\ ret \in [Readers -> (Keys \cup {NoTree}) \X Seqs]
    /\ ops \in 0..MaxOps
    /\ faults \in 0..MaxFaults

(* The list commands implement a per-key deque (KeyedDeque): every push  *)
(* and pop changes the key's list between headSeq and tailSeq as the      *)
(* deque's operation would, or fails changing nothing, across uint32      *)
(* wrap-around of the seqs and the meta reset popInternal does on an      *)
(* empty list; and LLen returns the number of values of the list when it  *)
(* is called (readers exclude writers, so the list cannot change during   *)
(* the call), LLen's two steps mapping to one LLen of the deque.          *)
Deque == INSTANCE KeyedDeque
            WITH lists <- [k \in Keys |-> View(k)], calls <- ops, failures <- faults,
                 replies <- ret, NoKey <- NoTree

RefinesKeyedDeque == Deque!Spec
=============================================================================
