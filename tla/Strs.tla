-------------------------------- MODULE Strs --------------------------------
(***************************************************************************)
(* The string commands of strs.go.  Every command holds strIndex.mu       *)
(* (the write lock, or the read lock for Get, MGet and StrLen) for its    *)
(* whole run, so each is one step.  The index, strIndex.idxTree, maps a   *)
(* key to the value and expiredAt of the entry last written for it.       *)
(* writeLogEntry followed by updateIndexTree (or idxTree.Delete) is       *)
(* modelled by its effect on the index, and writeLogEntry may fail (at    *)
(* most MaxFaults times).  getVal is not in the repository: it is         *)
(* modelled from spec.md 2 and 3 (a lookup of an expired key behaves as   *)
(* if the key did not exist).  The discard notifications of GetDel and    *)
(* Delete only feed garbage collection of the log and are left out.       *)
(*                                                                         *)
(* A value is a byte string, here a sequence of one-character strings, so *)
(* that strconv.ParseInt, strconv.FormatInt and Append's concatenation    *)
(* are modelled by what they do.  int64 is an IntBits-bit two's-complement *)
(* integer.                                                                *)
(***************************************************************************)
EXTENDS Integers, Sequences, SequencesExt

CONSTANTS
    Keys,
    Nil,          \* a nil []byte, and "no entry" in idxTree
    Vals,         \* the values given to Set, SetEX, SetNX, MSet, MSetNX and Append
    IncrByArgs,   \* the incr of IncrBy calls
    DecrByArgs,   \* the decr of DecrBy calls
    Durations,    \* SetEX durations, in whole seconds
    IntBits,      \* width of int64 (64 in the code)
    MaxPairs,     \* bound: key-value pairs of an MSet or MSetNX, keys of an MGet
    MaxStrLen,    \* bound: bytes of a stored value
    MaxTime,      \* bound: the clock, in seconds
    MaxFaults     \* bound: failing writeLogEntry calls

VARIABLES
    idxTree,  \* idxTree[k]: Nil, or [value, expiredAt] of k's last entry
    now,      \* time.Now().Unix()
    call,     \* the command this step ran, its arguments and what it returned
    faults

vars == <<idxTree, now, call, faults>>

ErrKeyNotFound       == "ErrKeyNotFound"
ErrWrongValueType    == "ErrWrongValueType"
ErrIntegerOverflow   == "ErrIntegerOverflow"
ErrWrongNumberOfArgs == "ErrWrongNumberOfArgs"
ErrWrite             == "ErrWrite"    \* an error of writeLogEntry

MinInt == -(2 ^ (IntBits - 1))   \* math.MinInt64
MaxInt == 2 ^ (IntBits - 1) - 1  \* math.MaxInt64

\* int64 arithmetic: the result wraps around modulo 2^IntBits
Wrap(x) == ((x - MinInt) % (2 ^ IntBits)) + MinInt

Digit == <<"0", "1", "2", "3", "4", "5", "6", "7", "8", "9">>
DigitVal(c) == CHOOSE n \in 0..9 : Digit[n + 1] = c

(* strconv.ParseInt(s, 10, 64): an optional sign and at least one decimal *)
(* digit, of a value int64 can hold; Nil for ErrSyntax and ErrRange.      *)
ParseInt(s) ==
    LET signed == s # <<>> /\ s[1] \in {"-", "+"}
        digits == IF signed THEN Tail(s) ELSE s
        n      == FoldLeft(LAMBDA acc, c : 10 * acc + DigitVal(c), 0, digits)
        v      == IF signed /\ s[1] = "-" THEN -n ELSE n
    IN  IF digits = <<>> \/ \E i \in DOMAIN digits : digits[i] \notin Range(Digit) THEN Nil
        ELSE IF v < MinInt \/ v > MaxInt THEN Nil
        ELSE v

RECURSIVE Decimal(_)
Decimal(n) == IF n < 10 THEN <<Digit[n + 1]>> ELSE Decimal(n \div 10) \o <<Digit[(n % 10) + 1]>>

\* strconv.FormatInt(v, 10)
FormatInt(v) == IF v < 0 THEN <<"-">> \o Decimal(-v) ELSE Decimal(v)

Entry(v, exp) == [value |-> v, expiredAt |-> exp]

Expired(e) == e.expiredAt # 0 /\ e.expiredAt <= now

\* getVal(key, String): k's value, or Nil and ErrKeyNotFound when k has no
\* entry or its entry has expired
GetVal(k) ==
    IF idxTree[k] = Nil \/ Expired(idxTree[k]) THEN [val |-> Nil, err |-> ErrKeyNotFound]
    ELSE [val |-> idxTree[k].value, err |-> "ok"]

(* writeLogEntry then updateIndexTree, for each <<key, entry>> of ws in   *)
(* turn, an entry of Nil standing for a delete record and idxTree.Delete; *)
(* the first failing writeLogEntry returns its error with the earlier     *)
(* writes in place.                                                        *)
WriteAll(ws) ==
    LET upTo(i) == FoldLeft(LAMBDA t, w : [t EXCEPT ![w[1]] = w[2]], idxTree, SubSeq(ws, 1, i))
    IN  {[tree |-> upTo(Len(ws)), err |-> "ok"]}
        \cup {[tree |-> upTo(i - 1), err |-> ErrWrite] : i \in 1..Len(ws)}

Write(k, e) == WriteAll(<<<<k, e>>>>)

\* a command's record in call
Call(op, k, arg, err, ret) == [op |-> op, key |-> k, arg |-> arg, err |-> err, ret |-> ret]

NoCall == Call("none", Nil, Nil, "ok", Nil)

(* The index after one of the outcomes o of WriteAll, one more fault if a *)
(* write failed, and the command's record with ret if it succeeded.       *)
Done(o, op, k, arg, ret) ==
    /\ o.err = ErrWrite => faults < MaxFaults
    /\ idxTree' = o.tree
    /\ faults' = IF o.err = ErrWrite THEN faults + 1 ELSE faults
    /\ call' = Call(op, k, arg, o.err, IF o.err = "ok" THEN ret ELSE Nil)
    /\ UNCHANGED now

\* a command that returns at once, changing nothing
Returns(op, k, arg, err, ret) ==
    /\ call' = Call(op, k, arg, err, ret)
    /\ UNCHANGED <<idxTree, now, faults>>

Init ==
    /\ idxTree = [k \in Keys |-> Nil]
    /\ now = 1
    /\ call = NoCall
    /\ faults = 0

Set(k, v) == \E o \in Write(k, Entry(v, 0)) : Done(o, "Set", k, v, Nil)

Get(k) == Returns("Get", k, Nil, GetVal(k).err, GetVal(k).val)

\* MGet: every key's value, Nil for a key not found
MGet(ks) ==
    IF ks = <<>> THEN Returns("MGet", ks, Nil, ErrWrongNumberOfArgs, Nil)
    ELSE Returns("MGet", ks, Nil, "ok", [i \in DOMAIN ks |-> GetVal(ks[i]).val])

\* GetDel: a key not found returns nil, nil; otherwise a delete record
GetDel(k) ==
    LET g == GetVal(k)
    IN  \/ /\ g.val = Nil
           /\ Returns("GetDel", k, Nil, "ok", Nil)
        \/ /\ g.val # Nil
           /\ \E o \in Write(k, Nil) : Done(o, "GetDel", k, Nil, g.val)

\* Delete writes a delete record whether or not the key exists
Delete(k) == \E o \in Write(k, Nil) : Done(o, "Delete", k, Nil, Nil)

\* fault: the deadline kept in milliseconds
ExpiredAtMilli(d) == (now + d) * 1000

\* time.Now().Add(duration).Unix()
ExpiredAt(d) == now + d

SetEX(k, v, d) == \E o \in Write(k, Entry(v, ExpiredAt(d))) : Done(o, "SetEX", k, v, Nil)

\* SetNX: an existing key returns nil and is left alone
SetNX(k, v) ==
    \/ /\ GetVal(k).val # Nil
       /\ Returns("SetNX", k, v, "ok", Nil)
    \/ /\ GetVal(k).val = Nil
       /\ \E o \in Write(k, Entry(v, 0)) : Done(o, "SetNX", k, v, Nil)

\* the writes of MSet's key-value pairs ps, in order
PairWrites(ps) == [i \in DOMAIN ps |-> <<ps[i][1], Entry(ps[i][2], 0)>>]

MSet(ps) ==
    \/ /\ ps = <<>>
       /\ Returns("MSet", ps, Nil, ErrWrongNumberOfArgs, Nil)
    \/ /\ ps # <<>>
       /\ \E o \in WriteAll(PairWrites(ps)) : Done(o, "MSet", ps, Nil, Nil)

\* fault: no addedKeys, every pair is written
AllPairs(ps) == ps

\* MSetNX's addedKeys: a key already written is skipped, so its first pair wins
FirstPairs(ps) ==
    FoldLeft(LAMBDA acc, p : IF \E j \in DOMAIN acc : acc[j][1] = p[1] THEN acc ELSE Append(acc, p),
             <<>>, ps)

(* MSetNX: if any key exists it returns nil and writes nothing; otherwise *)
(* it writes the pairs, skipping a key it has written already.            *)
MSetNX(ps) ==
    \/ /\ ps = <<>>
       /\ Returns("MSetNX", ps, Nil, ErrWrongNumberOfArgs, Nil)
    \/ /\ ps # <<>>
       /\ \E i \in DOMAIN ps : GetVal(ps[i][1]).val # Nil
       /\ Returns("MSetNX", ps, Nil, "ok", Nil)
    \/ /\ ps # <<>>
       /\ \A i \in DOMAIN ps : GetVal(ps[i][1]).val = Nil
       /\ \E o \in WriteAll(PairWrites(FirstPairs(ps))) : Done(o, "MSetNX", ps, Nil, Nil)

\* Append (AppendStr, as Sequences has Append): the old value with v after it, or v if the key is not found
AppendStr(k, v) ==
    LET old == GetVal(k).val
        new == IF old # Nil THEN old \o v ELSE v
    IN  /\ Len(new) <= MaxStrLen
        /\ \E o \in Write(k, Entry(new, 0)) : Done(o, "Append", k, v, Nil)

\* fault: an increment is taken to overflow when it reaches MaxInt64
IncrOverflowAtMax(val, incr) ==
    \/ incr < 0 /\ val < 0 /\ incr < Wrap(MinInt - val)
    \/ incr > 0 /\ val > 0 /\ incr >= Wrap(MaxInt - val)

\* incrDecrBy's overflow check
IncrOverflow(val, incr) ==
    \/ incr < 0 /\ val < 0 /\ incr < Wrap(MinInt - val)
    \/ incr > 0 /\ val > 0 /\ incr > Wrap(MaxInt - val)

(* Incr, Decr, IncrBy and DecrBy through incrDecrBy.  delta is the change *)
(* the command asks for (1, -1, incr or -decr); incrDecrBy is passed the  *)
(* int64 Wrap(delta), which differs from delta only for DecrBy(MinInt64). *)
(* A key not found counts as "0".                                          *)
IncrDecrBy(op, k, delta) ==
    LET incr == Wrap(delta)
        g    == GetVal(k)
        val  == ParseInt(IF g.val = Nil THEN <<"0">> ELSE g.val)
        res  == Wrap(val + incr)
    IN  \/ /\ val = Nil
           /\ Returns(op, k, delta, ErrWrongValueType, 0)
        \/ /\ val # Nil
           /\ IncrOverflow(val, incr)
           /\ Returns(op, k, delta, ErrIntegerOverflow, 0)
        \/ /\ val # Nil
           /\ ~IncrOverflow(val, incr)
           /\ \E o \in Write(k, Entry(FormatInt(res), 0)) : Done(o, op, k, delta, res)

\* StrLen: 0 for a key not found, else binary.Size of the value
StrLen(k) ==
    LET g == GetVal(k)
    IN  Returns("StrLen", k, Nil, "ok", IF g.err # "ok" THEN 0 ELSE Len(g.val))

\* the clock advances by a second
Tick ==
    /\ now < MaxTime
    /\ now' = now + 1
    /\ call' = NoCall
    /\ UNCHANGED <<idxTree, faults>>

KeySeqs  == UNION {[1..n -> Keys] : n \in 0..MaxPairs}
PairSeqs == UNION {[1..n -> Keys \X Vals] : n \in 0..MaxPairs}

Next ==
    \/ \E k \in Keys :
          \/ \E v \in Vals :
                \/ Set(k, v)
                \/ SetNX(k, v)
                \/ AppendStr(k, v)
                \/ \E d \in Durations : SetEX(k, v, d)
          \/ Get(k)
          \/ GetDel(k)
          \/ Delete(k)
          \/ StrLen(k)
          \/ IncrDecrBy("Incr", k, 1)
          \/ IncrDecrBy("Decr", k, -1)
          \/ \E x \in IncrByArgs : IncrDecrBy("IncrBy", k, x)
          \/ \E x \in DecrByArgs : IncrDecrBy("DecrBy", k, -x)
    \/ \E ks \in KeySeqs : MGet(ks)
    \/ \E ps \in PairSeqs : MSet(ps) \/ MSetNX(ps)
    \/ Tick

Spec == Init /\ [][Next]_vars

-----------------------------------------------------------------------------
Chars == Range(Digit) \cup {"-", "+"} \cup UNION {Range(v) : v \in Vals}

Ops == {"none", "Set", "Get", "MGet", "GetDel", "Delete", "SetEX", "SetNX", "MSet",
        "MSetNX", "Append", "Incr", "Decr", "IncrBy", "DecrBy", "StrLen"}

TypeOK ==
    /\ idxTree \in [Keys -> {Nil} \cup [value : Seq(Chars), expiredAt : 0..(MaxTime + Max(Durations))]]
    /\ \A k \in Keys : idxTree[k] # Nil => Len(idxTree[k].value) <= MaxStrLen
    /\ now \in 1..MaxTime
    /\ call.op \in Ops
    /\ call.err \in {"ok", ErrKeyNotFound, ErrWrongValueType, ErrIntegerOverflow,
                     ErrWrongNumberOfArgs, ErrWrite}
    /\ faults \in 0..MaxFaults

IncrOps == {"Incr", "Decr", "IncrBy", "DecrBy"}

(* Incr, Decr, IncrBy and DecrBy (their comments, strs.go:250-283) add   *)
(* the amount asked for to the number stored at the key, a key not found *)
(* counting as 0, and return ErrIntegerOverflow exactly when the sum does *)
(* not fit in an int64: the overflow check of incrDecrBy, the int64       *)
(* negation of decr in DecrBy, ParseInt and FormatInt together decide it. *)
IncrDecrByExact ==
    [][call'.op \in IncrOps =>
         LET g    == GetVal(call'.key)
             old  == ParseInt(IF g.val = Nil THEN <<"0">> ELSE g.val)
             want == old + call'.arg
         IN  old # Nil =>
                /\ (call'.err = ErrIntegerOverflow) <=> (want < MinInt \/ want > MaxInt)
                /\ call'.err = "ok" => /\ call'.ret = want
                                       /\ idxTree'[call'.key].value = FormatInt(want)]_vars

(* MSetNX (its comment, strs.go:178-179) "will not perform any operation *)
(* at all even if just a single key already exists"; when it returns nil *)
(* with no key existing, every key given holds the value of its first    *)
(* pair (the behaviour its test expects of a key given twice) and no     *)
(* other key changed.                                                     *)
MSetNXAllOrNothing ==
    [][(call'.op = "MSetNX" /\ call'.err = "ok") =>
         LET ps    == call'.key
             given == {ps[i][1] : i \in DOMAIN ps}
             first(k) == ps[Min({i \in DOMAIN ps : ps[i][1] = k})][2]
         IN  IF \E k \in given : GetVal(k).val # Nil
             THEN idxTree' = idxTree
             ELSE /\ \A k \in given : idxTree'[k] = Entry(first(k), 0)
                  /\ \A k \in Keys \ given : idxTree'[k] = idxTree[k]]_vars

=============================================================================
