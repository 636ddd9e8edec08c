----------------------------- MODULE KeyedDeque -----------------------------
(***************************************************************************)
(* What the list commands promise: each key holds a sequence of values.   *)
(* LPush(key, v1, ..., vn) puts v1 .. vn at the head one after another,   *)
(* so vn ends up first; RPush appends them at the tail; LPop and RPop     *)
(* remove one value from the head or the tail, and leave an empty list    *)
(* alone.  LLen(key), called by reader r, returns the number of values    *)
(* key holds: replies[r] is <<key, n>> of r's last call.  A push or pop   *)
(* that fails changes nothing.  calls counts the push and pop calls made  *)
(* and failures the failed ones, so that a call which does nothing is not *)
(* mistaken for a stuttering step.  List implements it under the mapping  *)
(* "lists[k] is the values between headSeq and tailSeq in k's tree".      *)
(***************************************************************************)
EXTENDS Naturals, Sequences, SequencesExt

CONSTANTS Keys, Vals, PushArgs,   \* PushArgs: the value lists a push may carry
          Readers, NoKey          \* NoKey: the key of a reply not made yet

VARIABLES lists, calls, failures, replies

Init ==
    /\ lists = [k \in Keys |-> <<>>]
    /\ calls = 0
    /\ failures = 0
    /\ replies = [r \in Readers |-> <<NoKey, 0>>]

\* one call that succeeds, turning lists into newLists
Call(newLists) ==
    /\ lists' = newLists
    /\ calls' = calls + 1
    /\ UNCHANGED <<failures, replies>>

LPush(k, vs) == Call([lists EXCEPT ![k] = Reverse(vs) \o @])

RPush(k, vs) == Call([lists EXCEPT ![k] = @ \o vs])

\* LPop and RPop of an empty list return nil and change nothing
LPop(k) == Call([lists EXCEPT ![k] = IF @ = <<>> THEN @ ELSE Tail(@)])

RPop(k) == Call([lists EXCEPT ![k] = IF @ = <<>> THEN @ ELSE SubSeq(@, 1, Len(@) - 1)])

\* LLen reads the list at one instant and changes nothing
LLen(r, k) ==
    /\ replies' = [replies EXCEPT ![r] = <<k, Len(lists[k])>>]
    /\ UNCHANGED <<lists, calls, failures>>

Fail ==
    /\ calls' = calls + 1
    /\ failures' = failures + 1
    /\ UNCHANGED <<lists, replies>>

Next ==
    \/ \E k \in Keys :
          \/ \E vs \in PushArgs : LPush(k, vs) \/ RPush(k, vs)
          \/ LPop(k)
          \/ RPop(k)
          \/ \E r \in Readers : LLen(r, k)
    \/ Fail

Spec == Init /\ [][Next]_<<lists, calls, failures, replies>>
=============================================================================
