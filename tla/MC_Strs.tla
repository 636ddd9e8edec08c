------------------------------- MODULE MC_Strs -------------------------------
(***************************************************************************)
(* The string commands on two keys, with int64 cut down to 3 bits         *)
(* (MinInt64 = -4, MaxInt64 = 3) so that both ends of the range and       *)
(* ParseInt's range error are a few calls away.                           *)
(***************************************************************************)
EXTENDS Strs, TLC

CONSTANTS k1, k2

\* a number and a string that is not one
SampleVals == {<<"1">>, <<"x">>}

\* IncrBy at both ends of the int64 range
IncrByEnds == {MinInt, MaxInt}

\* DecrBy by MaxInt64, whose negation fits in an int64
DecrByMax == {MaxInt}

\* DecrBy by MinInt64, whose negation does not
DecrByMin == {MinInt}
=============================================================================
