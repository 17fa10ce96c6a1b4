---------------------------- MODULE NonceRanges ----------------------------
(* How RangeDistribution::distributeranges (MPserver.cpp) cuts the nonces   *)
(* 0 .. MaxNonce among the miners of a pool.  The miner at position index   *)
(* of size registered miners is told where to start, and nothing else: it   *)
(* counts up from there until the round ends (dojob, Minero.cpp).           *)
EXTENDS Integers

CONSTANT MaxNonce  \* maxR, 2^32 - 1 in the code

ASSUME RangeAssumption == MaxNonce \in Nat

\* A plausible bug: multiplied before it is divided, in as many bits as a nonce
StartOverflows(index, size) == ((MaxNonce * index) % (MaxNonce + 1)) \div size

\* maxR / cantidad * index
Start(index, size) == (MaxNonce \div size) * index

-----------------------------------------------------------------------------
(* For the properties: the nonces from a place's start up to the next's.    *)

Share(index, size) == Start(index, size) .. (Start(index, size) + MaxNonce \div size - 1)
=============================================================================
