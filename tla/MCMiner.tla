------------------------------ MODULE MCMiner ------------------------------
(* Instances of Miner for TLC: hashes of two bytes that start with 2, 3, 7, *)
(* 9, 12 and 16 zeros, for difficulties 3 and 10.                           *)
EXTENDS Miner

MCOutcomes ==
    {[n \in 0..1 |-> h[n + 1]] :
        h \in {<<0, 2>>, <<0, 1>>, <<0, 16>>, <<4, 0>>, <<128, 0>>, <<0, 0>>}}
=============================================================================
