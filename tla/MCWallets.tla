----------------------------- MODULE MCWallets -----------------------------
(* Instances of Wallets for TLC.                                            *)
EXTENDS Wallets, TLC

\* a pool's payment to a miner, and the reward of a block
Payments == {[sender |-> "pool", receiver |-> "miner", quantity |-> 2]}
Reward  == [sender |-> "network", receiver |-> "pool", quantity |-> 3]

Symmetry == Permutations(MiningPools)

\* All but what a wallet was told, on which NoCoinsTwice looks in the step that
\* tells it, and dropped, which only PayArrives reads: no step depends on either.
Seen == <<vars, mempoolVars, stage, bodies, added, ID>>
=============================================================================
