---------------------------- MODULE MCMiningPool ----------------------------
(* Instances of MiningPool for TLC.                                         *)
EXTENDS MiningPool, TLC

Symmetry == Permutations(Miners)

\* Nothing happens once the process has ended, and nothing is claimed once two
\* threads have overlapped: TLC looks at such a state and goes no further.
Running == up /\ ~overlapped
=============================================================================
