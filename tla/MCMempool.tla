----------------------------- MODULE MCMempool -----------------------------
(* Instances of Mempool for TLC.                                            *)
EXTENDS Mempool, TLC

Symmetry == Permutations(Transactions)

\* All but mem: in Mempool alone the pools do nothing with what they received, a
\* block they announce being any.  States that differ in it alone are one to TLC.
Seen == <<tran, MPhandle, request, payments, served, status>>
=============================================================================
