----------------------------- MODULE Blockchain -----------------------------
(***************************************************************************)
(* What the central server promises the mining pools: blocks are accepted  *)
(* one at a time, each on top of the last one; an accepted block is        *)
(* appended to the chain, once; only blocks accepted or appended are       *)
(* announced as valid.  The promise has two exceptions, both about which   *)
(* blocks are accepted: a block may be the sibling of one accepted before  *)
(* it, after which any block is accepted, and so is any once the chain,    *)
(* an array of MaxBlocks entries, is full.                                 *)
(***************************************************************************)
EXTENDS Blocks, Sequences

CONSTANT MaxBlocks

VARIABLES chain,     \* the blocks appended, the genesis block first
          pending,   \* the blocks accepted and not yet appended
          announced  \* the blocks whose pool was told they are valid

vars == <<chain, pending, announced>>

OnChain == {chain[i] : i \in 1..Len(chain)}
Tip     == chain[Len(chain)]
Full    == Len(chain) = MaxBlocks

\* Two accepted blocks name the same previous block.
Forked == \E a, b \in (OnChain \cup pending) \ {Genesis} :
              a # b /\ a.prev = b.prev

Init ==
    /\ chain = <<Genesis>>
    /\ pending = {}
    /\ announced = {}

\* A new block becomes pending: while the chain has room and no fork, only one
\* that names the tip, and only when no other is pending.
Accept ==
    /\ \E b \in pending' :
         /\ \A c \in OnChain \cup pending : c.id # b.id
         /\ pending' = pending \cup {b}
         /\ Forked' \/ Full \/ (pending = {} /\ b.prev = Hash(Tip))
    /\ UNCHANGED <<chain, announced>>

AppendBlock ==
    /\ ~Full
    /\ \E b \in pending :
         /\ chain' = Append(chain, b)
         /\ pending' = pending \ {b}
    /\ UNCHANGED announced

Announce ==
    /\ \E b \in OnChain \cup pending : announced' = announced \cup {b}
    /\ UNCHANGED <<chain, pending>>

Next ==
    \/ Accept
    \/ AppendBlock
    \/ Announce

Spec == Init /\ [][Next]_vars
=============================================================================
