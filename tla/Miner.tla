------------------------------- MODULE Miner -------------------------------
(***************************************************************************)
(* A miner (Minero.cpp): it asks the pool for a header, hashes it with one *)
(* nonce after another, reports those good enough for the pool as shares   *)
(* and one good enough for the block as its nonce, and after every hashes  *)
(* nonces asks whether another miner was faster.                           *)
(*                                                                         *)
(* The pool is the peer of the connection: it answers each request, or     *)
(* dies.  hashOf gives the hash of each nonce of the header at hand.       *)
(***************************************************************************)
EXTENDS ValidHash, FiniteSets

CONSTANTS Nonces,   \* values a nonce has, 2^32 in the code
          hashes,   \* nonces between two questions, 200 in the code
          MP_diff,  \* difficulty of a share, 14 in the code
          diff,     \* difficulty of the block, 22 in the code
          Outcomes  \* the hashes a nonce may have

ASSUME MinerAssumption ==
    /\ Nonces \in Nat \ {0}
    /\ hashes \in Nat \ {0}
    /\ MP_diff \in Diffs
    /\ diff \in Diffs
    /\ MP_diff <= diff
    /\ Outcomes \subseteq Hashes

VARIABLES
    place,     \* what the miner does, or which answer it waits for
    Nonce,     \* Header.Nonce
    i,         \* hashes since the last question
    hashOf,    \* external: the hash of the header with each nonce
    passed,    \* history: nonces done with
    reported   \* history: nonces reported as shares

vars == <<place, Nonce, i, hashOf, passed, reported>>

NonceSet == 0..(Nonces - 1)

-----------------------------------------------------------------------------
(* Plausible bugs, each the mutated form of a definition below.             *)

NextNonceUnbounded(n) == n + 1                    \* the width forgotten
OnlyNetworkDiff(h)    == validhash(h, diff)       \* a share must be a block
NotAdvanced           ==                          \* Nonce++ forgotten
    UNCHANGED Nonce /\ passed' = passed \cup {Nonce}
ShareUncounted        ==                          \* a share does not count as a hash
    place' = "hash" /\ UNCHANGED i
-----------------------------------------------------------------------------
\* Header.Nonce++
NextNonce(n) == (n + 1) % Nonces

\* for (i = 0; i < hashes; i++), then the question
CountHash ==
    /\ i' = i + 1
    /\ place' = IF i + 1 < hashes THEN "hash" ELSE "state"

CountShare == CountHash

\* the nonce is not the block's, so the next one is tried
Advances ==
    /\ Nonce' = NextNonce(Nonce)
    /\ passed' = passed \cup {Nonce}

AfterShare == Advances

IsShare(h) == validhash(h, MP_diff)
IsBlock(h) == validhash(h, diff)

\* getWU: a header came, with the nonce to start from
GetWU ==
    /\ place = "getWU"
    /\ Nonce' \in NonceSet
    /\ hashOf' \in [NonceSet -> Outcomes]
    /\ i' = 0
    /\ place' = "hash"
    /\ passed' = {}
    /\ reported' = {}

Hash == hashOf[Nonce]

\* dojob: the hash is worth nothing ...
Miss ==
    /\ place = "hash" /\ ~IsShare(Hash)
    /\ Advances
    /\ CountHash
    /\ UNCHANGED <<hashOf, reported>>

\* ... or is worth a share, which sendShare announces ...
FindShare ==
    /\ place = "hash" /\ IsShare(Hash) /\ ~IsBlock(Hash)
    /\ place' = "share"
    /\ UNCHANGED <<Nonce, i, hashOf, passed, reported>>

\* ... and sends when asked to ...
sendShare ==
    /\ place = "share"
    /\ reported' = reported \cup {Nonce}
    /\ AfterShare
    /\ CountShare
    /\ UNCHANGED hashOf

\* ... or makes a block, which sendNonce announces ...
FindBlock ==
    /\ place = "hash" /\ IsShare(Hash) /\ IsBlock(Hash)
    /\ place' = "nonce"
    /\ UNCHANGED <<Nonce, i, hashOf, passed, reported>>

\* ... and sends when asked to, unless a nonce was found before; either way the
\* miner asks for a header again
sendNonce ==
    /\ place = "nonce"
    /\ place' = "getWU"
    /\ UNCHANGED <<Nonce, i, hashOf, passed, reported>>

\* Pregunta: not yet, or another miner found a nonce
Pregunta ==
    /\ place = "state"
    /\ \/ place' = "hash" /\ i' = 0
       \/ place' = "getWU" /\ UNCHANGED i
    /\ UNCHANGED <<Nonce, hashOf, passed, reported>>

\* controlsend, controlrecv and headerrecv assert that the connection holds
PoolDies ==
    /\ place \in {"getWU", "share", "nonce", "state"}
    /\ place' = "aborted"
    /\ UNCHANGED <<Nonce, i, hashOf, passed, reported>>

-----------------------------------------------------------------------------
Init ==
    /\ place = "getWU"
    /\ Nonce = 0
    /\ i = 0
    /\ hashOf \in [NonceSet -> Outcomes]
    /\ passed = {}
    /\ reported = {}

\* what the miner does by itself, or as soon as the pool asks for the share
Works == Miss \/ FindShare \/ sendShare \/ FindBlock

Next == GetWU \/ Works \/ sendNonce \/ Pregunta \/ PoolDies

Spec == Init /\ [][Next]_vars

\* The miner is scheduled, and the pool answers a share without waiting for
\* anything but a mutex.
FairSpec == Spec /\ WF_vars(Works)
-----------------------------------------------------------------------------
(* Properties.                                                              *)

\* The header holds a nonce of its type, and the miner never counts more hashes
\* than it asks after.
TypeOK ==
    /\ place \in {"getWU", "hash", "share", "nonce", "state", "aborted"}
    /\ Nonce \in NonceSet
    /\ i \in 0..hashes
    /\ hashOf \in [NonceSet -> Outcomes]
    /\ passed \subseteq NonceSet
    /\ reported \subseteq NonceSet

\* No nonce that makes a block is passed over: every hash that starts with the
\* zeros the block asks for is sent, although it is only looked at when it also
\* passes the pool's own test.
NoBlockIsMissed ==
    \A n \in passed : ~StartsWithZeros(hashOf[n], diff)

\* The shares reported are the nonces passed whose hash starts with the zeros
\* the pool asks for, all of them and no others.
SharesAreReported ==
    reported = {n \in passed : StartsWithZeros(hashOf[n], MP_diff)}

\* No share is reported twice, unless the nonces wrapped around: the pool counts
\* and pays each of them.
EachShareOnce ==
    [][place' = "share" => Nonce \notin passed \/ passed = NonceSet]_vars

\* Whatever it finds, the miner keeps asking whether a nonce was found: the pool
\* counts on each miner's question to end the round.
PoolIsAsked ==
    place = "hash" ~> place \in {"state", "nonce", "aborted"}
=============================================================================
