---------------------------- MODULE MinerProofs ----------------------------
(* Theorems of Miner and of the test of hashes it rests on.                 *)
EXTENDS Miner, TLAPS

-----------------------------------------------------------------------------
(* What validhash computes.                                                 *)

LEMMA ByteBits ==
    ASSUME NEW b \in Byte
    PROVE  /\ ByteBit(b, 0) = ((b % 16) \div 8) % 2
           /\ ByteBit(b, 1) = ((b % 16) \div 4) % 2
           /\ ByteBit(b, 2) = ((b % 16) \div 2) % 2
           /\ ByteBit(b, 3) = ((b % 16) \div 1) % 2
           /\ ByteBit(b, 4) = ((b \div 16) \div 8) % 2
           /\ ByteBit(b, 5) = ((b \div 16) \div 4) % 2
           /\ ByteBit(b, 6) = ((b \div 16) \div 2) % 2
           /\ ByteBit(b, 7) = ((b \div 16) \div 1) % 2
<1>1. /\ Weight[(0 % 4) + 1] = 8 /\ Weight[(1 % 4) + 1] = 4
      /\ Weight[(2 % 4) + 1] = 2 /\ Weight[(3 % 4) + 1] = 1
      /\ Weight[(4 % 4) + 1] = 8 /\ Weight[(5 % 4) + 1] = 4
      /\ Weight[(6 % 4) + 1] = 2 /\ Weight[(7 % 4) + 1] = 1
  BY DEF Weight
<1>2. QED
  BY <1>1 DEF ByteBit, Nibble

\* A byte is a low and a high nibble of four bits each.
LEMMA Nibbles ==
    ASSUME NEW b \in Byte
    PROVE  /\ b % 16 \in 0..15 /\ b \div 16 \in 0..15
           /\ b = 16 * (b \div 16) + (b % 16)
           /\ Shifted(b) = 16 * (b % 16) + b \div 16
  BY DEF Byte, Shifted

LEMMA NibbleBits ==
    ASSUME NEW n \in 0..15
    PROVE  /\ (n \div 8) % 2 = 0 <=> n < 8
           /\ (n \div 8) % 2 = 0 /\ (n \div 4) % 2 = 0 <=> n < 4
           /\ (n \div 8) % 2 = 0 /\ (n \div 4) % 2 = 0 /\ (n \div 2) % 2 = 0 <=> n < 2
           /\ (n \div 8) % 2 = 0 /\ (n \div 4) % 2 = 0 /\ (n \div 2) % 2 = 0
                /\ (n \div 1) % 2 = 0 <=> n = 0
  OBVIOUS

LEMMA WholeByte ==
    ASSUME NEW b \in Byte
    PROVE  b = 0 <=> \A k \in 0..7 : ByteBit(b, k) = 0
<1>1. (\A k \in 0..7 : ByteBit(b, k) = 0) <=>
        /\ ByteBit(b, 0) = 0 /\ ByteBit(b, 1) = 0 /\ ByteBit(b, 2) = 0
        /\ ByteBit(b, 3) = 0 /\ ByteBit(b, 4) = 0 /\ ByteBit(b, 5) = 0
        /\ ByteBit(b, 6) = 0 /\ ByteBit(b, 7) = 0
  OBVIOUS
<1>2. @ <=> b % 16 = 0 /\ b \div 16 = 0
  BY <1>1, ByteBits, Nibbles, NibbleBits
<1>3. QED
  BY <1>1, <1>2, Nibbles

LEMMA PartOfByte ==
    ASSUME NEW b \in Byte, NEW m \in 0..7
    PROVE  ~Has(Shifted(b), lut[m + 1]) <=> \A k \in 0..(m - 1) : ByteBit(b, k) = 0
<1> DEFINE lo == b % 16
           hi == b \div 16
<1>1. lo \in 0..15 /\ hi \in 0..15 /\ Shifted(b) = 16 * lo + hi
  BY Nibbles
<1>2. /\ ByteBit(b, 0) = 0 <=> lo < 8
      /\ ByteBit(b, 0) = 0 /\ ByteBit(b, 1) = 0 <=> lo < 4
      /\ ByteBit(b, 0) = 0 /\ ByteBit(b, 1) = 0 /\ ByteBit(b, 2) = 0 <=> lo < 2
      /\ ByteBit(b, 0) = 0 /\ ByteBit(b, 1) = 0 /\ ByteBit(b, 2) = 0
           /\ ByteBit(b, 3) = 0 <=> lo = 0
      /\ ByteBit(b, 4) = 0 <=> hi < 8
      /\ ByteBit(b, 4) = 0 /\ ByteBit(b, 5) = 0 <=> hi < 4
      /\ ByteBit(b, 4) = 0 /\ ByteBit(b, 5) = 0 /\ ByteBit(b, 6) = 0 <=> hi < 2
  BY <1>1, ByteBits, NibbleBits
<1> HIDE DEF lo, hi
<1>3. CASE m = 0
  BY <1>1, <1>3 DEF Has, lut
<1>4. CASE m = 1
  <2>1. (\A k \in 0..(m - 1) : ByteBit(b, k) = 0) <=>
          /\ ByteBit(b, 0) = 0
    BY <1>4
  <2>2. ~Has(Shifted(b), lut[m + 1]) <=> 16 * lo + hi < 128
    BY <1>1, <1>4 DEF Has, lut
  <2>3. QED
    BY <1>1, <1>2, <2>1, <2>2
<1>5. CASE m = 2
  <2>1. (\A k \in 0..(m - 1) : ByteBit(b, k) = 0) <=>
          /\ ByteBit(b, 0) = 0 /\ ByteBit(b, 1) = 0
    BY <1>5
  <2>2. ~Has(Shifted(b), lut[m + 1]) <=> 16 * lo + hi < 64
    BY <1>1, <1>5 DEF Has, lut
  <2>3. QED
    BY <1>1, <1>2, <2>1, <2>2
<1>6. CASE m = 3
  <2>1. (\A k \in 0..(m - 1) : ByteBit(b, k) = 0) <=>
          /\ ByteBit(b, 0) = 0 /\ ByteBit(b, 1) = 0 /\ ByteBit(b, 2) = 0
    BY <1>6
  <2>2. ~Has(Shifted(b), lut[m + 1]) <=> 16 * lo + hi < 32
    BY <1>1, <1>6 DEF Has, lut
  <2>3. QED
    BY <1>1, <1>2, <2>1, <2>2
<1>7. CASE m = 4
  <2>1. (\A k \in 0..(m - 1) : ByteBit(b, k) = 0) <=>
          /\ ByteBit(b, 0) = 0 /\ ByteBit(b, 1) = 0 /\ ByteBit(b, 2) = 0
          /\ ByteBit(b, 3) = 0
    BY <1>7
  <2>2. ~Has(Shifted(b), lut[m + 1]) <=> 16 * lo + hi < 16
    BY <1>1, <1>7 DEF Has, lut
  <2>3. QED
    BY <1>1, <1>2, <2>1, <2>2
<1>8. CASE m = 5
  <2>1. (\A k \in 0..(m - 1) : ByteBit(b, k) = 0) <=>
          /\ ByteBit(b, 0) = 0 /\ ByteBit(b, 1) = 0 /\ ByteBit(b, 2) = 0
          /\ ByteBit(b, 3) = 0 /\ ByteBit(b, 4) = 0
    BY <1>8
  <2>2. ~Has(Shifted(b), lut[m + 1]) <=> 16 * lo + hi < 8
    BY <1>1, <1>8 DEF Has, lut
  <2>3. QED
    BY <1>1, <1>2, <2>1, <2>2
<1>9. CASE m = 6
  <2>1. (\A k \in 0..(m - 1) : ByteBit(b, k) = 0) <=>
          /\ ByteBit(b, 0) = 0 /\ ByteBit(b, 1) = 0 /\ ByteBit(b, 2) = 0
          /\ ByteBit(b, 3) = 0 /\ ByteBit(b, 4) = 0 /\ ByteBit(b, 5) = 0
    BY <1>9
  <2>2. ~Has(Shifted(b), lut[m + 1]) <=> 16 * lo + hi < 4
    BY <1>1, <1>9 DEF Has, lut
  <2>3. QED
    BY <1>1, <1>2, <2>1, <2>2
<1>10. CASE m = 7
  <2>1. (\A k \in 0..(m - 1) : ByteBit(b, k) = 0) <=>
          /\ ByteBit(b, 0) = 0 /\ ByteBit(b, 1) = 0 /\ ByteBit(b, 2) = 0
          /\ ByteBit(b, 3) = 0 /\ ByteBit(b, 4) = 0 /\ ByteBit(b, 5) = 0
          /\ ByteBit(b, 6) = 0
    BY <1>10
  <2>2. ~Has(Shifted(b), lut[m + 1]) <=> 16 * lo + hi < 2
    BY <1>1, <1>10 DEF Has, lut
  <2>3. QED
    BY <1>1, <1>2, <2>1, <2>2
<1>11. QED
  BY <1>3, <1>4, <1>5, <1>6, <1>7, <1>8, <1>9, <1>10

\* For hashes of any size and every difficulty below their number of bits,
\* validhash (ProtocoloMPS.hpp:576-593) accepts exactly the hashes that start with
\* as many zeros as the difficulty says.
THEOREM ValidHashCountsZeros ==
    ASSUME NEW h \in Hashes, NEW d \in Diffs
    PROVE  validhash(h, d) <=> StartsWithZeros(h, d)
<1> DEFINE q == d \div 8
           m == d % 8
<1>1. q \in 0..(Size - 1) /\ m \in 0..7 /\ d = 8 * q + m
  BY SizeAssumption DEF Diffs
<1>2. \A i0 \in 0..q : Size - 1 - i0 \in 0..(Size - 1) /\ h[Size - 1 - i0] \in Byte
  BY <1>1, SizeAssumption DEF Hashes
<1>3. validhash(h, d) <=>
        /\ \A i0 \in 0..(q - 1) : \A k \in 0..7 : ByteBit(h[Size - 1 - i0], k) = 0
        /\ \A k \in 0..(m - 1) : ByteBit(h[Size - 1 - q], k) = 0
  <2>1. \A i0 \in 0..(q - 1) : h[Size - 1 - i0] = 0 <=>
                                 \A k \in 0..7 : ByteBit(h[Size - 1 - i0], k) = 0
    BY <1>1, <1>2, WholeByte
  <2>2. ~Has(Shifted(h[Size - 1 - q]), lut[m + 1]) <=>
          \A k \in 0..(m - 1) : ByteBit(h[Size - 1 - q], k) = 0
    BY <1>1, <1>2, PartOfByte
  <2>3. QED
    BY <2>1, <2>2 DEF validhash
<1>4. \A k \in Nat : /\ k \div 8 \in Nat /\ k % 8 \in 0..7 /\ k = 8 * (k \div 8) + (k % 8)
  OBVIOUS
<1>5. \A i0 \in Nat, k \in 0..7 : (8 * i0 + k) \div 8 = i0 /\ (8 * i0 + k) % 8 = k
  OBVIOUS
<1> HIDE DEF q, m
<1>6. ASSUME validhash(h, d), NEW k \in 0..(d - 1)
      PROVE  Bit(h, k) = 0
  <2>1. k \div 8 \in Nat /\ k % 8 \in 0..7 /\ k = 8 * (k \div 8) + (k % 8)
    BY <1>1, <1>4
  <2>2. k \div 8 <= q /\ (k \div 8 = q => k % 8 < m)
    BY <1>1, <2>1
  <2>3. QED
    BY <1>1, <1>3, <1>6, <2>1, <2>2 DEF Bit
<1>7. ASSUME StartsWithZeros(h, d)
      PROVE  validhash(h, d)
  <2>1. ASSUME NEW i0 \in 0..q, NEW k \in 0..7, 8 * i0 + k < d
        PROVE  ByteBit(h[Size - 1 - i0], k) = 0
    <3>1. 8 * i0 + k \in 0..(d - 1)
      BY <1>1, <2>1
    <3>2. Bit(h, 8 * i0 + k) = 0
      BY <1>7, <3>1 DEF StartsWithZeros
    <3>3. QED
      BY <1>1, <1>5, <3>2 DEF Bit
  <2>2. \A i0 \in 0..(q - 1), k \in 0..7 : 8 * i0 + k < d
    BY <1>1
  <2>3. \A k \in 0..(m - 1) : 8 * q + k < d
    BY <1>1
  <2>4. QED
    BY <1>1, <1>3, <2>1, <2>2, <2>3
<1>8. QED
  BY <1>6, <1>7 DEF StartsWithZeros

\* A hash good enough for a difficulty is good enough for every lower one: the
\* miner may test for a share first (Minero.cpp:114-116).
THEOREM HarderImpliesEasier ==
    ASSUME NEW h \in Hashes, NEW d \in Diffs, NEW e \in 0..d, validhash(h, d)
    PROVE  validhash(h, e)
<1>1. e \in Diffs /\ 0..(e - 1) \subseteq 0..(d - 1)
  BY SizeAssumption DEF Diffs
<1>2. QED
  BY <1>1, ValidHashCountsZeros DEF StartsWithZeros

-----------------------------------------------------------------------------
(* What the miner does with it.                                             *)

\* The miner announces a share only for a hash that is one, and not a block's.
ShareIsFound == place = "share" => IsShare(Hash) /\ ~IsBlock(Hash)

\* The count is full only when the question is due.
CountIsOpen == place \in {"hash", "share"} => i < hashes

IInv == TypeOK /\ CountIsOpen /\ ShareIsFound /\ NoBlockIsMissed /\ SharesAreReported

LEMMA HashOfNonce ==
    ASSUME TypeOK
    PROVE  Nonce \in NonceSet /\ Hash \in Hashes
  BY MinerAssumption DEF TypeOK, Hash

LEMMA Verdicts ==
    ASSUME TypeOK
    PROVE  /\ IsShare(Hash) <=> StartsWithZeros(hashOf[Nonce], MP_diff)
           /\ IsBlock(Hash) <=> StartsWithZeros(hashOf[Nonce], diff)
           /\ IsBlock(Hash) => IsShare(Hash)
<1>1. Hash \in Hashes
  BY HashOfNonce
<1>2. IsBlock(Hash) => IsShare(Hash)
  <2>1. MP_diff \in 0..diff
    BY MinerAssumption DEF Diffs
  <2>2. QED
    BY <1>1, <2>1, MinerAssumption, HarderImpliesEasier DEF IsBlock, IsShare
<1>3. QED
  BY <1>1, <1>2, MinerAssumption, ValidHashCountsZeros DEF IsBlock, IsShare, Hash

LEMMA NonceWraps ==
    ASSUME NEW n \in NonceSet
    PROVE  NextNonce(n) \in NonceSet
  BY MinerAssumption DEF NonceSet, NextNonce

\* The miner is not about to hash with its count full.
LEMMA Counting ==
    ASSUME IInv, place \in {"hash", "share"}, CountHash
    PROVE  i' \in 0..hashes /\ place' \in {"hash", "state"}
  BY MinerAssumption DEF IInv, TypeOK, CountIsOpen, CountHash

LEMMA Initially == Init => IInv
<1>1. 0 \in NonceSet
  BY MinerAssumption DEF NonceSet
<1>2. QED
  BY <1>1, MinerAssumption
     DEF Init, IInv, TypeOK, CountIsOpen, ShareIsFound, NoBlockIsMissed, SharesAreReported

\* A step that leaves the header and its nonce alone, and announces no share.
LEMMA OtherSteps ==
    ASSUME IInv, UNCHANGED <<Nonce, hashOf, passed, reported>>,
           i' \in 0..hashes,
           place' \in {"getWU", "hash", "nonce", "state", "aborted"},
           CountIsOpen'
    PROVE  IInv'
  BY DEF IInv, TypeOK, ShareIsFound, NoBlockIsMissed, SharesAreReported

LEMMA Step == IInv /\ [Next]_vars => IInv'
<1> SUFFICES ASSUME IInv, [Next]_vars
             PROVE  IInv'
  OBVIOUS
<1> USE DEF IInv
<1>1. CASE GetWU
  <2>1. TypeOK'
    BY <1>1, MinerAssumption DEF GetWU, TypeOK
  <2>2. QED
    BY <1>1, <2>1, MinerAssumption
       DEF GetWU, CountIsOpen, ShareIsFound, NoBlockIsMissed, SharesAreReported
<1>2. CASE Miss
  <2>1. TypeOK'
    <3>1. passed' \subseteq NonceSet /\ Nonce' \in NonceSet
      BY <1>2, HashOfNonce, NonceWraps DEF Miss, Advances, TypeOK
    <3>2. i' \in 0..hashes /\ place' \in {"hash", "state"}
      BY <1>2, Counting DEF Miss
    <3>3. QED
      BY <1>2, <3>1, <3>2 DEF Miss, TypeOK
  <2>2. ShareIsFound'
    BY <1>2 DEF Miss, CountHash, ShareIsFound
  <2>3. NoBlockIsMissed'
    BY <1>2, Verdicts DEF Miss, Advances, NoBlockIsMissed
  <2>4. SharesAreReported'
    BY <1>2, Verdicts DEF Miss, Advances, SharesAreReported
  <2>5. CountIsOpen'
    BY <1>2 DEF Miss, CountHash, CountIsOpen
  <2>6. QED
    BY <2>1, <2>2, <2>3, <2>4, <2>5
<1>3. CASE FindShare
  BY <1>3 DEF FindShare, TypeOK, CountIsOpen, ShareIsFound, NoBlockIsMissed,
              SharesAreReported, Hash, IsShare, IsBlock
<1>4. CASE sendShare
  <2>1. TypeOK'
    <3>1. reported' \subseteq NonceSet /\ passed' \subseteq NonceSet
      BY <1>4, HashOfNonce DEF sendShare, AfterShare, Advances, TypeOK
    <3>2. Nonce' \in NonceSet
      BY <1>4, HashOfNonce, NonceWraps DEF sendShare, AfterShare, Advances
    <3>3. i' \in 0..hashes /\ place' \in {"hash", "state"}
      BY <1>4, Counting DEF sendShare, CountShare
    <3>4. QED
      BY <1>4, <3>1, <3>2, <3>3 DEF sendShare, TypeOK
  <2>2. ShareIsFound'
    BY <1>4 DEF sendShare, CountShare, CountHash, ShareIsFound
  <2>3. NoBlockIsMissed'
    BY <1>4, Verdicts
       DEF sendShare, AfterShare, Advances, ShareIsFound, NoBlockIsMissed
  <2>4. SharesAreReported'
    BY <1>4, Verdicts
       DEF sendShare, AfterShare, Advances, ShareIsFound, SharesAreReported
  <2>5. CountIsOpen'
    BY <1>4 DEF sendShare, CountShare, CountHash, CountIsOpen
  <2>6. QED
    BY <2>1, <2>2, <2>3, <2>4, <2>5
<1>5. CASE FindBlock
  BY <1>5, OtherSteps DEF FindBlock, TypeOK, CountIsOpen
<1>6. CASE sendNonce
  BY <1>6, OtherSteps DEF sendNonce, TypeOK, CountIsOpen
<1>7. CASE Pregunta
  BY <1>7, OtherSteps, MinerAssumption DEF Pregunta, TypeOK, CountIsOpen
<1>8. CASE PoolDies
  BY <1>8, OtherSteps DEF PoolDies, TypeOK, CountIsOpen
<1>9. CASE UNCHANGED vars
  BY <1>9 DEF vars, TypeOK, CountIsOpen, ShareIsFound, NoBlockIsMissed, SharesAreReported,
              Hash, IsShare, IsBlock
<1>10. QED
  BY <1>1, <1>2, <1>3, <1>4, <1>5, <1>6, <1>7, <1>8, <1>9 DEF Next, Works

LEMMA Inductive == Spec => []IInv
  BY Initially, Step, PTL DEF Spec

\* For any number of nonces and any difficulties of which the pool's is the lower,
\* the nonce of the header fits its width, and hashes are counted up to the
\* question.
THEOREM MinerTypeCorrect == Spec => []TypeOK
  BY Inductive, PTL DEF IInv

\* ... and whatever the hash function gives, no nonce that makes a block is passed
\* over (Minero.cpp:114-131): a block is always worth a share.
THEOREM EveryBlockIsSent == Spec => []NoBlockIsMissed
  BY Inductive, PTL DEF IInv

\* ... and the shares reported are the nonces worth one, all of them.
THEOREM EveryShareIsReported == Spec => []SharesAreReported
  BY Inductive, PTL DEF IInv
-----------------------------------------------------------------------------
(* Shares are not repeated.                                                 *)

\* The nonces done with end just below the one at hand, and go on down from the
\* highest when they reach the lowest, until they are all.
PassedInARow ==
    \/ passed = NonceSet
    \/ \E a \in NonceSet :
         IF a <= Nonce THEN passed = a..(Nonce - 1)
                       ELSE passed = (a..(Nonces - 1)) \cup (0..(Nonce - 1))

LEMMA NextNonceIs ==
    ASSUME NEW n \in NonceSet
    PROVE  NextNonce(n) = IF n = Nonces - 1 THEN 0 ELSE n + 1
<1>1. Nonces \in Nat /\ Nonces > 0 /\ n \in Nat /\ n < Nonces
  BY MinerAssumption DEF NonceSet
<1>2. CASE n = Nonces - 1
  <2>1. Nonces % Nonces = 0
    BY <1>1
  <2> QED  BY <1>1, <1>2, <2>1 DEF NextNonce
<1>3. CASE n # Nonces - 1
  <2>1. n + 1 \in 0..(Nonces - 1)
    BY <1>1, <1>3
  <2>2. (n + 1) % Nonces = n + 1
    BY <1>1, <2>1
  <2> QED  BY <1>3, <2>2 DEF NextNonce
<1> QED  BY <1>2, <1>3

LEMMA RowGrows ==
    ASSUME TypeOK, PassedInARow, Advances
    PROVE  PassedInARow'
<1> DEFINE n == Nonce
<1>1. /\ Nonces \in Nat /\ Nonces > 0 /\ n \in 0..(Nonces - 1)
      /\ NonceSet = 0..(Nonces - 1)
  BY MinerAssumption DEF TypeOK, NonceSet
<1>2. /\ passed' = passed \cup {n}
      /\ Nonce' = IF n = Nonces - 1 THEN 0 ELSE n + 1
  BY NextNonceIs DEF TypeOK, Advances
<1>3. CASE passed = NonceSet
  BY <1>1, <1>2, <1>3 DEF PassedInARow, NonceSet
<1>4. ASSUME NEW a \in NonceSet, a <= n, passed = a..(n - 1)
      PROVE  PassedInARow'
  <2>1. passed' = a..n
    BY <1>1, <1>2, <1>4
  <2>2. CASE n # Nonces - 1
    <3>1. a <= Nonce' /\ passed' = a..(Nonce' - 1)
      BY <1>1, <1>2, <1>4, <2>1, <2>2
    <3> QED  BY <3>1 DEF PassedInARow, NonceSet
  <2>3. CASE n = Nonces - 1 /\ a = 0
    <3>1. passed' = NonceSet
      BY <1>1, <2>1, <2>3
    <3> QED  BY <3>1 DEF PassedInARow, NonceSet
  <2>4. CASE n = Nonces - 1 /\ a # 0
    <3>1. Nonce' = 0 /\ ~(a <= Nonce')
      BY <1>1, <1>2, <2>4
    <3>2. passed' = (a..(Nonces - 1)) \cup (0..(Nonce' - 1))
      BY <1>1, <2>1, <2>4, <3>1
    <3> QED  BY <3>1, <3>2 DEF PassedInARow, NonceSet
  <2> QED  BY <2>2, <2>3, <2>4
<1>5. ASSUME NEW a \in NonceSet, n < a, passed = (a..(Nonces - 1)) \cup (0..(n - 1))
      PROVE  PassedInARow'
  <2>1. n # Nonces - 1 /\ Nonce' = n + 1
    BY <1>1, <1>2, <1>5
  <2>2. passed' = (a..(Nonces - 1)) \cup (0..n)
    BY <1>1, <1>2, <1>5
  <2>3. CASE n + 1 = a
    <3>1. passed' = NonceSet
      BY <1>1, <2>2, <2>3
    <3> QED  BY <3>1 DEF PassedInARow, NonceSet
  <2>4. CASE n + 1 < a
    <3>1. ~(a <= Nonce') /\ passed' = (a..(Nonces - 1)) \cup (0..(Nonce' - 1))
      BY <1>1, <2>1, <2>2, <2>4
    <3> QED  BY <3>1 DEF PassedInARow, NonceSet
  <2> QED  BY <1>1, <1>5, <2>3, <2>4
<1> QED
  <2>1. ASSUME NEW a \in NonceSet
        PROVE  a <= n \/ n < a
    BY <1>1
  <2> QED  BY <1>1, <1>3, <1>4, <1>5, <2>1 DEF PassedInARow

LEMMA RowKept ==
    ASSUME TypeOK, PassedInARow, [Next]_vars
    PROVE  PassedInARow'
<1>1. CASE GetWU
  <2>1. Nonce' \in NonceSet /\ passed' = {}
    BY <1>1 DEF GetWU
  <2>2. Nonce' \in Nat
    BY <2>1, MinerAssumption DEF NonceSet
  <2>3. \A n \in Nat : n <= n /\ n..(n - 1) = {}
    OBVIOUS
  <2> QED  BY <2>1, <2>2, <2>3 DEF PassedInARow, NonceSet
<1>2. CASE Miss \/ sendShare
  BY <1>2, RowGrows DEF Miss, sendShare, AfterShare
<1>3. CASE \/ FindShare \/ FindBlock \/ sendNonce \/ Pregunta \/ PoolDies
           \/ UNCHANGED vars
  <2>1. UNCHANGED <<Nonce, passed>>
    BY <1>3 DEF FindShare, FindBlock, sendNonce, Pregunta, PoolDies, vars
  <2> QED  BY <2>1 DEF PassedInARow, NonceSet
<1> QED  BY <1>1, <1>2, <1>3 DEF Next, Works

\* No share is sent twice (Minero.cpp:114-136), unless all nonces were done with:
\* the nonce moves on after a miss in one place and after a share in another, and
\* wraps around wherever the pool made it start.
THEOREM NoShareTwice == Spec => EachShareOnce
<1>1. Init => PassedInARow
  <2>1. ASSUME Init
        PROVE  0 \in NonceSet /\ 0 <= Nonce /\ passed = 0..(Nonce - 1)
    BY <2>1, MinerAssumption DEF Init, NonceSet
  <2> QED  BY <2>1 DEF PassedInARow
<1>2. TypeOK /\ PassedInARow /\ [Next]_vars => PassedInARow'
  BY RowKept
<1>3. TypeOK /\ PassedInARow => Nonce \notin passed \/ passed = NonceSet
  BY MinerAssumption DEF TypeOK, PassedInARow, NonceSet
<1>4. TypeOK /\ PassedInARow /\ [Next]_vars
        => [place' = "share" => Nonce \notin passed \/ passed = NonceSet]_vars
  BY <1>3
<1>5. Spec => []PassedInARow
  BY <1>1, <1>2, MinerTypeCorrect, PTL DEF Spec
<1> QED  BY <1>4, <1>5, MinerTypeCorrect, PTL DEF Spec, EachShareOnce
=============================================================================
