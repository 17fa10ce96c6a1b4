---------------------------- MODULE WalletsProofs ----------------------------
(***************************************************************************)
(* Theorems about what wallets are told, for any wallets, accounts, pools, *)
(* payments and length of the chain.                                       *)
(*                                                                         *)
(* The argument.  Blockchain::monedas adds up, block by block, what the    *)
(* payments of each block move to the account.  The same sum, payment by   *)
(* payment, is how many blocks have the payment times what it moves; and   *)
(* how many blocks have it is what LedgerProofs relates to the mempool.    *)
(***************************************************************************)
EXTENDS Wallets, LedgerProofs

-----------------------------------------------------------------------------
(* What a list of transactions moves.                                       *)

LEMMA MovesType ==
    ASSUME NEW t \in M!Values, NEW id
    PROVE  Moves(t, id) \in Int
<1>1. t.quantity \in Nat
  BY WalletsAssumption DEF M!Values
<1>2. (IF t.receiver = id THEN t.quantity ELSE 0) \in Int
      /\ (IF t.sender = id THEN t.quantity ELSE 0) \in Int
  BY <1>1
<1> QED  BY <1>2 DEF Moves

\* The loop over a block's transactions adds up what each of them moves.
LEMMA MovedIsTotal ==
    ASSUME NEW s \in Seq(M!Values), NEW id
    PROVE  Moved(s, id) = Total([i \in 1..Len(s) |-> Moves(s[i], id)], 1..Len(s))
<1> DEFINE n == Len(s)
           S == 1..n
           f == [i \in S |-> Moves(s[i], id)]
           Fold(g) == g = [T \in SUBSET S |->
                            IF T = {} THEN 0 ELSE g[T \ {Max(T)}] + Moves(s[Max(T)], id)]
<1>1. n \in Nat /\ DOMAIN s = S /\ \A i \in S : s[i] \in M!Values
  OBVIOUS
<1>2. Numbers(f, S)
  BY <1>1, MovesType DEF Numbers
<1>3. \A T \in SUBSET S : T # {} => f[Max(T)] = Moves(s[Max(T)], id)
  <2>1. \A T \in SUBSET S : T # {} => Max(T) \in T
    BY <1>1, <1>2, TotalLast
  <2> QED  BY <2>1
<1>4. PICK it : it = (CHOOSE h : Fold(h)) /\ Fold(it)
  <2>1. PICK g : g = [T \in SUBSET S |-> IF T = {} THEN 0 ELSE g[T \ {Max(T)}] + f[Max(T)]]
    <3> HIDE DEF f
    <3> QED  BY <1>1, <1>2, SumsByLast
  <2>2. Fold(g)
    <3> HIDE DEF f, S
    <3> QED  BY <1>3, <2>1
  <2>3. Fold(CHOOSE h : Fold(h))
    BY <2>2
  <2> HIDE DEF Fold
  <2> QED  BY <2>3
<1>5. Moved(s, id) = it[S]
  BY <1>1, <1>4 DEF Moved, FoldLeft, MapThenFoldSet
<1>6. \A T \in SUBSET S : it[T] = IF T = {} THEN 0 ELSE it[T \ {Max(T)}] + f[Max(T)]
  <2>1. ASSUME NEW T \in SUBSET S
        PROVE  it[T] = IF T = {} THEN 0 ELSE it[T \ {Max(T)}] + Moves(s[Max(T)], id)
    <3> HIDE DEF S
    <3> QED  BY <1>4
  <2> HIDE DEF S, f, Fold
  <2> QED  BY <1>3, <2>1
<1> HIDE DEF f, n
<1>7. it[1..n] = Total(f, 1..n)
  BY <1>1, <1>2, <1>6, TotalByLast
<1> QED  BY <1>5, <1>7 DEF f, n

\* ... so that what a list moves is, transaction by transaction, how many of it
\* there are times what it moves.
Weighs(s, id) == [t \in M!Values |-> M!Count(s, t) * Moves(t, id)]

LEMMA ValuesFinite == IsFiniteSet(M!Values) /\ IsFiniteSet(Transactions)
BY WalletsAssumption, FS_AddElement DEF M!Values

LEMMA MovedByValue ==
    ASSUME NEW s \in Seq(M!Values), NEW id
    PROVE  /\ Moved(s, id) = Total(Weighs(s, id), M!Values)
           /\ Numbers(Weighs(s, id), M!Values)
<1> DEFINE f == [i \in 1..Len(s) |-> Moves(s[i], id)]
           w == [t \in M!Values |-> Moves(t, id)]
<1>1. Numbers(w, M!Values)
  BY MovesType DEF Numbers
<1>2. \A i \in 1..Len(s) : f[i] = w[s[i]]
  OBVIOUS
<1>3. \A t \in M!Values : Weighs(s, id)[t] = Copies(s, t) * w[t]
  BY CountIsCopies DEF Weighs
<1>4. Moved(s, id) = Total(f, 1..Len(s))
  BY MovedIsTotal
<1>5. \A t : Copies(s, t) \in Nat
  BY PlacesFinite
<1>6. Numbers(Weighs(s, id), M!Values)
  BY <1>1, <1>3, <1>5, Distributes DEF Numbers
<1> HIDE DEF f, w
<1>7. Total(f, 1..Len(s)) = Total(Weighs(s, id), M!Values)
  BY <1>1, <1>2, <1>3, ValuesFinite, TotalByValue
<1> QED  BY <1>4, <1>6, <1>7

LEMMA WithoutReward ==
    ASSUME NEW s \in Seq(M!Values), NEW id
    PROVE  /\ Moved(s, id) = Total(Weighs(s, id), Transactions)
                             + M!Count(s, Coinbase) * Moves(Coinbase, id)
           /\ Numbers(Weighs(s, id), Transactions)
           /\ Total(Weighs(s, id), Transactions) \in Int
<1> DEFINE h == Weighs(s, id)
<1>1. Moved(s, id) = Total(h, M!Values) /\ Numbers(h, M!Values)
  BY MovedByValue
<1>2. h[Coinbase] = M!Count(s, Coinbase) * Moves(Coinbase, id)
  BY DEF Weighs, M!Values
<1> HIDE DEF h
<1>3. M!Values = Transactions \cup {Coinbase} /\ Coinbase \notin Transactions
  BY LedgerAssumption DEF M!Values
<1>4. Numbers(h, Transactions)
  BY <1>1, <1>3 DEF Numbers
<1>5. Total(h, Transactions \cup {Coinbase}) = Total(h, Transactions) + h[Coinbase]
      /\ Total(h, Transactions) \in Int
  BY <1>1, <1>3, <1>4, ValuesFinite, TotalAdd, TotalType
<1> QED  BY <1>1, <1>2, <1>3, <1>4, <1>5 DEF h

LEMMA MovedByMempool ==
    ASSUME NEW s \in Seq(Transactions), NEW id
    PROVE  /\ Moved(s, id) = Total(Weighs(s, id), Transactions)
           /\ Numbers(Weighs(s, id), Transactions)
<1>1. s \in Seq(M!Values)
  BY DEF M!Values
<1>2. M!Count(s, Coinbase) = 0
  <2>1. Places(s, Coinbase) = {}
    BY LedgerAssumption DEF Places
  <2> QED  BY <2>1, FS_EmptySet, CountIsCopies DEF Copies
<1>3. Moves(Coinbase, id) \in Int
  BY MovesType DEF M!Values
<1> QED  BY <1>1, <1>2, <1>3, WithoutReward

LEMMA MovedByBlock ==
    ASSUME NEW b \in Bodies, NEW id
    PROVE  /\ Moved(b, id) = Total(Weighs(b, id), Transactions) + Moves(Coinbase, id)
           /\ Numbers(Weighs(b, id), Transactions)
           /\ Total(Weighs(b, id), Transactions) \in Int
<1>1. PICK copy \in Lists : b = M!BlockOf(copy)
  BY DEF Bodies
<1>2. b \in Seq(M!Values)
  BY <1>1, BodyCounts
<1>3. M!Count(b, Coinbase) = 1
  <2>1. copy \in Seq(Transactions) /\ b = <<Coinbase>> \o copy
    BY <1>1 DEF Lists, M!BlockOf
  <2>2. /\ Len(copy) \in Nat /\ Len(b) = Len(copy) + 1 /\ b[1] = Coinbase
        /\ \A i \in 2..Len(b) : b[i] = copy[i - 1] /\ i - 1 \in 1..Len(copy)
    BY <2>1
  <2>3. \A i \in 2..Len(b) : b[i] # Coinbase
    BY <2>1, <2>2, LedgerAssumption
  <2>4. Places(b, Coinbase) = {1}
    BY <2>2, <2>3 DEF Places
  <2> QED  BY <2>4, FS_Singleton, CountIsCopies DEF Copies
<1>4. Moves(Coinbase, id) \in Int
  BY MovesType DEF M!Values
<1> QED  BY <1>2, <1>3, <1>4, WithoutReward
-----------------------------------------------------------------------------
(* What the blocks of the chain move.                                       *)

InBlock(i, id) == Moved(bodies[chain[i].id], id)

\* The loop over the chain adds up what each block but the genesis block moves.
LEMMA CoinsIsTotal ==
    ASSUME Central, Joined, NEW id
    PROVE  /\ Coins(chain, id) = Total([i \in 2..Len(chain) |-> InBlock(i, id)], 2..Len(chain))
           /\ Coins(chain, id) \in Int
<1> DEFINE n == Len(chain)
           S == 1..n
           R == 2..n
           V(i) == IF chain[i] = Genesis THEN 0 ELSE InBlock(i, id)
           f == [i \in S |-> V(i)]
           h == [i \in R |-> InBlock(i, id)]
           Fold(g) == g = [T \in SUBSET S |->
                            IF T = {} THEN 0 ELSE g[T \ {Max(T)}] + V(Max(T))]
<1>1. n \in Nat /\ n >= 1 /\ DOMAIN chain = S /\ chain[1] = Genesis
  BY DEF Central, IInv, TypeOK, Joined, Held
<1>2. \A i \in R : chain[i] # Genesis /\ InBlock(i, id) \in Int
  <2> TAKE i \in R
  <2>1. i \in 1..n /\ 1 \in 1..n /\ i # 1
    BY <1>1
  <2>2. chain[i] # Genesis
    BY <1>1, <2>1 DEF Central, Owned, NoBlockTwice
  <2>3. bodies[chain[i].id] \in Bodies
    BY BodiesOnChain DEF Joined
  <2>4. Moves(Coinbase, id) \in Int
    BY MovesType DEF M!Values
  <2>5. InBlock(i, id) \in Int
    BY <2>3, <2>4, MovedByBlock DEF InBlock
  <2> QED  BY <2>2, <2>5
<1>3. S = R \cup {1} /\ 1 \notin R /\ IsFiniteSet(R) /\ IsFiniteSet(S)
  BY <1>1, FS_Interval, FS_AddElement
<1>4. f[1] = 0 /\ \A i \in R : f[i] = h[i] /\ h[i] \in Int
  BY <1>1, <1>2, <1>3
<1>5. Numbers(f, S) /\ Numbers(f, R) /\ Numbers(h, R)
  <2> HIDE DEF f, h, S, R
  <2> QED  BY <1>3, <1>4 DEF Numbers
<1>6. \A T \in SUBSET S : T # {} => f[Max(T)] = V(Max(T))
  <2>1. \A T \in SUBSET S : T # {} => Max(T) \in T
    BY <1>1, <1>5, TotalLast
  <2> HIDE DEF V
  <2> QED  BY <2>1
<1>7. PICK it : it = (CHOOSE g : Fold(g)) /\ Fold(it)
  <2>1. PICK g : g = [T \in SUBSET S |-> IF T = {} THEN 0 ELSE g[T \ {Max(T)}] + f[Max(T)]]
    <3> HIDE DEF f
    <3> QED  BY <1>1, <1>5, SumsByLast
  <2>2. Fold(g)
    <3> HIDE DEF f, S, V
    <3> QED  BY <1>6, <2>1
  <2>3. Fold(CHOOSE g2 : Fold(g2))
    BY <2>2
  <2> HIDE DEF Fold
  <2> QED  BY <2>3
<1>8. Coins(chain, id) = it[S]
  BY <1>1, <1>7 DEF Coins, InBlock, FoldLeft, MapThenFoldSet
<1>9. \A T \in SUBSET S : it[T] = IF T = {} THEN 0 ELSE it[T \ {Max(T)}] + f[Max(T)]
  <2>1. ASSUME NEW T \in SUBSET S
        PROVE  it[T] = IF T = {} THEN 0 ELSE it[T \ {Max(T)}] + V(Max(T))
    <3> HIDE DEF S, V
    <3> QED  BY <1>7
  <2> HIDE DEF S, f, V, Fold
  <2> QED  BY <1>6, <2>1
<1>10. it[S] = Total(f, S)
  <2> HIDE DEF f, n, V, Fold
  <2> QED  BY <1>1, <1>5, <1>9, TotalByLast
<1>11. Total(f, S) = Total(h, R) /\ Total(h, R) \in Int
  <2> HIDE DEF f, h, S, R
  <2>1. Total(f, R \cup {1}) = Total(f, R) + f[1]
    BY <1>3, <1>5, TotalAdd
  <2>2. Total(f, R) = Total(h, R)
    BY <1>3, <1>4, <1>5, TotalSame
  <2>3. Total(h, R) \in Int
    BY <1>3, <1>5, TotalType
  <2> QED  BY <1>3, <1>4, <2>1, <2>2, <2>3
<1> QED  BY <1>8, <1>10, <1>11
-----------------------------------------------------------------------------
(* The sum over the blocks is a sum over the payments.                      *)

Weight(z, id) == M!Count(bodies[chain[z[1]].id], z[2]) * Moves(z[2], id)

LEMMA CoinsByPayment ==
    ASSUME Central, Joined, Premise, NEW id
    PROVE  LET paid == [t \in Transactions |-> Confirmed(t) * Moves(t, id)]
           IN  /\ Coins(chain, id) = Total(paid, Transactions)
                                     + (Len(chain) - 1) * Moves(Coinbase, id)
               /\ Numbers(paid, Transactions)
<1> DEFINE n == Len(chain)
           R == 2..n
           A == Transactions
           w == Moves(Coinbase, id)
           h == [i \in R |-> InBlock(i, id)]
           k == [i \in R |-> w]
           F == [z \in R \X A |-> Weight(z, id)]
           Row(i) == [t \in A |-> F[<<i, t>>]]
           Col(t) == [i \in R |-> F[<<i, t>>]]
           r == [i \in R |-> Total(Row(i), A)]
           paid == [t \in A |-> Confirmed(t) * Moves(t, id)]
<1>1. /\ n \in Nat /\ n >= 1
      /\ \A i \in R : \A t : M!Count(bodies[chain[i].id], t) \in Nat
  BY PremiseGives
<1>2. w \in Int /\ \A t \in A : Moves(t, id) \in Int
  BY MovesType DEF M!Values
<1>3. IsFiniteSet(R) /\ Cardinality(R) = n - 1 /\ IsFiniteSet(A)
  <2> HIDE DEF n
  <2>1. 2 \in Int /\ n \in Int /\ (2 > n => n = 1)
    BY <1>1
  <2>2. IsFiniteSet(R) /\ Cardinality(R) = IF 2 > n THEN 0 ELSE n - 2 + 1
    BY <2>1, FS_Interval
  <2> QED  BY <1>1, <2>1, <2>2, ValuesFinite
<1>4. Numbers(F, R \X A)
  <2>1. ASSUME NEW i \in R, NEW t \in A
        PROVE  F[<<i, t>>] \in Int
    <3>1. M!Count(bodies[chain[i].id], t) * Moves(t, id) \in Int
      <4>1. M!Count(bodies[chain[i].id], t) \in Int /\ Moves(t, id) \in Int
        BY <1>1, <1>2
      <4> QED  BY <4>1, Distributes
    <3> QED  BY <3>1 DEF Weight
  <2> HIDE DEF F, R, A
  <2> QED  BY <2>1 DEF Numbers
<1>5. \A i \in R : h[i] = r[i] + k[i]
  <2> TAKE i \in R
  <2>1. bodies[chain[i].id] \in Bodies
    BY BodiesOnChain DEF Joined
  <2>2. h[i] = Total(Weighs(bodies[chain[i].id], id), A) + w
    BY <2>1, MovedByBlock DEF InBlock
  <2>3. Numbers(Weighs(bodies[chain[i].id], id), A)
    BY <2>1, MovedByBlock
  <2>4. \A t \in A : Row(i)[t] = Weighs(bodies[chain[i].id], id)[t]
    BY DEF Weight, Weighs, M!Values
  <2> HIDE DEF Row
  <2>5. Total(Row(i), A) = Total(Weighs(bodies[chain[i].id], id), A)
    BY <1>3, <2>3, <2>4, TotalSame
  <2> QED  BY <2>2, <2>5
<1>6. ASSUME NEW i \in R
      PROVE  Total(Row(i), A) \in Int
  <2>1. Numbers(Row(i), A)
    <3> HIDE DEF F
    <3> QED  BY <1>4 DEF Numbers
  <2> HIDE DEF Row
  <2> QED  BY <1>3, <2>1, TotalType
<1>7. Numbers(r, R) /\ Numbers(k, R)
  <2> HIDE DEF Row
  <2> QED  BY <1>2, <1>6 DEF Numbers
<1>8. Total(h, R) = Total(r, R) + Total(k, R)
  <2> HIDE DEF h, r, k, R
  <2> QED  BY <1>3, <1>5, <1>7, TotalPlus
<1>9. Total(k, R) = (n - 1) * w
  <2>1. \A i \in R : k[i] = w
    OBVIOUS
  <2> HIDE DEF k, R, w
  <2> QED  BY <1>2, <1>3, <2>1, TotalConstant
<1>10. \A t \in A : paid[t] = Total(Col(t), R)
  <2> TAKE t \in A
  <2>1. Confirmed(t) = Total(Inside(chain, bodies, t), R)
    BY InsideIsConfirmed
  <2>2. Numbers(Inside(chain, bodies, t), R)
    BY <1>1 DEF Inside, Numbers
  <2>3. \A i \in R : Col(t)[i] = Inside(chain, bodies, t)[i] * Moves(t, id)
    BY DEF Weight, Inside
  <2> HIDE DEF Col, R
  <2>4. Total(Col(t), R) = Total(Inside(chain, bodies, t), R) * Moves(t, id)
    BY <1>2, <1>3, <2>2, <2>3, TotalTimes
  <2> QED  BY <2>1, <2>4
<1>11. Total(r, R) = Total(paid, A)
  <2> DEFINE rows == [i \in R |-> Row(i)]
             cols == [t \in A |-> Col(t)]
  <2>1. \A i \in R : r[i] = Total(rows[i], A) /\ \A t \in A : rows[i][t] = F[<<i, t>>]
    <3> HIDE DEF F
    <3> QED  OBVIOUS
  <2>2. \A t \in A : paid[t] = Total(cols[t], R) /\ \A i \in R : cols[t][i] = F[<<i, t>>]
    <3> HIDE DEF F, paid
    <3> QED  BY <1>10
  <2> HIDE DEF F, R, A, r, paid, rows, cols
  <2> QED  BY <1>3, <1>4, <2>1, <2>2, TotalSwap
<1>12. Numbers(paid, A)
  <2>1. \A t \in A : Confirmed(t) \in Nat
    BY <1>1, InsideIsConfirmed, InsideType
  <2>2. \A t \in A : Confirmed(t) * Moves(t, id) \in Int
    BY <1>2, <2>1, Distributes
  <2> QED  BY <2>2 DEF Numbers
<1>13. Coins(chain, id) = Total(h, R)
  BY CoinsIsTotal
<1> HIDE DEF h, r, k, F, Row, Col
<1> QED  BY <1>8, <1>9, <1>11, <1>12, <1>13

\* While nothing is being moved from the mempool to the chain, what the chain holds
\* of an account and what waits for it make up what is due.
LEMMA NothingTwice ==
    ASSUME Central, Joined, Premise, Follows, builder = "idle", NEW id
    PROVE  Coins(chain, id) + Moved(tran, id) = Due(id)
<1> DEFINE A == Transactions
           R == (Len(chain) - 1) * Moves(Coinbase, id)
           paid == [t \in A |-> Confirmed(t) * Moves(t, id)]
           wait == Weighs(tran, id)
           owed == [t \in A |-> added[t] * Moves(t, id)]
<1>1. Coins(chain, id) = Total(paid, A) + R /\ Numbers(paid, A)
  BY CoinsByPayment
<1>2. Moved(tran, id) = Total(wait, A) /\ Numbers(wait, A)
  BY MovedByMempool DEF Joined, Held, Lists
<1>3. \A t \in A : owed[t] = paid[t] + wait[t]
  <2> TAKE t \in A
  <2>1. server = "idle"
    BY DEF Joined, Exchange
  <2>2. Confirmed(t) + M!Count(tran, t) = added[t] + 0 /\ added[t] \in Int
        /\ M!Count(tran, t) \in Nat
    BY <2>1, PremiseGives DEF Follows, Balance, Doomed
  <2>3. Confirmed(t) \in Nat
    BY PremiseGives, InsideIsConfirmed, InsideType
  <2>4. Moves(t, id) \in Int
    BY MovesType DEF M!Values
  <2>5. (Confirmed(t) + M!Count(tran, t)) * Moves(t, id)
        = Confirmed(t) * Moves(t, id) + M!Count(tran, t) * Moves(t, id)
    BY <2>2, <2>3, <2>4, Distributes
  <2>6. added[t] = Confirmed(t) + M!Count(tran, t)
    BY <2>2
  <2> QED  BY <2>5, <2>6 DEF Weighs, M!Values
<1>4. IsFiniteSet(A)
  BY ValuesFinite
<1> HIDE DEF paid, wait
<1>5. Total(owed, A) = Total(paid, A) + Total(wait, A)
  <2> HIDE DEF owed
  <2> QED  BY <1>1, <1>2, <1>3, <1>4, TotalPlus
<1>6. Due(id) = Total(owed, A) + R
  BY DEF Due, Total, MapThenSumSet, MapThenFoldSet
<1>7. Total(paid, A) \in Int /\ Total(wait, A) \in Int /\ R \in Int
  <2>1. Moves(Coinbase, id) \in Int
    BY MovesType DEF M!Values
  <2>2. Len(chain) - 1 \in Int
    BY PremiseGives
  <2>3. R \in Int
    BY <2>1, <2>2, Distributes
  <2> QED  BY <1>1, <1>2, <1>4, <2>3, TotalType
<1> HIDE DEF owed, R
<1> QED  BY <1>1, <1>2, <1>5, <1>6, <1>7
-----------------------------------------------------------------------------
(* The invariant of LedgerProofs, with wallets that may end the process.    *)

WInv == Central /\ Joined /\ (Premise => Follows)

\* A wallet that dies changes up and nothing else.
LEMMA DeathKeepsInvariant ==
    ASSUME WInv, up' = FALSE,
           UNCHANGED <<shared, previoushash, netprev, builder, handler, blk, buffer,
                       sleeping, peers, history, mempoolVars, stage, record>>
    PROVE  WInv'
<1>1. UNCHANGED <<chain, aux, agregar_bloque, validado, pool, template, alive, accepted,
                  validated>>
  BY DEF shared, peers, history
<1>2. UNCHANGED <<tran, central, server, block, MPhandle, request, payments, mem, connected,
                  flag, closed, running, bodies, added>>
  BY DEF mempoolVars, record
<1>3. Central'
  <2>1. TypeOK'
    BY <1>1 DEF WInv, Central, IInv, TypeOK
  <2>2. Identities'
    BY <1>1 DEF WInv, Central, IInv, Identities
  <2>3. (NoSiblings => Sound)'
    <3>1. (Quiet <=> Quiet') /\ (InFlight <=> InFlight')
      BY <1>1 DEF Quiet, InFlight, Newest, OnChain, Hash, Tip, Storing
    <3>2. (Published <=> Published') /\ (Numbered <=> Numbered')
      BY <1>1 DEF Published, Numbered
    <3>3. (BuilderHeader <=> BuilderHeader') /\ (Kept <=> Kept')
      BY <1>1 DEF BuilderHeader, Kept, OnChain, Hash, Tip
    <3>4. NoSiblings <=> NoSiblings'
      BY <1>1 DEF NoSiblings
    <3> QED  BY <1>1, <3>1, <3>2, <3>3, <3>4 DEF WInv, Central, IInv, Sound, Steady
  <2>4. Owned'
    BY <1>1 DEF WInv, Central, Owned, NoBlockTwice, OnChain, Storing
  <2> QED  BY <2>1, <2>2, <2>3, <2>4 DEF Central, IInv
<1>4. Joined'
  <2>1. Turns'
    BY <1>1, <1>2 DEF WInv, Joined, Turns, InTurn
  <2>2. Exchange'
    BY <1>1, <1>2 DEF WInv, Joined, Exchange
  <2>3. Held'
    BY <1>1, <1>2 DEF WInv, Joined, Held
  <2> QED  BY <1>2, <2>1, <2>2, <2>3 DEF WInv, Joined
<1>5. (Premise => Follows)'
  <2> SUFFICES ASSUME Premise' PROVE Follows'
    OBVIOUS
  <2>1. Premise
    BY <1>1 DEF Premise, NoSiblings
  <2>2. Follows /\ \A t \in Transactions : M!Count(tran, t) \in Nat
    BY <2>1, PremiseGives DEF WInv
  <2> QED  BY <1>1, <1>2, <2>2, FollowsFrame DEF WInv
<1> QED  BY <1>3, <1>4, <1>5 DEF WInv

LEMMA LedgerKeepsInvariant ==
    ASSUME WInv, [LedgerNext]_ledgerVars
    PROVE  WInv'
<1>1. Central'
  <2>1. [Next]_vars
    BY CentralStep
  <2>2. TypeOK' /\ Identities'
    BY <2>1, TypeStep DEF WInv, Central, IInv
  <2>3. NoSiblings' => Sound'
    BY <2>1, SoundStep DEF WInv, Central, IInv
  <2>4. Owned'
    BY <2>1, OwnedStep DEF WInv, Central, IInv
  <2> QED  BY <2>2, <2>3, <2>4 DEF Central, IInv
<1>2. Joined'
  BY <1>1, TurnsStep, ExchangeStep, HeldStep, MempoolStep DEF WInv, Joined, Central, IInv
<1>3. (Premise => Follows)'
  BY <1>1, FollowsStep DEF WInv
<1> QED  BY <1>1, <1>2, <1>3 DEF WInv

\* What a step does to the servers, and to what the wallets were told.
LEMMA WalletsStep ==
    ASSUME [WalletsNext]_<<ledgerVars, walletVars>>
    PROVE  /\ \/ [LedgerNext]_ledgerVars
              \/ \E w \in Wallet : WalletDies(w)
           /\ \/ UNCHANGED walletVars
              \/ \E w \in Wallet : AskForCoins(w)
<1>1. ASSUME NEW w \in Wallet, AskForCoins(w)
      PROVE  UNCHANGED ledgerVars
  BY <1>1 DEF AskForCoins
<1>2. ASSUME NEW w \in Wallet, WalletDies(w)
      PROVE  UNCHANGED walletVars
  BY <1>2 DEF WalletDies
<1> QED  BY <1>1, <1>2 DEF WalletsNext

Given ==
    /\ ID \in [Wallet -> Accounts \cup {"uninitialized"}]
    /\ monedas \in [Wallet -> Int]

LEMMA GivenStep ==
    ASSUME WInv, Given, [WalletsNext]_<<ledgerVars, walletVars>>
    PROVE  Given'
<1>1. CASE UNCHANGED walletVars
  BY <1>1 DEF walletVars, Given
<1>2. ASSUME NEW w \in Wallet, AskForCoins(w)
      PROVE  Given'
  <2>1. PICK id \in Accounts : /\ ID' = [ID EXCEPT ![w] = id]
                              /\ monedas' = [monedas EXCEPT ![w] = Coins(chain, id)]
    BY <1>2 DEF AskForCoins
  <2>2. Coins(chain, id) \in Int
    BY CoinsIsTotal DEF WInv
  <2> QED  BY <2>1, <2>2 DEF Given
<1> QED  BY <1>1, <1>2, WalletsStep

LEMMA WInvStep == WInv /\ [WalletsNext]_<<ledgerVars, walletVars>> => WInv'
<1> SUFFICES ASSUME WInv, [WalletsNext]_<<ledgerVars, walletVars>>
             PROVE  WInv'
  OBVIOUS
<1>1. CASE [LedgerNext]_ledgerVars
  BY <1>1, LedgerKeepsInvariant
<1>2. ASSUME NEW w \in Wallet, WalletDies(w)
      PROVE  WInv'
  BY <1>2, DeathKeepsInvariant DEF WalletDies
<1> QED  BY <1>1, <1>2, WalletsStep

LEMMA WInvInit == WalletsInit => WInv /\ Given
<1> SUFFICES ASSUME WalletsInit
             PROVE  WInv /\ Given
  OBVIOUS
<1>1. LedgerInit /\ Init
  BY LedgerInitIsInit DEF WalletsInit
<1>2. Central
  BY <1>1, InitTyped, InitSound, InitOwned DEF Central, IInv
<1>3. Joined
  BY <1>1, TurnsInit, ExchangeInit, HeldInit, LedgerInitIsMempoolInit DEF Joined
<1>4. Given
  BY DEF WalletsInit, Given
<1> QED  BY <1>1, <1>2, <1>3, <1>4, FollowsInit DEF WInv

\* Whatever wallets ask and whenever they die, every payment the mempool added is on
\* the chain once or still in the mempool: unless siblings are accepted or the chain
\* is full.
THEOREM NoPaymentIsLostToWallets == WalletsSpec => []PaymentsAreConserved
<1>1. WInv => PaymentsAreConserved
  BY DEF WInv, Premise, Follows, Balance, PaymentsAreConserved
<1> QED  BY <1>1, WInvInit, WInvStep, PTL DEF WalletsSpec

\* What a wallet is told and what waits in the mempool at that moment is all that
\* was ever paid to and by its account, each payment counted once, for an answer is
\* computed only while nothing is on its way from the mempool to the chain.
THEOREM WalletsAreToldOnce == WalletsSpec => NoCoinsTwice
<1>1. WInv /\ Given /\ [WalletsNext]_<<ledgerVars, walletVars>>
      => [\A w \in Wallet :
            ID'[w] # ID[w] /\ NoSiblings /\ Len(chain) < MaxBlocks =>
               monedas'[w] + Moved(tran, ID'[w]) = Due(ID'[w])]_<<ledgerVars, walletVars>>
  <2> SUFFICES ASSUME WInv, Given, [WalletsNext]_<<ledgerVars, walletVars>>,
                      NEW w \in Wallet, ID'[w] # ID[w], NoSiblings, Len(chain) < MaxBlocks
               PROVE  monedas'[w] + Moved(tran, ID'[w]) = Due(ID'[w])
    OBVIOUS
  <2>1. PICK v \in Wallet : AskForCoins(v)
    BY WalletsStep DEF walletVars
  <2>2. PICK id \in Accounts : /\ ID' = [ID EXCEPT ![v] = id]
                              /\ monedas' = [monedas EXCEPT ![v] = Coins(chain, id)]
    BY <2>1 DEF AskForCoins
  <2>3. v = w /\ ID'[w] = id /\ monedas'[w] = Coins(chain, id)
    BY <2>2 DEF Given
  <2>4. builder = "idle"
    BY <2>1 DEF AskForCoins, ChainIsSafe, LockFree
  <2>5. Premise /\ Follows /\ Central /\ Joined
    BY DEF WInv, Premise
  <2>6. Coins(chain, id) + Moved(tran, id) = Due(id)
    BY <2>4, <2>5, NothingTwice
  <2> QED  BY <2>3, <2>6
<1>2. WInv /\ Given /\ [WalletsNext]_<<ledgerVars, walletVars>> => Given'
  BY GivenStep
<1> QED  BY <1>1, <1>2, WInvInit, WInvStep, PTL DEF WalletsSpec, NoCoinsTwice
=============================================================================
