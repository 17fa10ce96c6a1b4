--------------------------- MODULE MempoolProofs ---------------------------
(***************************************************************************)
(* Theorems about the mempool: its type invariant, and that a block takes  *)
(* from it as many of each transaction as it holds, for any pools, peers   *)
(* that die, transactions and sizes.                                       *)
(***************************************************************************)
EXTENDS Mempool, FoldProofs

LEMMA RoomKeepsType ==
    ASSUME NEW s \in Seq(Transactions), Len(s) <= MaxTransactions,
           NEW more \in Seq(Transactions)
    PROVE  /\ addTransactions(s, more) \in Seq(Transactions)
           /\ Len(addTransactions(s, more)) <= MaxTransactions
<1>1. Len(s) \in Nat /\ Len(more) \in Nat /\ MaxTransactions \in Nat
  BY MempoolAssumption
<1>2. s \o more \in Seq(Transactions) /\ Len(s \o more) = Len(s) + Len(more)
  OBVIOUS
<1>3. CASE HasRoom(s, more)
  <2>1. Len(s \o more) <= MaxTransactions
    BY <1>1, <1>2, <1>3 DEF HasRoom
  <2> QED  BY <1>2, <1>3, <2>1 DEF addTransactions
<1>4. CASE ~HasRoom(s, more)
  BY <1>4 DEF addTransactions
<1> QED  BY <1>3, <1>4

LEMMA DeletionIsRemoval ==
    ASSUME NEW s, NEW b
    PROVE  delete_transactions(s, b) = RemoveAll(s, b)
BY DEF delete_transactions, RemoveAll, RemoveOne, FoldLeft, MapThenFoldSet

LEMMA CountIsCopies ==
    ASSUME NEW s, NEW t
    PROVE  Count(s, t) = Copies(s, t)
BY DEF Count, Copies, Places

LEMMA Deleted ==
    ASSUME NEW s \in Seq(Transactions), NEW b \in Seq(Values)
    PROVE  /\ delete_transactions(s, b) \in Seq(Transactions)
           /\ Len(delete_transactions(s, b)) <= Len(s)
           /\ \A t : Count(delete_transactions(s, b), t) = Minus(Count(s, t), Count(b, t))
<1>1. /\ RemoveAll(s, b) \in Seq(Transactions) /\ Len(RemoveAll(s, b)) <= Len(s)
      /\ \A t : Copies(RemoveAll(s, b), t) = Less(Copies(s, t), Copies(b, t))
  BY CopiesAfterRemoveAll
<1> QED  BY <1>1, DeletionIsRemoval, CountIsCopies DEF Less, Minus

\* What a pool announces is a list of transactions.
LEMMA BlocksAreTyped ==
    ASSUME NEW n, NEW copy \in BoundedSeq(Transactions, n), n \in Nat
    PROVE  copy \in Seq(Transactions) /\ BlockOf(copy) \in Seq(Values)
<1>1. PICK m \in 0..n : copy \in [1..m -> Transactions]
  BY DEF BoundedSeq, SeqOf
<1>2. copy \in Seq(Transactions)
  BY <1>1
<1>3. copy \in Seq(Values) /\ <<Coinbase>> \in Seq(Values)
  BY <1>2 DEF Values
<1> QED  BY <1>2, <1>3 DEF BlockOf

-----------------------------------------------------------------------------
LEMMA InitTyped == Init => TypeOK
<1> SUFFICES ASSUME Init
             PROVE  TypeOK
  OBVIOUS
<1>1. <<>> \in Seq(Transactions) /\ <<>> \in Seq(Values) /\ Len(<<>>) = 0
  OBVIOUS
<1>2. Len(tran) <= MaxTransactions
  BY <1>1, MempoolAssumption DEF Init
<1>3. payments \in [Pools -> Seq(Transactions)] /\ mem \in [Pools -> Seq(Transactions)]
  BY <1>1 DEF Init
<1> QED  BY <1>1, <1>2, <1>3 DEF Init, TypeOK

LEMMA TypeStep == TypeOK /\ [Next]_vars => TypeOK'
<1> SUFFICES ASSUME TypeOK, [Next]_vars
             PROVE  TypeOK'
  OBVIOUS
<1> USE DEF TypeOK
<1>1. ASSUME NEW p \in Pools, AskMempool(p)
      PROVE  TypeOK'
  BY <1>1 DEF AskMempool, served, status, signals
<1>2. ASSUME NEW p \in Pools, NEW paid \in BoundedSeq(Transactions, MaxPayments),
             PayMiners(p, paid)
      PROVE  TypeOK'
  <2>1. paid \in Seq(Transactions)
    BY MempoolAssumption, BlocksAreTyped
  <2> QED  BY <1>2, <2>1 DEF PayMiners, served, status, signals
<1>3. ASSUME NEW p \in Pools, SendPayments(p)
      PROVE  TypeOK'
  BY <1>3 DEF SendPayments, served, status, signals
<1>4. ASSUME NEW copy \in BoundedSeq(Transactions, MaxTransactions),
             AnnounceBlock(BlockOf(copy))
      PROVE  TypeOK'
  <2>1. BlockOf(copy) \in Seq(Values)
    BY MempoolAssumption, BlocksAreTyped
  <2> QED  BY <1>4, <2>1 DEF AnnounceBlock, pooled, status, signals
<1>5. CASE SendBlock
  BY <1>5 DEF SendBlock, pooled, status, signals
<1>6. ASSUME NEW x \in Crashers, PeerDies(x)
      PROVE  TypeOK'
  BY <1>6 DEF PeerDies, pooled, served, signals
<1>7. ASSUME NEW p \in Pools, SendingMempool(p)
      PROVE  TypeOK'
  BY <1>7 DEF SendingMempool, Goes, served, status, signals
<1>8. ASSUME NEW p \in Pools, CopyMempool(p)
      PROVE  TypeOK'
  <2> DEFINE Requests == {"none", "mempool", "pay", "asked", "sent"}
             S == Seq(Transactions)
  <2>1. mem' \in [Pools -> S] /\ request' \in [Pools -> Requests]
    <3>1. mem \in [Pools -> S] /\ request \in [Pools -> Requests] /\ tran \in S
          /\ "none" \in Requests
      OBVIOUS
    <3> HIDE DEF Requests, S, TypeOK
    <3>2. CASE closed
      BY <1>8, <3>1, <3>2 DEF CopyMempool
    <3>3. CASE ~closed
      BY <1>8, <3>1, <3>3 DEF CopyMempool
    <3> QED  BY <3>2, <3>3
  <2>2. MPhandle' \in [Pools -> {"recv", "copy", "add", "ended"}]
    BY <1>8 DEF CopyMempool, Goes, LoopOrEnd
  <2> QED  BY <1>8, <2>1, <2>2 DEF CopyMempool, served, status, signals
<1>9. ASSUME NEW p \in Pools, SendNewTransaction(p)
      PROVE  TypeOK'
  BY <1>9 DEF SendNewTransaction, Goes, served, status, signals
<1>10. ASSUME NEW p \in Pools, AddTransactions(p)
       PROVE  TypeOK'
  <2>1. tran' \in Seq(Transactions) /\ Len(tran') <= MaxTransactions
    BY <1>10, RoomKeepsType DEF AddTransactions
  <2>2. <<>> \in Seq(Transactions)
    OBVIOUS
  <2> QED  BY <1>10, <2>1, <2>2 DEF AddTransactions, Goes, LoopOrEnd, served, status, signals
<1>11. ASSUME NEW p \in Pools, PoolSeesEof(p)
       PROVE  TypeOK'
  BY <1>11 DEF PoolSeesEof, pooled, served, signals
<1>12. CASE RecvNewBlock
  BY <1>12 DEF RecvNewBlock, pooled, status, signals
<1>13. CASE DeleteTransactions
  <2>1. tran' \in Seq(Transactions) /\ Len(tran') <= Len(tran)
    BY <1>13, Deleted DEF DeleteTransactions
  <2>2. Len(tran') \in Nat /\ Len(tran) \in Nat /\ MaxTransactions \in Nat
    BY <2>1, MempoolAssumption
  <2>3. Len(tran') <= MaxTransactions
    BY <2>1, <2>2
  <2>4. <<>> \in Seq(Values)
    OBVIOUS
  <2> QED
    BY <1>13, <2>1, <2>3, <2>4
    DEF DeleteTransactions, Unlocked, LoopOrEnd, pooled, status, signals
<1>14. CASE CentralSeesEof
  BY <1>14 DEF CentralSeesEof, pooled, served, signals
<1>15. CASE CloseSockets
  BY <1>15 DEF CloseSockets, pooled, served
<1>16. CASE ClearFlag
  BY <1>16 DEF ClearFlag, pooled, served
<1>17. CASE UNCHANGED vars
  BY <1>17 DEF vars, pooled, served, status, signals
<1> HIDE DEF TypeOK
<1> QED
  BY <1>1, <1>2, <1>3, <1>4, <1>5, <1>6, <1>7, <1>8, <1>9, <1>10, <1>11, <1>12,
     <1>13, <1>14, <1>15, <1>16, <1>17
  DEF Next, Peer, Handler, Central, CatchInt

\* Whatever pools, the central server and an interrupt do, the transactions fit in
\* tran, with none of them the coinbase (mempool.cpp:216).
THEOREM TypeCorrect == Spec => []TypeOK
BY InitTyped, TypeStep, PTL DEF Spec

-----------------------------------------------------------------------------
\* Only DeleteTransactions ends a deletion.
LEMMA DeletionStep ==
    ASSUME TypeOK, [Next]_vars, central = "deleting", central' # "deleting"
    PROVE  DeleteTransactions
<1>1. ~UNCHANGED vars
  BY DEF vars, served
<1>2. CASE Peer
  BY <1>2 DEF Peer, AskMempool, SendPayments, AnnounceBlock, PayMiners, SendBlock, PeerDies,
              served
<1>3. ASSUME NEW p \in Pools, Handler(p)
      PROVE  FALSE
  BY <1>3 DEF Handler, SendingMempool, CopyMempool, SendNewTransaction, AddTransactions,
              PoolSeesEof, served
<1>4. CASE CatchInt
  BY <1>4 DEF CatchInt, CloseSockets, ClearFlag, served
<1>5. CASE Central
  BY <1>5 DEF Central, RecvNewBlock, CentralSeesEof, served
<1> QED  BY <1>1, <1>2, <1>3, <1>4, <1>5 DEF Next

\* delete_transactions (mempool.cpp:226) takes out one occurrence for each
\* transaction of the block, so that of each value as many go as the block holds or
\* all there are, for any mempool and any block, in the order of the code's loops.
THEOREM BlocksDeleteTheirOwn == Spec => DeletesWhatTheBlockHolds
<1>1. TypeOK /\ [Next]_vars
      => [central = "deleting" /\ central' # "deleting" =>
            \A t \in Transactions :
                Count(tran', t) = Minus(Count(tran, t), Count(block, t))]_vars
  <2> SUFFICES ASSUME TypeOK, [Next]_vars, central = "deleting", central' # "deleting",
                      NEW t \in Transactions
               PROVE  Count(tran', t) = Minus(Count(tran, t), Count(block, t))
    OBVIOUS
  <2>1. tran' = delete_transactions(tran, block)
    BY DeletionStep DEF DeleteTransactions
  <2>2. tran \in Seq(Transactions) /\ block \in Seq(Values)
    BY DEF TypeOK
  <2>3. Count(delete_transactions(tran, block), t) = Minus(Count(tran, t), Count(block, t))
    BY <2>2, Deleted
  <2> QED  BY <2>1, <2>3
<1> QED  BY <1>1, TypeCorrect, PTL DEF Spec, DeletesWhatTheBlockHolds
=============================================================================
