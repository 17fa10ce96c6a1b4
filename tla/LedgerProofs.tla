---------------------------- MODULE LedgerProofs ----------------------------
(***************************************************************************)
(* Theorems about the central server, the mempool and the pools together,  *)
(* for any pools, any length of the chain, any transactions and any size   *)
(* of the mempool.                                                         *)
(*                                                                         *)
(* The argument.  A step of Ledger is a step of the central server and of  *)
(* the mempool, so that what is proved of the first holds here.  A pool    *)
(* whose header names the tip copied the mempool after the tip's payments  *)
(* were deleted from it: the header is published after the deletion, and   *)
(* a later block changes the tip before anything is deleted for it.  So    *)
(* what the pool copied is still in the mempool when its block is          *)
(* accepted, and stays there until it is deleted for that very block.      *)
(***************************************************************************)
EXTENDS Ledger, CentralServerProofs, FoldProofs

-----------------------------------------------------------------------------
(* The mempool's operators, in terms of FoldProofs.                         *)

LEMMA CountIsCopies ==
    ASSUME NEW s, NEW t
    PROVE  M!Count(s, t) = Copies(s, t)
BY DEF M!Count, Copies, Places, Cardinality, M!Cardinality

LEMMA DeletionIsRemoval ==
    ASSUME NEW s, NEW b
    PROVE  M!delete_transactions(s, b) = RemoveAll(s, b)
BY DEF M!delete_transactions, M!RemoveOne, RemoveAll, FoldLeft, M!FoldLeft,
       MapThenFoldSet, M!MapThenFoldSet, RemoveFirst, M!RemoveFirst,
       SelectInSeq, M!SelectInSeq, RemoveAt, M!RemoveAt, Min, M!Min, Max, M!Max

\* What the mempool may hold, and the blocks made of it.
Lists  == {s \in Seq(Transactions) : Len(s) <= MaxTransactions}
Bodies == {M!BlockOf(copy) : copy \in Lists}

LEMMA RoomKeepsType ==
    ASSUME NEW s \in Lists, NEW more \in Seq(Transactions)
    PROVE  /\ M!addTransactions(s, more) \in Lists
           /\ \A t : M!Count(s, t) <= M!Count(M!addTransactions(s, more), t)
<1>1. Len(s) \in Nat /\ Len(more) \in Nat /\ MaxTransactions \in Nat
      /\ s \in Seq(Transactions)
  BY LedgerAssumption DEF Lists
<1>2. s \o more \in Seq(Transactions) /\ Len(s \o more) = Len(s) + Len(more)
      /\ \A i \in 1..Len(s) : (s \o more)[i] = s[i]
  BY <1>1
<1>3. CASE M!HasRoom(s, more)
  <2>1. Len(s \o more) <= MaxTransactions
    BY <1>1, <1>2, <1>3 DEF M!HasRoom
  <2>2. ASSUME NEW t
        PROVE  Copies(s, t) <= Copies(s \o more, t)
    <3>1. Places(s, t) \subseteq Places(s \o more, t)
      BY <1>1, <1>2 DEF Places
    <3>2. IsFiniteSet(Places(s \o more, t))
      BY <1>2, PlacesFinite
    <3> QED  BY <3>1, <3>2, FS_Subset DEF Copies
  <2>3. M!addTransactions(s, more) = s \o more
    BY <1>3 DEF M!addTransactions
  <2> QED  BY <1>2, <2>1, <2>2, <2>3, CountIsCopies DEF Lists
<1>4. CASE ~M!HasRoom(s, more)
  <2>1. M!addTransactions(s, more) = s
    BY <1>4 DEF M!addTransactions
  <2>2. \A t : Copies(s, t) \in Nat
    BY <1>1, PlacesFinite
  <2> QED  BY <2>1, <2>2, CountIsCopies
<1> QED  BY <1>3, <1>4

LEMMA RemovalKeepsType ==
    ASSUME NEW s \in Lists, NEW b \in Seq(M!Values)
    PROVE  /\ M!delete_transactions(s, b) \in Lists
           /\ \A t : /\ M!Count(s, t) \in Nat /\ M!Count(b, t) \in Nat
                     /\ M!Count(M!delete_transactions(s, b), t)
                        = IF M!Count(s, t) < M!Count(b, t)
                          THEN 0 ELSE M!Count(s, t) - M!Count(b, t)
<1>1. s \in Seq(Transactions) /\ Len(s) <= MaxTransactions /\ Len(s) \in Nat
      /\ MaxTransactions \in Nat
  BY LedgerAssumption DEF Lists
<1>2. /\ RemoveAll(s, b) \in Seq(Transactions) /\ Len(RemoveAll(s, b)) <= Len(s)
      /\ \A t : Copies(RemoveAll(s, b), t) = Less(Copies(s, t), Copies(b, t))
  BY <1>1, CopiesAfterRemoveAll
<1>3. Len(RemoveAll(s, b)) \in Nat
  BY <1>2
<1>4. RemoveAll(s, b) \in Lists
  BY <1>1, <1>2, <1>3 DEF Lists
<1>5. \A t : Copies(s, t) \in Nat /\ Copies(b, t) \in Nat
  BY <1>1, PlacesFinite
<1> QED  BY <1>2, <1>4, <1>5, DeletionIsRemoval, CountIsCopies DEF Less

\* A block holds of each transaction what its pool copied, and the coinbase.
LEMMA BodyCounts ==
    ASSUME NEW copy \in Lists
    PROVE  /\ M!BlockOf(copy) \in Seq(M!Values)
           /\ \A t \in Transactions : M!Count(M!BlockOf(copy), t) = M!Count(copy, t)
<1>1. copy \in Seq(Transactions)
  BY DEF Lists
<1>2. copy \in Seq(M!Values) /\ <<Coinbase>> \in Seq(M!Values)
  BY <1>1 DEF M!Values
<1>3. \A t \in Transactions : Copies(<<Coinbase>> \o copy, t) = Copies(copy, t)
  BY <1>1, LedgerAssumption, CopiesAfterFirst
<1> QED  BY <1>2, <1>3, CountIsCopies DEF M!BlockOf
-----------------------------------------------------------------------------
(* The central server in Ledger is the one of CentralServer.                *)

LEMMA LedgerInitIsInit == LedgerInit => Init
BY DEF LedgerInit

LEMMA CentralStep == [LedgerNext]_ledgerVars => [Next]_vars
<1> SUFFICES ASSUME [LedgerNext]_ledgerVars
             PROVE  [Next]_vars
  OBVIOUS
<1>1. ASSUME NEW p \in MiningPools, PoolSteps(p) \/ OfferBlock(p)
      PROVE  [Next]_vars
  BY <1>1 DEF PoolSteps, OfferBlock, AskHeader, AskMempool, UploadBlock, PayMiners, Next, Peer
<1>2. ASSUME NEW p \in MiningPools, HandlerSteps(p)
      PROVE  Handler(p)
  BY <1>2 DEF HandlerSteps, GetHeader, JudgeBlock, GetVerdict, Handler
<1>3. ASSUME NEW p \in MiningPools, MempoolSteps(p)
      PROVE  UNCHANGED vars
  BY <1>3 DEF MempoolSteps, GetMempool, Paid
<1>4. CASE BuilderSteps
  BY <1>4 DEF BuilderSteps, AnnounceBlock, GiveTransactions, Deleted, Builder, Next
<1>5. CASE DeletionSteps
  BY <1>5 DEF DeletionSteps
<1>6. ASSUME NEW t \in MiningPools \cup {"builder"}, SpuriousWakeup(t)
      PROVE  Next
  BY <1>6 DEF Next
<1>7. CASE UNCHANGED ledgerVars
  BY <1>7 DEF ledgerVars
<1> QED
  BY <1>1, <1>2, <1>3, <1>4, <1>5, <1>6, <1>7 DEF LedgerNext, Next

\* Together with the mempool and the pools, the central server does what it does
\* alone: every theorem about CentralServer holds here too.
THEOREM CentralServerServes == LedgerSpec => Spec
BY LedgerInitIsInit, CentralStep, PTL DEF LedgerSpec, Spec

\* What CentralServerProofs shows.
Central == IInv /\ Owned

LEMMA CentralHolds == LedgerSpec => [](Central)
<1>1. TypeOK /\ Identities /\ Owned => Owned
  OBVIOUS
<1> QED  BY <1>1, CentralServerServes, Inductive, AlwaysOwned, PTL DEF Central
-----------------------------------------------------------------------------
(* The turns of a pool, and what its connections are for meanwhile.         *)

InTurn(p) ==
    /\ pool[p] = "idle" => stage[p] \in {1, 4}
    /\ pool[p] = "asked" => stage[p] = 1
    /\ pool[p] = "mining" => stage[p] \in {2, 3}
    /\ pool[p] \in {"offered", "granted", "uploaded"} => stage[p] = 3
    /\ handler[p] = "recvBlock" => pool[p] \in {"granted", "uploaded"}
    /\ handler[p] \in {"accepted", "half", "handoff", "waiting"} => pool[p] = "uploaded"
    /\ MPhandle[p] = "copy" => request[p] = "mempool"
    /\ MPhandle[p] = "add" => request[p] \in {"asked", "sent"}
    /\ request[p] = "mempool" => stage[p] = 2
    /\ request[p] \in {"pay", "asked", "sent"} => stage[p] = 4

Turns ==
    /\ flag = TRUE /\ closed = FALSE
    /\ stage \in [MiningPools -> 1..4]
    /\ MPhandle \in [MiningPools -> {"recv", "copy", "add"}]
    /\ request \in [MiningPools -> {"none", "mempool", "pay", "asked", "sent"}]
    /\ \A p \in MiningPools : InTurn(p)

LEMMA Places4 ==
    ASSUME Turns, NEW p \in MiningPools
    PROVE  /\ At(p, "header") <=> stage[p] = 1
           /\ At(p, "mempool") <=> stage[p] = 2
           /\ At(p, "block") <=> stage[p] = 3
           /\ At(p, "pay") <=> stage[p] = 4
<1>1. stage[p] \in 1..4
  BY DEF Turns
<1>2. Loop[1] = "header" /\ Loop[2] = "mempool" /\ Loop[3] = "block" /\ Loop[4] = "pay"
  BY DEF Loop
<1>3. stage[p] = 1 \/ stage[p] = 2 \/ stage[p] = 3 \/ stage[p] = 4
  BY <1>1
<1> QED  BY <1>2, <1>3 DEF At

LEMMA TurnsOfOthers ==
    ASSUME Turns, NEW p \in MiningPools,
           UNCHANGED <<flag, closed>>,
           stage' \in [MiningPools -> 1..4],
           MPhandle' \in [MiningPools -> {"recv", "copy", "add"}],
           request' \in [MiningPools -> {"none", "mempool", "pay", "asked", "sent"}],
           InTurn(p)',
           \A q \in MiningPools \ {p} :
               /\ pool'[q] = pool[q] /\ handler'[q] = handler[q] /\ stage'[q] = stage[q]
               /\ MPhandle'[q] = MPhandle[q] /\ request'[q] = request[q]
    PROVE  Turns'
<1>1. \A q \in MiningPools \ {p} : InTurn(q)'
  BY DEF Turns, InTurn
<1> QED  BY <1>1 DEF Turns

LEMMA TurnsInit == LedgerInit => Turns
BY DEF LedgerInit, Init, M!Init, Turns, InTurn

LEMMA JudgeOutcome ==
    ASSUME TypeOK, Identities, NEW p \in MiningPools, JudgeBlock(p)
    PROVE  \/ /\ CheckBlock(p)
              /\ handler' = [handler EXCEPT ![p] = "accepted"]
              /\ UNCHANGED <<pool, stage>>
              /\ template[p] = previoushash
              /\ accepted' = accepted \cup {Received(p)}
              /\ Cardinality(accepted') = Cardinality(accepted) + 1
              /\ bodies' = Append(bodies, M!Body(p))
           \/ /\ handler' = [handler EXCEPT ![p] = "recv"]
              /\ pool' = [pool EXCEPT ![p] = "idle"]
              /\ stage' = [stage EXCEPT ![p] = 1]
              /\ UNCHANGED <<accepted, bodies>>
<1>1. Cardinality(accepted) \in Nat
  BY FS_CardinalityType DEF Identities
<1>2. CheckBlock(p)
  BY DEF JudgeBlock
<1>3. Received(p) \notin accepted
  BY <1>1 DEF Identities, Received
<1>4. CASE /\ handler' = [handler EXCEPT ![p] = "accepted"]
           /\ accepted' = accepted \cup {Received(p)}
           /\ UNCHANGED pool
           /\ template[p] = previoushash
           /\ Cardinality(accepted') = Cardinality(accepted) + 1
  <2>1. accepted' # accepted
    BY <1>3, <1>4
  <2> QED  BY <1>2, <1>4, <2>1 DEF JudgeBlock
<1>5. CASE /\ handler' = [handler EXCEPT ![p] = "recv"]
           /\ pool' = [pool EXCEPT ![p] = "idle"]
           /\ UNCHANGED accepted
  BY <1>5 DEF JudgeBlock, Restarts
<1>6. \/ UNCHANGED pool /\ handler' = [handler EXCEPT ![p] = "accepted"]
      \/ /\ pool' = [pool EXCEPT ![p] = "idle"]
         /\ handler' = [handler EXCEPT ![p] = "recv"]
         /\ UNCHANGED accepted
  BY <1>2 DEF CheckBlock
<1>7. \/ UNCHANGED accepted /\ handler' = [handler EXCEPT ![p] = "recv"]
      \/ /\ template[p] = previoushash
         /\ handler' = [handler EXCEPT ![p] = "accepted"]
         /\ accepted' = accepted \cup {Received(p)}
         /\ Cardinality(accepted') = Cardinality(accepted) + 1
  BY <1>2, CheckOutcome
<1>8. [handler EXCEPT ![p] = "accepted"] # [handler EXCEPT ![p] = "recv"]
  <2>1. handler \in [MiningPools -> {"recv", "recvBlock", "accepted", "half",
                                     "handoff", "waiting"}]
    BY DEF TypeOK
  <2>2. [handler EXCEPT ![p] = "accepted"][p] = "accepted"
        /\ [handler EXCEPT ![p] = "recv"][p] = "recv"
    BY <2>1
  <2> QED  BY <2>2
<1> QED  BY <1>4, <1>5, <1>6, <1>7, <1>8

LEMMA TurnsStep ==
    ASSUME TypeOK, Identities, Turns, [LedgerNext]_ledgerVars
    PROVE  Turns'
<1> DEFINE Same == UNCHANGED <<pool, handler, stage, MPhandle, request, flag, closed>>
<1>1. CASE Same
  BY <1>1 DEF Turns, InTurn
<1>2. ASSUME NEW p \in MiningPools,
             \/ AskHeader(p) \/ AskMempool(p) \/ UploadBlock(p) \/ PayMiners(p)
             \/ (M!SendPayments(p) /\ UNCHANGED <<vars, stage, record>>)
             \/ OfferBlock(p)
      PROVE  Turns'
  <2>1. InTurn(p)
    BY DEF Turns
  <2>2. CASE AskHeader(p) \/ OfferBlock(p) \/ UploadBlock(p)
    <3>1. InTurn(p)'
      BY <2>1, <2>2, Places4
      DEF AskHeader, OfferBlock, UploadBlock, PoolAsks, PoolOffers, PoolUploads, InTurn,
          mempoolVars, TypeOK
    <3>2. /\ UNCHANGED <<handler, stage, MPhandle, request, flag, closed>>
          /\ \A q \in MiningPools \ {p} : pool'[q] = pool[q]
      BY <2>2 DEF AskHeader, OfferBlock, UploadBlock, PoolAsks, PoolOffers, PoolUploads,
                  mempoolVars, TypeOK
    <3> QED  BY <3>1, <3>2, TurnsOfOthers DEF Turns
  <2>3. CASE AskMempool(p) \/ PayMiners(p)
             \/ (M!SendPayments(p) /\ UNCHANGED <<vars, stage, record>>)
    <3>1. InTurn(p)'
      BY <2>1, <2>3, Places4
      DEF AskMempool, PayMiners, M!AskMempool, M!PayMiners, M!SendPayments, InTurn, Turns,
          vars, peers
    <3> QED
      BY <2>3, <3>1, TurnsOfOthers
      DEF AskMempool, PayMiners, M!AskMempool, M!PayMiners, M!SendPayments, Turns,
          vars, peers, M!status, M!signals
  <2> QED  BY <1>2, <2>2, <2>3
<1>3. ASSUME NEW p \in MiningPools, HandlerSteps(p)
      PROVE  Turns'
  <2>1. InTurn(p)
    BY DEF Turns
  <2>2. CASE GetHeader(p)
    <3>1. InTurn(p)'
      BY <2>1, <2>2
      DEF GetHeader, SendHeader, Advances, InTurn, Turns, mempoolVars, TypeOK
    <3>2. stage' \in [MiningPools -> 1..4]
      BY <2>1, <2>2 DEF GetHeader, SendHeader, Advances, InTurn, Turns
    <3>3. UNCHANGED <<MPhandle, request, flag, closed>>
      BY <2>2 DEF GetHeader, mempoolVars
    <3> QED
      BY <2>2, <3>1, <3>2, <3>3, TurnsOfOthers
      DEF GetHeader, SendHeader, Advances, TypeOK, Turns
  <2>3. CASE JudgeBlock(p)
    <3>1. handler[p] = "recvBlock" /\ pool[p] = "uploaded"
          /\ UNCHANGED <<MPhandle, request, flag, closed>>
      BY <2>3 DEF JudgeBlock, CheckBlock, mempoolVars
    <3>2. CASE /\ handler' = [handler EXCEPT ![p] = "accepted"]
               /\ UNCHANGED <<pool, stage>>
      <4>1. InTurn(p)'
        BY <2>1, <3>1, <3>2 DEF InTurn, TypeOK
      <4> QED  BY <3>1, <3>2, <4>1, TurnsOfOthers DEF Turns, TypeOK
    <3>3. CASE /\ handler' = [handler EXCEPT ![p] = "recv"]
               /\ pool' = [pool EXCEPT ![p] = "idle"]
               /\ stage' = [stage EXCEPT ![p] = 1]
      <4>1. InTurn(p)'
        BY <2>1, <3>1, <3>3 DEF InTurn, TypeOK, Turns
      <4>2. stage' \in [MiningPools -> 1..4]
        BY <3>3 DEF Turns
      <4> QED  BY <3>1, <3>3, <4>1, <4>2, TurnsOfOthers DEF Turns, TypeOK
    <3> QED  BY <2>3, <3>2, <3>3, JudgeOutcome
  <2>4. CASE GetVerdict(p)
    <3>1. handler[p] \in {"handoff", "waiting"} /\ TakeVerdict(p)
          /\ UNCHANGED <<MPhandle, request, flag, closed>>
      BY <2>4 DEF GetVerdict, HandOff, Resume, mempoolVars
    <3>2. pool[p] = "uploaded" /\ stage[p] = 3
      BY <2>1, <3>1 DEF InTurn
    <3>3. CASE validado
      <4>1. handler' = [handler EXCEPT ![p] = "recv"] /\ pool' = [pool EXCEPT ![p] = "idle"]
        BY <3>1, <3>3 DEF TakeVerdict
      <4>2. stage' = [stage EXCEPT ![p] = 4]
        BY <2>4, <3>2, <4>1 DEF GetVerdict, Advances, TypeOK, Turns
      <4>3. InTurn(p)'
        BY <2>1, <3>1, <3>2, <4>1, <4>2 DEF InTurn, TypeOK, Turns
      <4>4. stage' \in [MiningPools -> 1..4]
        BY <4>2 DEF Turns
      <4> QED  BY <3>1, <4>1, <4>2, <4>3, <4>4, TurnsOfOthers DEF Turns, TypeOK
    <3>4. CASE ~validado
      <4>1. handler' = [handler EXCEPT ![p] = "waiting"] /\ pool' = pool
        BY <3>1, <3>4 DEF TakeVerdict
      <4>2. stage' = stage
        BY <2>4, <3>2, <4>1 DEF GetVerdict
      <4>3. InTurn(p)'
        BY <2>1, <3>1, <3>2, <4>1, <4>2 DEF InTurn, TypeOK, Turns
      <4> QED  BY <3>1, <4>1, <4>2, <4>3, TurnsOfOthers DEF Turns, TypeOK
    <3> QED  BY <3>3, <3>4
  <2>5. CASE /\ AskForBlock(p) \/ StoreHashHigh(p) \/ StoreHashLow(p)
             /\ UNCHANGED <<mempoolVars, stage, record>>
    <3>1. InTurn(p)'
      BY <2>1, <2>5
      DEF AskForBlock, StoreHashHigh, StoreHashLow, InTurn, mempoolVars, TypeOK, peers
    <3> QED
      BY <2>5, <3>1, TurnsOfOthers
      DEF AskForBlock, StoreHashHigh, StoreHashLow, mempoolVars, TypeOK, Turns, peers
  <2> QED  BY <1>3, <2>2, <2>3, <2>4, <2>5 DEF HandlerSteps
<1>4. ASSUME NEW p \in MiningPools, MempoolSteps(p)
      PROVE  Turns'
  <2>1. InTurn(p)
    BY DEF Turns
  <2>2. CASE GetMempool(p)
    <3>1. stage[p] = 2 /\ stage' = [stage EXCEPT ![p] = 3]
      BY <2>1, <2>2 DEF GetMempool, M!CopyMempool, Advances, InTurn, Turns
    <3>2. /\ MPhandle' = [MPhandle EXCEPT ![p] = "recv"]
          /\ request' = [request EXCEPT ![p] = "none"]
          /\ UNCHANGED <<pool, handler, flag, closed>>
      BY <2>2 DEF GetMempool, M!CopyMempool, M!Goes, M!LoopOrEnd, Turns, vars, peers,
                  M!status, M!signals
    <3>3. InTurn(p)'
      BY <2>1, <3>1, <3>2 DEF InTurn, Turns, TypeOK
    <3>4. /\ stage' \in [MiningPools -> 1..4]
          /\ MPhandle' \in [MiningPools -> {"recv", "copy", "add"}]
          /\ request' \in [MiningPools -> {"none", "mempool", "pay", "asked", "sent"}]
      BY <3>1, <3>2 DEF Turns
    <3> QED  BY <3>1, <3>2, <3>3, <3>4, TurnsOfOthers
  <2>3. CASE Paid(p)
    <3>1. stage[p] = 4 /\ stage' = [stage EXCEPT ![p] = 1]
      BY <2>1, <2>3 DEF Paid, M!AddTransactions, Restarts, InTurn, Turns
    <3>2. /\ MPhandle' = [MPhandle EXCEPT ![p] = "recv"]
          /\ request' = [request EXCEPT ![p] = "none"]
          /\ UNCHANGED <<pool, handler, flag, closed>>
      BY <2>3 DEF Paid, M!AddTransactions, M!Goes, M!LoopOrEnd, Turns, vars, peers,
                  M!status, M!signals
    <3>3. InTurn(p)'
      BY <2>1, <3>1, <3>2 DEF InTurn, Turns, TypeOK
    <3>4. /\ stage' \in [MiningPools -> 1..4]
          /\ MPhandle' \in [MiningPools -> {"recv", "copy", "add"}]
          /\ request' \in [MiningPools -> {"none", "mempool", "pay", "asked", "sent"}]
      BY <3>1, <3>2 DEF Turns
    <3> QED  BY <3>1, <3>2, <3>3, <3>4, TurnsOfOthers
  <2>4. CASE /\ M!SendingMempool(p) \/ M!SendNewTransaction(p)
             /\ UNCHANGED <<vars, stage, record>>
    <3>1. InTurn(p)'
      BY <2>1, <2>4
      DEF M!SendingMempool, M!SendNewTransaction, M!Goes, InTurn, Turns, vars, peers
    <3> QED
      BY <2>4, <3>1, TurnsOfOthers
      DEF M!SendingMempool, M!SendNewTransaction, M!Goes, Turns, vars, peers,
          M!status, M!signals
  <2> QED  BY <1>4, <2>2, <2>3, <2>4 DEF MempoolSteps
<1>5. CASE BuilderSteps
  BY <1>1, <1>5
  DEF BuilderSteps, AnnounceBlock, AddBlock, M!AnnounceBlock, GiveTransactions,
      SendTransactions, M!SendBlock, Deleted, AwaitDeletion, PublishHigh, PublishLow,
      mempoolVars, peers, M!pooled, M!status, M!signals
<1>6. CASE DeletionSteps
  BY <1>1, <1>6
  DEF DeletionSteps, M!RecvNewBlock, M!DeleteTransactions, vars, peers, M!pooled,
      M!status, M!signals
<1>7. ASSUME NEW t \in MiningPools \cup {"builder"},
             SpuriousWakeup(t) /\ UNCHANGED <<mempoolVars, stage, record>>
      PROVE  Turns'
  BY <1>1, <1>7 DEF SpuriousWakeup, mempoolVars, peers
<1>8. CASE UNCHANGED ledgerVars
  BY <1>1, <1>8 DEF ledgerVars, vars, mempoolVars, peers
<1> QED
  BY <1>2, <1>3, <1>4, <1>5, <1>6, <1>7, <1>8 DEF LedgerNext, PoolSteps
-----------------------------------------------------------------------------
(* The exchange between the builder and centralserverthread.                *)

Exchange ==
    /\ "mempool" \in alive
    /\ server \in {"idle", "newBlock", "asked", "sent"}
    /\ central \in {"recv", "deleting"}
    /\ server \in {"newBlock", "asked"} <=> builder = "newBlock"
    /\ server = "sent" => builder = "deleting"
    /\ central = "deleting" <=> server \in {"asked", "sent"}

LEMMA ExchangeInit == LedgerInit => Exchange
BY DEF LedgerInit, Init, M!Init, Exchange

LEMMA ExchangeStep ==
    ASSUME Turns, Exchange, [LedgerNext]_ledgerVars
    PROVE  Exchange'
<1> DEFINE Same == UNCHANGED <<alive, server, central, builder>>
<1>1. CASE Same
  BY <1>1 DEF Exchange
<1>2. ASSUME NEW p \in MiningPools, PoolSteps(p) \/ OfferBlock(p)
      PROVE  Same
  BY <1>2
  DEF PoolSteps, AskHeader, OfferBlock, UploadBlock, PoolAsks, PoolOffers, PoolUploads,
      AskMempool, PayMiners, M!AskMempool, M!PayMiners, M!SendPayments, mempoolVars,
      vars, peers, M!served
<1>3. ASSUME NEW p \in MiningPools, HandlerSteps(p)
      PROVE  Same
  BY <1>3
  DEF HandlerSteps, GetHeader, SendHeader, JudgeBlock, CheckBlock, GetVerdict, HandOff,
      Resume, AskForBlock, StoreHashHigh, StoreHashLow, mempoolVars, peers
<1>4. ASSUME NEW p \in MiningPools, MempoolSteps(p)
      PROVE  Same
  BY <1>4
  DEF MempoolSteps, GetMempool, Paid, M!CopyMempool, M!AddTransactions, M!SendingMempool,
      M!SendNewTransaction, vars, peers, M!served
<1>5. CASE AnnounceBlock
  BY <1>5
  DEF AnnounceBlock, AddBlock, M!AnnounceBlock, mempoolVars, peers, Exchange
<1>6. CASE GiveTransactions
  BY <1>6 DEF GiveTransactions, SendTransactions, M!SendBlock, peers, Exchange
<1>7. CASE Deleted
  BY <1>7 DEF Deleted, AwaitDeletion, mempoolVars, peers, Exchange
<1>8. CASE (PublishHigh \/ PublishLow) /\ UNCHANGED <<mempoolVars, stage, record>>
  BY <1>8 DEF PublishHigh, PublishLow, mempoolVars, peers, Exchange
<1>9. CASE DeletionSteps
  BY <1>9
  DEF DeletionSteps, M!RecvNewBlock, M!DeleteTransactions, M!Unlocked, M!LoopOrEnd, Turns,
      vars, peers, Exchange
<1>10. ASSUME NEW t \in MiningPools \cup {"builder"},
              SpuriousWakeup(t) /\ UNCHANGED <<mempoolVars, stage, record>>
       PROVE  Same
  BY <1>10 DEF SpuriousWakeup, mempoolVars, peers
<1>11. CASE UNCHANGED ledgerVars
  BY <1>1, <1>11 DEF ledgerVars, vars, mempoolVars, peers
<1> QED
  BY <1>1, <1>2, <1>3, <1>4, <1>5, <1>6, <1>7, <1>8, <1>9, <1>10, <1>11
  DEF LedgerNext, BuilderSteps
-----------------------------------------------------------------------------
(* What is in the mempool, the pools' copies and the blocks.                *)

Held ==
    /\ tran \in Lists
    /\ mem \in [MiningPools -> Lists]
    /\ payments \in [MiningPools -> Seq(Transactions)]
    /\ bodies \in Seq(Bodies)
    /\ Len(bodies) = Cardinality(accepted)
    /\ block \in Seq(M!Values)
    /\ added \in [Transactions -> Int]
    /\ chain[1] = Genesis

LEMMA HeldInit == LedgerInit => Held
<1> SUFFICES ASSUME LedgerInit
             PROVE  Held
  OBVIOUS
<1>1. <<>> \in Lists
  BY LedgerAssumption DEF Lists
<1>2. Cardinality({}) = 0
  BY FS_EmptySet
<1>3. <<>> \in Seq(Transactions) /\ <<>> \in Seq(Bodies) /\ <<>> \in Seq(M!Values)
      /\ Len(<<>>) = 0
  OBVIOUS
<1>4. /\ tran = <<>> /\ mem = [p \in MiningPools |-> <<>>]
      /\ payments = [p \in MiningPools |-> <<>>] /\ block = <<>>
      /\ bodies = <<>> /\ accepted = {} /\ chain = <<Genesis>>
      /\ added = [t \in Transactions |-> 0]
  BY DEF LedgerInit, Init, M!Init
<1> QED  BY <1>1, <1>2, <1>3, <1>4 DEF Held

\* A block on the chain has the transactions it was accepted with.
LEMMA BodiesOnChain ==
    ASSUME Central, Held, NEW i \in 2..Len(chain)
    PROVE  /\ chain[i] \in accepted
           /\ chain[i].id \in 1..Len(bodies)
           /\ bodies[chain[i].id] \in Bodies
<1>1. Len(chain) \in Nat /\ i \in 1..Len(chain) /\ 1 \in 1..Len(chain) /\ i # 1
  BY DEF Central, IInv, TypeOK
<1>2. chain[i] # Genesis
  BY <1>1 DEF Central, Owned, NoBlockTwice, Held
<1>3. chain[i] \in accepted
  BY <1>1, <1>2 DEF Central, Owned, OnChain
<1>4. chain[i].id \in 1..Len(bodies)
  BY <1>3 DEF Central, IInv, Identities, Held
<1> QED  BY <1>3, <1>4 DEF Held

\* The block the builder announces.
LEMMA Announced ==
    ASSUME Central, Central', Held, AnnounceBlock, agregar_bloque
    PROVE  /\ M!AnnounceBlock(bodies[chain'[Len(chain')].id])
           /\ bodies[chain'[Len(chain')].id] \in Bodies
           /\ UNCHANGED <<accepted, bodies, stage, added, tran, mem, template, payments>>
           /\ chain' = addBlock(chain, aux)
           /\ chain'[1] = Genesis
<1> DEFINE n == Len(chain')
<1>1. /\ M!AnnounceBlock(bodies[chain'[Len(chain')].id])
      /\ UNCHANGED <<accepted, bodies, stage, added, template>>
      /\ chain' = addBlock(chain, aux)
  BY DEF AnnounceBlock, AddBlock, record, history, peers
<1>2. UNCHANGED <<tran, mem, payments>>
  BY <1>1 DEF M!AnnounceBlock, M!pooled
<1>3. chain \in Seq(BlockSet) /\ Len(chain) \in 1..MaxBlocks /\ aux \in BlockSet
      /\ MaxBlocks \in Nat /\ MaxBlocks > 1
  BY LedgerAssumption, CentralAssumption DEF Central, IInv, TypeOK
<1>4. n \in Nat /\ n > 1 /\ chain'[1] = Genesis
  <2>1. CASE Len(chain) < MaxBlocks
    BY <1>1, <1>3, <2>1 DEF addBlock, Held
  <2>2. CASE ~(Len(chain) < MaxBlocks)
    BY <1>1, <1>3, <2>2 DEF addBlock, Held
  <2> QED  BY <2>1, <2>2
<1>5. n \in 1..n /\ 1 \in 1..n /\ n # 1
  BY <1>4
<1>6. chain'[n] # chain'[1]
  BY <1>5 DEF Central, Owned, NoBlockTwice
<1>7. chain'[n] \in OnChain'
  BY <1>5 DEF OnChain
<1>8. chain'[n] \in accepted
  BY <1>1, <1>4, <1>6, <1>7 DEF Central, Owned
<1>9. chain'[n].id \in 1..Len(bodies)
  BY <1>8 DEF Central, IInv, Identities, Held
<1>10. bodies[chain'[n].id] \in Bodies
  BY <1>9 DEF Held
<1> QED  BY <1>1, <1>2, <1>4, <1>10

LEMMA BoundedAreLists ==
    ASSUME NEW n, NEW s \in M!BoundedSeq(Transactions, n)
    PROVE  s \in Seq(Transactions)
<1>1. PICK m \in 0..n : s \in [1..m -> Transactions]
  BY DEF M!BoundedSeq, M!SeqOf
<1> QED  BY <1>1

LEMMA HeldStep ==
    ASSUME Central, Central', Turns, Held, [LedgerNext]_ledgerVars
    PROVE  Held'
<1> DEFINE Same == UNCHANGED <<tran, mem, payments, bodies, accepted, block, added, chain>>
<1>1. CASE Same
  BY <1>1 DEF Held
<1>2. ASSUME NEW p \in MiningPools, PoolSteps(p) \/ OfferBlock(p)
      PROVE  Held'
  <2>1. CASE AskHeader(p) \/ OfferBlock(p) \/ UploadBlock(p) \/ AskMempool(p)
             \/ (M!SendPayments(p) /\ UNCHANGED <<vars, stage, record>>)
    BY <1>1, <2>1
    DEF AskHeader, OfferBlock, UploadBlock, AskMempool, M!AskMempool, M!SendPayments,
        mempoolVars, vars, record, history, shared, M!served
  <2>2. CASE PayMiners(p)
    <3>1. PICK paid \in M!BoundedSeq(Transactions, MaxPayments) \ {<<>>} : M!PayMiners(p, paid)
      BY <2>2 DEF PayMiners
    <3>2. payments' = [payments EXCEPT ![p] = paid]
          /\ UNCHANGED <<tran, mem, bodies, accepted, block, added, chain>>
      BY <2>2, <3>1 DEF M!PayMiners, PayMiners, vars, record, history, shared, M!served
    <3>3. paid \in Seq(Transactions)
      BY BoundedAreLists
    <3>4. payments' \in [MiningPools -> Seq(Transactions)]
      BY <3>2, <3>3 DEF Held
    <3> QED  BY <3>2, <3>4 DEF Held
  <2> QED  BY <1>2, <2>1, <2>2 DEF PoolSteps
<1>3. ASSUME NEW p \in MiningPools, HandlerSteps(p)
      PROVE  Held'
  <2>1. CASE JudgeBlock(p)
    <3>1. UNCHANGED <<tran, mem, payments, block, added, chain>>
      BY <2>1 DEF JudgeBlock, CheckBlock, mempoolVars, shared
    <3>2. CASE UNCHANGED <<accepted, bodies>>
      BY <1>1, <3>1, <3>2
    <3>3. CASE /\ Cardinality(accepted') = Cardinality(accepted) + 1
               /\ bodies' = Append(bodies, M!Body(p))
      <4>1. M!Body(p) \in Bodies
        BY DEF M!Body, Bodies, Held
      <4>2. bodies' \in Seq(Bodies) /\ Len(bodies') = Len(bodies) + 1
        BY <3>3, <4>1 DEF Held
      <4> QED  BY <3>1, <3>3, <4>2 DEF Held
    <3> QED  BY <2>1, <3>2, <3>3, JudgeOutcome DEF Central, IInv
  <2>2. CASE ~JudgeBlock(p)
    BY <1>1, <1>3, <2>2
    DEF HandlerSteps, GetHeader, SendHeader, GetVerdict, HandOff, Resume, AskForBlock,
        StoreHashHigh, StoreHashLow, mempoolVars, record, history, shared
  <2> QED  BY <2>1, <2>2
<1>4. ASSUME NEW p \in MiningPools, MempoolSteps(p)
      PROVE  Held'
  <2>1. CASE GetMempool(p)
    <3>1. mem' = [mem EXCEPT ![p] = tran]
          /\ UNCHANGED <<tran, payments, bodies, accepted, block, added, chain>>
      BY <2>1 DEF GetMempool, M!CopyMempool, Turns, vars, record, history, shared, M!served
    <3>2. mem' \in [MiningPools -> Lists]
      BY <3>1 DEF Held
    <3> QED  BY <3>1, <3>2 DEF Held
  <2>2. CASE Paid(p)
    <3>1. /\ tran' = M!addTransactions(tran, payments[p])
          /\ payments' = [payments EXCEPT ![p] = <<>>]
          /\ added' = [t \in Transactions |->
                         added[t] + M!Count(tran', t) - M!Count(tran, t)]
          /\ UNCHANGED <<mem, bodies, accepted, block, chain>>
      BY <2>2 DEF Paid, M!AddTransactions, vars, history, shared, M!served
    <3>2. tran' \in Lists
      BY <3>1, RoomKeepsType DEF Held
    <3>3. <<>> \in Seq(Transactions)
      OBVIOUS
    <3>4. payments' \in [MiningPools -> Seq(Transactions)]
      BY <3>1, <3>3 DEF Held
    <3>5. added' \in [Transactions -> Int]
      <4>1. tran \in Seq(Transactions) /\ tran' \in Seq(Transactions)
        BY <3>2 DEF Held, Lists
      <4>2. \A t : M!Count(tran, t) \in Nat
        BY <4>1, CountIsCopies, PlacesFinite
      <4>3. \A t : M!Count(tran', t) \in Nat
        BY <4>1, CountIsCopies, PlacesFinite
      <4>4. \A t \in Transactions : added[t] \in Int
        BY DEF Held
      <4>5. \A t \in Transactions : added[t] + M!Count(tran', t) - M!Count(tran, t) \in Int
        BY <4>2, <4>3, <4>4
      <4> QED  BY <3>1, <4>5
    <3> QED  BY <3>1, <3>2, <3>4, <3>5 DEF Held
  <2>3. CASE /\ M!SendingMempool(p) \/ M!SendNewTransaction(p)
             /\ UNCHANGED <<vars, stage, record>>
    BY <1>1, <2>3
    DEF M!SendingMempool, M!SendNewTransaction, vars, record, history, shared, M!served
  <2> QED  BY <1>4, <2>1, <2>2, <2>3 DEF MempoolSteps
<1>5. CASE BuilderSteps
  <2>1. CASE AnnounceBlock /\ agregar_bloque
    <3>1. /\ M!AnnounceBlock(bodies[chain'[Len(chain')].id])
          /\ bodies[chain'[Len(chain')].id] \in Bodies
          /\ UNCHANGED <<accepted, bodies, stage, added, tran, mem, payments>>
          /\ chain'[1] = Genesis
      BY <2>1, Announced
    <3>2. block' = bodies[chain'[Len(chain')].id]
      BY <3>1 DEF M!AnnounceBlock
    <3>3. block' \in Seq(M!Values)
      BY <3>1, <3>2, BodyCounts DEF Bodies
    <3> QED  BY <3>1, <3>3 DEF Held
  <2>2. CASE AnnounceBlock /\ ~agregar_bloque
    BY <1>1, <2>2 DEF AnnounceBlock, AddBlock, mempoolVars, record, history
  <2>3. CASE ~AnnounceBlock
    BY <1>1, <1>5, <2>3
    DEF BuilderSteps, GiveTransactions, SendTransactions, M!SendBlock, Deleted,
        AwaitDeletion, PublishHigh, PublishLow, mempoolVars, record, history, shared, M!pooled
  <2> QED  BY <2>1, <2>2, <2>3
<1>6. CASE DeletionSteps
  <2>1. CASE M!RecvNewBlock
    BY <1>1, <1>6, <2>1
    DEF DeletionSteps, M!RecvNewBlock, vars, record, history, shared, M!pooled
  <2>2. CASE M!DeleteTransactions
    <3>1. /\ tran' = M!delete_transactions(tran, block)
          /\ block' = <<>>
          /\ UNCHANGED <<mem, payments, bodies, accepted, added, chain>>
      BY <1>6, <2>2
      DEF DeletionSteps, M!DeleteTransactions, vars, record, history, shared, M!pooled
    <3>2. tran' \in Lists
      BY <3>1, RemovalKeepsType DEF Held
    <3>3. <<>> \in Seq(M!Values)
      OBVIOUS
    <3> QED  BY <3>1, <3>2, <3>3 DEF Held
  <2> QED  BY <1>6, <2>1, <2>2 DEF DeletionSteps
<1>7. ASSUME NEW t \in MiningPools \cup {"builder"},
             SpuriousWakeup(t) /\ UNCHANGED <<mempoolVars, stage, record>>
      PROVE  Same
  BY <1>7 DEF SpuriousWakeup, mempoolVars, record, history, shared
<1>8. CASE UNCHANGED ledgerVars
  BY <1>1, <1>8 DEF ledgerVars, vars, mempoolVars, record, history, shared
<1> QED
  BY <1>1, <1>2, <1>3, <1>4, <1>5, <1>6, <1>7, <1>8 DEF LedgerNext
-----------------------------------------------------------------------------
(* The mempool in Ledger is the one of Mempool.                             *)

LEMMA ListsAreBounded ==
    ASSUME NEW n \in Nat, NEW s \in Seq(Transactions), Len(s) <= n
    PROVE  s \in M!BoundedSeq(Transactions, n)
<1>1. Len(s) \in 0..n /\ s \in [1..Len(s) -> Transactions]
  OBVIOUS
<1> QED  BY <1>1 DEF M!BoundedSeq, M!SeqOf

LEMMA MempoolStep ==
    ASSUME Central, Central', Turns, Held, running = TRUE, [LedgerNext]_ledgerVars
    PROVE  [M!Next]_(M!vars) /\ running' = TRUE
<1> DEFINE Same == UNCHANGED <<tran, central, server, block, MPhandle, request, payments, mem,
                               connected, flag, closed, running>>
<1>1. Same => UNCHANGED M!vars /\ running' = TRUE
  BY DEF M!vars, M!pooled, M!served, M!status, M!signals
<1>2. UNCHANGED mempoolVars => Same
  BY DEF mempoolVars
<1>3. ASSUME NEW p \in MiningPools, PoolSteps(p) \/ OfferBlock(p)
      PROVE  [M!Next]_(M!vars) /\ running' = TRUE
  <2>1. CASE AskHeader(p) \/ OfferBlock(p) \/ UploadBlock(p)
    BY <1>1, <1>2, <2>1 DEF AskHeader, OfferBlock, UploadBlock
  <2>2. CASE AskMempool(p) \/ M!SendPayments(p)
    <3>1. M!AskMempool(p) \/ M!SendPayments(p)
      BY <2>2 DEF AskMempool
    <3>2. running' = TRUE
      BY <3>1 DEF M!AskMempool, M!SendPayments, M!status
    <3> QED  BY <3>1, <3>2 DEF M!Next, M!Peer, Turns
  <2>3. CASE PayMiners(p)
    <3>1. PICK paid \in M!BoundedSeq(Transactions, MaxPayments) \ {<<>>} : M!PayMiners(p, paid)
      BY <2>3 DEF PayMiners
    <3>2. running' = TRUE
      BY <3>1 DEF M!PayMiners, M!status
    <3> QED  BY <3>1, <3>2 DEF M!Next, M!Peer, Turns
  <2> QED  BY <1>3, <2>1, <2>2, <2>3 DEF PoolSteps
<1>4. ASSUME NEW p \in MiningPools, HandlerSteps(p)
      PROVE  Same
  BY <1>2, <1>4 DEF HandlerSteps, GetHeader, JudgeBlock, GetVerdict
<1>5. ASSUME NEW p \in MiningPools, MempoolSteps(p)
      PROVE  [M!Next]_(M!vars) /\ running' = TRUE
  <2>1. \/ M!CopyMempool(p) \/ M!AddTransactions(p) \/ M!SendingMempool(p)
        \/ M!SendNewTransaction(p)
    BY <1>5 DEF MempoolSteps, GetMempool, Paid
  <2>2. running' = TRUE
    BY <2>1
    DEF M!CopyMempool, M!AddTransactions, M!SendingMempool, M!SendNewTransaction, M!status
  <2> QED  BY <2>1, <2>2 DEF M!Next, M!Handler
<1>6. CASE BuilderSteps
  <2>1. CASE AnnounceBlock /\ agregar_bloque
    <3> DEFINE b == bodies[chain'[Len(chain')].id]
    <3>1. M!AnnounceBlock(b) /\ b \in Bodies
      BY <2>1, Announced
    <3>2. PICK copy \in Lists : b = M!BlockOf(copy)
      BY <3>1 DEF Bodies
    <3> HIDE DEF b
    <3>3. copy \in M!BoundedSeq(Transactions, MaxTransactions)
      BY LedgerAssumption, ListsAreBounded DEF Lists
    <3>4. running' = TRUE
      BY <3>1 DEF M!AnnounceBlock, M!status
    <3> QED  BY <3>1, <3>2, <3>3, <3>4 DEF M!Next, M!Peer, Turns
  <2>2. CASE AnnounceBlock /\ ~agregar_bloque
    BY <1>1, <1>2, <2>2 DEF AnnounceBlock
  <2>3. CASE GiveTransactions
    <3>1. M!SendBlock
      BY <2>3 DEF GiveTransactions
    <3>2. running' = TRUE
      BY <3>1 DEF M!SendBlock, M!status
    <3> QED  BY <3>1, <3>2 DEF M!Next, M!Peer, Turns
  <2>4. CASE Deleted \/ UNCHANGED mempoolVars
    BY <1>1, <1>2, <2>4 DEF Deleted
  <2> QED  BY <1>6, <2>1, <2>2, <2>3, <2>4 DEF BuilderSteps
<1>7. CASE DeletionSteps
  <2>1. M!RecvNewBlock \/ M!DeleteTransactions
    BY <1>7 DEF DeletionSteps
  <2>2. running' = TRUE
    BY <2>1 DEF M!RecvNewBlock, M!DeleteTransactions, M!status
  <2> QED  BY <2>1, <2>2 DEF M!Next, M!Central
<1>8. ASSUME NEW t \in MiningPools \cup {"builder"},
             SpuriousWakeup(t) /\ UNCHANGED <<mempoolVars, stage, record>>
      PROVE  Same
  BY <1>2, <1>8
<1>9. CASE UNCHANGED ledgerVars
  BY <1>1, <1>2, <1>9 DEF ledgerVars
<1> HIDE DEF Same
<1> QED
  BY <1>1, <1>3, <1>4, <1>5, <1>6, <1>7, <1>8, <1>9 DEF LedgerNext

LEMMA LedgerInitIsMempoolInit == LedgerInit => M!Init /\ running = TRUE
BY DEF LedgerInit, M!Init

\* What holds whether or not siblings are accepted.
Joined == Turns /\ Exchange /\ Held /\ running = TRUE

LEMMA JoinedHolds == LedgerSpec => [](Joined)
<1>1. LedgerInit => Joined
  BY TurnsInit, ExchangeInit, HeldInit, LedgerInitIsMempoolInit DEF Joined
<1>2. Central /\ Central' /\ Joined /\ [LedgerNext]_ledgerVars => Joined'
  BY TurnsStep, ExchangeStep, HeldStep, MempoolStep DEF Joined, Central, IInv
<1> QED  BY <1>1, <1>2, CentralHolds, PTL DEF LedgerSpec

\* With the pools and the central server as its peers, the mempool does what it
\* does with any: it is told of one block at a time, with a coinbase and at most as
\* many transactions as it has room for, and asked for one thing at a time by a pool.
THEOREM MempoolServes == LedgerSpec => M!Spec
<1>1. Central /\ Central' /\ Joined /\ [LedgerNext]_ledgerVars => [M!Next]_(M!vars)
  BY MempoolStep DEF Joined
<1>2. LedgerInit => M!Init
  BY LedgerInitIsMempoolInit
<1> QED  BY <1>1, <1>2, CentralHolds, JoinedHolds, PTL DEF LedgerSpec, M!Spec
-----------------------------------------------------------------------------
(* Counting transactions.                                                   *)

LEMMA CountType ==
    ASSUME NEW A, NEW s \in Seq(A), NEW t
    PROVE  M!Count(s, t) \in Nat
BY CountIsCopies, PlacesFinite

LEMMA BodyCountType ==
    ASSUME NEW b \in Bodies, NEW t
    PROVE  M!Count(b, t) \in Nat
BY BodyCounts, CountType DEF Bodies

\* How many of t the blocks of chain c hold.
Inside(c, bs, t) == [n \in 2..Len(c) |-> M!Count(bs[c[n].id], t)]

LEMMA InsideIsConfirmed ==
    ASSUME NEW t
    PROVE  Confirmed(t) = Total(Inside(chain, bodies, t), 2..Len(chain))
BY DEF Confirmed, Total, Inside, MapThenSumSet, MapThenFoldSet

LEMMA InsideNext ==
    ASSUME NEW A, NEW c \in Seq(A), Len(c) >= 1, NEW x \in A, NEW bs, NEW t,
           \A n \in 2..Len(c) : M!Count(bs[c[n].id], t) \in Nat,
           M!Count(bs[x.id], t) \in Nat
    PROVE  Total(Inside(Append(c, x), bs, t), 2..Len(Append(c, x)))
           = Total(Inside(c, bs, t), 2..Len(c)) + M!Count(bs[x.id], t)
<1> DEFINE d == Append(c, x)
           f == Inside(c, bs, t)
           h == Inside(d, bs, t)
<1>1. Len(c) \in Nat /\ Len(d) = Len(c) + 1 /\ d[Len(c) + 1] = x
      /\ \A n \in 1..Len(c) : d[n] = c[n]
  OBVIOUS
<1> HIDE DEF d
<1>2. 2..Len(d) = (2..Len(c)) \cup {Len(c) + 1} /\ Len(c) + 1 \notin 2..Len(c)
  BY <1>1
<1>3. IsFiniteSet(2..Len(c))
  <2>1. 2 \in Int /\ Len(c) \in Int
    BY <1>1
  <2> QED  BY <2>1, FS_Interval
<1>4. /\ \A n \in 2..Len(c) : h[n] = f[n] /\ f[n] \in Nat
      /\ h[Len(c) + 1] = M!Count(bs[x.id], t)
  <2>1. \A n \in 2..Len(c) : n \in 1..Len(c) /\ n \in 2..Len(d)
    BY <1>1
  <2>2. Len(c) + 1 \in 2..Len(d)
    BY <1>1
  <2> QED  BY <1>1, <2>1, <2>2 DEF Inside
<1> HIDE DEF f, h
<1>5. Numbers(f, 2..Len(c)) /\ Numbers(h, (2..Len(c)) \cup {Len(c) + 1})
  BY <1>4 DEF Numbers
<1>6. Total(h, (2..Len(c)) \cup {Len(c) + 1}) = Total(h, 2..Len(c)) + h[Len(c) + 1]
  BY <1>2, <1>3, <1>5, TotalAdd
<1>7. Total(h, 2..Len(c)) = Total(f, 2..Len(c))
  BY <1>3, <1>4, <1>5, TotalSame
<1> QED  BY <1>2, <1>4, <1>6, <1>7 DEF d, f, h

LEMMA InsideType ==
    ASSUME NEW c, NEW bs, NEW t, Len(c) \in Nat,
           \A n \in 2..Len(c) : M!Count(bs[c[n].id], t) \in Nat
    PROVE  Total(Inside(c, bs, t), 2..Len(c)) \in Nat
<1>1. IsFiniteSet(2..Len(c))
  BY FS_Interval
<1>2. \A n \in 2..Len(c) : Inside(c, bs, t)[n] \in Nat
  BY DEF Inside
<1> QED  BY <1>1, <1>2, TotalNatural

Within(s, r) == \A t \in Transactions : M!Count(s, t) <= M!Count(r, t)

LEMMA WithinMore ==
    ASSUME NEW s, NEW r, NEW u, Within(s, r), Within(r, u),
           \A t \in Transactions :
               M!Count(s, t) \in Nat /\ M!Count(r, t) \in Nat /\ M!Count(u, t) \in Nat
    PROVE  Within(s, u)
BY DEF Within
-----------------------------------------------------------------------------
(* While no siblings are accepted and the chain is not full.                *)

\* The mempool holds what is deleted from it next ...
ForDeletion ==
    server # "idle" => /\ Len(chain) > 1
                       /\ block = bodies[Len(chain) - 1]
                       /\ Within(block, tran)

\* ... and what the block in flight holds ...
ForFlight ==
    Cardinality(accepted) = Len(chain) => Within(bodies[Len(chain)], tran)

\* ... and what each pool copied that mines on the tip.
ForMining ==
    \A p \in MiningPools :
        stage[p] = 3 /\ template[p] = Hash(Tip) => Within(mem[p], tran)

Balance ==
    \A t \in Transactions : Confirmed(t) + M!Count(tran, t) = added[t] + Doomed(t)

Follows == ForDeletion /\ ForFlight /\ ForMining /\ Balance

Premise == NoSiblings /\ Len(chain) < MaxBlocks

\* What the premise gives.
LEMMA PremiseGives ==
    ASSUME Central, Premise, Joined
    PROVE  /\ Numbered /\ Steady
           /\ Len(chain) \in Nat /\ Len(chain) >= 1 /\ chain \in Seq(BlockSet)
           /\ Tip.id = Len(chain) - 1
           /\ Hash(Tip) = <<Len(chain) - 1, Len(chain) - 1>>
           /\ \A n \in 2..Len(chain) : \A t : M!Count(bodies[chain[n].id], t) \in Nat
           /\ \A t \in Transactions : added[t] \in Int /\ M!Count(tran, t) \in Nat
<1>1. Numbered /\ Steady
  BY DEF Central, IInv, Sound, Premise
<1>2. TypeOK
  BY DEF Central, IInv
<1>3. \A n \in 2..Len(chain) : bodies[chain[n].id] \in Bodies
  BY BodiesOnChain DEF Joined
<1>4. \A t \in Transactions : added[t] \in Int /\ M!Count(tran, t) \in Nat
  <2>1. tran \in Seq(Transactions) /\ added \in [Transactions -> Int]
    BY DEF Joined, Held, Lists
  <2> QED  BY <2>1, CountType
<1> QED  BY <1>1, <1>2, <1>3, <1>4, TipFacts, BodyCountType DEF TypeOK

\* Steps that move no transaction.
LEMMA FollowsFrame ==
    ASSUME Follows,
           UNCHANGED <<chain, accepted, bodies, tran, added, block>>,
           server' = "idle" <=> server = "idle",
           \A p \in MiningPools : stage'[p] = 3 =>
               \/ stage[p] = 3 /\ template'[p] = template[p] /\ mem'[p] = mem[p]
               \/ mem'[p] = tran,
           \A t \in Transactions : M!Count(tran, t) \in Nat
    PROVE  Follows'
<1>1. Within(tran, tran)
  BY DEF Within
<1>2. \A t : Confirmed(t)' = Confirmed(t)
  <2>1. \A t : Confirmed(t)' = Total(Inside(chain', bodies', t), 2..Len(chain'))
    BY DEF Confirmed, Total, Inside, MapThenSumSet, MapThenFoldSet
  <2> QED  BY <2>1, InsideIsConfirmed
<1>3. Balance'
  BY <1>2 DEF Follows, Balance, Doomed, Tip
<1>4. ForMining'
  <2>1. ASSUME NEW p \in MiningPools, stage'[p] = 3, template'[p] = Hash(Tip)'
        PROVE  Within(mem'[p], tran)
    BY <1>1, <2>1 DEF Follows, ForMining, Hash, Tip
  <2> QED  BY <2>1 DEF ForMining, Within
<1>5. ForDeletion' /\ ForFlight'
  BY DEF Follows, ForDeletion, ForFlight, Within
<1> QED  BY <1>3, <1>4, <1>5 DEF Follows

\* Payments are added.
LEMMA FollowsPaid ==
    ASSUME Central, Premise, Follows, Joined, NEW p \in MiningPools, Paid(p)
    PROVE  Follows'
<1>1. /\ tran' = M!addTransactions(tran, payments[p])
      /\ added' = [t \in Transactions |-> added[t] + M!Count(tran', t) - M!Count(tran, t)]
      /\ stage' = [stage EXCEPT ![p] = 1]
      /\ UNCHANGED <<mem, bodies, accepted, block, server, chain, template>>
  BY DEF Paid, M!AddTransactions, Restarts, vars, history, shared, peers, M!served
<1>2. tran \in Lists /\ tran' \in Lists /\ Within(tran, tran')
  <2>1. tran \in Lists /\ payments[p] \in Seq(Transactions)
    BY DEF Joined, Held
  <2> QED  BY <1>1, <2>1, RoomKeepsType DEF Within
<1>3. \A t \in Transactions : M!Count(tran, t) \in Nat /\ M!Count(tran', t) \in Nat
  <2>1. tran \in Seq(Transactions) /\ tran' \in Seq(Transactions)
    BY <1>2 DEF Lists
  <2>2. \A t : M!Count(tran, t) \in Nat
    BY <2>1, CountType
  <2>3. \A t : M!Count(tran', t) \in Nat
    BY <2>1, CountType
  <2> QED  BY <2>2, <2>3
<1>4. ASSUME NEW A, NEW s \in Seq(A), Within(s, tran)
      PROVE  Within(s, tran')
  <2>1. \A t : M!Count(s, t) \in Nat
    BY CountType
  <2> QED  BY <1>2, <1>3, <1>4, <2>1, WithinMore
<1>5. ForDeletion'
  <2>1. block \in Seq(M!Values)
    BY DEF Joined, Held
  <2>2. server # "idle" => Within(block, tran')
    BY <1>4, <2>1 DEF Follows, ForDeletion
  <2> QED  BY <1>1, <2>2 DEF Follows, ForDeletion, Within
<1>6. ForFlight'
  <2>1. SUFFICES ASSUME Cardinality(accepted) = Len(chain)
                 PROVE  Within(bodies[Len(chain)], tran')
    BY <1>1 DEF ForFlight, Within
  <2>2. bodies[Len(chain)] \in Bodies
    BY <2>1, PremiseGives DEF Joined, Held
  <2>3. bodies[Len(chain)] \in Seq(M!Values)
    BY <2>2, BodyCounts DEF Bodies
  <2> QED  BY <1>4, <2>1, <2>3 DEF Follows, ForFlight
<1>7. ForMining'
  <2>1. ASSUME NEW q \in MiningPools, stage'[q] = 3, template[q] = Hash(Tip)
        PROVE  Within(mem[q], tran')
    <3>1. stage[q] = 3
      BY <1>1, <2>1 DEF Joined, Turns
    <3>2. mem[q] \in Seq(Transactions)
      BY DEF Joined, Held, Lists
    <3> QED  BY <1>4, <2>1, <3>1, <3>2 DEF Follows, ForMining
  <2> QED  BY <1>1, <2>1 DEF ForMining, Within, Hash, Tip
<1>8. Balance'
  <2>1. ASSUME NEW t \in Transactions
        PROVE  Confirmed(t)' + M!Count(tran', t) = added'[t] + Doomed(t)'
    <3>1. Confirmed(t)' = Confirmed(t) /\ Doomed(t)' = Doomed(t)
      <4>1. Confirmed(t)' = Total(Inside(chain', bodies', t), 2..Len(chain'))
        BY DEF Confirmed, Total, Inside, MapThenSumSet, MapThenFoldSet
      <4> QED  BY <1>1, <4>1, InsideIsConfirmed DEF Doomed, Tip
    <3>2. Confirmed(t) \in Nat
      BY PremiseGives, InsideType, InsideIsConfirmed
    <3>3. Confirmed(t) + M!Count(tran, t) = added[t] + Doomed(t)
      BY DEF Follows, Balance
    <3>4. added'[t] = added[t] + M!Count(tran', t) - M!Count(tran, t)
      BY <1>1
    <3>5. added[t] \in Int
      BY PremiseGives
    <3>6. Doomed(t) \in Int
      <4>1. CASE server = "idle"
        BY <4>1 DEF Doomed
      <4>2. CASE server # "idle"
        <5>1. Len(chain) \in 2..Len(chain) /\ Tip = chain[Len(chain)]
          BY <4>2, PremiseGives DEF Follows, ForDeletion, Tip
        <5>2. M!Count(bodies[chain[Len(chain)].id], t) \in Nat
          BY <5>1, PremiseGives
        <5> QED  BY <4>2, <5>1, <5>2 DEF Doomed
      <4> QED  BY <4>1, <4>2
    <3> QED  BY <1>3, <3>1, <3>2, <3>3, <3>4, <3>5, <3>6
  <2> QED  BY <2>1 DEF Balance
<1> QED  BY <1>5, <1>6, <1>7, <1>8 DEF Follows

\* The builder appends the block in flight and announces it.
LEMMA FollowsAnnounced ==
    ASSUME Central, Central', Premise, Premise', Follows, Joined, AnnounceBlock, agregar_bloque
    PROVE  Follows'
<1> DEFINE L == Len(chain)
<1>1. /\ L \in Nat /\ L >= 1 /\ chain \in Seq(BlockSet)
      /\ Published /\ (Quiet \/ InFlight)
      /\ \A n \in 2..L : \A t : M!Count(bodies[chain[n].id], t) \in Nat
      /\ \A t \in Transactions : added[t] \in Int /\ M!Count(tran, t) \in Nat
  BY PremiseGives DEF Steady
<1>2. InFlight
  BY <1>1 DEF Quiet
<1>3. aux = Newest /\ Cardinality(accepted) = L
  BY <1>2 DEF InFlight
<1>4. /\ M!AnnounceBlock(bodies[chain'[Len(chain')].id])
      /\ UNCHANGED <<accepted, bodies, stage, added, tran, mem, template>>
      /\ chain' = addBlock(chain, aux)
  BY Announced DEF Joined
<1>5. chain' = Append(chain, aux) /\ aux \in BlockSet
  BY <1>4 DEF addBlock, Premise, Central, IInv, TypeOK
<1>6. Len(chain') = L + 1 /\ chain'[L + 1] = aux /\ aux.id = L
  BY <1>1, <1>3, <1>5 DEF Newest
<1>7. server = "idle" /\ server' = "newBlock" /\ block' = bodies[L]
  BY <1>4, <1>6 DEF M!AnnounceBlock
<1>8. bodies[L] \in Bodies
  BY <1>1, <1>3 DEF Joined, Held
<1>9. Within(bodies[L], tran)
  BY <1>3 DEF Follows, ForFlight
<1>10. ForDeletion'
  <2>1. (L + 1) - 1 = L /\ L + 1 > 1
    BY <1>1
  <2>2. Len(chain') > 1 /\ block' = bodies'[Len(chain') - 1]
    BY <1>4, <1>6, <1>7, <2>1
  <2>3. Within(block, tran)'
    BY <1>4, <1>7, <1>9 DEF Within
  <2> QED  BY <2>2, <2>3 DEF ForDeletion
<1>11. ForFlight'
  BY <1>1, <1>3, <1>4, <1>6 DEF ForFlight
<1>12. ForMining'
  <2>1. Hash(Tip)' = <<L, L>>
    BY <1>6 DEF Hash, Tip
  <2>2. \A p \in MiningPools : template[p][1] <= L - 1 /\ template[p] \in HashValues
    BY <1>1 DEF Published, Central, IInv, TypeOK
  <2>3. \A p \in MiningPools : template'[p] # Hash(Tip)'
    BY <1>1, <1>4, <2>1, <2>2 DEF HashValues
  <2> QED  BY <2>3 DEF ForMining
<1>13. Balance'
  <2>1. ASSUME NEW t \in Transactions
        PROVE  Confirmed(t)' + M!Count(tran', t) = added'[t] + Doomed(t)'
    <3>1. Confirmed(t)' = Total(Inside(Append(chain, aux), bodies, t), 2..Len(Append(chain, aux)))
      <4>1. Confirmed(t)' = Total(Inside(chain', bodies', t), 2..Len(chain'))
        BY DEF Confirmed, Total, Inside, MapThenSumSet, MapThenFoldSet
      <4> QED  BY <1>4, <1>5, <4>1
    <3>2. M!Count(bodies[L], t) \in Nat
      BY <1>8, BodyCountType
    <3>3. /\ Confirmed(t) = Total(Inside(chain, bodies, t), 2..L)
          /\ Confirmed(t) \in Nat
      BY <1>1, InsideType, InsideIsConfirmed
    <3>4. Confirmed(t)' = Confirmed(t) + M!Count(bodies[L], t)
      <4>1. M!Count(bodies[aux.id], t) \in Nat
        BY <1>6, <3>2
      <4>2. Total(Inside(Append(chain, aux), bodies, t), 2..Len(Append(chain, aux)))
            = Total(Inside(chain, bodies, t), 2..L) + M!Count(bodies[aux.id], t)
        BY <1>1, <1>5, <4>1, InsideNext
      <4> QED  BY <1>6, <3>1, <3>3, <4>2
    <3>5. Doomed(t) = 0
      BY <1>7 DEF Doomed
    <3>6. Doomed(t)' = M!Count(bodies[L], t)
      BY <1>4, <1>6, <1>7 DEF Doomed, Tip
    <3>7. Confirmed(t) + M!Count(tran, t) = added[t] + Doomed(t)
      BY DEF Follows, Balance
    <3> HIDE DEF L
    <3> QED  BY <1>1, <1>4, <3>2, <3>3, <3>4, <3>5, <3>6, <3>7
  <2> QED  BY <2>1 DEF Balance
<1> QED  BY <1>10, <1>11, <1>12, <1>13 DEF Follows

\* The mempool deletes the transactions of the block announced.
LEMMA FollowsDeleted ==
    ASSUME Central, Premise, Follows, Joined, M!DeleteTransactions,
           UNCHANGED <<vars, stage, record>>
    PROVE  Follows'
<1> DEFINE L == Len(chain)
<1>1. /\ L \in Nat /\ L >= 1 /\ Tip.id = L - 1 /\ Hash(Tip) = <<L - 1, L - 1>>
      /\ Numbered /\ Published /\ BuilderHeader /\ (Quiet \/ InFlight)
      /\ \A n \in 2..L : \A t : M!Count(bodies[chain[n].id], t) \in Nat
      /\ \A t \in Transactions : added[t] \in Int /\ M!Count(tran, t) \in Nat
  BY PremiseGives DEF Steady
<1>2. /\ tran' = M!delete_transactions(tran, block)
      /\ server = "sent" /\ server' = "idle"
      /\ UNCHANGED <<chain, accepted, template, stage, bodies, added, mem>>
  BY DEF M!DeleteTransactions, vars, record, history, shared, peers, M!pooled
<1>3. builder = "deleting"
  BY <1>2 DEF Joined, Exchange
<1>4. Quiet /\ Cardinality(accepted) = L - 1
  BY <1>1, <1>3 DEF Quiet, InFlight
<1>5. L > 1 /\ block = bodies[L - 1] /\ Within(block, tran)
  BY <1>2 DEF Follows, ForDeletion
<1>6. ForDeletion' /\ ForFlight'
  BY <1>1, <1>2, <1>4 DEF ForDeletion, ForFlight
<1>7. ForMining'
  <2>1. netprev = Tip.prev /\ Tip.prev = <<L - 2, L - 2>>
    <3>1. TypeOK
      BY DEF Central, IInv
    <3> QED  BY <1>1, <1>3, <1>5, <3>1, TipFacts DEF BuilderHeader
  <2>2. \A p \in MiningPools : template[p][2] <= L - 2 /\ template[p] \in HashValues
    BY <1>1, <2>1 DEF Published, Central, IInv, TypeOK
  <2>3. \A p \in MiningPools : template[p] # Hash(Tip)
    BY <1>1, <2>2 DEF HashValues
  <2> QED  BY <1>2, <2>3 DEF ForMining, Hash, Tip
<1>8. Balance'
  <2>1. ASSUME NEW t \in Transactions
        PROVE  Confirmed(t)' + M!Count(tran', t) = added'[t] + Doomed(t)'
    <3>1. Confirmed(t)' = Confirmed(t) /\ Confirmed(t) \in Nat
      <4>1. Confirmed(t)' = Total(Inside(chain', bodies', t), 2..Len(chain'))
        BY DEF Confirmed, Total, Inside, MapThenSumSet, MapThenFoldSet
      <4> QED  BY <1>1, <1>2, <4>1, InsideIsConfirmed, InsideType
    <3>2. /\ M!Count(tran, t) \in Nat /\ M!Count(block, t) \in Nat
          /\ M!Count(tran', t) = IF M!Count(tran, t) < M!Count(block, t)
                                 THEN 0 ELSE M!Count(tran, t) - M!Count(block, t)
      BY <1>2, RemovalKeepsType DEF Joined, Held
    <3>3. M!Count(block, t) <= M!Count(tran, t)
      BY <1>5 DEF Within
    <3>4. Doomed(t) = M!Count(block, t) /\ Doomed(t)' = 0
      BY <1>1, <1>2, <1>5 DEF Doomed
    <3>5. Confirmed(t) + M!Count(tran, t) = added[t] + Doomed(t) /\ added[t] \in Int
      BY <1>1 DEF Follows, Balance
    <3> QED  BY <1>2, <3>1, <3>2, <3>3, <3>4, <3>5
  <2> QED  BY <2>1 DEF Balance
<1> QED  BY <1>6, <1>7, <1>8 DEF Follows

\* A block passes the check.
LEMMA FollowsAccepted ==
    ASSUME Central, Central', Premise, Premise', Follows, Joined,
           NEW p \in MiningPools, JudgeBlock(p), accepted' # accepted
    PROVE  Follows'
<1> DEFINE L == Len(chain)
<1>1. /\ L \in Nat /\ L >= 1 /\ Numbered /\ (Quiet \/ InFlight)
      /\ \A n \in 2..L : \A t : M!Count(bodies[chain[n].id], t) \in Nat
      /\ \A t \in Transactions : M!Count(tran, t) \in Nat
  BY PremiseGives DEF Steady
<1>2. /\ template[p] = previoushash
      /\ Cardinality(accepted') = Cardinality(accepted) + 1
      /\ bodies' = Append(bodies, M!Body(p))
      /\ UNCHANGED <<pool, stage>>
  BY JudgeOutcome DEF Central, IInv
<1>3. UNCHANGED <<chain, template, mem, tran, server, block, added>>
  BY DEF JudgeBlock, CheckBlock, shared, mempoolVars
<1>4. Cardinality(accepted) \in Nat
  BY FS_CardinalityType DEF Central, IInv, Identities
<1>5. (Quiet \/ InFlight)'
  BY DEF Central, IInv, Premise, Sound, Steady
<1>6. Quiet /\ Cardinality(accepted) = L - 1
  <2>1. Cardinality(accepted') <= L
    BY <1>1, <1>3, <1>5 DEF Quiet, InFlight
  <2> QED  BY <1>1, <1>2, <1>4, <2>1 DEF InFlight, Quiet
<1>7. Within(mem[p], tran)
  <2>1. pool[p] = "uploaded" /\ stage[p] = 3
    BY DEF JudgeBlock, CheckBlock, Joined, Turns, InTurn
  <2>2. template[p] = Hash(Tip)
    BY <1>2, <1>6 DEF Quiet
  <2> QED  BY <2>1, <2>2 DEF Follows, ForMining
<1>8. /\ bodies \in Seq(Bodies) /\ Len(bodies) = L - 1 /\ mem[p] \in Lists
      /\ M!Body(p) \in Bodies
  BY <1>6 DEF Joined, Held, M!Body, Bodies
<1>9. bodies'[L] = M!BlockOf(mem[p]) /\ \A i \in 1..(L - 1) : bodies'[i] = bodies[i]
  BY <1>1, <1>2, <1>8 DEF M!Body
<1>10. ForDeletion'
  <2>1. server # "idle" => L - 1 \in 1..(L - 1)
    BY <1>1 DEF Follows, ForDeletion
  <2> QED  BY <1>3, <1>9, <2>1 DEF Follows, ForDeletion, Within
<1>11. ForFlight'
  <2>1. \A t \in Transactions : M!Count(bodies'[L], t) = M!Count(mem[p], t)
    BY <1>8, <1>9, BodyCounts
  <2> QED  BY <1>3, <1>7, <2>1 DEF ForFlight, Within
<1>12. ForMining'
  BY <1>2, <1>3 DEF Follows, ForMining, Within, Hash, Tip
<1>13. ASSUME NEW i \in 2..L
       PROVE  bodies'[chain[i].id] = bodies[chain[i].id]
  <2>1. chain[i].id \in 1..(L - 1)
    BY <1>8, BodiesOnChain DEF Joined
  <2> QED  BY <1>9, <2>1
<1>14. Balance'
  <2>1. ASSUME NEW t \in Transactions
        PROVE  Confirmed(t)' = Confirmed(t) /\ Doomed(t)' = Doomed(t)
    <3>1. Confirmed(t)' = Total(Inside(chain', bodies', t), 2..Len(chain'))
      BY DEF Confirmed, Total, Inside, MapThenSumSet, MapThenFoldSet
    <3>2. Inside(chain, bodies', t) = Inside(chain, bodies, t)
      BY <1>13 DEF Inside
    <3>3. Confirmed(t)' = Confirmed(t)
      BY <1>3, <3>1, <3>2, InsideIsConfirmed
    <3>4. server # "idle" => L \in 2..L /\ Tip = chain[L]
      BY <1>1 DEF Follows, ForDeletion, Tip
    <3>5. Doomed(t)' = Doomed(t)
      BY <1>3, <1>13, <3>4 DEF Doomed, Tip
    <3> QED  BY <3>3, <3>5
  <2> QED  BY <1>3, <2>1 DEF Follows, Balance
<1> QED  BY <1>10, <1>11, <1>12, <1>14 DEF Follows

LEMMA FollowsStep ==
    ASSUME Central, Central', Joined, Premise', Premise => Follows, [LedgerNext]_ledgerVars
    PROVE  Follows'
<1>1. Premise
  <2>1. [Next]_vars
    BY CentralStep
  <2>2. accepted \subseteq accepted'
    BY <2>1, AcceptedStep DEF Central, IInv
  <2>3. Len(chain) < MaxBlocks
    <3>1. Len(chain) \in 1..MaxBlocks /\ MaxBlocks \in Nat
      BY CentralAssumption DEF Central, IInv, TypeOK
    <3>2. Len(chain) = MaxBlocks => Len(chain') = MaxBlocks
      BY <2>1, FullStep
    <3> QED  BY <3>1, <3>2 DEF Premise
  <2> QED  BY <2>2, <2>3 DEF Premise, NoSiblings
<1>2. Follows
  BY <1>1
<1>3. \A t \in Transactions : M!Count(tran, t) \in Nat
  BY <1>1, PremiseGives
<1> DEFINE Same == UNCHANGED <<chain, accepted, bodies, tran, added, block, server>>
           Mines(p) == stage'[p] = 3 => \/ /\ stage[p] = 3
                                           /\ template'[p] = template[p] /\ mem'[p] = mem[p]
                                        \/ mem'[p] = tran
<1>4. ASSUME Same, \A p \in MiningPools : Mines(p)
      PROVE  Follows'
  BY <1>2, <1>3, <1>4, FollowsFrame
<1>5. ASSUME UNCHANGED <<stage, template, mem>>
      PROVE  \A p \in MiningPools : Mines(p)
  BY <1>5
<1>6. stage \in [MiningPools -> 1..4] /\ closed = FALSE
  BY DEF Joined, Turns
<1>7. ASSUME NEW p \in MiningPools, PoolSteps(p) \/ OfferBlock(p)
      PROVE  Follows'
  <2>1. Same /\ UNCHANGED <<stage, template, mem>>
    BY <1>7
    DEF PoolSteps, AskHeader, OfferBlock, UploadBlock, PoolAsks, PoolOffers, PoolUploads,
        AskMempool, PayMiners, M!AskMempool, M!PayMiners, M!SendPayments, mempoolVars,
        vars, record, history, shared, peers, M!served
  <2> QED  BY <1>4, <1>5, <2>1
<1>8. ASSUME NEW p \in MiningPools, HandlerSteps(p)
      PROVE  Follows'
  <2>1. CASE JudgeBlock(p) /\ accepted' # accepted
    BY <1>1, <1>2, <2>1, FollowsAccepted
  <2>2. CASE JudgeBlock(p) /\ accepted' = accepted
    <3>1. Same /\ UNCHANGED <<template, mem>> /\ stage' = [stage EXCEPT ![p] = 1]
      BY <2>2 DEF JudgeBlock, CheckBlock, Restarts, shared, mempoolVars
    <3>2. \A q \in MiningPools : Mines(q)
      BY <1>6, <3>1
    <3> QED  BY <1>4, <3>1, <3>2
  <2>3. CASE GetHeader(p)
    <3>1. stage[p] = 1
      BY <2>3 DEF GetHeader, SendHeader, Joined, Turns, InTurn
    <3>2. /\ Same /\ UNCHANGED mem
          /\ stage' = [stage EXCEPT ![p] = 2]
          /\ \A q \in MiningPools \ {p} : template'[q] = template[q]
      BY <2>3, <3>1
      DEF GetHeader, SendHeader, Advances, shared, history, mempoolVars, record, Central,
          IInv, TypeOK
    <3>3. \A q \in MiningPools : Mines(q)
      BY <1>6, <3>2
    <3> QED  BY <1>4, <3>2, <3>3
  <2>4. CASE GetVerdict(p)
    <3>1. handler[p] \in {"handoff", "waiting"}
      BY <2>4 DEF GetVerdict, HandOff, Resume
    <3>2. stage[p] = 3
      BY <3>1 DEF Joined, Turns, InTurn
    <3>3. /\ Same /\ UNCHANGED <<template, mem>>
          /\ UNCHANGED stage \/ stage' = [stage EXCEPT ![p] = 4]
      BY <2>4, <3>2
      DEF GetVerdict, HandOff, Resume, Advances, mempoolVars, record
    <3>4. \A q \in MiningPools : Mines(q)
      BY <1>6, <3>3
    <3> QED  BY <1>4, <3>3, <3>4
  <2>5. CASE /\ AskForBlock(p) \/ StoreHashHigh(p) \/ StoreHashLow(p)
             /\ UNCHANGED <<mempoolVars, stage, record>>
    <3>1. Same /\ UNCHANGED <<stage, template, mem>>
      BY <2>5
      DEF AskForBlock, StoreHashHigh, StoreHashLow, shared, history, peers, mempoolVars, record
    <3> QED  BY <1>4, <1>5, <3>1
  <2> QED  BY <1>8, <2>1, <2>2, <2>3, <2>4, <2>5 DEF HandlerSteps
<1>9. ASSUME NEW p \in MiningPools, MempoolSteps(p)
      PROVE  Follows'
  <2>1. CASE GetMempool(p)
    <3>1. stage[p] = 2
      BY <2>1 DEF GetMempool, M!CopyMempool, Joined, Turns, InTurn
    <3>2. /\ Same /\ UNCHANGED template
          /\ stage' = [stage EXCEPT ![p] = 3]
          /\ mem' = [mem EXCEPT ![p] = tran]
      BY <1>6, <2>1, <3>1
      DEF GetMempool, M!CopyMempool, Advances, vars, record, history, shared, peers, M!served
    <3>3. mem \in [MiningPools -> Lists]
      BY DEF Joined, Held
    <3>4. \A q \in MiningPools : Mines(q)
      BY <1>6, <3>2, <3>3
    <3> QED  BY <1>4, <3>2, <3>4
  <2>2. CASE Paid(p)
    BY <1>1, <1>2, <2>2, FollowsPaid
  <2>3. CASE /\ M!SendingMempool(p) \/ M!SendNewTransaction(p)
             /\ UNCHANGED <<vars, stage, record>>
    <3>1. Same /\ UNCHANGED <<stage, template, mem>>
      BY <2>3
      DEF M!SendingMempool, M!SendNewTransaction, vars, record, history, shared, peers, M!served
    <3> QED  BY <1>4, <1>5, <3>1
  <2> QED  BY <1>9, <2>1, <2>2, <2>3 DEF MempoolSteps
<1>10. CASE AnnounceBlock /\ agregar_bloque
  BY <1>1, <1>2, <1>10, FollowsAnnounced
<1>11. CASE AnnounceBlock /\ ~agregar_bloque
  <2>1. Same /\ UNCHANGED <<stage, template, mem>>
    BY <1>11 DEF AnnounceBlock, AddBlock, history, peers, mempoolVars, record
  <2> QED  BY <1>4, <1>5, <2>1
<1>12. CASE GiveTransactions
  <2>1. /\ UNCHANGED <<chain, accepted, bodies, tran, added, block, stage, template, mem>>
        /\ server # "idle" /\ server' # "idle"
    BY <1>12
    DEF GiveTransactions, SendTransactions, M!SendBlock, shared, history, peers, record,
        M!pooled
  <2> QED  BY <1>2, <1>3, <2>1, FollowsFrame
<1>13. CASE \/ Deleted
            \/ /\ PublishHigh \/ PublishLow
               /\ UNCHANGED <<mempoolVars, stage, record>>
  <2>1. Same /\ UNCHANGED <<stage, template, mem>>
    BY <1>13
    DEF Deleted, AwaitDeletion, PublishHigh, PublishLow, shared, history, peers, mempoolVars,
        record
  <2> QED  BY <1>4, <1>5, <2>1
<1>14. CASE DeletionSteps
  <2>1. CASE M!RecvNewBlock /\ UNCHANGED <<vars, stage, record>>
    <3>1. /\ UNCHANGED <<chain, accepted, bodies, tran, added, block, stage, template, mem>>
          /\ server # "idle" /\ server' # "idle"
      BY <2>1 DEF M!RecvNewBlock, vars, record, history, shared, peers, M!pooled
    <3> QED  BY <1>2, <1>3, <3>1, FollowsFrame
  <2>2. CASE M!DeleteTransactions /\ UNCHANGED <<vars, stage, record>>
    BY <1>1, <1>2, <2>2, FollowsDeleted
  <2> QED  BY <1>14, <2>1, <2>2 DEF DeletionSteps
<1>15. ASSUME NEW t \in MiningPools \cup {"builder"},
              SpuriousWakeup(t) /\ UNCHANGED <<mempoolVars, stage, record>>
       PROVE  Follows'
  <2>1. Same /\ UNCHANGED <<stage, template, mem>>
    BY <1>15 DEF SpuriousWakeup, shared, history, peers, mempoolVars, record
  <2> QED  BY <1>4, <1>5, <2>1
<1>16. CASE UNCHANGED ledgerVars
  <2>1. Same /\ UNCHANGED <<stage, template, mem>>
    BY <1>16 DEF ledgerVars, vars, shared, history, peers, mempoolVars, record
  <2> QED  BY <1>4, <1>5, <2>1
<1> HIDE DEF Same
<1> QED
  BY <1>7, <1>8, <1>9, <1>10, <1>11, <1>12, <1>13, <1>14, <1>15, <1>16
  DEF LedgerNext, BuilderSteps

LEMMA FollowsInit == LedgerInit => Follows
<1> SUFFICES ASSUME LedgerInit
             PROVE  Follows
  OBVIOUS
<1>1. /\ tran = <<>> /\ server = "idle" /\ bodies = <<>> /\ accepted = {}
      /\ chain = <<Genesis>> /\ added = [t \in Transactions |-> 0]
      /\ stage = [p \in MiningPools |-> 1]
  BY DEF LedgerInit, Init, M!Init
<1>2. Len(chain) = 1 /\ Cardinality(accepted) = 0 /\ 2..Len(chain) = {}
  BY <1>1, FS_EmptySet
<1>3. ASSUME NEW t \in Transactions
      PROVE  Confirmed(t) + M!Count(tran, t) = added[t] + Doomed(t)
  <2>1. Confirmed(t) = 0
    BY <1>2, InsideIsConfirmed, TotalEmpty
  <2>2. M!Count(tran, t) = 0
    BY <1>1, CountIsCopies, CopiesOfNothing
  <2> QED  BY <1>1, <2>1, <2>2 DEF Doomed
<1> QED  BY <1>1, <1>2, <1>3 DEF Follows, ForDeletion, ForFlight, ForMining, Balance

\* Every payment the mempool added is on the chain once or still in the mempool,
\* although each pool builds its block from its own copy of the mempool, and other
\* pools pay into it before that block's payments are deleted: unless siblings are
\* accepted or the chain is full.
THEOREM NoPaymentIsLost == LedgerSpec => []PaymentsAreConserved
<1>1. LedgerInit => (Premise => Follows)
  BY FollowsInit
<1>2. Central /\ Central' /\ Joined /\ (Premise => Follows) /\ [LedgerNext]_ledgerVars
      => (Premise => Follows)'
  BY FollowsStep
<1>3. (Premise => Follows) => PaymentsAreConserved
  BY DEF Premise, Follows, Balance, PaymentsAreConserved
<1> QED  BY <1>1, <1>2, <1>3, CentralHolds, JoinedHolds, PTL DEF LedgerSpec
=============================================================================
