------------------------------ MODULE Mempool ------------------------------
(***************************************************************************)
(* The mempool (mempool.cpp): one MiningPoolsthread per connected mining   *)
(* pool, the centralserverthread, and the transactions they share.  The    *)
(* mining pools and the central server appear as the peers of their        *)
(* connections.                                                            *)
(*                                                                         *)
(* centralserverthread holds lock_x from NEW_BLOCK until the transactions  *)
(* of the block are deleted, while it waits for the central server to send *)
(* them; MiningPoolsthread holds it for a copy or an append.  Transactions *)
(* have no identity: two with the same sender, receiver, fee and quantity  *)
(* are equal, and a transaction here is that value.                        *)
(*                                                                         *)
(* An interrupt runs catch_int between the steps of the threads.  A call   *)
(* that is blocked in recv when its socket is closed is taken to have been *)
(* answered before; a call made later fails.                               *)
(***************************************************************************)
EXTENDS Naturals, Sequences, FiniteSets, SequencesExt

CONSTANTS Pools,           \* the connected mining pools, one thread each
          Crashers,        \* the peers that may die: some pools, perhaps "central"
          Transactions,    \* values of transactions that pay miners
          Coinbase,        \* Blockearning, first in every block, never in the mempool
          MaxTransactions, \* MAX_TRANSACTIONS: length of tran
          Interruptible,   \* SIGINT may be sent, once
          MaxPayments      \* bound: payments in one request

ASSUME MempoolAssumption ==
    /\ "central" \notin Pools
    /\ Coinbase \notin Transactions
    /\ MaxTransactions \in Nat
    /\ MaxPayments \in Nat
    /\ Interruptible \in BOOLEAN

VARIABLES
    tran,      \* tran[0 .. cantidad - 1]
    central,   \* where centralserverthread is
    server,    \* external: what the central server waits for or has sent
    block,     \* external: the transactions of the block it announces, until
               \* they are deleted
    MPhandle,  \* where each MiningPoolsthread is
    request,   \* external: what each pool waits for or has sent
    payments,  \* external: the transactions each pool adds, until they are
    mem,       \* external: the mempool each pool received last
    connected, \* external: peers whose connection is open
    flag,      \* FALSE once catch_int asks all threads to end
    closed,    \* catch_int has closed the sockets
    running    \* FALSE once an assert ended the process

pooled == <<MPhandle, request, payments, mem>>
served == <<central, server, block>>
signals == <<flag, closed>>
status == <<connected, signals, running>>
vars   == <<tran, pooled, served, status>>

-----------------------------------------------------------------------------
(* Plausible bugs, each the mutated form of a definition below.             *)

RemoveEvery(s, t)    == SelectSeq(s, LAMBDA u : u # t)  \* the break forgotten
HasNoLimit(s, added) == TRUE                            \* the bound forgotten
KeepsOneFree(s, added) == Len(added) < MaxTransactions - Len(s)  \* or off by one
-----------------------------------------------------------------------------
LockFree == central # "deleting"

Goes(p, place) == MPhandle' = [MPhandle EXCEPT ![p] = place]

\* while (flag), and what follows the loop
LoopOrEnd == IF flag THEN "recv" ELSE "ended"

\* the two inner loops of delete_transactions, up to the break
RemoveOne(s, t) == RemoveFirst(s, t)

\* delete_transactions: one occurrence of each transaction of the block goes
delete_transactions(s, b) == FoldLeft(RemoveOne, s, b)

HasRoom(s, added) == Len(added) <= MaxTransactions - Len(s)

\* addTransactions: all of them, or none when they do not all fit
addTransactions(s, added) == IF HasRoom(s, added) THEN s \o added ELSE s

-----------------------------------------------------------------------------
(* The peers.                                                               *)

\* ServerandMempooolHandler::askmempool
AskMempool(p) ==
    /\ p \in connected /\ request[p] = "none"
    /\ request' = [request EXCEPT ![p] = "mempool"]
    /\ UNCHANGED <<tran, MPhandle, payments, mem, served, status>>

\* ServerandMempooolHandler::sendpay2miners, up to its first reply ...
PayMiners(p, paid) ==
    /\ p \in connected /\ request[p] = "none"
    /\ request' = [request EXCEPT ![p] = "pay"]
    /\ payments' = [payments EXCEPT ![p] = paid]
    /\ UNCHANGED <<tran, MPhandle, mem, served, status>>

\* ... and after it
SendPayments(p) ==
    /\ p \in connected /\ request[p] = "asked"
    /\ request' = [request EXCEPT ![p] = "sent"]
    /\ UNCHANGED <<tran, MPhandle, payments, mem, served, status>>

\* SendNewBlockTransaction, up to its first reply ...
AnnounceBlock(b) ==
    /\ "central" \in connected /\ server = "idle"
    /\ server' = "newBlock"
    /\ block' = b
    /\ UNCHANGED <<tran, central, pooled, status>>

\* ... and after it
SendBlock ==
    /\ "central" \in connected /\ server = "asked"
    /\ server' = "sent"
    /\ UNCHANGED <<tran, central, block, pooled, status>>

PeerDies(x) ==
    /\ x \in connected \cap Crashers
    /\ connected' = connected \ {x}
    /\ UNCHANGED <<tran, pooled, served, signals, running>>

-----------------------------------------------------------------------------
(* MempoolMPhandle::handleMiningPool.                                       *)

\* Send_Mempool is answered before the lock is taken ...
SendingMempool(p) ==
    /\ running /\ MPhandle[p] = "recv" /\ request[p] = "mempool" /\ ~closed
    /\ Goes(p, "copy")
    /\ UNCHANGED <<tran, request, payments, mem, served, status>>

\* ... and the copy made under the lock is sent after it is released; whether
\* sendMsg failed is not looked at
CopyMempool(p) ==
    /\ running /\ MPhandle[p] = "copy" /\ LockFree
    /\ IF closed
       THEN UNCHANGED <<mem, request>>
       ELSE /\ mem' = [mem EXCEPT ![p] = tran]
            /\ request' = [request EXCEPT ![p] = "none"]
    /\ Goes(p, LoopOrEnd)
    /\ UNCHANGED <<tran, payments, served, status>>

\* NEW_TRANSACTION
SendNewTransaction(p) ==
    /\ running /\ MPhandle[p] = "recv" /\ request[p] = "pay" /\ ~closed
    /\ request' = [request EXCEPT ![p] = "asked"]
    /\ Goes(p, "add")
    /\ UNCHANGED <<tran, payments, mem, served, status>>

\* the answer is Agregadas_Exitosamente whatever addTransactions did
AddTransactions(p) ==
    /\ running /\ MPhandle[p] = "add" /\ request[p] = "sent" /\ LockFree /\ ~closed
    /\ tran' = addTransactions(tran, payments[p])
    /\ request' = [request EXCEPT ![p] = "none"]
    /\ payments' = [payments EXCEPT ![p] = <<>>]
    /\ Goes(p, LoopOrEnd)
    /\ UNCHANGED <<mem, served, status>>

\* recvControl asserts that recvMsg returned 1; the constructor of Mempool
\* asserts on the type of the control message that recvMsg left in msg
PoolSeesEof(p) ==
    /\ running
    /\ \/ p \notin connected /\ MPhandle[p] = "recv" /\ request[p] = "none"
       \/ p \notin connected /\ MPhandle[p] = "add" /\ request[p] = "asked"
       \/ closed /\ MPhandle[p] \in {"recv", "add"}
    /\ running' = FALSE
    /\ UNCHANGED <<tran, pooled, served, connected, signals>>

-----------------------------------------------------------------------------
(* MempoolCShandle::handleCentralServer.                                    *)

\* NEW_BLOCK: the lock, then SEND_TRANSACTIONS
RecvNewBlock ==
    /\ running /\ central = "recv" /\ server = "newBlock" /\ ~closed
    /\ central' = "deleting"
    /\ server' = "asked"
    /\ UNCHANGED <<tran, block, pooled, status>>

Unlocked == LoopOrEnd

\* delete_transactions, Correctly_deleted, the unlock
DeleteTransactions ==
    /\ running /\ central = "deleting" /\ server = "sent" /\ ~closed
    /\ tran' = delete_transactions(tran, block)
    /\ central' = Unlocked
    /\ server' = "idle"
    /\ block' = <<>>
    /\ UNCHANGED <<pooled, status>>

CentralSeesEof ==
    /\ running
    /\ \/ "central" \notin connected /\ central = "recv" /\ server = "idle"
       \/ "central" \notin connected /\ central = "deleting" /\ server = "asked"
       \/ closed /\ central # "ended"
    /\ running' = FALSE
    /\ UNCHANGED <<tran, pooled, served, connected, signals>>

-----------------------------------------------------------------------------
(* catch_int.                                                               *)

\* the sockets numbered 4 to 14 are closed: those of all threads
CloseSockets ==
    /\ running /\ Interruptible /\ ~closed
    /\ closed' = TRUE
    /\ UNCHANGED <<tran, pooled, served, connected, flag, running>>

ClearFlag ==
    /\ running /\ closed /\ flag
    /\ flag' = FALSE
    /\ UNCHANGED <<tran, pooled, served, connected, closed, running>>

-----------------------------------------------------------------------------
Init ==
    /\ tran = <<>>
    /\ central = "recv"
    /\ server = "idle"
    /\ block = <<>>
    /\ MPhandle = [p \in Pools |-> "recv"]
    /\ request = [p \in Pools |-> "none"]
    /\ payments = [p \in Pools |-> <<>>]
    /\ mem = [p \in Pools |-> <<>>]
    /\ connected = Pools \cup {"central"}
    /\ flag = TRUE
    /\ closed = FALSE
    /\ running = TRUE

\* what buildblock makes of a copy of the mempool
BlockOf(copy) == <<Coinbase>> \o copy

\* the block made of the mempool that p received
Body(p) == BlockOf(mem[p])

\* A block is announced after it was made: by then its pool may have copied the
\* mempool again, and the transactions of its copy may be gone.
Peer ==
    \/ \E p \in Pools : AskMempool(p) \/ SendPayments(p)
    \/ \E copy \in BoundedSeq(Transactions, MaxTransactions) : AnnounceBlock(BlockOf(copy))
    \/ \E p \in Pools, paid \in BoundedSeq(Transactions, MaxPayments) : PayMiners(p, paid)
    \/ SendBlock
    \/ \E x \in Crashers : PeerDies(x)

Handler(p) ==
    \/ SendingMempool(p)
    \/ CopyMempool(p)
    \/ SendNewTransaction(p)
    \/ AddTransactions(p)
    \/ PoolSeesEof(p)

Central ==
    \/ RecvNewBlock
    \/ DeleteTransactions
    \/ CentralSeesEof

CatchInt == CloseSockets \/ ClearFlag

\* what peers do once the sockets are closed or the process ended reaches nobody
Next ==
    \/ running /\ ~closed /\ Peer
    \/ \E p \in Pools : Handler(p)
    \/ Central
    \/ CatchInt

Spec == Init /\ [][Next]_vars
-----------------------------------------------------------------------------
(* Properties.                                                              *)

Values == Transactions \cup {Coinbase}

\* The transactions fit in tran, the coinbase is not among them, and every
\* other variable holds a value of its C++ type.
TypeOK ==
    /\ tran \in Seq(Transactions)
    /\ Len(tran) <= MaxTransactions
    /\ central \in {"recv", "deleting", "ended"}
    /\ server \in {"idle", "newBlock", "asked", "sent"}
    /\ block \in Seq(Values)
    /\ MPhandle \in [Pools -> {"recv", "copy", "add", "ended"}]
    /\ request \in [Pools -> {"none", "mempool", "pay", "asked", "sent"}]
    /\ payments \in [Pools -> Seq(Transactions)]
    /\ mem \in [Pools -> Seq(Transactions)]
    /\ connected \subseteq Pools \cup {"central"}
    /\ flag \in BOOLEAN
    /\ closed \in BOOLEAN
    /\ running \in BOOLEAN

Count(s, t) == Cardinality({i \in 1..Len(s) : s[i] = t})

Minus(m, n) == IF m < n THEN 0 ELSE m - n

\* A block takes from the mempool as many of each transaction as it holds, or
\* all there are: equal transactions beyond those of the block stay, whatever
\* other pools added after the block's pool copied the mempool.
DeletesWhatTheBlockHolds ==
    [][central = "deleting" /\ central' # "deleting" =>
         \A t \in Transactions :
             Count(tran', t) = Minus(Count(tran, t), Count(block, t))]_vars
=============================================================================
