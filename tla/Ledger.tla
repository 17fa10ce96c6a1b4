------------------------------- MODULE Ledger -------------------------------
(***************************************************************************)
(* The central server, the mempool and the serverandmempool thread of each *)
(* mining pool together: how a payment gets from a pool into the mempool,  *)
(* from there into the blocks pools build, and onto the chain.             *)
(*                                                                         *)
(* The central server's builder and the mempool's centralserverthread are  *)
(* each other's peer, and a mining pool is the peer of both, in the order  *)
(* of serverandmempool's loop: header, mempool, block, payments.  A step   *)
(* that both ends of a connection take is the conjunction of their steps.  *)
(***************************************************************************)
EXTENDS CentralServer, FiniteSetsExt

CONSTANTS Transactions, Coinbase, MaxTransactions, MaxPayments  \* see Mempool

ASSUME LedgerAssumption ==
    /\ "central" \notin MiningPools
    /\ Coinbase \notin Transactions
    /\ MaxTransactions \in Nat
    /\ MaxPayments \in Nat
    /\ MaxBlocks > 1

VARIABLES
    tran, central, server, block, MPhandle, request, payments, mem, connected,
    flag, closed, running,  \* the mempool: see Mempool
    stage,    \* where each pool is in Loop
    bodies,   \* history: the transactions of each accepted block, by its id
    added,    \* history: how many of each payment the mempool has added
    dropped   \* history: how many payments of each pool's request it dropped,
              \* until the pool asks for the next header

M == INSTANCE Mempool WITH Pools <- MiningPools, Crashers <- {}, Interruptible <- FALSE

mempoolVars == <<tran, central, server, block, MPhandle, request, payments, mem,
                 connected, flag, closed, running>>
record      == <<bodies, added, dropped>>
ledgerVars  == <<vars, mempoolVars, stage, record>>

-----------------------------------------------------------------------------
(* A plausible bug, the mutated form of a definition below: the mempool is  *)
(* asked for first.                                                         *)

LoopSwapped == <<"mempool", "header", "block", "pay">>
-----------------------------------------------------------------------------
(* serverandmempool, and the handlers that serve it.                        *)

Loop == <<"header", "mempool", "block", "pay">>

At(p, place) == Loop[stage[p]] = place

Advances(p) == stage' = [stage EXCEPT ![p] = @ + 1]
Restarts(p) == stage' = [stage EXCEPT ![p] = 1]

AskHeader(p) ==
    /\ At(p, "header")
    /\ PoolAsks(p)
    /\ dropped' = [dropped EXCEPT ![p] = 0]
    /\ UNCHANGED <<shared, previoushash, netprev, builder, handler, blk, buffer,
                   sleeping, up, history, mempoolVars, stage, bodies, added>>

GetHeader(p) ==
    /\ SendHeader(p)
    /\ Advances(p)
    /\ UNCHANGED <<mempoolVars, record>>

AskMempool(p) ==
    /\ At(p, "mempool")
    /\ M!AskMempool(p)
    /\ UNCHANGED <<vars, stage, record>>

GetMempool(p) ==
    /\ M!CopyMempool(p)
    /\ Advances(p)
    /\ UNCHANGED <<vars, record>>

\* a miner found the nonce
OfferBlock(p) ==
    /\ At(p, "block")
    /\ PoolOffers(p)
    /\ UNCHANGED <<shared, previoushash, netprev, builder, handler, blk, buffer,
                   sleeping, up, history, mempoolVars, stage, record>>

UploadBlock(p) ==
    /\ PoolUploads(p)
    /\ UNCHANGED <<shared, previoushash, netprev, builder, handler, blk, buffer,
                   sleeping, up, history, mempoolVars, stage, record>>

\* the check of the block that buildblock made of the header and the mempool
JudgeBlock(p) ==
    /\ CheckBlock(p)
    /\ IF accepted' # accepted
       THEN bodies' = Append(bodies, M!Body(p)) /\ UNCHANGED stage
       ELSE Restarts(p) /\ UNCHANGED bodies
    /\ UNCHANGED <<mempoolVars, added, dropped>>

\* Validated: the miners are to be paid
GetVerdict(p) ==
    /\ HandOff(p) \/ Resume(p)
    /\ IF pool'[p] = "idle" THEN Advances(p) ELSE UNCHANGED stage
    /\ UNCHANGED <<mempoolVars, record>>

\* sendpay2miners: a payment for each miner paid in the round, one at least, since S
\* is woken by a handler that has just paid its own
PayMiners(p) ==
    /\ At(p, "pay")
    /\ \E paid \in M!BoundedSeq(Transactions, MaxPayments) \ {<<>>} : M!PayMiners(p, paid)
    /\ UNCHANGED <<vars, stage, record>>

Paid(p) ==
    /\ M!AddTransactions(p)
    /\ Restarts(p)
    /\ added' = [t \in Transactions |->
                   added[t] + M!Count(tran', t) - M!Count(tran, t)]
    /\ dropped' = [dropped EXCEPT ![p] = Len(payments[p]) - (Len(tran') - Len(tran))]
    /\ UNCHANGED <<vars, bodies>>

-----------------------------------------------------------------------------
(* Blockchainbuilder and centralserverthread.                               *)

AnnounceBlock ==
    /\ AddBlock
    /\ IF agregar_bloque
       THEN M!AnnounceBlock(bodies[chain'[Len(chain')].id])
       ELSE UNCHANGED mempoolVars
    /\ UNCHANGED <<stage, record>>

GiveTransactions ==
    /\ SendTransactions
    /\ M!SendBlock
    /\ UNCHANGED <<stage, record>>

Deleted ==
    /\ AwaitDeletion
    /\ server = "idle"
    /\ UNCHANGED <<mempoolVars, stage, record>>

-----------------------------------------------------------------------------
LedgerInit ==
    /\ Init
    /\ M!Init
    /\ stage = [p \in MiningPools |-> 1]
    /\ bodies = <<>>
    /\ added = [t \in Transactions |-> 0]
    /\ dropped = [p \in MiningPools |-> 0]

\* the steps a pool owes, but for finding a nonce
PoolSteps(p) ==
    \/ AskHeader(p)
    \/ AskMempool(p)
    \/ UploadBlock(p)
    \/ PayMiners(p)
    \/ M!SendPayments(p) /\ UNCHANGED <<vars, stage, record>>

\* those of the central server's handler of a pool
HandlerSteps(p) ==
    \/ GetHeader(p)
    \/ JudgeBlock(p)
    \/ GetVerdict(p)
    \/ /\ AskForBlock(p) \/ StoreHashHigh(p) \/ StoreHashLow(p)
       /\ UNCHANGED <<mempoolVars, stage, record>>

BuilderSteps ==
    \/ AnnounceBlock
    \/ GiveTransactions
    \/ Deleted
    \/ (PublishHigh \/ PublishLow) /\ UNCHANGED <<mempoolVars, stage, record>>

\* those of the mempool's thread of a pool
MempoolSteps(p) ==
    \/ GetMempool(p)
    \/ Paid(p)
    \/ /\ M!SendingMempool(p) \/ M!SendNewTransaction(p)
       /\ UNCHANGED <<vars, stage, record>>

DeletionSteps ==
    /\ M!RecvNewBlock \/ M!DeleteTransactions
    /\ UNCHANGED <<vars, stage, record>>

LedgerNext ==
    \/ \E p \in MiningPools :
         PoolSteps(p) \/ OfferBlock(p) \/ HandlerSteps(p) \/ MempoolSteps(p)
    \/ BuilderSteps
    \/ DeletionSteps
    \/ \E t \in MiningPools \cup {"builder"} :
         SpuriousWakeup(t) /\ UNCHANGED <<mempoolVars, stage, record>>

LedgerSpec == LedgerInit /\ [][LedgerNext]_ledgerVars

\* The schedulers run every thread that can run.
LedgerFairness ==
    /\ \A p \in MiningPools : /\ WF_ledgerVars(PoolSteps(p))
                              /\ WF_ledgerVars(HandlerSteps(p))
                              /\ WF_ledgerVars(MempoolSteps(p))
    /\ WF_ledgerVars(BuilderSteps)
    /\ WF_ledgerVars(DeletionSteps)

FairLedgerSpec == LedgerSpec /\ LedgerFairness
-----------------------------------------------------------------------------
(* Properties.                                                              *)

Confirmed(t) ==
    LET held == [n \in 2..Len(chain) |-> M!Count(bodies[chain[n].id], t)]
    IN  MapThenSumSet(LAMBDA n : held[n], 2..Len(chain))

\* How many of t a block on the chain has and the mempool has yet to delete.
Doomed(t) == IF server = "idle" THEN 0 ELSE M!Count(bodies[Tip.id], t)

\* Every payment the mempool added is on the chain once or still in the mempool,
\* though pools copy the mempool, mine and pay while blocks are being added,
\* announced and deleted from it: none is confirmed twice and none is lost.
PaymentsAreConserved ==
    NoSiblings /\ Len(chain) < MaxBlocks =>
        \A t \in Transactions :
            Confirmed(t) + M!Count(tran, t) = added[t] + Doomed(t)

=============================================================================
