------------------------------ MODULE Wallets ------------------------------
(***************************************************************************)
(* Ledger, with wallets (Wallet.cpp) that ask the central server what an   *)
(* account holds, and the thread that answers each of them (WalletHandler  *)
(* in CentralServer.cpp).                                                  *)
(*                                                                         *)
(* A transaction is a record here: who sends it, who receives it and how   *)
(* much it moves.  The transactions of the genesis block each pay their    *)
(* sender, and move nothing.                                               *)
(***************************************************************************)
EXTENDS Ledger, Integers, SequencesExt

CONSTANTS Wallet,      \* the wallets that may connect
          Accounts,    \* the accounts they ask for
          Dying        \* the wallets that may die before they send their account

ASSUME WalletsAssumption ==
    /\ Dying \subseteq Wallet
    /\ IsFiniteSet(Transactions)
    /\ \A t \in Transactions \cup {Coinbase} :
         /\ DOMAIN t = {"sender", "receiver", "quantity"}
         /\ t.quantity \in Nat

VARIABLES
    ID,      \* the account each wallet was given by its user
    monedas  \* what each wallet was told its account holds

walletVars == <<ID, monedas>>

-----------------------------------------------------------------------------
(* A plausible bug, the mutated form of a definition below: the chain is    *)
(* read without the lock.                                                   *)

NoLock == TRUE
-----------------------------------------------------------------------------
\* the body of the inner loop of Blockchain::monedas
Moves(t, id) ==
    (IF t.receiver = id THEN t.quantity ELSE 0) - (IF t.sender = id THEN t.quantity ELSE 0)

Moved(s, id) == FoldLeft(LAMBDA cuenta, t : cuenta + Moves(t, id), 0, s)

\* Blockchain::monedas
Coins(c, id) ==
    FoldLeft(LAMBDA cuenta, b : cuenta + (IF b = Genesis THEN 0 ELSE Moved(bodies[b.id], id)),
             0, c)

-----------------------------------------------------------------------------
ChainIsSafe == LockFree

\* main of a wallet, and WalletHandler: inputID, Ask_4_coins, Ask_4_ID and the ID,
\* an exchange no other thread sees; the copy of BC under lock_x; and the answer,
\* computed from the copy
AskForCoins(w) ==
    /\ up /\ ID[w] = "uninitialized" /\ ChainIsSafe
    /\ \E id \in Accounts :
         /\ ID' = [ID EXCEPT ![w] = id]
         /\ monedas' = [monedas EXCEPT ![w] = Coins(chain, id)]
    /\ UNCHANGED ledgerVars

\* a wallet that dies before it sends the ID: recvMsg fails and leaves Ask_4_ID in
\* msg, and getID asserts on its type
WalletDies(w) ==
    /\ up /\ w \in Dying /\ ID[w] = "uninitialized"
    /\ up' = FALSE
    /\ UNCHANGED <<shared, previoushash, netprev, builder, handler, blk, buffer,
                   sleeping, peers, history, mempoolVars, stage, record, walletVars>>

WalletsInit ==
    /\ LedgerInit
    /\ ID = [w \in Wallet |-> "uninitialized"]
    /\ monedas = [w \in Wallet |-> 0]

\* what the others do once the central server ended is of no interest
WalletsNext ==
    \/ up /\ LedgerNext /\ UNCHANGED walletVars
    \/ \E w \in Wallet : AskForCoins(w) \/ WalletDies(w)

WalletsSpec == WalletsInit /\ [][WalletsNext]_<<ledgerVars, walletVars>>
-----------------------------------------------------------------------------
(* Properties.                                                              *)

\* What the transactions the mempool ever added, and the rewards of the blocks on
\* the chain, move to an account.
Due(id) ==
    LET owed == [t \in Transactions |-> added[t] * Moves(t, id)]
    IN  MapThenSumSet(LAMBDA t : owed[t], Transactions)
        + (Len(chain) - 1) * Moves(Coinbase, id)

\* What a wallet is told counts every payment to and from its account once: what
\* it is told and what waits in the mempool at that moment is all that is due,
\* though the two servers change one after the other when a block is added.
NoCoinsTwice ==
    [][\A w \in Wallet :
         ID'[w] # ID[w] /\ NoSiblings /\ Len(chain) < MaxBlocks =>
             monedas'[w] + Moved(tran, ID'[w]) = Due(ID'[w])]_<<ledgerVars, walletVars>>
=============================================================================
