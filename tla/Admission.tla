----------------------------- MODULE Admission -----------------------------
(***************************************************************************)
(* How the programs find each other: the accept loops in the mains of the  *)
(* central server, of the mempool and of one mining pool, the connections  *)
(* their clients make, and how each new thread gets its socket.            *)
(*                                                                         *)
(* A socket is the client at its other end.  The central server tells its  *)
(* clients apart by their first message, and gives each thread a socket in *)
(* memory of its own.  The mempool gives every thread the address of one   *)
(* variable of main, which the next accept overwrites; the mining pool     *)
(* gives every thread the address of one structure, which it fills after   *)
(* it has asked the miner for its ID.  A thread that starts late reads     *)
(* there what main wrote for a later client; acceptedM and acceptedP are   *)
(* the order in which clients came.                                        *)
(*                                                                         *)
(* The programs are started in the order the README asks for: the central  *)
(* server, the mempool, the mining pools and, once these have their        *)
(* threads, the miners; wallets at any time.                               *)
(***************************************************************************)
EXTENDS Integers, Sequences, FiniteSets

CONSTANTS Pools,      \* the mining pools
          Wallets,    \* the wallets
          Miners,     \* the miners of the pool Home
          Home,       \* the mining pool whose main is modelled
          Fickle,     \* the clients that may die
          MaxThreads, \* MAX_THREADS: length of the arrays of threads
          None        \* no client

CentralClients == Pools \cup Wallets \cup {"mempool"}
Clients        == CentralClients \cup Miners

ASSUME AdmissionAssumption ==
    /\ Home \in Pools
    /\ Fickle \subseteq Clients
    /\ None \notin Clients
    /\ MaxThreads \in Nat \ {0}

VARIABLES
    connected, \* clients that called connect, not yet accepted ...
    atMempool, \* ... and the pools among them that did so at the mempool
    spoken,    \* clients that sent the central server what they are
    dead,      \* clients that died
    main,      \* the central server: where main is
    newsockfd, \* ... the socket main accepted last
    msg,       \* ... what main received last
    role,      \* ... the thread created for each client
    jC,        \* ... j
    sockM,     \* the mempool: newsockfd
    jM,        \* ... j
    threadM,   \* ... where the thread created for each pool is
    servedM,   \* ... the socket that thread reads
    mainP,     \* the mining pool: where main is
    sockP,     \* ... newsockfd
    mdata,     \* ... the structure given to every thread
    threadP,   \* ... where the thread created for each miner is
    argsP,     \* ... that thread's copy of the structure
    acceptedM, \* history: the pools in the order the mempool accepted them
    acceptedP, \* history: the miners in the order the mining pool did
    down       \* processes that an assertion ended

clients == <<connected, atMempool, spoken, dead>>
central == <<main, newsockfd, msg, role, jC>>
mempool == <<sockM, jM, threadM, servedM>>
pool    == <<mainP, sockP, mdata, threadP, argsP>>
record  == <<acceptedM, acceptedP, down>>
vars    == <<clients, central, mempool, pool, record>>

Kind(c) == IF c \in Pools THEN "pool" ELSE IF c \in Wallets THEN "wallet" ELSE "mempool"

-----------------------------------------------------------------------------
(* Plausible bugs, each the mutated form of a definition below.             *)

CountsEveryClient(k)  == TRUE                \* wallets take a place too
RoomForOneMore(n)     == n <= MaxThreads     \* the bound off by one
HearsLast(c)          == msg                 \* what came is not looked at
KeepsLastID(m)        == mdata.ID            \* the ID not stored
-----------------------------------------------------------------------------
(* The clients.                                                             *)

ClientStep == UNCHANGED <<central, mempool, pool, record>>

\* connecttoCentralServer, or connecttoMiningPool: connect
Connect(c) ==
    /\ c \notin connected \cup dead \cup spoken
    /\ c \in Pools => c \in atMempool
    /\ c \in Miners => \A p \in Pools : role[p] # "none"
    /\ c \in CentralClients => c # newsockfd /\ role[c] = "none"
    /\ c \in Miners => c # sockP /\ threadP[c] = "none"
    /\ connected' = connected \cup {c}
    /\ UNCHANGED <<atMempool, spoken, dead>>
    /\ ClientStep

\* ConnecttoMempool, which a pool calls first
ConnecttoMempool(p) ==
    /\ p \notin atMempool \cup dead /\ "mempool" \in spoken \cup dead
    /\ atMempool' = atMempool \cup {p}
    /\ UNCHANGED <<connected, spoken, dead>>
    /\ ClientStep

\* ... and its first message
Speak(c) ==
    /\ c \in connected \/ c = newsockfd
    /\ c \notin spoken \cup dead
    /\ spoken' = spoken \cup {c}
    /\ UNCHANGED <<connected, atMempool, dead>>
    /\ ClientStep

\* a client that dies before its thread is created, as far as main can tell
Die(c) ==
    /\ c \in Fickle \ dead
    /\ c \in connected \/ (c = newsockfd /\ main = "recv") \/ (c = sockP /\ mainP = "recv")
    /\ dead' = dead \cup {c}
    /\ UNCHANGED <<connected, atMempool, spoken>>
    /\ ClientStep

-----------------------------------------------------------------------------
(* main of the central server.                                              *)

HasRoom(n) == n < MaxThreads

CentralAccept ==
    /\ "central" \notin down /\ main = "accept"
    /\ \E c \in connected \cap CentralClients :
         /\ newsockfd' = c
         /\ connected' = connected \ {c}
    /\ main' = "recv"
    /\ UNCHANGED <<atMempool, spoken, dead, msg, role, jC, mempool, pool, record>>

\* recvMsg from a client that died returns 0 and leaves msg as it was, and
\* nothing looks at what it returned
Hears(c) == IF c \in spoken THEN Kind(c) ELSE msg

Counts(k) == k = "pool"

\* Connection_From_MiningPool, Connection_From_MemPool, Connection_From_Wallet:
\* the thread, whose socket is in memory of its own; anything else is closed
Dispatch(k) ==
    /\ msg' = k
    /\ role' = [role EXCEPT ![newsockfd] = k]
    /\ jC' = IF Counts(k) THEN jC + 1 ELSE jC
    /\ main' = IF HasRoom(jC') THEN "accept" ELSE "join"
    /\ UNCHANGED down

\* before the first message msg is uninitialized: getControl's assertion may
\* fail, or hold of anything
CentralDispatch ==
    /\ "central" \notin down /\ main = "recv"
    /\ newsockfd \in spoken \cup dead
    /\ LET heard == Hears(newsockfd)
       IN  IF heard # "uninitialized"
           THEN Dispatch(heard)
           ELSE \/ \E k \in {"pool", "wallet", "mempool", "closed"} : Dispatch(k)
                \/ down' = down \cup {"central"} /\ UNCHANGED <<main, msg, role, jC>>
    /\ UNCHANGED <<clients, newsockfd, mempool, pool, acceptedM, acceptedP>>

-----------------------------------------------------------------------------
(* main of the mempool, and MiningPoolsthread.                              *)

\* accept, and pthread_create with the address of newsockfd
MempoolAccept ==
    /\ jM <= MaxThreads
    /\ \E p \in atMempool :
         /\ threadM[p] = "none"
         /\ sockM' = p
         /\ threadM' = [threadM EXCEPT ![p] = "created"]
         /\ acceptedM' = Append(acceptedM, p)
    /\ jM' = jM + 1
    /\ UNCHANGED <<clients, central, servedM, pool, acceptedP, down>>

\* newsockfd = *ptr, the variable of main
MempoolThread(p) ==
    /\ threadM[p] = "created"
    /\ servedM' = [servedM EXCEPT ![p] = sockM]
    /\ threadM' = [threadM EXCEPT ![p] = "serving"]
    /\ UNCHANGED <<clients, central, sockM, jM, pool, record>>

-----------------------------------------------------------------------------
(* main of the mining pool, and Minerhandle.                                *)

PoolUp == "pool" \notin down

\* j, which the threads of miners that leave would lower again
jP == Cardinality({m \in Miners : threadP[m] # "none"})

\* accept, and Send_Miner_ID
PoolAccept ==
    /\ PoolUp /\ mainP = "accept" /\ jP <= MaxThreads
    /\ \E m \in connected \cap Miners :
         /\ sockP' = m
         /\ connected' = connected \ {m}
         /\ acceptedP' = Append(acceptedP, m)
    /\ mainP' = "recv"
    /\ UNCHANGED <<atMempool, spoken, dead, central, mempool, mdata,
                   threadP, argsP, acceptedM, down>>

StoredID(m) == m

\* Sending_Miner_ID, and mdata->ID.  From a miner that died before it sent either
\* main reads back its own question, and leaves the socket; or getID asserts on
\* the type of what it read before.
PoolHear ==
    /\ PoolUp /\ mainP = "recv"
    /\ \/ /\ mdata' = [mdata EXCEPT !.ID = StoredID(sockP)]
          /\ mainP' = "store"
          /\ UNCHANGED down
       \/ /\ sockP \in dead
          /\ mainP' = "accept"
          /\ UNCHANGED <<mdata, down>>
       \/ /\ sockP \in dead
          /\ down' = down \cup {"pool"}
          /\ UNCHANGED <<mdata, mainP>>
    /\ UNCHANGED <<clients, central, mempool, sockP, threadP, argsP, acceptedM, acceptedP>>

\* mdata->minersocket = newsockfd, and pthread_create with the address of mdata
PoolCreate ==
    /\ PoolUp /\ mainP = "store"
    /\ mdata' = [mdata EXCEPT !.minersocket = sockP]
    /\ threadP' = [threadP EXCEPT ![sockP] = "created"]
    /\ mainP' = "accept"
    /\ UNCHANGED <<clients, central, mempool, sockP, argsP, record>>

\* mdata = *ptr, the structure of main, one field ...
CopyID(m) ==
    /\ PoolUp /\ threadP[m] = "created"
    /\ argsP' = [argsP EXCEPT ![m].ID = mdata.ID]
    /\ threadP' = [threadP EXCEPT ![m] = "copying"]
    /\ UNCHANGED <<clients, central, mempool, mainP, sockP, mdata, record>>

\* ... after the other
CopySocket(m) ==
    /\ PoolUp /\ threadP[m] = "copying"
    /\ argsP' = [argsP EXCEPT ![m].minersocket = mdata.minersocket]
    /\ threadP' = [threadP EXCEPT ![m] = "serving"]
    /\ UNCHANGED <<clients, central, mempool, mainP, sockP, mdata, record>>

-----------------------------------------------------------------------------
NoArgs == [ID |-> None, minersocket |-> None]

Init ==
    /\ connected = {} /\ atMempool = {} /\ spoken = {} /\ dead = {}
    /\ main = "accept" /\ newsockfd = None /\ msg = "uninitialized" /\ jC = 0
    /\ role = [c \in CentralClients |-> "none"]
    /\ sockM = None /\ jM = 0
    /\ threadM = [p \in Pools |-> "none"]
    /\ servedM = [p \in Pools |-> None]
    /\ mainP = "accept" /\ sockP = None /\ mdata = NoArgs
    /\ threadP = [m \in Miners |-> "none"]
    /\ argsP = [m \in Miners |-> NoArgs]
    /\ acceptedM = <<>> /\ acceptedP = <<>> /\ down = {}

CentralMain == CentralAccept \/ CentralDispatch
PoolMain    == PoolAccept \/ PoolHear \/ PoolCreate

Next ==
    \/ \E c \in Clients : Connect(c)
    \/ \E p \in Pools : ConnecttoMempool(p)
    \/ \E c \in CentralClients : Speak(c)
    \/ \E c \in Fickle : Die(c)
    \/ CentralMain
    \/ MempoolAccept
    \/ \E p \in Pools : MempoolThread(p)
    \/ PoolMain
    \/ \E m \in Miners : CopyID(m) \/ CopySocket(m)

Spec == Init /\ [][Next]_vars

\* The scheduler runs the main of the central server when it can run; a client that
\* connected speaks at once, unless it dies.
FairSpec ==
    /\ Spec
    /\ WF_vars(CentralMain)
    /\ \A c \in CentralClients : WF_vars(Speak(c))
-----------------------------------------------------------------------------
(* Properties.                                                              *)

Roles == {"none", "pool", "wallet", "mempool", "closed"}

\* Every variable holds a value of its C++ type, and the central server creates
\* no thread for which its array has no place.
TypeOK ==
    /\ connected \subseteq Clients /\ atMempool \subseteq Pools
    /\ spoken \subseteq CentralClients /\ dead \subseteq Clients
    /\ main \in {"accept", "recv", "join"}
    /\ newsockfd \in CentralClients \cup {None}
    /\ msg \in (Roles \cup {"uninitialized"}) \ {"none"}
    /\ role \in [CentralClients -> Roles]
    /\ jC \in 0..MaxThreads
    /\ sockM \in Pools \cup {None} /\ jM \in Nat
    /\ threadM \in [Pools -> {"none", "created", "serving"}]
    /\ servedM \in [Pools -> Pools \cup {None}]
    /\ mainP \in {"accept", "recv", "store"}
    /\ sockP \in Miners \cup {None}
    /\ mdata \in [ID : Miners \cup {None}, minersocket : Miners \cup {None}]
    /\ threadP \in [Miners -> {"none", "created", "copying", "serving"}]
    /\ argsP \in [Miners -> [ID : Miners \cup {None}, minersocket : Miners \cup {None}]]
    /\ acceptedM \in Seq(Pools) /\ acceptedP \in Seq(Miners) /\ down \subseteq {"central", "pool"}

\* In the order of acceptance, a comes no later than b.
NoEarlier(order, a, b) ==
    \E i, j \in DOMAIN order : i <= j /\ order[i] = a /\ order[j] = b

\* A thread may have read the socket, or the account, of a client that came after
\* its own, but never one of a client before: not even when it reads one field
\* before main writes the structure again and the other after.  So the client that
\* came last is served, on its own account, by the thread created for it
\* (mempool.cpp:241, MPserver.cpp:601-608).
ThreadsServeNoneEarlier ==
    /\ \A p \in Pools : threadM[p] = "serving" => NoEarlier(acceptedM, p, servedM[p])
    /\ \A m \in Miners : threadP[m] = "serving" =>
          /\ NoEarlier(acceptedP, m, argsP[m].ID)
          /\ NoEarlier(acceptedP, m, argsP[m].minersocket)

\* When the central server stops accepting, each of its places is held by a pool or
\* was lost to a client that died without a word, for which main acted on the
\* message of the client before (CentralServer.cpp:267-280).  No other wallet, and
\* no mempool, ever keeps a pool out.
NoPlaceIsLost ==
    main = "join" =>
        Cardinality({p \in Pools : role[p] = "pool"})
            + Cardinality((dead \ spoken) \cap CentralClients) >= MaxThreads

\* Every client that says what it is gets a thread for it, however many wallets
\* came before and whoever dies, until the central server has all the pools it
\* has room for.
ClientsAreServed ==
    \A c \in CentralClients :
        c \in spoken ~> \/ role[c] = Kind(c)
                        \/ Cardinality({p \in CentralClients : role[p] = "pool"}) = MaxThreads
                        \/ "central" \in down
=============================================================================
