----------------------------- MODULE MiningPool -----------------------------
(***************************************************************************)
(* The mining pool (MPserver.cpp): main, which accepts miners, the         *)
(* serverandmempool thread S, one Minerhandle thread per miner, and the    *)
(* globals they share.  A miner (Minero.cpp) is merged with its handler:   *)
(* it asks for a header, then reports shares and asks for the state until  *)
(* it learns of a nonce or finds one, and asks for a header again.         *)
(*                                                                         *)
(* A header is the number of the round S built it in.  lock_x is held by S *)
(* for a whole round but for the wait in pthread_cond_wait, and by a       *)
(* handler while it receives a nonce; a handler's other critical sections  *)
(* block on nothing and are one action each, guarded by lock = "free".     *)
(*                                                                         *)
(* Minerhandle unlocks lock_x after every request without holding it       *)
(* (MPserver.cpp:166): glibc's default mutex is then free, whoever is      *)
(* between its lock and its unlock.  overlapped, which only the properties *)
(* read, says that a thread has gone in while another was still inside.    *)
(* From then on the globals are written without order, which is undefined  *)
(* behaviour: nothing is claimed of what follows.                          *)
(*                                                                         *)
(* An interrupt runs catch_int between the steps of the others.  A call     *)
(* that is blocked in recv when its socket is closed is taken to have been *)
(* answered before; a call made later fails.                               *)
(*                                                                         *)
(* nuevoBloque is left out: the test at MPserver.cpp:168 asks for it and   *)
(* only the lines it guards set it, so that it stays 0.                    *)
(***************************************************************************)
EXTENDS NonceRanges, Sequences, FiniteSets, SequencesExt

CONSTANTS Miners,         \* the miners that may connect
          Leavers,        \* those that may disconnect
          Interruptible,  \* SIGINT may be sent, once
          MaxThreads,     \* MAX_THREADS: main stops accepting beyond so many
          MaxRounds,      \* bound: blocks S builds
          MaxShares       \* bound: shares each miner reports in a round

ASSUME PoolAssumption ==
    /\ IsFiniteSet(Miners)
    /\ {"free", "S"} \cap Miners = {}
    /\ Leavers \subseteq Miners
    /\ Interruptible \in BOOLEAN
    /\ MaxThreads \in Nat
    /\ MaxRounds \in Nat
    /\ MaxShares \in Nat

VARIABLES
    lock,               \* lock_x: the thread that took it, or "free"
    overlapped,         \* two threads have been between lock and unlock at once
    asleep,             \* threads blocked in pthread_cond_wait
    server,             \* where serverandmempool is
    round,              \* S.bloque.header, the header S built last
    headernumber,       \* blocks of this pool in the blockchain
    Header_disponible,  \* miners may take a header
    Header_valido,      \* the miners are done with the round
    Header_para_minar,  \* the header to mine
    Header_minado,      \* the header whose nonce was found
    Noncecorrecto,      \* a nonce was found
    terminaron,         \* miners told so
    totalshares,        \* shares counted in the round
    transactions,       \* miningpooltransactions: the payments of the round
    waiting_thread,     \* some miner waits to join
    RD,                 \* RD.sockets: the registered miners, in order
    j,                  \* threads main believes it has
    main,               \* where main is
    handler,            \* where each Minerhandle is
    mining,             \* miners at work on the header they were sent
    header,             \* each handler's Header_para_minar_thread
    headnum,            \* headernumber when that header was taken
    share,              \* each handler's share
    cut,                \* while it mines, how its nonces were cut: place and number of miners
    flag,               \* FALSE once an interrupt asks all threads to end
    catching,           \* where catch_int is
    up                  \* FALSE once an assert or exit ended the process

flags    == <<Header_disponible, Header_valido, Noncecorrecto, terminaron>>
headers  == <<round, headernumber, Header_para_minar, Header_minado>>
payroll  == <<totalshares, transactions>>
members  == <<waiting_thread, RD>>
accepts  == <<j, main>>
locals   == <<header, headnum, share, cut>>
signals  == <<flag, catching>>
process  == <<up, overlapped>>
vars == <<lock, asleep, server, headers, flags, payroll, members, accepts,
          handler, mining, locals, signals, process>>

-----------------------------------------------------------------------------
(* Plausible bugs, each the mutated form of a definition below: the         *)
(* properties are checked to notice them.                                   *)

HeaderAlwaysReady    == TRUE                        \* Header_disponible not tested
AllDoneEarly(n)      == n >= Len(RD) - 1            \* one miner not awaited
NobodySignalled      == {}                          \* a signal forgotten
OnlyJoinersAwakened ==                              \* one of two broadcasts
    {p \in Miners : handler[p] = "joining" /\ waiting_thread}
PayBeforeCounting(p, n, total) ==                   \* totalshares++ comes too late
    transactions' = Append(transactions, [to |-> p, share |-> n, total |-> total - 1])
-----------------------------------------------------------------------------
LockFree == lock = "free"

\* the threads between their lock and their unlock
SInside == server \notin {"start", "wait", "ended"}
Inside  == {p \in Miners : handler[p] = "nonce"}

\* pthread_mutex_lock(&lock_x)
Enters ==
    /\ LockFree
    /\ overlapped' = (overlapped \/ SInside \/ Inside # {})

Goes(p, place) == handler' = [handler EXCEPT ![p] = place]

\* catch_int has closed the sockets of S and of every handler
Closed == catching # "none"

\* the miner is in getWU, which asks for a header ...
InGetWU(p) == handler[p] = "recv" /\ p \notin mining

\* ... or in dojob: it hashes, sends what it finds, and asks for the state, until
\* its nonce is taken or it learns of another's
InDojob(p) == handler[p] = "recv" /\ p \in mining

-----------------------------------------------------------------------------
(* serverandmempool.                                                        *)

\* while (flag), and what follows the loop
LoopOrEnd(owner) ==
    IF flag THEN server' = "fetch" /\ lock' = owner
            ELSE server' = "ended" /\ lock' = "free"

STakesLock ==
    /\ up /\ server = "start" /\ Enters
    /\ LoopOrEnd("S")
    /\ UNCHANGED <<asleep, headers, flags, payroll, members, accepts, handler,
                   mining, locals, signals, up>>

\* getcurrentheader, askmempool, buildblock
BuildBlock ==
    /\ up /\ server = "fetch" /\ round < MaxRounds /\ ~Closed
    /\ round' = round + 1
    /\ server' = "open"
    /\ UNCHANGED <<lock, asleep, headernumber, Header_para_minar, Header_minado,
                   flags, payroll, members, accepts, handler, mining, locals, signals, process>>

\* Header_valido = 0; Header_disponible = 1; miningpooltransactions.cantidad = 0
OpenRoundWith(payments) ==
    /\ up /\ server = "open"
    /\ Header_valido' = FALSE
    /\ Header_disponible' = TRUE
    /\ transactions' = payments
    /\ server' = "assign"
    /\ UNCHANGED <<lock, asleep, headers, Noncecorrecto, terminaron, totalshares,
                   members, accepts, handler, mining, locals, signals, process>>

OpenRoundKeepsPayments == OpenRoundWith(transactions)  \* a plausible bug
OpenRound              == OpenRoundWith(<<>>)

AssignHeader ==
    /\ up /\ server = "assign"
    /\ Header_para_minar' = round
    /\ server' = "reset"
    /\ UNCHANGED <<lock, asleep, round, headernumber, Header_minado, flags,
                   payroll, members, accepts, handler, mining, locals, signals, process>>

\* totalshares = 0; S.Noncecorrecto = 0; terminaron = 0
ResetRoundTo(total) ==
    /\ up /\ server = "reset"
    /\ totalshares' = total
    /\ Noncecorrecto' = FALSE
    /\ terminaron' = 0
    /\ server' = "wake"
    /\ UNCHANGED <<lock, asleep, headers, Header_disponible, Header_valido,
                   transactions, members, accepts, handler, mining, locals, signals, process>>

ResetRoundKeepsShares == ResetRoundTo(totalshares)  \* a plausible bug
ResetRound            == ResetRoundTo(0)

\* the two broadcasts
Awakened ==
    {p \in Miners : \/ handler[p] = "awaiting"
                    \/ handler[p] = "joining" /\ waiting_thread}

WakeMiners ==
    /\ up /\ server = "wake"
    /\ asleep' = asleep \ Awakened
    /\ waiting_thread' = FALSE
    /\ server' = "check"
    /\ UNCHANGED <<lock, headers, flags, payroll, RD, accepts, handler, mining,
                   locals, signals, process>>

\* while (!Header_valido && flag) ...: lock_x is taken anew after "wait"
AwaitMiners ==
    /\ up
    /\ \/ server = "check" /\ UNCHANGED <<lock, overlapped>>
       \/ server = "wait" /\ "S" \notin asleep /\ Enters /\ lock' = "S"
    /\ server' = IF Header_valido \/ ~flag THEN "submit" ELSE "sleep"
    /\ UNCHANGED <<asleep, headers, flags, payroll, members, accepts, handler,
                   mining, locals, signals, up>>

\* ... pthread_cond_wait(&cond_Header_valido, &lock_x)
FallAsleep ==
    /\ up /\ server = "sleep"
    /\ lock' = "free"
    /\ server' = "wait"
    /\ asleep' = asleep \cup {"S"}
    /\ UNCHANGED <<headers, flags, payroll, members, accepts, handler, mining,
                   locals, signals, process>>

\* sendblock: the central server rejects the block ...
BlockRejected ==
    /\ up /\ server = "submit" /\ ~Closed
    /\ LoopOrEnd(lock)
    /\ UNCHANGED <<asleep, headers, flags, payroll, members, accepts, handler,
                   mining, locals, signals, process>>

\* ... or adds it
BlockValidated ==
    /\ up /\ server = "submit" /\ ~Closed
    /\ server' = "pay"
    /\ UNCHANGED <<lock, asleep, headers, flags, payroll, members, accepts,
                   handler, mining, locals, signals, process>>

\* sendpay2miners; headernumber++
PayMiners ==
    /\ up /\ server = "pay" /\ ~Closed
    /\ headernumber' = headernumber + 1
    /\ LoopOrEnd(lock)
    /\ UNCHANGED <<asleep, round, Header_para_minar, Header_minado, flags,
                   payroll, members, accepts, handler, mining, locals, signals, process>>

\* controlsend asserts that the socket took the message
ServerAborts ==
    /\ up /\ server \in {"fetch", "submit", "pay"} /\ Closed
    /\ up' = FALSE
    /\ UNCHANGED <<lock, asleep, server, headers, flags, payroll, members,
                   accepts, handler, mining, locals, signals, overlapped>>

\* the central server or the mempool ends, or answers with a message of another
\* type: controlrecv asserts, and what expects a header or a block exits
PeerFails ==
    /\ up /\ server \in {"fetch", "submit", "pay"}
    /\ up' = FALSE
    /\ UNCHANGED <<lock, asleep, server, headers, flags, payroll, members,
                   accepts, handler, mining, locals, signals, overlapped>>

-----------------------------------------------------------------------------
(* catch_int.                                                               *)

SignalStep == UNCHANGED <<lock, server, headers, Header_disponible, Noncecorrecto,
                          terminaron, payroll, members, accepts, handler, mining,
                          locals, process>>

\* the sockets numbered 4 to 14 are closed: those of S and of the miners
CloseSockets ==
    /\ up /\ Interruptible /\ catching = "none"
    /\ catching' = "flag"
    /\ SignalStep /\ UNCHANGED <<asleep, flag, Header_valido>>

ClearFlag ==
    /\ up /\ catching = "flag"
    /\ flag' = FALSE
    /\ catching' = "signal"
    /\ SignalStep /\ UNCHANGED <<asleep, Header_valido>>

\* pthread_cond_signal(&cond_Header_valido): only S waits for it
Signalled == {"S"}

SignalServer ==
    /\ up /\ catching = "signal"
    /\ asleep' = asleep \ Signalled
    /\ catching' = "valid"
    /\ SignalStep /\ UNCHANGED <<flag, Header_valido>>

SetValido ==
    /\ up /\ catching = "valid"
    /\ Header_valido' = TRUE
    /\ catching' = "done"
    /\ SignalStep /\ UNCHANGED <<asleep, flag>>

-----------------------------------------------------------------------------
(* main.                                                                    *)

\* accept, the exchange of IDs, pthread_create.  After an interrupt main stays in
\* accept; a miner that connects then, and takes a closed socket's number, is left
\* out.
AcceptMiner(p) ==
    /\ up /\ main = "accept" /\ handler[p] = "none" /\ ~Closed
    /\ Goes(p, "start")
    /\ main' = "count"
    /\ UNCHANGED <<lock, asleep, server, headers, flags, payroll, members, j,
                   mining, locals, signals, process>>

\* j++, without the lock: lost if a handler's j-- reads j before and stores after;
\* and while (flag && (j <= MAX_THREADS)), after which main joins the threads
CountMiner ==
    /\ up /\ main = "count"
    /\ \/ j' = j + 1
       \/ (\E p \in Miners : handler[p] = "leaving") /\ UNCHANGED j
    /\ main' = IF flag /\ j' <= MaxThreads THEN "accept" ELSE "join"
    /\ UNCHANGED <<lock, asleep, server, headers, flags, payroll, members,
                   handler, mining, locals, signals, process>>

-----------------------------------------------------------------------------
(* Minerhandle.                                                             *)

\* while (flag), and what follows the loop
Serves(p) == Goes(p, IF flag THEN "recv" ELSE "gone")

Register(p) ==
    /\ RD' = Append(RD, p)
    /\ Serves(p)

\* if (j != 1) wait for the end of the round; RD.addthread
JoinPool(p) ==
    /\ up /\ handler[p] = "start" /\ Enters
    /\ IF j # 1
       THEN /\ waiting_thread' = TRUE
            /\ asleep' = asleep \cup {p}
            /\ Goes(p, "joining")
            /\ UNCHANGED RD
       ELSE Register(p) /\ UNCHANGED <<waiting_thread, asleep>>
    /\ UNCHANGED <<lock, server, headers, flags, payroll, accepts, mining,
                   locals, signals, up>>

\* woken by cond_waiting_thread
EndJoin(p) ==
    /\ up /\ handler[p] = "joining" /\ p \notin asleep /\ Enters
    /\ IF waiting_thread
       THEN asleep' = asleep \cup {p} /\ UNCHANGED <<RD, handler>>
       ELSE Register(p) /\ UNCHANGED asleep
    /\ UNCHANGED <<lock, server, headers, flags, payroll, waiting_thread,
                   accepts, mining, locals, signals, up>>

HeaderReady == Header_disponible

\* requestedheader up to its unlock: while (!Header_disponible) wait
RequestedHeader(p) ==
    /\ up /\ Enters
    /\ \/ InGetWU(p)
       \/ handler[p] = "awaiting" /\ p \notin asleep
    /\ IF HeaderReady
       THEN /\ header' = [header EXCEPT ![p] = Header_para_minar]
            /\ headnum' = [headnum EXCEPT ![p] = headernumber]
            /\ Goes(p, "serve")
            /\ UNCHANGED asleep
       ELSE /\ asleep' = asleep \cup {p}
            /\ Goes(p, "awaiting")
            /\ UNCHANGED <<header, headnum>>
    /\ UNCHANGED <<lock, server, headers, flags, payroll, members, accepts,
                   mining, share, cut, signals, up>>

Place(p) == CHOOSE i \in 0..(Len(RD) - 1) : RD[i + 1] = p

\* ... and after it: its nonces are cut and the header is sent, the miner's shares
\* start from 0
ServeHeader(p) ==
    /\ up /\ handler[p] = "serve" /\ ~Closed
    /\ cut' = [cut EXCEPT ![p] = [index |-> Place(p), size |-> Len(RD)]]
    /\ share' = [share EXCEPT ![p] = 0]
    /\ mining' = mining \cup {p}
    /\ Goes(p, "loop")
    /\ UNCHANGED <<lock, asleep, server, headers, flags, payroll, members,
                   accepts, header, headnum, signals, process>>

\* payminer: n shares of total
PayMiner(p, n, total) ==
    transactions' = Append(transactions, [to |-> p, share |-> n, total |-> total])

AllDone(n) == n = Len(RD)

Uncut == [index |-> 0, size |-> 1]

Idles(p) ==
    /\ mining' = mining \ {p}
    /\ cut' = [cut EXCEPT ![p] = Uncut]

\* terminaron++; the last miner wakes S
MinerIsDone(p) ==
    /\ terminaron' = terminaron + 1
    /\ IF AllDone(terminaron + 1)
       THEN Header_valido' = TRUE /\ asleep' = asleep \ Signalled
       ELSE UNCHANGED <<Header_valido, asleep>>
    /\ Idles(p)
    /\ Goes(p, "loop")

\* Nonce_Was_Found
ToldFound(p) ==
    /\ MinerIsDone(p)
    /\ PayMiner(p, share[p], totalshares)
    /\ UNCHANGED <<lock, server, headers, Header_disponible, Noncecorrecto,
                   totalshares, members, accepts, header, headnum, share,
                   signals, up>>

RequestedState(p) ==
    /\ up /\ InDojob(p) /\ Enters /\ ~Closed
    /\ IF Noncecorrecto
       THEN ToldFound(p)
       ELSE /\ Goes(p, "loop")
            /\ UNCHANGED <<lock, asleep, server, headers, flags, payroll, members,
                           accepts, mining, locals, signals, up>>

\* gotshare: share++ ...
GotShare(p) ==
    /\ up /\ InDojob(p) /\ share[p] < MaxShares /\ ~Closed
    /\ share' = [share EXCEPT ![p] = @ + 1]
    /\ Goes(p, "count")
    /\ UNCHANGED <<lock, asleep, server, headers, flags, payroll, members,
                   accepts, mining, header, headnum, cut, signals, process>>

\* ... and totalshares++ under the lock
CountShare(p) ==
    /\ up /\ handler[p] = "count" /\ Enters
    /\ totalshares' = totalshares + 1
    /\ Goes(p, "loop")
    /\ UNCHANGED <<lock, asleep, server, headers, flags, transactions, members,
                   accepts, mining, locals, signals, up>>

\* gotnonce: the first nonce for the current header is asked for
GotNonce(p) ==
    /\ up /\ InDojob(p) /\ Enters /\ ~Closed
    /\ IF ~Noncecorrecto /\ headernumber = headnum[p]
       THEN /\ lock' = p
            /\ Goes(p, "nonce")
            /\ UNCHANGED <<asleep, server, headers, flags, payroll, members,
                           accepts, mining, locals, signals, up>>
       ELSE ToldFound(p)

\* ... and received, with lock_x held
RecvNonce(p) ==
    /\ up /\ handler[p] = "nonce"
    /\ Header_minado' = header[p]
    /\ Noncecorrecto' = TRUE
    /\ Header_disponible' = FALSE
    /\ share' = [share EXCEPT ![p] = @ + 1]
    /\ totalshares' = totalshares + 1
    /\ PayMiner(p, share[p] + 1, totalshares + 1)
    /\ MinerIsDone(p)
    /\ lock' = "free"
    /\ UNCHANGED <<server, round, headernumber, Header_para_minar, members,
                   accepts, header, headnum, signals, process>>

\* pthread_mutex_unlock(&lock_x) at line 166, whoever holds it, and around the loop
EndRequest(p) ==
    /\ up /\ handler[p] = "loop"
    /\ lock' = "free"
    /\ Serves(p)
    /\ IF flag THEN UNCHANGED <<mining, cut>> ELSE Idles(p)
    /\ UNCHANGED <<asleep, server, headers, flags, payroll, members, accepts,
                   header, headnum, share, signals, process>>

\* a miner disconnects between two requests, or its socket was closed ...
SeesEof(p) ==
    /\ up /\ handler[p] = "recv" /\ (p \in Leavers \/ Closed)
    /\ Goes(p, "leaving")
    /\ UNCHANGED <<lock, asleep, server, headers, flags, payroll, members,
                   accepts, mining, locals, signals, process>>

\* ... j-- and RD.deletethread, without the lock: j-- is lost if another update
\* of j is under way
Depart(p) ==
    /\ up /\ handler[p] = "leaving"
    /\ \/ j' = j - 1
       \/ /\ main = "count" \/ \E q \in Miners \ {p} : handler[q] = "leaving"
          /\ UNCHANGED j
    /\ RD' = SelectSeq(RD, LAMBDA q : q # p)
    /\ Idles(p)
    /\ Goes(p, "gone")
    /\ UNCHANGED <<lock, asleep, server, headers, flags, payroll, waiting_thread,
                   main, header, headnum, share, signals, process>>

\* ... or when asked for its nonce or its share: recvMsg leaves msg as it was and
\* getHeader asserts on the type of the control message just sent.  A handler
\* whose socket was closed fails to send, and asserts too.
DiesAsked(p) ==
    /\ up
    /\ \/ (handler[p] = "nonce" \/ InDojob(p)) /\ (p \in Leavers \/ Closed)
       \/ handler[p] = "serve" /\ Closed
    /\ up' = FALSE
    /\ UNCHANGED <<lock, asleep, server, headers, flags, payroll, members,
                   accepts, handler, mining, locals, signals, overlapped>>

\* POSIX lets pthread_cond_wait return without a signal
SpuriousWakeup(t) ==
    /\ up /\ t \in asleep
    /\ asleep' = asleep \ {t}
    /\ UNCHANGED <<lock, server, headers, flags, payroll, members, accepts,
                   handler, mining, locals, signals, process>>

-----------------------------------------------------------------------------
Init ==
    /\ lock = "free"
    /\ overlapped = FALSE
    /\ asleep = {}
    /\ server = "start"
    /\ round = 0
    /\ headernumber = 0
    /\ Header_disponible = FALSE
    /\ Header_valido = FALSE
    /\ Header_para_minar = 0
    /\ Header_minado = 0
    /\ Noncecorrecto = FALSE
    /\ terminaron = 0
    /\ totalshares = 0
    /\ transactions = <<>>
    /\ waiting_thread = FALSE
    /\ RD = <<>>
    /\ j = 0
    /\ main = "accept"
    /\ handler = [p \in Miners |-> "none"]
    /\ mining = {}
    /\ header = [p \in Miners |-> 0]
    /\ headnum = [p \in Miners |-> 0]
    /\ share = [p \in Miners |-> 0]
    /\ cut = [p \in Miners |-> Uncut]
    /\ flag = TRUE
    /\ catching = "none"
    /\ up = TRUE

Server ==
    \/ STakesLock \/ BuildBlock \/ OpenRound \/ AssignHeader \/ ResetRound
    \/ WakeMiners \/ AwaitMiners \/ FallAsleep \/ BlockRejected
    \/ BlockValidated \/ PayMiners \/ ServerAborts

CatchInt == ClearFlag \/ SignalServer \/ SetValido

Main ==
    \/ CountMiner
    \/ \E p \in Miners : AcceptMiner(p)

Handler(p) ==
    \/ JoinPool(p) \/ EndJoin(p)
    \/ RequestedHeader(p) \/ ServeHeader(p)
    \/ RequestedState(p)
    \/ GotShare(p) \/ CountShare(p)
    \/ GotNonce(p) \/ RecvNonce(p)
    \/ EndRequest(p)
    \/ SeesEof(p) \/ Depart(p) \/ DiesAsked(p)

Next ==
    \/ Server
    \/ PeerFails
    \/ CloseSockets
    \/ CatchInt
    \/ Main
    \/ \E p \in Miners : Handler(p)
    \/ \E t \in Miners \cup {"S"} : SpuriousWakeup(t)

Spec == Init /\ [][Next]_vars

\* What a handler does whatever its miner chooses to send, and the question that
\* a miner asks after every 200 hashes, whatever it finds.
Runs(p) ==
    \/ JoinPool(p) \/ EndJoin(p)
    \/ RequestedHeader(p) \/ ServeHeader(p)
    \/ CountShare(p) \/ RecvNonce(p)
    \/ EndRequest(p) \/ Depart(p)
    \/ RequestedState(p)

\* The scheduler runs every thread that can run, and a handler that asks for
\* lock_x again and again gets it, even when S is woken for nothing as often.
\* What a miner finds, and whether it leaves, is up to it.
Fairness ==
    /\ WF_vars(Server)
    /\ WF_vars(CatchInt)
    /\ WF_vars(CountMiner)
    /\ \A p \in Miners : SF_vars(Runs(p))

FairSpec == Spec /\ Fairness
-----------------------------------------------------------------------------
(* Properties.                                                              *)

Threads == Miners \cup {"S"}

ServerPlaces  == {"start", "fetch", "open", "assign", "reset", "wake", "check",
                  "sleep", "wait", "submit", "pay", "ended"}
HandlerPlaces == {"none", "start", "joining", "recv", "awaiting", "serve", "count",
                  "nonce", "loop", "leaving", "gone"}

\* the globals that outlive a round ...
SharedTyped ==
    /\ lock \in Threads \cup {"free"}
    /\ asleep \subseteq Threads
    /\ server \in ServerPlaces
    /\ waiting_thread \in BOOLEAN
    /\ RD \in Seq(Miners)
    /\ j \in Int
    /\ main \in {"accept", "count", "join"}
    /\ flag \in BOOLEAN
    /\ catching \in {"none", "flag", "signal", "valid", "done"}
    /\ up \in BOOLEAN

\* ... those of a round ...
RoundTyped ==
    /\ round \in 0..MaxRounds
    /\ headernumber \in Nat
    /\ Header_disponible \in BOOLEAN
    /\ Header_valido \in BOOLEAN
    /\ Header_para_minar \in 0..MaxRounds
    /\ Header_minado \in 0..MaxRounds
    /\ Noncecorrecto \in BOOLEAN
    /\ terminaron \in Nat
    /\ totalshares \in Nat
    /\ transactions \in Seq([to : Miners, share : Nat, total : Nat])

\* ... and the handlers' locals
LocalsTyped ==
    /\ handler \in [Miners -> HandlerPlaces]
    /\ mining \subseteq Miners
    /\ header \in [Miners -> 0..MaxRounds]
    /\ headnum \in [Miners -> Nat]
    /\ share \in [Miners -> Nat]
    /\ cut \in [Miners -> [index : Nat, size : Nat \ {0}]]
    /\ \A p \in Miners : cut[p].index < cut[p].size

Typed == SharedTyped /\ RoundTyped /\ LocalsTyped

\* Every global and every local of a handler holds a value of its C++ type, no
\* miner is registered twice, and the payments of a round fit in an array with an
\* entry for each miner.
TypeOK ==
    /\ Typed
    /\ overlapped \in BOOLEAN
    /\ Len(RD) = Cardinality(ToSet(RD))
    /\ ~overlapped => Len(transactions) <= Cardinality(Miners)

\* Until two threads overlap, S moves on to another round only when no miner is at
\* work on the last one or has just been given its header, although it only counts
\* acknowledgements and miners join at any time.
RoundBarrier ==
    ~overlapped /\ server \in {"submit", "pay", "fetch", "open", "assign", "reset"} =>
        /\ mining = {}
        /\ \A p \in Miners : handler[p] # "serve"

\* The nonce S puts in the block it submits was found for that block's header,
\* until two threads overlap.
NonceIsCurrent ==
    ~overlapped /\ server \in {"submit", "pay"} => Noncecorrecto /\ Header_minado = round

\* When S submits the block, and pays, the payments of the round name each miner
\* that was sent its header once, and nobody else, until two threads overlap.
EveryMinerPaidOnce ==
    ~overlapped /\ server \in {"submit", "pay"} =>
        \A p \in Miners :
            Cardinality({i \in 1..Len(transactions) : transactions[i].to = p})
                = IF header[p] = round THEN 1 ELSE 0

Current == {p \in Miners : header[p] = Header_para_minar /\ handler[p] # "serve"}

\* totalshares is the sum of the shares of the miners on the current header, but
\* for those still waiting for the lock to be counted, until two threads overlap.
SharesAddUp ==
    ~overlapped /\ server # "reset" =>
        MapThenSumSet(LAMBDA p : share[p], Current)
            = totalshares + Cardinality({p \in Miners : handler[p] = "count"})

\* payminer divides by a total that is not 0, and by at least all the shares paid
\* for so far: payments made from one total are no more than the block together,
\* until two threads overlap.
PaymentsAreBacked ==
    ~overlapped => \A n \in 1..Len(transactions) :
        LET shares == [i \in 1..Len(transactions) |-> transactions[i].share]
            paid   == MapThenSumSet(LAMBDA i : shares[i], 1..n)
        IN  /\ transactions[n].total > 0
            /\ paid <= transactions[n].total

\* Two miners that were cut the nonces of one header among as many miners have
\* none in common, although they take the header at different times.  When a
\* miner joins in between, the second cut is among more.
RangesAreDisjoint ==
    \A p, q \in mining :
        p # q /\ header[p] = header[q] /\ cut[p].size = cut[q].size =>
            Share(cut[p].index, cut[p].size) \cap Share(cut[q].index, cut[q].size) = {}

\* Once every miner holds the current header, a nonce that was found reaches S,
\* unless a miner leaves, an interrupt comes or two threads overlap.
NonceOfAllIsSubmitted ==
    Noncecorrecto /\ server = "wait" /\ ToSet(RD) = Miners /\ Current = Miners
        ~> server = "submit" \/ ToSet(RD) # Miners \/ Closed \/ ~up \/ overlapped

\* Nobody sleeps past what it waits for: a handler that asked for a header, while
\* there is one, sleeps only until S broadcasts; one that joins, only while S is
\* still to clear waiting_thread; and S only while the miners are not done, but for
\* an interrupt.  The flags are set and the signals sent by other threads than
\* those that test and sleep, which is safe until two overlap.
NoWakeupIsLost ==
    ~overlapped =>
        /\ \A p \in asleep \ {"S"} :
              /\ handler[p] = "awaiting" =>
                    ~Header_disponible \/ server \in {"assign", "reset", "wake"}
              /\ handler[p] = "joining" => waiting_thread
        /\ "S" \in asleep => (~Header_valido /\ flag) \/ Closed

\* An interrupt ends S, or the process by an assertion, whatever S is doing when
\* it is signalled, unless S has read flag and is about to sleep: Header_valido
\* is set after the signal, so that S then sleeps on.  Or two threads overlap.
InterruptIsNoticed ==
    catching = "signal" /\ server # "sleep" ~> server = "ended" \/ ~up \/ overlapped

\* Mining_pool.hpp:19-20, "Mutex para variables globales": one thread at a time
\* is between its lock and its unlock.
MutualExclusion ==
    \A p \in Miners :
        handler[p] = "nonce" =>
            /\ server \in {"start", "wait"}
            /\ \A q \in Miners \ {p} : handler[q] # "nonce"

\* MPserver.cpp:72-76, S waits until the handlers tell it a block was mined.
SubmittedIsMined == server = "submit" => Noncecorrecto

\* Mining_pool.hpp:33-37, a condition variable and a flag tell the thread of the
\* central server and the mempool that a valid block was found.
NonceIsReported == Noncecorrecto /\ server = "wait" ~> Header_valido
=============================================================================
