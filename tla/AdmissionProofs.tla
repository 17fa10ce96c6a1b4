--------------------------- MODULE AdmissionProofs ---------------------------
(***************************************************************************)
(* Theorems about Admission, for any clients of which any may die, and any *)
(* limit of threads.                                                       *)
(*                                                                         *)
(* What the mempool and the mining pool give to a new thread is memory     *)
(* that main writes again for the next client.  The argument is that it    *)
(* only ever moves on to later clients, field by field, and names the      *)
(* thread's own when the thread is created.  The central server counts a   *)
(* place for each thread it makes for a pool, and only a client that died  *)
(* without a word can be taken for one.                                    *)
(***************************************************************************)
EXTENDS Admission, FiniteSetTheorems, TLAPS

\* When main has a client at hand, and when it has room.
MainInv ==
    /\ main = "recv" => newsockfd \in CentralClients
    /\ mainP # "accept" => sockP \in Miners
    /\ main # "join" => jC < MaxThreads

\* The memory of the mempool's main names the pool that came last.
MempoolInv ==
    /\ sockM # None => acceptedM # <<>> /\ sockM = acceptedM[Len(acceptedM)]
    /\ \A p \in Pools :
         /\ threadM[p] = "created" => NoEarlier(acceptedM, p, sockM)
         /\ threadM[p] = "serving" => NoEarlier(acceptedM, p, servedM[p])

\* The fields of the mining pool's structure name miners no earlier than those whose
\* threads have yet to read them.
PoolInv ==
    /\ mainP # "accept" => acceptedP # <<>> /\ sockP = acceptedP[Len(acceptedP)]
    /\ mainP = "store" => mdata.ID = sockP
    /\ \A m \in Miners :
         /\ threadP[m] = "created" => NoEarlier(acceptedP, m, mdata.ID)
         /\ threadP[m] \in {"created", "copying"} =>
              NoEarlier(acceptedP, m, mdata.minersocket)
         /\ threadP[m] \in {"copying", "serving"} => NoEarlier(acceptedP, m, argsP[m].ID)
         /\ threadP[m] = "serving" => NoEarlier(acceptedP, m, argsP[m].minersocket)

\* The threads made for pools.
Taken == {c \in CentralClients : role[c] = "pool"}

\* j counts them; who was not a pool died without a word.
PlaceInv ==
    /\ IsFiniteSet(dead)
    /\ IsFiniteSet(Taken) /\ Cardinality(Taken) = jC
    /\ Taken \subseteq Pools \cup (dead \ spoken)
    /\ main = "recv" => role[newsockfd] = "none"
    /\ \A c \in connected \cap CentralClients : role[c] = "none" /\ (main = "recv" => c # newsockfd)
    /\ main = "join" => jC >= MaxThreads

-----------------------------------------------------------------------------
(* Types.                                                                   *)

TypeInv == TypeOK /\ MainInv

LEMMA TypeKept ==
    ASSUME TypeInv, [Next]_vars
    PROVE  TypeInv'
<1> USE AdmissionAssumption DEF TypeInv, TypeOK, MainInv, Roles, Clients, CentralClients,
        clients, central, mempool, pool, record
<1>1. CASE \E c \in Clients : Connect(c)
  BY <1>1 DEF Connect, ClientStep
<1>2. CASE \E p \in Pools : ConnecttoMempool(p)
  BY <1>2 DEF ConnecttoMempool, ClientStep
<1>3. CASE \E c \in CentralClients : Speak(c)
  BY <1>3 DEF Speak, ClientStep
<1>12. CASE \E c \in Fickle : Die(c)
  BY <1>12 DEF Die, ClientStep
<1>4. CASE CentralAccept
  BY <1>4 DEF CentralAccept
<1>5. CASE CentralDispatch
  <2>1. newsockfd \in CentralClients /\ main = "recv" /\ jC < MaxThreads
    BY <1>5 DEF CentralDispatch
  <2>2. UNCHANGED <<connected, atMempool, spoken, dead, newsockfd, sockM, jM, threadM,
                    servedM, mainP, sockP, mdata, threadP, argsP, acceptedM, acceptedP>>
    BY <1>5 DEF CentralDispatch
  <2>3. ASSUME NEW k \in {"pool", "wallet", "mempool", "closed"}, Dispatch(k), UNCHANGED down
        PROVE  TypeInv'
    <3>1. /\ jC' \in {jC, jC + 1} /\ msg' = k
          /\ role' = [role EXCEPT ![newsockfd] = k]
      BY <2>3 DEF Dispatch
    <3>2. IF jC' < MaxThreads THEN main' = "accept" ELSE main' = "join"
      BY <2>3 DEF Dispatch, HasRoom
    <3>3. role' \in [CentralClients -> Roles]
      BY <2>1, <3>1
    <3>4. jC' \in 0..MaxThreads
      BY <2>1, <3>1
    <3> QED  BY <2>2, <2>3, <3>1, <3>2, <3>3, <3>4
  <2>4. Hears(newsockfd) \in {"pool", "wallet", "mempool", "closed", "uninitialized"}
    BY DEF Hears, Kind
  <2>5. CASE \E k \in {"pool", "wallet", "mempool", "closed"} : Dispatch(k) /\ UNCHANGED down
    BY <2>3, <2>5
  <2>6. CASE down' = down \cup {"central"} /\ UNCHANGED <<main, msg, role, jC>>
    BY <2>2, <2>6
  <2> QED  BY <1>5, <2>4, <2>5, <2>6 DEF CentralDispatch, Dispatch
<1>6. CASE MempoolAccept
  BY <1>6 DEF MempoolAccept
<1>7. CASE \E p \in Pools : MempoolThread(p)
  BY <1>7 DEF MempoolThread
<1>8. CASE PoolAccept
  BY <1>8 DEF PoolAccept
<1>9. CASE PoolHear \/ PoolCreate
  BY <1>9 DEF PoolHear, PoolCreate, StoredID
<1>10. ASSUME NEW m \in Miners, CopyID(m) \/ CopySocket(m)
       PROVE  TypeInv'
  <2>1. UNCHANGED <<connected, atMempool, spoken, dead, main, newsockfd, msg, role, jC, sockM,
                    jM, threadM, servedM, mainP, sockP, mdata, acceptedM, acceptedP, down>>
    BY <1>10 DEF CopyID, CopySocket
  <2>2. threadP' \in [Miners -> {"none", "created", "copying", "serving"}]
    BY <1>10 DEF CopyID, CopySocket
  <2>3. argsP' \in [Miners -> [ID : Miners \cup {None}, minersocket : Miners \cup {None}]]
    <3>1. mdata.ID \in Miners \cup {None} /\ mdata.minersocket \in Miners \cup {None}
      OBVIOUS
    <3>2. \/ argsP' = [argsP EXCEPT ![m].ID = mdata.ID]
          \/ argsP' = [argsP EXCEPT ![m].minersocket = mdata.minersocket]
      BY <1>10 DEF CopyID, CopySocket
    <3> QED  BY <3>1, <3>2
  <2> QED  BY <2>1, <2>2, <2>3
<1>11. CASE UNCHANGED vars
  BY <1>11 DEF vars
<1> QED  BY <1>1, <1>2, <1>3, <1>4, <1>5, <1>6, <1>7, <1>8, <1>9, <1>10, <1>11, <1>12
         DEF Next, CentralMain, PoolMain
-----------------------------------------------------------------------------
(* What threads are given.                                                  *)

LEMMA AppendKeepsOrder ==
    ASSUME NEW S, NEW s \in Seq(S), NEW x \in S, NEW a, NEW b, NoEarlier(s, a, b)
    PROVE  NoEarlier(Append(s, x), a, b)
<1>1. PICK i \in DOMAIN s, j \in DOMAIN s : i <= j /\ s[i] = a /\ s[j] = b
  BY DEF NoEarlier
<1>2. i \in DOMAIN Append(s, x) /\ j \in DOMAIN Append(s, x)
  OBVIOUS
<1>3. Append(s, x)[i] = a /\ Append(s, x)[j] = b
  BY <1>1
<1> QED  BY <1>1, <1>2, <1>3 DEF NoEarlier

LEMMA LastIsLatest ==
    ASSUME NEW S, NEW s \in Seq(S), s # <<>>, NEW a, NEW b, NoEarlier(s, a, b)
    PROVE  NoEarlier(s, a, s[Len(s)])
<1>1. PICK i \in DOMAIN s : s[i] = a
  BY DEF NoEarlier
<1>2. Len(s) \in DOMAIN s /\ i <= Len(s)
  OBVIOUS
<1> QED  BY <1>1, <1>2 DEF NoEarlier

LEMMA LastIsItself ==
    ASSUME NEW S, NEW s \in Seq(S), s # <<>>
    PROVE  NoEarlier(s, s[Len(s)], s[Len(s)])
<1>1. Len(s) \in DOMAIN s /\ Len(s) <= Len(s)
  OBVIOUS
<1> QED  BY <1>1 DEF NoEarlier

\* A pool's thread of the mempool reads newsockfd as main wrote it for the pool that
\* came last.
LEMMA MempoolKept ==
    ASSUME TypeInv, MempoolInv, [Next]_vars
    PROVE  MempoolInv'
<1> USE DEF TypeInv, TypeOK, MempoolInv, clients, central, mempool, pool, record
<1>1. CASE MempoolAccept
  <2>1. PICK p \in Pools : /\ threadM[p] = "none" /\ sockM' = p
                           /\ threadM' = [threadM EXCEPT ![p] = "created"]
                           /\ acceptedM' = Append(acceptedM, p)
    BY <1>1 DEF MempoolAccept
  <2>2. UNCHANGED servedM
    BY <1>1 DEF MempoolAccept
  <2>3. acceptedM' \in Seq(Pools) /\ acceptedM' # <<>> /\ acceptedM'[Len(acceptedM')] = p
    BY <2>1
  <2>4. NoEarlier(acceptedM', p, p)
    <3> DEFINE order == acceptedM'
    <3>1. order \in Seq(Pools) /\ order # <<>> /\ order[Len(order)] = p
      BY <2>3
    <3> HIDE DEF order
    <3>2. NoEarlier(order, order[Len(order)], order[Len(order)])
      BY <3>1, LastIsItself
    <3> QED  BY <3>1, <3>2 DEF order
  <2>5. ASSUME NEW q, NoEarlier(acceptedM', q, sockM)
        PROVE  NoEarlier(acceptedM', q, p)
    <3> DEFINE order == acceptedM'
    <3>1. order \in Seq(Pools) /\ order # <<>> /\ order[Len(order)] = p /\ NoEarlier(order, q, sockM)
      BY <2>3, <2>5
    <3> HIDE DEF order
    <3>2. NoEarlier(order, q, order[Len(order)])
      BY <3>1, LastIsLatest
    <3> QED  BY <3>1, <3>2 DEF order
  <2>6. ASSUME NEW q \in Pools, threadM'[q] = "created"
        PROVE  NoEarlier(acceptedM', q, sockM')
    <3>1. CASE q = p
      BY <2>1, <2>4, <3>1
    <3>2. CASE q # p
      <4>1. NoEarlier(acceptedM, q, sockM)
        BY <2>1, <2>6, <3>2
      <4>2. NoEarlier(acceptedM', q, sockM)
        BY <2>1, <4>1, AppendKeepsOrder
      <4> QED  BY <2>1, <2>5, <4>2
    <3> QED  BY <3>1, <3>2
  <2>7. ASSUME NEW q \in Pools, threadM'[q] = "serving"
        PROVE  NoEarlier(acceptedM', q, servedM'[q])
    <3>1. NoEarlier(acceptedM, q, servedM[q])
      BY <2>1, <2>7
    <3>2. NoEarlier(acceptedM', q, servedM[q])
      BY <2>1, <3>1, AppendKeepsOrder
    <3> QED  BY <2>2, <3>2
  <2> QED  BY <2>1, <2>3, <2>6, <2>7
<1>2. CASE \E p \in Pools : MempoolThread(p)
  BY <1>2 DEF MempoolThread
<1>3. CASE UNCHANGED <<mempool, acceptedM>>
  BY <1>3
<1>4. CASE \/ \E c \in Clients : Connect(c)
           \/ \E p \in Pools : ConnecttoMempool(p)
           \/ \E c \in CentralClients : Speak(c)
           \/ \E c \in Fickle : Die(c)
           \/ CentralMain \/ PoolMain
           \/ \E m \in Miners : CopyID(m) \/ CopySocket(m)
           \/ UNCHANGED vars
  BY <1>3, <1>4 DEF Connect, ConnecttoMempool, Speak, Die, ClientStep, CentralMain, PoolMain,
     CentralAccept, CentralDispatch, PoolAccept, PoolHear, PoolCreate, CopyID, CopySocket, vars
<1> QED  BY <1>1, <1>2, <1>4 DEF Next

LEMMA PoolKept ==
    ASSUME TypeInv, PoolInv, [Next]_vars
    PROVE  PoolInv'
<1> USE DEF TypeInv, TypeOK, MainInv, PoolInv, clients, central, mempool, pool, record
<1>1. CASE PoolAccept
  <2>1. PICK m \in Miners : sockP' = m /\ acceptedP' = Append(acceptedP, m)
    BY <1>1 DEF PoolAccept, Clients
  <2>2. mainP' = "recv" /\ UNCHANGED <<mdata, threadP, argsP>>
    BY <1>1 DEF PoolAccept
  <2>3. acceptedP' # <<>> /\ acceptedP'[Len(acceptedP')] = m
    BY <2>1
  <2>4. \A a, b : NoEarlier(acceptedP, a, b) => NoEarlier(acceptedP', a, b)
    BY <2>1, AppendKeepsOrder
  <2> QED  BY <2>1, <2>2, <2>3, <2>4
<1>2. CASE PoolHear
  <2>1. mainP = "recv" /\ UNCHANGED <<sockP, threadP, argsP, acceptedP>>
    BY <1>2 DEF PoolHear
  <2>2. CASE mdata' = [mdata EXCEPT !.ID = sockP] /\ mainP' = "store"
    <3>1. mdata'.ID = sockP /\ mdata'.minersocket = mdata.minersocket
      BY <2>2
    <3>2. ASSUME NEW m \in Miners, threadP[m] = "created"
          PROVE  NoEarlier(acceptedP, m, sockP)
      BY <2>1, <3>2, LastIsLatest
    <3> QED  BY <2>1, <2>2, <3>1, <3>2
  <2>3. CASE UNCHANGED mdata /\ mainP' \in {"accept", "recv"}
    BY <2>1, <2>3
  <2> QED  BY <1>2, <2>1, <2>2, <2>3 DEF PoolHear, StoredID
<1>3. CASE PoolCreate
  <2>1. /\ mainP = "store" /\ mainP' = "accept" /\ sockP \in Miners
        /\ mdata' = [mdata EXCEPT !.minersocket = sockP]
        /\ threadP' = [threadP EXCEPT ![sockP] = "created"]
        /\ UNCHANGED <<argsP, acceptedP>>
    BY <1>3 DEF PoolCreate
  <2>2. mdata' = [ID |-> sockP, minersocket |-> sockP] /\ mdata.ID = sockP
    BY <2>1
  <2>3. NoEarlier(acceptedP, sockP, sockP)
    BY <2>1, LastIsItself
  <2>4. ASSUME NEW m \in Miners, threadP[m] \in {"created", "copying"}
        PROVE  NoEarlier(acceptedP, m, sockP)
    BY <2>1, <2>4, LastIsLatest
  <2> QED  BY <2>1, <2>2, <2>3, <2>4
<1>4. ASSUME NEW m \in Miners, CopyID(m)
      PROVE  PoolInv'
  <2>1. /\ threadP[m] = "created" /\ threadP' = [threadP EXCEPT ![m] = "copying"]
        /\ argsP' = [argsP EXCEPT ![m].ID = mdata.ID]
        /\ UNCHANGED <<mainP, sockP, mdata, acceptedP>>
    BY <1>4 DEF CopyID
  <2>2. argsP'[m].ID = mdata.ID /\ \A q \in Miners \ {m} : argsP'[q] = argsP[q]
    BY <2>1
  <2> QED  BY <2>1, <2>2
<1>5. ASSUME NEW m \in Miners, CopySocket(m)
      PROVE  PoolInv'
  <2>1. /\ threadP[m] = "copying" /\ threadP' = [threadP EXCEPT ![m] = "serving"]
        /\ argsP' = [argsP EXCEPT ![m].minersocket = mdata.minersocket]
        /\ UNCHANGED <<mainP, sockP, mdata, acceptedP>>
    BY <1>5 DEF CopySocket
  <2>2. /\ argsP'[m] = [ID |-> argsP[m].ID, minersocket |-> mdata.minersocket]
        /\ \A q \in Miners \ {m} : argsP'[q] = argsP[q]
    BY <2>1
  <2> QED  BY <2>1, <2>2
<1>6. CASE UNCHANGED <<pool, acceptedP>>
  BY <1>6
<1>7. CASE \/ \E c \in Clients : Connect(c)
           \/ \E p \in Pools : ConnecttoMempool(p)
           \/ \E c \in CentralClients : Speak(c)
           \/ \E c \in Fickle : Die(c)
           \/ CentralMain \/ MempoolAccept
           \/ \E p \in Pools : MempoolThread(p)
           \/ UNCHANGED vars
  BY <1>6, <1>7 DEF Connect, ConnecttoMempool, Speak, Die, ClientStep, CentralMain,
     CentralAccept, CentralDispatch, MempoolAccept, MempoolThread, vars
<1> QED  BY <1>1, <1>2, <1>3, <1>4, <1>5, <1>7 DEF Next, PoolMain
-----------------------------------------------------------------------------
(* What clients are taken for.                                              *)

LEMMA PlacesCounted ==
    ASSUME TypeInv, PlaceInv, [Next]_vars
    PROVE  PlaceInv'
<1> USE DEF TypeInv, TypeOK, MainInv, PlaceInv, clients, central, mempool, pool, record
<1>1. CASE CentralDispatch
  <2>1. /\ newsockfd \in CentralClients /\ newsockfd \in spoken \cup dead
        /\ main = "recv" /\ role[newsockfd] = "none"
    BY <1>1 DEF CentralDispatch
  <2>2. UNCHANGED <<spoken, dead, connected, newsockfd>>
    BY <1>1 DEF CentralDispatch
  <2>3. ASSUME NEW k \in {"pool", "wallet", "mempool", "closed"}, Dispatch(k),
               k = "pool" => newsockfd \in Pools \cup (dead \ spoken)
        PROVE  PlaceInv'
    <3>1. role' = [role EXCEPT ![newsockfd] = k] /\ main' \in {"accept", "join"}
      BY <2>3 DEF Dispatch
    <3>2. Taken' = IF k = "pool" THEN Taken \cup {newsockfd} ELSE Taken
      BY <2>1, <3>1 DEF Taken
    <3>3. newsockfd \notin Taken
      BY <2>1 DEF Taken
    <3>4. jC' = IF k = "pool" THEN jC + 1 ELSE jC
      BY <2>3 DEF Dispatch, Counts
    <3>5. IsFiniteSet(Taken') /\ Cardinality(Taken') = jC'
      BY <3>2, <3>3, <3>4, FS_AddElement
    <3>6. main' = "join" => jC' >= MaxThreads
      BY <2>3, <3>4, AdmissionAssumption DEF Dispatch, HasRoom
    <3>7. Taken' \subseteq Pools \cup (dead \ spoken)
      BY <2>3, <3>2
    <3>8. \A c \in connected \cap CentralClients : role'[c] = "none"
      BY <2>1, <3>1
    <3> QED  BY <2>2, <3>1, <3>5, <3>6, <3>7, <3>8
  <2>4. CASE newsockfd \in spoken
    <3>1. Hears(newsockfd) = Kind(newsockfd) /\ Kind(newsockfd) \in {"pool", "wallet", "mempool"}
      BY <2>4 DEF Hears, Kind
    <3>2. Kind(newsockfd) = "pool" => newsockfd \in Pools
      BY DEF Kind
    <3>3. Dispatch(Kind(newsockfd))
      BY <1>1, <3>1 DEF CentralDispatch
    <3> QED  BY <2>3, <3>1, <3>2, <3>3
  <2>5. CASE newsockfd \in dead \ spoken
    <3>1. \/ \E k \in {"pool", "wallet", "mempool", "closed"} : Dispatch(k)
          \/ UNCHANGED <<main, msg, role, jC>>
      BY <1>1, <2>5 DEF CentralDispatch, Hears, Roles
    <3>2. CASE UNCHANGED <<main, msg, role, jC>>
      BY <2>2, <3>2 DEF Taken
    <3> QED  BY <2>3, <2>5, <3>1, <3>2
  <2> QED  BY <2>1, <2>4, <2>5
<1>2. CASE CentralAccept
  <2>1. PICK c \in connected \cap CentralClients : newsockfd' = c /\ connected' = connected \ {c}
    BY <1>2 DEF CentralAccept
  <2>2. main' = "recv" /\ UNCHANGED <<dead, spoken, role, jC>>
    BY <1>2 DEF CentralAccept
  <2> QED  BY <2>1, <2>2 DEF Taken
<1>3. ASSUME UNCHANGED <<main, newsockfd, role, jC>>, IsFiniteSet(dead'), dead \subseteq dead',
             \A c \in spoken' \ spoken : c \in connected \/ c = newsockfd,
             \A c \in spoken' \ spoken : c \notin dead,
             \A c \in connected' \ connected : c \in CentralClients => c # newsockfd /\ role[c] = "none"
      PROVE  PlaceInv'
  BY <1>3 DEF Taken
<1>4. CASE \E c \in Clients : Connect(c)
  BY <1>3, <1>4 DEF Connect, ClientStep
<1>5. CASE \E c \in CentralClients : Speak(c)
  BY <1>3, <1>5 DEF Speak, ClientStep
<1>6. CASE \E c \in Fickle : Die(c)
  BY <1>3, <1>6, FS_AddElement DEF Die, ClientStep
<1>7. CASE \/ \E p \in Pools : ConnecttoMempool(p)
           \/ MempoolAccept \/ PoolMain
           \/ \E p \in Pools : MempoolThread(p)
           \/ \E m \in Miners : CopyID(m) \/ CopySocket(m)
           \/ UNCHANGED vars
  BY <1>3, <1>7 DEF ConnecttoMempool, ClientStep, MempoolAccept,
     PoolMain, PoolAccept, PoolHear, PoolCreate, MempoolThread, CopyID, CopySocket, vars
<1> QED  BY <1>1, <1>2, <1>4, <1>5, <1>6, <1>7 DEF Next, CentralMain
-----------------------------------------------------------------------------
IInv == TypeInv /\ MempoolInv /\ PoolInv /\ PlaceInv

LEMMA Invariant == Spec => []IInv
<1>1. ASSUME Init  PROVE IInv
  <2>1. TypeInv
    BY <1>1, AdmissionAssumption DEF Init, TypeInv, TypeOK, MainInv, Roles, NoArgs
  <2>2. MempoolInv /\ PoolInv
    BY <1>1 DEF Init, MempoolInv, PoolInv
  <2>3. Taken = {} /\ dead = {}
    BY <1>1 DEF Init, Taken
  <2>4. PlaceInv
    BY <1>1, <2>3, FS_EmptySet DEF Init, PlaceInv
  <2> QED  BY <2>1, <2>2, <2>4 DEF IInv
<1>2. IInv /\ [Next]_vars => IInv'
  BY TypeKept, MempoolKept, PoolKept, PlacesCounted DEF IInv
<1> QED  BY <1>1, <1>2, PTL DEF Spec

\* The central server creates no thread that its array has no place for
\* (CentralServer.cpp:261), whoever connects.
THEOREM AdmissionTypeCorrect == Spec => []TypeOK
<1>1. IInv => TypeOK
  BY DEF IInv, TypeInv
<1> QED  BY <1>1, Invariant, PTL

\* A thread of the mempool or of the mining pool (mempool.cpp:241, MPserver.cpp:608)
\* never serves a client that came before its own.
THEOREM NoThreadGoesBack == Spec => []ThreadsServeNoneEarlier
<1>1. IInv => ThreadsServeNoneEarlier
  BY DEF IInv, MempoolInv, PoolInv, ThreadsServeNoneEarlier
<1> QED  BY <1>1, Invariant, PTL

\* The places that main waits to join (CentralServer.cpp:261) are held by pools, or
\* lost to clients that died without a word.
THEOREM PlacesAreForPools == Spec => []NoPlaceIsLost
<1>1. ASSUME IInv, main = "join"
      PROVE  Cardinality({p \in Pools : role[p] = "pool"})
               + Cardinality((dead \ spoken) \cap CentralClients) >= MaxThreads
  <2> DEFINE own  == {p \in Pools : role[p] = "pool"}
             lost == (dead \ spoken) \cap CentralClients
  <2>1. IsFiniteSet(Taken) /\ Cardinality(Taken) >= MaxThreads /\ Cardinality(Taken) \in Nat
    BY <1>1, AdmissionAssumption DEF IInv, PlaceInv, TypeInv, TypeOK
  <2>2. own \subseteq Taken /\ Taken \subseteq own \cup lost /\ lost \subseteq dead
    BY <1>1 DEF IInv, PlaceInv, Taken, CentralClients
  <2> HIDE DEF own, lost
  <2>3. IsFiniteSet(own) /\ IsFiniteSet(lost)
    BY <1>1, <2>1, <2>2, FS_Subset DEF IInv, PlaceInv
  <2>4. /\ IsFiniteSet(own \cup lost)
        /\ Cardinality(own \cup lost) <= Cardinality(own) + Cardinality(lost)
    <3>1. /\ IsFiniteSet(own \cup lost) /\ IsFiniteSet(own \cap lost)
          /\ Cardinality(own \cup lost)
               = Cardinality(own) + Cardinality(lost) - Cardinality(own \cap lost)
      BY <2>3, FS_Union, FS_Intersection
    <3>2. Cardinality(own) \in Nat /\ Cardinality(lost) \in Nat /\ Cardinality(own \cap lost) \in Nat
      BY <2>3, <3>1, FS_CardinalityType
    <3> QED  BY <3>1, <3>2
  <2>5. Cardinality(Taken) <= Cardinality(own \cup lost)
    BY <2>2, <2>4, FS_Subset
  <2>6. /\ Cardinality(own) \in Nat /\ Cardinality(lost) \in Nat
        /\ Cardinality(own \cup lost) \in Nat /\ MaxThreads \in Nat
    BY <2>3, <2>4, FS_CardinalityType, AdmissionAssumption
  <2>7. Cardinality(own) + Cardinality(lost) >= MaxThreads
    BY <2>1, <2>4, <2>5, <2>6
  <2> QED  BY <2>7 DEF own, lost
<1>2. IInv => NoPlaceIsLost
  BY <1>1 DEF NoPlaceIsLost
<1> QED  BY <1>2, Invariant, PTL
=============================================================================
