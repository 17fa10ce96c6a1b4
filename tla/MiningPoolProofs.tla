-------------------------- MODULE MiningPoolProofs --------------------------
(***************************************************************************)
(* Theorems about MiningPool and the nonce ranges it cuts, for any finite  *)
(* set of miners and any number of rounds and shares, when nobody leaves   *)
(* and no interrupt comes.  What they say holds until two threads are      *)
(* between a lock and its unlock at once, which the unlock that follows    *)
(* every request makes possible.  The theorem on the condition variables   *)
(* needs none of this.                                                     *)
(*                                                                         *)
(* The argument.  A miner works on a header from the moment its handler    *)
(* takes the header until it is told, or tells, that a nonce was found;    *)
(* then its payment is in transactions.  So a registered miner that holds  *)
(* the current header either works on it or is paid, and never both.       *)
(* terminaron is the number of payments.  When it reaches the number of    *)
(* registered miners, as many different miners are paid as are registered, *)
(* hence all of them, and nobody works on the header any longer; since the *)
(* first nonce has taken the header away, nobody starts either, and S goes *)
(* through the end of the round and the start of the next alone.           *)
(***************************************************************************)
EXTENDS MiningPool, FoldProofs

\* What the theorems assume.
Quiet == Leavers = {} /\ ~Interruptible

Working       == mining \cup {p \in Miners : handler[p] = "serve"}
Registered(p) == \E i \in 1..Len(RD) : RD[i] = p
Paid(p)       == \E i \in 1..Len(transactions) : transactions[i].to = p

\* No thread ends before the process does.
NothingEnds ==
    /\ flag /\ catching = "none"
    /\ server # "ended"
    /\ \A p \in Miners : handler[p] \notin {"leaving", "gone"}

\* One thread is inside, whatever lock_x says.
LockInv ==
    /\ Inside # {} => ~SInside
    /\ \A p, q \in Inside : p = q

\* A miner is registered once, from the moment it has joined.
MembersInv ==
    /\ \A i, k \in 1..Len(RD) : RD[i] = RD[k] => i = k
    /\ \A p \in Miners :
         Registered(p) <=> handler[p] \notin {"none", "start", "joining"}

\* Miners work only while S waits for a nonce, on the chain as it is.
WorkInv ==
    /\ \A p \in mining : handler[p] \in {"recv", "count", "nonce", "loop"}
    /\ \A p \in Miners : handler[p] \in {"count", "nonce"} => p \in mining
    /\ \A p \in Working : headnum[p] = headernumber
    /\ server \notin {"check", "sleep", "wait"} => Working = {}

\* The cut of a miner's nonces names the miner's place.
CutInv == \A p \in mining : cut[p].index < Len(RD) /\ RD[cut[p].index + 1] = p

\* From one round to the next.
HeaderInv ==
    /\ server \notin {"open", "assign"} => Header_para_minar = round
    /\ \A p \in Miners : header[p] <= round
    /\ server \in {"open", "assign", "reset", "wake"} => \A p \in Miners : header[p] < round
    /\ server \in {"start", "fetch", "open"} => ~Header_disponible
    /\ server \in {"assign", "reset", "wake"} => transactions = <<>> /\ ~Header_valido
    /\ server = "wake" => terminaron = 0 /\ ~Noncecorrecto

\* A round is in progress, or its block is submitted and paid.
InRound == server \in {"check", "sleep", "wait", "submit", "pay"}

\* What the flags of a round say.
NonceInv ==
    InRound =>
        /\ IF Noncecorrecto THEN Header_minado = round /\ ~Header_disponible
                            ELSE transactions = <<>> /\ ~Header_valido
        /\ Header_valido => Working = {}
        /\ server \in {"submit", "pay"} => Header_valido

\* Whoever holds the header of the round works on it or is paid.
PayInv ==
    InRound =>
        /\ terminaron = Len(transactions)
        /\ \A i, k \in 1..Len(transactions) :
             transactions[i].to = transactions[k].to => i = k
        /\ \A p \in Miners : header[p] = round <=> p \in Working \/ Paid(p)
        /\ \A p \in Miners : Paid(p) => p \notin Working /\ Registered(p)

\* ... and nobody is paid twice, in a round or until the next one starts.
PayeesInv ==
    \A i, k \in 1..Len(transactions) : transactions[i].to = transactions[k].to => i = k

\* What holds whoever overlaps ...
BaseInv == Typed /\ overlapped \in BOOLEAN /\ NothingEnds /\ MembersInv /\ CutInv

\* ... and what holds until two threads do.
IInv ==
    /\ Typed /\ NothingEnds /\ MembersInv /\ CutInv
    /\ LockInv /\ WorkInv /\ HeaderInv /\ NonceInv /\ PayInv /\ PayeesInv

-----------------------------------------------------------------------------
(* Nonce ranges.                                                            *)

\* Later in the order, further up by at least one share.
LEMMA StartsAreOrdered ==
    ASSUME NEW m \in Nat, NEW i \in Nat, NEW k \in Nat, i < k
    PROVE  m * i + m <= m * k
<1>1. PICK d \in Nat : k = i + 1 + d
  <2> WITNESS k - i - 1 \in Nat
  <2> QED  OBVIOUS
<1>2. m * k = m * i + m + m * d
  BY <1>1
<1>3. m * d >= 0
  OBVIOUS
<1> QED  BY <1>2, <1>3

\* RangeDistribution::distributeranges: whatever the number of miners, no nonce is
\* cut for two places.
THEOREM SharesAreDisjoint ==
    ASSUME NEW size \in Nat \ {0}, NEW i \in Nat, NEW k \in Nat, i # k
    PROVE  Share(i, size) \cap Share(k, size) = {}
<1> DEFINE m == MaxNonce \div size
<1>1. m \in Nat
  BY RangeAssumption
<1>2. m * i \in Nat /\ m * k \in Nat
  BY <1>1
<1>3. m * i + m <= m * k \/ m * k + m <= m * i
  BY <1>1, StartsAreOrdered
<1> HIDE DEF m
<1>4. (m * i) .. (m * i + m - 1) \cap (m * k) .. (m * k + m - 1) = {}
  BY <1>1, <1>2, <1>3
<1> QED  BY <1>4 DEF Share, Start, m

\* ... and none beyond the last nonce.
THEOREM SharesAreNonces ==
    ASSUME NEW size \in Nat \ {0}, NEW i \in 0..(size - 1)
    PROVE  Share(i, size) \subseteq 0..MaxNonce
<1> DEFINE m == MaxNonce \div size
<1>1. m \in Nat /\ m * size <= MaxNonce
  BY RangeAssumption
<1>2. m * i + m <= m * size
  BY <1>1, StartsAreOrdered
<1>3. m * i \in Nat
  BY <1>1
<1> HIDE DEF m
<1>4. (m * i) .. (m * i + m - 1) \subseteq 0..MaxNonce
  BY <1>1, <1>2, <1>3, RangeAssumption
<1> QED  BY <1>4 DEF Share, Start, m
-----------------------------------------------------------------------------
(* Lists without repetition.                                                *)

Distinct(s) == \A i, k \in 1..Len(s) : s[i] = s[k] => i = k
Members(s)  == {s[i] : i \in 1..Len(s)}

LEMMA DistinctLength ==
    ASSUME NEW S, NEW s \in Seq(S), Distinct(s)
    PROVE  IsFiniteSet(Members(s)) /\ Cardinality(Members(s)) = Len(s)
<1>1. Len(s) \in Nat /\ s \in [1..Len(s) -> Members(s)]
  BY DEF Members
<1>2. s \in Bijection(1..Len(s), Members(s))
  <2>1. \A a, b \in 1..Len(s) : s[a] = s[b] => a = b
    BY DEF Distinct
  <2>2. \A t \in Members(s) : \E i \in 1..Len(s) : s[i] = t
    BY DEF Members
  <2> QED  BY <1>1, <2>1, <2>2 DEF Bijection, Injection, Surjection, IsInjective
<1>3. ExistsBijection(1..Len(s), Members(s))
  BY <1>2 DEF ExistsBijection
<1>4. IsFiniteSet(1..Len(s)) /\ Cardinality(1..Len(s)) = Len(s)
  BY <1>1, FS_Interval
<1> QED  BY <1>3, <1>4, FS_Bijection

\* Of two lists as long as each other, neither with a repetition, one cannot hold
\* only some of what the other does.
LEMMA SameLengthSameMembers ==
    ASSUME NEW S, NEW s \in Seq(S), NEW t \in Seq(S), Distinct(s), Distinct(t),
           Members(t) \subseteq Members(s), Len(t) = Len(s)
    PROVE  Members(t) = Members(s)
<1>1. /\ IsFiniteSet(Members(s)) /\ Cardinality(Members(s)) = Len(s)
      /\ Cardinality(Members(t)) = Len(t)
  BY DistinctLength
<1> QED  BY <1>1, FS_Subset

\* A list without repetition is no longer than the set it is made of.
LEMMA DistinctBound ==
    ASSUME NEW S, IsFiniteSet(S), NEW s \in Seq(S), Distinct(s)
    PROVE  Len(s) <= Cardinality(S)
<1>1. Members(s) \subseteq S
  BY DEF Members
<1> QED  BY <1>1, DistinctLength, FS_Subset
-----------------------------------------------------------------------------
(* The steps that are left when nobody leaves and no interrupt comes.       *)

\* A request ends and the handler goes back to receive.
NextRequest(p) ==
    /\ handler[p] = "loop"
    /\ Goes(p, "recv")
    /\ lock' = "free"
    /\ UNCHANGED <<asleep, server, headers, flags, payroll, members, accepts,
                   mining, locals, signals, process>>

\* The process ends, or nothing happens.
StandStill ==
    /\ up' \in {up, FALSE}
    /\ UNCHANGED <<lock, asleep, server, headers, flags, payroll, members, accepts,
                   handler, mining, locals, signals, overlapped>>

ServerStep ==
    \/ STakesLock \/ BuildBlock \/ OpenRound \/ AssignHeader \/ ResetRound
    \/ WakeMiners \/ AwaitMiners \/ FallAsleep \/ BlockRejected
    \/ BlockValidated \/ PayMiners

HandlerStep(p) ==
    \/ AcceptMiner(p)
    \/ JoinPool(p) \/ EndJoin(p)
    \/ RequestedHeader(p) \/ ServeHeader(p)
    \/ RequestedState(p)
    \/ GotShare(p) \/ CountShare(p)
    \/ GotNonce(p) \/ RecvNonce(p)
    \/ NextRequest(p)

QuietStep ==
    \/ ServerStep
    \/ CountMiner
    \/ \E p \in Miners : HandlerStep(p)
    \/ \E t \in Miners \cup {"S"} : SpuriousWakeup(t)
    \/ StandStill

LEMMA StepsAreQuiet ==
    ASSUME Quiet, NothingEnds, [Next]_vars
    PROVE  QuietStep
<1>1. CASE Server
  <2>1. ~ServerAborts
    BY DEF NothingEnds, ServerAborts, Closed
  <2> QED  BY <1>1, <2>1 DEF Server, QuietStep, ServerStep
<1>5. CASE PeerFails \/ UNCHANGED vars
  BY <1>5 DEF PeerFails, vars, process, StandStill, QuietStep
<1>2. CASE CloseSockets \/ CatchInt
  BY <1>2 DEF Quiet, NothingEnds, CloseSockets, CatchInt, ClearFlag, SignalServer, SetValido
<1>3. CASE Main
  BY <1>3 DEF Main, QuietStep, HandlerStep
<1>4. ASSUME NEW p \in Miners, Handler(p)
      PROVE  QuietStep
  <2>1. ~SeesEof(p) /\ ~DiesAsked(p) /\ ~Depart(p)
    BY DEF Quiet, NothingEnds, SeesEof, DiesAsked, Depart, Closed
  <2>2. EndRequest(p) => NextRequest(p)
    BY DEF Quiet, NothingEnds, EndRequest, NextRequest, Serves, Goes, locals
  <2> QED  BY <1>4, <2>1, <2>2 DEF Handler, QuietStep, HandlerStep
<1> QED  BY <1>1, <1>2, <1>3, <1>4, <1>5 DEF Next, QuietStep
\* Who goes in without overlapping is alone.
LEMMA EntersAlone ==
    ASSUME Enters, ~overlapped'
    PROVE  ~SInside /\ Inside = {}
BY DEF Enters

\* Threads overlap only when one goes in.
LEMMA OverlapOnEntry ==
    ASSUME [Next]_vars
    PROVE  UNCHANGED overlapped \/ Enters
<1>1. CASE Server
  BY <1>1 DEF Server, STakesLock, BuildBlock, OpenRound, OpenRoundWith, AssignHeader,
     ResetRound, ResetRoundTo, WakeMiners, AwaitMiners, FallAsleep, BlockRejected,
     BlockValidated, PayMiners, ServerAborts, process
<1>2. CASE PeerFails \/ CloseSockets \/ CatchInt \/ Main
  BY <1>2 DEF PeerFails, CloseSockets, CatchInt, ClearFlag, SignalServer, SetValido,
     SignalStep, Main, CountMiner, AcceptMiner, process
<1>3. ASSUME NEW p \in Miners, Handler(p)
      PROVE  UNCHANGED overlapped \/ Enters
  BY <1>3 DEF Handler, JoinPool, EndJoin, RequestedHeader, ServeHeader, RequestedState,
     GotShare, CountShare, GotNonce, RecvNonce, EndRequest, SeesEof, Depart, DiesAsked, process
<1>4. CASE UNCHANGED vars \/ \E t \in Miners \cup {"S"} : SpuriousWakeup(t)
  BY <1>4 DEF SpuriousWakeup, vars, process
<1> QED  BY <1>1, <1>2, <1>3, <1>4 DEF Next

LEMMA OverlapStays ==
    ASSUME overlapped \in BOOLEAN, [Next]_vars
    PROVE  overlapped' \in BOOLEAN /\ (overlapped => overlapped')
BY OverlapOnEntry DEF Enters
-----------------------------------------------------------------------------
(* Each part of the invariant is kept.                                      *)

\* distributeranges finds the miner it cuts nonces for.
LEMMA PlaceIsFound ==
    ASSUME Typed, MembersInv, NEW p \in Miners, handler[p] = "serve"
    PROVE  /\ Place(p) \in Nat /\ Len(RD) \in Nat \ {0}
           /\ Place(p) < Len(RD) /\ RD[Place(p) + 1] = p
<1>1. Registered(p)
  BY DEF MembersInv
<1>2. Len(RD) \in Nat
  BY DEF Typed, SharedTyped
<1>3. PICK i \in 1..Len(RD) : RD[i] = p
  BY <1>1 DEF Registered
<1>4. i - 1 \in 0..(Len(RD) - 1) /\ RD[(i - 1) + 1] = p
  BY <1>2, <1>3
<1>5. \E k \in 0..(Len(RD) - 1) : RD[k + 1] = p
  BY <1>4
<1>6. Place(p) \in 0..(Len(RD) - 1) /\ RD[Place(p) + 1] = p
  BY <1>5 DEF Place
<1> QED  BY <1>2, <1>3, <1>6

\* A miner that is told that a nonce was found.
LEMMA ToldFoundTyped ==
    ASSUME Typed, NEW p \in Miners, ToldFound(p)
    PROVE  RoundTyped' /\ LocalsTyped'
<1> USE DEF Typed, RoundTyped, LocalsTyped, ToldFound, MinerIsDone, headers
<1>1. share[p] \in Nat
  OBVIOUS
<1>2. transactions' \in Seq([to : Miners, share : Nat, total : Nat])
  BY <1>1 DEF PayMiner
<1>3. terminaron' \in Nat
  OBVIOUS
<1>9. Header_valido' \in BOOLEAN
  <2>1. Header_valido' = TRUE \/ Header_valido' = Header_valido
    OBVIOUS
  <2> QED  BY <2>1
<1>4. RoundTyped'
  BY <1>2, <1>3, <1>9
<1>5. cut' = [cut EXCEPT ![p] = [index |-> 0, size |-> 1]]
  BY DEF Idles, Uncut
<1>6. /\ cut' \in [Miners -> [index : Nat, size : Nat \ {0}]]
      /\ \A q \in Miners : cut'[q].index < cut'[q].size
  BY <1>5
<1>7. mining' \subseteq Miners /\ handler' \in [Miners -> HandlerPlaces]
  BY DEF Idles, Goes, HandlerPlaces
<1>8. LocalsTyped'
  BY <1>6, <1>7
<1> QED  BY <1>4, <1>8

LEMMA SharedTypedKept ==
    ASSUME Typed, NothingEnds, QuietStep
    PROVE  SharedTyped'
<1> USE DEF Typed, SharedTyped, Threads, ServerPlaces, members, accepts, signals, process, Goes
<1>1. CASE ServerStep
  BY <1>1 DEF ServerStep, STakesLock, BuildBlock, OpenRound, OpenRoundWith, AssignHeader,
     ResetRound, ResetRoundTo, WakeMiners, AwaitMiners, FallAsleep, BlockRejected,
     BlockValidated, PayMiners, LoopOrEnd
<1>2. ASSUME NEW p \in Miners, HandlerStep(p)
      PROVE  SharedTyped'
  <2>1. CASE AcceptMiner(p)
    BY <2>1 DEF AcceptMiner
  <2>2. CASE JoinPool(p)
    <3>1. RD' \in Seq(Miners)
      BY <2>2 DEF JoinPool, Register
    <3>2. asleep' \subseteq Threads /\ waiting_thread' \in BOOLEAN
      BY <2>2 DEF JoinPool, Register
    <3>3. UNCHANGED <<lock, server, j, main, flag, catching, up>>
      BY <2>2 DEF JoinPool
    <3> QED  BY <3>1, <3>2, <3>3
  <2>3. CASE EndJoin(p)
    BY <2>3 DEF EndJoin, Register, Serves
  <2>4. CASE RequestedHeader(p)
    BY <2>4 DEF RequestedHeader
  <2>5. CASE ServeHeader(p)
    BY <2>5 DEF ServeHeader
  <2>6. CASE RequestedState(p)
    BY <2>6 DEF RequestedState, ToldFound, MinerIsDone
  <2>7. CASE GotShare(p)
    BY <2>7 DEF GotShare
  <2>8. CASE CountShare(p)
    BY <2>8 DEF CountShare
  <2>9. CASE GotNonce(p)
    BY <2>9 DEF GotNonce, ToldFound, MinerIsDone
  <2>10. CASE RecvNonce(p)
    BY <2>10 DEF RecvNonce, MinerIsDone
  <2>11. CASE NextRequest(p)
    BY <2>11 DEF NextRequest
  <2> QED  BY <1>2, <2>1, <2>2, <2>3, <2>4, <2>5,
              <2>6, <2>7, <2>8, <2>9, <2>10, <2>11 DEF HandlerStep
<1>3. CASE CountMiner \/ \E t \in Miners \cup {"S"} : SpuriousWakeup(t)
  BY <1>3 DEF CountMiner, SpuriousWakeup
<1>4. CASE StandStill
  <2>1. up' = up \/ up' = FALSE
    BY <1>4 DEF StandStill
  <2>2. up' \in BOOLEAN
    BY <2>1
  <2> QED  BY <1>4, <2>2 DEF StandStill
<1> QED  BY <1>1, <1>2, <1>3, <1>4 DEF QuietStep

LEMMA RoundTypedKept ==
    ASSUME Typed, NothingEnds, QuietStep
    PROVE  RoundTyped'
<1> USE PoolAssumption DEF Typed, RoundTyped, headers, flags, payroll
<1>1. CASE ServerStep
  <2>1. CASE BuildBlock
    BY <2>1 DEF BuildBlock
  <2>2. CASE OpenRound
    <3>1. transactions' = <<>> /\ Header_valido' = FALSE /\ Header_disponible' = TRUE
      BY <2>2 DEF OpenRound, OpenRoundWith
    <3>2. UNCHANGED <<headers, Noncecorrecto, terminaron, totalshares>>
      BY <2>2 DEF OpenRound, OpenRoundWith
    <3>3. transactions' \in Seq([to : Miners, share : Nat, total : Nat])
      BY <3>1
    <3>4. Header_valido' \in BOOLEAN /\ Header_disponible' \in BOOLEAN
      BY <3>1
    <3> QED  BY <3>2, <3>3, <3>4
  <2>3. CASE AssignHeader
    BY <2>3 DEF AssignHeader
  <2>4. CASE ResetRound
    BY <2>4 DEF ResetRound, ResetRoundTo
  <2>5. CASE PayMiners
    BY <2>5 DEF PayMiners
  <2>6. CASE \/ STakesLock \/ WakeMiners \/ AwaitMiners \/ FallAsleep
             \/ BlockRejected \/ BlockValidated
    BY <2>6 DEF STakesLock, WakeMiners, AwaitMiners, FallAsleep, BlockRejected, BlockValidated
  <2> QED  BY <1>1, <2>1, <2>2, <2>3, <2>4, <2>5, <2>6 DEF ServerStep
<1>2. ASSUME NEW p \in Miners, HandlerStep(p)
      PROVE  RoundTyped'
  <2>1. CASE AcceptMiner(p)
    BY <2>1 DEF AcceptMiner
  <2>2. CASE JoinPool(p)
    BY <2>2 DEF JoinPool, Register, Serves
  <2>3. CASE EndJoin(p)
    BY <2>3 DEF EndJoin, Register, Serves
  <2>4. CASE RequestedHeader(p)
    BY <2>4 DEF RequestedHeader
  <2>5. CASE ServeHeader(p)
    BY <2>5 DEF ServeHeader
  <2>6. CASE RequestedState(p)
    BY <2>6, ToldFoundTyped DEF RequestedState
  <2>7. CASE GotShare(p)
    BY <2>7 DEF GotShare
  <2>8. CASE CountShare(p)
    BY <2>8 DEF CountShare
  <2>9. CASE GotNonce(p)
    BY <2>9, ToldFoundTyped DEF GotNonce
  <2>10. CASE RecvNonce(p)
    <3>1. /\ share[p] \in Nat /\ header[p] \in 0..MaxRounds
      BY DEF LocalsTyped
    <3>2. transactions' \in Seq([to : Miners, share : Nat, total : Nat])
      BY <2>10, <3>1 DEF RecvNonce, PayMiner
    <3>3. terminaron' \in Nat /\ totalshares' \in Nat /\ Header_minado' \in 0..MaxRounds
      BY <2>10, <3>1 DEF RecvNonce, MinerIsDone
    <3>4. /\ Noncecorrecto' \in BOOLEAN /\ Header_disponible' \in BOOLEAN
          /\ Header_valido' \in BOOLEAN
      BY <2>10 DEF RecvNonce, MinerIsDone
    <3>5. UNCHANGED <<round, headernumber, Header_para_minar>>
      BY <2>10 DEF RecvNonce
    <3> QED  BY <3>2, <3>3, <3>4, <3>5
  <2>11. CASE NextRequest(p)
    BY <2>11 DEF NextRequest
  <2> QED  BY <1>2, <2>1, <2>2, <2>3, <2>4, <2>5,
              <2>6, <2>7, <2>8, <2>9, <2>10, <2>11 DEF HandlerStep
<1>3. CASE CountMiner \/ StandStill \/ \E t \in Miners \cup {"S"} : SpuriousWakeup(t)
  BY <1>3 DEF CountMiner, SpuriousWakeup, StandStill
<1> QED  BY <1>1, <1>2, <1>3 DEF QuietStep

LEMMA LocalsTypedKept ==
    ASSUME Typed, NothingEnds, MembersInv, QuietStep
    PROVE  LocalsTyped'
<1> USE DEF Typed, LocalsTyped, HandlerPlaces, locals, Goes
<1>1. CASE ServerStep
  BY <1>1 DEF ServerStep, STakesLock, BuildBlock, OpenRound, OpenRoundWith, AssignHeader,
     ResetRound, ResetRoundTo, WakeMiners, AwaitMiners, FallAsleep, BlockRejected,
     BlockValidated, PayMiners, LoopOrEnd
<1>2. ASSUME NEW p \in Miners, HandlerStep(p)
      PROVE  LocalsTyped'
  <2>1. CASE AcceptMiner(p)
    BY <2>1 DEF AcceptMiner
  <2>2. CASE JoinPool(p)
    BY <2>2 DEF JoinPool, Register, Serves
  <2>3. CASE EndJoin(p)
    BY <2>3 DEF EndJoin, Register, Serves
  <2>4. CASE RequestedHeader(p)
    BY <2>4 DEF RequestedHeader, RoundTyped
  <2>5. CASE ServeHeader(p)
    <3>1. handler[p] = "serve"
      BY <2>5 DEF ServeHeader
    <3>2. [index |-> Place(p), size |-> Len(RD)] \in [index : Nat, size : Nat \ {0}]
      BY <3>1, PlaceIsFound
    <3>3. cut' = [cut EXCEPT ![p] = [index |-> Place(p), size |-> Len(RD)]]
      BY <2>5 DEF ServeHeader
    <3>4. /\ cut' \in [Miners -> [index : Nat, size : Nat \ {0}]]
          /\ \A q \in Miners : cut'[q].index < cut'[q].size
      BY <3>1, <3>2, <3>3, PlaceIsFound
    <3>5. /\ handler' \in [Miners -> HandlerPlaces] /\ mining' \subseteq Miners
          /\ share' \in [Miners -> Nat]
      BY <2>5 DEF ServeHeader
    <3>6. UNCHANGED <<header, headnum>>
      BY <2>5 DEF ServeHeader
    <3> QED  BY <3>4, <3>5, <3>6
  <2>6. CASE RequestedState(p)
    BY <2>6, ToldFoundTyped DEF RequestedState
  <2>7. CASE GotShare(p)
    BY <2>7 DEF GotShare
  <2>8. CASE CountShare(p)
    BY <2>8 DEF CountShare
  <2>9. CASE GotNonce(p)
    BY <2>9, ToldFoundTyped DEF GotNonce
  <2>10. CASE RecvNonce(p)
    BY <2>10 DEF RecvNonce, MinerIsDone, Idles, Uncut
  <2>11. CASE NextRequest(p)
    BY <2>11 DEF NextRequest
  <2> QED  BY <1>2, <2>1, <2>2, <2>3, <2>4, <2>5,
              <2>6, <2>7, <2>8, <2>9, <2>10, <2>11 DEF HandlerStep
<1>3. CASE CountMiner \/ StandStill \/ \E t \in Miners \cup {"S"} : SpuriousWakeup(t)
  BY <1>3 DEF CountMiner, SpuriousWakeup, StandStill
<1> QED  BY <1>1, <1>2, <1>3 DEF QuietStep

LEMMA TypedKept ==
    ASSUME Typed, NothingEnds, MembersInv, QuietStep
    PROVE  Typed'
BY SharedTypedKept, RoundTypedKept, LocalsTypedKept DEF Typed

LEMMA NothingEndsKept ==
    ASSUME Typed, NothingEnds, QuietStep
    PROVE  NothingEnds'
<1> USE DEF Typed, SharedTyped, LocalsTyped, NothingEnds, headers, flags, payroll, members, accepts, locals,
            signals, process, Goes
<1>1. CASE ServerStep
  BY <1>1 DEF ServerStep, STakesLock, BuildBlock, OpenRound, OpenRoundWith, AssignHeader,
     ResetRound, ResetRoundTo, WakeMiners, AwaitMiners, FallAsleep, BlockRejected,
     BlockValidated, PayMiners, LoopOrEnd
<1>2. ASSUME NEW p \in Miners, HandlerStep(p)
      PROVE  NothingEnds'
  <2>1. CASE AcceptMiner(p)
    BY <2>1 DEF AcceptMiner
  <2>2. CASE JoinPool(p)
    BY <2>2 DEF JoinPool, Register, Serves
  <2>3. CASE EndJoin(p)
    BY <2>3 DEF EndJoin, Register, Serves
  <2>4. CASE RequestedHeader(p)
    BY <2>4 DEF RequestedHeader
  <2>5. CASE ServeHeader(p)
    BY <2>5 DEF ServeHeader
  <2>6. CASE RequestedState(p)
    BY <2>6 DEF RequestedState, ToldFound, MinerIsDone
  <2>7. CASE GotShare(p)
    BY <2>7 DEF GotShare
  <2>8. CASE CountShare(p)
    BY <2>8 DEF CountShare
  <2>9. CASE GotNonce(p)
    BY <2>9 DEF GotNonce, ToldFound, MinerIsDone
  <2>10. CASE RecvNonce(p)
    BY <2>10 DEF RecvNonce, MinerIsDone
  <2>11. CASE NextRequest(p)
    BY <2>11 DEF NextRequest
  <2> QED  BY <1>2, <2>1, <2>2, <2>3, <2>4, <2>5,
              <2>6, <2>7, <2>8, <2>9, <2>10, <2>11 DEF HandlerStep
<1>3. CASE CountMiner \/ StandStill \/ \E t \in Miners \cup {"S"} : SpuriousWakeup(t)
  BY <1>3 DEF CountMiner, SpuriousWakeup, StandStill
<1> QED  BY <1>1, <1>2, <1>3 DEF QuietStep

\* Whatever the step, as long as nobody overlaps, one thread is inside.
LEMMA LockKept ==
    ASSUME handler \in [Miners -> HandlerPlaces], LockInv, [Next]_vars, ~overlapped'
    PROVE  LockInv'
<1> USE DEF LockInv, SInside, Inside, Goes, locals
<1>1. CASE Server
  <2>1. CASE STakesLock \/ (AwaitMiners /\ server = "wait")
    <3>1. Inside = {} /\ UNCHANGED handler
      BY <2>1, EntersAlone DEF STakesLock, AwaitMiners
    <3> QED  BY <3>1
  <2>2. CASE ~STakesLock /\ ~(AwaitMiners /\ server = "wait")
    BY <1>1, <2>2 DEF Server, BuildBlock, OpenRound, OpenRoundWith, AssignHeader,
       ResetRound, ResetRoundTo, WakeMiners, AwaitMiners, FallAsleep, BlockRejected,
       BlockValidated, PayMiners, ServerAborts, LoopOrEnd
  <2> QED  BY <2>1, <2>2
<1>2. CASE UNCHANGED <<server, handler>>
  BY <1>2
<1>3. ASSUME NEW p \in Miners, UNCHANGED server,
             \E place \in HandlerPlaces \ {"nonce"} : Goes(p, place)
      PROVE  LockInv'
  <2>1. Inside' \subseteq Inside
    BY <1>3
  <2> QED  BY <1>3, <2>1
<1>4. CASE PeerFails \/ CloseSockets \/ CatchInt
  BY <1>2, <1>4 DEF PeerFails, CloseSockets, CatchInt, ClearFlag, SignalServer, SetValido,
     SignalStep
<1>5. CASE Main
  <2>1. CASE CountMiner
    BY <1>2, <2>1 DEF CountMiner
  <2>2. ASSUME NEW p \in Miners, AcceptMiner(p)
        PROVE  LockInv'
    BY <1>3, <2>2 DEF AcceptMiner, HandlerPlaces
  <2> QED  BY <1>5, <2>1, <2>2 DEF Main
<1>6. ASSUME NEW p \in Miners, Handler(p)
      PROVE  LockInv'
  <2>1. CASE JoinPool(p) \/ EndJoin(p) \/ EndRequest(p)
    <3>1. UNCHANGED server
      BY <2>1 DEF JoinPool, EndJoin, EndRequest
    <3>2. UNCHANGED handler \/ \E place \in {"joining", "recv", "gone"} : Goes(p, place)
      BY <2>1 DEF JoinPool, EndJoin, EndRequest, Register, Serves
    <3> QED  BY <3>1, <3>2, <1>2, <1>3 DEF HandlerPlaces
  <2>2. CASE RequestedHeader(p) \/ ServeHeader(p) \/ SeesEof(p) \/ Depart(p)
    <3>1. UNCHANGED server
      BY <2>2 DEF RequestedHeader, ServeHeader, SeesEof, Depart
    <3>2. \E place \in {"serve", "awaiting", "loop", "leaving", "gone"} : Goes(p, place)
      BY <2>2 DEF RequestedHeader, ServeHeader, SeesEof, Depart
    <3> QED  BY <3>1, <3>2, <1>3 DEF HandlerPlaces
  <2>3. CASE \/ ToldFound(p) \/ RecvNonce(p) \/ RequestedState(p) \/ CountShare(p)
             \/ GotShare(p)
    <3>1. UNCHANGED server /\ \E place \in {"loop", "count"} : Goes(p, place)
      BY <2>3 DEF ToldFound, RecvNonce, MinerIsDone, RequestedState, CountShare, GotShare
    <3> QED  BY <3>1, <1>3 DEF HandlerPlaces
  <2>4. CASE GotNonce(p) /\ ~ToldFound(p)
    <3>1. Enters /\ Goes(p, "nonce") /\ UNCHANGED server
      BY <2>4 DEF GotNonce
    <3>2. ~SInside /\ Inside = {}
      BY <3>1, EntersAlone
    <3>3. Inside' = {p}
      BY <3>1, <3>2
    <3> QED  BY <3>1, <3>2, <3>3
  <2>5. CASE DiesAsked(p)
    BY <2>5, <1>2 DEF DiesAsked
  <2> QED  BY <1>6, <2>1, <2>2, <2>3, <2>4, <2>5 DEF Handler
<1>7. CASE UNCHANGED vars \/ \E t \in Miners \cup {"S"} : SpuriousWakeup(t)
  BY <1>2, <1>7 DEF SpuriousWakeup, vars
<1> QED  BY <1>1, <1>4, <1>5, <1>6, <1>7 DEF Next

\* A miner that joins is put at the end.
LEMMA Appended ==
    ASSUME Typed, MembersInv, NEW p \in Miners, ~Registered(p), RD' = Append(RD, p)
    PROVE  /\ Len(RD') = Len(RD) + 1
           /\ \A i \in 1..Len(RD) : RD'[i] = RD[i]
           /\ \A i, k \in 1..Len(RD') : RD'[i] = RD'[k] => i = k
           /\ \A q \in Miners : Registered(q)' <=> Registered(q) \/ q = p
<1>1. RD \in Seq(Miners) /\ Len(RD) \in Nat
  BY DEF Typed, SharedTyped
<1>2. /\ Len(RD') = Len(RD) + 1
      /\ \A i \in 1..Len(RD) : RD'[i] = RD[i]
      /\ RD'[Len(RD) + 1] = p
  BY <1>1
<1>3. \A i \in 1..Len(RD) : RD[i] # p
  BY DEF Registered
<1>4. \A i, k \in 1..Len(RD') : RD'[i] = RD'[k] => i = k
  <2> TAKE i, k \in 1..Len(RD')
  <2>1. (i \in 1..Len(RD) \/ i = Len(RD) + 1) /\ (k \in 1..Len(RD) \/ k = Len(RD) + 1)
    BY <1>1, <1>2
  <2> QED  BY <2>1, <1>2, <1>3 DEF MembersInv
<1>5. \A q \in Miners : Registered(q)' <=> Registered(q) \/ q = p
  <2> TAKE q \in Miners
  <2>1. ASSUME Registered(q) PROVE \E i \in 1..Len(RD') : RD'[i] = q
    BY <2>1, <1>1, <1>2 DEF Registered
  <2>2. ASSUME q = p PROVE \E i \in 1..Len(RD') : RD'[i] = q
    BY <2>2, <1>1, <1>2
  <2>3. ASSUME NEW i \in 1..Len(RD'), RD'[i] = q PROVE Registered(q) \/ q = p
    BY <2>3, <1>1, <1>2 DEF Registered
  <2> QED  BY <2>1, <2>2, <2>3 DEF Registered
<1> QED  BY <1>2, <1>4, <1>5

LEMMA MembersKept ==
    ASSUME Typed, NothingEnds, MembersInv, QuietStep
    PROVE  MembersInv'
<1> USE DEF Typed, LocalsTyped, members, Goes
<1> DEFINE In(q) == handler[q] \notin {"none", "start", "joining"}
<1>1. CASE UNCHANGED RD /\ \A q \in Miners : In(q)' <=> In(q)
  <2>1. \A q \in Miners : Registered(q)' <=> Registered(q)
    BY <1>1 DEF Registered
  <2> QED  BY <1>1, <2>1 DEF MembersInv
<1>2. ASSUME NEW p \in Miners, RD' = Append(RD, p), ~In(p), Goes(p, "recv")
      PROVE  MembersInv'
  <2>1. ~Registered(p)
    BY <1>2 DEF MembersInv
  <2>2. \A q \in Miners : In(q)' <=> In(q) \/ q = p
    BY <1>2
  <2>3. \A q \in Miners : Registered(q)' <=> In(q)'
    BY <1>2, <2>1, <2>2, Appended DEF MembersInv
  <2> QED  BY <1>2, <2>1, <2>3, Appended DEF MembersInv
<1>3. CASE ServerStep
  BY <1>1, <1>3 DEF ServerStep, STakesLock, BuildBlock, OpenRound, OpenRoundWith, AssignHeader,
     ResetRound, ResetRoundTo, WakeMiners, AwaitMiners, FallAsleep, BlockRejected,
     BlockValidated, PayMiners
<1>4. ASSUME NEW p \in Miners, HandlerStep(p)
      PROVE  MembersInv'
  <2>1. CASE JoinPool(p) \/ EndJoin(p)
    <3>1. CASE Register(p)
      <4>1. RD' = Append(RD, p) /\ Goes(p, "recv") /\ ~In(p)
        BY <2>1, <3>1 DEF JoinPool, EndJoin, Register, Serves, NothingEnds
      <4> QED  BY <4>1, <1>2
    <3>2. CASE UNCHANGED RD /\ (Goes(p, "joining") \/ UNCHANGED handler)
      <4>1. ~In(p)
        BY <2>1 DEF JoinPool, EndJoin
      <4> QED  BY <4>1, <3>2, <1>1
    <3> QED  BY <2>1, <3>1, <3>2 DEF JoinPool, EndJoin
  <2>2. CASE AcceptMiner(p)
    BY <1>1, <2>2 DEF AcceptMiner
  <2>3. CASE RequestedHeader(p)
    BY <1>1, <2>3 DEF RequestedHeader, InGetWU
  <2>4. CASE ServeHeader(p) \/ CountShare(p) \/ NextRequest(p)
    BY <1>1, <2>4 DEF ServeHeader, CountShare, NextRequest
  <2>5. CASE RequestedState(p) \/ GotShare(p)
    BY <1>1, <2>5 DEF RequestedState, GotShare, InDojob, ToldFound, MinerIsDone
  <2>6. CASE GotNonce(p) \/ RecvNonce(p)
    BY <1>1, <2>6 DEF GotNonce, RecvNonce, InDojob, ToldFound, MinerIsDone
  <2> QED  BY <1>4, <2>1, <2>2, <2>3, <2>4, <2>5, <2>6 DEF HandlerStep
<1>5. CASE CountMiner \/ StandStill \/ \E t \in Miners \cup {"S"} : SpuriousWakeup(t)
  BY <1>1, <1>5 DEF CountMiner, SpuriousWakeup, StandStill
<1> QED  BY <1>3, <1>4, <1>5 DEF QuietStep

LEMMA WorkKept ==
    ASSUME Typed, NothingEnds, LockInv, MembersInv, WorkInv, HeaderInv, NonceInv, QuietStep,
           ~overlapped'
    PROVE  WorkInv'
<1> USE DEF Typed, LocalsTyped, NothingEnds, LockInv, WorkInv, Working, headers, locals,
            Goes, Enters
<1>1. CASE ServerStep
  BY <1>1 DEF ServerStep, STakesLock, BuildBlock, OpenRound, OpenRoundWith, AssignHeader,
     ResetRound, ResetRoundTo, WakeMiners, AwaitMiners, FallAsleep, BlockRejected,
     BlockValidated, PayMiners, LoopOrEnd, NonceInv, InRound
<1>2. ASSUME NEW p \in Miners, HandlerStep(p)
      PROVE  WorkInv'
  <2>1. CASE AcceptMiner(p)
    BY <2>1 DEF AcceptMiner
  <2>2. CASE JoinPool(p) \/ EndJoin(p)
    <3>1. /\ handler[p] \in {"start", "joining"}
          /\ \E place \in {"recv", "joining"} : Goes(p, place)
          /\ UNCHANGED <<server, headernumber, mining, headnum>>
      <4>1. CASE JoinPool(p)
        BY <4>1 DEF JoinPool, Register, Serves
      <4>2. CASE EndJoin(p)
        BY <4>2 DEF EndJoin, Register, Serves
      <4> QED  BY <2>2, <4>1, <4>2
    <3>2. PICK place \in {"recv", "joining"} : Goes(p, place)
      BY <3>1
    <3>3. handler' = [handler EXCEPT ![p] = place]
      BY <3>2
    <3>4. p \notin mining /\ handler[p] # "serve"
      BY <3>1
    <3>5. Working' = Working
      BY <3>1, <3>3, <3>4
    <3>6. /\ \A q \in mining' : handler'[q] \in {"recv", "count", "nonce", "loop"}
          /\ \A q \in Miners : handler'[q] \in {"count", "nonce"} => q \in mining'
      BY <3>1, <3>3, <3>4
    <3> HIDE DEF Working
    <3> QED  BY <3>1, <3>5, <3>6
  <2>4. CASE RequestedHeader(p)
    <3>1. /\ handler[p] \in {"recv", "awaiting"} /\ p \notin mining /\ Enters
          /\ UNCHANGED <<server, headernumber, mining>>
      BY <2>4 DEF RequestedHeader, InGetWU
    <3>2. CASE HeaderReady
      <4>1. /\ handler' = [handler EXCEPT ![p] = "serve"]
            /\ headnum' = [headnum EXCEPT ![p] = headernumber]
        BY <2>4, <3>2 DEF RequestedHeader
      <4>2. server = "wait"
        BY <3>1, <3>2, EntersAlone DEF SInside, HeaderReady, HeaderInv
      <4>3. Working' = Working \cup {p}
        BY <3>1, <4>1
      <4>4. \A q \in Working' : headnum'[q] = headernumber'
        BY <3>1, <4>1, <4>3
      <4> QED  BY <3>1, <4>1, <4>2, <4>4
    <3>3. CASE ~HeaderReady
      <4>1. handler' = [handler EXCEPT ![p] = "awaiting"] /\ UNCHANGED headnum
        BY <2>4, <3>3 DEF RequestedHeader
      <4>2. Working' = Working
        BY <3>1, <4>1
      <4> QED  BY <3>1, <4>1, <4>2
    <3> QED  BY <3>2, <3>3
  <2>5. CASE ServeHeader(p)
    BY <2>5 DEF ServeHeader
  <2>6. CASE RequestedState(p)
    BY <2>6 DEF RequestedState, InDojob, ToldFound, MinerIsDone, Idles
  <2>7. CASE GotShare(p)
    BY <2>7 DEF GotShare, InDojob
  <2>8. CASE CountShare(p)
    BY <2>8 DEF CountShare
  <2>9. CASE GotNonce(p)
    <3>1. CASE ToldFound(p)
      BY <2>9, <3>1 DEF GotNonce, InDojob, ToldFound, MinerIsDone, Idles
    <3>2. CASE Goes(p, "nonce") /\ UNCHANGED <<server, headers, mining, locals>>
      BY <2>9, <3>2 DEF GotNonce, InDojob
    <3> QED  BY <2>9, <3>1, <3>2 DEF GotNonce
  <2>10. CASE RecvNonce(p)
    BY <2>10 DEF RecvNonce, MinerIsDone, Idles
  <2>11. CASE NextRequest(p)
    BY <2>11 DEF NextRequest
  <2> QED  BY <1>2, <2>1, <2>2, <2>4, <2>5,
              <2>6, <2>7, <2>8, <2>9, <2>10, <2>11 DEF HandlerStep
<1>3. CASE CountMiner \/ StandStill \/ \E t \in Miners \cup {"S"} : SpuriousWakeup(t)
  BY <1>3 DEF CountMiner, SpuriousWakeup, StandStill
<1> QED  BY <1>1, <1>2, <1>3 DEF QuietStep

LEMMA CutKept ==
    ASSUME Typed, NothingEnds, MembersInv, CutInv, QuietStep
    PROVE  CutInv'
<1> USE DEF Typed, LocalsTyped, members, locals
<1>1. CASE UNCHANGED RD /\ \A q \in mining' : q \in mining /\ cut'[q] = cut[q]
  BY <1>1 DEF CutInv
<1>2. ASSUME NEW p \in Miners, RD' = Append(RD, p), ~Registered(p),
             UNCHANGED <<mining, cut>>
      PROVE  CutInv'
  <2>1. /\ Len(RD') = Len(RD) + 1 /\ Len(RD) \in Nat
        /\ \A i \in 1..Len(RD) : RD'[i] = RD[i]
    BY <1>2, Appended DEF SharedTyped
  <2>2. ASSUME NEW q \in mining
        PROVE  cut'[q].index < Len(RD') /\ RD'[cut'[q].index + 1] = q
    <3>1. cut[q].index \in Nat /\ cut[q].index < Len(RD) /\ RD[cut[q].index + 1] = q
      BY DEF CutInv
    <3>2. cut[q].index + 1 \in 1..Len(RD)
      BY <2>1, <3>1
    <3> QED  BY <1>2, <2>1, <3>1, <3>2
  <2> QED  BY <1>2, <2>2 DEF CutInv
<1>3. CASE ServerStep
  BY <1>1, <1>3 DEF ServerStep, STakesLock, BuildBlock, OpenRound, OpenRoundWith,
     AssignHeader, ResetRound, ResetRoundTo, WakeMiners, AwaitMiners, FallAsleep,
     BlockRejected, BlockValidated, PayMiners
<1>4. ASSUME NEW p \in Miners, HandlerStep(p)
      PROVE  CutInv'
  <2>1. CASE JoinPool(p) \/ EndJoin(p)
    <3>1. UNCHANGED <<mining, cut>>
      BY <2>1 DEF JoinPool, EndJoin
    <3>2. CASE Register(p)
      <4>1. ~Registered(p)
        BY <2>1 DEF JoinPool, EndJoin, MembersInv
      <4> QED  BY <3>1, <3>2, <4>1, <1>2 DEF Register
    <3>3. CASE UNCHANGED RD
      BY <3>1, <3>3, <1>1
    <3> QED  BY <2>1, <3>2, <3>3 DEF JoinPool, EndJoin
  <2>2. CASE ServeHeader(p)
    <3>1. /\ Place(p) \in Nat /\ Place(p) < Len(RD) /\ RD[Place(p) + 1] = p
      BY <2>2, PlaceIsFound DEF ServeHeader
    <3>2. /\ cut' = [cut EXCEPT ![p] = [index |-> Place(p), size |-> Len(RD)]]
          /\ mining' = mining \cup {p} /\ UNCHANGED RD
      BY <2>2 DEF ServeHeader
    <3>3. cut'[p].index = Place(p)
      BY <3>2
    <3>4. \A q \in mining \ {p} : cut'[q] = cut[q]
      BY <3>2
    <3> QED  BY <3>1, <3>2, <3>3, <3>4 DEF CutInv
  <2>3. CASE ToldFound(p) \/ RecvNonce(p)
    <3>1. UNCHANGED RD /\ Idles(p)
      BY <2>3 DEF ToldFound, RecvNonce, MinerIsDone
    <3>2. \A q \in mining' : q \in mining /\ cut'[q] = cut[q]
      BY <3>1 DEF Idles
    <3> QED  BY <3>1, <3>2, <1>1
  <2>4. CASE AcceptMiner(p) \/ RequestedHeader(p) \/ CountShare(p) \/ NextRequest(p)
    BY <1>1, <2>4 DEF AcceptMiner, RequestedHeader, CountShare, NextRequest
  <2>5. CASE RequestedState(p) \/ GotShare(p) \/ GotNonce(p)
    BY <1>1, <2>3, <2>5 DEF RequestedState, GotShare, GotNonce
  <2> QED  BY <1>4, <2>1, <2>2, <2>3, <2>4, <2>5 DEF HandlerStep
<1>5. CASE CountMiner \/ StandStill \/ \E t \in Miners \cup {"S"} : SpuriousWakeup(t)
  BY <1>1, <1>5 DEF CountMiner, SpuriousWakeup, StandStill
<1> QED  BY <1>3, <1>4, <1>5 DEF QuietStep

\* Miners that work, while S is not inside, do so while S waits for them.
LEMMA WaitsForNonce ==
    ASSUME WorkInv, NEW p \in mining, ~SInside
    PROVE  server = "wait"
BY DEF SInside, WorkInv, Working

LEMMA HeaderKept ==
    ASSUME Typed, NothingEnds, LockInv, WorkInv, HeaderInv, NonceInv, PayInv, QuietStep,
           ~overlapped'
    PROVE  HeaderInv'
<1> USE PoolAssumption DEF Typed, RoundTyped, LocalsTyped, NothingEnds, LockInv, HeaderInv,
            headers, flags, payroll, locals
<1>1. CASE ServerStep
  <2>1. CASE STakesLock
    BY <2>1 DEF STakesLock, LoopOrEnd
  <2>2. CASE BuildBlock
    BY <2>2 DEF BuildBlock
  <2>3. CASE OpenRound
    BY <2>3 DEF OpenRound, OpenRoundWith
  <2>4. CASE AssignHeader
    BY <2>4 DEF AssignHeader
  <2>5. CASE ResetRound
    BY <2>5 DEF ResetRound, ResetRoundTo
  <2>6. CASE WakeMiners \/ AwaitMiners \/ FallAsleep \/ BlockValidated
    BY <2>6 DEF WakeMiners, AwaitMiners, FallAsleep, BlockValidated
  <2>7. CASE BlockRejected \/ PayMiners
    <3>1. server \in {"submit", "pay"}
      BY <2>7 DEF BlockRejected, PayMiners
    <3>2. ~Header_disponible
      BY <3>1 DEF NonceInv, InRound
    <3>3. server' = "fetch" /\ UNCHANGED <<round, Header_para_minar, flags, header>>
      BY <2>7 DEF BlockRejected, PayMiners, LoopOrEnd
    <3> QED  BY <3>1, <3>2, <3>3
  <2> QED  BY <1>1, <2>1, <2>2, <2>3, <2>4, <2>5, <2>6, <2>7 DEF ServerStep
<1>2. ASSUME NEW p \in Miners, HandlerStep(p)
      PROVE  HeaderInv'
  <2>1. CASE AcceptMiner(p)
    BY <2>1 DEF AcceptMiner
  <2>2. CASE JoinPool(p) \/ EndJoin(p)
    <3>1. UNCHANGED <<server, headers, flags, payroll, header>>
      BY <2>2 DEF JoinPool, EndJoin
    <3> QED  BY <3>1
  <2>3. CASE RequestedHeader(p)
    <3>1. Enters /\ UNCHANGED <<server, headers, flags, payroll>>
      BY <2>3 DEF RequestedHeader
    <3>2. CASE HeaderReady
      <4>1. server = "wait"
        BY <3>1, <3>2, EntersAlone DEF SInside, HeaderReady
      <4>2. header' = [header EXCEPT ![p] = Header_para_minar]
        BY <2>3, <3>2 DEF RequestedHeader
      <4> QED  BY <3>1, <4>1, <4>2
    <3>3. CASE ~HeaderReady
      <4>1. UNCHANGED header
        BY <2>3, <3>3 DEF RequestedHeader
      <4> QED  BY <3>1, <4>1
    <3> QED  BY <3>2, <3>3
  <2>4. ASSUME p \in mining, ~SInside, MinerIsDone(p),
               Header_disponible' \in {FALSE, Header_disponible},
               UNCHANGED <<server, round, Header_para_minar, header>>
        PROVE  HeaderInv'
    <3>1. server = "wait"
      BY <2>4, WaitsForNonce
    <3> QED  BY <2>4, <3>1
  <2>5. CASE RequestedState(p) \/ GotNonce(p)
    <3>1. CASE ToldFound(p)
      BY <2>4, <2>5, <3>1, EntersAlone DEF RequestedState, GotNonce, InDojob, ToldFound
    <3>2. CASE UNCHANGED <<server, headers, flags, payroll, header>>
      BY <3>2
    <3> QED  BY <2>5, <3>1, <3>2 DEF RequestedState, GotNonce
  <2>6. CASE RecvNonce(p)
    <3>1. p \in mining /\ ~SInside
      BY <2>6 DEF RecvNonce, WorkInv, LockInv, Inside
    <3>2. /\ MinerIsDone(p) /\ Header_disponible' = FALSE
          /\ UNCHANGED <<server, round, Header_para_minar, header>>
      BY <2>6 DEF RecvNonce
    <3> QED  BY <2>4, <3>1, <3>2
  <2>7. CASE ServeHeader(p) \/ GotShare(p) \/ CountShare(p) \/ NextRequest(p)
    <3>1. UNCHANGED <<server, headers, flags, transactions, header>>
      BY <2>7 DEF ServeHeader, GotShare, CountShare, NextRequest
    <3> QED  BY <3>1
  <2> QED  BY <1>2, <2>1, <2>2, <2>3, <2>5, <2>6, <2>7 DEF HandlerStep
<1>3. CASE CountMiner \/ StandStill \/ \E t \in Miners \cup {"S"} : SpuriousWakeup(t)
  <2>1. UNCHANGED <<server, headers, flags, payroll, header>>
    BY <1>3 DEF CountMiner, SpuriousWakeup, StandStill
  <2> QED  BY <2>1
<1> QED  BY <1>1, <1>2, <1>3 DEF QuietStep

\* A miner that is paid ends its work.
LEMMA WorkEnds ==
    ASSUME Typed, WorkInv, NEW p \in mining, MinerIsDone(p)
    PROVE  /\ p \in Working /\ Working' = Working \ {p}
           /\ \A q \in Miners : handler'[q] \notin {"none", "start", "joining"}
                <=> handler[q] \notin {"none", "start", "joining"}
<1>1. p \in Miners /\ handler[p] \in {"recv", "count", "nonce", "loop"}
  BY DEF Typed, LocalsTyped, WorkInv
<1>2. mining' = mining \ {p} /\ handler' = [handler EXCEPT ![p] = "loop"]
  BY DEF MinerIsDone, Idles, Goes
<1> QED  BY <1>1, <1>2 DEF Typed, LocalsTyped, Working

\* The payments with one more, of a miner that had none.
LEMMA PaidOnceMore ==
    ASSUME Typed, NEW p \in Miners, ~Paid(p), NEW n \in Nat, NEW total \in Nat,
           PayMiner(p, n, total),
           \A i, k \in 1..Len(transactions) : transactions[i].to = transactions[k].to => i = k
    PROVE  /\ Len(transactions') = Len(transactions) + 1
           /\ \A i, k \in 1..Len(transactions') :
                transactions'[i].to = transactions'[k].to => i = k
           /\ \A q \in Miners : Paid(q)' <=> Paid(q) \/ q = p
<1> DEFINE last == [to |-> p, share |-> n, total |-> total]
<1>1. transactions \in Seq([to : Miners, share : Nat, total : Nat])
  BY DEF Typed, RoundTyped
<1>2. transactions' = Append(transactions, last) /\ last.to = p
  BY DEF PayMiner
<1>3. last \in [to : Miners, share : Nat, total : Nat]
  OBVIOUS
<1> HIDE DEF last
<1>4. /\ Len(transactions') = Len(transactions) + 1 /\ Len(transactions) \in Nat
      /\ \A i \in 1..Len(transactions) : transactions'[i] = transactions[i]
      /\ transactions'[Len(transactions) + 1].to = p
  BY <1>1, <1>2, <1>3
<1>5. \A i \in 1..Len(transactions) : transactions[i].to # p
  BY DEF Paid
<1>6. \A i, k \in 1..Len(transactions') : transactions'[i].to = transactions'[k].to => i = k
  <2> TAKE i, k \in 1..Len(transactions')
  <2>1. /\ i \in 1..Len(transactions) \/ i = Len(transactions) + 1
        /\ k \in 1..Len(transactions) \/ k = Len(transactions) + 1
    BY <1>4
  <2> QED  BY <2>1, <1>4, <1>5
<1>7. \A q \in Miners : Paid(q)' <=> Paid(q) \/ q = p
  <2> TAKE q \in Miners
  <2>1. ASSUME Paid(q) PROVE \E i \in 1..Len(transactions') : transactions'[i].to = q
    BY <2>1, <1>4 DEF Paid
  <2>2. ASSUME q = p PROVE \E i \in 1..Len(transactions') : transactions'[i].to = q
    BY <2>2, <1>4
  <2>3. ASSUME NEW i \in 1..Len(transactions'), transactions'[i].to = q
        PROVE  Paid(q) \/ q = p
    BY <2>3, <1>4 DEF Paid
  <2> QED  BY <2>1, <2>2, <2>3 DEF Paid
<1> QED  BY <1>4, <1>6, <1>7

LEMMA PayeesTyped ==
    ASSUME NEW t \in Seq([to : Miners, share : Nat, total : Nat])
    PROVE  Len(t) \in Nat /\ \A i \in 1..Len(t) : t[i].to \in Miners
<1> DEFINE Payments == [to : Miners, share : Nat, total : Nat]
<1>1. \A r \in Payments : r.to \in Miners
  OBVIOUS
<1>2. t \in Seq(Payments)
  OBVIOUS
<1> HIDE DEF Payments
<1>3. Len(t) \in Nat /\ \A i \in 1..Len(t) : t[i] \in Payments
  BY <1>2
<1> QED  BY <1>1, <1>3

\* When there are as many payments, to different members of a list, as the list has
\* members, every one of them is paid.
LEMMA AllPaid ==
    ASSUME NEW s \in Seq(Miners), NEW t, Len(t) = Len(s), Distinct(s),
           \A i, k \in 1..Len(t) : t[i].to = t[k].to => i = k,
           \A i \in 1..Len(t) : \E k \in 1..Len(s) : s[k] = t[i].to
    PROVE  \A k \in 1..Len(s) : \E i \in 1..Len(t) : t[i].to = s[k]
<1> DEFINE payees == [i \in 1..Len(t) |-> t[i].to]
<1>1. Len(t) \in Nat /\ \A i \in 1..Len(t) : t[i].to \in Miners
  OBVIOUS
<1>2. payees \in Seq(Miners) /\ Len(payees) = Len(t)
  BY <1>1
<1>3. \A i \in 1..Len(t) : payees[i] = t[i].to
  OBVIOUS
<1> HIDE DEF payees
<1>4. Distinct(payees)
  BY <1>2, <1>3 DEF Distinct
<1>10. ASSUME NEW i \in 1..Len(payees)
      PROVE  payees[i] \in Members(s)
  <2>1. PICK k \in 1..Len(s) : s[k] = t[i].to
    BY <1>2
  <2>2. payees[i] = s[k]
    BY <1>2, <1>3, <2>1
  <2> QED  BY <2>2 DEF Members
<1>5. ASSUME NEW payee \in Members(payees)
      PROVE  payee \in Members(s)
  <2>1. PICK i \in 1..Len(payees) : payee = payees[i]
    BY DEF Members
  <2> QED  BY <2>1, <1>10
<1>6. Members(payees) = Members(s)
  <2>1. Members(payees) \subseteq Members(s)
    BY <1>5
  <2> QED  BY <1>2, <1>4, <2>1, SameLengthSameMembers
<1> SUFFICES ASSUME NEW k \in 1..Len(s)
             PROVE  \E i \in 1..Len(t) : t[i].to = s[k]
  OBVIOUS
<1>7. s[k] \in Members(payees)
  BY <1>6 DEF Members
<1>8. \E i \in 1..Len(payees) : payees[i] = s[k]
  BY <1>7 DEF Members
<1> QED  BY <1>2, <1>3, <1>8

\* A miner is told, or tells, that a nonce was found.
LEMMA MinerIsPaid ==
    ASSUME Typed, Typed', MembersInv, MembersInv', WorkInv, PayInv, NonceInv, NEW p \in mining,
           server = "wait", MinerIsDone(p), NEW n \in Nat, NEW total \in Nat,
           PayMiner(p, n, total), UNCHANGED <<server, round, header, RD>>
    PROVE  PayInv' /\ (Header_valido' => Working' = {})
<1>1. /\ p \in Miners /\ p \in Working /\ Working' = Working \ {p}
      /\ \A q \in Miners : handler'[q] \notin {"none", "start", "joining"}
           <=> handler[q] \notin {"none", "start", "joining"}
  BY WorkEnds DEF Typed, LocalsTyped
<1>2. /\ terminaron = Len(transactions)
      /\ \A i, k \in 1..Len(transactions) : transactions[i].to = transactions[k].to => i = k
      /\ \A q \in Miners : header[q] = round <=> q \in Working \/ Paid(q)
      /\ \A q \in Miners : Paid(q) => q \notin Working /\ Registered(q)
  BY DEF PayInv, InRound
<1>3. ~Paid(p)
  BY <1>1, <1>2
<1>4. /\ Len(transactions') = Len(transactions) + 1
      /\ \A i, k \in 1..Len(transactions') :
           transactions'[i].to = transactions'[k].to => i = k
      /\ \A q \in Miners : Paid(q)' <=> Paid(q) \/ q = p
  BY <1>1, <1>2, <1>3, PaidOnceMore
<1>5. terminaron' = terminaron + 1
  BY DEF MinerIsDone
<1>6. \A q \in Miners : Registered(q)' <=> Registered(q)
  BY DEF Registered
<1>7. Registered(p)
  BY <1>1 DEF MembersInv, WorkInv
<1>8. /\ \A q \in Miners : header'[q] = round' <=> q \in Working' \/ Paid(q)'
      /\ \A q \in Miners : Paid(q)' => q \notin Working' /\ Registered(q)'
  BY <1>1, <1>2, <1>4, <1>6, <1>7
<1>9. PayInv'
  BY <1>2, <1>4, <1>5, <1>8 DEF PayInv
<1>10. ASSUME Header_valido'
       PROVE  Working' = {}
  <2>1. ~Header_valido
    BY <1>1 DEF NonceInv, InRound
  <2>2. terminaron' = Len(RD')
    BY <1>5, <1>10, <2>1 DEF MinerIsDone, AllDone
  <2>3. Len(transactions') = Len(RD')
    BY <1>2, <1>4, <1>5, <2>2
  <2>4. \A i \in 1..Len(transactions') : \E k \in 1..Len(RD') : RD'[k] = transactions'[i].to
    <3> TAKE i \in 1..Len(transactions')
    <3>1. transactions'[i].to \in Miners
      BY PayeesTyped DEF Typed, RoundTyped
    <3>2. PICK q \in Miners : q = transactions'[i].to
      BY <3>1
    <3>3. Paid(q)'
      BY <3>2 DEF Paid
    <3>4. Registered(q)'
      BY <1>8, <3>3
    <3> QED  BY <3>2, <3>4 DEF Registered
  <2>5. \A k \in 1..Len(RD') : \E i \in 1..Len(transactions') : transactions'[i].to = RD'[k]
    <3>1. RD' \in Seq(Miners) /\ transactions' \in Seq([to : Miners, share : Nat, total : Nat])
      BY DEF Typed, SharedTyped, RoundTyped
    <3>2. Distinct(RD')
      BY DEF MembersInv, Distinct
    <3>3. \A i, k \in 1..Len(transactions') :
            transactions'[i].to = transactions'[k].to => i = k
      BY <1>4
    <3> QED  BY <2>3, <2>4, <3>1, <3>2, <3>3, AllPaid
  <2>6. ASSUME NEW q \in Working'
        PROVE  FALSE
    <3>1. q \in Miners /\ q \in Working
      BY <1>1, <2>6 DEF Typed, LocalsTyped, Working
    <3>2. handler[q] \notin {"none", "start", "joining"}
      BY <3>1 DEF Working, WorkInv
    <3>3. Registered(q)'
      BY <1>6, <3>1, <3>2 DEF MembersInv
    <3>4. Paid(q)'
      BY <2>5, <3>3 DEF Registered, Paid
    <3> QED  BY <1>8, <2>6, <3>1, <3>4
  <2> QED  BY <2>6
<1> QED  BY <1>9, <1>10

LEMMA RoundKept ==
    ASSUME Typed, Typed', NothingEnds, LockInv, MembersInv, MembersInv', WorkInv, HeaderInv,
           NonceInv, PayInv, QuietStep, ~overlapped'
    PROVE  NonceInv' /\ PayInv'
<1> DEFINE Flags == <<server, round, Header_minado, Header_disponible, Header_valido,
                      Noncecorrecto, terminaron, transactions, header>>
<1>1. ASSUME UNCHANGED Flags, Working' = Working,
             \A q \in Miners : Registered(q) => Registered(q)'
      PROVE  NonceInv' /\ PayInv'
  <2>1. \A q \in Miners : Paid(q)' <=> Paid(q)
    BY <1>1 DEF Paid
  <2>2. NonceInv'
    BY <1>1 DEF NonceInv, InRound
  <2>3. InRound' <=> InRound
    BY <1>1 DEF InRound
  <2>4. PayInv'
    BY <1>1, <2>1, <2>3 DEF PayInv
  <2> QED  BY <2>2, <2>4
<1>2. CASE ~InRound'
  BY <1>2 DEF NonceInv, PayInv
<1>3. CASE ServerStep
  <2>1. CASE WakeMiners
    <3>1. /\ server = "wake" /\ server' = "check"
          /\ UNCHANGED <<round, Header_minado, Header_disponible, Header_valido,
                         Noncecorrecto, terminaron, transactions, header, handler, mining>>
      BY <2>1 DEF WakeMiners, flags, headers, payroll, locals
    <3>2. /\ transactions' = <<>> /\ ~Header_valido' /\ terminaron' = 0 /\ ~Noncecorrecto'
          /\ \A p \in Miners : header'[p] < round'
      BY <3>1 DEF HeaderInv
    <3>3. Working' = {}
      BY <3>1 DEF WorkInv, Working
    <3>4. \A p \in Miners : ~Paid(p)'
      BY <3>2 DEF Paid
    <3>5. \A p \in Miners : header'[p] # round'
      BY <3>2 DEF Typed, LocalsTyped, RoundTyped
    <3>6. NonceInv'
      BY <3>1, <3>2, <3>3 DEF NonceInv
    <3>7. PayInv'
      BY <3>2, <3>3, <3>4, <3>5 DEF PayInv
    <3> QED  BY <3>6, <3>7
  <2>2. CASE AwaitMiners \/ FallAsleep \/ BlockValidated
    <3>1. /\ InRound /\ UNCHANGED <<round, Header_minado, Header_disponible, Header_valido,
                                    Noncecorrecto, terminaron, transactions, header,
                                    handler, mining, RD>>
      BY <2>2 DEF AwaitMiners, FallAsleep, BlockValidated, InRound, flags, headers,
                  payroll, locals, members
    <3>2. server' \in {"submit", "pay"} => Header_valido
      BY <2>2 DEF AwaitMiners, FallAsleep, BlockValidated, NonceInv, InRound, NothingEnds
    <3>3. \A q \in Miners : (Paid(q)' <=> Paid(q)) /\ (Registered(q)' <=> Registered(q))
      BY <3>1 DEF Paid, Registered
    <3>4. Working' = Working
      BY <3>1 DEF Working
    <3>5. NonceInv'
      BY <3>1, <3>2, <3>4 DEF NonceInv
    <3>6. PayInv'
      BY <3>1, <3>3, <3>4 DEF PayInv
    <3> QED  BY <3>5, <3>6
  <2>3. CASE \/ STakesLock \/ BuildBlock \/ OpenRound \/ AssignHeader \/ ResetRound
             \/ BlockRejected \/ PayMiners
    <3>1. ~InRound'
      BY <2>3 DEF STakesLock, BuildBlock, OpenRound, OpenRoundWith, AssignHeader,
         ResetRound, ResetRoundTo, BlockRejected, PayMiners, LoopOrEnd, InRound
    <3> QED  BY <3>1, <1>2
  <2> QED  BY <1>3, <2>1, <2>2, <2>3 DEF ServerStep
<1>4. ASSUME NEW p \in Miners, HandlerStep(p)
      PROVE  NonceInv' /\ PayInv'
  <2> USE DEF Goes, headers, flags, payroll, members, locals
  <2> USE DEF Typed, LocalsTyped
  <2>1. CASE AcceptMiner(p)
    <3>1. UNCHANGED Flags /\ UNCHANGED RD
      BY <2>1 DEF AcceptMiner
    <3>2. Working' = Working
      BY <2>1 DEF AcceptMiner, Working
    <3> QED  BY <3>1, <3>2, <1>1 DEF Registered
  <2>2. CASE JoinPool(p) \/ EndJoin(p)
    <3>1. UNCHANGED Flags
      BY <2>2 DEF JoinPool, EndJoin
    <3>2. UNCHANGED mining /\ p \notin Working /\ handler'[p] # "serve"
          /\ \A q \in Miners \ {p} : handler'[q] = handler[q]
      <4>1. handler[p] \in {"start", "joining"} /\ UNCHANGED mining
        BY <2>2 DEF JoinPool, EndJoin
      <4>2. UNCHANGED handler \/ \E place \in {"recv", "joining"} : Goes(p, place)
        BY <2>2 DEF JoinPool, EndJoin, Register, Serves, NothingEnds
      <4> QED  BY <4>1, <4>2 DEF Working, WorkInv
    <3>3. Working' = Working
      BY <3>2 DEF Working
    <3>4. ASSUME NEW q \in Miners, Registered(q) PROVE Registered(q)'
      <4>1. handler[q] \notin {"none", "start", "joining"}
        BY <3>4 DEF MembersInv
      <4>2. q # p
        BY <2>2, <4>1 DEF JoinPool, EndJoin
      <4> QED  BY <3>2, <4>1, <4>2 DEF MembersInv
    <3> QED  BY <3>1, <3>3, <3>4, <1>1
  <2>3. CASE RequestedHeader(p)
    <3>1. /\ handler[p] \in {"recv", "awaiting"} /\ p \notin mining /\ Enters
          /\ UNCHANGED <<server, round, Header_minado, Header_disponible, Header_valido,
                         Noncecorrecto, terminaron, transactions, mining, RD>>
      BY <2>3 DEF RequestedHeader, InGetWU, WorkInv
    <3>2. CASE HeaderReady
      <4>1. /\ handler' = [handler EXCEPT ![p] = "serve"]
            /\ header' = [header EXCEPT ![p] = Header_para_minar]
        BY <2>3, <3>2 DEF RequestedHeader
      <4>2. server = "wait"
        BY <3>1, <3>2, EntersAlone DEF SInside, HeaderReady, HeaderInv, NothingEnds
      <4>3. Working' = Working \cup {p}
        BY <3>1, <4>1 DEF Working
      <4>4. ~Noncecorrecto /\ transactions = <<>> /\ ~Header_valido
        BY <3>2, <4>2 DEF NonceInv, InRound, HeaderReady
      <4>5. \A q \in Miners : ~Paid(q) /\ ~Paid(q)'
        BY <3>1, <4>4 DEF Paid
      <4>6. Header_para_minar = round
        BY <4>2 DEF HeaderInv
      <4>7. \A q \in Miners : header'[q] = round' <=> q \in Working' \/ Paid(q)'
        BY <3>1, <4>1, <4>2, <4>3, <4>5, <4>6 DEF PayInv, InRound
      <4>8. NonceInv'
        BY <3>1, <3>2, <4>2, <4>4 DEF NonceInv, HeaderReady
      <4>9. PayInv'
        BY <3>1, <4>2, <4>5, <4>7 DEF PayInv, InRound
      <4> QED  BY <4>8, <4>9
    <3>3. CASE ~HeaderReady
      <4>1. handler' = [handler EXCEPT ![p] = "awaiting"] /\ UNCHANGED header
        BY <2>3, <3>3 DEF RequestedHeader
      <4>2. Working' = Working
        BY <3>1, <4>1 DEF Working
      <4> QED  BY <3>1, <4>1, <4>2, <1>1 DEF Registered
    <3> QED  BY <3>2, <3>3
  <2>4. CASE ServeHeader(p)
    <3>1. UNCHANGED Flags /\ UNCHANGED RD
      BY <2>4 DEF ServeHeader
    <3>2. handler[p] = "serve" /\ Goes(p, "loop") /\ mining' = mining \cup {p}
      BY <2>4 DEF ServeHeader
    <3>3. Working' = Working
      BY <3>2 DEF Working
    <3> QED  BY <3>1, <3>3, <1>1 DEF Registered
  <2>5. CASE GotShare(p) \/ CountShare(p) \/ NextRequest(p)
    <3>1. UNCHANGED Flags /\ UNCHANGED RD /\ UNCHANGED mining
      BY <2>5 DEF GotShare, CountShare, NextRequest
    <3>2. handler[p] # "serve" /\ \E place \in {"count", "loop", "recv"} : Goes(p, place)
      BY <2>5 DEF GotShare, CountShare, NextRequest, InDojob
    <3>3. Working' = Working
      BY <3>1, <3>2 DEF Working
    <3> QED  BY <3>1, <3>3, <1>1 DEF Registered
  <2>6. CASE RecvNonce(p)
    <3>1. p \in mining /\ ~SInside
      BY <2>6 DEF RecvNonce, WorkInv, LockInv, Inside
    <3>2. server = "wait"
      BY <3>1, WaitsForNonce
    <3>3. /\ share[p] + 1 \in Nat /\ totalshares + 1 \in Nat
          /\ PayMiner(p, share[p] + 1, totalshares + 1)
          /\ MinerIsDone(p) /\ UNCHANGED <<server, round, header, RD>>
      BY <2>6 DEF RecvNonce, RoundTyped
    <3>4. PayInv' /\ (Header_valido' => Working' = {})
      BY <3>1, <3>2, <3>3, MinerIsPaid
    <3>5. header[p] = round
      BY <3>1, <3>2 DEF PayInv, InRound, Working
    <3>6. Header_minado' = round' /\ Noncecorrecto' /\ ~Header_disponible'
      BY <2>6, <3>5 DEF RecvNonce
    <3>7. NonceInv'
      BY <3>2, <3>3, <3>4, <3>6 DEF NonceInv
    <3> QED  BY <3>4, <3>7
  <2>7. ASSUME ToldFound(p), InDojob(p), Enters, Noncecorrecto
        PROVE  NonceInv' /\ PayInv'
    <3>1. p \in mining /\ ~SInside
      BY <2>7, EntersAlone DEF InDojob
    <3>2. server = "wait"
      BY <3>1, WaitsForNonce
    <3>3. /\ share[p] \in Nat /\ totalshares \in Nat
          /\ PayMiner(p, share[p], totalshares)
          /\ MinerIsDone(p) /\ UNCHANGED <<server, round, header, RD>>
      BY <2>7 DEF ToldFound, RoundTyped
    <3>4. PayInv' /\ (Header_valido' => Working' = {})
      BY <3>1, <3>2, <3>3, MinerIsPaid
    <3>5. UNCHANGED <<Header_minado, Noncecorrecto, Header_disponible>>
      BY <2>7 DEF ToldFound
    <3>6. NonceInv'
      BY <2>7, <3>2, <3>3, <3>4, <3>5 DEF NonceInv, InRound
    <3> QED  BY <3>4, <3>6
  <2>8. CASE RequestedState(p)
    <3>1. CASE Noncecorrecto
      BY <2>7, <2>8, <3>1 DEF RequestedState
    <3>2. CASE ~Noncecorrecto
      <4>1. UNCHANGED Flags /\ UNCHANGED RD /\ UNCHANGED mining
        BY <2>8, <3>2 DEF RequestedState
      <4>2. handler[p] = "recv" /\ Goes(p, "loop")
        BY <2>8, <3>2 DEF RequestedState, InDojob
      <4>3. Working' = Working
        BY <4>1, <4>2 DEF Working
      <4> QED  BY <4>1, <4>3, <1>1 DEF Registered
    <3> QED  BY <3>1, <3>2
  <2>9. CASE GotNonce(p)
    <3>1. InDojob(p) /\ Enters
      BY <2>9 DEF GotNonce
    <3>2. headernumber = headnum[p]
      BY <3>1 DEF WorkInv, Working, InDojob
    <3>3. CASE Noncecorrecto
      BY <2>7, <2>9, <3>1, <3>3 DEF GotNonce
    <3>4. CASE ~Noncecorrecto
      <4>1. UNCHANGED Flags /\ UNCHANGED RD /\ UNCHANGED mining
        BY <2>9, <3>2, <3>4 DEF GotNonce
      <4>2. handler[p] = "recv" /\ Goes(p, "nonce")
        BY <2>9, <3>2, <3>4 DEF GotNonce, InDojob
      <4>3. Working' = Working
        BY <4>1, <4>2 DEF Working
      <4> QED  BY <4>1, <4>3, <1>1 DEF Registered
    <3> QED  BY <3>3, <3>4
  <2> QED  BY <1>4, <2>1, <2>2, <2>3, <2>4, <2>5, <2>6, <2>8, <2>9 DEF HandlerStep
<1>5. CASE CountMiner \/ StandStill \/ \E t \in Miners \cup {"S"} : SpuriousWakeup(t)
  <2>1. UNCHANGED Flags /\ UNCHANGED <<RD, mining, handler>>
    BY <1>5 DEF CountMiner, SpuriousWakeup, StandStill, flags, headers, payroll, members, locals
  <2>2. Working' = Working
    BY <2>1 DEF Working
  <2> QED  BY <2>1, <2>2, <1>1 DEF Registered
<1> QED  BY <1>3, <1>4, <1>5 DEF QuietStep

LEMMA PayeesKept ==
    ASSUME Typed, NothingEnds, LockInv, WorkInv, PayeesInv, PayInv', QuietStep, ~overlapped'
    PROVE  PayeesInv'
<1>1. CASE transactions' = transactions
  BY <1>1 DEF PayeesInv
<1>2. CASE transactions' = <<>>
  BY <1>2 DEF PayeesInv
<1>3. CASE InRound'
  BY <1>3 DEF PayInv, PayeesInv
<1>4. CASE ServerStep
  BY <1>1, <1>2, <1>4 DEF ServerStep, STakesLock, BuildBlock, OpenRound, OpenRoundWith,
     AssignHeader, ResetRound, ResetRoundTo, WakeMiners, AwaitMiners, FallAsleep,
     BlockRejected, BlockValidated, PayMiners, payroll
<1>5. ASSUME NEW p \in Miners, HandlerStep(p)
      PROVE  PayeesInv'
  <2>1. ASSUME p \in mining, ~SInside, UNCHANGED server
        PROVE  PayeesInv'
    <3>1. server = "wait"
      BY <2>1, WaitsForNonce
    <3> QED  BY <2>1, <3>1, <1>3 DEF InRound
  <2>2. CASE RequestedState(p) \/ GotNonce(p)
    <3>1. InDojob(p) /\ Enters
      BY <2>2 DEF RequestedState, GotNonce
    <3>2. UNCHANGED server
      BY <2>2 DEF RequestedState, GotNonce, ToldFound
    <3> QED  BY <3>1, <3>2, <2>1, EntersAlone DEF InDojob
  <2>3. CASE RecvNonce(p)
    <3>1. p \in mining /\ ~SInside /\ UNCHANGED server
      BY <2>3 DEF RecvNonce, WorkInv, LockInv, Inside
    <3> QED  BY <3>1, <2>1
  <2>4. CASE \/ AcceptMiner(p) \/ JoinPool(p) \/ EndJoin(p) \/ RequestedHeader(p)
             \/ ServeHeader(p) \/ GotShare(p) \/ CountShare(p) \/ NextRequest(p)
    BY <1>1, <2>4 DEF AcceptMiner, JoinPool, EndJoin, RequestedHeader, ServeHeader, GotShare,
       CountShare, NextRequest, payroll
  <2> QED  BY <1>5, <2>2, <2>3, <2>4 DEF HandlerStep
<1>6. CASE CountMiner \/ StandStill \/ \E t \in Miners \cup {"S"} : SpuriousWakeup(t)
  BY <1>1, <1>6 DEF CountMiner, SpuriousWakeup, StandStill, payroll
<1> QED  BY <1>4, <1>5, <1>6 DEF QuietStep
-----------------------------------------------------------------------------
(* The invariant.                                                           *)

LEMMA InitIInv ==
    ASSUME Init
    PROVE  BaseInv /\ IInv
<1> USE PoolAssumption DEF Init
<1>1. SharedTyped
  <2>1. RD \in Seq(Miners) /\ j \in Int /\ asleep \subseteq Threads
    OBVIOUS
  <2>2. /\ lock \in Threads \cup {"free"} /\ server \in ServerPlaces
        /\ main \in {"accept", "count"}
        /\ catching \in {"none", "flag", "signal", "valid", "done"}
    BY DEF Threads, ServerPlaces
  <2>3. waiting_thread \in BOOLEAN /\ flag \in BOOLEAN /\ up \in BOOLEAN
    OBVIOUS
  <2> QED  BY <2>1, <2>2, <2>3 DEF SharedTyped
<1>2. RoundTyped
  <2>1. transactions \in Seq([to : Miners, share : Nat, total : Nat])
    OBVIOUS
  <2>2. Header_disponible \in BOOLEAN /\ Header_valido \in BOOLEAN /\ Noncecorrecto \in BOOLEAN
    OBVIOUS
  <2>3. /\ round \in 0..MaxRounds /\ Header_para_minar \in 0..MaxRounds
        /\ Header_minado \in 0..MaxRounds /\ headernumber \in Nat
        /\ terminaron \in Nat /\ totalshares \in Nat
    OBVIOUS
  <2> QED  BY <2>1, <2>2, <2>3 DEF RoundTyped
<1>3. LocalsTyped
  BY DEF LocalsTyped, HandlerPlaces, Uncut
<1>4. Working = {}
  BY DEF Working
<1>5. NothingEnds /\ LockInv
  BY DEF NothingEnds, LockInv, Inside, SInside
<1>6. MembersInv
  BY DEF MembersInv, Registered
<1>7. WorkInv /\ CutInv
  BY <1>4 DEF WorkInv, CutInv
<1>8. HeaderInv
  BY DEF HeaderInv
<1>9. NonceInv /\ PayInv /\ PayeesInv
  BY DEF NonceInv, PayInv, PayeesInv, InRound
<1> QED  BY <1>1, <1>2, <1>3, <1>5, <1>6, <1>7, <1>8, <1>9 DEF BaseInv, IInv, Typed

LEMMA NextBaseInv ==
    ASSUME Quiet, BaseInv, [Next]_vars
    PROVE  BaseInv'
<1> USE DEF BaseInv
<1>1. QuietStep
  BY StepsAreQuiet
<1>2. Typed' /\ NothingEnds'
  BY <1>1, TypedKept, NothingEndsKept
<1>3. MembersInv' /\ CutInv'
  BY <1>1, MembersKept, CutKept
<1>4. overlapped' \in BOOLEAN
  BY OverlapStays
<1> QED  BY <1>2, <1>3, <1>4

LEMMA NextIInv ==
    ASSUME QuietStep, [Next]_vars, IInv, ~overlapped', BaseInv'
    PROVE  IInv'
<1> USE DEF IInv, BaseInv
<1>1. LockInv' /\ WorkInv' /\ HeaderInv'
  BY LockKept, WorkKept, HeaderKept DEF Typed, LocalsTyped
<1>2. NonceInv' /\ PayInv'
  BY RoundKept
<1>3. PayeesInv'
  BY <1>2, PayeesKept
<1> QED  BY <1>1, <1>2, <1>3

LEMMA PoolInvariant ==
    ASSUME Quiet
    PROVE  Spec => [](BaseInv /\ (~overlapped => IInv))
<1> DEFINE Inv == BaseInv /\ (~overlapped => IInv)
<1>1. Init => Inv
  BY InitIInv
<1>2. Inv /\ [Next]_vars => Inv'
  <2> SUFFICES ASSUME Inv, [Next]_vars
               PROVE  Inv'
    OBVIOUS
  <2>1. BaseInv' /\ QuietStep
    BY NextBaseInv, StepsAreQuiet DEF BaseInv
  <2>2. ASSUME ~overlapped'
        PROVE  IInv'
    <3>1. ~overlapped
      BY <2>2, OverlapStays DEF BaseInv
    <3> QED  BY <2>1, <2>2, <3>1, NextIInv
  <2> QED  BY <2>1, <2>2
<1> QED  BY <1>1, <1>2, PTL DEF Spec
-----------------------------------------------------------------------------
(* What it says.                                                            *)

\* Globals and locals keep to their types, nobody is registered twice, and the
\* payments of a round fit in an array with an entry for each miner.
THEOREM PoolTypeCorrect ==
    ASSUME Quiet
    PROVE  Spec => []TypeOK
<1>1. ASSUME BaseInv
      PROVE  Typed /\ overlapped \in BOOLEAN /\ Len(RD) = Cardinality(ToSet(RD))
  <2>1. Typed /\ RD \in Seq(Miners)
    BY <1>1 DEF BaseInv, Typed, SharedTyped
  <2>2. Distinct(RD)
    BY <1>1 DEF BaseInv, MembersInv, Distinct
  <2>3. ToSet(RD) = Members(RD)
    BY <2>1 DEF ToSet, Members
  <2>4. Len(RD) = Cardinality(ToSet(RD))
    BY <2>1, <2>2, <2>3, DistinctLength
  <2> QED  BY <1>1, <2>1, <2>4 DEF BaseInv
<1>2. ASSUME IInv
      PROVE  Len(transactions) <= Cardinality(Miners)
  <2> DEFINE payees == [i \in 1..Len(transactions) |-> transactions[i].to]
  <2>1. Len(transactions) \in Nat /\ \A i \in 1..Len(transactions) : transactions[i].to \in Miners
    BY <1>2, PayeesTyped DEF IInv, Typed, RoundTyped
  <2>2. payees \in Seq(Miners) /\ Len(payees) = Len(transactions)
    BY <2>1
  <2>3. Distinct(payees)
    BY <1>2, <2>2 DEF IInv, PayeesInv, Distinct
  <2> HIDE DEF payees
  <2> QED  BY <2>2, <2>3, DistinctBound, PoolAssumption
<1>3. BaseInv /\ (~overlapped => IInv) => TypeOK
  BY <1>1, <1>2 DEF TypeOK
<1> QED  BY <1>3, PoolInvariant, PTL

\* S leaves a round behind only when no miner is at work in it or is about to be.
THEOREM RoundsDoNotMix ==
    ASSUME Quiet
    PROVE  Spec => []RoundBarrier
<1>1. BaseInv /\ (~overlapped => IInv) => RoundBarrier
  BY DEF IInv, WorkInv, Working, RoundBarrier
<1> QED  BY <1>1, PoolInvariant, PTL

\* A block is submitted with a nonce, and one that was found for its header.
THEOREM NonceIsTheRounds ==
    ASSUME Quiet
    PROVE  Spec => []NonceIsCurrent
<1>1. BaseInv /\ (~overlapped => IInv) => NonceIsCurrent
  BY DEF IInv, Typed, RoundTyped, NonceInv, InRound, NonceIsCurrent
<1> QED  BY <1>1, PoolInvariant, PTL

\* When a block is submitted and paid, every miner that was sent its header has one
\* payment, and nobody else has any.
THEOREM EveryMinerIsPaidOnce ==
    ASSUME Quiet
    PROVE  Spec => []EveryMinerPaidOnce
<1>1. ASSUME IInv, server \in {"submit", "pay"}, NEW p \in Miners
      PROVE  Cardinality({i \in 1..Len(transactions) : transactions[i].to = p})
                = IF header[p] = round THEN 1 ELSE 0
  <2> DEFINE payments == {i \in 1..Len(transactions) : transactions[i].to = p}
  <2>1. header[p] = round <=> Paid(p)
    BY <1>1 DEF IInv, WorkInv, PayInv, InRound
  <2>2. ASSUME Paid(p)
        PROVE  Cardinality(payments) = 1
    <3>1. PICK i \in 1..Len(transactions) : transactions[i].to = p
      BY <2>2 DEF Paid
    <3>2. payments = {i}
      BY <1>1, <3>1 DEF IInv, PayeesInv
    <3> QED  BY <3>2, FS_Singleton
  <2>3. ASSUME ~Paid(p)
        PROVE  Cardinality(payments) = 0
    <3>1. payments = {}
      BY <2>3 DEF Paid
    <3> QED  BY <3>1, FS_EmptySet
  <2> QED  BY <2>1, <2>2, <2>3
<1>2. BaseInv /\ (~overlapped => IInv) => EveryMinerPaidOnce
  BY <1>1 DEF EveryMinerPaidOnce
<1> QED  BY <1>2, PoolInvariant, PTL

\* Miners that were cut the nonces of a header among as many do not share any.
THEOREM CutsAreDisjoint ==
    ASSUME Quiet
    PROVE  Spec => []RangesAreDisjoint
<1>1. ASSUME BaseInv, NEW p \in mining, NEW q \in mining, p # q, cut[p].size = cut[q].size
      PROVE  Share(cut[p].index, cut[p].size) \cap Share(cut[q].index, cut[q].size) = {}
  <2>1. /\ cut[p].index \in Nat /\ cut[q].index \in Nat
        /\ cut[p].size \in Nat \ {0} /\ cut[q].size \in Nat \ {0}
    BY <1>1 DEF BaseInv, Typed, LocalsTyped
  <2>2. cut[p].index # cut[q].index
    BY <1>1 DEF BaseInv, CutInv
  <2> QED  BY <1>1, <2>1, <2>2, SharesAreDisjoint
<1>2. BaseInv /\ (~overlapped => IInv) => RangesAreDisjoint
  BY <1>1 DEF RangesAreDisjoint
<1> QED  BY <1>2, PoolInvariant, PTL
-----------------------------------------------------------------------------
(* The shares, and what is paid for them.                                   *)
(*                                                                         *)
(* A miner's counted shares go from what is to be paid to what is paid     *)
(* when its payment is made, with nothing between: the two sums make       *)
(* totalshares, and what is paid is no more than totalshares.              *)

\* The shares of a miner that are counted in totalshares ...
Counted ==
    [p \in Miners |->
        IF p \notin Current THEN 0
        ELSE IF handler[p] = "count" THEN share[p] - 1 ELSE share[p]]

\* ... those that are not paid yet, and those that are, of which each payment has
\* its own.
Unpaid == [p \in Miners |-> IF Paid(p) THEN 0 ELSE Counted[p]]
Paying == [i \in 1..Len(transactions) |-> transactions[i].share]

SumInv ==
    /\ \A p \in Miners : handler[p] = "count" => share[p] > 0
    /\ Noncecorrecto => totalshares > 0
    /\ server # "reset" =>
         /\ Total(Counted, Miners) = totalshares
         /\ Total(Paying, 1..Len(transactions)) + Total(Unpaid, Miners) = totalshares

\* What a step does to the sums: it leaves them, starts a round, ...
SumsStay ==
    /\ server = "reset" => server' = "reset"
    /\ UNCHANGED <<Counted, totalshares, transactions>>

SumsRestart ==
    \/ server' = "reset" /\ UNCHANGED transactions
    \/ Counted' = [p \in Miners |-> 0] /\ totalshares' = 0 /\ transactions' = <<>>
    \/ UNCHANGED <<Counted, totalshares>> /\ server # "reset" /\ transactions' = <<>>

\* ... or counts n shares of p, and may pay p.
SumsGrow(p, n) ==
    /\ ~Paid(p) /\ server # "reset"
    /\ Counted' = [Counted EXCEPT ![p] = @ + n]
    /\ totalshares' = totalshares + n
    /\ \/ UNCHANGED transactions
       \/ totalshares' > 0 /\ PayMiner(p, Counted[p] + n, totalshares')

LEMMA CountedStays ==
    ASSUME UNCHANGED <<header, Header_para_minar, share>>,
           \A q \in Miners : /\ handler'[q] = "serve" <=> handler[q] = "serve"
                             /\ handler'[q] = "count" <=> handler[q] = "count"
    PROVE  Counted' = Counted
BY DEF Counted, Current

LEMMA PaymentsTyped ==
    ASSUME NEW t \in Seq([to : Miners, share : Nat, total : Nat])
    PROVE  Len(t) \in Nat /\ \A i \in 1..Len(t) : t[i].share \in Nat /\ t[i].total \in Nat
<1> DEFINE Payments == [to : Miners, share : Nat, total : Nat]
<1>1. \A r \in Payments : r.share \in Nat /\ r.total \in Nat
  OBVIOUS
<1>2. t \in Seq(Payments)
  OBVIOUS
<1> HIDE DEF Payments
<1>3. Len(t) \in Nat /\ \A i \in 1..Len(t) : t[i] \in Payments
  BY <1>2
<1> QED  BY <1>1, <1>3

\* A miner at work on the header, when S waits.
LEMMA WorkerIsCounted ==
    ASSUME IInv, NEW p \in mining, ~SInside
    PROVE  /\ p \in Miners /\ p \in Current /\ ~Paid(p) /\ server = "wait"
           /\ header[p] = round
           /\ share[p] \in Nat /\ totalshares \in Nat
           /\ handler[p] # "count" => Counted[p] = share[p]
<1> USE DEF IInv
<1>1. server = "wait"
  BY WaitsForNonce
<1>2. p \in Miners /\ p \in Working /\ handler[p] # "serve"
  BY DEF Typed, LocalsTyped, WorkInv, Working
<1>3. header[p] = round /\ ~Paid(p)
  BY <1>1, <1>2 DEF PayInv, InRound
<1>4. Header_para_minar = round
  BY <1>1 DEF HeaderInv
<1>5. p \in Current
  BY <1>2, <1>3, <1>4 DEF Current
<1>6. share[p] \in Nat /\ totalshares \in Nat
  BY <1>2 DEF Typed, LocalsTyped, RoundTyped
<1> QED  BY <1>1, <1>2, <1>3, <1>5, <1>6 DEF Counted

LEMMA CountedTyped ==
    ASSUME IInv, SumInv
    PROVE  Counted \in [Miners -> Nat] /\ Unpaid \in [Miners -> Nat]
<1>1. \A p \in Miners : share[p] \in Nat /\ (handler[p] = "count" => share[p] > 0)
  BY DEF IInv, Typed, LocalsTyped, SumInv
<1>2. Counted \in [Miners -> Nat]
  BY <1>1 DEF Counted
<1> QED  BY <1>2 DEF Unpaid

LEMMA SumsOfHandler ==
    ASSUME IInv, SumInv, NEW p \in Miners, HandlerStep(p), ~overlapped'
    PROVE  SumsStay \/ SumsGrow(p, 0) \/ SumsGrow(p, 1)
<1> USE DEF Goes, headers, flags, payroll, locals
<1>0. handler \in [Miners -> HandlerPlaces] /\ share \in [Miners -> Nat]
      /\ header \in [Miners -> 0..MaxRounds]
  BY DEF IInv, Typed, LocalsTyped
<1>12. Counted \in [Miners -> Nat]
  BY CountedTyped
<1>11. UNCHANGED server
  BY DEF HandlerStep, AcceptMiner, JoinPool, EndJoin, RequestedHeader, ServeHeader,
     RequestedState, GotShare, CountShare, GotNonce, RecvNonce, NextRequest, ToldFound
<1> USE <1>11
<1>1. CASE AcceptMiner(p) \/ NextRequest(p)
  <2>1. UNCHANGED <<header, Header_para_minar, share, totalshares, transactions>>
    BY <1>1 DEF AcceptMiner, NextRequest
  <2>2. handler[p] \in {"none", "loop"} /\ \E place \in {"start", "recv"} : Goes(p, place)
    BY <1>1 DEF AcceptMiner, NextRequest
  <2> QED  BY <1>0, <2>1, <2>2, CountedStays DEF SumsStay
<1>2. CASE JoinPool(p) \/ EndJoin(p)
  <2>1. UNCHANGED <<header, Header_para_minar, share, totalshares, transactions>>
    BY <1>2 DEF JoinPool, EndJoin
  <2>2. /\ handler[p] \in {"start", "joining"}
        /\ UNCHANGED handler \/ \E place \in {"joining", "recv", "gone"} : Goes(p, place)
    BY <1>2 DEF JoinPool, EndJoin, Register, Serves
  <2> QED  BY <1>0, <2>1, <2>2, CountedStays DEF SumsStay
<1>3. CASE RequestedHeader(p)
  <2>1. /\ handler[p] \in {"recv", "awaiting"} /\ p \notin mining /\ Enters
        /\ UNCHANGED <<totalshares, transactions, share, Header_para_minar>>
    BY <1>3 DEF RequestedHeader, InGetWU, IInv, WorkInv
  <2>2. CASE HeaderReady
    <3>1. /\ handler' = [handler EXCEPT ![p] = "serve"]
          /\ header' = [header EXCEPT ![p] = Header_para_minar]
      BY <1>3, <2>2 DEF RequestedHeader
    <3>2. server = "wait"
      BY <2>1, <2>2, EntersAlone DEF SInside, HeaderReady, IInv, HeaderInv, NothingEnds
    <3>3. transactions = <<>> /\ Header_para_minar = round
      BY <2>2, <3>2 DEF HeaderReady, IInv, NonceInv, InRound, HeaderInv
    <3>4. p \notin Working /\ ~Paid(p)
      BY <2>1, <3>3 DEF Working, Paid
    <3>5. p \notin Current
      BY <3>2, <3>3, <3>4 DEF Current, IInv, PayInv, InRound
    <3>6. Current' = Current
      BY <1>0, <2>1, <3>1, <3>5 DEF Current
    <3>7. Counted' = Counted
      BY <1>0, <2>1, <3>1, <3>5, <3>6 DEF Counted
    <3> QED  BY <2>1, <3>7 DEF SumsStay
  <2>3. CASE ~HeaderReady
    <3>1. handler' = [handler EXCEPT ![p] = "awaiting"] /\ UNCHANGED header
      BY <1>3, <2>3 DEF RequestedHeader
    <3> QED  BY <1>0, <2>1, <3>1, CountedStays DEF SumsStay
  <2> QED  BY <2>2, <2>3
<1>4. CASE ServeHeader(p)
  <2>1. /\ handler[p] = "serve" /\ handler' = [handler EXCEPT ![p] = "loop"]
        /\ share' = [share EXCEPT ![p] = 0]
        /\ UNCHANGED <<header, Header_para_minar, totalshares, transactions>>
    BY <1>4 DEF ServeHeader
  <2>2. p \notin Current
    BY <2>1 DEF Current
  <2>3. \A q \in Miners \ {p} : /\ handler'[q] = handler[q] /\ share'[q] = share[q]
                                /\ q \in Current' <=> q \in Current
    BY <1>0, <2>1 DEF Current
  <2>4. handler'[p] = "loop" /\ share'[p] = 0
    BY <1>0, <2>1
  <2>5. Counted' = Counted
    BY <2>2, <2>3, <2>4 DEF Counted
  <2> QED  BY <2>1, <2>5 DEF SumsStay
<1>5. ASSUME ToldFound(p), InDojob(p), Enters, Noncecorrecto
      PROVE  SumsGrow(p, 0)
  <2>1. p \in mining /\ ~SInside /\ handler[p] = "recv"
    BY <1>5, EntersAlone DEF InDojob
  <2>2. /\ ~Paid(p) /\ server = "wait" /\ totalshares \in Nat /\ Counted[p] = share[p]
    BY <2>1, WorkerIsCounted
  <2>3. /\ PayMiner(p, share[p], totalshares) /\ handler' = [handler EXCEPT ![p] = "loop"]
        /\ UNCHANGED <<header, Header_para_minar, share, totalshares>>
    BY <1>5 DEF ToldFound, MinerIsDone
  <2>4. Counted' = Counted
    BY <1>0, <2>1, <2>3, CountedStays
  <2>5. Counted' = [Counted EXCEPT ![p] = @ + 0] /\ Counted[p] + 0 = share[p]
    BY <1>12, <2>2, <2>4
  <2>6. totalshares' > 0 /\ totalshares' = totalshares + 0
    BY <1>5, <2>2, <2>3 DEF SumInv
  <2> QED  BY <2>2, <2>3, <2>5, <2>6 DEF SumsGrow
<1>6. CASE RequestedState(p)
  <2>1. InDojob(p) /\ Enters
    BY <1>6 DEF RequestedState
  <2>2. CASE Noncecorrecto
    BY <1>5, <1>6, <2>1, <2>2 DEF RequestedState
  <2>3. CASE ~Noncecorrecto
    <3>1. /\ handler[p] = "recv" /\ handler' = [handler EXCEPT ![p] = "loop"]
          /\ UNCHANGED <<header, Header_para_minar, share, totalshares, transactions>>
      BY <1>6, <2>1, <2>3 DEF RequestedState, InDojob
    <3> QED  BY <1>0, <3>1, CountedStays DEF SumsStay
  <2> QED  BY <2>2, <2>3
<1>7. CASE GotShare(p)
  <2>1. /\ handler[p] = "recv" /\ handler' = [handler EXCEPT ![p] = "count"]
        /\ share' = [share EXCEPT ![p] = @ + 1]
        /\ UNCHANGED <<header, Header_para_minar, totalshares, transactions>>
    BY <1>7 DEF GotShare, InDojob
  <2>2. Current' = Current
    BY <1>0, <2>1 DEF Current
  <2>3. \A q \in Miners \ {p} : handler'[q] = handler[q] /\ share'[q] = share[q]
    BY <1>0, <2>1
  <2>4. handler'[p] = "count" /\ share'[p] - 1 = share[p]
    BY <1>0, <2>1
  <2>5. Counted' = Counted
    BY <2>1, <2>2, <2>3, <2>4 DEF Counted
  <2> QED  BY <2>1, <2>5 DEF SumsStay
<1>8. CASE CountShare(p)
  <2>1. /\ handler[p] = "count" /\ handler' = [handler EXCEPT ![p] = "loop"]
        /\ totalshares' = totalshares + 1 /\ Enters
        /\ UNCHANGED <<header, Header_para_minar, share, transactions>>
    BY <1>8 DEF CountShare
  <2>2. p \in mining /\ ~SInside
    BY <2>1, EntersAlone DEF IInv, WorkInv
  <2>3. p \in Current /\ ~Paid(p) /\ server = "wait" /\ share[p] \in Nat
    BY <2>2, WorkerIsCounted
  <2>4. Current' = Current
    BY <1>0, <2>1 DEF Current
  <2>5. \A q \in Miners \ {p} : handler'[q] = handler[q]
    BY <1>0, <2>1
  <2>6. Counted[p] + 1 = share[p] /\ handler'[p] = "loop"
    BY <1>0, <2>1, <2>3 DEF Counted
  <2>7. \A q \in Miners : Counted'[q] = IF q = p THEN Counted[p] + 1 ELSE Counted[q]
    BY <2>1, <2>3, <2>4, <2>5, <2>6 DEF Counted
  <2>8. Counted' = [Counted EXCEPT ![p] = @ + 1]
    BY <2>7 DEF Counted
  <2> QED  BY <2>1, <2>3, <2>8 DEF SumsGrow
<1>9. CASE GotNonce(p)
  <2>1. InDojob(p) /\ Enters
    BY <1>9 DEF GotNonce
  <2>2. p \in Working
    BY <2>1 DEF InDojob, Working
  <2>3. headernumber = headnum[p]
    BY <2>2 DEF IInv, WorkInv
  <2>4. CASE Noncecorrecto
    BY <1>5, <1>9, <2>1, <2>4 DEF GotNonce
  <2>5. CASE ~Noncecorrecto
    <3>1. /\ handler[p] = "recv" /\ handler' = [handler EXCEPT ![p] = "nonce"]
          /\ UNCHANGED <<header, Header_para_minar, share, totalshares, transactions>>
      BY <1>9, <2>1, <2>3, <2>5 DEF GotNonce, InDojob
    <3> QED  BY <1>0, <3>1, CountedStays DEF SumsStay
  <2> QED  BY <2>4, <2>5
<1>10. CASE RecvNonce(p)
  <2>1. /\ handler[p] = "nonce" /\ handler' = [handler EXCEPT ![p] = "loop"]
        /\ share' = [share EXCEPT ![p] = @ + 1] /\ totalshares' = totalshares + 1
        /\ PayMiner(p, share[p] + 1, totalshares + 1)
        /\ UNCHANGED <<header, Header_para_minar>>
    BY <1>10 DEF RecvNonce, MinerIsDone
  <2>2. p \in mining /\ ~SInside
    BY <2>1 DEF IInv, WorkInv, LockInv, Inside
  <2>3. /\ p \in Current /\ ~Paid(p) /\ server = "wait" /\ share[p] \in Nat
        /\ totalshares \in Nat /\ Counted[p] = share[p]
    BY <2>1, <2>2, WorkerIsCounted
  <2>4. Current' = Current
    BY <1>0, <2>1 DEF Current
  <2>5. \A q \in Miners \ {p} : handler'[q] = handler[q] /\ share'[q] = share[q]
    BY <1>0, <2>1
  <2>6. handler'[p] = "loop" /\ share'[p] = share[p] + 1
    BY <1>0, <2>1
  <2>7. \A q \in Miners : Counted'[q] = IF q = p THEN Counted[p] + 1 ELSE Counted[q]
    BY <2>1, <2>3, <2>4, <2>5, <2>6 DEF Counted
  <2>8. Counted' = [Counted EXCEPT ![p] = @ + 1]
    BY <2>7 DEF Counted
  <2>9. totalshares' > 0
    BY <2>1, <2>3
  <2> QED  BY <2>1, <2>3, <2>8, <2>9 DEF SumsGrow
<1> QED  BY <1>1, <1>2, <1>3, <1>4, <1>6, <1>7, <1>8, <1>9, <1>10 DEF HandlerStep

LEMMA SumsOfServer ==
    ASSUME IInv, SumInv, ServerStep
    PROVE  SumsStay \/ SumsRestart
<1> USE DEF headers, flags, payroll, locals
<1>1. CASE \/ STakesLock \/ BuildBlock \/ WakeMiners \/ AwaitMiners \/ FallAsleep
           \/ BlockRejected \/ BlockValidated \/ PayMiners
  <2>1. /\ UNCHANGED <<header, Header_para_minar, share, handler, totalshares, transactions>>
        /\ server # "reset"
    BY <1>1 DEF STakesLock, BuildBlock, WakeMiners, AwaitMiners, FallAsleep, BlockRejected,
       BlockValidated, PayMiners
  <2> QED  BY <2>1, CountedStays DEF SumsStay
<1>2. CASE OpenRound
  <2>1. /\ UNCHANGED <<header, Header_para_minar, share, handler, totalshares>>
        /\ transactions' = <<>> /\ server # "reset"
    BY <1>2 DEF OpenRound, OpenRoundWith
  <2> QED  BY <2>1, CountedStays DEF SumsRestart
<1>3. CASE AssignHeader
  BY <1>3 DEF AssignHeader, SumsRestart
<1>4. CASE ResetRound
  <2>1. /\ UNCHANGED <<round, header, Header_para_minar, share, handler, transactions>>
        /\ totalshares' = 0 /\ server = "reset"
    BY <1>4 DEF ResetRound, ResetRoundTo
  <2>2. /\ Header_para_minar = round /\ transactions = <<>>
        /\ \A p \in Miners : header[p] < round /\ header[p] \in Nat
    BY <2>1 DEF IInv, HeaderInv, Typed, LocalsTyped
  <2>3. \A p \in Miners : p \notin Current'
    BY <2>1, <2>2 DEF Current
  <2>4. Counted' = [p \in Miners |-> 0]
    BY <2>3 DEF Counted
  <2> QED  BY <2>1, <2>2, <2>4 DEF SumsRestart
<1> QED  BY <1>1, <1>2, <1>3, <1>4 DEF ServerStep

\* The shares paid, with one more payment.
LEMMA PaidSharesGrow ==
    ASSUME Typed, NEW p \in Miners, NEW n \in Nat, NEW total \in Nat, PayMiner(p, n, total)
    PROVE  /\ Len(transactions') = Len(transactions) + 1
           /\ Total(Paying', 1..Len(transactions'))
                = Total(Paying, 1..Len(transactions)) + n
           /\ Total(Paying, 1..Len(transactions)) \in Nat
           /\ \A i \in 1..Len(transactions) :
                /\ Paying'[i] = Paying[i] /\ Paying[i] \in Nat
                /\ transactions'[i] = transactions[i]
           /\ transactions'[Len(transactions) + 1].total = total
<1> DEFINE Payments == [to : Miners, share : Nat, total : Nat]
           last == [to |-> p, share |-> n, total |-> total]
           len == Len(transactions)
<1>1. transactions \in Seq(Payments) /\ transactions' = Append(transactions, last)
      /\ last \in Payments /\ last.share = n /\ last.total = total
  BY DEF Typed, RoundTyped, PayMiner
<1>2. \A r \in Payments : r.share \in Nat
  OBVIOUS
<1> HIDE DEF Payments, last
<1>3. /\ len \in Nat /\ Len(transactions') = len + 1
      /\ \A i \in 1..len : transactions'[i] = transactions[i] /\ transactions[i] \in Payments
      /\ transactions'[len + 1] = last
  BY <1>1
<1>4. \A i \in 1..len : Paying'[i] = Paying[i] /\ Paying[i] \in Nat
  BY <1>2, <1>3 DEF Paying
<1>5. Paying'[len + 1] = n
  BY <1>1, <1>3 DEF Paying
<1>6. Numbers(Paying, 1..len)
  BY <1>4 DEF Numbers
<1> HIDE DEF len
<1>7. Total(Paying', 1..(len + 1)) = Total(Paying, 1..len) + Paying'[len + 1]
  <2>1. \A i \in 1..len : Paying'[i] = Paying[i]
    BY <1>4
  <2>2. len \in Nat /\ Paying'[len + 1] \in Int
    BY <1>3, <1>5
  <2> QED  BY <1>6, <2>1, <2>2, TotalOfNext
<1>8. Total(Paying, 1..len) \in Nat
  <2>1. IsFiniteSet(1..len)
    BY <1>3, FS_Interval
  <2> QED  BY <1>4, <2>1, TotalNatural
<1> QED  BY <1>1, <1>3, <1>4, <1>5, <1>7, <1>8 DEF len

LEMMA SumsRestartKept ==
    ASSUME IInv, SumInv, SumsRestart, server' # "reset"
    PROVE  /\ Total(Counted', Miners) = totalshares'
           /\ Total(Paying', 1..Len(transactions')) + Total(Unpaid', Miners) = totalshares'
<1>1. transactions' = <<>>
  BY DEF SumsRestart
<1>2. Total(Counted', Miners) = totalshares' /\ totalshares' \in Int
  <2>1. CASE Counted' = [p \in Miners |-> 0] /\ totalshares' = 0
    <3>1. Total([p \in Miners |-> 0], Miners) = 0
      <4> DEFINE f == [p \in Miners |-> 0]
      <4>1. \A p \in Miners : f[p] = 0
        OBVIOUS
      <4> HIDE DEF f
      <4>2. Total(f, Miners) = 0
        BY <4>1, PoolAssumption, TotalZero
      <4> QED  BY <4>2 DEF f
    <3> QED  BY <2>1, <3>1
  <2>2. CASE UNCHANGED <<Counted, totalshares>> /\ server # "reset"
    BY <2>2 DEF SumInv, IInv, Typed, RoundTyped
  <2> QED  BY <2>1, <2>2 DEF SumsRestart
<1>3. Unpaid' = Counted' /\ Total(Paying', 1..Len(transactions')) = 0
  <2>1. 1..Len(transactions') = {}
    BY <1>1
  <2>2. Unpaid' = Counted'
    BY <2>1 DEF Unpaid, Counted, Paid
  <2> QED  BY <2>1, <2>2, TotalEmpty
<1> QED  BY <1>2, <1>3

LEMMA SumsGrowKept ==
    ASSUME IInv, SumInv, NEW p \in Miners, NEW n \in {0, 1}, SumsGrow(p, n)
    PROVE  /\ Total(Counted', Miners) = totalshares'
           /\ Total(Paying', 1..Len(transactions')) + Total(Unpaid', Miners) = totalshares'
<1> DEFINE paid == Total(Paying, 1..Len(transactions))
<1>1. /\ Counted \in [Miners -> Nat] /\ Unpaid \in [Miners -> Nat] /\ IsFiniteSet(Miners)
      /\ Numbers(Counted, Miners) /\ Numbers(Unpaid, Miners)
  <2>1. Counted \in [Miners -> Nat] /\ Unpaid \in [Miners -> Nat]
    BY CountedTyped
  <2> QED  BY <2>1, PoolAssumption DEF Numbers
<1>2. /\ ~Paid(p) /\ server # "reset" /\ totalshares' = totalshares + n
      /\ Counted' = [Counted EXCEPT ![p] = @ + n] /\ totalshares \in Nat
  BY DEF SumsGrow, IInv, Typed, RoundTyped
<1>3. /\ Counted'[p] = Counted[p] + n /\ Counted'[p] \in Nat /\ Counted[p] \in Nat
      /\ \A q \in Miners \ {p} : Counted'[q] = Counted[q]
  BY <1>1, <1>2
<1>4. Total(Counted', Miners) = Total(Counted, Miners) - Counted[p] + Counted'[p]
      /\ Total(Counted, Miners) \in Int
  BY <1>1, <1>3, TotalChange
<1>5. Total(Counted, Miners) = totalshares /\ paid + Total(Unpaid, Miners) = totalshares
  BY <1>2 DEF SumInv
<1>9. Total(Counted', Miners) = totalshares'
  <2>1. Total(Counted', Miners) = Total(Counted, Miners) + n
    BY <1>3, <1>4
  <2> QED  BY <1>2, <1>5, <2>1
<1>6. Unpaid[p] = Counted[p]
  BY <1>2 DEF Unpaid
<1>7. CASE UNCHANGED transactions
  <2>1. /\ Unpaid'[p] = Counted'[p]
        /\ \A q \in Miners \ {p} : Unpaid'[q] = Unpaid[q]
    BY <1>2, <1>3, <1>7 DEF Unpaid, Paid
  <2>2. Total(Unpaid', Miners) = Total(Unpaid, Miners) - Unpaid[p] + Unpaid'[p]
        /\ Total(Unpaid, Miners) \in Int
    BY <1>1, <1>3, <2>1, TotalChange
  <2>3. Total(Paying', 1..Len(transactions')) = paid
    BY <1>7 DEF Paying
  <2>4. paid \in Int
    <3>1. Len(transactions) \in Nat /\ \A i \in 1..Len(transactions) : Paying[i] \in Nat
      BY PaymentsTyped DEF IInv, Typed, RoundTyped, Paying
    <3>2. Numbers(Paying, 1..Len(transactions))
      BY <3>1 DEF Numbers
    <3> QED  BY <3>1, <3>2, FS_Interval, TotalType
  <2>5. Total(Unpaid', Miners) = Total(Unpaid, Miners) + n
    BY <1>3, <1>6, <2>1, <2>2
  <2> HIDE DEF paid
  <2> QED  BY <1>2, <1>5, <1>9, <2>2, <2>3, <2>4, <2>5
<1>8. CASE PayMiner(p, Counted[p] + n, totalshares')
  <2>1. Counted[p] + n \in Nat /\ totalshares' \in Nat
    BY <1>2, <1>3
  <2>2. /\ Total(Paying', 1..Len(transactions')) = paid + (Counted[p] + n)
        /\ paid \in Nat
    BY <1>8, <2>1, PaidSharesGrow DEF IInv
  <2>3. \A q \in Miners : Paid(q)' <=> Paid(q) \/ q = p
    BY <1>2, <1>8, <2>1, PaidOnceMore DEF IInv, PayeesInv
  <2>4. Unpaid'[p] = 0 /\ \A q \in Miners \ {p} : Unpaid'[q] = Unpaid[q]
    BY <1>3, <2>3 DEF Unpaid
  <2>5. Total(Unpaid', Miners) = Total(Unpaid, Miners) - Unpaid[p] + Unpaid'[p]
        /\ Total(Unpaid, Miners) \in Int
    BY <1>1, <2>4, TotalChange
  <2>6. Total(Unpaid', Miners) = Total(Unpaid, Miners) - Counted[p]
    BY <1>3, <1>6, <2>4, <2>5
  <2> HIDE DEF paid
  <2>7. paid + (Counted[p] + n) + (Total(Unpaid, Miners) - Counted[p])
          = paid + Total(Unpaid, Miners) + n
    BY <1>3, <2>2, <2>5
  <2> QED  BY <1>2, <1>5, <1>9, <2>2, <2>6, <2>7
<1> QED  BY <1>7, <1>8 DEF SumsGrow

LEMMA CountsKept ==
    ASSUME IInv, SumInv, QuietStep
    PROVE  /\ \A p \in Miners : handler'[p] = "count" => share'[p] > 0
           /\ Noncecorrecto' => totalshares' > 0
<1> USE DEF Goes, headers, flags, payroll, locals
<1>0. handler \in [Miners -> HandlerPlaces] /\ share \in [Miners -> Nat] /\ totalshares \in Nat
  BY DEF IInv, Typed, LocalsTyped, RoundTyped
<1> USE <1>0 DEF SumInv
<1>1. CASE UNCHANGED <<handler, share, Noncecorrecto, totalshares>>
  BY <1>1
<1>2. CASE ServerStep
  BY <1>2 DEF ServerStep, STakesLock, BuildBlock, OpenRound, OpenRoundWith, AssignHeader,
     ResetRound, ResetRoundTo, WakeMiners, AwaitMiners, FallAsleep, BlockRejected,
     BlockValidated, PayMiners
<1>3. ASSUME NEW p \in Miners, HandlerStep(p)
      PROVE  /\ \A q \in Miners : handler'[q] = "count" => share'[q] > 0
             /\ Noncecorrecto' => totalshares' > 0
  <2>1. ASSUME UNCHANGED <<share, Noncecorrecto, totalshares>>,
               \A q \in Miners : handler'[q] = "count" => handler[q] = "count"
        PROVE  /\ \A q \in Miners : handler'[q] = "count" => share'[q] > 0
               /\ Noncecorrecto' => totalshares' > 0
    BY <2>1
  <2>2. CASE AcceptMiner(p) \/ NextRequest(p)
    BY <2>1, <2>2 DEF AcceptMiner, NextRequest
  <2>3. CASE JoinPool(p) \/ EndJoin(p)
    <3>1. UNCHANGED handler \/ \E place \in {"joining", "recv", "gone"} : Goes(p, place)
      BY <2>3 DEF JoinPool, EndJoin, Register, Serves
    <3>2. UNCHANGED <<share, Noncecorrecto, totalshares>>
      BY <2>3 DEF JoinPool, EndJoin
    <3> QED  BY <2>1, <3>1, <3>2
  <2>4. CASE RequestedHeader(p)
    BY <2>1, <2>4 DEF RequestedHeader
  <2>5. CASE ServeHeader(p)
    BY <2>5 DEF ServeHeader
  <2>6. CASE ToldFound(p)
    BY <2>1, <2>6 DEF ToldFound, MinerIsDone
  <2>7. CASE RequestedState(p)
    BY <2>1, <2>6, <2>7 DEF RequestedState
  <2>8. CASE GotShare(p)
    BY <2>8 DEF GotShare
  <2>9. CASE CountShare(p)
    BY <2>9 DEF CountShare
  <2>10. CASE GotNonce(p)
    BY <2>1, <2>6, <2>10 DEF GotNonce
  <2>11. CASE RecvNonce(p)
    BY <2>11 DEF RecvNonce, MinerIsDone
  <2> QED  BY <1>3, <2>2, <2>3, <2>4, <2>5, <2>7, <2>8, <2>9, <2>10, <2>11 DEF HandlerStep
<1>4. CASE CountMiner \/ StandStill \/ \E t \in Miners \cup {"S"} : SpuriousWakeup(t)
  BY <1>1, <1>4 DEF CountMiner, SpuriousWakeup, StandStill
<1> QED  BY <1>2, <1>3, <1>4 DEF QuietStep

\* Each payment is made from a total that is not 0 and covers all until then.
BackedInv ==
    \A n \in 1..Len(transactions) :
        transactions[n].total > 0 /\ Total(Paying, 1..n) <= transactions[n].total

LEMMA BackedKept ==
    ASSUME IInv, SumInv, BackedInv, IInv', SumInv', NEW p \in Miners, NEW n \in {0, 1},
           SumsGrow(p, n)
    PROVE  BackedInv'
<1>1. CASE UNCHANGED transactions
  BY <1>1 DEF BackedInv, Paying
<1>2. CASE totalshares' > 0 /\ PayMiner(p, Counted[p] + n, totalshares')
  <2>1. Counted[p] + n \in Nat /\ totalshares' \in Nat
    <3>1. Counted \in [Miners -> Nat]
      BY CountedTyped
    <3> QED  BY <3>1 DEF IInv, Typed, RoundTyped
  <2>2. /\ Len(transactions') = Len(transactions) + 1
        /\ \A i \in 1..Len(transactions) : /\ Paying'[i] = Paying[i] /\ Paying[i] \in Nat
                                          /\ transactions'[i] = transactions[i]
        /\ transactions'[Len(transactions) + 1].total = totalshares'
    BY <1>2, <2>1, PaidSharesGrow DEF IInv
  <2>3. Len(transactions) \in Nat
    BY PaymentsTyped DEF IInv, Typed, RoundTyped
  <2>4. ASSUME NEW k \in 1..Len(transactions)
        PROVE  transactions'[k].total > 0 /\ Total(Paying', 1..k) <= transactions'[k].total
    <3>1. \A i \in 1..k : Paying'[i] = Paying[i] /\ Paying[i] \in Int
      BY <2>2, <2>3
    <3>2. Numbers(Paying, 1..k) /\ \A i \in 1..k : Paying'[i] = Paying[i]
      BY <3>1 DEF Numbers
    <3>4. IsFiniteSet(1..k)
      BY <2>3, FS_Interval
    <3>3. Total(Paying', 1..k) = Total(Paying, 1..k)
      BY <3>2, <3>4, TotalSame
    <3> QED  BY <2>2, <3>3 DEF BackedInv
  <2>5. Total(Paying', 1..Len(transactions')) <= totalshares'
    <3>1. Total(Unpaid', Miners) \in Nat
      <4>1. Unpaid' \in [Miners -> Nat]
        <5>1. Counted \in [Miners -> Nat] /\ Counted' = [Counted EXCEPT ![p] = @ + n]
          BY CountedTyped DEF SumsGrow
        <5>2. \A q \in Miners : Counted'[q] \in Nat
          BY <5>1
        <5> QED  BY <5>2 DEF Unpaid
      <4>2. \A q \in Miners : Unpaid'[q] \in Nat
        BY <4>1
      <4> QED  BY <4>2, PoolAssumption, TotalNatural
    <3>2. Total(Paying', 1..Len(transactions')) + Total(Unpaid', Miners) = totalshares'
      BY SumsGrowKept
    <3>3. Total(Paying', 1..Len(transactions')) \in Int
      <4>1. Len(transactions') \in Nat /\ \A i \in 1..Len(transactions') : Paying'[i] \in Nat
        BY PaymentsTyped DEF IInv, Typed, RoundTyped, Paying
      <4>2. Numbers(Paying', 1..Len(transactions'))
        BY <4>1 DEF Numbers
      <4>3. IsFiniteSet(1..Len(transactions'))
        BY <4>1, FS_Interval
      <4> QED  BY <4>2, <4>3, TotalType
    <3> QED  BY <2>1, <3>1, <3>2, <3>3
  <2>6. ASSUME NEW k \in 1..Len(transactions')
        PROVE  transactions'[k].total > 0 /\ Total(Paying', 1..k) <= transactions'[k].total
    <3>1. k \in 1..Len(transactions) \/ k = Len(transactions')
      BY <2>2, <2>3
    <3> QED  BY <1>2, <2>2, <2>4, <2>5, <3>1
  <2> QED  BY <2>6 DEF BackedInv
<1> QED  BY <1>1, <1>2 DEF SumsGrow

AllInv == IInv /\ SumInv /\ BackedInv

LEMMA SharesInvariant ==
    ASSUME Quiet
    PROVE  Spec => [](BaseInv /\ (~overlapped => AllInv))
<1> DEFINE Inv == BaseInv /\ (~overlapped => AllInv)
<1>1. Init => Inv
  <2> SUFFICES ASSUME Init
               PROVE  Inv
    OBVIOUS
  <2>1. BaseInv /\ IInv
    BY InitIInv
  <2>2. /\ transactions = <<>> /\ totalshares = 0 /\ ~Noncecorrecto
        /\ \A p \in Miners : handler[p] = "none" /\ share[p] = 0
    BY DEF Init
  <2>3. 1..Len(transactions) = {}
    BY <2>2
  <2>4. \A p \in Miners : Counted[p] = 0 /\ Unpaid[p] = 0
    BY <2>2 DEF Counted, Unpaid
  <2>5. /\ Total(Counted, Miners) = 0 /\ Total(Unpaid, Miners) = 0
        /\ Total(Paying, 1..Len(transactions)) = 0
    BY <2>3, <2>4, PoolAssumption, TotalZero, TotalEmpty
  <2>6. SumInv
    BY <2>2, <2>5 DEF SumInv
  <2> QED  BY <2>1, <2>3, <2>6 DEF AllInv, BackedInv
<1>2. ASSUME AllInv, QuietStep, [Next]_vars, ~overlapped', BaseInv'
      PROVE  AllInv'
  <2> USE DEF AllInv
  <2>1. IInv' /\ QuietStep
    BY <1>2, NextIInv
  <2>2. (\A p \in Miners : handler'[p] = "count" => share'[p] > 0)
        /\ (Noncecorrecto' => totalshares' > 0)
    BY <1>2, <2>1, CountsKept
  <2>3. CASE SumsStay
    <3>1. /\ UNCHANGED <<Counted, Unpaid, Paying, totalshares, transactions>>
          /\ server' # "reset" => server # "reset"
      BY <2>3 DEF SumsStay, Unpaid, Paying, Paid
    <3> QED  BY <1>2, <2>1, <2>2, <3>1 DEF SumInv, BackedInv
  <2>4. CASE SumsRestart
    <3>1. SumInv'
      BY <1>2, <2>2, <2>4, SumsRestartKept DEF SumInv
    <3>2. ASSUME UNCHANGED transactions
          PROVE  BackedInv'
      <4>1. Paying' = Paying
        BY <3>2 DEF Paying
      <4> QED  BY <1>2, <3>2, <4>1 DEF BackedInv
    <3>3. ASSUME transactions' = <<>>
          PROVE  BackedInv'
      <4>1. 1..Len(transactions') = {}
        BY <3>3
      <4> QED  BY <4>1 DEF BackedInv
    <3>4. BackedInv'
      BY <2>4, <3>2, <3>3 DEF SumsRestart
    <3> QED  BY <2>1, <3>1, <3>4
  <2>5. ASSUME NEW p \in Miners, NEW n \in {0, 1}, SumsGrow(p, n)
        PROVE  AllInv'
    <3>1. SumInv'
      BY <1>2, <2>2, <2>5, SumsGrowKept DEF SumInv
    <3>2. BackedInv'
      BY <1>2, <2>1, <2>5, <3>1, BackedKept
    <3> QED  BY <2>1, <3>1, <3>2
  <2>6. CASE ServerStep
    BY <1>2, <2>3, <2>4, <2>6, SumsOfServer
  <2>7. ASSUME NEW p \in Miners, HandlerStep(p)
        PROVE  AllInv'
    BY <1>2, <2>3, <2>5, <2>7, SumsOfHandler
  <2>8. CASE CountMiner \/ StandStill \/ \E t \in Miners \cup {"S"} : SpuriousWakeup(t)
    <3>1. UNCHANGED <<server, header, Header_para_minar, share, handler, totalshares,
                      transactions>>
      BY <2>8 DEF CountMiner, SpuriousWakeup, StandStill, headers, payroll, locals
    <3> QED  BY <2>3, <3>1, CountedStays DEF SumsStay
  <2> QED  BY <2>1, <2>6, <2>7, <2>8 DEF QuietStep
<1>3. Inv /\ [Next]_vars => Inv'
  <2> SUFFICES ASSUME Inv, [Next]_vars
               PROVE  Inv'
    OBVIOUS
  <2>1. BaseInv' /\ QuietStep
    BY NextBaseInv, StepsAreQuiet DEF BaseInv
  <2>2. ASSUME ~overlapped'
        PROVE  AllInv'
    <3>1. ~overlapped
      BY <2>2, OverlapStays DEF BaseInv
    <3> QED  BY <2>1, <2>2, <3>1, <1>2
  <2> QED  BY <2>1, <2>2
<1> QED  BY <1>1, <1>3, PTL DEF Spec

\* totalshares is the sum of the shares of the miners on the current header that
\* are not waiting for the lock to be counted, in every round.
THEOREM SharesAreCounted ==
    ASSUME Quiet
    PROVE  Spec => []SharesAddUp
<1>1. ASSUME AllInv, server # "reset"
      PROVE  MapThenSumSet(LAMBDA p : share[p], Current)
               = totalshares + Cardinality({p \in Miners : handler[p] = "count"})
  <2> DEFINE C == {p \in Miners : handler[p] = "count"}
  <2>1. C \in SUBSET Current
    <3> SUFFICES ASSUME NEW p \in C
                 PROVE  p \in Current
      OBVIOUS
    <3>1. p \in mining /\ server \in {"check", "sleep", "wait"} /\ p \in Working
      BY <1>1 DEF AllInv, IInv, WorkInv, Working
    <3>2. header[p] = round /\ Header_para_minar = round
      BY <1>1, <3>1 DEF AllInv, IInv, PayInv, InRound, HeaderInv
    <3> QED  BY <3>2 DEF Current
  <2>2. Current \in SUBSET Miners /\ IsFiniteSet(Miners) /\ IsFiniteSet(Current)
    BY PoolAssumption, FS_Subset DEF Current
  <2>3. Numbers(Counted, Miners) /\ Numbers(Counted, Current)
    <3>1. Counted \in [Miners -> Nat]
      BY <1>1, CountedTyped DEF AllInv
    <3> QED  BY <2>2, <3>1 DEF Numbers
  <2>4. \A p \in Miners \ Current : Counted[p] = 0
    BY DEF Counted
  <2>5. \A p \in Current : share[p] = IF p \in C THEN Counted[p] + 1 ELSE Counted[p]
    BY <1>1, <2>2 DEF Counted, AllInv, IInv, Typed, LocalsTyped
  <2> HIDE DEF C
  <2>6. Total(Counted, Miners) = Total(Counted, Current)
    BY <2>2, <2>3, <2>4, TotalWithin
  <2>7. Total(share, Current) = Total(Counted, Current) + Cardinality(C)
    BY <2>1, <2>2, <2>3, <2>5, TotalMore
  <2>8. Total(share, Current) = totalshares + Cardinality(C)
    BY <1>1, <2>6, <2>7 DEF AllInv, SumInv
  <2> QED  BY <2>8 DEF Total, C
<1>2. BaseInv /\ (~overlapped => AllInv) => SharesAddUp
  BY <1>1 DEF SharesAddUp
<1> QED  BY <1>2, SharesInvariant, PTL

\* payminer never divides by 0, and the payments made from one total are no more
\* than the block.
THEOREM PaymentsCoverTheBlock ==
    ASSUME Quiet
    PROVE  Spec => []PaymentsAreBacked
<1>1. BaseInv /\ (~overlapped => AllInv) => PaymentsAreBacked
  BY DEF AllInv, BackedInv, PaymentsAreBacked, Total, Paying
<1> QED  BY <1>1, SharesInvariant, PTL
-----------------------------------------------------------------------------
(* The condition variables, while miners leave and interrupts come.         *)

\* Whom a handler waits for, and for what.
SleepersInv ==
    \A p \in asleep \ {"S"} :
        /\ handler[p] = "awaiting" =>
              ~Header_disponible \/ server \in {"assign", "reset", "wake"}
        /\ handler[p] = "joining" => waiting_thread

\* S is about to sleep, or sleeps, only when the miners are not done.
ServerSleepInv ==
    "S" \in asleep \/ server = "sleep" => ~Header_valido \/ Closed

WakeInv ==
    /\ handler \in [Miners -> HandlerPlaces] /\ overlapped \in BOOLEAN
    /\ ~flag => Closed
    /\ asleep \subseteq Threads /\ ("S" \in asleep => server = "wait")
    /\ SleepersInv
    /\ ~overlapped => LockInv /\ ServerSleepInv

\* What every thread knows of itself.
LEMMA PlacesKept ==
    ASSUME WakeInv, [Next]_vars
    PROVE  /\ handler' \in [Miners -> HandlerPlaces]
           /\ ~flag' => Closed'
           /\ asleep' \subseteq Threads /\ ("S" \in asleep' => server' = "wait")
<1> USE PoolAssumption DEF WakeInv, Threads, Goes, Closed, signals, Serves, HandlerPlaces
<1>1. CASE UNCHANGED <<handler, signals>> /\ asleep' \subseteq Threads /\ ("S" \in asleep' => server' = "wait")
  BY <1>1
<1>2. CASE Server
  <2>1. UNCHANGED <<handler, signals>>
    BY <1>2 DEF Server, STakesLock, BuildBlock, OpenRound, OpenRoundWith, AssignHeader,
       ResetRound, ResetRoundTo, WakeMiners, AwaitMiners, FallAsleep, BlockRejected,
       BlockValidated, PayMiners, ServerAborts
  <2>2. asleep' \subseteq Threads /\ ("S" \in asleep' => server' = "wait")
    BY <1>2 DEF Server, STakesLock, BuildBlock, OpenRound, OpenRoundWith, AssignHeader,
       ResetRound, ResetRoundTo, WakeMiners, AwaitMiners, FallAsleep, BlockRejected,
       BlockValidated, PayMiners, ServerAborts
  <2> QED  BY <2>1, <2>2, <1>1
<1>3. CASE PeerFails \/ CloseSockets \/ CatchInt
  BY <1>3 DEF PeerFails, CloseSockets, CatchInt, ClearFlag, SignalServer, SetValido, SignalStep
<1>4. CASE Main
  BY <1>4 DEF Main, CountMiner, AcceptMiner
<1>5. ASSUME NEW p \in Miners, Handler(p)
      PROVE  /\ handler' \in [Miners -> HandlerPlaces]
             /\ UNCHANGED <<signals, server>> /\ asleep' \subseteq Threads
             /\ "S" \in asleep' => "S" \in asleep
  <2>1. CASE JoinPool(p) \/ EndJoin(p)
    BY <2>1 DEF JoinPool, EndJoin, Register
  <2>2. CASE RequestedHeader(p) \/ ServeHeader(p)
    BY <2>2 DEF RequestedHeader, ServeHeader
  <2>3. CASE ToldFound(p)
    BY <2>3 DEF ToldFound, MinerIsDone
  <2>4. CASE RequestedState(p) \/ GotNonce(p)
    BY <2>3, <2>4 DEF RequestedState, GotNonce
  <2>5. CASE GotShare(p) \/ CountShare(p) \/ EndRequest(p)
    BY <2>5 DEF GotShare, CountShare, EndRequest
  <2>6. CASE RecvNonce(p)
    BY <2>6 DEF RecvNonce, MinerIsDone
  <2>7. CASE SeesEof(p) \/ Depart(p) \/ DiesAsked(p)
    BY <2>7 DEF SeesEof, Depart, DiesAsked
  <2> QED  BY <1>5, <2>1, <2>2, <2>4, <2>5, <2>6, <2>7 DEF Handler
<1>6. CASE UNCHANGED vars \/ \E t \in Miners \cup {"S"} : SpuriousWakeup(t)
  BY <1>6 DEF SpuriousWakeup, vars
<1> QED  BY <1>2, <1>3, <1>4, <1>5, <1>6 DEF Next

\* A handler that sleeps is woken by the broadcast that follows what it waits for.
LEMMA SleepersKept ==
    ASSUME WakeInv, [Next]_vars
    PROVE  SleepersInv'
<1> USE PoolAssumption DEF WakeInv, Threads, SleepersInv, Goes, flags, members
<1>1. ASSUME UNCHANGED <<handler, Header_disponible, server, waiting_thread>>,
             asleep' \subseteq asleep \cup {"S"}
      PROVE  SleepersInv'
  BY <1>1
<1>2. CASE Server
  <2>1. CASE WakeMiners
    <3>1. asleep' = asleep \ Awakened /\ UNCHANGED handler
      BY <2>1 DEF WakeMiners
    <3>2. ASSUME NEW p \in asleep' \ {"S"}
          PROVE  handler[p] # "awaiting" /\ handler[p] # "joining"
      <4>1. p \in asleep \ {"S"} /\ p \notin Awakened
        BY <3>1
      <4>2. p \in Miners
        BY <4>1
      <4> QED  BY <4>1, <4>2 DEF Awakened
    <3> QED  BY <3>1, <3>2
  <2>2. CASE OpenRound \/ AssignHeader \/ ResetRound
    BY <2>2 DEF OpenRound, OpenRoundWith, AssignHeader, ResetRound, ResetRoundTo
  <2>3. CASE \/ STakesLock \/ BuildBlock \/ AwaitMiners \/ FallAsleep \/ BlockRejected
             \/ BlockValidated \/ PayMiners \/ ServerAborts
    <3>1. /\ UNCHANGED <<handler, Header_disponible, waiting_thread>>
          /\ asleep' \subseteq asleep \cup {"S"}
          /\ server \notin {"assign", "reset", "wake"} \/ UNCHANGED server
      BY <2>3 DEF STakesLock, BuildBlock, AwaitMiners, FallAsleep, BlockRejected,
         BlockValidated, PayMiners, ServerAborts
    <3> QED  BY <3>1
  <2> QED  BY <1>2, <2>1, <2>2, <2>3 DEF Server
<1>3. CASE PeerFails \/ CloseSockets \/ CatchInt
  BY <1>1, <1>3 DEF PeerFails, CloseSockets, CatchInt, ClearFlag, SignalServer, SetValido,
     SignalStep
<1>4. CASE Main
  <2>1. CASE CountMiner
    BY <1>1, <2>1 DEF CountMiner
  <2>2. ASSUME NEW p \in Miners, AcceptMiner(p)
        PROVE  SleepersInv'
    BY <2>2 DEF AcceptMiner
  <2> QED  BY <1>4, <2>1, <2>2 DEF Main
<1>5. ASSUME NEW p \in Miners, Handler(p)
      PROVE  SleepersInv'
  <2>1. ASSUME NEW place \in HandlerPlaces \ {"awaiting", "joining"}, Goes(p, place),
               UNCHANGED <<server, waiting_thread>>, asleep' \subseteq asleep,
               Header_disponible' => Header_disponible
        PROVE  SleepersInv'
    BY <2>1
  <2>2. CASE JoinPool(p)
    <3>1. UNCHANGED <<server, Header_disponible>>
      BY <2>2 DEF JoinPool
    <3>2. CASE j # 1
      BY <2>2, <3>1, <3>2 DEF JoinPool
    <3>3. CASE j = 1
      BY <2>1, <2>2, <3>1, <3>3 DEF JoinPool, Register, Serves, HandlerPlaces
    <3> QED  BY <3>2, <3>3
  <2>3. CASE EndJoin(p)
    <3>1. UNCHANGED <<server, Header_disponible, waiting_thread>>
      BY <2>3 DEF EndJoin
    <3>2. CASE waiting_thread
      BY <2>3, <3>1, <3>2 DEF EndJoin
    <3>3. CASE ~waiting_thread
      BY <2>1, <2>3, <3>1, <3>3 DEF EndJoin, Register, Serves, HandlerPlaces
    <3> QED  BY <3>2, <3>3
  <2>4. CASE RequestedHeader(p)
    <3>1. UNCHANGED <<server, Header_disponible, waiting_thread>>
      BY <2>4 DEF RequestedHeader
    <3>2. CASE HeaderReady
      BY <2>1, <2>4, <3>1, <3>2 DEF RequestedHeader, HandlerPlaces
    <3>3. CASE ~HeaderReady
      BY <2>4, <3>1, <3>3 DEF RequestedHeader, HeaderReady
    <3> QED  BY <3>2, <3>3
  <2>5. CASE ToldFound(p) \/ RecvNonce(p)
    <3>1. /\ Goes(p, "loop") /\ UNCHANGED <<server, waiting_thread>>
          /\ asleep' \subseteq asleep /\ (Header_disponible' => Header_disponible)
      BY <2>5 DEF ToldFound, RecvNonce, MinerIsDone
    <3> QED  BY <3>1, <2>1 DEF HandlerPlaces
  <2>6. CASE RequestedState(p) \/ GotNonce(p)
    <3>1. CASE ToldFound(p)
      BY <3>1, <2>5
    <3>2. CASE ~ToldFound(p)
      <4>1. /\ \E place \in {"loop", "nonce"} : Goes(p, place)
            /\ UNCHANGED <<server, waiting_thread, asleep, Header_disponible>>
        BY <2>6, <3>2 DEF RequestedState, GotNonce
      <4> QED  BY <4>1, <2>1 DEF HandlerPlaces
    <3> QED  BY <3>1, <3>2
  <2>7. CASE ServeHeader(p) \/ GotShare(p) \/ CountShare(p) \/ EndRequest(p)
    <3>1. /\ \E place \in {"loop", "count", "recv", "gone"} : Goes(p, place)
          /\ UNCHANGED <<server, waiting_thread, asleep, Header_disponible>>
      BY <2>7 DEF ServeHeader, GotShare, CountShare, EndRequest, Serves
    <3> QED  BY <3>1, <2>1 DEF HandlerPlaces
  <2>8. CASE SeesEof(p) \/ Depart(p)
    <3>1. /\ \E place \in {"leaving", "gone"} : Goes(p, place)
          /\ UNCHANGED <<server, waiting_thread, asleep, Header_disponible>>
      BY <2>8 DEF SeesEof, Depart
    <3> QED  BY <3>1, <2>1 DEF HandlerPlaces
  <2>9. CASE DiesAsked(p)
    BY <1>1, <2>9 DEF DiesAsked
  <2> QED  BY <1>5, <2>2, <2>3, <2>4, <2>5, <2>6, <2>7, <2>8, <2>9 DEF Handler
<1>6. CASE UNCHANGED vars \/ \E t \in Miners \cup {"S"} : SpuriousWakeup(t)
  BY <1>1, <1>6 DEF SpuriousWakeup, vars
<1> QED  BY <1>2, <1>3, <1>4, <1>5, <1>6 DEF Next

\* Header_valido is set while S is neither between its test and its sleep nor left
\* asleep.
LEMMA ServerSleepKept ==
    ASSUME WakeInv, ~overlapped, [Next]_vars, ~overlapped'
    PROVE  ServerSleepInv'
<1> USE DEF WakeInv, ServerSleepInv, flags, Closed
<1>1. ASSUME UNCHANGED <<server, catching>>,
             Header_valido' => Header_valido, asleep' \subseteq asleep \/ "S" \notin asleep'
      PROVE  ServerSleepInv'
  BY <1>1
<1>2. CASE Server
  <2>1. CASE AwaitMiners
    BY <2>1 DEF AwaitMiners, signals
  <2>2. CASE FallAsleep
    BY <2>2 DEF FallAsleep, signals
  <2>3. CASE \/ STakesLock \/ BuildBlock \/ OpenRound \/ AssignHeader \/ ResetRound
             \/ WakeMiners \/ BlockRejected \/ BlockValidated \/ PayMiners
    <3>1. server # "wait" /\ server' # "sleep" /\ asleep' \subseteq asleep
      BY <2>3 DEF STakesLock, BuildBlock, OpenRound, OpenRoundWith, AssignHeader, ResetRound,
         ResetRoundTo, WakeMiners, BlockRejected, BlockValidated, PayMiners, LoopOrEnd
    <3> QED  BY <3>1
  <2>4. CASE ServerAborts
    BY <1>1, <2>4 DEF ServerAborts, signals
  <2> QED  BY <1>2, <2>1, <2>2, <2>3, <2>4 DEF Server
<1>3. CASE CloseSockets \/ CatchInt
  BY <1>3 DEF CloseSockets, CatchInt, ClearFlag, SignalServer, SetValido, SignalStep
<1>4. CASE PeerFails \/ Main
  BY <1>1, <1>4 DEF PeerFails, Main, CountMiner, AcceptMiner, signals
<1>5. ASSUME NEW p \in Miners, Handler(p)
      PROVE  ServerSleepInv'
  <2>1. ASSUME MinerIsDone(p), ~SInside, UNCHANGED <<server, catching>>
        PROVE  ServerSleepInv'
    BY <2>1 DEF MinerIsDone, SInside, Signalled
  <2>2. CASE ToldFound(p) /\ Enters
    BY <2>1, <2>2, EntersAlone DEF ToldFound, signals
  <2>3. CASE RecvNonce(p)
    <3>1. ~SInside
      BY <2>3 DEF RecvNonce, LockInv, Inside
    <3> QED  BY <2>1, <2>3, <3>1 DEF RecvNonce, signals
  <2>4. CASE RequestedState(p) \/ GotNonce(p)
    BY <1>1, <2>2, <2>4 DEF RequestedState, GotNonce, signals
  <2>5. CASE JoinPool(p) \/ EndJoin(p) \/ RequestedHeader(p)
    <3>1. "S" \in asleep' => "S" \in asleep
      BY <2>5, PoolAssumption DEF JoinPool, EndJoin, RequestedHeader
    <3> QED  BY <2>5, <3>1 DEF JoinPool, EndJoin, RequestedHeader, signals
  <2>6. CASE \/ ServeHeader(p) \/ GotShare(p) \/ CountShare(p) \/ EndRequest(p)
             \/ SeesEof(p) \/ Depart(p) \/ DiesAsked(p)
    BY <1>1, <2>6 DEF ServeHeader, GotShare, CountShare, EndRequest, SeesEof, Depart,
       DiesAsked, signals
  <2> QED  BY <1>5, <2>3, <2>4, <2>5, <2>6 DEF Handler
<1>6. CASE UNCHANGED vars \/ \E t \in Miners \cup {"S"} : SpuriousWakeup(t)
  BY <1>1, <1>6 DEF SpuriousWakeup, vars, signals
<1> QED  BY <1>2, <1>3, <1>4, <1>5, <1>6 DEF Next

\* Whoever leaves and whenever an interrupt comes, nobody sleeps past what it waits
\* for until two threads overlap.
THEOREM WakeupsAreNotLost == Spec => []NoWakeupIsLost
<1>1. Init => WakeInv
  BY DEF Init, WakeInv, Threads, HandlerPlaces, SleepersInv, ServerSleepInv, LockInv, Inside, SInside
<1>2. WakeInv /\ [Next]_vars => WakeInv'
  <2> SUFFICES ASSUME WakeInv, [Next]_vars
               PROVE  WakeInv'
    OBVIOUS
  <2>1. overlapped' \in BOOLEAN /\ (overlapped => overlapped')
    BY OverlapStays DEF WakeInv
  <2>2. ASSUME ~overlapped'
        PROVE  LockInv' /\ ServerSleepInv'
    BY <2>1, <2>2, LockKept, ServerSleepKept DEF WakeInv
  <2> QED  BY <2>1, <2>2, PlacesKept, SleepersKept DEF WakeInv
<1>3. WakeInv => NoWakeupIsLost
  BY DEF WakeInv, SleepersInv, ServerSleepInv, NoWakeupIsLost, Closed
<1> QED  BY <1>1, <1>2, <1>3, PTL DEF Spec
=============================================================================
