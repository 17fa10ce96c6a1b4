------------------------ MODULE CentralServerProofs ------------------------
(***************************************************************************)
(* Theorems about CentralServer, for any set of mining pools, any peers    *)
(* that die and any length of the chain.                                   *)
(*                                                                         *)
(* The argument.  While no siblings are accepted, blocks pass the check    *)
(* one at a time, so that the i-th block of the chain has identity i - 1   *)
(* and names identity i - 2; InFlight says where the one accepted block    *)
(* that is not on the chain may be, and what previoushash and netwheader   *)
(* hold meanwhile.  A second block cannot pass the check in between: its   *)
(* header's two halves were published, and the halves of the block in      *)
(* flight were not, so that either it names the tip, as the block in       *)
(* flight does, and is its sibling, or previoushash has moved on.          *)
(***************************************************************************)
EXTENDS CentralServer, FiniteSetTheorems, TLAPS

Storing(p) == handler[p] \in {"accepted", "half", "handoff"}

\* Identities are handed out in the order the blocks are accepted.
Identities ==
    /\ IsFiniteSet(accepted)
    /\ \A b \in accepted : b.id \in 1..Cardinality(accepted)

\* The published hash and every template are made of halves of published hashes.
Published ==
    /\ netprev[1] <= Len(chain) - 1
    /\ \A p \in MiningPools :
         /\ template[p][1] <= Len(chain) - 1
         /\ template[p][2] <= netprev[2]

Numbered ==
    \A i \in 1..Len(chain) :
        chain[i].id = i - 1 /\ (i > 1 => chain[i].prev = <<i - 2, i - 2>>)

\* What the builder's place says of the published header.
BuilderHeader ==
    /\ builder = "idle" => netprev = Hash(Tip)
    /\ builder # "idle" => Len(chain) > 1
    /\ builder \in {"newBlock", "deleting", "publish"} => netprev = Tip.prev
    /\ builder = "publishing" => netprev = <<Len(chain) - 1, Len(chain) - 2>>

\* The block after the tip, when one is accepted.
Newest == [id |-> Len(chain), prev |-> Hash(Tip)]

\* No block is accepted but not added.
Quiet ==
    /\ Cardinality(accepted) = Len(chain) - 1
    /\ accepted \subseteq OnChain
    /\ previoushash = Hash(Tip)
    /\ ~agregar_bloque
    /\ \A p \in MiningPools : ~Storing(p)

\* One is: its handler is storing its hash, or it is in aux.
InFlight ==
    /\ Cardinality(accepted) = Len(chain)
    /\ accepted \subseteq OnChain \cup {Newest}
    /\ Newest \in accepted
    /\ builder = "idle"
    /\ \A p \in MiningPools : Storing(p) =>
         /\ ~agregar_bloque
         /\ blk[p] = Newest
         /\ \A q \in MiningPools \ {p} : ~Storing(q)
         /\ handler[p] = "accepted" => previoushash = Hash(Tip)
         /\ handler[p] = "half" => previoushash = <<Len(chain), Len(chain) - 1>>
         /\ handler[p] = "handoff" => previoushash = Hash(Newest)
    /\ agregar_bloque => aux = Newest /\ previoushash = Hash(Newest)
    /\ \/ agregar_bloque
       \/ \E p \in MiningPools : Storing(p)

\* Blocks whose handler waits for a verdict, or told its pool Validated.
Kept ==
    LET added == OnChain \cup (IF agregar_bloque THEN {aux} ELSE {})
    IN  /\ validated \subseteq added
        /\ \A p \in MiningPools : handler[p] = "waiting" => blk[p] \in added

Steady == Published /\ BuilderHeader /\ Kept /\ (Quiet \/ InFlight)

Sound == Numbered /\ (Len(chain) < MaxBlocks => Steady)

IInv ==
    /\ TypeOK
    /\ Identities
    /\ NoSiblings => Sound
-----------------------------------------------------------------------------
(* Type correctness.                                                        *)

LEMMA InitTyped == Init => TypeOK /\ Identities
<1> SUFFICES ASSUME Init PROVE TypeOK /\ Identities
  OBVIOUS
<1>1. Genesis \in BlockSet /\ <<0, 0>> \in HashValues
  BY DEF Genesis, BlockSet, HashValues
<1>3. chain \in Seq(BlockSet) /\ Len(chain) \in 1..MaxBlocks
  BY <1>1, CentralAssumption DEF Init
<1>4. TypeOK
  BY <1>1, <1>3 DEF Init, TypeOK
<1>2. Identities
  BY FS_EmptySet DEF Init, Identities
<1> QED  BY <1>4, <1>2

\* The block a handler has received, when it checks it.
Received(p) == [id |-> Cardinality(accepted) + 1, prev |-> template[p]]

\* CheckBlock rejects the block, or accepts it under a new identity.
LEMMA CheckOutcome ==
    ASSUME TypeOK, Identities, NEW p \in MiningPools, CheckBlock(p)
    PROVE  \/ /\ UNCHANGED <<blk, accepted>>
              /\ handler' = [handler EXCEPT ![p] = "recv"]
           \/ /\ template[p] = previoushash
              /\ handler' = [handler EXCEPT ![p] = "accepted"]
              /\ blk' = [blk EXCEPT ![p] = Received(p)]
              /\ accepted' = accepted \cup {Received(p)}
              /\ Received(p) \in BlockSet
              /\ IsFiniteSet(accepted')
              /\ Cardinality(accepted') = Cardinality(accepted) + 1
<1> DEFINE n == Cardinality(accepted)
<1>1. n \in Nat
  BY FS_CardinalityType DEF Identities
<1>2. Received(p) \in BlockSet
  BY <1>1 DEF TypeOK, BlockSet, Received
<1>3. Received(p) \notin accepted
  BY <1>1 DEF Identities, Received
<1>4. /\ IsFiniteSet(accepted \cup {Received(p)})
      /\ Cardinality(accepted \cup {Received(p)}) = n + 1
  BY <1>3, FS_AddElement DEF Identities
<1> QED  BY <1>2, <1>4 DEF CheckBlock, NamesTip, Received

\* Only CheckBlock accepts a block.
LEMMA AcceptedStep ==
    ASSUME TypeOK, Identities, [Next]_vars
    PROVE  /\ accepted \subseteq accepted'
           /\ Identities'
           /\ accepted' \subseteq BlockSet
<1>1. CASE UNCHANGED accepted
  BY <1>1 DEF Identities, TypeOK
<1>2. ASSUME NEW p \in MiningPools, CheckBlock(p), accepted' # accepted
      PROVE  /\ accepted \subseteq accepted'
             /\ Identities'
             /\ accepted' \subseteq BlockSet
  <2> DEFINE n == Cardinality(accepted)
  <2>1. /\ accepted' = accepted \cup {Received(p)}
        /\ Received(p) \in BlockSet
        /\ IsFiniteSet(accepted') /\ Cardinality(accepted') = n + 1
    BY <1>2, CheckOutcome
  <2>2. n \in Nat
    BY FS_CardinalityType DEF Identities
  <2>3. \A c \in accepted' : c.id \in 1..(n + 1)
    BY <2>1, <2>2 DEF Identities, Received
  <2>4. Identities'
    BY <2>1, <2>3 DEF Identities
  <2> QED  BY <2>1, <2>4 DEF TypeOK
<1>3. CASE Peer
  BY <1>1, <1>3 DEF Peer, history
<1>4. CASE Builder
  BY <1>1, <1>4 DEF Builder, AddBlock, SendTransactions, AwaitDeletion,
                    PublishHigh, PublishLow, history
<1>5. ASSUME NEW t \in Threads, SpuriousWakeup(t)  PROVE UNCHANGED accepted
  BY <1>5 DEF SpuriousWakeup, history
<1>6. ASSUME NEW p \in MiningPools, Handler(p), ~CheckBlock(p)
      PROVE  UNCHANGED accepted
  BY <1>6 DEF Handler, SendHeader, AskForBlock, StoreHashHigh, StoreHashLow,
              HandOff, Resume, HandlerSeesEof, history
<1>7. CASE UNCHANGED vars
  BY <1>1, <1>7 DEF vars, history
<1> QED
  BY <1>1, <1>2, <1>3, <1>4, <1>5, <1>6, <1>7 DEF Next, Threads

\* A handler takes validado, and is told Validated for its own block, or waits.
LEMMA VerdictStep ==
    ASSUME TypeOK, NEW p \in MiningPools, TakeVerdict(p)
    PROVE  /\ validado' \in BOOLEAN
           /\ validated' \subseteq BlockSet
           /\ \/ handler' = [handler EXCEPT ![p] = "recv"]
                /\ validated' = validated \cup {blk[p]}
              \/ handler' = [handler EXCEPT ![p] = "waiting"]
                /\ validated' = validated
<1>1. CASE validado
  <2>1. /\ validado' = FALSE
        /\ handler' = [handler EXCEPT ![p] = "recv"]
        /\ validated' = validated \cup {blk[p]}
    BY <1>1, Zenon DEF TakeVerdict, VerdictTaken
  <2> QED  BY <2>1 DEF TypeOK
<1>2. CASE ~validado
  <2>1. /\ validado' = validado
        /\ handler' = [handler EXCEPT ![p] = "waiting"]
        /\ validated' = validated
    BY <1>2, Zenon DEF TakeVerdict
  <2> QED  BY <2>1 DEF TypeOK
<1> QED  BY <1>1, <1>2

LEMMA TypeStep == TypeOK /\ Identities /\ [Next]_vars => TypeOK' /\ Identities'
<1> SUFFICES ASSUME TypeOK, Identities, [Next]_vars
             PROVE  TypeOK' /\ Identities'
  OBVIOUS
<1>0. accepted' \subseteq BlockSet /\ Identities'
  BY AcceptedStep
<1> USE <1>0, CentralAssumption DEF TypeOK, Threads, shared, peers, history
<1>1. CASE Peer
  <2>1. pool' \in [MiningPools -> {"idle", "asked", "mining", "offered",
                                   "granted", "uploaded"}]
    BY <1>1 DEF Peer, PoolAsks, PoolOffers, PoolUploads, PeerDies
  <2>2. UNCHANGED template /\ alive' \subseteq alive
    BY <1>1 DEF Peer, PoolAsks, PoolOffers, PoolUploads, PeerDies
  <2> QED  BY <1>1, <2>1, <2>2 DEF Peer
<1>2. ASSUME NEW p \in MiningPools, Handler(p)  PROVE TypeOK' /\ Identities'
  <2>1. CASE SendHeader(p)
    BY <2>1 DEF SendHeader
  <2>2. CASE AskForBlock(p)
    BY <2>2 DEF AskForBlock
  <2>3. CASE CheckBlock(p)
    <3>1. Cardinality(accepted) + 1 \in Nat
      BY FS_CardinalityType DEF Identities
    <3>2. blk' \in [MiningPools -> BlockSet]
      BY <2>3, <3>1 DEF CheckBlock, BlockSet
    <3> QED  BY <2>3, <3>2 DEF CheckBlock
  <2>4. CASE StoreHashHigh(p)
    BY <2>4 DEF StoreHashHigh, BlockSet, HashValues
  <2>5. CASE StoreHashLow(p)
    BY <2>5 DEF StoreHashLow, LowStored, BlockSet, HashValues
  <2>6. CASE HandOff(p)
    <3>0. Asleep(p) \subseteq Threads
      BY DEF Asleep
    <3>1. sleeping' \subseteq Threads
      BY <2>6, <3>0 DEF HandOff
    <3>2. /\ validado' \in BOOLEAN
          /\ validated' \subseteq BlockSet
      BY <2>6, VerdictStep DEF HandOff
    <3>3. /\ handler' \in [MiningPools -> {"recv", "recvBlock", "accepted",
                                            "half", "handoff", "waiting"}]
          /\ pool' \in [MiningPools -> {"idle", "asked", "mining", "offered",
                                         "granted", "uploaded"}]
      BY <2>6 DEF HandOff, TakeVerdict
    <3>4. aux' \in BlockSet /\ agregar_bloque' \in BOOLEAN
      BY <2>6 DEF HandOff
    <3>5. UNCHANGED <<chain, previoushash, netprev, builder, blk, buffer, up,
                      template, alive, accepted>>
      BY <2>6 DEF HandOff
    <3> QED  BY <3>1, <3>2, <3>3, <3>4, <3>5
  <2>7. CASE Resume(p)
    <3>0. Asleep(p) \subseteq Threads
      BY DEF Asleep
    <3>1. sleeping' \subseteq Threads
      BY <2>7, <3>0 DEF Resume
    <3>2. /\ validado' \in BOOLEAN
          /\ validated' \subseteq BlockSet
      BY <2>7, VerdictStep DEF Resume
    <3>3. /\ handler' \in [MiningPools -> {"recv", "recvBlock", "accepted",
                                            "half", "handoff", "waiting"}]
          /\ pool' \in [MiningPools -> {"idle", "asked", "mining", "offered",
                                         "granted", "uploaded"}]
      BY <2>7 DEF Resume, TakeVerdict
    <3>4. aux' \in BlockSet /\ agregar_bloque' \in BOOLEAN
      BY <2>7 DEF Resume
    <3>5. UNCHANGED <<chain, previoushash, netprev, builder, blk, buffer, up,
                      template, alive, accepted>>
      BY <2>7 DEF Resume
    <3> QED  BY <3>1, <3>2, <3>3, <3>4, <3>5
  <2>8. CASE HandlerSeesEof(p)
    BY <2>8 DEF HandlerSeesEof
  <2> QED
    BY <1>2, <2>1, <2>2, <2>3, <2>4, <2>5, <2>6, <2>7, <2>8 DEF Handler
<1>3. CASE Builder
  <2>1. CASE AddBlock
    <3>0. chain' \in {chain, addBlock(chain, aux)}
      BY <2>1 DEF AddBlock
    <3>1. chain' \in Seq(BlockSet) /\ Len(chain') \in 1..MaxBlocks
      BY <3>0 DEF addBlock
    <3>2. /\ agregar_bloque' \in BOOLEAN
          /\ builder' \in {"idle", "newBlock", "deleting", "publish", "publishing"}
          /\ sleeping' \subseteq Threads
      BY <2>1 DEF AddBlock, BlockTaken
    <3>3. UNCHANGED <<aux, validado, previoushash, netprev, handler, blk, buffer,
                      up, peers, history>>
      BY <2>1 DEF AddBlock
    <3> QED  BY <3>1, <3>2, <3>3
  <2>2. CASE SendTransactions
    BY <2>2 DEF SendTransactions
  <2>3. CASE AwaitDeletion
    BY <2>3 DEF AwaitDeletion
  <2>4. CASE PublishHigh
    BY <2>4 DEF PublishHigh, HashValues
  <2>5. CASE PublishLow
    <3>1. sleeping' \subseteq Threads
      BY <2>5 DEF PublishLow
    <3>2. netprev' \in HashValues
      BY <2>5 DEF PublishLow, HashValues
    <3> QED  BY <2>5, <3>1, <3>2 DEF PublishLow
  <2> QED  BY <1>3, <2>1, <2>2, <2>3, <2>4, <2>5 DEF Builder
<1>4. ASSUME NEW t \in Threads, SpuriousWakeup(t)  PROVE TypeOK' /\ Identities'
  BY <1>4 DEF SpuriousWakeup
<1>5. CASE UNCHANGED vars
  BY <1>5 DEF vars
<1> QED  BY <1>1, <1>2, <1>3, <1>4, <1>5 DEF Next

\* Every variable keeps a value of its type: in particular the chain never
\* outgrows its array, whichever blocks the handlers hand off.
THEOREM TypeCorrect == Spec => []TypeOK
<1>1. Init => TypeOK /\ Identities
  BY InitTyped
<1>2. TypeOK /\ Identities /\ [Next]_vars => (TypeOK /\ Identities)'
  BY TypeStep
<1> QED  BY <1>1, <1>2, PTL DEF Spec
-----------------------------------------------------------------------------
(* The chain, while no siblings are accepted and it is not full.            *)

LEMMA TipFacts ==
    ASSUME TypeOK, Numbered
    PROVE  /\ Len(chain) \in Nat /\ Len(chain) >= 1
           /\ Tip \in OnChain
           /\ Tip.id = Len(chain) - 1
           /\ Hash(Tip) = <<Len(chain) - 1, Len(chain) - 1>>
           /\ Len(chain) > 1 => Tip.prev = <<Len(chain) - 2, Len(chain) - 2>>
<1>1. Len(chain) \in Nat /\ Len(chain) >= 1
  BY CentralAssumption DEF TypeOK
<1>2. Tip \in OnChain
  BY <1>1 DEF Tip, OnChain
<1>3. /\ Tip.id = Len(chain) - 1
      /\ Len(chain) > 1 => Tip.prev = <<Len(chain) - 2, Len(chain) - 2>>
  BY <1>1 DEF Numbered, Tip
<1> QED  BY <1>1, <1>2, <1>3 DEF Hash

\* Handlers that store no hash may move without disturbing the block in flight.
LEMMA FlightFrame ==
    ASSUME Quiet \/ InFlight,
           UNCHANGED <<chain, aux, agregar_bloque, previoushash, blk, accepted>>,
           InFlight => UNCHANGED builder,
           \A q \in MiningPools : \/ handler'[q] = handler[q]
                                  \/ ~Storing(q) /\ ~Storing(q)'
    PROVE  (Quiet \/ InFlight)'
<1>1. \A q \in MiningPools : Storing(q)' = Storing(q)
  BY DEF Storing
<1>2. \A q \in MiningPools : Storing(q) => handler'[q] = handler[q]
  OBVIOUS
<1>3. OnChain' = OnChain /\ Tip' = Tip /\ Newest' = Newest
  BY DEF OnChain, Tip, Newest
<1>4. CASE Quiet
  BY <1>1, <1>3, <1>4 DEF Quiet
<1>5. CASE InFlight
  BY <1>1, <1>2, <1>3, <1>5 DEF InFlight
<1> QED  BY <1>4, <1>5

\* A block is accepted only on top of a published tip, and only one at a time.
LEMMA CheckKeepsFlight ==
    ASSUME TypeOK, Identities, Numbered, Steady, NoSiblings',
           NEW p \in MiningPools, CheckBlock(p)
    PROVE  (Quiet \/ InFlight)'
<1> DEFINE L == Len(chain)
<1>1. UNCHANGED <<chain, aux, agregar_bloque, previoushash, builder, template>>
  BY DEF CheckBlock, shared
<1>2. handler[p] = "recvBlock"
  BY DEF CheckBlock
<1>3. CASE UNCHANGED <<blk, accepted>> /\ handler' = [handler EXCEPT ![p] = "recv"]
  BY <1>1, <1>2, <1>3, FlightFrame DEF Steady, Storing, TypeOK
<1>4. CASE /\ template[p] = previoushash
           /\ handler' = [handler EXCEPT ![p] = "accepted"]
           /\ blk' = [blk EXCEPT ![p] = Received(p)]
           /\ accepted' = accepted \cup {Received(p)}
           /\ Cardinality(accepted') = Cardinality(accepted) + 1
  <2>1. /\ L \in Nat /\ L >= 1
        /\ Hash(Tip) = <<L - 1, L - 1>>
        /\ Len(chain) > 1 => Tip.prev = <<L - 2, L - 2>>
    BY TipFacts
  <2>2. template[p] \in HashValues /\ netprev \in HashValues
    BY DEF TypeOK
  <2>3. CASE Quiet
    <3>1. builder = "idle"
      <4>1. netprev[2] >= L - 1
        BY <1>4, <2>1, <2>2, <2>3 DEF Quiet, Steady, Published, HashValues
      <4>2. builder # "idle" => netprev[2] = L - 2
        BY <2>1 DEF Steady, BuilderHeader, TypeOK
      <4> QED  BY <2>1, <4>1, <4>2
    <3>2. Received(p) = Newest
      BY <1>4, <2>1, <2>3 DEF Quiet, Received, Newest
    <3>3. Newest' = Newest /\ OnChain' = OnChain /\ Tip' = Tip
      BY <1>1 DEF Newest, OnChain, Tip
    <3>4. \A q \in MiningPools : Storing(q)' <=> q = p
      BY <1>4, <2>3 DEF Quiet, Storing, TypeOK
    <3>5. handler'[p] = "accepted" /\ blk'[p] = Newest
      BY <1>4, <3>2 DEF TypeOK
    <3>6. ~agregar_bloque' /\ previoushash' = Hash(Tip)
      BY <1>1, <2>3 DEF Quiet
    <3>7. /\ Cardinality(accepted') = L
          /\ accepted' \subseteq OnChain \cup {Newest}
          /\ Newest \in accepted'
      BY <1>4, <2>1, <2>3, <3>2 DEF Quiet
    <3> QED
      BY <1>1, <3>1, <3>3, <3>4, <3>5, <3>6, <3>7 DEF InFlight
  <2>4. CASE InFlight
    <3>1. template[p][1] <= L - 1
      BY DEF Steady, Published
    <3>2. previoushash = Hash(Tip)
      BY <1>4, <2>1, <2>2, <2>4, <3>1
         DEF InFlight, Storing, Hash, Newest, HashValues
    <3>3. Received(p).prev = Newest.prev /\ Received(p).id # Newest.id
      BY <1>4, <2>1, <2>4, <3>2 DEF Received, Newest, InFlight
    <3>4. Received(p) \in accepted' /\ Newest \in accepted'
      BY <1>4, <2>4 DEF InFlight
    <3> QED  BY <3>3, <3>4 DEF NoSiblings
  <2> QED  BY <2>3, <2>4 DEF Steady
<1> QED  BY <1>3, <1>4, CheckOutcome
\* A step that changes neither the chain nor the published header, no template
\* but to the published header, and no verdict.
LEMMA PublishedFrame ==
    ASSUME TypeOK, Published, UNCHANGED <<chain, netprev>>,
           \A q \in MiningPools : template'[q] \in {template[q], netprev}
    PROVE  Published'
<1> SUFFICES ASSUME NEW q \in MiningPools
             PROVE  /\ template'[q][1] <= Len(chain) - 1
                    /\ template'[q][2] <= netprev[2]
  BY DEF Published
<1>1. CASE template'[q] = template[q]
  BY <1>1 DEF Published
<1>2. CASE template'[q] = netprev
  BY <1>2 DEF Published, TypeOK, HashValues
<1> QED  BY <1>1, <1>2

LEMMA HeaderFrame ==
    ASSUME BuilderHeader, UNCHANGED <<chain, netprev>>,
           \/ UNCHANGED builder
           \/ /\ builder \in {"newBlock", "deleting", "publish"}
              /\ builder' \in {"newBlock", "deleting", "publish"}
    PROVE  BuilderHeader'
<1>1. Tip' = Tip
  BY DEF Tip
<1> QED  BY <1>1 DEF BuilderHeader, Hash

LEMMA KeptFrame ==
    ASSUME Kept, UNCHANGED <<chain, aux, agregar_bloque, validated, blk>>,
           \A q \in MiningPools : handler'[q] = "waiting" => handler[q] = "waiting"
    PROVE  Kept'
<1>1. OnChain' = OnChain
  BY DEF OnChain
<1> QED  BY <1>1 DEF Kept

LEMMA SteadyFrame ==
    ASSUME TypeOK, Steady,
           UNCHANGED <<chain, aux, agregar_bloque, previoushash, netprev, builder,
                       blk, accepted, validated>>,
           \A q \in MiningPools : template'[q] \in {template[q], netprev},
           \A q \in MiningPools : \/ handler'[q] = handler[q]
                                  \/ /\ handler[q] \in {"recv", "recvBlock"}
                                     /\ handler'[q] \in {"recv", "recvBlock"}
    PROVE  Steady'
<1>1. Published'
  BY PublishedFrame DEF Steady
<1>2. BuilderHeader'
  BY HeaderFrame DEF Steady
<1>3. Kept'
  BY KeptFrame DEF Steady
<1>4. (Quiet \/ InFlight)'
  BY FlightFrame DEF Steady, Storing
<1> QED  BY <1>1, <1>2, <1>3, <1>4 DEF Steady

LEMMA CheckKeepsSteady ==
    ASSUME TypeOK, Identities, Numbered, Steady, NoSiblings',
           NEW p \in MiningPools, CheckBlock(p)
    PROVE  Steady'
<1>1. /\ UNCHANGED <<chain, aux, agregar_bloque, netprev, builder, template,
                     validated>>
      /\ handler[p] = "recvBlock"
      /\ \A q \in MiningPools : handler'[q] = "waiting" => handler[q] = "waiting"
  BY DEF CheckBlock, shared, TypeOK
<1>2. Published' /\ BuilderHeader'
  BY <1>1, PublishedFrame, HeaderFrame DEF Steady
<1>3. Kept'
  <2>1. \A q \in MiningPools : handler'[q] = "waiting" => blk'[q] = blk[q]
    BY CheckOutcome DEF TypeOK
  <2>2. OnChain' = OnChain
    BY <1>1 DEF OnChain
  <2> QED  BY <1>1, <2>1, <2>2 DEF Steady, Kept
<1> QED  BY <1>2, <1>3, CheckKeepsFlight DEF Steady

LEMMA StoreKeepsSteady ==
    ASSUME TypeOK, Numbered, Steady,
           NEW p \in MiningPools, StoreHashHigh(p) \/ StoreHashLow(p)
    PROVE  Steady'
<1> DEFINE L == Len(chain)
<1>1. /\ UNCHANGED <<chain, aux, agregar_bloque, netprev, builder, blk, accepted,
                     template, validated>>
      /\ \A q \in MiningPools : handler'[q] = "waiting" => handler[q] = "waiting"
  BY DEF StoreHashHigh, StoreHashLow, shared, peers, history, TypeOK
<1>2. Storing(p)
  BY DEF StoreHashHigh, StoreHashLow, Storing
<1>3. InFlight
  BY <1>2 DEF Steady, Quiet
<1>4. /\ ~agregar_bloque
      /\ blk[p] = Newest
      /\ \A q \in MiningPools \ {p} : ~Storing(q)
  BY <1>2, <1>3 DEF InFlight
<1>5. /\ L \in Nat /\ Hash(Tip) = <<L - 1, L - 1>>
      /\ Hash(Newest) = <<L, L>> /\ Newest.id = L
  BY TipFacts DEF Hash, Newest
<1>6. /\ handler'[p] \in {"half", "handoff"}
      /\ handler'[p] = "half" => previoushash' = <<L, L - 1>>
      /\ handler'[p] = "handoff" => previoushash' = Hash(Newest)
  <2>1. CASE StoreHashHigh(p)
    BY <2>1, <1>3, <1>4, <1>5 DEF StoreHashHigh, InFlight, Storing, TypeOK
  <2>2. CASE StoreHashLow(p)
    BY <2>2, <1>3, <1>4, <1>5 DEF StoreHashLow, LowStored, InFlight, Storing, TypeOK
  <2> QED  BY <2>1, <2>2
<1>7. \A q \in MiningPools : Storing(q)' <=> q = p
  BY <1>4, <1>6 DEF StoreHashHigh, StoreHashLow, Storing, TypeOK
<1>8. OnChain' = OnChain /\ Newest' = Newest /\ Hash(Newest)' = Hash(Newest)
  BY <1>1 DEF OnChain, Newest, Tip, Hash
<1>9. InFlight'
  BY <1>1, <1>3, <1>4, <1>6, <1>7, <1>8 DEF InFlight
<1>10. Published' /\ BuilderHeader' /\ Kept'
  BY <1>1, PublishedFrame, HeaderFrame, KeptFrame DEF Steady
<1> QED  BY <1>9, <1>10 DEF Steady

LEMMA HandOffKeepsSteady ==
    ASSUME TypeOK, Numbered, Steady, NEW p \in MiningPools, HandOff(p)
    PROVE  Steady'
<1>1. /\ UNCHANGED <<chain, previoushash, netprev, builder, blk, accepted, template>>
      /\ aux' = blk[p] /\ agregar_bloque' = TRUE
      /\ handler[p] = "handoff" /\ TakeVerdict(p)
  BY DEF HandOff
<1>2. InFlight
  BY <1>1 DEF Steady, Quiet, Storing
<1>3. /\ ~agregar_bloque
      /\ blk[p] = Newest
      /\ previoushash = Hash(Newest)
      /\ \A q \in MiningPools \ {p} : ~Storing(q)
  BY <1>1, <1>2 DEF InFlight, Storing
<1>4. \/ handler' = [handler EXCEPT ![p] = "recv"]
         /\ validated' = validated \cup {blk[p]}
      \/ handler' = [handler EXCEPT ![p] = "waiting"]
         /\ validated' = validated
  BY <1>1, VerdictStep
<1>5. OnChain' = OnChain /\ Newest' = Newest /\ Hash(Newest)' = Hash(Newest)
  BY <1>1 DEF OnChain, Newest, Tip, Hash
<1>6. \A q \in MiningPools : ~Storing(q)'
  BY <1>3, <1>4 DEF Storing, TypeOK
<1>7. InFlight'
  BY <1>1, <1>2, <1>3, <1>5, <1>6 DEF InFlight
<1>8. Kept'
  <2>1. validated \subseteq OnChain
        /\ \A q \in MiningPools : handler[q] = "waiting" => blk[q] \in OnChain
    BY <1>3 DEF Steady, Kept
  <2>2. validated' \subseteq OnChain \cup {aux'}
    BY <1>1, <1>4, <2>1
  <2>3. \A q \in MiningPools : handler'[q] = "waiting" => q = p \/ handler[q] = "waiting"
    BY <1>4 DEF TypeOK
  <2> QED  BY <1>1, <1>5, <2>1, <2>2, <2>3 DEF Kept
<1>9. Published' /\ BuilderHeader'
  BY <1>1, PublishedFrame, HeaderFrame DEF Steady
<1> QED  BY <1>7, <1>8, <1>9 DEF Steady

LEMMA ResumeKeepsSteady ==
    ASSUME TypeOK, Steady, NEW p \in MiningPools, Resume(p)
    PROVE  Steady'
<1>1. /\ UNCHANGED <<chain, aux, agregar_bloque, previoushash, netprev, builder,
                     blk, accepted, template>>
      /\ handler[p] = "waiting" /\ TakeVerdict(p)
  BY DEF Resume
<1>2. \/ handler' = [handler EXCEPT ![p] = "recv"]
         /\ validated' = validated \cup {blk[p]}
      \/ handler' = [handler EXCEPT ![p] = "waiting"]
         /\ validated' = validated
  BY <1>1, VerdictStep
<1>3. (Quiet \/ InFlight)'
  BY <1>1, <1>2, FlightFrame DEF Steady, Storing, TypeOK
<1>4. Kept'
  <2>1. OnChain' = OnChain
    BY <1>1 DEF OnChain
  <2>2. validated' \subseteq validated \cup {blk[p]}
    BY <1>2
  <2>3. \A q \in MiningPools : handler'[q] = "waiting" => handler[q] = "waiting"
    BY <1>1, <1>2 DEF TypeOK
  <2> QED  BY <1>1, <2>1, <2>2, <2>3 DEF Steady, Kept
<1>5. Published' /\ BuilderHeader'
  BY <1>1, PublishedFrame, HeaderFrame DEF Steady
<1> QED  BY <1>3, <1>4, <1>5 DEF Steady

LEMMA AddKeepsSound ==
    ASSUME TypeOK, Numbered, Steady, Len(chain) < MaxBlocks,
           AddBlock, agregar_bloque
    PROVE  Numbered' /\ Steady'
<1> DEFINE L == Len(chain)
<1>1. /\ UNCHANGED <<aux, previoushash, netprev, handler, blk, template, accepted,
                     validated>>
      /\ builder = "idle" /\ builder' = "newBlock"
      /\ ~agregar_bloque' /\ chain' = Append(chain, aux)
  BY DEF AddBlock, addBlock, BlockTaken, peers, history
<1>2. /\ InFlight
      /\ aux = Newest /\ previoushash = Hash(Newest)
      /\ \A q \in MiningPools : ~Storing(q)
  BY DEF Steady, Quiet, InFlight
<1>3. /\ L \in Nat /\ L >= 1 /\ Hash(Tip) = <<L - 1, L - 1>>
  BY TipFacts
<1>4. /\ Len(chain') = L + 1
      /\ \A i \in 1..L : chain'[i] = chain[i]
      /\ chain'[L + 1] = Newest
  BY <1>1, <1>2, <1>3 DEF TypeOK
<1>5. Numbered'
  BY <1>3, <1>4 DEF Numbered, Newest
<1>6. OnChain' = OnChain \cup {Newest} /\ Tip' = Newest
  BY <1>3, <1>4 DEF OnChain, Tip
<1>7. Published'
  BY <1>1, <1>3, <1>4 DEF Steady, Published, TypeOK, HashValues
<1>8. BuilderHeader'
  BY <1>1, <1>3, <1>4, <1>6 DEF Steady, BuilderHeader, Newest
<1>9. Kept'
  BY <1>1, <1>2, <1>6 DEF Steady, Kept
<1>10. Quiet'
  BY <1>1, <1>2, <1>3, <1>4, <1>6 DEF Quiet, InFlight, Storing, Hash
<1> QED  BY <1>5, <1>7, <1>8, <1>9, <1>10 DEF Steady

LEMMA PublishKeepsSteady ==
    ASSUME TypeOK, Numbered, Steady, PublishHigh \/ PublishLow
    PROVE  Steady'
<1> DEFINE L == Len(chain)
<1>1. /\ UNCHANGED <<chain, aux, agregar_bloque, previoushash, handler, blk,
                     accepted, template, validated>>
      /\ builder \in {"publish", "publishing"}
  BY DEF PublishHigh, PublishLow, shared, peers, history
<1>2. Quiet
  BY <1>1 DEF Steady, InFlight
<1>3. /\ L \in Nat /\ L > 1
      /\ Hash(Tip) = <<L - 1, L - 1>> /\ Tip.prev = <<L - 2, L - 2>>
  BY <1>1, TipFacts DEF Steady, BuilderHeader
<1>4. Tip' = Tip /\ previoushash = <<L - 1, L - 1>>
  BY <1>1, <1>2, <1>3 DEF Tip, Quiet
<1>5. /\ builder' \in {"idle", "publishing"}
      /\ builder' = "publishing" => netprev' = <<L - 1, L - 2>>
      /\ builder' = "idle" => netprev' = <<L - 1, L - 1>>
      /\ netprev[2] = L - 2
  BY <1>3, <1>4 DEF PublishHigh, PublishLow, Steady, BuilderHeader
<1>6. BuilderHeader'
  BY <1>1, <1>3, <1>4, <1>5 DEF BuilderHeader, Hash
<1>7. Published'
  BY <1>1, <1>3, <1>5 DEF Steady, Published, TypeOK, HashValues
<1>8. Kept' /\ (Quiet \/ InFlight)'
  BY <1>1, <1>2, KeptFrame, FlightFrame DEF Steady, InFlight
<1> QED  BY <1>6, <1>7, <1>8 DEF Steady
-----------------------------------------------------------------------------
(* Every step keeps the chain sound.                                        *)

\* A full chain is never written again.
LEMMA FullStep == [Next]_vars /\ Len(chain) = MaxBlocks => UNCHANGED chain
<1> SUFFICES ASSUME [Next]_vars, Len(chain) = MaxBlocks PROVE UNCHANGED chain
  OBVIOUS
<1>1. CASE Peer \/ (\E t \in Threads : SpuriousWakeup(t)) \/ UNCHANGED vars
  BY <1>1 DEF Peer, SpuriousWakeup, vars, shared
<1>2. ASSUME NEW p \in MiningPools, Handler(p)  PROVE UNCHANGED chain
  BY <1>2 DEF Handler, SendHeader, AskForBlock, CheckBlock, StoreHashHigh,
              StoreHashLow, HandOff, Resume, HandlerSeesEof, shared
<1>3. CASE Builder
  <2>1. CASE AddBlock
    BY <2>1 DEF AddBlock, addBlock
  <2>2. CASE ~AddBlock
    BY <1>3, <2>2 DEF Builder, SendTransactions, AwaitDeletion, PublishHigh,
                      PublishLow, shared
  <2> QED  BY <2>1, <2>2
<1> QED  BY <1>1, <1>2, <1>3 DEF Next, Threads

LEMMA SoundStep ==
    ASSUME TypeOK, Identities, [Next]_vars, NoSiblings', NoSiblings => Sound
    PROVE  Sound'
<1>1. accepted \subseteq accepted'
  BY AcceptedStep
<1>2. Sound
  BY <1>1 DEF NoSiblings
<1>3. Numbered
  BY <1>2 DEF Sound
<1>4. CASE UNCHANGED chain /\ Len(chain) = MaxBlocks
  BY <1>2, <1>4 DEF Sound, Numbered
<1>5. CASE UNCHANGED chain /\ Steady'
  BY <1>3, <1>5 DEF Sound, Numbered
<1>6. ASSUME Len(chain) < MaxBlocks, NEW p \in MiningPools, Handler(p)
      PROVE  UNCHANGED chain /\ Steady'
  <2>1. Steady
    BY <1>2, <1>6 DEF Sound
  <2>2. CASE SendHeader(p)
    <3>1. /\ UNCHANGED <<chain, aux, agregar_bloque, previoushash, netprev,
                         builder, blk, accepted, validated, handler>>
          /\ \A q \in MiningPools : template'[q] \in {template[q], netprev}
      BY <2>2 DEF SendHeader, shared, history, TypeOK
    <3> QED  BY <2>1, <3>1, SteadyFrame
  <2>3. CASE AskForBlock(p)
    <3>1. /\ UNCHANGED <<chain, aux, agregar_bloque, previoushash, netprev,
                         builder, blk, accepted, validated, template>>
          /\ handler[p] = "recv" /\ handler' = [handler EXCEPT ![p] = "recvBlock"]
      BY <2>3 DEF AskForBlock, shared, history
    <3> QED  BY <2>1, <3>1, SteadyFrame DEF TypeOK
  <2>4. CASE CheckBlock(p)
    BY <1>3, <2>1, <2>4, CheckKeepsSteady DEF CheckBlock, shared
  <2>5. CASE StoreHashHigh(p) \/ StoreHashLow(p)
    BY <1>3, <2>1, <2>5, StoreKeepsSteady DEF StoreHashHigh, StoreHashLow, shared
  <2>6. CASE HandOff(p)
    BY <1>3, <2>1, <2>6, HandOffKeepsSteady DEF HandOff
  <2>7. CASE Resume(p)
    BY <2>1, <2>7, ResumeKeepsSteady DEF Resume
  <2>8. CASE HandlerSeesEof(p)
    BY <2>1, <2>8, SteadyFrame DEF HandlerSeesEof, shared, peers, history
  <2> QED
    BY <1>6, <2>2, <2>3, <2>4, <2>5, <2>6, <2>7, <2>8 DEF Handler
<1>7. ASSUME Len(chain) < MaxBlocks, Builder
      PROVE  Numbered' /\ Steady'
  <2>1. Steady
    BY <1>2, <1>7 DEF Sound
  <2>2. CASE AddBlock /\ agregar_bloque
    BY <1>3, <1>7, <2>1, <2>2, AddKeepsSound
  <2>3. CASE AddBlock /\ ~agregar_bloque
    <3>1. UNCHANGED <<chain, aux, agregar_bloque, previoushash, netprev, builder,
                      blk, accepted, validated, template, handler>>
      BY <2>3 DEF AddBlock, peers, history
    <3> QED  BY <1>3, <2>1, <3>1, SteadyFrame DEF Numbered
  <2>4. CASE SendTransactions \/ AwaitDeletion
    <3>1. /\ UNCHANGED <<chain, aux, agregar_bloque, previoushash, netprev, blk,
                         accepted, validated, template, handler>>
          /\ builder # "idle"
          /\ \/ UNCHANGED builder
             \/ /\ builder \in {"newBlock", "deleting", "publish"}
                /\ builder' \in {"newBlock", "deleting", "publish"}
      BY <2>4 DEF SendTransactions, AwaitDeletion, shared, peers, history
    <3>2. Published' /\ BuilderHeader' /\ Kept'
      BY <2>1, <3>1, PublishedFrame, HeaderFrame, KeptFrame DEF Steady
    <3>3. (Quiet \/ InFlight)'
      BY <2>1, <3>1, FlightFrame DEF Steady, InFlight
    <3> QED  BY <1>3, <3>1, <3>2, <3>3 DEF Steady, Numbered
  <2>5. CASE PublishHigh \/ PublishLow
    BY <1>3, <2>1, <2>5, PublishKeepsSteady
       DEF PublishHigh, PublishLow, shared, Numbered
  <2> QED  BY <1>7, <2>2, <2>3, <2>4, <2>5 DEF Builder
<1>8. ASSUME Len(chain) < MaxBlocks,
             Peer \/ (\E t \in Threads : SpuriousWakeup(t)) \/ UNCHANGED vars
      PROVE  UNCHANGED chain /\ Steady'
  <2>1. UNCHANGED <<chain, aux, agregar_bloque, previoushash, netprev, builder,
                    blk, accepted, validated, template, handler>>
    BY <1>8 DEF Peer, PoolAsks, PoolOffers, PoolUploads, PeerDies,
                SpuriousWakeup, vars, shared, peers, history
  <2> QED  BY <1>2, <1>8, <2>1, SteadyFrame DEF Sound
<1>9. Len(chain) < MaxBlocks => Sound'
  BY <1>3, <1>5, <1>6, <1>7, <1>8 DEF Next, Threads, Sound
<1>10. Len(chain) \in 1..MaxBlocks
  BY DEF TypeOK
<1>11. Len(chain) = MaxBlocks => UNCHANGED chain
  BY FullStep
<1> QED  BY <1>4, <1>9, <1>10, <1>11, CentralAssumption

LEMMA InitSound == Init => Sound
<1> SUFFICES ASSUME Init PROVE Sound
  OBVIOUS
<1>1. /\ Len(chain) = 1 /\ chain[1] = Genesis /\ Tip = Genesis
      /\ OnChain = {Genesis}
  BY DEF Init, Tip, OnChain
<1>2. Numbered
  BY <1>1 DEF Numbered, Genesis
<1>3. Published
  BY <1>1 DEF Init, Published
<1>4. BuilderHeader
  BY <1>1 DEF Init, BuilderHeader, Hash, Genesis
<1>5. Kept
  BY DEF Init, Kept
<1>6. Quiet
  BY <1>1, FS_EmptySet DEF Init, Quiet, Storing, Hash, Genesis
<1> QED  BY <1>2, <1>3, <1>4, <1>5, <1>6 DEF Sound, Steady

\* IInv is an inductive invariant of the specification.
THEOREM Inductive == Spec => []IInv
<1>1. Init => IInv
  BY InitTyped, InitSound DEF IInv
<1>2. IInv /\ [Next]_vars => IInv'
  <2> SUFFICES ASSUME IInv, [Next]_vars PROVE IInv'
    OBVIOUS
  <2>1. TypeOK' /\ Identities'
    BY TypeStep DEF IInv
  <2>2. NoSiblings' => Sound'
    BY SoundStep DEF IInv
  <2> QED  BY <2>1, <2>2 DEF IInv
<1> QED  BY <1>1, <1>2, PTL DEF Spec

\* Unless siblings are accepted, every block of the chain names the hash of the
\* block before it, although handlers and builder use previoushash and netwheader
\* without the lock.
THEOREM ChainIsLinked == Spec => []LinkedUnlessSiblings
<1>1. IInv => LinkedUnlessSiblings
  <2> SUFFICES ASSUME IInv, NoSiblings, NEW i \in 2..Len(chain)
               PROVE  chain[i].prev = Hash(chain[i - 1])
    BY DEF LinkedUnlessSiblings, Linked
  <2>1. Numbered /\ Len(chain) \in Nat
    BY DEF IInv, Sound, TypeOK
  <2>2. /\ i \in 1..Len(chain) /\ i - 1 \in 1..Len(chain)
        /\ i > 1 /\ (i - 1) - 1 = i - 2
    BY <2>1
  <2>3. chain[i].prev = <<i - 2, i - 2>> /\ chain[i - 1].id = (i - 1) - 1
    BY <2>1, <2>2 DEF Numbered
  <2> QED  BY <2>2, <2>3 DEF Hash
<1> QED  BY <1>1, Inductive, PTL

\* The published header names the tip whenever the builder is idle, and its
\* predecessor until the mempool deleted the tip's transactions.
THEOREM HeaderIsPublishedLast == Spec => []HeaderFollowsTip
<1>1. IInv => HeaderFollowsTip
  BY DEF IInv, Sound, Steady, BuilderHeader, HeaderFollowsTip
<1> QED  BY <1>1, Inductive, PTL

\* No handler tells its pool Validated for a block that is not added, although
\* handlers may take the verdict of each other's blocks.
THEOREM NoVerdictIsBroken == Spec => []ValidatedIsKept
<1>1. IInv => ValidatedIsKept
  BY DEF IInv, Sound, Steady, Kept, ValidatedIsKept
<1> QED  BY <1>1, Inductive, PTL
-----------------------------------------------------------------------------
(* The central server implements Blockchain.                                *)

Pending == accepted \ OnChain

\* What each step does to the three things Blockchain sees.
LEMMA Effects ==
    ASSUME TypeOK, Identities, [Next]_vars
    PROVE  \/ UNCHANGED <<chain, accepted, validated>>
           \/ \E p \in MiningPools :
                /\ CheckBlock(p) /\ UNCHANGED <<chain, validated>>
                /\ accepted' = accepted \cup {Received(p)}
                /\ Cardinality(accepted') = Cardinality(accepted) + 1
           \/ \E p \in MiningPools :
                /\ HandOff(p) \/ Resume(p)
                /\ UNCHANGED <<chain, accepted>>
                /\ validated' = validated \cup {blk[p]}
           \/ /\ AddBlock /\ agregar_bloque
              /\ UNCHANGED <<accepted, validated>>
<1>1. CASE Peer \/ (\E t \in Threads : SpuriousWakeup(t)) \/ UNCHANGED vars
  BY <1>1 DEF Peer, SpuriousWakeup, vars, shared, history
<1>2. ASSUME NEW p \in MiningPools,
             \/ SendHeader(p) \/ AskForBlock(p) \/ StoreHashHigh(p)
             \/ StoreHashLow(p) \/ HandlerSeesEof(p)
      PROVE  UNCHANGED <<chain, accepted, validated>>
  BY <1>2 DEF SendHeader, AskForBlock, StoreHashHigh, StoreHashLow,
              HandlerSeesEof, shared, history
<1>3. ASSUME NEW p \in MiningPools, CheckBlock(p)
      PROVE  /\ UNCHANGED <<chain, validated>>
             /\ \/ UNCHANGED accepted
                \/ /\ accepted' = accepted \cup {Received(p)}
                   /\ Cardinality(accepted') = Cardinality(accepted) + 1
  BY <1>3, CheckOutcome DEF CheckBlock, shared
<1>4. ASSUME NEW p \in MiningPools, HandOff(p) \/ Resume(p)
      PROVE  /\ UNCHANGED <<chain, accepted>>
             /\ UNCHANGED validated \/ validated' = validated \cup {blk[p]}
  BY <1>4, VerdictStep DEF HandOff, Resume
<1>5. CASE AddBlock
  <2>1. UNCHANGED <<accepted, validated>>
    BY <1>5 DEF AddBlock, history
  <2>2. ~agregar_bloque => UNCHANGED chain
    BY <1>5 DEF AddBlock
  <2> QED  BY <1>5, <2>1, <2>2
<1>6. CASE SendTransactions \/ AwaitDeletion \/ PublishHigh \/ PublishLow
  BY <1>6 DEF SendTransactions, AwaitDeletion, PublishHigh, PublishLow, shared,
              history
<1> QED
  BY <1>1, <1>2, <1>3, <1>4, <1>5, <1>6 DEF Next, Handler, Builder, Threads

-----------------------------------------------------------------------------
(* Every block has one place, siblings included.                            *)

\* An accepted block is with the handler that checked it, then in aux, then on
\* the chain: never in two of these, and never with two handlers.
Owned ==
    /\ OnChain \subseteq accepted \cup {Genesis}
    /\ NoBlockTwice
    /\ agregar_bloque => aux \in accepted \ OnChain
    /\ \A p \in MiningPools :
         Storing(p) \/ handler[p] = "waiting" => blk[p] \in accepted
    /\ \A p \in MiningPools : Storing(p) =>
         /\ blk[p] \notin OnChain
         /\ agregar_bloque => blk[p] # aux
         /\ \A q \in MiningPools \ {p} : Storing(q) => blk[p] # blk[q]

LEMMA InitOwned == Init => Owned
<1> SUFFICES ASSUME Init PROVE Owned
  OBVIOUS
<1>1. Len(chain) = 1 /\ OnChain = {Genesis}
  BY DEF Init, OnChain
<1> QED  BY <1>1 DEF Init, Owned, NoBlockTwice, Storing

\* Handlers that neither come to store a hash nor come to wait may move freely.
LEMMA OwnedFrame ==
    ASSUME Owned, UNCHANGED <<chain, aux, agregar_bloque, blk, accepted>>,
           \A q \in MiningPools :
             \/ Storing(q) /\ Storing(q)'
             \/ ~Storing(q)' /\ (handler'[q] = "waiting" => handler[q] = "waiting")
    PROVE  Owned'
<1>1. OnChain' = OnChain
  BY DEF OnChain
<1> QED  BY <1>1 DEF Owned, NoBlockTwice

LEMMA CheckKeepsOwned ==
    ASSUME TypeOK, Identities, Owned, NEW p \in MiningPools, CheckBlock(p)
    PROVE  Owned'
<1>1. UNCHANGED <<chain, aux, agregar_bloque>> /\ handler[p] = "recvBlock"
  BY DEF CheckBlock, shared
<1>2. OnChain' = OnChain /\ NoBlockTwice'
  BY <1>1 DEF OnChain, Owned, NoBlockTwice
<1>3. CASE UNCHANGED <<blk, accepted>> /\ handler' = [handler EXCEPT ![p] = "recv"]
  BY <1>1, <1>3, OwnedFrame DEF Storing, TypeOK
<1>4. CASE /\ handler' = [handler EXCEPT ![p] = "accepted"]
           /\ blk' = [blk EXCEPT ![p] = Received(p)]
           /\ accepted' = accepted \cup {Received(p)}
  <2>1. Received(p) \notin accepted /\ Received(p) # Genesis
    <3>1. Cardinality(accepted) \in Nat
      BY FS_CardinalityType DEF Identities
    <3> QED  BY <3>1 DEF Identities, Received, Genesis
  <2>2. Received(p) \notin OnChain
    BY <2>1 DEF Owned
  <2>3. ~Storing(p) /\ Storing(p)' /\ handler'[p] # "waiting" /\ blk'[p] = Received(p)
    BY <1>1, <1>4 DEF Storing, TypeOK
  <2>4. \A q \in MiningPools \ {p} :
          blk'[q] = blk[q] /\ handler'[q] = handler[q] /\ Storing(q)' = Storing(q)
    BY <1>4 DEF Storing, TypeOK
  <2>5. \A q \in MiningPools \ {p} : Storing(q) => blk[q] # Received(p)
    BY <2>1 DEF Owned
  <2>6. agregar_bloque => aux # Received(p)
    BY <2>1 DEF Owned
  <2>7. \A q \in MiningPools : Storing(q)' =>
          /\ blk'[q] \notin OnChain'
          /\ agregar_bloque' => blk'[q] # aux'
          /\ \A r \in MiningPools \ {q} : Storing(r)' => blk'[q] # blk'[r]
    <3> SUFFICES ASSUME NEW q \in MiningPools, Storing(q)'
                 PROVE  /\ blk'[q] \notin OnChain'
                        /\ agregar_bloque' => blk'[q] # aux'
                        /\ \A r \in MiningPools \ {q} : Storing(r)' => blk'[q] # blk'[r]
      OBVIOUS
    <3>1. CASE q = p
      BY <1>1, <1>2, <2>2, <2>3, <2>4, <2>5, <2>6, <3>1
    <3>2. CASE q # p
      <4>1. Storing(q) /\ blk'[q] = blk[q] /\ blk[q] # Received(p)
        BY <2>4, <2>5, <3>2
      <4>2. \A r \in MiningPools \ {q} : Storing(r)' => blk[q] # blk'[r]
        BY <2>3, <2>4, <4>1 DEF Owned
      <4> QED  BY <1>1, <1>2, <4>1, <4>2 DEF Owned
    <3> QED  BY <3>1, <3>2
  <2>8. \A q \in MiningPools :
          Storing(q)' \/ handler'[q] = "waiting" => blk'[q] \in accepted'
    BY <1>4, <2>3, <2>4 DEF Owned
  <2> QED  BY <1>1, <1>2, <1>4, <2>7, <2>8 DEF Owned
<1> QED  BY <1>3, <1>4, CheckOutcome

LEMMA HandOffKeepsOwned ==
    ASSUME TypeOK, Owned, NEW p \in MiningPools, HandOff(p)
    PROVE  Owned'
<1>1. /\ UNCHANGED <<chain, blk, accepted>>
      /\ aux' = blk[p] /\ handler[p] = "handoff" /\ TakeVerdict(p)
  BY DEF HandOff
<1>2. OnChain' = OnChain /\ NoBlockTwice'
  BY <1>1 DEF OnChain, Owned, NoBlockTwice
<1>3. Storing(p) /\ ~Storing(p)'
  BY <1>1, VerdictStep DEF Storing, TypeOK
<1>4. \A q \in MiningPools \ {p} : handler'[q] = handler[q] /\ Storing(q)' = Storing(q)
  BY <1>1, VerdictStep DEF Storing, TypeOK
<1> QED  BY <1>1, <1>2, <1>3, <1>4 DEF Owned

LEMMA AddKeepsOwned ==
    ASSUME TypeOK, Identities, Owned, AddBlock
    PROVE  Owned'
<1>1. UNCHANGED <<aux, handler, blk, accepted>>
  BY DEF AddBlock, peers, history
<1>2. \A q \in MiningPools : Storing(q)' = Storing(q)
  BY <1>1 DEF Storing
<1>3. CASE UNCHANGED <<chain, agregar_bloque>>
  BY <1>1, <1>2, <1>3, OwnedFrame
<1>4. CASE agregar_bloque /\ ~agregar_bloque' /\ UNCHANGED chain
  <2>1. OnChain' = OnChain /\ NoBlockTwice'
    BY <1>4 DEF OnChain, Owned, NoBlockTwice
  <2> QED  BY <1>1, <1>2, <1>4, <2>1 DEF Owned
<1>5. CASE agregar_bloque /\ ~agregar_bloque' /\ chain' = Append(chain, aux)
  <2>1. /\ Len(chain) \in Nat /\ Len(chain') = Len(chain) + 1
        /\ \A i \in 1..Len(chain) : chain'[i] = chain[i]
        /\ chain'[Len(chain) + 1] = aux
    BY <1>5 DEF TypeOK
  <2>2. OnChain' = OnChain \cup {aux}
    BY <2>1 DEF OnChain
  <2>3. aux \in accepted /\ \A i \in 1..Len(chain) : chain[i] # aux
    BY <1>5 DEF Owned, OnChain
  <2>4. NoBlockTwice'
    <3> SUFFICES ASSUME NEW i \in 1..Len(chain'), NEW j \in 1..Len(chain'),
                        chain'[i] = chain'[j]
                 PROVE  i = j
      BY DEF NoBlockTwice
    <3>1. CASE i \in 1..Len(chain) /\ j \in 1..Len(chain)
      BY <2>1, <3>1 DEF Owned, NoBlockTwice
    <3>2. CASE i = Len(chain) + 1 \/ j = Len(chain) + 1
      BY <2>1, <2>3, <3>2
    <3> QED  BY <2>1, <3>1, <3>2
  <2> QED  BY <1>1, <1>2, <1>5, <2>2, <2>3, <2>4 DEF Owned
<1> QED  BY <1>3, <1>4, <1>5 DEF AddBlock, addBlock, BlockTaken

LEMMA OwnedStep ==
    ASSUME TypeOK, Identities, Owned, [Next]_vars
    PROVE  Owned'
<1>1. CASE Peer \/ (\E t \in Threads : SpuriousWakeup(t)) \/ UNCHANGED vars
  BY <1>1, OwnedFrame DEF Peer, SpuriousWakeup, vars, shared, history, Storing
<1>2. ASSUME NEW p \in MiningPools, Handler(p)  PROVE Owned'
  <2>1. CASE SendHeader(p) \/ AskForBlock(p) \/ HandlerSeesEof(p)
    <3>1. UNCHANGED <<chain, aux, agregar_bloque, blk, accepted>>
      BY <2>1 DEF SendHeader, AskForBlock, HandlerSeesEof, shared, history
    <3>2. \A q \in MiningPools : \/ handler'[q] = handler[q]
                                 \/ handler[q] = "recv" /\ handler'[q] = "recvBlock"
      BY <2>1 DEF SendHeader, AskForBlock, HandlerSeesEof, TypeOK
    <3> QED  BY <3>1, <3>2, OwnedFrame DEF Storing
  <2>2. CASE CheckBlock(p)
    BY <2>2, CheckKeepsOwned
  <2>3. CASE StoreHashHigh(p) \/ StoreHashLow(p)
    <3>1. UNCHANGED <<chain, aux, agregar_bloque, blk, accepted>>
      BY <2>3 DEF StoreHashHigh, StoreHashLow, shared, history
    <3>2. \A q \in MiningPools : \/ handler'[q] = handler[q]
                                 \/ Storing(q) /\ handler'[q] \in {"half", "handoff"}
      BY <2>3 DEF StoreHashHigh, StoreHashLow, Storing, TypeOK
    <3> QED  BY <3>1, <3>2, OwnedFrame DEF Storing
  <2>4. CASE HandOff(p)
    BY <2>4, HandOffKeepsOwned
  <2>5. CASE Resume(p)
    <3>1. /\ UNCHANGED <<chain, aux, agregar_bloque, blk, accepted>>
          /\ handler[p] = "waiting" /\ TakeVerdict(p)
      BY <2>5 DEF Resume
    <3>2. \A q \in MiningPools : \/ handler'[q] = handler[q]
                                 \/ handler[q] = "waiting"
                                    /\ handler'[q] \in {"recv", "waiting"}
      BY <3>1, VerdictStep DEF TypeOK
    <3> QED  BY <3>1, <3>2, OwnedFrame DEF Storing
  <2> QED  BY <1>2, <2>1, <2>2, <2>3, <2>4, <2>5 DEF Handler
<1>3. CASE Builder
  <2>1. CASE AddBlock
    BY <2>1, AddKeepsOwned
  <2>2. CASE SendTransactions \/ AwaitDeletion \/ PublishHigh \/ PublishLow
    BY <2>2, OwnedFrame DEF SendTransactions, AwaitDeletion, PublishHigh,
                            PublishLow, shared, history, Storing
  <2> QED  BY <1>3, <2>1, <2>2 DEF Builder
<1> QED  BY <1>1, <1>2, <1>3 DEF Next, Threads

LEMMA AlwaysOwned == Spec => [](TypeOK /\ Identities /\ Owned)
<1>1. Init => TypeOK /\ Identities /\ Owned
  BY InitTyped, InitOwned
<1>2. TypeOK /\ Identities /\ Owned /\ [Next]_vars => (TypeOK /\ Identities /\ Owned)'
  BY TypeStep, OwnedStep
<1> QED  BY <1>1, <1>2, PTL DEF Spec

\* No block is added to the chain twice, whatever overwrites aux and whichever
\* blocks are siblings.
THEOREM BlocksAreAddedOnce == Spec => []NoBlockTwice
<1>1. Owned => NoBlockTwice
  BY DEF Owned
<1> QED  BY <1>1, AlwaysOwned, PTL
-----------------------------------------------------------------------------
(* Every block added pays for one verdict.                                  *)

Verdict == IF validado THEN 1 ELSE 0
Adding  == IF builder = "idle" THEN 0 ELSE 1

\* A block the builder is adding has not been announced yet.
PaidFor ==
    /\ IsFiniteSet(validated)
    /\ Len(chain) < MaxBlocks =>
         Cardinality(validated) + Verdict + Adding <= Len(chain) - 1

LEMMA VerdictIsPaidFor ==
    ASSUME TypeOK, PaidFor, NEW p \in MiningPools, TakeVerdict(p),
           UNCHANGED <<chain, builder>>
    PROVE  PaidFor'
<1>1. Cardinality(validated) \in Nat /\ Len(chain) \in Nat
  BY FS_CardinalityType DEF PaidFor, TypeOK
<1>2. CASE validado /\ ~validado' /\ validated' = validated \cup {blk[p]}
  <2>1. /\ IsFiniteSet(validated')
        /\ \/ Cardinality(validated') = Cardinality(validated)
           \/ Cardinality(validated') = Cardinality(validated) + 1
    BY <1>2, FS_AddElement DEF PaidFor
  <2> QED  BY <1>1, <1>2, <2>1 DEF PaidFor, Verdict, Adding
<1>3. CASE UNCHANGED <<validado, validated>>
  BY <1>3 DEF PaidFor, Verdict, Adding
<1> QED  BY <1>2, <1>3, Zenon DEF TakeVerdict, VerdictTaken

LEMMA PaidForStep ==
    ASSUME TypeOK, PaidFor, [Next]_vars
    PROVE  PaidFor'
<1>1. Cardinality(validated) \in Nat /\ Len(chain) \in 1..MaxBlocks
  BY FS_CardinalityType DEF PaidFor, TypeOK
<1>2. ASSUME UNCHANGED <<chain, validado, builder, validated>>  PROVE PaidFor'
  BY <1>2 DEF PaidFor, Verdict, Adding
<1>3. CASE Peer \/ (\E t \in Threads : SpuriousWakeup(t)) \/ UNCHANGED vars
  BY <1>2, <1>3 DEF Peer, SpuriousWakeup, vars, shared, history
<1>4. ASSUME NEW p \in MiningPools, Handler(p)  PROVE PaidFor'
  <2>1. CASE HandOff(p) \/ Resume(p)
    BY <2>1, VerdictIsPaidFor DEF HandOff, Resume
  <2>2. CASE ~HandOff(p) /\ ~Resume(p)
    BY <1>2, <1>4, <2>2 DEF Handler, SendHeader, AskForBlock, CheckBlock, StoreHashHigh,
                            StoreHashLow, HandlerSeesEof, shared, history
  <2> QED  BY <2>1, <2>2
<1>5. CASE Builder
  <2>1. CASE AddBlock
    <3>1. UNCHANGED <<validado, validated>> /\ builder = "idle"
      BY <2>1 DEF AddBlock, history
    <3>2. \/ UNCHANGED <<chain, builder>>
          \/ builder' = "newBlock" /\ chain' = addBlock(chain, aux)
      BY <2>1 DEF AddBlock
    <3>3. Len(Append(chain, aux)) = Len(chain) + 1
      BY DEF TypeOK
    <3>4. CASE builder' = "newBlock" /\ chain' = addBlock(chain, aux)
      <4>1. CASE Len(chain) < MaxBlocks
        <5>1. Len(chain') = Len(chain) + 1
          BY <3>3, <3>4, <4>1 DEF addBlock
        <5> QED  BY <1>1, <3>1, <3>4, <4>1, <5>1 DEF PaidFor, Verdict, Adding
      <4>2. CASE Len(chain) = MaxBlocks
        BY <1>1, <3>1, <3>4, <4>2 DEF PaidFor, addBlock
      <4> QED  BY <1>1, <4>1, <4>2, CentralAssumption
    <3> QED  BY <1>2, <3>1, <3>2, <3>4
  <2>2. CASE SendTransactions \/ AwaitDeletion \/ PublishHigh
    <3>1. /\ UNCHANGED <<chain, validado, validated>>
          /\ builder # "idle" /\ builder' # "idle"
      BY <2>2 DEF SendTransactions, AwaitDeletion, PublishHigh, shared, history
    <3> QED  BY <3>1 DEF PaidFor, Verdict, Adding
  <2>3. CASE PublishLow
    <3>1. /\ UNCHANGED <<chain, validated>>
          /\ builder # "idle" /\ builder' = "idle" /\ validado'
      BY <2>3 DEF PublishLow, history
    <3> QED  BY <1>1, <3>1 DEF PaidFor, Verdict, Adding
  <2> QED  BY <1>5, <2>1, <2>2, <2>3 DEF Builder
<1> QED  BY <1>3, <1>4, <1>5 DEF Next, Threads

LEMMA InitPaidFor == Init => PaidFor
<1> SUFFICES ASSUME Init PROVE PaidFor
  OBVIOUS
<1>1. Len(chain) = 1
  BY DEF Init
<1> QED  BY <1>1, FS_EmptySet DEF Init, PaidFor, Verdict, Adding

\* No more pools are told Validated than blocks were added, whichever handler
\* takes whose verdict.
THEOREM VerdictsAreCounted == Spec => []VerdictsArePaidFor
<1>1. Init => TypeOK /\ Identities /\ PaidFor
  BY InitTyped, InitPaidFor
<1>2. TypeOK /\ Identities /\ PaidFor /\ [Next]_vars
      => (TypeOK /\ Identities /\ PaidFor)'
  BY TypeStep, PaidForStep
<1>3. TypeOK /\ Identities /\ PaidFor => VerdictsArePaidFor
  <2> SUFFICES ASSUME TypeOK, PaidFor, Len(chain) < MaxBlocks
               PROVE  Cardinality(validated) + Verdict < Len(chain)
    BY DEF VerdictsArePaidFor, Verdict
  <2>1. Cardinality(validated) \in Nat /\ Len(chain) \in Nat
    BY FS_CardinalityType DEF PaidFor, TypeOK
  <2> QED  BY <2>1 DEF PaidFor, Verdict, Adding
<1> QED  BY <1>1, <1>2, <1>3, PTL DEF Spec
-----------------------------------------------------------------------------
(* The central server implements Blockchain.                                *)

\* Siblings among the accepted blocks are siblings on the abstract chain.
LEMMA SiblingsFork ==
    ASSUME Identities, ~NoSiblings
    PROVE  Chain!Forked
<1>1. PICK a \in accepted, b \in accepted : a.prev = b.prev /\ a # b
  BY DEF NoSiblings
<1>2. \A c \in accepted : c # Genesis
  <2>1. \A c \in accepted : c.id \in Nat \ {0}
    BY FS_CardinalityType DEF Identities
  <2> QED  BY <2>1 DEF Genesis
<1>3. Chain!Genesis = Genesis /\ accepted \subseteq Chain!OnChain \cup (accepted \ OnChain)
  BY DEF Chain!Genesis, Genesis, Chain!OnChain, OnChain
<1> QED  BY <1>1, <1>2, <1>3 DEF Chain!Forked

LEMMA SiblingsForkNext == Identities' /\ ~NoSiblings' => Chain!Forked'
<1>1. Identities /\ ~NoSiblings => Chain!Forked
  BY SiblingsFork
<1> QED  BY <1>1, PTL

\* A block passes the check on top of the tip, or as a sibling, or on a full chain.
LEMMA CheckImplements ==
    ASSUME IInv, IInv', Owned, NEW p \in MiningPools, CheckBlock(p),
           UNCHANGED <<chain, validated>>,
           accepted' = accepted \cup {Received(p)},
           Cardinality(accepted') = Cardinality(accepted) + 1
    PROVE  Chain!Accept
<1> DEFINE b == Received(p)
<1>1. /\ TypeOK /\ Identities /\ Identities'
      /\ Len(chain) \in 1..MaxBlocks /\ Cardinality(accepted) \in Nat
  BY FS_CardinalityType DEF IInv, TypeOK, Identities
<1>2. OnChain' = OnChain /\ Chain!OnChain = OnChain
  BY DEF OnChain, Chain!OnChain
<1>3. \A c \in accepted \cup {Genesis} : c.id # b.id
  BY <1>1 DEF Identities, Received, Genesis
<1>4. \A c \in OnChain \cup (accepted \ OnChain) : c.id # b.id
  BY <1>3 DEF Owned
<1>5. b \notin OnChain
  BY <1>4
<1>6. (accepted \ OnChain)' = (accepted \ OnChain) \cup {b}
  BY <1>2, <1>5
<1>7. \/ Chain!Forked' \/ Chain!Full
      \/ accepted \ OnChain = {} /\ b.prev = Chain!Hash(Chain!Tip)
  <2>1. CASE ~NoSiblings'
    BY <1>1, <2>1, SiblingsForkNext
  <2>2. CASE Len(chain) = MaxBlocks
    BY <2>2 DEF Chain!Full
  <2>3. CASE NoSiblings' /\ Len(chain) < MaxBlocks
    <3>1. NoSiblings
      BY <2>3 DEF NoSiblings
    <3>2. Numbered /\ (Quiet \/ InFlight) /\ (Quiet \/ InFlight)'
      BY <2>3, <3>1 DEF IInv, Sound, Steady
    <3>3. Quiet /\ InFlight'
      BY <1>1, <3>2 DEF Quiet, InFlight
    <3>4. Newest' = Newest
      BY DEF Newest, Tip
    <3>5. Newest \notin OnChain
      <4>1. Len(chain) \in Nat
        BY <1>1
      <4> QED  BY <3>2, <4>1 DEF OnChain, Numbered, Newest
    <3>6. b = Newest
      BY <1>2, <3>3, <3>4, <3>5 DEF Quiet, InFlight
    <3> QED
      BY <3>3, <3>6 DEF Quiet, Newest, Chain!Hash, Hash, Chain!Tip, Tip
  <2> QED  BY <1>1, <2>1, <2>2, <2>3, CentralAssumption
<1> QED  BY <1>2, <1>4, <1>6, <1>7 DEF Chain!Accept

LEMMA StepImplements ==
    ASSUME IInv, IInv', Owned, Owned', [Next]_vars
    PROVE  [Chain!Next]_(Chain!vars)
<1>1. TypeOK /\ Identities /\ Len(chain) \in 1..MaxBlocks /\ Chain!OnChain = OnChain
  BY DEF IInv, TypeOK, Chain!OnChain, OnChain
<1>2. CASE UNCHANGED <<chain, accepted, validated>>
  BY <1>2 DEF Chain!vars, OnChain
<1>3. ASSUME NEW p \in MiningPools, CheckBlock(p), UNCHANGED <<chain, validated>>,
             accepted' = accepted \cup {Received(p)},
             Cardinality(accepted') = Cardinality(accepted) + 1
      PROVE  Chain!Accept
  BY <1>3, CheckImplements
<1>4. ASSUME NEW p \in MiningPools, HandOff(p) \/ Resume(p),
             UNCHANGED <<chain, accepted>>, validated' = validated \cup {blk[p]}
      PROVE  Chain!Announce
  <2>1. blk[p] \in accepted
    BY <1>4 DEF HandOff, Resume, Storing, Owned
  <2>2. UNCHANGED (accepted \ OnChain)
    BY <1>4 DEF OnChain
  <2> QED  BY <1>1, <1>4, <2>1, <2>2 DEF Chain!Announce
<1>5. CASE AddBlock /\ agregar_bloque /\ UNCHANGED <<accepted, validated>>
  <2>1. chain' = addBlock(chain, aux) /\ aux \in accepted \ OnChain
    BY <1>5 DEF AddBlock, Owned
  <2>2. CASE Len(chain) < MaxBlocks
    <3>1. chain' = Append(chain, aux) /\ ~Chain!Full
      BY <1>1, <2>1, <2>2 DEF addBlock, Chain!Full
    <3>2. OnChain' = OnChain \cup {aux}
      <4>1. /\ Len(chain) \in Nat /\ Len(chain') = Len(chain) + 1
            /\ \A i \in 1..Len(chain) : chain'[i] = chain[i]
            /\ chain'[Len(chain) + 1] = aux
        BY <1>1, <3>1 DEF TypeOK
      <4> QED  BY <4>1 DEF OnChain
    <3>3. (accepted \ OnChain)' = (accepted \ OnChain) \ {aux}
      BY <1>5, <3>2
    <3> QED  BY <1>5, <2>1, <3>1, <3>3 DEF Chain!AppendBlock, Chain!Next
  <2>3. CASE ~(Len(chain) < MaxBlocks)
    BY <1>2, <1>5, <2>1, <2>3 DEF addBlock
  <2> QED  BY <2>2, <2>3
<1> QED  BY <1>1, <1>2, <1>3, <1>4, <1>5, Effects DEF Chain!Next

\* The central server implements Blockchain, for any pools, any dying peers and
\* any length of the chain: besides siblings and a full chain nothing the threads
\* do to each other's variables makes it accept, add or announce a block that the
\* abstract chain would not.
THEOREM Implementation == Spec => ImplementsBlockchain
<1>1. Init => Chain!Init
  BY DEF Init, Chain!Init, Chain!Genesis, Genesis
<1>2. IInv /\ IInv' /\ Owned /\ Owned' /\ [Next]_vars
      => [Chain!Next]_(Chain!vars)
  BY StepImplements
<1> QED
  BY <1>1, <1>2, Inductive, AlwaysOwned, PTL
     DEF Spec, ImplementsBlockchain, Chain!Spec
=============================================================================
