--------------------------- MODULE CentralServer ---------------------------
(***************************************************************************)
(* The central server (CentralServer.cpp): one MPhandlethread per          *)
(* connected mining pool, the Blockchainbuilder thread, and the globals    *)
(* they share.  A mining pool and the mempool process appear only as the   *)
(* peers of their connections.                                             *)
(*                                                                         *)
(* lock_x is held by the builder from the moment it takes a block until it *)
(* has published the new header, across its two calls to the mempool; a    *)
(* handler only holds it for a few assignments, so a handler's critical    *)
(* section is one action whose guard is LockFree.  previoushash and        *)
(* BC.netwheader are also used without the lock: a 32-byte hash is a pair  *)
(* of halves, written one half at a time, so that a reader can see a torn  *)
(* value.                                                                  *)
(***************************************************************************)
EXTENDS Blocks, Sequences, FiniteSets

CONSTANTS MiningPools,  \* the connected mining pools, one handler thread each
          Crashers,     \* the peers that may die: some pools, perhaps "mempool"
          MaxBlocks,    \* length of Blockchain::blockchain (200 in the code)
          MaxAccepted   \* bound: pools offer no block once this many passed the check

ASSUME CentralAssumption ==
    /\ "builder" \notin MiningPools
    /\ "mempool" \notin MiningPools
    /\ MaxBlocks \in Nat \ {0}
    /\ MaxAccepted \in Nat

VARIABLES
    chain,           \* BC.blockchain[0 .. BC.numberofblocks - 1]
    aux,             \* the block handed from a handler to the builder
    agregar_bloque,  \* a block waits in aux
    validado,        \* the builder has added a block
    previoushash,    \* hash the next block must name
    netprev,         \* BC.netwheader.prevBlockHash, the published header
    builder,         \* where the Blockchainbuilder thread is
    handler,         \* where each MPhandlethread is
    blk,             \* each handler's local block
    buffer,          \* what each handler's msg holds while it waits in recv
    sleeping,        \* threads blocked in pthread_cond_wait
    up,              \* FALSE once an assert or exit(1) ended the process
    pool,            \* external: what each mining pool waits for
    template,        \* external: previous hash in the header each pool mines
    alive,           \* external: peers whose connection is open
    accepted,        \* history: blocks that passed the validity check
    validated        \* history: blocks whose pool was told Validated

shared  == <<aux, agregar_bloque, validado, chain>>
peers   == <<pool, template, alive>>
history == <<accepted, validated>>
vars == <<shared, previoushash, netprev, builder, handler, blk, buffer,
          sleeping, up, peers, history>>

-----------------------------------------------------------------------------
(* Plausible bugs, each the mutated form of a definition below: the         *)
(* properties are checked to notice them.                                   *)

NeverWoken(waiters)     == {{}}                        \* a signal forgotten
addBlockUnbounded(c, b) == Append(c, b)                \* the bound forgotten
addBlockEarlyFull(c, b) == IF Len(c) < MaxBlocks - 1   \* the bound off by one
                           THEN Append(c, b) ELSE c
NamesAnything(b)        == TRUE                        \* prevBlockHash not checked
LowForgotten(b)         == previoushash                \* half the hash copied
FlagKept                == TRUE                        \* a flag never reset
-----------------------------------------------------------------------------
LockFree == builder = "idle"

\* pthread_cond_signal wakes one of the waiters, if there is one
Woken(waiters) ==
    LET asleep == sleeping \cap waiters
    IN  IF asleep = {} THEN {{}} ELSE {{w} : w \in asleep}

\* BC.addBlock: a full chain drops the block without a word
addBlock(c, b) == IF Len(c) < MaxBlocks THEN Append(c, b) ELSE c

-----------------------------------------------------------------------------
(* The peers: a pool asks for the header, mines on it, offers the block it  *)
(* found, uploads it when asked to, and waits for the verdict.              *)

PoolAsks(p) ==
    /\ p \in alive /\ pool[p] = "idle"
    /\ pool' = [pool EXCEPT ![p] = "asked"]
    /\ UNCHANGED <<template, alive>>

PoolOffers(p) ==
    /\ p \in alive /\ pool[p] = "mining"
    /\ Cardinality(accepted) < MaxAccepted
    /\ pool' = [pool EXCEPT ![p] = "offered"]
    /\ UNCHANGED <<template, alive>>

PoolUploads(p) ==
    /\ p \in alive /\ pool[p] = "granted"
    /\ pool' = [pool EXCEPT ![p] = "uploaded"]
    /\ UNCHANGED <<template, alive>>

PeerDies(x) ==
    /\ x \in alive \cap Crashers
    /\ alive' = alive \ {x}
    /\ UNCHANGED <<pool, template>>

Peer ==
    /\ \/ \E p \in MiningPools : PoolAsks(p) \/ PoolOffers(p) \/ PoolUploads(p)
       \/ \E x \in Crashers : PeerDies(x)
    /\ UNCHANGED <<shared, previoushash, netprev, builder, handler, blk,
                   buffer, sleeping, up, history>>

-----------------------------------------------------------------------------
(* MPhandlethread.                                                          *)

\* case Ask_For_Current_Header: the published header is read without lock_x
SendHeader(p) ==
    /\ up /\ handler[p] = "recv" /\ pool[p] = "asked"
    /\ template' = [template EXCEPT ![p] = netprev]
    /\ pool' = [pool EXCEPT ![p] = "mining"]
    /\ buffer' = [buffer EXCEPT ![p] = "header"]
    /\ UNCHANGED <<shared, previoushash, netprev, builder, handler, blk,
                   sleeping, up, alive, history>>

\* case Got_Valid_Block: the pool is told to send the block
AskForBlock(p) ==
    /\ up /\ handler[p] = "recv" /\ pool[p] = "offered"
    /\ handler' = [handler EXCEPT ![p] = "recvBlock"]
    /\ pool' = [pool EXCEPT ![p] = "granted"]
    /\ buffer' = [buffer EXCEPT ![p] = "control"]
    /\ UNCHANGED <<shared, previoushash, netprev, builder, blk, sleeping, up,
                   template, alive, history>>

NamesTip(b) == b.prev = previoushash

\* recvBlock, hash, and the check of validhash and of prevBlockHash against
\* previoushash, read without lock_x.  solved is validhash's verdict.
CheckBlock(p) ==
    /\ up /\ handler[p] = "recvBlock" /\ pool[p] = "uploaded"
    /\ \E solved \in BOOLEAN :
         LET b == [id |-> Cardinality(accepted) + 1, prev |-> template[p]]
         IN  IF solved /\ NamesTip(b)
             THEN /\ handler' = [handler EXCEPT ![p] = "accepted"]
                  /\ blk' = [blk EXCEPT ![p] = b]
                  /\ accepted' = accepted \cup {b}
                  /\ UNCHANGED pool
             ELSE /\ handler' = [handler EXCEPT ![p] = "recv"]
                  /\ pool' = [pool EXCEPT ![p] = "idle"]
                  /\ UNCHANGED <<blk, accepted>>
    /\ UNCHANGED <<shared, previoushash, netprev, builder, buffer, sleeping,
                   up, template, alive, validated>>

LowStored(b) == <<previoushash[1], b.id>>

\* char2hash(&previoushash, blhash), without lock_x: the first half ...
StoreHashHigh(p) ==
    /\ up /\ handler[p] = "accepted"
    /\ previoushash' = <<blk[p].id, previoushash[2]>>
    /\ handler' = [handler EXCEPT ![p] = "half"]
    /\ UNCHANGED <<shared, netprev, builder, blk, buffer, sleeping, up, peers,
                   history>>

\* ... and the second
StoreHashLow(p) ==
    /\ up /\ handler[p] = "half"
    /\ previoushash' = LowStored(blk[p])
    /\ handler' = [handler EXCEPT ![p] = "handoff"]
    /\ UNCHANGED <<shared, netprev, builder, blk, buffer, sleeping, up, peers,
                   history>>

\* validado = 0
VerdictTaken == FALSE

\* while (!validado) wait; validado = 0; send Validated
TakeVerdict(p) ==
    IF validado
    THEN /\ validado' = VerdictTaken
         /\ handler' = [handler EXCEPT ![p] = "recv"]
         /\ pool' = [pool EXCEPT ![p] = "idle"]
         /\ validated' = validated \cup {blk[p]}
    ELSE /\ handler' = [handler EXCEPT ![p] = "waiting"]
         /\ UNCHANGED <<validado, pool, validated>>

Asleep(p) == IF validado THEN {} ELSE {p}

\* aux = blk; agregar_bloque = 1; signal the builder; wait for its verdict
HandOff(p) ==
    /\ up /\ handler[p] = "handoff" /\ LockFree
    /\ aux' = blk[p]
    /\ agregar_bloque' = TRUE
    /\ TakeVerdict(p)
    /\ \E w \in Woken({"builder"}) : sleeping' = (sleeping \ w) \cup Asleep(p)
    /\ UNCHANGED <<chain, previoushash, netprev, builder, blk, buffer, up,
                   template, alive, accepted>>

\* a handler signalled through cond_validado rechecks its condition
Resume(p) ==
    /\ up /\ handler[p] = "waiting" /\ p \notin sleeping /\ LockFree
    /\ TakeVerdict(p)
    /\ sleeping' = sleeping \cup Asleep(p)
    /\ UNCHANGED <<chain, aux, agregar_bloque, previoushash, netprev, builder,
                   blk, buffer, up, template, alive, accepted>>

\* recvMsg from a pool that is gone, once all it sent was read: it returns 0
\* and leaves msg as it was
RecvFails(p) == p \notin alive /\ pool[p] \in {"idle", "mining", "granted"}

\* getControl's assertion on that stale message.  A stale control message is a
\* verdict, which the switch ignores.  Before the first request msg is
\* uninitialized and may have either type.
NoControlIn(p) == buffer[p] \in {"header", "uninitialized"}

\* recvControl and recvBlock do not look at what recvMsg returned: getControl,
\* or Block's constructor on a stale control message, ends the process
HandlerSeesEof(p) ==
    /\ up /\ RecvFails(p)
    /\ \/ handler[p] = "recv" /\ NoControlIn(p)
       \/ handler[p] = "recvBlock"
    /\ up' = FALSE
    /\ UNCHANGED <<shared, previoushash, netprev, builder, handler, blk,
                   buffer, sleeping, peers, history>>

-----------------------------------------------------------------------------
(* Blockchainbuilder.                                                       *)

\* agregar_bloque = 0
BlockTaken == FALSE

\* while (!agregar_bloque) wait; agregar_bloque = 0; addBlock; NEW_BLOCK
AddBlock ==
    /\ up /\ builder = "idle" /\ "builder" \notin sleeping
    /\ IF agregar_bloque
       THEN /\ agregar_bloque' = BlockTaken
            /\ chain' = addBlock(chain, aux)
            /\ builder' = "newBlock"
            /\ UNCHANGED sleeping
       ELSE /\ sleeping' = sleeping \cup {"builder"}
            /\ UNCHANGED <<agregar_bloque, chain, builder>>
    /\ UNCHANGED <<aux, validado, previoushash, netprev, handler, blk, buffer,
                   up, peers, history>>

\* SendNewBlockTransaction, first reply.  With the mempool gone recvControl
\* reads back the NEW_BLOCK just sent, and the function returns.
SendTransactions ==
    /\ up /\ builder = "newBlock"
    /\ builder' = IF "mempool" \in alive THEN "deleting" ELSE "publish"
    /\ UNCHANGED <<shared, previoushash, netprev, handler, blk, buffer,
                   sleeping, up, peers, history>>

\* ... second reply, Correctly_deleted.  With the mempool gone recvControl
\* asserts on the TYPE_MEMPOOL message just sent.
AwaitDeletion ==
    /\ up /\ builder = "deleting"
    /\ IF "mempool" \in alive
       THEN builder' = "publish" /\ UNCHANGED up
       ELSE up' = FALSE /\ UNCHANGED builder
    /\ UNCHANGED <<shared, previoushash, netprev, handler, blk, buffer,
                   sleeping, peers, history>>

\* BC.netwheader.prevBlockHash = previoushash: the first half ...
PublishHigh ==
    /\ up /\ builder = "publish"
    /\ netprev' = <<previoushash[1], netprev[2]>>
    /\ builder' = "publishing"
    /\ UNCHANGED <<shared, previoushash, handler, blk, buffer, sleeping, up,
                   peers, history>>

\* ... the second; then validado = 1, the signal, and back to the wait, which
\* releases lock_x
PublishLow ==
    /\ up /\ builder = "publishing"
    /\ netprev' = <<netprev[1], previoushash[2]>>
    /\ validado' = TRUE
    /\ builder' = "idle"
    /\ \E w \in Woken(MiningPools) : sleeping' = (sleeping \ w) \cup {"builder"}
    /\ UNCHANGED <<chain, aux, agregar_bloque, previoushash, handler, blk,
                   buffer, up, peers, history>>

\* POSIX lets pthread_cond_wait return without a signal
SpuriousWakeup(t) ==
    /\ up /\ t \in sleeping
    /\ sleeping' = sleeping \ {t}
    /\ UNCHANGED <<shared, previoushash, netprev, builder, handler, blk,
                   buffer, up, peers, history>>

-----------------------------------------------------------------------------
Init ==
    /\ chain = <<Genesis>>
    /\ aux = Genesis
    /\ agregar_bloque = FALSE
    /\ validado = FALSE
    /\ previoushash = <<0, 0>>
    /\ netprev = <<0, 0>>
    /\ builder = "idle"
    /\ handler = [p \in MiningPools |-> "recv"]
    /\ blk = [p \in MiningPools |-> Genesis]
    /\ buffer = [p \in MiningPools |-> "uninitialized"]
    /\ sleeping = {}
    /\ up = TRUE
    /\ pool = [p \in MiningPools |-> "idle"]
    /\ template = [p \in MiningPools |-> <<0, 0>>]
    /\ alive = MiningPools \cup {"mempool"}
    /\ accepted = {}
    /\ validated = {}

Handler(p) ==
    \/ SendHeader(p)
    \/ AskForBlock(p)
    \/ CheckBlock(p)
    \/ StoreHashHigh(p)
    \/ StoreHashLow(p)
    \/ HandOff(p)
    \/ Resume(p)
    \/ HandlerSeesEof(p)

Builder ==
    \/ AddBlock
    \/ SendTransactions
    \/ AwaitDeletion
    \/ PublishHigh
    \/ PublishLow

Next ==
    \/ Peer
    \/ \E p \in MiningPools : Handler(p)
    \/ Builder
    \/ \E t \in MiningPools \cup {"builder"} : SpuriousWakeup(t)

Spec == Init /\ [][Next]_vars
-----------------------------------------------------------------------------
(* Properties.                                                              *)

Threads == MiningPools \cup {"builder"}
Tip     == chain[Len(chain)]
OnChain == {chain[i] : i \in 1..Len(chain)}

\* Every global, local and history variable holds a value of its C++ type.
TypeOK ==
    /\ chain \in Seq(BlockSet)
    /\ Len(chain) \in 1..MaxBlocks
    /\ aux \in BlockSet
    /\ agregar_bloque \in BOOLEAN
    /\ validado \in BOOLEAN
    /\ previoushash \in HashValues
    /\ netprev \in HashValues
    /\ builder \in {"idle", "newBlock", "deleting", "publish", "publishing"}
    /\ handler \in [MiningPools -> {"recv", "recvBlock", "accepted", "half",
                                     "handoff", "waiting"}]
    /\ blk \in [MiningPools -> BlockSet]
    /\ buffer \in [MiningPools -> {"uninitialized", "header", "control"}]
    /\ sleeping \subseteq Threads
    /\ up \in BOOLEAN
    /\ pool \in [MiningPools -> {"idle", "asked", "mining", "offered",
                                  "granted", "uploaded"}]
    /\ template \in [MiningPools -> HashValues]
    /\ alive \subseteq MiningPools \cup {"mempool"}
    /\ accepted \subseteq BlockSet
    /\ validated \subseteq BlockSet

\* The premise of the conditional properties below: no two blocks that name the
\* same previous hash ever passed the check of CentralServer.cpp:72.  Nothing
\* makes that check and the store into previoushash one step, so two handlers
\* can break it (run central_fork).
NoSiblings == \A a, b \in accepted : a.prev = b.prev => a = b

Linked == \A i \in 2..Len(chain) : chain[i].prev = Hash(chain[i - 1])

\* Every block of the chain names the hash of the block before it, whatever the
\* handlers, the builder and dying peers do, unless siblings were accepted:
\* reading previoushash and netwheader without the lock breaks nothing else.
LinkedUnlessSiblings == NoSiblings => Linked

\* While lock_x is free the published header names the last block added; while
\* the builder adds a block it still names that block's predecessor: a pool
\* never starts on a header whose block the mempool has not yet been told of.
HeaderFollowsTip ==
    NoSiblings /\ Len(chain) < MaxBlocks =>
        /\ builder = "idle" => netprev = Hash(Tip)
        /\ builder \in {"newBlock", "deleting", "publish"} => netprev = Tip.prev

\* A pool is told Validated for a block only once the block is on the chain or
\* is the one in aux that the builder will add next, although handlers may take
\* each other's validado.
ValidatedIsKept ==
    NoSiblings /\ Len(chain) < MaxBlocks =>
        validated \subseteq OnChain \cup (IF agregar_bloque THEN {aux} ELSE {})

\* The builder adds the block in aux once, even when siblings are accepted.
NoBlockTwice ==
    \A i, j \in 1..Len(chain) : chain[i] = chain[j] => i = j

\* Each block added lets one pool be told Validated, even when handlers overwrite
\* aux or take each other's validado.
VerdictsArePaidFor ==
    Len(chain) < MaxBlocks =>
        Cardinality(validated) + (IF validado THEN 1 ELSE 0) < Len(chain)

\* While siblings are not accepted, every block that passed the check gets its
\* verdict: no handler is left in pthread_cond_wait for good.
VerdictArrives ==
    []NoSiblings => \A p \in MiningPools :
        handler[p] = "accepted" ~> handler[p] = "recv"

\* CentralServer.cpp:74, "Si es valido se agrega a la blockchain y se manda un
\* mensaje de aceptacion": whoever is told Validated has its block on the chain,
\* or about to be added from aux.
AcceptedBlocksAreAdded ==
    validated \subseteq OnChain \cup (IF agregar_bloque THEN {aux} ELSE {})

\* An accepted block is pending until the builder appends it.
Chain == INSTANCE Blockchain
         WITH pending <- accepted \ OnChain, announced <- validated

\* The central server implements Blockchain: a block is accepted on top of the
\* last one, when no other is pending, unless it is some block's sibling or the
\* chain is full; each is appended at most once, siblings included; and only
\* blocks accepted or appended are announced Validated.
ImplementsBlockchain == Chain!Spec
=============================================================================
