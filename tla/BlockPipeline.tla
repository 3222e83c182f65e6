--------------------------- MODULE BlockPipeline ---------------------------
(***************************************************************************)
(* The blocks of one node: import_block, try_produce_block, produce_block  *)
(* and store_produced_block (kratos-core/src/node/service.rs and           *)
(* producer.rs), with a crash between any two of the writes they make and  *)
(* a restart that joins with the database it finds (KratOsNode::new).      *)
(*                                                                         *)
(* A block is the sequence of headers from block 1 up to itself, which     *)
(* stands for its hash: Len is its number and Front its parent.            *)
(*                                                                         *)
(* The accounts are abstracted to ledger, the number of block executions   *)
(* the database has seen, and a header's state root to the ledger its      *)
(* author had.  An execution that is not followed by its block stays in    *)
(* the ledger, so ledger = height says that the accounts are those of the  *)
(* chain.  A root of 0 is one no importer reproduces: the root of an       *)
(* author whose own accounts are not those of its chain.                   *)
(***************************************************************************)
EXTENDS Naturals, SequencesExt

CONSTANTS
    EPOCH_DURATION_BLOCKS,
    Validator,   \* whether the node produces blocks
    BadRoots,    \* whether peers also send blocks whose root does not match
    MaxCrashes,  \* bound on the crashes
    MaxHeight,   \* bound on the height
    MaxLedger,   \* executions are counted up to here, past any height
    MaxSlot      \* bound on the clock

ASSUME PipelineAssumption ==
    /\ EPOCH_DURATION_BLOCKS \in Nat \ {0}
    /\ Validator \in BOOLEAN
    /\ BadRoots \in BOOLEAN
    /\ MaxHeight \in Nat
    /\ MaxLedger \in Nat
    /\ MaxLedger > MaxHeight
    /\ MaxSlot \in Nat

VARIABLES
    current_block,   \* memory: the tip; its length is chain_height
    network_height,  \* memory: the best height a peer reported
    stored,          \* disk: block number -> block
    best_block,      \* disk: the best block number
    ledger,          \* disk: executions applied to the accounts
    signed_slots,    \* disk: the producer database, <<epoch, slot>>
    task,            \* the handler in progress and its block
    slot,            \* the wall clock
    published,       \* blocks of its own that the node broadcast
    crashes

memory == <<current_block, network_height>>
disk == <<stored, best_block, ledger, signed_slots>>
vars == <<memory, disk, task, slot, published, crashes>>

chain_height == Len(current_block)

Header == [author : {"self", "peer"}, epoch : Nat, slot : Nat, state_root : Nat]

\* The genesis block, the parent of block 1, has epoch 0 and slot 0.
Genesis == [author |-> "peer", epoch |-> 0, slot |-> 0, state_root |-> 0]

TipHeader(block) == IF block = <<>> THEN Genesis ELSE Last(block)

Step == {"idle", "import", "imported", "sign", "store", "stored"}

Idle == [step |-> "idle", block |-> <<>>]

Init ==
    /\ current_block = <<>>
    /\ network_height = 0
    /\ stored = <<>>
    /\ best_block = 0
    /\ ledger = 0
    /\ signed_slots = {}
    /\ task = Idle
    /\ slot = 1
    /\ published = {}
    /\ crashes = 0

Executed == IF ledger < MaxLedger THEN ledger + 1 ELSE MaxLedger

-----------------------------------------------------------------------------
(* Importing.  The peers extend the chains whose roots they reproduce,     *)
(* the node's own blocks among them, and keep sending what they have.      *)

Reproducible(block) == \A n \in DOMAIN block : block[n].state_root = n

PeerEpoch(n) == (n - 1) \div EPOCH_DURATION_BLOCKS

PeerRoots(n) == IF BadRoots THEN {0, n} ELSE {n}

PeerHeader(n) ==
    IF Reproducible(current_block)
    THEN [author : {"peer"}, epoch : {PeerEpoch(n)}, slot : 1..slot, state_root : PeerRoots(n)]
    ELSE {}

\* BlockValidator::validate.  produce_block sets the timestamp from the slot, so
\* the timestamps advance when the slots do, in a new epoch too.
Validates(h, parent) == h.epoch >= parent.epoch /\ h.slot > parent.slot

\* Mutant: a block above the heights that peers reported is skipped.
unannounced(block) == Len(block) > network_height

AlreadyStored(block) == Len(block) \in DOMAIN stored /\ stored[Len(block)] = block

\* Transactions and rewards are applied, then the root is compared.
import_execute(h) ==
    LET block == Append(current_block, h)
    IN  /\ task = Idle
        /\ ~AlreadyStored(block)
        /\ Validates(h, TipHeader(current_block))
        /\ ledger' = Executed
        /\ task' = IF h.state_root = ledger' THEN [step |-> "import", block |-> block] ELSE Idle
        /\ UNCHANGED <<memory, stored, best_block, signed_slots, slot, published, crashes>>

\* Mutant: the block at a number is the first one that was stored there.
store_unless_present ==
    /\ task.step \in {"import", "store"}
    /\ stored' = [n \in DOMAIN stored \cup {Len(task.block)} |->
                    IF n \in DOMAIN stored THEN stored[n] ELSE task.block]
    /\ task' = [task EXCEPT !.step = IF @ = "import" THEN "imported" ELSE "stored"]
    /\ UNCHANGED <<memory, best_block, ledger, signed_slots, slot, published, crashes>>

\* The first of the two writes of import_block and store_produced_block.
store_block ==
    /\ task.step \in {"import", "store"}
    /\ stored' = [n \in DOMAIN stored \cup {Len(task.block)} |->
                    IF n = Len(task.block) THEN task.block ELSE stored[n]]
    /\ task' = [task EXCEPT !.step = IF @ = "import" THEN "imported" ELSE "stored"]
    /\ UNCHANGED <<memory, best_block, ledger, signed_slots, slot, published, crashes>>

\* set_best_block and the update of the chain state.
import_commit ==
    /\ task.step = "imported"
    /\ best_block' = Len(task.block)
    /\ current_block' = task.block
    /\ task' = Idle
    /\ UNCHANGED <<network_height, stored, ledger, signed_slots, slot, published, crashes>>

-----------------------------------------------------------------------------
(* Producing: the accounts are written, the slot is marked as signed, the  *)
(* block is stored and broadcast.                                          *)

current_epoch == chain_height \div EPOCH_DURATION_BLOCKS

\* Mutant: only the tip is looked at, not the producer database.
signed_by_tip(epoch, s) ==
    LET tip == TipHeader(current_block)
    IN  tip.author = "self" /\ tip.epoch = epoch /\ tip.slot = s

has_signed_slot(epoch, s) == <<epoch, s>> \in signed_slots

produce_execute ==
    LET parent == TipHeader(current_block)
    IN  /\ Validator
        /\ task = Idle
        /\ network_height <= chain_height
        /\ slot > parent.slot \/ current_epoch > parent.epoch
        /\ ~has_signed_slot(current_epoch, slot)
        /\ ledger' = Executed
        /\ task' = [step |-> "sign",
                    block |-> Append(current_block,
                                     [author |-> "self", epoch |-> current_epoch,
                                      slot |-> slot, state_root |-> ledger'])]
        /\ UNCHANGED <<memory, stored, best_block, signed_slots, slot, published, crashes>>

\* Mutant: the block is broadcast as soon as it is signed.
mark_and_broadcast ==
    LET h == Last(task.block)
    IN  /\ task.step = "sign"
        /\ signed_slots' = signed_slots \cup {<<h.epoch, h.slot>>}
        /\ task' = [task EXCEPT !.step = "store"]
        /\ published' = published \cup {task.block}
        /\ UNCHANGED <<memory, stored, best_block, ledger, slot, crashes>>

mark_slot_as_signed ==
    LET h == Last(task.block)
    IN  /\ task.step = "sign"
        /\ signed_slots' = signed_slots \cup {<<h.epoch, h.slot>>}
        /\ task' = [task EXCEPT !.step = "store"]
        /\ UNCHANGED <<memory, stored, best_block, ledger, slot, published, crashes>>

\* Mutant: the block is executed a second time when it is stored.
store_and_execute ==
    /\ task.step = "stored"
    /\ best_block' = Len(task.block)
    /\ current_block' = task.block
    /\ published' = published \cup {task.block}
    /\ ledger' = Executed
    /\ task' = Idle
    /\ UNCHANGED <<network_height, stored, signed_slots, slot, crashes>>

\* store_produced_block after its store_block.
store_produced_block ==
    /\ task.step = "stored"
    /\ best_block' = Len(task.block)
    /\ current_block' = task.block
    /\ published' = published \cup {task.block}
    /\ task' = Idle
    /\ UNCHANGED <<network_height, stored, ledger, signed_slots, slot, crashes>>

-----------------------------------------------------------------------------
(* The environment.                                                        *)

\* A peer reports its height: it has the block the node could import next.
PeerStatus ==
    /\ task = Idle
    /\ network_height <= chain_height
    /\ \E h \in PeerHeader(chain_height + 1) : Validates(h, TipHeader(current_block))
    /\ network_height' = chain_height + 1
    /\ UNCHANGED <<current_block, disk, task, slot, published, crashes>>

Clock ==
    /\ slot < MaxSlot
    /\ slot' = slot + 1
    /\ UNCHANGED <<memory, disk, task, published, crashes>>

\* The process ends, anywhere in a handler, and a new one opens the database:
\* KratOsNode::new starts at the genesis block and at height 0.
Crash ==
    /\ crashes < MaxCrashes
    /\ crashes' = crashes + 1
    /\ current_block' = <<>>
    /\ network_height' = 0
    /\ task' = Idle
    /\ UNCHANGED <<disk, slot, published>>

ImportFrom(headers) ==
    chain_height < MaxHeight /\ \E h \in headers : import_execute(h)

Import == ImportFrom(PeerHeader(chain_height + 1))

Produce == chain_height < MaxHeight /\ produce_execute

Next ==
    \/ Import
    \/ store_block
    \/ import_commit
    \/ Produce
    \/ mark_slot_as_signed
    \/ store_produced_block
    \/ PeerStatus
    \/ Clock
    \/ Crash

\* The node finishes the handler it is in, and its peers keep sending a next block
\* with a root that the chain's accounts reproduce.
Fairness ==
    /\ WF_vars(ImportFrom({h \in PeerHeader(chain_height + 1) : h.state_root # 0}))
    /\ WF_vars(store_block)
    /\ WF_vars(import_commit)
    /\ WF_vars(mark_slot_as_signed)
    /\ WF_vars(store_produced_block)

Spec == Init /\ [][Next]_vars

FairSpec == Spec /\ Fairness

-----------------------------------------------------------------------------
(* Properties.                                                             *)

Abstract == INSTANCE AbstractChain WITH tip <- current_block, broadcast <- published

\* The handlers implement the chain a node promises: executing, signing, storing and the update
\* of the tip, with crashes between them, look from outside like one step per block, and a
\* block of the node's own takes a slot that none took (import_block, store_produced_block).
ImplementsChain == Abstract!ChainSpec

\* The tip, the stored blocks and the block in progress are sequences of headers;
\* the block in progress extends the tip the handler started from.
TypeOK ==
    /\ current_block \in Seq(Header)
    /\ network_height \in Nat
    /\ \A n \in DOMAIN stored : stored[n] \in Seq(Header)
    /\ best_block \in Nat
    /\ ledger \in 0..MaxLedger
    /\ signed_slots \subseteq Nat \X Nat
    /\ task \in [step : Step, block : Seq(Header)]
    /\ task.step = "idle" \/ (task.block # <<>> /\ Front(task.block) = current_block)
    /\ slot \in Nat
    /\ published \subseteq Seq(Header) \ {<<>>}
    /\ crashes \in Nat

\* produce_block, mark_slot_as_signed ("Double-signing protection (persistent)"):
\* whatever crashes come between executing, signing and broadcasting, the node
\* broadcasts at most one block for an epoch and slot.
SignsOnce ==
    \A b, c \in published :
        Last(b).epoch = Last(c).epoch /\ Last(b).slot = Last(c).slot => b = c

LinkedUpTo(height) ==
    \A n \in 1..height :
        /\ n \in DOMAIN stored
        /\ Len(stored[n]) = n
        /\ n > 1 => Front(stored[n]) = stored[n - 1]

\* get_blocks_range serves the blocks 1 to the best one, except between the two
\* writes, which hold the lock of the storage: they are a chain, each the parent
\* of the next, also when the node crashed, restarted at height 0 and stored other
\* blocks over the ones it had.  It takes a second crash, between the two writes
\* of such a block, to break the chain.
ServedBlocksLinked ==
    crashes <= 1 /\ task.step \notin {"imported", "stored"} => LinkedUpTo(best_block)

\* SPEC 3, 14.4: "State modifications happen exactly once per block".  Between
\* two handlers the accounts are those of the chain.  It is checked without crashes
\* and without blocks whose root does not match (BadRoots): import_block executes
\* a block before it compares the roots, and a refused block stays executed.
ExecutedOncePerBlock == task = Idle => ledger = chain_height

\* SPEC 3, 12.1: "Block is next sequential | Import immediately".  A node whose
\* peers have a valid next block gets past its height.
NextBlockImported ==
    \A n \in 0..(MaxHeight - 1) :
        (/\ chain_height = n
         /\ \E h \in PeerHeader(n + 1) : Validates(h, TipHeader(current_block)))
        ~> chain_height > n
=============================================================================
