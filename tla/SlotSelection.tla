--------------------------- MODULE SlotSelection ---------------------------
(* Who may produce a block: the selection by score (vrf_selection.rs) that  *)
(* BlockProducer::is_slot_leader asks, the selection by stake from a random *)
(* point and the epoch's randomness (pos.rs, epoch.rs), and the validation  *)
(* of a block against its parent (validation.rs), all in                    *)
(* kratos-core/src/consensus.                                               *)
(*                                                                          *)
(* Weights are floats, square root of the stake times a logarithm of the    *)
(* credits; the model keeps when a weight is zero and that it grows with    *)
(* both.  Two validators with a weight never have the same score: the       *)
(* scores are products with a 64-bit hash.  A list of validators comes from *)
(* a HashMap, in an order of each node's own.                               *)
(*                                                                          *)
(* leaders and placed are history: the validators that took themselves for  *)
(* the leader of the slot, and the epochs and slots of the chain.           *)
EXTENDS Integers, FiniteSets, SequencesExt

CONSTANTS
    Elector,                       \* the validators
    BOOTSTRAP_MIN_VC_REQUIREMENT,  \* 100
    STAKE_CAP,                     \* 1_000_000
    EPOCH_DURATION_BLOCKS,         \* 600
    RetainedHashes,                \* hashes that the provider keeps, 1000
    StakeValues, VcValues,         \* bounds: what validators have
    MaxRecorded, MaxSlotNumber     \* bounds: blocks, and slots of an epoch

VARIABLES
    electors,      \* elector -> [stake, vc, active, blocks_produced]
    parent,        \* of the next block: [number, epoch, slot]
    block_hashes,  \* RandomnessProvider: the blocks whose hash is kept; a block is its hash
    leaders, placed

slotVars == <<electors, parent, block_hashes, leaders, placed>>

ZERO == 0 - 1     \* Hash::ZERO, which is no block's

SlotInit ==
    /\ electors \in [Elector -> [stake : StakeValues, vc : VcValues, active : BOOLEAN,
                                 blocks_produced : VcValues]]
    /\ parent = [number |-> 0, epoch |-> 0, slot |-> 0]
    /\ block_hashes = {0}
    /\ leaders = {} /\ placed = {<<0, 0>>}


\* Zero for a validator without stake that has not earned its credits
compute_vrf_weight(stake, vc) ==
    IF stake = 0 /\ vc < BOOTSTRAP_MIN_VC_REQUIREMENT THEN 0
    ELSE (IF stake = 0 THEN 1 ELSE IF stake > STAKE_CAP THEN STAKE_CAP ELSE stake)
             * (1 + (IF vc = 0 THEN 1 ELSE vc))

is_bootstrap_eligible(stake, vc) == stake # 0 \/ vc >= BOOTSTRAP_MIN_VC_REQUIREMENT

\* select_validator: candidates [id, stake, vc] in a node's order, luck the hash of each
\* with epoch and slot.  The first with the highest score; the sort is stable.
select_validator(candidates, luck) ==
    LET score(i) == compute_vrf_weight(candidates[i].stake, candidates[i].vc)
                        * luck[candidates[i].id]
        best == {i \in DOMAIN candidates : \A j \in DOMAIN candidates : score(j) <= score(i)}
    IN  candidates[CHOOSE i \in best : \A j \in best : i <= j].id

\* The hashes under which no two validators with a weight tie
Lucks(weight) ==
    {luck \in [Elector -> 1..(Cardinality(Elector) + 1)] :
        \A v, w \in Elector : v # w /\ weight[v] * luck[v] = weight[w] * luck[w]
            => weight[v] * luck[v] = 0}

Orders(set) == SetToSeqs(set)

\* is_slot_leader: every validator of the set is a candidate, with the credits of the state.
LeaderOf(order, luck) ==
    select_validator([i \in DOMAIN order |->
        [id |-> order[i], stake |-> electors[order[i]].stake, vc |-> electors[order[i]].vc]], luck)

\* Each validator asks, of its own copy of the set, whether it leads the slot.
is_slot_leader ==
    \E luck \in Lucks([v \in Elector |-> compute_vrf_weight(electors[v].stake, electors[v].vc)]) :
        \E order \in [Elector -> Orders(Elector)] :
            leaders' = {v \in Elector : LeaderOf(order[v], luck) = v}

-----------------------------------------------------------------------------
(* Validation of a block against its parent                                 *)

validate_basic_structure(b) ==
    /\ b.number = parent.number + 1
    /\ b.epoch >= parent.epoch
    /\ b.epoch = parent.epoch => b.slot > parent.slot

\* The blocks an author produced stand for its credits.
validate_slot_assignment(b, order, luck) ==
    select_validator([i \in DOMAIN order |->
        [id |-> order[i], stake |-> electors[order[i]].stake,
         vc |-> electors[order[i]].blocks_produced]], luck) = b.author

ActiveElectors == {v \in Elector : electors[v].active}

validate_author_authorization(b, order, luck) ==
    electors[b.author].active /\ validate_slot_assignment(b, order, luck)

\* record_block_hash: the block that is as far back as are kept is forgotten.
record_block_hash(n) ==
    LET more == block_hashes \cup {n}
    IN  block_hashes' = IF Cardinality(more) > RetainedHashes THEN more \ {n - RetainedHashes}
                        ELSE more

\* validate_block of a signed block with a right timestamp and root
validate_block(b) ==
    /\ validate_basic_structure(b)
    /\ \E order \in Orders(ActiveElectors),
          luck \in Lucks([v \in Elector |->
                            compute_vrf_weight(electors[v].stake, electors[v].blocks_produced)]) :
          validate_author_authorization(b, order, luck)

\* The two libraries' caller, as their tests are: a valid block extends the chain and its
\* hash is recorded.
accept_block(b) ==
    /\ parent.number < MaxRecorded
    /\ validate_block(b)
    /\ parent' = [number |-> b.number, epoch |-> b.epoch, slot |-> b.slot]
    /\ record_block_hash(b.number)
    /\ placed' = placed \cup {<<b.epoch, b.slot>>}
    /\ leaders' = {}
    /\ UNCHANGED electors

SlotStep ==
    \/ is_slot_leader /\ UNCHANGED <<electors, parent, block_hashes, placed>>
    \/ \E epoch \in {parent.epoch, parent.epoch + 1}, slot \in 0..MaxSlotNumber, author \in Elector :
          accept_block([number |-> parent.number + 1, epoch |-> epoch, slot |-> slot,
                        author |-> author])

-----------------------------------------------------------------------------
(* Selection by stake                                                       *)

\* The first validator at which the stakes add up to more than the point
weighted_selection(order, point) ==
    LET cumulative(i) == FoldLeft(LAMBDA sum, v : sum + electors[v].stake, 0, SubSeq(order, 1, i))
    IN  order[CHOOSE i \in DOMAIN order :
                 /\ cumulative(i) > point
                 /\ \A j \in 1..(i - 1) : cumulative(j) <= point]

TotalActiveStake == FoldSet(LAMBDA v, sum : sum + electors[v].stake, 0, ActiveElectors)

\* The hash of the first block of the epoch before
get_epoch_randomness(epoch) ==
    LET prev_epoch_start == (epoch - 1) * EPOCH_DURATION_BLOCKS
    IN  IF epoch # 0 /\ prev_epoch_start \in block_hashes THEN prev_epoch_start ELSE ZERO

from_block_number(block) == block \div EPOCH_DURATION_BLOCKS

-----------------------------------------------------------------------------
\* Along a chain of validated blocks epochs and slots grow, so that no slot has two blocks,
\* and the provider keeps at most its number of hashes.
SlotTypeOK ==
    /\ parent.number \in 0..MaxRecorded
    /\ Cardinality(placed) = parent.number + 1
    /\ \A p \in placed : p[1] < parent.epoch \/ (p[1] = parent.epoch /\ p[2] <= parent.slot)
    /\ Cardinality(block_hashes) <= RetainedHashes

\* is_slot_leader, select_validator: unless no validator has a weight, exactly one of the
\* validators takes itself for the leader, though each sorts the candidates of a map
\* of its own, and the leader has a stake or the credits a validator without one needs.
OneEligibleLeader ==
    [][leaders' = {} \/
       LET eligible == {v \in Elector : is_bootstrap_eligible(electors[v].stake, electors[v].vc)}
       IN  eligible # {} => Cardinality(leaders') = 1 /\ leaders' \subseteq eligible]_slotVars

\* weighted_selection: whatever the order, a validator is selected by as many points as it
\* has stake, so by chance in proportion to its stake, and never without any.
SelectedByStake ==
    \A order \in Orders(ActiveElectors) : \A v \in ActiveElectors :
        Cardinality({point \in 0..(TotalActiveStake - 1) : weighted_selection(order, point) = v})
            = electors[v].stake


\* "epoch_randomness(N) = hash(block_0_of_epoch(N-1))" (SPEC_3_CONSENSUS.md), while the
\* blocks of the epoch are made (get_epoch_randomness, record_block_hash).
RandomnessOfEpoch ==
    LET epoch == from_block_number(parent.number + 1)
    IN  get_epoch_randomness(epoch) =
            (IF epoch = 0 THEN ZERO ELSE (epoch - 1) * EPOCH_DURATION_BLOCKS)

SlotSpec == SlotInit /\ [][SlotStep]_slotVars

\* Bound: one block in each slot.
EverySlotHasItsBlock ==
    /\ parent'.epoch = from_block_number(parent'.number)
    /\ parent'.slot = parent'.number % EPOCH_DURATION_BLOCKS
=============================================================================
