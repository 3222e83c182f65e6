-------------------------------- MODULE Join --------------------------------
(* How a node gets its genesis: KratOsNode::new of node/service.rs (join a  *)
(* network, or create one in genesis mode), GenesisBuilder::build of        *)
(* genesis/spec.rs and the genesis requests of network/service.rs.  Every   *)
(* write of the database is a step.  A genesis is a model value; its state  *)
(* is the set of its accounts, each of which remembers whose balance it     *)
(* has, and the state root is right if exactly these are in the database.   *)
EXTENDS Integers, FiniteSets, Functions, TLAPS

CONSTANTS
    GenesisId, NoGenesis,
    GenesisAccount(_),   \* the accounts of a genesis
    OwnGenesis,          \* the genesis of the node's own configuration
    MaxStarts            \* bound: starts of the node

ASSUME JoinAssumption == OwnGenesis \in GenesisId /\ NoGenesis \notin GenesisId

VARIABLES
    starter,     \* [mode, stage, block, state, todo]: the start in progress
    chainDb,     \* [block, hash, drift, accounts, root]: the database
    starts,
    interrupted  \* history: a start ended after the genesis hash was set and before the end

joinVars == <<starter, chainDb, starts, interrupted>>

Stage == {"down", "asking", "store", "hash", "drift", "state", "running"}

JoinInit ==
    /\ \E mode \in {"genesis", "join"} :
          starter = [mode |-> mode, stage |-> "down", block |-> NoGenesis, state |-> NoGenesis,
                     todo |-> {}]
    /\ chainDb = [block |-> NoGenesis, hash |-> NoGenesis, drift |-> FALSE, accounts |-> << >>,
                  root |-> NoGenesis]
    /\ starts = 0 /\ interrupted = FALSE

\* compute_state_root
RootIs(g) == chainDb.accounts = [a \in GenesisAccount(g) |-> g]

Begin(stage, block, state) ==
    starter' = [starter EXCEPT !.stage = stage, !.block = block, !.state = state,
                  !.todo = IF state = NoGenesis THEN {} ELSE GenesisAccount(state)]

\* Mutant: a stored block is taken for a complete genesis.
new_by_block ==
    /\ starter.stage = "down" /\ starts < MaxStarts
    /\ starts' = starts + 1
    /\ IF starter.mode = "genesis" THEN Begin("state", OwnGenesis, OwnGenesis)
       ELSE IF chainDb.block # NoGenesis THEN Begin("running", chainDb.block, NoGenesis)
            ELSE Begin("asking", NoGenesis, NoGenesis)
    /\ UNCHANGED <<chainDb, interrupted>>

\* The top of KratOsNode::new: build, use what is stored, or ask the network.
new ==
    /\ starter.stage = "down" /\ starts < MaxStarts
    /\ starts' = starts + 1
    /\ IF starter.mode = "genesis" THEN Begin("state", OwnGenesis, OwnGenesis)
       ELSE IF chainDb.hash # NoGenesis
            THEN Begin(IF chainDb.block = chainDb.hash THEN "running" ELSE "down",
                       chainDb.block, NoGenesis)
            ELSE Begin("asking", NoGenesis, NoGenesis)
    /\ UNCHANGED <<chainDb, interrupted>>

\* A GenesisResponse whose block has the hash it claims: the first one wins.  Its accounts
\* are not covered by that hash, only by the state root in the block.
genesis_received(g, h) ==
    /\ starter.stage = "asking"
    /\ Begin("store", g, h)
    /\ UNCHANGED <<chainDb, starts, interrupted>>

GoOn(stage) == starter' = [starter EXCEPT !.stage = stage] /\ UNCHANGED <<starts, interrupted>>

store_block ==
    /\ starter.stage = "store"
    /\ chainDb' = [chainDb EXCEPT !.block = starter.block]
    /\ GoOn("hash")

set_genesis_hash ==
    /\ starter.stage = "hash"
    /\ chainDb' = [chainDb EXCEPT !.hash = starter.block]
    /\ GoOn("drift")

init_drift_tracker ==
    /\ starter.stage = "drift"
    /\ chainDb' = [chainDb EXCEPT !.drift = TRUE]
    /\ GoOn("state")

\* One set_account of apply_received_genesis_state or of GenesisBuilder::build
set_account(a) ==
    /\ starter.stage = "state" /\ a \in starter.todo
    /\ starter' = [starter EXCEPT !.todo = @ \ {a}]
    /\ chainDb' = [chainDb EXCEPT !.accounts =
          [x \in DOMAIN @ \union {a} |-> IF x = a THEN starter.state ELSE @[x]]]
    /\ UNCHANGED <<starts, interrupted>>

\* The end of apply_received_genesis_state: the root is verified and stored, or the start
\* fails.  The builder takes the root it computes, and stores block and hash if there are
\* none.
verify_state_root ==
    /\ starter.stage = "state" /\ starter.todo = {}
    /\ IF starter.mode = "genesis"
       THEN /\ chainDb' = [chainDb EXCEPT !.root = starter.block, !.drift = TRUE,
                 !.block = IF @ = NoGenesis THEN starter.block ELSE @,
                 !.hash = IF @ = NoGenesis THEN starter.block ELSE @]
            /\ GoOn("running")
       ELSE IF RootIs(starter.block)
            THEN chainDb' = [chainDb EXCEPT !.root = starter.block] /\ GoOn("running")
            ELSE /\ starter' = [starter EXCEPT !.stage = "down"]
                 /\ interrupted' = (interrupted \/ chainDb.hash # NoGenesis)
                 /\ UNCHANGED <<chainDb, starts>>

\* The process ends: nobody answered within 60 s, a crash, or a shutdown.
stop ==
    /\ starter.stage # "down"
    /\ starter' = [starter EXCEPT !.stage = "down"]
    /\ interrupted' = (interrupted \/ (starter.mode = "join" /\ starter.stage # "running"
                                       /\ chainDb.hash # NoGenesis))
    /\ UNCHANGED <<chainDb, starts>>

JoinStep ==
    \/ new \/ store_block \/ set_genesis_hash \/ init_drift_tracker \/ verify_state_root \/ stop
    \/ \E g, h \in GenesisId : genesis_received(g, h)
    \/ \E a \in starter.todo : set_account(a)

-----------------------------------------------------------------------------
JoinTypeOK ==
    /\ starter.stage \in Stage
    /\ chainDb.hash \in GenesisId \union {NoGenesis}

\* A running node has the block, the hash and exactly the accounts of one genesis, also
\* when earlier starts ended at any point and were answered by peers of another network,
\* unless one ended between set_genesis_hash and the check of the state root
\* (KratOsNode::new, apply_received_genesis_state).
RunsOnOneGenesis ==
    starter.stage = "running" /\ ~interrupted =>
        /\ chainDb.block = chainDb.hash /\ chainDb.hash = chainDb.root /\ chainDb.drift
        /\ RootIs(chainDb.hash)

JoinSpec == JoinInit /\ [][JoinStep]_joinVars

-----------------------------------------------------------------------------
(* Proof that a running node has one genesis, for any networks, any number *)
(* of starts and any accounts.                                             *)

\* Block, hash, root and accounts of the database are those of one genesis.
Complete ==
    /\ chainDb.hash \in GenesisId
    /\ chainDb.block = chainDb.hash /\ chainDb.root = chainDb.hash /\ chainDb.drift
    /\ RootIs(chainDb.hash)

\* What a node in genesis mode has written: its own genesis, and of the accounts at least
\* those that are done.
Building ==
    /\ starter.stage \in {"down", "state", "running"}
    /\ starter.stage = "state" => starter.block = OwnGenesis /\ starter.state = OwnGenesis
    /\ chainDb.block \in {NoGenesis, OwnGenesis} /\ chainDb.hash = chainDb.block
    /\ chainDb.accounts = [a \in DOMAIN chainDb.accounts |-> OwnGenesis]
    /\ DOMAIN chainDb.accounts \subseteq GenesisAccount(OwnGenesis)
    /\ starter.stage = "state" =>
          /\ starter.todo \subseteq GenesisAccount(OwnGenesis)
          /\ GenesisAccount(OwnGenesis) \subseteq DOMAIN chainDb.accounts \union starter.todo
    /\ starter.stage = "running" => Complete

\* What a node that joins has written at each stage, as long as no start was interrupted
\* after the genesis hash was set: nothing that a later start would trust, or everything.
Joining ==
    /\ starter.stage = "down" => chainDb.hash = NoGenesis \/ Complete
    /\ starter.stage \in {"asking", "store", "hash"} => chainDb.hash = NoGenesis
    /\ starter.stage \in {"store", "hash", "drift", "state"} => starter.block \in GenesisId
    /\ starter.stage \in {"hash", "drift", "state"} => chainDb.block = starter.block
    /\ starter.stage \in {"drift", "state"} => chainDb.hash = starter.block
    /\ starter.stage = "state" => chainDb.drift
    /\ starter.stage = "running" => Complete

JoinInv ==
    /\ DOMAIN starter = {"mode", "stage", "block", "state", "todo"}
    /\ DOMAIN chainDb = {"block", "hash", "drift", "accounts", "root"}
    /\ starter.mode \in {"genesis", "join"} /\ starter.stage \in Stage
    /\ chainDb.drift \in BOOLEAN /\ interrupted \in BOOLEAN
    /\ starter.mode = "genesis" => Building
    /\ starter.mode = "join" /\ ~interrupted => Joining

\* Nothing is written before the first start.
LEMMA JoinInvInit == JoinInit => JoinInv
<1> SUFFICES ASSUME JoinInit PROVE JoinInv
  OBVIOUS
<1>1. << >> = [a \in {} |-> OwnGenesis] /\ DOMAIN << >> = {}
  OBVIOUS
<1>2. Building
  BY <1>1 DEF JoinInit, Building
<1>3. Joining
  BY DEF JoinInit, Joining
<1>4. starter.mode \in {"genesis", "join"} /\ starter.stage = "down"
  BY DEF JoinInit
<1>5. chainDb.drift \in BOOLEAN /\ interrupted \in BOOLEAN
  BY DEF JoinInit
<1>6. /\ DOMAIN starter = {"mode", "stage", "block", "state", "todo"}
      /\ DOMAIN chainDb = {"block", "hash", "drift", "accounts", "root"}
  BY DEF JoinInit
<1> QED BY <1>2, <1>3, <1>4, <1>5, <1>6 DEF JoinInv, Stage

\* Every write of a start, and its end at any point, keeps it.
LEMMA JoinInvNext == JoinInv /\ [JoinStep]_joinVars => JoinInv'
<1> SUFFICES ASSUME JoinInv, [JoinStep]_joinVars PROVE JoinInv'
  OBVIOUS
<1> USE JoinAssumption DEF JoinInv, Stage
<1>1. CASE new
  <2>1. CASE starter.mode = "genesis"
    <3>1. Building'
      BY <1>1, <2>1 DEF new, Begin, Building
    <3> QED BY <1>1, <2>1, <3>1 DEF new, Begin
  <2>2. CASE starter.mode = "join"
    <3>1. ~interrupted => Joining'
      BY <1>1, <2>2 DEF new, Begin, Joining, Complete, RootIs
    <3> QED BY <1>1, <2>2, <3>1 DEF new, Begin
  <2> QED BY <2>1, <2>2
<1>2. CASE store_block
  BY <1>2 DEF store_block, GoOn, Building, Joining, Complete, RootIs
<1>3. CASE set_genesis_hash
  BY <1>3 DEF set_genesis_hash, GoOn, Building, Joining, Complete, RootIs
<1>4. CASE init_drift_tracker
  BY <1>4 DEF init_drift_tracker, GoOn, Building, Joining, Complete, RootIs
<1>5. CASE verify_state_root
  <2>1. CASE starter.mode = "genesis"
    <3>1. DOMAIN chainDb.accounts = GenesisAccount(OwnGenesis)
      BY <1>5, <2>1 DEF verify_state_root, Building
    <3>2. RootIs(OwnGenesis)
      BY <2>1, <3>1 DEF RootIs, Building
    <3>3. /\ chainDb'.block = OwnGenesis /\ chainDb'.hash = OwnGenesis
          /\ chainDb'.root = OwnGenesis /\ chainDb'.drift = TRUE
          /\ chainDb'.accounts = chainDb.accounts
          /\ starter'.stage = "running"
      BY <1>5, <2>1 DEF verify_state_root, GoOn, Building
    <3>4. Complete'
      BY <3>2, <3>3 DEF Complete, RootIs
    <3>5. Building'
      BY <2>1, <3>1, <3>3, <3>4 DEF Building
    <3> QED BY <1>5, <2>1, <3>3, <3>5 DEF verify_state_root, GoOn
  <2>2. CASE starter.mode = "join" /\ RootIs(starter.block)
    <3>1. ~interrupted => Joining'
      BY <1>5, <2>2 DEF verify_state_root, GoOn, Joining, Complete, RootIs
    <3> QED BY <1>5, <2>2, <3>1 DEF verify_state_root, GoOn
  <2>3. CASE starter.mode = "join" /\ ~RootIs(starter.block)
    <3>1. ~interrupted' => Joining'
      BY <1>5, <2>3 DEF verify_state_root, Joining, Complete, RootIs
    <3> QED BY <1>5, <2>3, <3>1 DEF verify_state_root
  <2> QED BY <2>1, <2>2, <2>3
<1>6. CASE stop
  BY <1>6 DEF stop, Building, Joining, Complete, RootIs
<1>7. ASSUME NEW g \in GenesisId, NEW h \in GenesisId, genesis_received(g, h) PROVE JoinInv'
  BY <1>7 DEF genesis_received, Begin, Building, Joining, Complete, RootIs
<1>8. ASSUME NEW a \in starter.todo, set_account(a) PROVE JoinInv'
  <2>1. CASE starter.mode = "genesis"
    <3>1. Building'
      BY <1>8, <2>1 DEF set_account, Building
    <3> QED BY <1>8, <2>1, <3>1 DEF set_account
  <2>2. CASE starter.mode = "join"
    <3>1. ~interrupted => Joining'
      BY <1>8, <2>2 DEF set_account, Joining
    <3> QED BY <1>8, <2>2, <3>1 DEF set_account
  <2> QED BY <2>1, <2>2
<1>9. CASE UNCHANGED joinVars
  BY <1>9 DEF joinVars, Building, Joining, Complete, RootIs
<1> QED BY <1>1, <1>2, <1>3, <1>4, <1>5, <1>6, <1>7, <1>8, <1>9 DEF JoinStep

\* For any genesis blocks and accounts, any answers and any number of starts that end
\* anywhere: a running node whose starts were not interrupted after set_genesis_hash has the
\* block, hash, root and accounts of one genesis (KratOsNode::new,
\* apply_received_genesis_state, GenesisBuilder::build).
THEOREM JoinsOneGenesis == JoinSpec => []RunsOnOneGenesis
<1>1. JoinInv => RunsOnOneGenesis
  BY DEF JoinInv, Building, Joining, Complete, RunsOnOneGenesis, Stage
<1> QED BY <1>1, JoinInvInit, JoinInvNext, PTL DEF JoinSpec
=============================================================================
