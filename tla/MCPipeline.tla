---------------------------- MODULE MCPipeline ----------------------------
(* BlockPipeline in two kinds of behaviours: in calm ones the node does not *)
(* crash and refuses no block that it executed.                             *)
EXTENDS BlockPipeline

VARIABLE calm

MCInit == Init /\ calm \in BOOLEAN

Refused == task = Idle /\ ledger' # ledger /\ task' = Idle

MCNext == Next /\ UNCHANGED calm /\ (calm => crashes' = crashes /\ ~Refused)

MCSpec == MCInit /\ [][MCNext]_<<vars, calm>> /\ Fairness

\* SPEC 3, 14.4: "State modifications happen exactly once per block" (import_block,
\* store_produced_block): between two handlers the accounts are those of the chain, in
\* behaviours without a crash and without a block that is refused after it was executed.
CalmExecutesOncePerBlock == calm => ExecutedOncePerBlock

\* SPEC 3, 12.1: "Block is next sequential | Import immediately".  In such behaviours a node
\* whose peers have a valid next block gets past its height (import_block).
CalmImportsNext == calm => NextBlockImported
=============================================================================
