--------------------------- MODULE AbstractChain ---------------------------
(* What a node promises about blocks, without its handlers, databases and   *)
(* writes: the chain it is on grows by one block at a time, each in a later *)
(* slot or epoch than its parent; a block of its own is on the chain and    *)
(* broadcast in one step, and its slot was never used for another one; a    *)
(* restart goes back to the genesis block and takes nothing back that was   *)
(* broadcast.                                                               *)
EXTENDS Naturals, SequencesExt

VARIABLES
    tip,     \* the chain: the headers of its blocks
    broadcast

After(h, chain) ==
    chain # <<>> => h.slot > Last(chain).slot \/ h.epoch > Last(chain).epoch

ChainInit == tip = <<>> /\ broadcast = {}

Extend(h) ==
    /\ After(h, tip)
    /\ tip' = Append(tip, h)
    /\ IF h.author = "self"
       THEN /\ \A b \in broadcast : Last(b).epoch # h.epoch \/ Last(b).slot # h.slot
            /\ broadcast' = broadcast \cup {tip'}
       ELSE broadcast' = broadcast

Restart == tip' = <<>> /\ UNCHANGED broadcast

ChainNext == (tip' # <<>> /\ Extend(Last(tip'))) \/ Restart

ChainSpec == ChainInit /\ [][ChainNext]_<<tip, broadcast>>
=============================================================================
