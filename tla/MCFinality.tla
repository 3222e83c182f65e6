----------------------------- MODULE MCFinality -----------------------------
(* Three validators, each with its own node.  A run chooses its tree of    *)
(* blocks: a1 and b1 extend genesis, a2 extends a1, b2 extends b1, a3      *)
(* extends a2.                                                             *)
EXTENDS FinalityGadget

CONSTANTS v1, v2, v3, g, a1, b1, a2, b2, a3

MCAccount == {v1, v2, v3}
Symmetry == Permutations(MCAccount)

Chain1 == {g, a1}
Chain2 == {g, a1, a2}
Chain3 == {g, a1, a2, a3}
Fork2 == {g, a1, b1, b2}

MCnumber ==
    [t \in Target |-> CASE t = g -> 0
                        [] t \in {a1, b1} -> 1
                        [] t \in {a2, b2} -> 2
                        [] t = a3 -> 3]
MCparent ==
    [t \in Target \ {g} |-> CASE t = a2 -> a1
                              [] t = b2 -> b1
                              [] t = a3 -> a2
                              [] OTHER -> g]

\* Restrictions that only cut behaviours off, for a search of long ones: round
\* 0 only, no delivery that changes nothing, a node imports a block once every
\* node finalized the one before it, and a second publication of a vote is late:
\* it reaches only v1, and only after v1 finalized the block of height 2.
Lockstep ==
    /\ \A n \in Account : gadget'[n].current_round = 0
    /\ gadget' # gadget
    /\ chain' # chain =>
          \A n, m \in Account : Len(chain'[n]) <= number[gadget[m].last_finalized] + 1
    /\ \A p \in DOMAIN net :
          p.msg.kind = "Vote" /\ p \notin DOMAIN net' =>
              p.to = v1 /\ gadget[v1].last_finalized = a2

\* A restriction that only cuts behaviours off: v3 imports its block after v1 and
\* v2, when the votes they sent it have arrived.
LateImport ==
    chain'[v3] # chain[v3] =>
        /\ chain[v1] # <<>> /\ chain[v2] # <<>>
        /\ \A p \in DOMAIN net : p.to # v3

\* The equivocations a collector recorded: nothing in the gadget reads them.
View == <<chain, [n \in Account |-> [gadget[n] EXCEPT !.collector.equivocations = {}]], net>>
=============================================================================
