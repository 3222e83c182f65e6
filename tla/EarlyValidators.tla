-------------------------- MODULE EarlyValidators --------------------------
(***************************************************************************)
(* How one node's validator set grows: the part of import_block and        *)
(* store_produced_block (kratos-core/src/node/service.rs) that touches the *)
(* set, the validator credits and the finality gadget's copy of the set.   *)
(*                                                                         *)
(* A block is an author and a sequence of proposals and votes.  What else  *)
(* is in it decides only whether an import fails, and where: outcome is    *)
(* "ok", "invalid" (refused by BlockValidator::validate, by the drift      *)
(* tracker or by a transaction, before the proposals and votes run) or     *)
(* "bad_root" (refused by the rewards or the state root, after them).      *)
(***************************************************************************)
EXTENDS ValidatorSet, SequencesExt

CONSTANTS
    Party,
    GenesisValidators,  \* the bootstrap validators of the genesis
    HISTORICAL_BLOCKS,  \* up to this height an importer trusts the author: 100
    ImportsFail,        \* whether imports may fail
    MaxTransactions,    \* bound on the transactions of a block
    MaxBlock            \* bound on the height

ASSUME EarlyAssumption ==
    /\ GenesisValidators \subseteq Party
    /\ HISTORICAL_BLOCKS \in Nat
    /\ ImportsFail \in BOOLEAN

VARIABLES
    chain_height,
    validators,
    vc_records,          \* accounts with a validator-credits record
    finality_validators, \* the gadget's set
    unannounced          \* a refused import changed the set; no update followed

earlyVars == <<chain_height, validators, vc_records, finality_validators, unannounced>>

Transaction ==
    [call : {"ProposeEarlyValidator", "VoteEarlyValidator"},
     candidate : Party, sender : Party]

Outcome == IF ImportsFail THEN {"ok", "invalid", "bad_root"} ELSE {"ok"}

EarlyInit ==
    /\ chain_height = 0
    /\ validators = [EmptySet EXCEPT
           !.validators = [id \in GenesisValidators |-> new_bootstrap],
           !.registry = GenesisValidators]
    /\ vc_records = GenesisValidators
    /\ finality_validators = GenesisValidators
    /\ unannounced = FALSE

-----------------------------------------------------------------------------
(* The early-validator transactions of a block, on a record of the three   *)
(* things they change: the set, the credits, and whether a validator was   *)
(* approved.  A transaction that is refused is logged and skipped.         *)

\* The set after a proposal or a vote, and the approval the quorum brings.
ApproveOnQuorum(st, set, candidate) ==
    IF has_quorum(set.early_candidates[candidate]) /\ CanApprove(set, candidate)
    THEN [set |-> approve_early_validator(set, candidate),
          vc |-> st.vc \cup {candidate}, changed |-> TRUE]
    ELSE [st EXCEPT !.set = set]

Propose(st, tx, block) ==
    IF CanPropose(st.set, tx.candidate, tx.sender, block)
    THEN ApproveOnQuorum(st,
             propose_early_validator(st.set, tx.candidate, tx.sender, block),
             tx.candidate)
    ELSE st

Vote(st, tx, block) ==
    CASE ~MayVote(st.set, tx.candidate, tx.sender, block) -> st
      [] OTHER ->
         IF is_expired(st.set.early_candidates[tx.candidate], block)
         THEN [st EXCEPT !.set = Expire(st.set, tx.candidate)]
         ELSE IF CanVote(st.set, tx.candidate, tx.sender, block)
         THEN ApproveOnQuorum(st, WithVote(st.set, tx.candidate, tx.sender), tx.candidate)
         ELSE st

ProcessTransactions(set, transactions, block) ==
    FoldLeft(LAMBDA st, tx : IF tx.call = "ProposeEarlyValidator"
                             THEN Propose(st, tx, block)
                             ELSE Vote(st, tx, block),
             [set |-> set, vc |-> vc_records, changed |-> FALSE],
             transactions)

-----------------------------------------------------------------------------
(* The two ways a block reaches the node.                                  *)

\* Up to block HISTORICAL_BLOCKS an author that is not active is made so.
TrustAuthor(author, block) ==
    IF ~is_active(validators, author) /\ block <= HISTORICAL_BLOCKS
    THEN ensure_bootstrap_validator(validators, author)
    ELSE validators

\* update_finality_validators runs only if the block added a validator.
UpdateFinality(changed, set) ==
    IF changed
    THEN finality_validators' = active_validators(set) /\ unannounced' = FALSE
    ELSE UNCHANGED <<finality_validators, unannounced>>

\* Mutant: a validator added by an import is not announced to the gadget.
import_without_update(author, transactions, outcome) ==
    LET block == chain_height + 1
        set == TrustAuthor(author, block)
        st == ProcessTransactions(set, transactions, block)
    IN  /\ is_active(set, author)
        /\ outcome = "ok"
        /\ validators' = st.set
        /\ vc_records' = st.vc
        /\ chain_height' = block
        /\ UNCHANGED <<finality_validators, unannounced>>

import_block(author, transactions, outcome) ==
    LET block == chain_height + 1
        set == TrustAuthor(author, block)
        st == ProcessTransactions(set, transactions, block)
        valid == outcome # "invalid" /\ is_active(set, author)
    IN  /\ validators' = IF valid THEN st.set ELSE set
        /\ vc_records' = IF valid THEN st.vc ELSE vc_records
        /\ IF valid /\ outcome = "ok"
           THEN /\ chain_height' = block
                /\ UpdateFinality(st.changed \/ set # validators, st.set)
           ELSE /\ unannounced' = (unannounced \/ validators' # validators)
                /\ UNCHANGED <<chain_height, finality_validators>>

\* try_produce_block needs an active author; store_produced_block updates the
\* gadget after each approval, and the last update is the one that remains.
store_produced_block(author, transactions) ==
    LET block == chain_height + 1
        st == ProcessTransactions(validators, transactions, block)
    IN  /\ is_active(validators, author)
        /\ validators' = st.set
        /\ vc_records' = st.vc
        /\ chain_height' = block
        /\ UpdateFinality(st.changed, st.set)

Transactions == BoundedSeq(Transaction, MaxTransactions)

EarlyStep ==
    /\ chain_height < MaxBlock
    /\ \E author \in Party, transactions \in Transactions :
          \/ \E outcome \in Outcome : import_block(author, transactions, outcome)
          \/ store_produced_block(author, transactions)

-----------------------------------------------------------------------------
(* Properties.                                                             *)

Candidacy ==
    [voters : SUBSET Party, votes_required : Nat, created_at : Nat,
     status : CandidacyStatus]

\* The node's set, its candidacies, the credits and the gadget's copy of the
\* set stay within their types, and the role registry lists the validators.
EarlyTypeOK ==
    /\ chain_height \in 0..MaxBlock
    /\ DOMAIN validators.validators \subseteq Party
    /\ \A id \in DOMAIN validators.validators : validators.validators[id] \in ValidatorInfo
    /\ DOMAIN validators.early_candidates \subseteq Party
    /\ \A c \in DOMAIN validators.early_candidates :
           validators.early_candidates[c] \in Candidacy
    /\ validators.registry = DOMAIN validators.validators
    /\ validators.total_stake \in Nat
    /\ vc_records \subseteq Party
    /\ finality_validators \subseteq Party
    /\ unannounced \in BOOLEAN

Approved == {c \in DOMAIN validators.early_candidates :
                validators.early_candidates[c].status = "Approved"}

\* approve_early_validator, initialize_bootstrap_vc: an approved candidate has the
\* votes it needed, each of another account that is itself a validator, and the
\* credits to be selected for slots, whether this node produced or imported the
\* approving block; an author trusted during the historical sync cannot use the seat
\* it got to vote itself in.
ApprovedByOthers ==
    \A c \in Approved :
        LET candidacy == validators.early_candidates[c]
        IN  /\ has_quorum(candidacy)
            /\ candidacy.voters \subseteq DOMAIN validators.validators \ {c}
            /\ c \in vc_records

\* vote_early_validator: whatever the order of proposals and votes, a validator is
\* approved as above, in the bootstrap era and before its candidacy expires.
ApprovedInTime ==
    /\ []ApprovedByOthers
    /\ [][\A c \in Approved' \ Approved :
             LET block == chain_height + 1
                 created == validators'.early_candidates[c].created_at
             IN  is_bootstrap_era(block) /\ block <= created + CANDIDACY_EXPIRATION]_earlyVars

\* update_finality_validators ("Update finality gadget with new validator set if
\* any validators were added"): the gadget weighs votes by the active set, but
\* for the time from an import that changed the set and was refused until the
\* next block that adds a validator.
FinalityFollowsValidators ==
    ~unannounced => finality_validators = active_validators(validators)
=============================================================================
