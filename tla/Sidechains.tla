----------------------------- MODULE Sidechains -----------------------------
(***************************************************************************)
(* ChainRegistry (kratos-core/src/contracts/sidechains.rs, types/chain.rs):*)
(* sidechains, the hostchains they are affiliated with, and the purge      *)
(* state machine PendingPurge, Frozen, Snapshot, WithdrawalWindow, Purged. *)
(* A chain is removed from no map and no code makes one Inactive.  Names,  *)
(* descriptions and the recorded reason of a purge are read nowhere and    *)
(* left out.  A Merkle proof is whether it verifies against the chain's    *)
(* snapshot root; amounts paid to others than the owner are the caller's   *)
(* and left out.                                                           *)
(***************************************************************************)
EXTENDS ContractBase, SequencesExt

CONSTANTS
    INACTIVITY_THRESHOLD, PURGE_CHECK_INTERVAL,
    PURGE_WARNING_PERIOD, WITHDRAWAL_WINDOW_DURATION,
    GOVERNANCE_FAILURE_THRESHOLD,       \* 3
    VALIDATOR_FRAUD_THRESHOLD_PERCENT,  \* 33
    FRAUD_PROOF_VALIDITY_PERIOD,
    BASE_DEPOSIT, SOVEREIGN_DEPOSIT,
    MAX_MEMBERS_PER_HOST, MAX_VALIDATORS_PER_CHAIN, MAX_VALIDATORS_PER_HOST,
    Deposits,     \* the deposits offered
    MaxChains,    \* bound on the identifiers given out
    MaxCount      \* bound on the failures and slashings counted

VARIABLE registry

NoChain == 0  \* reserved for the root chain

SecurityMode == {"Inherited", "Shared", "Sovereign"}

ChainStatus ==
    {"Active", "PendingPurge", "Frozen", "Snapshot", "WithdrawalWindow", "Purged"}

SidechainsInit ==
    registry = [sidechains |-> <<>>, hostchains |-> <<>>, sidechain_to_host |-> <<>>,
                next_chain_id |-> 1, last_purge_check |-> 0]

NewSidechain(owner, parent, mode, deposit) ==
    [parent |-> parent, owner |-> owner, security_mode |-> mode, validators |-> {},
     status |-> "Active", last_activity |-> current_block, deposit |-> deposit,
     purge_triggered_at |-> NoBlock, frozen_at |-> NoBlock,
     withdrawal_window_start |-> NoBlock, governance_failures |-> 0,
     slashed_validators_count |-> 0, has_verified_root |-> FALSE, diverged |-> FALSE,
     has_snapshot_root |-> FALSE, withdrawn_accounts |-> {}]

Sidechain(c) == registry.sidechains[c]

-----------------------------------------------------------------------------
(* Affiliation and validators.                                             *)

HasRoom(r, h) == Cardinality(r.hostchains[h].member_chains) < MAX_MEMBERS_PER_HOST

Affiliate(r, c, h) ==
    [r EXCEPT !.hostchains[h].member_chains = @ \cup {c},
              !.sidechain_to_host = (c :> h) @@ @]

Unaffiliate(r, c) ==
    IF c \notin DOMAIN r.sidechain_to_host THEN r
    ELSE [r EXCEPT
             !.hostchains[r.sidechain_to_host[c]].member_chains = @ \ {c},
             !.sidechain_to_host = Without(@, {c})]

\* assign_validators fails for an inherited chain without a parent and for a
\* shared one without a host.
CanAssign(r, c) ==
    CASE r.sidechains[c].security_mode = "Inherited" -> r.sidechains[c].parent # NoChain
      [] r.sidechains[c].security_mode = "Shared" -> c \in DOMAIN r.sidechain_to_host
      [] OTHER -> TRUE

assign_validators(r, c) ==
    [r EXCEPT !.sidechains[c].validators =
        CASE r.sidechains[c].security_mode = "Inherited" ->
                 r.sidechains[r.sidechains[c].parent].validators
          [] r.sidechains[c].security_mode = "Shared" ->
                 r.hostchains[r.sidechain_to_host[c]].validator_pool
          [] OTHER -> @]

required_deposit(mode, host) ==
    CASE mode = "Inherited" -> BASE_DEPOSIT
      [] mode = "Shared" ->
             BASE_DEPOSIT * Cardinality(registry.hostchains[host].member_chains)
      [] OTHER -> SOVEREIGN_DEPOSIT

\* The chain is inserted before it is affiliated and given validators: when one
\* of the two fails the caller gets an error and the chain stays.
create_sidechain(owner, parent, mode, host, deposit) ==
    LET c == registry.next_chain_id
        inserted == [registry EXCEPT
            !.next_chain_id = c + 1,
            !.sidechains = (c :> NewSidechain(owner, parent, mode, deposit)) @@ @]
        full == mode = "Shared" /\ ~HasRoom(inserted, host)
        placed == IF mode = "Shared" /\ ~full THEN Affiliate(inserted, c, host)
                  ELSE inserted
    IN  /\ c <= MaxChains
        /\ mode = "Shared" => host \in DOMAIN registry.hostchains
        /\ deposit >= required_deposit(mode, host)
        /\ parent = NoChain \/ parent \in DOMAIN registry.sidechains
        /\ registry' = IF ~full /\ CanAssign(placed, c) THEN assign_validators(placed, c)
                       ELSE placed

create_hostchain ==
    /\ registry.next_chain_id <= MaxChains
    /\ registry' = [registry EXCEPT
           !.next_chain_id = @ + 1,
           !.hostchains = (registry.next_chain_id :>
                              [member_chains |-> {}, validator_pool |-> {}]) @@ @]

affiliate_sidechain(c, h) ==
    HasRoom(registry, h) /\ registry' = Affiliate(registry, c, h)


leave_host(c) ==
    /\ c \in DOMAIN registry.sidechain_to_host
    /\ registry' = Unaffiliate(registry, c)

add_validator_to_chain(c, v) ==
    /\ Sidechain(c).security_mode = "Sovereign"
    /\ Cardinality(Sidechain(c).validators) < MAX_VALIDATORS_PER_CHAIN
    /\ registry' = [registry EXCEPT !.sidechains[c].validators = @ \cup {v}]

remove_validator_from_chain(c, v) ==
    /\ Sidechain(c).security_mode = "Sovereign"
    /\ v \in Sidechain(c).validators
    /\ registry' = [registry EXCEPT !.sidechains[c].validators = @ \ {v}]

\* The affiliated chains get their validators in the order of a hash map, up to
\* the first for which assign_validators fails.
Reassign(r, order) ==
    FoldLeft(LAMBDA st, c : IF st.ok /\ CanAssign(st.r, c)
                            THEN [r |-> assign_validators(st.r, c), ok |-> TRUE]
                            ELSE [st EXCEPT !.ok = FALSE],
             [r |-> r, ok |-> TRUE], order).r

Affiliated(h) ==
    {c \in DOMAIN registry.sidechain_to_host : registry.sidechain_to_host[c] = h}

SetPool(h, pool) ==
    \E order \in SetToSeqs(Affiliated(h)) :
        registry' = Reassign([registry EXCEPT !.hostchains[h].validator_pool = pool], order)

add_validator_to_hostchain(h, v) ==
    /\ Cardinality(registry.hostchains[h].validator_pool) < MAX_VALIDATORS_PER_HOST
    /\ SetPool(h, registry.hostchains[h].validator_pool \cup {v})

remove_validator_from_hostchain(h, v) ==
    /\ v \in registry.hostchains[h].validator_pool
    /\ SetPool(h, registry.hostchains[h].validator_pool \ {v})

-----------------------------------------------------------------------------
(* The purge state machine.                                                *)

is_inactive(s) == SatSub(current_block, s.last_activity) > INACTIVITY_THRESHOLD

record_activity(c) ==
    registry' = [registry EXCEPT !.sidechains[c].last_activity = current_block]

\* The older purge, in one step and from any status.
Purge(r, c) == Unaffiliate([r EXCEPT !.sidechains[c].status = "Purged"], c)

purge_sidechain(c) ==
    is_inactive(Sidechain(c)) /\ registry' = Purge(registry, c)

PurgeCheckDue == current_block >= registry.last_purge_check + PURGE_CHECK_INTERVAL

auto_purge_inactive ==
    /\ PurgeCheckDue
    /\ registry' = FoldSet(
           LAMBDA c, r : IF r.sidechains[c].status = "Active" /\ is_inactive(r.sidechains[c])
                         THEN Purge(r, c) ELSE r,
           [registry EXCEPT !.last_purge_check = current_block],
           DOMAIN registry.sidechains)

check_purge_triggers(s) ==
    \/ is_inactive(s)
    \/ s.governance_failures >= GOVERNANCE_FAILURE_THRESHOLD
    \/ /\ s.validators # {}
       /\ s.slashed_validators_count * 100 >=
              Cardinality(s.validators) * VALIDATOR_FRAUD_THRESHOLD_PERCENT
    \/ s.diverged

Trigger(s) == [s EXCEPT !.status = "PendingPurge", !.purge_triggered_at = current_block]

trigger_purge(c) ==
    /\ Sidechain(c).status = "Active"
    /\ registry' = [registry EXCEPT !.sidechains[c] = Trigger(@)]

\* Mutant: the warning period is not waited for.
no_warning(s) == current_block >= s.purge_triggered_at

WarningOver(s) == current_block >= s.purge_triggered_at + PURGE_WARNING_PERIOD

Advanced(r, c) ==
    LET s == r.sidechains[c]
    IN  CASE s.status = "PendingPurge" /\ WarningOver(s) ->
                 [r EXCEPT !.sidechains[c].status = "Frozen",
                           !.sidechains[c].frozen_at = current_block]
          [] s.status = "Frozen" ->
                 [r EXCEPT !.sidechains[c].status = "Snapshot",
                           !.sidechains[c].has_snapshot_root = @ \/ s.has_verified_root]
          [] s.status = "Snapshot" ->
                 [r EXCEPT !.sidechains[c].status = "WithdrawalWindow",
                           !.sidechains[c].withdrawal_window_start = current_block]
          [] /\ s.status = "WithdrawalWindow"
             /\ current_block >= s.withdrawal_window_start + WITHDRAWAL_WINDOW_DURATION ->
                 Purge(r, c)
          [] OTHER -> r

advance_purge_state(c) == registry' = Advanced(registry, c)

\* Every active chain with a trigger is warned, then every chain goes through the
\* transitions that are due: at most five, after which nothing changes.
auto_purge_v3_1 ==
    LET warned(r, c) == IF r.sidechains[c].status = "Active"
                            /\ check_purge_triggers(r.sidechains[c])
                        THEN [r EXCEPT !.sidechains[c] = Trigger(@)] ELSE r
    IN  /\ PurgeCheckDue
        /\ registry' = FoldSet(
               LAMBDA c, r : FoldLeft(LAMBDA st, i : Advanced(st, c), warned(r, c),
                                      <<1, 2, 3, 4, 5>>),
               [registry EXCEPT !.last_purge_check = current_block],
               DOMAIN registry.sidechains)

record_governance_failure(c) ==
    /\ Sidechain(c).governance_failures < MaxCount
    /\ registry' = [registry EXCEPT !.sidechains[c].governance_failures = @ + 1]

reset_governance_failures(c) ==
    registry' = [registry EXCEPT !.sidechains[c].governance_failures = 0]

Slashed(s) == [s EXCEPT !.slashed_validators_count = @ + 1]

slash_validator(c) ==
    /\ Sidechain(c).slashed_validators_count < MaxCount
    /\ registry' = [registry EXCEPT !.sidechains[c] = Slashed(@)]

\* A proof that verifies, of fraud in a block of chain c.  The slashing stays even
\* if trigger_purge then fails because the chain is no longer active.
apply_fraud_proof(c, fraud_block) ==
    LET s == Slashed(Sidechain(c))
        fraud == /\ s.validators # {}
                 /\ (s.slashed_validators_count * 100) \div Cardinality(s.validators)
                        >= VALIDATOR_FRAUD_THRESHOLD_PERCENT
    IN  /\ s.slashed_validators_count <= MaxCount
        /\ current_block <= fraud_block + FRAUD_PROOF_VALIDITY_PERIOD
        /\ registry' = [registry EXCEPT !.sidechains[c] =
               IF fraud /\ s.status = "Active" THEN Trigger(s) ELSE s]

update_verified_state_root(c) ==
    registry' = [registry EXCEPT !.sidechains[c].has_verified_root = TRUE]

report_state_divergence(c, reporter) ==
    /\ \/ reporter \in Sidechain(c).validators
       \/ /\ Sidechain(c).parent # NoChain
          /\ reporter \in Sidechain(Sidechain(c).parent).validators
       \/ reporter = Sidechain(c).owner
    /\ registry' = [registry EXCEPT !.sidechains[c].diverged = TRUE]

set_snapshot_state_root(c) ==
    /\ Sidechain(c).status = "Snapshot"
    /\ registry' = [registry EXCEPT !.sidechains[c].has_snapshot_root = TRUE]

-----------------------------------------------------------------------------
(* Withdrawals: an account is recorded whichever way it takes.             *)

Withdraw(c, account) ==
    /\ account \notin Sidechain(c).withdrawn_accounts
    /\ registry' = [registry EXCEPT !.sidechains[c].withdrawn_accounts = @ \cup {account}]

withdraw_from_purged_chain(c, account) ==
    /\ Sidechain(c).status = "WithdrawalWindow"
    /\ account = Sidechain(c).owner
    /\ Withdraw(c, account)

withdraw_with_proof(c, account) ==
    /\ Sidechain(c).status = "WithdrawalWindow"
    /\ Sidechain(c).has_snapshot_root
    /\ Withdraw(c, account)

emergency_exit(c, account) == Withdraw(c, account)

SidechainsStep ==
    \/ \E owner \in Account, mode \in SecurityMode, deposit \in Deposits,
          parent \in {NoChain} \cup DOMAIN registry.sidechains,
          host \in {NoChain} \cup DOMAIN registry.hostchains :
              create_sidechain(owner, parent, mode, host, deposit)
    \/ create_hostchain
    \/ \E h \in DOMAIN registry.hostchains :
          \/ \E c \in DOMAIN registry.sidechains : affiliate_sidechain(c, h)
          \/ \E v \in Account : \/ add_validator_to_hostchain(h, v)
                                \/ remove_validator_from_hostchain(h, v)
    \/ auto_purge_inactive
    \/ auto_purge_v3_1
    \/ \E c \in DOMAIN registry.sidechains :
          \/ leave_host(c)
          \/ record_activity(c)
          \/ purge_sidechain(c)
          \/ trigger_purge(c)
          \/ advance_purge_state(c)
          \/ record_governance_failure(c)
          \/ reset_governance_failures(c)
          \/ slash_validator(c)
          \/ \E block \in 0..current_block : apply_fraud_proof(c, block)
          \/ update_verified_state_root(c)
          \/ set_snapshot_state_root(c)
          \/ \E a \in Account :
                \/ add_validator_to_chain(c, a)
                \/ remove_validator_from_chain(c, a)
                \/ report_state_divergence(c, a)
                \/ withdraw_from_purged_chain(c, a)
                \/ withdraw_with_proof(c, a)
                \/ emergency_exit(c, a)

-----------------------------------------------------------------------------
(* Properties.                                                             *)

SidechainInfo ==
    [parent : Nat, owner : Account, security_mode : SecurityMode,
     validators : SUBSET Account, status : ChainStatus, last_activity : Nat,
     deposit : Nat, purge_triggered_at : Nat \cup {NoBlock},
     frozen_at : Nat \cup {NoBlock}, withdrawal_window_start : Nat \cup {NoBlock},
     governance_failures : Nat, slashed_validators_count : Nat,
     has_verified_root : BOOLEAN, diverged : BOOLEAN, has_snapshot_root : BOOLEAN,
     withdrawn_accounts : SUBSET Account]

\* Chains and hosts keep their types and never share an identifier; a parent is
\* an older chain (create_sidechain), so inheritance has no cycle.
SidechainsTypeOK ==
    /\ \A c \in DOMAIN registry.sidechains :
          Sidechain(c) \in SidechainInfo /\ Sidechain(c).parent < c
    /\ \A h \in DOMAIN registry.hostchains :
          registry.hostchains[h] \in
              [member_chains : SUBSET DOMAIN registry.sidechains, validator_pool : SUBSET Account]
    /\ DOMAIN registry.sidechains \cap DOMAIN registry.hostchains = {}
    /\ DOMAIN registry.sidechain_to_host \subseteq DOMAIN registry.sidechains

\* affiliate_sidechain, leave_host and the purges: the host a chain is mapped to
\* counts it as a member, whichever hosts it joined and left before.
AffiliatedAreMembers ==
    \A c \in DOMAIN registry.sidechain_to_host :
        c \in registry.hostchains[registry.sidechain_to_host[c]].member_chains

\* add_validator_to_hostchain and remove_validator_from_hostchain ("Re-assign
\* validators to all affiliated sidechains"): a change of the pool reaches every
\* shared chain of the host in any order of the map, unless the host has a chain
\* whose assignment fails.
PoolReachesMembers ==
    [][\A h \in DOMAIN registry.hostchains :
          /\ registry'.hostchains[h].validator_pool # registry.hostchains[h].validator_pool
          /\ \A c \in Affiliated(h) : CanAssign(registry, c)
          => \A c \in Affiliated(h) : Sidechain(c).security_mode = "Shared" =>
                 registry'.sidechains[c].validators = registry'.hostchains[h].validator_pool
      ]_registry

\* advance_purge_state ("PendingPurge (30d) -> Frozen -> Snapshot ->
\* WithdrawalWindow (30d) -> Purged"): a chain that is purged was inactive for the
\* threshold, or had its warning and then its withdrawal window in full.
PurgedAfterWithdrawalWindow ==
    [][\A c \in DOMAIN registry.sidechains :
          LET s == registry'.sidechains[c]
          IN  s.status = "Purged" /\ Sidechain(c).status # "Purged" /\ ~is_inactive(s) =>
                  /\ s.frozen_at >= s.purge_triggered_at + PURGE_WARNING_PERIOD
                  /\ s.withdrawal_window_start >= s.frozen_at
                  /\ current_block >= s.withdrawal_window_start + WITHDRAWAL_WINDOW_DURATION
      ]_registry
=============================================================================
