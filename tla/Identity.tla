------------------------------ MODULE Identity ------------------------------
(***************************************************************************)
(* IdentityRegistry (kratos-core/src/contracts/identity.rs, types in       *)
(* types/identity.rs): identities are declared, attested by others, become *)
(* active, expire, are renewed and revoked.  An owner declares at most one *)
(* identity, ever, so an identity is its owner.  The counters that are     *)
(* never read (governance_actions, slash_count...) are left out.           *)
(***************************************************************************)
EXTENDS ContractBase

CONSTANTS
    DEFAULT_IDENTITY_EXPIRY, ATTESTATION_EXPIRY, MAX_ATTESTATIONS,
    REPUTATION_DECAY_INTERVAL, REPUTATION_DECAY_PERCENT, MAX_REPUTATION,
    REPUTATION_POINTS_GOVERNANCE, REPUTATION_POINTS_ARBITRATION,
    REPUTATION_POINTS_ATTESTATION,
    MinAttestations,   \* the values of config.min_attestations
    Penalties          \* percentages of slash_reputation

VARIABLE identity

IdentityStatus == {"Declared", "Attested", "Active", "Expired", "Revoked"}

AntiSybilConfig == [min_attestations : MinAttestations, enable_reputation_decay : BOOLEAN]

NewIdentity ==
    [expires_at |-> current_block + DEFAULT_IDENTITY_EXPIRY, status |-> "Declared",
     score |-> 0, last_activity |-> current_block]

IdentityInit ==
    \E config \in AntiSybilConfig :
        identity = [identities |-> <<>>, attestations |-> <<>>, attestation_pairs |-> {},
                    config |-> config, active_count |-> 0]

Declarers == DOMAIN identity.identities

identity_expired(i) == current_block > i.expires_at

identity_active(i) == i.status = "Active" /\ ~identity_expired(i)

can_receive_attestations(i) == i.status \in {"Declared", "Attested", "Active"}

calculate_attestation_weight(score) == Min({score \div 1000 + 1, 10})

AddReputation(score, points) == Min({score + points, MAX_REPUTATION})

attestation_active(a) == a.is_valid /\ current_block <= a.expires_at

count_valid_attestations(attestations) == Cardinality({a \in attestations : attestation_active(a)})

-----------------------------------------------------------------------------

update_config(config) == identity' = [identity EXCEPT !.config = config]

declare_identity(owner) ==
    /\ owner \notin Declarers
    /\ identity' = [identity EXCEPT !.identities = (owner :> NewIdentity) @@ @,
                                    !.attestations = (owner :> {}) @@ @]

\* The first attestation makes an identity attested, even where it would suffice to
\* make it active.
maybe_activate_identity(i, count) ==
    CASE i.status = "Declared" /\ count > 0 -> "Attested"
      [] i.status \in {"Declared", "Attested"} /\ ~(i.status = "Declared" /\ count > 0)
            /\ count >= identity.config.min_attestations -> "Active"
      [] OTHER -> i.status

submit_attestation(attester, target) ==
    LET all == identity.attestations[target] \cup
               {[attester |-> attester,
                 weight |-> calculate_attestation_weight(identity.identities[attester].score),
                 attested_at |-> current_block,
                 expires_at |-> current_block + ATTESTATION_EXPIRY, is_valid |-> TRUE]}
        i == identity.identities[target]
        status == maybe_activate_identity(i, count_valid_attestations(all))
    IN  /\ attester \in Declarers
        /\ identity_active(identity.identities[attester])
        /\ attester # target
        /\ can_receive_attestations(i)
        /\ <<attester, target>> \notin identity.attestation_pairs
        /\ Cardinality(identity.attestations[target]) < MAX_ATTESTATIONS
        /\ identity' = [identity EXCEPT
               !.attestations[target] = all,
               !.attestation_pairs = @ \cup {<<attester, target>>},
               !.identities[attester].score = AddReputation(@, REPUTATION_POINTS_ATTESTATION),
               !.identities[target].status = status,
               !.active_count = IF status = "Active" /\ i.status # "Active" THEN @ + 1 ELSE @]

\* An identity that becomes active again is not counted.
renew_identity(owner) ==
    LET i == identity.identities[owner]
        count == count_valid_attestations(identity.attestations[owner])
        again == IF count >= identity.config.min_attestations THEN "Active"
                 ELSE IF count > 0 THEN "Attested" ELSE "Declared"
    IN  /\ i.status # "Revoked"
        /\ identity' = [identity EXCEPT
               !.identities[owner].expires_at = current_block + DEFAULT_IDENTITY_EXPIRY,
               !.identities[owner].status = IF @ = "Expired" THEN again ELSE @]

\* The count once the identities in left are no longer active.
CountWithout(left) ==
    SatSub(identity.active_count,
           Cardinality({o \in left : identity.identities[o].status = "Active"}))

Revoked(owner) ==
    [identity EXCEPT !.identities[owner].status = "Revoked",
                     !.active_count = CountWithout({owner})]

revoke_own_identity(owner) ==
    /\ identity.identities[owner].status # "Revoked"
    /\ identity' = Revoked(owner)

invalidate_attestations_from(attester) ==
    [target \in DOMAIN identity.attestations |->
        {IF a.attester = attester THEN [a EXCEPT !.is_valid = FALSE] ELSE a :
            a \in identity.attestations[target]}]

force_revoke_identity(owner) ==
    /\ identity.identities[owner].status # "Revoked"
    /\ identity' = [Revoked(owner) EXCEPT
           !.attestations = invalidate_attestations_from(owner)]

process_expirations ==
    LET Status(o) == identity.identities[o].status
        expired == {o \in Declarers : /\ identity_expired(identity.identities[o])
                                      /\ Status(o) \notin {"Expired", "Revoked"}}
        downgraded == {o \in Declarers \ expired :
                          /\ Status(o) = "Active"
                          /\ count_valid_attestations(identity.attestations[o]) = 0}
    IN  identity' = [identity EXCEPT
            !.identities = [o \in Declarers |->
                [@[o] EXCEPT !.status = IF o \in expired THEN "Expired"
                                        ELSE IF o \in downgraded THEN "Attested" ELSE @]],
            !.active_count = CountWithout(expired \cup downgraded)]

\* record_governance_participation and record_arbitration_participation.
record_participation(owner, points) ==
    identity' = [identity EXCEPT
        !.identities[owner].score = AddReputation(@, points),
        !.identities[owner].last_activity = current_block]

slash_reputation(owner, percent) ==
    identity' = [identity EXCEPT
        !.identities[owner].score = SatSub(@, (@ * percent) \div 100)]

apply_decay(i) ==
    LET periods == (current_block - i.last_activity) \div REPUTATION_DECAY_INTERVAL
    IN  IF periods = 0 THEN i
        ELSE [i EXCEPT
                 !.score = SatSub(@, (@ * periods * REPUTATION_DECAY_PERCENT) \div 100),
                 !.last_activity = current_block]

apply_reputation_decay ==
    /\ identity.config.enable_reputation_decay
    /\ identity' = [identity EXCEPT !.identities = [o \in DOMAIN @ |->
           IF @[o].status = "Active" THEN apply_decay(@[o]) ELSE @[o]]]

IdentityStep ==
    \/ \E config \in AntiSybilConfig : update_config(config)
    \/ \E owner \in Account : declare_identity(owner)
    \/ \E owner \in Declarers :
          \/ \E attester \in Account : submit_attestation(attester, owner)
          \/ renew_identity(owner)
          \/ revoke_own_identity(owner)
          \/ force_revoke_identity(owner)
          \/ \E points \in {REPUTATION_POINTS_GOVERNANCE, REPUTATION_POINTS_ARBITRATION} :
                record_participation(owner, points)
          \/ \E percent \in Penalties : slash_reputation(owner, percent)
    \/ process_expirations
    \/ apply_reputation_decay

-----------------------------------------------------------------------------
(* Properties.                                                             *)

\* The registry keeps its types; the pairs that forbid a second attestation are the
\* attestations given (submit_attestation), and active_count, which renew_identity
\* does not raise, never exceeds the identities that are active.
IdentityTypeOK ==
    /\ DOMAIN identity.attestations = Declarers
    /\ \A o \in Declarers :
          /\ identity.identities[o].status \in IdentityStatus
          /\ identity.identities[o].score \in 0..MAX_REPUTATION
          /\ Cardinality({a.attester : a \in identity.attestations[o]}) =
                 Cardinality(identity.attestations[o])
    /\ identity.attestation_pairs =
          UNION {{<<a.attester, o>> : a \in identity.attestations[o]} : o \in Declarers}
    /\ identity.active_count <=
          Cardinality({o \in Declarers : identity.identities[o].status = "Active"})

\* revoke_own_identity, force_revoke_identity: a revocation is final.  No renewal,
\* attestation or expiry brings the identity back, its owner gets no other one, and
\* an attestation once invalidated does not count again for the one it was given to.
RevocationIsFinal ==
    [][\A o \in Declarers :
          /\ identity.identities[o].status = "Revoked" =>
                /\ o \in DOMAIN identity'.identities
                /\ identity'.identities[o].status = "Revoked"
                /\ \A t \in Declarers : \A a \in identity'.attestations[t] :
                      a.attester = o => a \in identity.attestations[t]
          /\ \A a \in identity.attestations[o] :
                ~a.is_valid => a \in identity'.attestations[o]]_identity
=============================================================================
