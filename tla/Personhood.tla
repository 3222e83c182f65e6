----------------------------- MODULE Personhood -----------------------------
(***************************************************************************)
(* PersonhoodRegistry (kratos-core/src/contracts/personhood.rs, types in   *)
(* types/personhood.rs): challenges to an identity, the social graph with  *)
(* its clusters, witnessed uniqueness and the score made of them.  The     *)
(* identity registry is an argument of the calls: whether it calls an      *)
(* identity active is an input, and an identity is its owner.  Of the type *)
(* of a challenge and of a response only whether the response fits and     *)
(* suffices is kept.                                                       *)
(***************************************************************************)
EXTENDS ContractBase

CONSTANTS
    Identified,                    \* the accounts with an identity
    CHALLENGE_PERIOD, MIN_CHALLENGE_INTERVAL, CHALLENGE_DEPOSIT,
    MAX_CHALLENGES_PER_IDENTITY,
    MIN_WITNESSES,                 \* 3, of a uniqueness commitment
    MIN_CLUSTER,                   \* 3 members
    YEAR,                          \* blocks
    Cooldowns,                     \* values of challenge_cooldown_multiplier
    ChallengeDeposits, ActionCounts, Ages

VARIABLE personhood

ChallengeStatus == {"Pending", "ResponseSubmitted", "Passed", "Failed", "Expired", "Cancelled"}

\* What a u32 holds that went below zero; any number this large has the same effect.
Wrapped == 2^30

NewScore ==
    [social |-> 0, challenge |-> 0, uniqueness |-> 0, longevity |-> 0, activity |-> 0,
     challenges_passed |-> 0, last_verified |-> 0]

PersonhoodConfig ==
    [challenges_enabled : BOOLEAN, social_analysis_enabled : BOOLEAN,
     challenge_cooldown_multiplier : Cooldowns]

PersonhoodInit ==
    \E config \in PersonhoodConfig :
        personhood = [challenges |-> <<>>, challenges_by_identity |-> [i \in Identified |-> <<>>],
                      last_challenge_time |-> [i \in Identified |-> NoBlock],
                      outgoing |-> {}, connectivity |-> <<>>, commitments |-> <<>>,
                      scores |-> <<>>, sybil_clusters |-> {}, config |-> config]

-----------------------------------------------------------------------------
(* Challenges.  Their identifier is what is hashed for it.                 *)

challenge_expired(id) == current_block > personhood.challenges[id].expires_at

issue_challenge(challenger, target, deposit, active) ==
    LET id == <<target, challenger, current_block>>
        last == personhood.last_challenge_time[target]
    IN  /\ personhood.config.challenges_enabled
        /\ active
        /\ last # NoBlock => current_block >= last + MIN_CHALLENGE_INTERVAL *
                                personhood.config.challenge_cooldown_multiplier
        /\ Len(personhood.challenges_by_identity[target]) < MAX_CHALLENGES_PER_IDENTITY
        /\ deposit >= CHALLENGE_DEPOSIT
        /\ personhood' = [personhood EXCEPT
               !.challenges = (id :> [target |-> target, challenger |-> challenger,
                                      expires_at |-> current_block + CHALLENGE_PERIOD,
                                      deposit |-> deposit, status |-> "Pending",
                                      sufficient |-> FALSE]) @@ @,
               !.challenges_by_identity[target] = Append(@, id),
               !.last_challenge_time[target] = current_block]

\* fits is validate_response, sufficient what verify_response will say.
respond_to_challenge(id, responder, fits, sufficient) ==
    LET c == personhood.challenges[id]
    IN  /\ responder = c.target
        /\ c.status = "Pending"
        /\ ~challenge_expired(id)
        /\ fits
        /\ personhood' = [personhood EXCEPT !.challenges[id].status = "ResponseSubmitted",
                                            !.challenges[id].sufficient = sufficient]

record_challenge_pass(s) ==
    [s EXCEPT !.challenges_passed = @ + 1,
              !.challenge = Min({(s.challenges_passed + 1) * 20, 200}),
              !.last_verified = current_block]

record_challenge_fail(s) == [s EXCEPT !.challenge = SatSub(@, 50)]

\* The score of a challenged identity, if it has one, after the resolution.
ScoresAfter(target, passed) ==
    IF target \notin DOMAIN personhood.scores THEN personhood.scores
    ELSE [personhood.scores EXCEPT ![target] =
             IF passed THEN record_challenge_pass(@) ELSE record_challenge_fail(@)]

\* The status is not looked at otherwise: once expired, a challenge that is resolved
\* or cancelled can be resolved again.
resolve_challenge(id) ==
    LET c == personhood.challenges[id]
        answered == c.status = "ResponseSubmitted"
        passed == answered /\ c.sufficient
    IN  /\ answered \/ challenge_expired(id)
        /\ personhood' = [personhood EXCEPT
               !.challenges[id].status = IF passed THEN "Passed"
                                         ELSE IF answered THEN "Failed" ELSE "Expired",
               !.scores = ScoresAfter(c.target, passed)]

cancel_challenge(id, canceller) ==
    /\ personhood.challenges[id].challenger = canceller
    /\ personhood.challenges[id].status = "Pending"
    /\ personhood' = [personhood EXCEPT !.challenges[id].status = "Cancelled"]

ChallengeStep ==
    \/ \E a \in Account, i \in Identified, d \in ChallengeDeposits, active \in BOOLEAN :
          issue_challenge(a, i, d, active)
    \/ \E id \in DOMAIN personhood.challenges :
          \/ \E a \in Identified, fits, sufficient \in BOOLEAN :
                respond_to_challenge(id, a, fits, sufficient)
          \/ resolve_challenge(id)
          \/ \E a \in Account : cancel_challenge(id, a)

-----------------------------------------------------------------------------
(* Social graph: outgoing holds a pair for each attestation recorded.      *)

Nodes == UNION {{e[1], e[2]} : e \in personhood.outgoing}

Incoming(n) == {m \in Nodes : <<m, n>> \in personhood.outgoing}

Outgoing(n) == {m \in Nodes : <<n, m>> \in personhood.outgoing}

connections(n) == Incoming(n) \cup Outgoing(n)

record_attestation(attester, target) ==
    personhood' = [personhood EXCEPT !.outgoing = @ \cup {<<attester, target>>}]

\* trust_depth is never set from its initial 255: the penalty is 50.
calculate_connectivity(n) ==
    LET count == Cardinality(connections(n))
        in == Cardinality(Incoming(n))
        out == Cardinality(Outgoing(n))
        ratio == IF in = 0 \/ out = 0 THEN 0 ELSE (Min({in, out}) * 100) \div Max({in, out})
        score == count * 10 + ratio \div 2 + (count * 100) \div Cardinality(Nodes) - 50
    IN  IF score < 0 THEN Wrapped ELSE score

\* What one search from n visits: the least set with n that is closed.
Component(n) ==
    CHOOSE S \in SUBSET Nodes :
        /\ n \in S /\ \A m \in S : connections(m) \subseteq S
        /\ \A T \in SUBSET S : n \in T /\ (\A m \in T : connections(m) \subseteq T) => T = S

\* Density and isolation; a cluster has no connections to the outside.
calculate_risk(members) ==
    LET k == Cardinality(members)
        edges == MapThenSumSet(LAMBDA m : Cardinality(connections(m)), members)
    IN  (edges * 50) \div (k * (k - 1)) + 30 + (IF k > 10 THEN 20 ELSE 0)

detect_sybil_clusters ==
    {[members |-> S, flagged |-> calculate_risk(S) > 70] :
        S \in {T \in {Component(n) : n \in Nodes} : Cardinality(T) >= MIN_CLUSTER}}

recalculate_social_graph ==
    LET connectivity == [n \in Nodes |-> calculate_connectivity(n)]
    IN  personhood' = [personhood EXCEPT
            !.connectivity = connectivity,
            !.scores = [i \in DOMAIN @ |->
                IF i \in Nodes THEN [@[i] EXCEPT !.social = Min({connectivity[i] \div 5, 200})]
                ELSE @[i]],
            !.sybil_clusters = IF personhood.config.social_analysis_enabled
                               THEN detect_sybil_clusters ELSE @]

-----------------------------------------------------------------------------
(* Uniqueness and the other parts of the score.                            *)

submit_uniqueness_commitment(i) ==
    /\ i \notin DOMAIN personhood.commitments
    /\ personhood' = [personhood EXCEPT !.commitments =
           (i :> [witnesses |-> {}, verified |-> FALSE]) @@ @]

witness_uniqueness(i, witness) ==
    LET all == personhood.commitments[i].witnesses \cup {witness}
        verified == Cardinality(all) >= MIN_WITNESSES
    IN  personhood' = [personhood EXCEPT
            !.commitments[i] = [witnesses |-> all, verified |-> verified],
            !.scores = IF verified /\ i \in DOMAIN @
                       THEN [@ EXCEPT ![i].uniqueness = 100 + Min({Cardinality(all) * 20, 100})]
                       ELSE @]

initialize_score(i) ==
    /\ i \notin DOMAIN personhood.scores
    /\ personhood' = [personhood EXCEPT !.scores = (i :> NewScore) @@ @]

record_activity(i, actions) ==
    personhood' = [personhood EXCEPT !.scores[i].activity = Min({actions * 10, 200})]

update_longevity(i, age) ==
    personhood' = [personhood EXCEPT !.scores[i].longevity = Min({(age * 200) \div YEAR, 200})]

GraphStep ==
    \/ \E a, t \in Identified : a # t /\ record_attestation(a, t)
    \/ recalculate_social_graph
    \/ \E i \in Identified : submit_uniqueness_commitment(i) \/ initialize_score(i)
    \/ \E i \in DOMAIN personhood.commitments, w \in Account : witness_uniqueness(i, w)
    \/ \E i \in DOMAIN personhood.scores :
          \/ \E n \in ActionCounts : record_activity(i, n)
          \/ \E age \in Ages : update_longevity(i, age)

-----------------------------------------------------------------------------
(* Properties.                                                             *)

\* The registry keeps its types: every challenge is in the list of its target, the
\* parts of a score stay within 200 (so the total within 1000), also when the
\* connectivity wraps, and no identity is in two clusters.
PersonhoodTypeOK ==
    /\ \A id \in DOMAIN personhood.challenges :
          /\ personhood.challenges[id].status \in ChallengeStatus
          /\ id \in Range(personhood.challenges_by_identity[personhood.challenges[id].target])
    /\ \A i \in DOMAIN personhood.scores :
          LET s == personhood.scores[i]
          IN  {s.social, s.challenge, s.uniqueness, s.longevity, s.activity} \subseteq 0..200
    /\ \A c, d \in personhood.sybil_clusters : c = d \/ c.members \cap d.members = {}

\* respond_to_challenge, resolve_challenge, cancel_challenge: a challenge answered in
\* time is decided by the answer, also when it is resolved long after its expiry, and
\* its challenger can no longer withdraw it.  (Without a cooldown a challenge issued again
\* in its own block has its identifier and replaces it.)
AnsweredIsJudged ==
    [][\A id \in DOMAIN personhood.challenges :
          LET c == personhood.challenges[id]
              next == personhood'.challenges[id]
              reissued == id[3] = current_block /\ next.status = "Pending"
          IN  c.status = "ResponseSubmitted" /\ next # c /\ ~reissued =>
                  next.status = IF c.sufficient THEN "Passed" ELSE "Failed"]_personhood
=============================================================================
