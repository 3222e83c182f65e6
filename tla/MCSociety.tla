----------------------------- MODULE MCSociety -----------------------------
(***************************************************************************)
(* The contracts between chains, about the protocol itself and about       *)
(* people, one of them in a behaviour: messaging and arbitration,          *)
(* emergency and recovery, fork and ossification, meta-governance,         *)
(* identity, personhood, reputation, security and roles.                   *)
(***************************************************************************)
EXTENDS Messaging, Arbitration, Emergency, Fork, MetaGovernance, Identity,
        Personhood, Reputation, Security, Roles

CONSTANT Contracts      \* those a behaviour may be about

VARIABLE contract

Init ==
    /\ contract \in Contracts
    /\ current_block = 0
    /\ MessagingInit /\ ArbitrationInit
    /\ EmergencyInit /\ ForkInit /\ MetaInit /\ SecurityInit /\ ReputationInit /\ RolesInit
    /\ IdentityInit
    /\ contract # "identity" => identity.config = CHOOSE c \in AntiSybilConfig : TRUE
    /\ PersonhoodInit
    /\ contract # "personhood" => personhood.config = CHOOSE c \in PersonhoodConfig : TRUE

relationVars == <<messaging, court>>
emergencyVars == <<emergency, recovery>>
forkVars == <<fork, ossification, fork_power>>
personVars == <<identity, personhood, reputation>>
otherVars == <<meta, security>>
roleVars == <<roles, records>>

Next ==
    /\ UNCHANGED contract
    /\ \/ /\ UNCHANGED <<emergencyVars, forkVars, personVars, otherVars, roleVars, current_block>>
          /\ \/ contract = "messaging" /\ MessagingStep /\ UNCHANGED court
             \/ contract = "arbitration" /\ ArbitrationStep /\ UNCHANGED messaging
       \/ /\ UNCHANGED <<relationVars, forkVars, personVars, otherVars, roleVars, current_block>>
          /\ \/ contract = "emergency" /\ EmergencyStep /\ UNCHANGED recovery
             \/ contract = "recovery" /\ RecoveryStep /\ UNCHANGED emergency
       \/ /\ UNCHANGED <<relationVars, emergencyVars, personVars, otherVars, roleVars, current_block>>
          /\ \/ contract = "fork" /\ ForkStep /\ UNCHANGED ossification
             \/ contract = "ossification" /\ OssificationStep /\ UNCHANGED fork
       \/ /\ UNCHANGED <<relationVars, emergencyVars, forkVars, otherVars, roleVars, current_block>>
          /\ \/ contract = "identity" /\ IdentityStep /\ UNCHANGED <<personhood, reputation>>
             \/ /\ contract = "personhood" /\ (ChallengeStep \/ GraphStep)
                /\ UNCHANGED <<identity, reputation>>
             \/ contract = "reputation" /\ ReputationStep /\ UNCHANGED <<identity, personhood>>
       \/ /\ UNCHANGED <<relationVars, emergencyVars, forkVars, personVars, roleVars, current_block>>
          /\ \/ contract = "meta" /\ MetaStep /\ UNCHANGED security
             \/ contract = "security" /\ SecurityStep /\ UNCHANGED meta
       \/ /\ UNCHANGED <<relationVars, emergencyVars, forkVars, personVars, otherVars, current_block>>
          /\ contract = "roles"
          /\ \/ RolesStep /\ UNCHANGED records
             \/ RecordsStep /\ UNCHANGED roles
       \/ /\ UNCHANGED <<relationVars, emergencyVars, forkVars, personVars, otherVars, roleVars>>
          /\ Advance

Spec == Init /\ [][Next]_<<contract, current_block, relationVars, emergencyVars, forkVars,
                           personVars, otherVars, roleVars>>

\* The contracts keep their types, and the parts of their state that repeat each other
\* agree: the outboxes and inboxes and the messages sent and relayed, the totals of voting
\* power, the attestations and the pairs that forbid a second one, the snapshot of a fork
\* and the alignments recorded for it.
TypeOK ==
    /\ MessagingTypeOK /\ ArbitrationTypeOK
    /\ EmergencyTypeOK /\ ForkTypeOK /\ MetaTypeOK /\ IdentityTypeOK /\ PersonhoodTypeOK
    /\ ReputationTypeOK /\ SecurityTypeOK /\ RolesTypeOK

\* What a contract keeps twice agrees, whatever was called and restarted: the types above,
\* nonces and messages, disputes in memory and in the database, staked reputation and its
\* total, roles and their lists (send_message, persist_dispute, slash_stake,
\* resolve_dispute_jurors).
RecordsAgree ==
    TypeOK /\ NoncesNumberMessages /\ DisputesPersisted /\ StakedCoversStakes /\ RoleIndexesAgree



\* Emergencies are a cooldown apart, and the threat level follows the threats
\* (declare_automatic_emergency, calculate_threat_level).
AlarmsAreMeasured == EmergenciesAreApart /\ LevelFollowsThreats

-----------------------------------------------------------------------------
(* Constants.                                                              *)

MCSignals ==
    {[kind |-> "ConsensusStall", n |-> 10, of |-> 0],
     [kind |-> "StateRootDivergence", n |-> 3, of |-> 0]}
MCActions ==
    {[kind |-> "PauseBlockProduction", amount |-> 1], [kind |-> "IncreaseQuorum", amount |-> 90]}

MCMin == [n \in ParameterName |-> IF n \in {"StandardTimelock", "ExitTimelock"} THEN 1 ELSE 0]
MCMax == [n \in ParameterName |-> IF n = "FeeBurnRate" THEN 80 ELSE 3]
MCDefault == [n \in ParameterName |->
    IF n = "FeeBurnRate" THEN 50 ELSE IF n = "ExitTimelock" THEN 2 ELSE 1]
MCChanges ==
    {<<<<"FeeBurnRate", 40>>>>, <<<<"ExitTimelock", 1>>, <<"FeeBurnRate", 60>>>>}

MCHealth == {{}, {"has_frozen_assets"}, {"decay_active"}}

MCMaxPayment == [p \in TreasuryProgram |-> IF p = "BugBounty" THEN 2 ELSE 1]

-----------------------------------------------------------------------------
(* Bounds.                                                                 *)

\* One block for the contracts between chains.
BoundBlocks ==
    contract \in {"messaging", "arbitration"} =>
        current_block <= 1 /\ (Cardinality(DOMAIN court.db) > 1 => DOMAIN court.credits = Account)

\* After a restart validators register again once the disputes are loaded.  The
\* second dispute is raised when the first is decided and all are validators, and gets no
\* jury; the first is raised at the middle level.
OneDispute ==
    /\ DOMAIN court.disputes = DOMAIN court.db \/ court.validators = {}
    /\ Cardinality(DOMAIN court.db) > 1 =>
          /\ court.db[1].status \in {"Resolved", "Appealed"}
          /\ court.db[2].status # "Deliberating"
          /\ Len(court.db[1].evidence) = 1 /\ Len(court.db[2].evidence) = 1
          /\ court.validators \in {{}, Account}
    /\ 1 \in DOMAIN court.db =>
          /\ court.db[1].jurisdiction = 1
          /\ court.db[1].status # "Open" => Len(court.db[1].evidence) = 1

\* One state root is known, when there is one message.
OneRoot ==
    /\ Cardinality(DOMAIN messaging.known_state_roots) <= 1
    /\ messaging.known_state_roots # <<>> => Cardinality(DOMAIN messaging.messages) <= 1

\* The credits records are those of all accounts or of some.
SomeRecords ==
    IF contract = "arbitration" THEN DOMAIN court.credits # {} ELSE DOMAIN court.credits = Account

\* One emergency after another, the first of which expired or was resolved; votes, signals,
\* breakers and actions are taken one kind at a time, and only the breakers of one kind stay active.
BoundEmergency ==
    LET voted == emergency.state.declaring_validators # {}
        signalled == emergency.signals # <<>>
        acted == emergency.state.actions_taken # <<>>
        active == {id \in DOMAIN emergency.breakers : emergency.breakers[id].is_active}
    IN  /\ Len(emergency.signals) <= 2 /\ Len(emergency.state.actions_taken) <= 1
        /\ Len(emergency.history) <= 1
        /\ \A i \in DOMAIN emergency.history :
              /\ emergency.history[i].outcome \in {"Expired", "Resolved"}
              /\ emergency.history[i].actions = <<>>
        /\ active \subseteq {"state_mismatch"} \/ active \subseteq {"added"}
        /\ Cardinality({b \in {"v", "s", "a", "b"} :
               CASE b = "v" -> voted [] b = "s" -> signalled [] b = "a" -> acted
                 [] b = "b" -> active # {}}) <= 1

\* One fork, one chain aligned or one thing added to a snapshot; once it is
\* taken one account has power.
BoundFork ==
    /\ Cardinality(DOMAIN fork.proposals) + Len(fork.executed_forks) <= 1
    /\ \A id \in DOMAIN fork.proposals :
          LET f == fork.proposals[id]
          IN  /\ f.status # "Cancelled"
              /\ f.supporting_sidechains # {} =>
                    f.supporting_sidechains = Sidechain /\ f.supporting_stake = 0
    /\ fork.alignments # <<>> => fork.total_stake = 0
    /\ \A id \in DOMAIN fork.continuity : fork.total_stake = 0 /\ Cardinality(Validators) = 1
    /\ \A k \in DOMAIN fork.alignments : fork.alignments[k].alignment \in {"FollowA", "Undecided"}
    /\ \A k \in DOMAIN fork.alignments : k[2] = CHOOSE c \in Sidechain : TRUE
    /\ \A id \in DOMAIN fork.continuity :
          LET c == fork.continuity[id]
          IN  Cardinality(DOMAIN c.balances) + Cardinality(c.identities)
                  + Cardinality(c.reputations) <= IF fork.alignments = <<>> THEN 1 ELSE 0

BoundMeta == Len(meta.parameter_history) <= 2

\* One identity revoked, and an identity's score moves only alone.
BoundIdentity ==
    Cardinality(Declarers) > 1 => \A o \in Declarers : identity.identities[o].score = 0

\* Either the challenges or the social graph or the commitments or the scores are in use.
BoundPersonhood ==
    /\ Cardinality(DOMAIN personhood.challenges) <= 2
    /\ Cardinality(personhood.outgoing) <= 2
    /\ Cardinality(DOMAIN personhood.scores) <= 1
    /\ personhood.challenges # <<>> =>
          /\ personhood.outgoing = {} /\ personhood.commitments = <<>>
          /\ {id[1] : id \in DOMAIN personhood.challenges} \cup DOMAIN personhood.scores =
                 {CHOOSE i \in Identified : TRUE}
          /\ \A i \in DOMAIN personhood.scores :
                personhood.scores[i].longevity + personhood.scores[i].activity = 0
    /\ personhood.commitments # <<>> =>
          \A i \in DOMAIN personhood.scores :
             personhood.scores[i].longevity + personhood.scores[i].activity = 0
    /\ personhood.outgoing # {} =>
          /\ personhood.commitments = <<>>
          /\ \A i \in DOMAIN personhood.scores :
                personhood.scores[i].longevity + personhood.scores[i].activity = 0
    /\ \A i \in DOMAIN personhood.scores :
          LET s == personhood.scores[i]
          IN  Cardinality({p \in {"social", "challenge", "uniqueness", "longevity", "activity"} :
                              s[p] # 0}) <= 1

BoundReputation ==
    /\ Cardinality(DOMAIN reputation.stakes) <= 2
    /\ Cardinality(DOMAIN reputation.endorsements) <= 1
    /\ Cardinality(DOMAIN reputation.reputations) <= 1
    /\ reputation.stakes # <<>> =>
          reputation.endorsements = <<>> /\ reputation.cross_chain_imports = <<>>
    /\ Cardinality(DOMAIN reputation.cross_chain_imports) <= 1
    /\ Cardinality({id[2] : id \in DOMAIN reputation.stakes}) <= 1
    /\ reputation.reputations # <<>> => Cardinality(DOMAIN reputation.stakes) <= 1
    /\ \A i \in DOMAIN reputation.reputations :
          LET score == reputation.reputations[i]["Governance"].score
          IN  IF reputation.stakes = <<>> THEN score = 0 \/ score \in 390..410 ELSE score \in {0, 400}

\* Either threats, the later at least as severe, or snapshots, or audits, or reviews; flags
\* and assessments while there are few of them.
BoundSecurity ==
    LET t == security.active_threats
        threats == t # <<>> \/ security.threat_assessments # <<>>
        reviews == security.current_review_cycle # NoCycle \/ security.review_cycles # <<>>
        watched == {a \in Account : security.stake_history[a] # <<>> \/ security.vc_history[a] # <<>>}
        InUse == <<threats, reviews, watched # {}, security.audits # {}, security.health_checks # <<>>>>
    IN  /\ Cardinality({n \in DOMAIN InUse : InUse[n]}) <= 1
        /\ Len(t) <= 5 /\ \A m, n \in DOMAIN t : m < n => t[m].severity <= t[n].severity
        /\ Len(t) > 1 => security.wrong = {} /\ security.threat_assessments = <<>>
        /\ Len(security.health_checks) <= 1 /\ Cardinality(watched) <= 1
        /\ Len(security.review_cycles) <= 2

\* Roles given and taken twice, one registration, and an application or a claim while no
\* role is registered.
BoundRoles ==
    LET entries == MapThenSumSet(LAMBDA a : Len(roles.entries[a]), Account)
    IN  /\ entries <= 4
        /\ Cardinality(DOMAIN records.registrations) <= 1
        /\ records.registrations # <<>> => entries <= 1
        /\ Cardinality(DOMAIN records.applications) + Cardinality(DOMAIN records.claims) <= 1
        /\ records.applications # <<>> \/ records.claims # <<>> => entries = 0
        /\ \A id \in DOMAIN records.registrations : records.registrations[id].total_payments <= 1

Symmetry == Permutations(Account)
=============================================================================
