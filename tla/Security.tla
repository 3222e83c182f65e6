------------------------------ MODULE Security ------------------------------
(***************************************************************************)
(* SecurityContract (kratos-core/src/contracts/security.rs, types in       *)
(* types/security.rs): the health flags of the protocol, threats reported  *)
(* and resolved, their assessment, audits and review cycles.  A capture    *)
(* indicator is computed in floating point; its alert compares, scaled to  *)
(* integers, 30% of the growth of the share of stake plus 25% of that of   *)
(* credits with the threshold.  Recommendations are text.                  *)
(***************************************************************************)
EXTENDS ContractBase, SequencesExt

CONSTANTS
    Threats,                       \* the threat types that are reported
    HealthStates,                  \* the flags update_health_state is called with
    MAX_THREAT_HISTORY, MAX_STAKE_HISTORY,
    CAPTURE_ALERT_PERCENT,         \* capture_alert_threshold
    REVIEW_PERIOD_BLOCKS,
    Shares                         \* percentages of the total stake and credits

VARIABLE security

ThreatType ==
    {"ValidatorCartelization", "LongRangeAttack", "VrfGrinding", "ProposalSpam", "VoterApathy",
     "MajorityTyranny", "SybilAccumulation", "ReputationFarming", "CrossChainLaundering",
     "ZombieChains", "GovernanceCapture", "FederationAbuse", "EmergencyAbuse",
     "PermanentExceptionalState", "ForkSpam", "OssificationAbuse", "MinorityLockOut"}

ThreatSeverity == 0..3             \* Low, Medium, High, Critical

ThreatLevel == 0..4                \* Normal, Elevated, High, Critical, Existential

AuditType ==
    {"Cryptography", "EconomicSimulation", "GovernanceStress", "ForkSimulation", "EmergencyAbuse"}

\* The flags are named by what is wrong when they are in the set.
UnacceptableFailure ==
    {"has_frozen_assets", "emergency_duration_exceeded", "identity_exit_blocked",
     "ideological_enforcement"}

ProtocolInvariant ==
    {"exit_always_possible", "fork_without_slashing", "decay_active", "failures_contained",
     "emergency_duration_exceeded", "exit_possible_when_ossified"}

ReviewPart == {"axiom_review", "fork_consideration", "ossification_review"}

NoCycle == [cycle |-> 0, complete |-> {}, next_review_due |-> 0]

SecurityInit ==
    security = [wrong |-> {}, threat_assessments |-> <<>>, alerts |-> {},
                stake_history |-> [a \in Account |-> <<>>], vc_history |-> [a \in Account |-> <<>>],
                audits |-> {}, review_cycles |-> <<>>, current_review_cycle |-> NoCycle,
                active_threats |-> <<>>, health_checks |-> <<>>]

-----------------------------------------------------------------------------
(* Health.                                                                 *)

check_unacceptable_failures == security.wrong \cap UnacceptableFailure

check_all_invariants == security.wrong \cap ProtocolInvariant

is_healthy == check_all_invariants = {} /\ check_unacceptable_failures = {}

update_health_state(wrong) == security' = [security EXCEPT !.wrong = wrong]

\* The events of a check: passed, or failed with the invariants that do not hold,
\* after one event for each of them.
run_health_check ==
    security' = [security EXCEPT !.health_checks =
        Append(@, [healthy |-> is_healthy, failed |-> check_all_invariants])]

-----------------------------------------------------------------------------
(* Capture indicators.                                                     *)

\* The latest MAX_STAKE_HISTORY snapshots.
Snapshot(history, value) ==
    IF Len(history) + 1 > MAX_STAKE_HISTORY THEN Tail(Append(history, value))
    ELSE Append(history, value)

record_stake_snapshot(a, share) ==
    security' = [security EXCEPT !.stake_history[a] = Snapshot(@, share)]

record_vc_snapshot(a, share) ==
    security' = [security EXCEPT !.vc_history[a] = Snapshot(@, share)]

is_alert(stake_rate, vc_rate) == 30 * stake_rate + 25 * vc_rate > 100 * CAPTURE_ALERT_PERCENT

calculate_capture_indicator(a, stake, vc) ==
    LET stakes == security.stake_history[a]
        vcs == security.vc_history[a]
    IN  /\ Len(stakes) >= 2 /\ Len(vcs) >= 2
        /\ security' = [security EXCEPT !.alerts =
               IF is_alert(SatSub(stake, Head(stakes)), SatSub(vc, Head(vcs)))
               THEN @ \cup {a} ELSE @ \ {a}]

-----------------------------------------------------------------------------
(* Threats.                                                                *)

report_threat(type, severity) ==
    security' = [security EXCEPT !.active_threats = Append(@, [type |-> type, severity |-> severity])]

resolve_threat(type) ==
    /\ \E t \in Range(security.active_threats) : t.type = type
    /\ security' = [security EXCEPT !.active_threats = SelectSeq(@, LAMBDA t : t.type # type)]

calculate_threat_level(threats) ==
    LET worst == Max({0} \cup {t.severity : t \in Range(threats)})
        count == Len(threats)
    IN  CASE check_unacceptable_failures # {} -> 4
          [] worst = 3 \/ count > 5 -> 3
          [] worst = 2 \/ count > 3 -> 2
          [] worst = 1 \/ count > 1 -> 1
          [] OTHER -> 0

create_threat_assessment ==
    LET all == Append(security.threat_assessments,
                      [level |-> calculate_threat_level(security.active_threats), wrong |-> security.wrong,
                       threats |-> security.active_threats, alerts |-> security.alerts])
    IN  security' = [security EXCEPT !.threat_assessments =
            IF Len(all) > MAX_THREAT_HISTORY THEN Tail(all) ELSE all]

-----------------------------------------------------------------------------
(* Audits and reviews.                                                     *)

\* Of the records of a type only whether one passed matters.
record_audit(type, passed) ==
    security' = [security EXCEPT !.audits = IF passed THEN @ \cup {type} ELSE @]

all_audits_complete == security.audits = AuditType

\* Starting again drops a cycle that is not complete.
start_review_cycle ==
    security' = [security EXCEPT !.current_review_cycle =
        [cycle |-> Len(security.review_cycles) + 1, complete |-> {},
         next_review_due |-> current_block + REVIEW_PERIOD_BLOCKS]]

complete_review_part(part) ==
    LET cycle == [security.current_review_cycle EXCEPT !.complete = @ \cup {part}]
    IN  /\ security.current_review_cycle # NoCycle
        /\ security' =
               IF cycle.complete = ReviewPart
               THEN [security EXCEPT !.current_review_cycle = NoCycle,
                                     !.review_cycles = Append(@, cycle)]
               ELSE [security EXCEPT !.current_review_cycle = cycle]

is_review_due ==
    IF security.review_cycles = <<>> THEN current_block > REVIEW_PERIOD_BLOCKS
    ELSE current_block >= Last(security.review_cycles).next_review_due

SecurityStep ==
    \/ \E wrong \in HealthStates : update_health_state(wrong)
    \/ run_health_check
    \/ \E a \in Account, s \in Shares : record_stake_snapshot(a, s) \/ record_vc_snapshot(a, s)
    \/ \E a \in Account, s, v \in Shares : calculate_capture_indicator(a, s, v)
    \/ \E t \in Threats, s \in ThreatSeverity : report_threat(t, s)
    \/ \E t \in Threats : resolve_threat(t)
    \/ create_threat_assessment
    \/ \E t \in AuditType, passed \in BOOLEAN : record_audit(t, passed)
    \/ start_review_cycle
    \/ \E part \in ReviewPart : complete_review_part(part)

-----------------------------------------------------------------------------
(* Properties.                                                             *)

\* The histories stay within their limits, an assessment's level is one, and the
\* completed review cycles are complete and numbered from one without gaps
\* (check_cycle_completion), also when cycles are started over.
SecurityTypeOK ==
    /\ security.wrong \subseteq UnacceptableFailure \cup ProtocolInvariant
    /\ \A t \in Range(security.active_threats) : t.type \in ThreatType
    /\ Len(security.threat_assessments) <= MAX_THREAT_HISTORY
    /\ \A a \in Account : Len(security.stake_history[a]) <= MAX_STAKE_HISTORY
    /\ \A n \in DOMAIN security.review_cycles :
          security.review_cycles[n].cycle = n /\ security.review_cycles[n].complete = ReviewPart

\* calculate_threat_level: whatever was reported before, a threat reported since has not
\* lowered the level, and resolving any type of threat does not raise it.
LevelFollowsThreats ==
    LET now == security.active_threats
        level == calculate_threat_level(now)
    IN  /\ \A n \in 0..Len(now) : calculate_threat_level(SubSeq(now, 1, n)) <= level
        /\ \A type \in ThreatType :
              calculate_threat_level(SelectSeq(now, LAMBDA t : t.type # type)) <= level
=============================================================================
