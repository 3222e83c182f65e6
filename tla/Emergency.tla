----------------------------- MODULE Emergency -----------------------------
(***************************************************************************)
(* EmergencyContract (kratos-core/src/contracts/emergency.rs, types in     *)
(* types/emergency.rs): votes and failure signals declare an emergency,    *)
(* circuit breakers trip and reset, a recovery goes through its steps.     *)
(* A signal is its kind and its numbers; descriptions and hashes are left  *)
(* out.  The recovery and the checkpoints are a variable of their own: no  *)
(* method looks at both.                                                   *)
(***************************************************************************)
EXTENDS ContractBase

CONSTANTS
    EMERGENCY_APPROVAL_THRESHOLD,  \* 75
    EMERGENCY_MAX_DURATION, EMERGENCY_COOLDOWN,
    MIN_SIGNALS_FOR_EMERGENCY,     \* 2
    MIN_SEVERITY_FOR_EMERGENCY,    \* 15
    SIGNAL_WINDOW,                 \* blocks a signal counts, 1000
    SIGNAL_RETENTION,              \* blocks a signal is kept, 10_000
    DEFAULT_BREAKER_DURATION, MAX_ACTIVE_BREAKERS,
    CHECKPOINT_INTERVAL, MAX_CHECKPOINTS, MAX_PHASES,
    EmergencyPowers,               \* the voting powers given
    Signals,                       \* the signals reported
    Actions,                       \* the actions tried
    Required                       \* the numbers of confirmations asked for

VARIABLES emergency, recovery

EmergencyTrigger ==
    {"ValidatorVote", "ConsensusFailure", "CriticalBug", "MultipleSignals",
     "CircuitBreakerTriggered"}

EmergencyOutcome == {"Expired", "Resolved", "Recovery", "Fork"}

EmergencyAction ==
    {"PauseBlockProduction", "FreezeGovernance", "TightenParameters", "HaltSlashing",
     "HaltSidechainCreation", "ExtendTimelocks", "IncreaseQuorum"}

FailureSignal ==
    {"ConsensusStall", "ValidatorMassOffline", "GovernanceQuorumFailure",
     "NetworkPartition", "StateRootDivergence", "EconomicAnomaly", "SlashingSpike"}

BreakerCondition ==
    {"FinalityDelay", "ValidatorParticipation", "StateRootMismatch", "NetworkPartition",
     "SlashingSpike", "GovernanceDeadlock"}

BreakerAction ==
    {"SlowBlockTime", "IncreaseConfirmations", "SuspendRiskyOperations", "ExtendTimelocks",
     "RaiseQuorum", "TriggerEmergency"}

\* Of the values that code compares with x, that of the first bound x exceeds.
Graded(x, bounds, values) ==
    LET above == {i \in 1..Len(bounds) : x > bounds[i]}
    IN  IF above = {} THEN values[Len(values)] ELSE values[Min(above)]

\* s.n is what the signal counts, s.of what it is counted of.
severity(s) ==
    CASE s.kind = "ConsensusStall" -> Graded(s.n, <<10, 5, 2>>, <<10, 8, 5, 3>>)
      [] s.kind = "ValidatorMassOffline" ->
            Graded((s.n * 100) \div Max({s.of, 1}), <<50, 33, 20>>, <<10, 8, 5, 3>>)
      [] s.kind = "GovernanceQuorumFailure" -> Graded(s.n, <<4, 2>>, <<7, 5, 3>>)
      [] s.kind = "NetworkPartition" -> Graded(s.n, <<2>>, <<9, 7>>)
      [] s.kind = "StateRootDivergence" -> Graded(s.n, <<3, 1>>, <<10, 8, 6>>)
      [] s.kind = "EconomicAnomaly" -> s.n
      [] s.kind = "SlashingSpike" -> Graded(s.n \div Max({s.of, 1}), <<10, 5>>, <<8, 6, 4>>)

signal_matches_condition(s, b) ==
    \/ s.kind = "ConsensusStall" /\ b.condition = "FinalityDelay" /\ s.n >= b.limit
    \/ /\ s.kind = "ValidatorMassOffline" /\ b.condition = "ValidatorParticipation"
       /\ 100 - (s.n * 100) \div Max({s.of, 1}) < b.limit
    \/ s.kind = "StateRootDivergence" /\ b.condition = "StateRootMismatch"
    \/ s.kind = "SlashingSpike" /\ b.condition = "SlashingSpike" /\ s.n > b.limit
    \/ /\ s.kind = "GovernanceQuorumFailure" /\ b.condition = "GovernanceDeadlock"
       /\ s.n >= b.limit

CircuitBreaker ==
    [condition : BreakerCondition, limit : Nat, action : BreakerAction, duration : Nat,
     is_active : BOOLEAN, triggered_at : Nat \cup {NoBlock}, enabled : BOOLEAN]

NewBreaker(condition, limit, action, duration) ==
    [condition |-> condition, limit |-> limit, action |-> action, duration |-> duration,
     is_active |-> FALSE, triggered_at |-> NoBlock, enabled |-> TRUE]

register_default_breakers ==
    LET D == DEFAULT_BREAKER_DURATION
    IN  [finality_delay |-> NewBreaker("FinalityDelay", 3, "SlowBlockTime", D),
         validator_participation |->
             NewBreaker("ValidatorParticipation", 50, "ExtendTimelocks", D),
         state_mismatch |-> NewBreaker("StateRootMismatch", 0, "TriggerEmergency", D * 2),
         slashing_spike |-> NewBreaker("SlashingSpike", 10, "SuspendRiskyOperations", D),
         governance_deadlock |-> NewBreaker("GovernanceDeadlock", 3, "RaiseQuorum", D)]

NewEmergencyState(total) ==
    [active |-> FALSE, declared_at |-> NoBlock, trigger |-> "None", expires_at |-> NoBlock,
     actions_taken |-> <<>>, declaring_validators |-> {}, approval_power |-> 0,
     total_power |-> total]

NoRecovery == [current_step |-> "None"]

EmergencyInit ==
    /\ emergency = [state |-> NewEmergencyState(0), breakers |-> register_default_breakers,
                    signals |-> <<>>, voting_power |-> [a \in Account |-> 0],
                    last_emergency_ended |-> NoBlock, history |-> <<>>]
    /\ recovery = [process |-> NoRecovery, checkpoints |-> <<>>]

-----------------------------------------------------------------------------
(* Declaring and ending an emergency.                                      *)

TotalPower(power) == MapThenSumSet(LAMBDA a : power[a], Account)

set_emergency_power(validator, power) ==
    LET powers == [emergency.voting_power EXCEPT ![validator] = power]
    IN  emergency' = [emergency EXCEPT !.voting_power = powers,
                                       !.state.total_power = TotalPower(powers)]

approval_percent(s) ==
    IF s.total_power = 0 THEN 0 ELSE ((s.approval_power * 100) \div s.total_power) % 256

InCooldown ==
    /\ emergency.last_emergency_ended # NoBlock
    /\ current_block < emergency.last_emergency_ended + EMERGENCY_COOLDOWN

\* The effect on the contract e; e.state is not active.
declare_emergency(e, trigger) ==
    [e EXCEPT !.state.active = TRUE,
              !.state.declared_at = current_block,
              !.state.trigger = trigger,
              !.state.expires_at = current_block + EMERGENCY_MAX_DURATION]

CanDeclareAutomatically(e) == ~e.state.active /\ ~InCooldown

\* A vote against is not recorded, and may be repeated or followed by a vote for.
vote_emergency(voter, approve) ==
    LET s == emergency.state
        power == emergency.voting_power[voter]
        voted == IF approve
                 THEN [emergency EXCEPT !.state.declaring_validators = @ \cup {voter},
                                        !.state.approval_power = @ + power]
                 ELSE emergency
    IN  /\ ~InCooldown
        /\ ~s.active
        /\ power # 0
        /\ voter \notin s.declaring_validators
        /\ emergency' =
              IF approval_percent(voted.state) >= EMERGENCY_APPROVAL_THRESHOLD
              THEN declare_emergency(voted, "ValidatorVote") ELSE voted

\* Mutant: the cooldown is not looked at.
declare_in_cooldown(trigger) ==
    /\ ~emergency.state.active
    /\ emergency' = declare_emergency(emergency, trigger)

declare_automatic_emergency(trigger) ==
    /\ CanDeclareAutomatically(emergency)
    /\ emergency' = declare_emergency(emergency, trigger)

validate_action(a) ==
    /\ a.kind = "PauseBlockProduction" => a.amount <= EMERGENCY_MAX_DURATION
    /\ a.kind = "IncreaseQuorum" => a.amount <= 80

take_action(a) ==
    /\ emergency.state.active
    /\ validate_action(a)
    /\ emergency' = [emergency EXCEPT !.state.actions_taken = Append(@, a)]

end_emergency(outcome) ==
    LET s == emergency.state
    IN  /\ s.active
        /\ emergency' = [emergency EXCEPT
               !.history = Append(@, [declared_at |-> s.declared_at,
                   ended_at |-> current_block, trigger |-> s.trigger,
                   actions |-> s.actions_taken, outcome |-> outcome]),
               !.state = NewEmergencyState(TotalPower(emergency.voting_power)),
               !.last_emergency_ended = current_block]

check_expiration ==
    /\ emergency.state.expires_at # NoBlock
    /\ current_block >= emergency.state.expires_at
    /\ end_emergency("Expired")

-----------------------------------------------------------------------------
(* Circuit breakers and failure signals.                                   *)

register_breaker(id, breaker) ==
    /\ Cardinality(DOMAIN emergency.breakers) < MAX_ACTIVE_BREAKERS
    /\ emergency' = [emergency EXCEPT !.breakers = (id :> breaker) @@ @]

\* The contract e once the breakers in ids are triggered.
Triggered(e, ids) ==
    LET e1 == [e EXCEPT !.breakers = [id \in DOMAIN @ |->
                  IF id \in ids
                  THEN [@[id] EXCEPT !.is_active = TRUE, !.triggered_at = current_block]
                  ELSE @[id]]]
    IN  IF /\ \E id \in ids : e.breakers[id].action = "TriggerEmergency"
           /\ CanDeclareAutomatically(e)
        THEN declare_emergency(e1, "CircuitBreakerTriggered") ELSE e1

trigger_breaker(id) ==
    /\ emergency.breakers[id].enabled
    /\ ~emergency.breakers[id].is_active
    /\ emergency' = Triggered(emergency, {id})

BreakersReset(ids) ==
    [emergency EXCEPT !.breakers = [id \in DOMAIN @ |->
        IF id \in ids THEN [@[id] EXCEPT !.is_active = FALSE, !.triggered_at = NoBlock]
        ELSE @[id]]]

reset_breaker(id) == emergency' = BreakersReset({id})

check_breaker_expirations ==
    emergency' = BreakersReset({id \in DOMAIN emergency.breakers :
        LET b == emergency.breakers[id]
        IN  b.is_active /\ current_block >= b.triggered_at + b.duration})

\* Signals are pairs of a block and a signal; severities are added as u8.
SignalsSuffice(signals) ==
    LET recent == {i \in 1..Len(signals) : current_block - signals[i][1] < SIGNAL_WINDOW}
    IN  /\ Cardinality(recent) >= MIN_SIGNALS_FOR_EMERGENCY
        /\ MapThenSumSet(LAMBDA i : severity(signals[i][2]), recent) % 256
               >= MIN_SEVERITY_FOR_EMERGENCY

\* In the cooldown an emergency that the signals would declare is an error, which
\* returns before the breakers are looked at.
report_signal(s) ==
    LET e == [emergency EXCEPT !.signals = Append(@, <<current_block, s>>)]
        auto == ~e.state.active /\ SignalsSuffice(e.signals)
        matching == {id \in DOMAIN e.breakers :
                        /\ e.breakers[id].enabled /\ ~e.breakers[id].is_active
                        /\ signal_matches_condition(s, e.breakers[id])}
    IN  emergency' =
            IF auto /\ InCooldown THEN e
            ELSE Triggered(IF auto THEN declare_emergency(e, "MultipleSignals") ELSE e,
                           matching)

prune_signals ==
    emergency' = [emergency EXCEPT !.signals =
        SelectSeq(@, LAMBDA s : current_block - s[1] < SIGNAL_RETENTION)]

EmergencyStep ==
    \/ \E a \in Account, power \in EmergencyPowers : set_emergency_power(a, power)
    \/ \E a \in Account, approve \in BOOLEAN : vote_emergency(a, approve)
    \/ \E t \in {"ConsensusFailure", "CriticalBug"} : declare_automatic_emergency(t)
    \/ \E a \in Actions : take_action(a)
    \/ \E outcome \in EmergencyOutcome \ {"Expired"} : end_emergency(outcome)
    \/ check_expiration
    \/ \E enabled \in BOOLEAN :
          register_breaker("added",
              [NewBreaker("StateRootMismatch", 0, "TriggerEmergency", DEFAULT_BREAKER_DURATION)
                  EXCEPT !.enabled = enabled])
    \/ \E id \in DOMAIN emergency.breakers : trigger_breaker(id) \/ reset_breaker(id)
    \/ check_breaker_expirations
    \/ \E s \in Signals : report_signal(s)
    \/ prune_signals

-----------------------------------------------------------------------------
(* Recovery and checkpoints.                                               *)

RecoveryStepName ==
    {"Halt", "StateAudit", "ValidatorReconfirmation", "ForkDecision", "GradualRestart"}

\* A target that is not a checkpoint gives a recovery without one.
start_recovery(target, required) ==
    LET c == recovery.checkpoints
        chosen == IF target = NoBlock THEN IF c = <<>> THEN NoBlock ELSE c[Len(c)]
                  ELSE IF target \in Range(c) THEN target ELSE NoBlock
    IN  /\ recovery.process = NoRecovery
        /\ recovery' = [recovery EXCEPT !.process =
               [current_step |-> "Halt", phase |-> 0, started_at |-> current_block,
                target_checkpoint |-> chosen, confirmations |-> {},
                required_confirmations |-> required]]

\* The step after one before GradualRestart.
StepAfter ==
    [Halt |-> "StateAudit", StateAudit |-> "ValidatorReconfirmation",
     ValidatorReconfirmation |-> "ForkDecision", ForkDecision |-> "GradualRestart"]

\* Confirmations are not looked at; the last phase ends the recovery.
advance_recovery ==
    LET p == recovery.process
    IN  /\ p # NoRecovery
        /\ recovery' = [recovery EXCEPT !.process =
               IF p.current_step # "GradualRestart"
               THEN [p EXCEPT !.current_step = StepAfter[p.current_step],
                              !.phase = IF p.current_step = "ForkDecision" THEN 1 ELSE 0]
               ELSE IF p.phase >= MAX_PHASES THEN NoRecovery
               ELSE [p EXCEPT !.phase = @ + 1]]

confirm_recovery(validator) ==
    /\ recovery.process # NoRecovery
    /\ recovery' = [recovery EXCEPT !.process.confirmations = @ \cup {validator}]

create_checkpoint ==
    LET all == Append(recovery.checkpoints, current_block)
    IN  /\ current_block % CHECKPOINT_INTERVAL = 0
        /\ recovery' = [recovery EXCEPT !.checkpoints =
               SubSeq(all, 1 + SatSub(Len(all), MAX_CHECKPOINTS), Len(all))]

RecoveryStep ==
    \/ \E target \in 0..current_block \cup {NoBlock}, n \in Required : start_recovery(target, n)
    \/ advance_recovery
    \/ \E a \in Account : confirm_recovery(a)
    \/ create_checkpoint

-----------------------------------------------------------------------------
(* Properties.                                                             *)

\* The contract keeps its types; the total power is that of the validators
\* (update_total_power, also after end_emergency resets the state), and the
\* checkpoints kept are the latest, in order.
EmergencyTypeOK ==
    /\ \A id \in DOMAIN emergency.breakers : emergency.breakers[id] \in CircuitBreaker
    /\ emergency.state.trigger \in EmergencyTrigger \cup {"None"}
    /\ emergency.state.total_power = TotalPower(emergency.voting_power)
    /\ \A i \in 1..Len(emergency.history) : emergency.history[i].outcome \in EmergencyOutcome
    /\ \A i \in 1..Len(emergency.signals) : emergency.signals[i][2].kind \in FailureSignal
    /\ \A i \in 1..Len(emergency.state.actions_taken) :
          emergency.state.actions_taken[i].kind \in EmergencyAction
    /\ recovery.process # NoRecovery => recovery.process.current_step \in RecoveryStepName
    /\ \A i, j \in 1..Len(recovery.checkpoints) :
          i < j => recovery.checkpoints[i] <= recovery.checkpoints[j]

\* EMERGENCY_COOLDOWN ("Cooldown between emergency declarations"): however an
\* emergency is declared (votes, a call, signals or a breaker, the last two as part
\* of another operation), it is declared a cooldown after the one before it ended.
EmergenciesAreApart ==
    LET h == emergency.history
        starts == [i \in 1..Len(h) |-> h[i].declared_at] \o
                  (IF emergency.state.active THEN <<emergency.state.declared_at>> ELSE <<>>)
    IN  \A i \in 2..Len(starts) : starts[i] >= h[i - 1].ended_at + EMERGENCY_COOLDOWN
=============================================================================
