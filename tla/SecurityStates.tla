--------------------------- MODULE SecurityStates ---------------------------
(* The security state of the network: SecurityStateTracker of               *)
(* consensus/economics.rs, which follows the number of active validators    *)
(* from epoch to epoch, and what its states allow.  When a state was        *)
(* entered and the number of validators it was last told are only           *)
(* reported, and are left out.                                              *)
EXTENDS Integers, Sequences, TLAPS

CONSTANTS
    EMERGENCY_VALIDATORS, POST_BOOTSTRAP_MIN_VALIDATORS, SAFE_VALIDATORS,   \* 25, 50, 75
    min_validators, absolute_min_validators,    \* of the tracker
    bootstrap_end_epoch,
    floor_grace_epochs, normal_recovery_epochs, collapse_detection_epochs, shm_recovery_epochs,
    critical_governance_frozen, shm_no_slashing, terminal_read_only,        \* of its configuration
    MAX_TRANSITIONS,                            \* transitions kept, 100
    MaxValidators, MaxCount                     \* bounds: validators, and a state's own counter

ASSUME SecurityStatesAssumption ==
    /\ {EMERGENCY_VALIDATORS, POST_BOOTSTRAP_MIN_VALIDATORS, SAFE_VALIDATORS} \subseteq Nat
    /\ EMERGENCY_VALIDATORS < POST_BOOTSTRAP_MIN_VALIDATORS
    /\ POST_BOOTSTRAP_MIN_VALIDATORS < SAFE_VALIDATORS
    /\ min_validators \in POST_BOOTSTRAP_MIN_VALIDATORS..SAFE_VALIDATORS
    /\ floor_grace_epochs \in Nat \ {0} /\ normal_recovery_epochs \in Nat \ {0}
    /\ terminal_read_only \in BOOLEAN
    /\ MaxValidators \in Nat /\ MaxCount \in Nat /\ normal_recovery_epochs <= MaxCount

VARIABLES
    watch,         \* SecurityStateTracker
    watchEpoch,    \* the epoch, counted up to the end of the bootstrap
    run            \* history: [safe, low, few]: the last epochs with at least SAFE_VALIDATORS, with
                   \* fewer than min_validators, with fewer than EMERGENCY_VALIDATORS

watchVars == <<watch, watchEpoch, run>>

NetworkSecurityState ==
    {"Bootstrap", "Normal", "Degraded", "Restricted", "Emergency", "BootstrapRecovery"}

\* SecurityStateTracker::new.  count: epochs_in_dsm and its like; above:
\* consecutive_epochs_above_safe, also kept as epochs_above_minimum_in_dsm.
NewTracker ==
    [state |-> "Bootstrap", count |-> 0, above |-> 0, epochs_below_minimum |-> 0,
     bootstrap_completed |-> FALSE, shm_active |-> FALSE, terminal_active |-> FALSE,
     bootstrap_recovery_active |-> FALSE, transitions |-> << >>]

\* post_bootstrap: a tracker that starts in Normal (its entry says "Normal" where
\* record_transition says "Healthy": the wording is left out)
PostBootstrapTracker ==
    [NewTracker EXCEPT !.state = "Normal", !.bootstrap_completed = TRUE,
                       !.transitions = <<[from |-> "Bootstrap", to |-> "Normal"]>>]

WatchInit ==
    /\ watch \in {NewTracker, PostBootstrapTracker}
    /\ watchEpoch = 0
    /\ run = [safe |-> 0, low |-> 0, few |-> 0]

\* record_transition: the oldest goes when there are too many.
record_transition(log, from, to) ==
    LET longer == Append(log, [from |-> from, to |-> to])
    IN  IF Len(longer) > MAX_TRANSITIONS THEN Tail(longer) ELSE longer

\* The tracker in a new state, whose counters start
Entered(to, above) ==
    [watch EXCEPT !.state = to, !.count = 0, !.above = above,
                  !.transitions = record_transition(@, watch.state, to)]

to_emergency ==
    [Entered("Emergency", 0) EXCEPT !.terminal_active = TRUE,
        !.shm_active = IF watch.state = "BootstrapRecovery" THEN @ ELSE FALSE,
        !.bootstrap_recovery_active = IF watch.state = "BootstrapRecovery" THEN FALSE ELSE @]

to_restricted ==
    [Entered("Restricted", 0) EXCEPT !.shm_active = TRUE,
        !.terminal_active = IF watch.state = "Emergency" THEN FALSE ELSE @,
        !.bootstrap_recovery_active = IF watch.state = "BootstrapRecovery" THEN FALSE ELSE @]

\* To Degraded from Restricted or from recovery: an epoch that is safe counts.
to_degraded(active) ==
    [Entered("Degraded", IF active >= SAFE_VALIDATORS THEN 1 ELSE 0) EXCEPT
        !.shm_active = IF watch.state = "Restricted" THEN FALSE ELSE @,
        !.bootstrap_recovery_active = IF watch.state = "BootstrapRecovery" THEN FALSE ELSE @]

-----------------------------------------------------------------------------
(* The arms of update: the tracker after an epoch with active validators    *)

update_bootstrap(active) ==
    IF watchEpoch >= bootstrap_end_epoch /\ active >= min_validators
    THEN [Entered("Normal", 0) EXCEPT !.bootstrap_completed = TRUE] ELSE watch

update_normal(active) ==
    IF active >= min_validators THEN [watch EXCEPT !.epochs_below_minimum = 0]
    ELSE IF watch.epochs_below_minimum + 1 < floor_grace_epochs
    THEN [watch EXCEPT !.epochs_below_minimum = @ + 1]
    ELSE [(IF active < absolute_min_validators THEN to_restricted ELSE Entered("Degraded", 0))
             EXCEPT !.epochs_below_minimum = 0]

\* Mutant: an epoch that is not safe does not start the count again.
above_kept(active) ==
    IF active < EMERGENCY_VALIDATORS THEN to_emergency
    ELSE IF active < POST_BOOTSTRAP_MIN_VALIDATORS THEN to_restricted
    ELSE IF watch.count >= collapse_detection_epochs /\ active < SAFE_VALIDATORS
    THEN [Entered("BootstrapRecovery", 0) EXCEPT !.bootstrap_recovery_active = TRUE]
    ELSE IF active >= SAFE_VALIDATORS /\ watch.above + 1 >= normal_recovery_epochs
    THEN Entered("Normal", 0)
    ELSE [watch EXCEPT !.count = @ + 1, !.above = IF active >= SAFE_VALIDATORS THEN @ + 1 ELSE @]

update_degraded(active) ==
    IF active < EMERGENCY_VALIDATORS THEN to_emergency
    ELSE IF active < POST_BOOTSTRAP_MIN_VALIDATORS THEN to_restricted
    ELSE IF watch.count >= collapse_detection_epochs /\ active < SAFE_VALIDATORS
    THEN [Entered("BootstrapRecovery", 0) EXCEPT !.bootstrap_recovery_active = TRUE]
    ELSE IF active >= SAFE_VALIDATORS /\ watch.above + 1 >= normal_recovery_epochs
    THEN Entered("Normal", 0)
    ELSE [watch EXCEPT !.count = @ + 1, !.above = IF active >= SAFE_VALIDATORS THEN @ + 1 ELSE 0]

\* SafetyHaltMode
update_restricted(active) ==
    IF active < EMERGENCY_VALIDATORS THEN to_emergency
    ELSE IF active >= POST_BOOTSTRAP_MIN_VALIDATORS /\ watch.count >= shm_recovery_epochs
    THEN to_degraded(active)
    ELSE [watch EXCEPT !.count = @ + 1]

\* TerminalMode
update_emergency(active) ==
    IF active >= EMERGENCY_VALIDATORS THEN to_restricted ELSE [watch EXCEPT !.count = @ + 1]

update_recovery(active) ==
    IF active < EMERGENCY_VALIDATORS THEN to_emergency
    ELSE IF active < POST_BOOTSTRAP_MIN_VALIDATORS THEN to_restricted
    ELSE IF active >= SAFE_VALIDATORS THEN to_degraded(active)
    ELSE [watch EXCEPT !.count = @ + 1]

Longer(n, holds) == IF holds THEN (IF n < MaxCount THEN n + 1 ELSE n) ELSE 0

\* update, at each epoch boundary
update(active) ==
    /\ watch.count < MaxCount
    /\ watch' = CASE watch.state = "Bootstrap" -> update_bootstrap(active)
                  [] watch.state = "Normal" -> update_normal(active)
                  [] watch.state = "Degraded" -> update_degraded(active)
                  [] watch.state = "Restricted" -> update_restricted(active)
                  [] watch.state = "Emergency" -> update_emergency(active)
                  [] watch.state = "BootstrapRecovery" -> update_recovery(active)
    /\ watchEpoch' = IF watchEpoch < bootstrap_end_epoch THEN watchEpoch + 1 ELSE watchEpoch
    /\ run' = [safe |-> Longer(run.safe, active >= SAFE_VALIDATORS),
               low |-> Longer(run.low, active < min_validators),
               few |-> Longer(run.few, active < EMERGENCY_VALIDATORS)]

WatchStep == \E active \in 0..MaxValidators : update(active)

-----------------------------------------------------------------------------
(* What a state allows                                                      *)

is_governance_allowed ==
    CASE watch.state = "Restricted" -> ~critical_governance_frozen
      [] watch.state = "Emergency" -> FALSE
      [] OTHER -> TRUE

\* 2 is the configuration's multiplier.
get_governance_timelock_multiplier ==
    CASE watch.state \in {"Degraded", "BootstrapRecovery"} -> 2
      [] watch.state \in {"Restricted", "Emergency"} -> 0
      [] OTHER -> 1

is_parameter_change_allowed == watch.state \in {"Bootstrap", "Normal"}

is_slashing_allowed == watch.state \in {"Restricted", "Emergency"} => ~shm_no_slashing

is_halted == watch.state = "Emergency" /\ terminal_read_only

\* get_health_status: a degraded network is recovering while it has enough validators.
get_health_status ==
    CASE watch.state = "Bootstrap" -> "Bootstrapping"
      [] watch.state = "Normal" -> "Healthy"
      [] watch.state = "Degraded" -> IF watch.above > 0 THEN "Recovering" ELSE "Degraded"
      [] watch.state = "Restricted" -> "Critical"
      [] watch.state = "Emergency" -> "Terminal"
      [] watch.state = "BootstrapRecovery" -> "BootstrapRecovery"

-----------------------------------------------------------------------------
\* The three flags of the tracker tell its state, and the transitions that it keeps lead,
\* one to the next, to the state it is in.
WatchTypeOK ==
    /\ watch.state \in NetworkSecurityState
    /\ watch.shm_active <=> watch.state = "Restricted"
    /\ watch.terminal_active <=> watch.state = "Emergency"
    /\ watch.bootstrap_recovery_active <=> watch.state = "BootstrapRecovery"
    /\ watch.bootstrap_completed <=> watch.state # "Bootstrap"
    /\ LET log == watch.transitions IN
       /\ \A i \in 1..(Len(log) - 1) : log[i].to = log[i + 1].from
       /\ log # << >> => log[Len(log)].to = watch.state

\* The network returns to Normal only after normal_recovery_epochs epochs in a row with
\* SAFE_VALIDATORS, whichever way it fell and rose; it never takes an epoch for safe that
\* was not (update, its arms for Degraded, Restricted and recovery).
NoFalseRecovery ==
    [][/\ watch.state \notin {"Normal", "Bootstrap"} /\ watch'.state = "Normal"
          => run'.safe >= normal_recovery_epochs
       /\ watch'.above <= run'.safe]_watchVars

\* A collapse is never silent: with fewer than min_validators for as long as the grace the
\* network is not Normal and parameters cannot change; with fewer than
\* EMERGENCY_VALIDATORS for one epoch more it is in Emergency, halted and without
\* governance and slashing, whatever state it was in (update).
NoSilentCollapse ==
    watch.bootstrap_completed =>
        /\ run.low >= floor_grace_epochs => ~is_parameter_change_allowed
        /\ run.few > floor_grace_epochs =>
              /\ watch.state = "Emergency" /\ get_health_status = "Terminal"
              /\ ~is_governance_allowed /\ get_governance_timelock_multiplier = 0
              /\ is_halted = terminal_read_only /\ (is_slashing_allowed <=> ~shm_no_slashing)

\* The state follows the number of validators both ways: no silent collapse and no false
\* recovery (update).
StateFollowsValidators == []NoSilentCollapse /\ NoFalseRecovery

WatchSpec == WatchInit /\ [][WatchStep]_watchVars

-----------------------------------------------------------------------------
(* Proof that the state follows the validators, for any thresholds in their *)
(* order, any periods and any numbers of validators.                        *)

Fields ==
    {"state", "count", "above", "epochs_below_minimum", "bootstrap_completed", "shm_active",
     "terminal_active", "bootstrap_recovery_active", "transitions"}

\* What the tracker remembers of the past is true of it: it counts as safe only epochs that
\* were, and in Normal, where nothing else would notice, it counted all the low ones.
WatchInv ==
    /\ DOMAIN watch = Fields /\ watch.state \in NetworkSecurityState
    /\ (watch.state = "Bootstrap" => ~watch.bootstrap_completed)
    /\ watch.above \in Nat /\ watch.epochs_below_minimum \in Nat
    /\ watch.epochs_below_minimum < floor_grace_epochs
    /\ run.safe \in Nat /\ run.low \in Nat /\ run.few \in Nat
    /\ watch.state # "Degraded" => watch.above = 0
    /\ watch.above <= run.safe
    /\ watch.state = "Normal" =>
          run.low <= watch.epochs_below_minimum /\ run.few <= watch.epochs_below_minimum
    /\ watch.state \notin {"Bootstrap", "Emergency"} => run.few <= floor_grace_epochs

\* A new tracker, and one that starts after the bootstrap
LEMMA WatchInvInit == WatchInit => WatchInv
<1> SUFFICES ASSUME WatchInit PROVE WatchInv
  OBVIOUS
<1> DEFINE first == <<[from |-> "Bootstrap", to |-> "Normal"]>>
<1> HIDE DEF first
<1>1. run.safe = 0 /\ run.low = 0 /\ run.few = 0
  BY DEF WatchInit
<1>2. /\ DOMAIN NewTracker = Fields /\ NewTracker.state = "Bootstrap"
      /\ NewTracker.above = 0 /\ NewTracker.epochs_below_minimum = 0
      /\ NewTracker.bootstrap_completed = FALSE
  BY DEF NewTracker, Fields
<1>3. CASE watch = NewTracker
  BY <1>2, <1>3, <1>1, SecurityStatesAssumption DEF WatchInv, NetworkSecurityState
<1>4. CASE watch = PostBootstrapTracker
  <2>1. PostBootstrapTracker = [NewTracker EXCEPT !.state = "Normal",
            !.bootstrap_completed = TRUE, !.transitions = first]
    BY DEF PostBootstrapTracker, first
  <2>2. /\ DOMAIN watch = Fields /\ watch.state = "Normal"
        /\ watch.above = 0 /\ watch.epochs_below_minimum = 0
    BY <1>2, <1>4, <2>1 DEF Fields
  <2> QED BY <1>1, <2>2, SecurityStatesAssumption DEF WatchInv, NetworkSecurityState
<1> QED BY <1>3, <1>4 DEF WatchInit

\* Entered: the tracker in another state
LEMMA EnteredFacts ==
    ASSUME WatchInv, NEW to, NEW above
    PROVE  LET w == Entered(to, above)
           IN  /\ DOMAIN w = Fields /\ w.state = to /\ w.above = above
               /\ w.epochs_below_minimum = watch.epochs_below_minimum
               /\ w.bootstrap_completed = watch.bootstrap_completed
BY DEF WatchInv, Entered, Fields

\* The changes to a worse state, and to Degraded
LEMMA ToFacts ==
    ASSUME WatchInv, NEW active \in Nat, watch.state # "Bootstrap"
    PROVE  /\ LET w == to_emergency
              IN  /\ DOMAIN w = Fields /\ w.state = "Emergency" /\ w.above = 0
                  /\ w.epochs_below_minimum = watch.epochs_below_minimum
                  /\ w.bootstrap_completed = watch.bootstrap_completed
           /\ LET w == to_restricted
              IN  /\ DOMAIN w = Fields /\ w.state = "Restricted" /\ w.above = 0
                  /\ w.epochs_below_minimum = watch.epochs_below_minimum
                  /\ w.bootstrap_completed = watch.bootstrap_completed
           /\ LET w == to_degraded(active)
              IN  /\ DOMAIN w = Fields /\ w.state = "Degraded"
                  /\ w.above = IF active >= SAFE_VALIDATORS THEN 1 ELSE 0
                  /\ w.epochs_below_minimum = watch.epochs_below_minimum
                  /\ w.bootstrap_completed = watch.bootstrap_completed
BY EnteredFacts DEF to_emergency, to_restricted, to_degraded, Fields

\* What holds of the tracker after an epoch, for the runs of epochs before it.
After(w, active) ==
    /\ DOMAIN w = Fields /\ w.state \in NetworkSecurityState
    /\ (w.state = "Bootstrap" => ~w.bootstrap_completed)
    /\ w.above \in Nat /\ w.epochs_below_minimum \in Nat
    /\ w.epochs_below_minimum < floor_grace_epochs
    /\ w.state # "Degraded" => w.above = 0
    /\ w.above > 0 => active >= SAFE_VALIDATORS /\ w.above <= watch.above + 1
                      /\ w.above <= MaxCount
    /\ w.state = "Normal" /\ active < min_validators =>
          watch.state = "Normal" /\ w.epochs_below_minimum = watch.epochs_below_minimum + 1
    /\ w.state \notin {"Bootstrap", "Emergency"} /\ active < EMERGENCY_VALIDATORS =>
          watch.state = "Normal"
    /\ watch.state \notin {"Normal", "Bootstrap"} /\ w.state = "Normal" =>
          active >= SAFE_VALIDATORS /\ watch.above + 1 >= normal_recovery_epochs

\* Each arm of update
LEMMA UpdateAfter ==
    ASSUME WatchInv, NEW active \in Nat, update(active)
    PROVE  After(watch', active)
<1> USE SecurityStatesAssumption DEF After, WatchInv, NetworkSecurityState
<1>1. CASE watch.state = "Bootstrap"
  <2>1. watch' = update_bootstrap(active)
    BY <1>1 DEF update
  <2> QED BY <1>1, <2>1, EnteredFacts DEF update_bootstrap, Fields
<1>2. CASE watch.state = "Normal"
  <2>1. watch' = update_normal(active)
    BY <1>2 DEF update
  <2> QED BY <1>2, <2>1, EnteredFacts, ToFacts DEF update_normal, Fields
<1>3. CASE watch.state = "Degraded"
  <2>1. watch' = update_degraded(active)
    BY <1>3 DEF update
  <2> QED BY <1>3, <2>1, EnteredFacts, ToFacts DEF update_degraded, Fields
<1>4. CASE watch.state = "Restricted"
  <2>1. watch' = update_restricted(active)
    BY <1>4 DEF update
  <2> QED BY <1>4, <2>1, ToFacts DEF update_restricted, Fields
<1>5. CASE watch.state = "Emergency"
  <2>1. watch' = update_emergency(active)
    BY <1>5 DEF update
  <2> QED BY <1>5, <2>1, ToFacts DEF update_emergency, Fields
<1>6. CASE watch.state = "BootstrapRecovery"
  <2>1. watch' = update_recovery(active)
    BY <1>6 DEF update
  <2> QED BY <1>6, <2>1, ToFacts DEF update_recovery, Fields
<1> QED BY <1>1, <1>2, <1>3, <1>4, <1>5, <1>6

\* The runs of epochs after an epoch
LEMMA RunAfter ==
    ASSUME WatchInv, NEW active \in Nat, update(active)
    PROVE  /\ run'.safe \in Nat /\ run'.low \in Nat /\ run'.few \in Nat
           /\ active >= SAFE_VALIDATORS =>
                 \A m \in Nat : m <= MaxCount /\ m <= run.safe + 1 => m <= run'.safe
           /\ run'.low <= run.low + 1 /\ run'.few <= run.few + 1
           /\ active >= min_validators => run'.low = 0
           /\ active >= EMERGENCY_VALIDATORS => run'.few = 0
<1>1. /\ run'.safe = Longer(run.safe, active >= SAFE_VALIDATORS)
      /\ run'.low = Longer(run.low, active < min_validators)
      /\ run'.few = Longer(run.few, active < EMERGENCY_VALIDATORS)
  BY DEF update
<1>2. run.safe \in Nat /\ run.low \in Nat /\ run.few \in Nat
  BY DEF WatchInv
<1> QED BY <1>1, <1>2, SecurityStatesAssumption DEF Longer

\* Every epoch keeps it.
LEMMA WatchInvNext == WatchInv /\ [WatchStep]_watchVars => WatchInv'
<1> SUFFICES ASSUME WatchInv, [WatchStep]_watchVars PROVE WatchInv'
  OBVIOUS
<1>1. ASSUME NEW active \in 0..MaxValidators, update(active) PROVE WatchInv'
  <2>1. active \in Nat
    BY SecurityStatesAssumption
  <2>2. After(watch', active)
    BY <1>1, <2>1, UpdateAfter
  <2>3. watch'.above <= run'.safe
    BY <1>1, <2>1, <2>2, RunAfter DEF After, WatchInv
  <2>4. watch'.state = "Normal" => /\ run'.low <= watch'.epochs_below_minimum
                                   /\ run'.few <= watch'.epochs_below_minimum
    BY <1>1, <2>1, <2>2, RunAfter, SecurityStatesAssumption DEF After, WatchInv
  <2>5. watch'.state \notin {"Bootstrap", "Emergency"} => run'.few <= floor_grace_epochs
    BY <1>1, <2>1, <2>2, RunAfter, SecurityStatesAssumption DEF After, WatchInv
  <2> QED BY <1>1, <2>1, <2>2, <2>3, <2>4, <2>5, RunAfter DEF After, WatchInv
<1>2. CASE UNCHANGED watchVars
  BY <1>2 DEF watchVars, WatchInv
<1> QED BY <1>1, <1>2 DEF WatchStep

\* With the invariant nothing collapses silently.
LEMMA CollapseNoticed == WatchInv => NoSilentCollapse
<1> SUFFICES ASSUME WatchInv, watch.bootstrap_completed PROVE NoSilentCollapse
  BY DEF NoSilentCollapse
<1>1. watch.state # "Bootstrap"
  BY DEF WatchInv
<1>2. run.low >= floor_grace_epochs => ~is_parameter_change_allowed
  BY <1>1, SecurityStatesAssumption DEF WatchInv, is_parameter_change_allowed
<1>3. run.few > floor_grace_epochs => watch.state = "Emergency"
  BY <1>1, SecurityStatesAssumption DEF WatchInv
<1>4. watch.state = "Emergency" =>
          /\ get_health_status = "Terminal" /\ ~is_governance_allowed
          /\ get_governance_timelock_multiplier = 0
          /\ is_halted = terminal_read_only /\ (is_slashing_allowed <=> ~shm_no_slashing)
  BY SecurityStatesAssumption DEF get_health_status, is_governance_allowed,
         get_governance_timelock_multiplier, is_halted, is_slashing_allowed
<1> QED BY <1>2, <1>3, <1>4 DEF NoSilentCollapse

\* Whatever the number of validators does from epoch to epoch, the network does not stay
\* Normal through a collapse and does not return to Normal without as many safe epochs in a
\* row as it takes (SecurityStateTracker::update).
THEOREM StateIsTrue == WatchSpec => StateFollowsValidators
<1>1. WatchInv /\ [WatchStep]_watchVars =>
        [/\ watch.state \notin {"Normal", "Bootstrap"} /\ watch'.state = "Normal"
               => run'.safe >= normal_recovery_epochs
         /\ watch'.above <= run'.safe]_watchVars
  <2> SUFFICES ASSUME WatchInv, NEW active \in 0..MaxValidators, update(active)
               PROVE  /\ watch.state \notin {"Normal", "Bootstrap"} /\ watch'.state = "Normal"
                            => run'.safe >= normal_recovery_epochs
                      /\ watch'.above <= run'.safe
    BY DEF WatchStep
  <2>1. active \in Nat
    BY SecurityStatesAssumption
  <2>2. After(watch', active)
    BY <2>1, UpdateAfter
  <2> QED BY <2>1, <2>2, RunAfter, SecurityStatesAssumption DEF After, WatchInv
<1> QED BY <1>1, WatchInvInit, WatchInvNext, CollapseNoticed, PTL
      DEF WatchSpec, StateFollowsValidators, NoFalseRecovery
=============================================================================
