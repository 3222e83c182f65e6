------------------------------- MODULE Roles -------------------------------
(***************************************************************************)
(* NetworkRoleRegistry (kratos-core/src/types/contributor.rs), which a     *)
(* ValidatorSet carries along, and the contributor's records of that file: *)
(* registrations, applications and claims.  No code keeps the records; the *)
(* model keeps one of each kind by its identifier, and their methods may   *)
(* be called in any order, as their signatures allow.                      *)
(***************************************************************************)
EXTENDS ContractBase

CONSTANTS
    DisputeId,
    DEFAULT_ROLE_DURATION, ROLE_APPLICATION_STAKE,
    MaxPayment,                    \* max_payment_per_contribution, by program
    ContributorRoles,              \* the contributor's roles in use
    RoleStakes, Payments

VARIABLES roles, records

NetworkRole == {"Validator", "Juror", "Contributor"}

ContributorRole ==
    {"BugHunter", "SecurityAuditor", "CoreDeveloper", "ContentCreator", "Ambassador", "Researcher",
     "InfrastructureProvider", "Translator", "Educator"}

TreasuryProgram ==
    {"BugBounty", "SecurityAudit", "CoreDevelopment", "ContentCreation", "Ambassador",
     "ResearchGrant", "Infrastructure", "Translation", "Education"}

program(role) ==
    CASE role = "BugHunter" -> "BugBounty"
      [] role = "SecurityAuditor" -> "SecurityAudit"
      [] role = "CoreDeveloper" -> "CoreDevelopment"
      [] role = "ContentCreator" -> "ContentCreation"
      [] role = "Ambassador" -> "Ambassador"
      [] role = "Researcher" -> "ResearchGrant"
      [] role = "InfrastructureProvider" -> "Infrastructure"
      [] role = "Translator" -> "Translation"
      [] role = "Educator" -> "Education"

RoleStatus == {"Pending", "Active", "Expired", "Suspended", "Revoked"}

ApplicationStatus == {"Submitted", "Voting", "Approved", "Rejected", "RejectedSpam", "Withdrawn"}

ClaimStatus == {"Submitted", "UnderReview", "Approved", "Paid", "Rejected", "Disputed"}

RolesInit ==
    /\ roles = [entries |-> [a \in Account |-> <<>>], validators |-> <<>>,
                jurors_by_dispute |-> <<>>]
    /\ records = [registrations |-> <<>>, applications |-> <<>>, claims |-> <<>>]

-----------------------------------------------------------------------------
(* The registry.  id is the dispute of a juror and the registration of a   *)
(* contributor.                                                            *)

Entry(role, id, expires_at, active) ==
    [role |-> role, id |-> id, expires_at |-> expires_at, active |-> active]

is_active_at(entry) ==
    entry.active /\ (entry.expires_at # NoBlock => current_block <= entry.expires_at)

is_role_validator(a) == a \in Range(roles.validators)

register_role_validator(a) ==
    /\ ~is_role_validator(a)
    /\ roles' = [roles EXCEPT !.entries[a] = Append(@, Entry("Validator", <<>>, NoBlock, TRUE)),
                              !.validators = Append(@, a)]

\* The first active entry of a validator.
ActiveValidatorEntry(a) ==
    LET active == {n \in DOMAIN roles.entries[a] :
                      roles.entries[a][n].role = "Validator" /\ roles.entries[a][n].active}
    IN  IF active = {} THEN 0 ELSE Min(active)

unregister_role_validator(a) ==
    LET n == ActiveValidatorEntry(a)
    IN  /\ n # 0
        /\ roles' = [roles EXCEPT !.entries[a][n].active = FALSE,
                                  !.validators = SelectSeq(@, LAMBDA v : v # a)]

JurorsOf(d) == IF d \in DOMAIN roles.jurors_by_dispute THEN roles.jurors_by_dispute[d] ELSE <<>>

register_juror(a, d) ==
    /\ a \notin Range(JurorsOf(d))
    /\ roles' = [roles EXCEPT
           !.entries[a] = Append(@, Entry("Juror", <<d>>, NoBlock, TRUE)),
           !.jurors_by_dispute = (d :> Append(JurorsOf(d), a)) @@ @]

resolve_dispute_jurors(d) ==
    /\ d \in DOMAIN roles.jurors_by_dispute
    /\ roles' = [roles EXCEPT
           !.jurors_by_dispute = Without(@, {d}),
           !.entries = [a \in Account |->
               [n \in DOMAIN @[a] |->
                   IF a \in Range(JurorsOf(d)) /\ @[a][n].role = "Juror" /\ @[a][n].id = <<d>>
                   THEN [@[a][n] EXCEPT !.active = FALSE] ELSE @[a][n]]]]

register_contributor(id) ==
    LET r == records.registrations[id]
    IN  roles' = [roles EXCEPT !.entries[id[1]] =
            Append(@, Entry("Contributor", id, r.expires_at, r.status = "Active"))]

\* The first entry of the registration.
update_contributor_status(id, active) ==
    LET of == {n \in DOMAIN roles.entries[id[1]] :
                  roles.entries[id[1]][n].role = "Contributor" /\ roles.entries[id[1]][n].id = id}
    IN  /\ of # {}
        /\ roles' = [roles EXCEPT !.entries[id[1]][Min(of)].active = active]

-----------------------------------------------------------------------------
(* Registrations, applications and claims.                                 *)

new_registration(a, role) ==
    records' = [records EXCEPT !.registrations =
        (<<a, role, current_block>> :>
            [status |-> "Active", expires_at |-> current_block + DEFAULT_ROLE_DURATION,
             total_payments |-> 0]) @@ @]

can_renew(status) == status \in {"Active", "Expired"}

renew(id) ==
    /\ can_renew(records.registrations[id].status)
    /\ records' = [records EXCEPT !.registrations[id] =
           [@ EXCEPT !.status = "Active", !.expires_at = current_block + DEFAULT_ROLE_DURATION]]

record_contribution(id, payment) ==
    records' = [records EXCEPT !.registrations[id].total_payments = @ + payment]

\* Whatever the status is: a revoked role becomes a suspended one.
suspend(id) == records' = [records EXCEPT !.registrations[id].status = "Suspended"]

revoke(id) == records' = [records EXCEPT !.registrations[id].status = "Revoked"]

reactivate(id) ==
    /\ records.registrations[id].status = "Suspended"
    /\ records' = [records EXCEPT !.registrations[id].status = "Active"]

new_application(a, role, stake) ==
    /\ stake >= ROLE_APPLICATION_STAKE
    /\ records' = [records EXCEPT !.applications =
           (<<a, role, current_block>> :> [status |-> "Submitted", proposal |-> FALSE]) @@ @]

set_application_proposal(id) ==
    records' = [records EXCEPT !.applications[id] = [status |-> "Voting", proposal |-> TRUE]]

\* approve, reject, reject_spam.
decide_application(id, status) ==
    /\ status \in {"Approved", "Rejected", "RejectedSpam"}
    /\ records' = [records EXCEPT !.applications[id].status = status]

withdraw_application(id) ==
    /\ records.applications[id].status = "Submitted"
    /\ records' = [records EXCEPT !.applications[id].status = "Withdrawn"]

new_claim(a, registration, amount) ==
    /\ amount <= MaxPayment[program(registration[2])]
    /\ records' = [records EXCEPT !.claims =
           (<<a, current_block>> :> [status |-> "Submitted", amount |-> amount]) @@ @]

\* set_proposal, approve, mark_paid, reject and dispute test nothing.
set_claim_status(id, status) ==
    /\ status \in ClaimStatus \ {"Submitted"}
    /\ records' = [records EXCEPT !.claims[id].status = status]

RolesStep ==
    \/ \E a \in Account : register_role_validator(a) \/ unregister_role_validator(a)
    \/ \E a \in Account, d \in DisputeId : register_juror(a, d)
    \/ \E d \in DisputeId : resolve_dispute_jurors(d)
    \/ \E id \in DOMAIN records.registrations :
          register_contributor(id) \/ \E b \in BOOLEAN : update_contributor_status(id, b)

RecordsStep ==
    \/ \E a \in Account, r \in ContributorRoles :
          new_registration(a, r) \/ \E s \in RoleStakes : new_application(a, r, s)
    \/ \E id \in DOMAIN records.registrations :
          \/ renew(id) \/ suspend(id) \/ revoke(id) \/ reactivate(id)
          \/ \E p \in Payments : record_contribution(id, p) \/ \E a \in Account : new_claim(a, id, p)
    \/ \E id \in DOMAIN records.applications :
          \/ set_application_proposal(id) \/ withdraw_application(id)
          \/ \E s \in ApplicationStatus : decide_application(id, s)
    \/ \E id \in DOMAIN records.claims, s \in ClaimStatus : set_claim_status(id, s)

-----------------------------------------------------------------------------
(* Properties.                                                             *)

\* Records keep their types, an application withdrawn was never put to a vote unless it
\* is proposed afterwards, and a claim stays within the limit of some program.
RolesTypeOK ==
    /\ \A id \in DOMAIN records.registrations : records.registrations[id].status \in RoleStatus
    /\ \A id \in DOMAIN records.applications :
          /\ records.applications[id].status \in ApplicationStatus
          /\ records.applications[id].status = "Withdrawn" => ~records.applications[id].proposal
    /\ \A id \in DOMAIN records.claims :
          \E p \in TreasuryProgram : records.claims[id].amount <= MaxPayment[p]

\* NetworkRoleRegistry: the list of validators and the jurors of a dispute are those with
\* an active entry, once each, however often a role was given and taken.
RoleIndexesAgree ==
    \A a \in Account :
        LET Active(role, id) == {n \in DOMAIN roles.entries[a] :
                LET e == roles.entries[a][n] IN e.role = role /\ e.id = id /\ e.active}
            Listed(list) == {n \in DOMAIN list : list[n] = a}
        IN  /\ Cardinality(Active("Validator", <<>>)) = Cardinality(Listed(roles.validators))
            /\ \A d \in DisputeId :
                   Cardinality(Active("Juror", <<d>>)) = Cardinality(Listed(JurorsOf(d)))
=============================================================================
