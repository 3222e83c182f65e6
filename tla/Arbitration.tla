---------------------------- MODULE Arbitration ----------------------------
(***************************************************************************)
(* ArbitrationContract (kratos-core/src/contracts/arbitration.rs) and      *)
(* Dispute (types/dispute.rs): disputes heard by a jury of validators.     *)
(* Every change of a dispute is written to the database; a restart keeps   *)
(* the database and the validator credits and loses the rest.              *)
(*                                                                         *)
(* The VRF's choice of jurors is any choice.  The type of a dispute, its   *)
(* chain and the content of evidence are left out, but for whom a fraud    *)
(* proof accuses.  No code makes a dispute EvidenceComplete.               *)
(***************************************************************************)
EXTENDS ContractBase

CONSTANTS
    NoAccount,
    EVIDENCE_WINDOW, DELIBERATION_PERIOD, MAX_DISPUTE_DURATION,
    MIN_JURY_SIZE, MAX_EVIDENCE_COUNT, MAX_ARBITRATIONS_PER_YEAR,
    MaxDisputes    \* bound on dispute ids

VARIABLE court

DisputeStatus ==
    {"Open", "Deliberating", "Resolved", "Appealed", "Dismissed", "Expired"}

Verdict == {"Guilty", "NotGuilty", "Abstain"}

\* Jurisdiction: Local, Host, Root.
Jurisdiction == 0..2

\* A fraud proof accuses a validator, other evidence nobody.
Evidence == Account \cup {NoAccount}

NoDecision == [verdict |-> "None", enforced |-> FALSE]

\* credits: the arbitration credits of the accounts with a credits record; the
\* blocks of the model lie in one year.
ArbitrationInit ==
    \E records \in SUBSET Account :
        court = [disputes |-> <<>>, db |-> <<>>, validators |-> {}, next_dispute_id |-> 1,
                 credits |-> [a \in records |-> 0]]

Dispute(id) == court.disputes[id]

accused(d) ==
    LET proofs == {i \in DOMAIN d.evidence : d.evidence[i] # NoAccount}
    IN  IF proofs = {} THEN NoAccount ELSE d.evidence[Min(proofs)]

is_expired(d) ==
    /\ d.status \notin {"Resolved", "Dismissed", "Expired"}
    /\ current_block > d.raised_at + MAX_DISPUTE_DURATION

is_stale(d) ==
    \/ is_expired(d)
    \/ /\ d.status = "Open"
       /\ current_block > d.raised_at + EVIDENCE_WINDOW
       /\ d.evidence = <<>>
    \/ /\ d.status = "Deliberating"
       /\ current_block > d.deliberation_deadline
       /\ Cardinality(DOMAIN d.jury_votes) < Len(d.jury_members) \div 2 + 1

\* get_dispute_mut, the change and persist_dispute.
Save(c, id, d) == [c EXCEPT !.disputes = (id :> d) @@ @, !.db = (id :> d) @@ @]

register_validator(a) == court' = [court EXCEPT !.validators = @ \cup {a}]

\* raise_dispute up to its return; enabled where it does not fail.
CanRaise ==
    /\ court.next_dispute_id <= MaxDisputes
    /\ court.next_dispute_id \notin DOMAIN court.disputes

Raised(raiser, jurisdiction, evidence) ==
    Save([court EXCEPT !.next_dispute_id = @ + 1], court.next_dispute_id,
         [raised_by |-> raiser, raised_at |-> current_block, evidence |-> evidence,
          status |-> "Open", jurisdiction |-> jurisdiction, jury_members |-> <<>>,
          jury_votes |-> <<>>, decision |-> NoDecision, deliberation_deadline |-> 0])

raise_dispute(raiser, jurisdiction, initial_evidence) ==
    CanRaise /\ court' = Raised(raiser, jurisdiction, initial_evidence)

\* Mutant: evidence is taken at any time before the deadline.
evidence_any_status(id, evidence, submitter) ==
    /\ current_block <= Dispute(id).raised_at + EVIDENCE_WINDOW
    /\ submitter \in {Dispute(id).raised_by, accused(Dispute(id))} \cup court.validators
    /\ Len(Dispute(id).evidence) < MAX_EVIDENCE_COUNT
    /\ court' = Save(court, id, [Dispute(id) EXCEPT !.evidence = Append(@, evidence)])

submit_evidence(id, evidence, submitter) ==
    /\ Dispute(id).status = "Open"
    /\ current_block <= Dispute(id).raised_at + EVIDENCE_WINDOW
    /\ submitter \in {Dispute(id).raised_by, accused(Dispute(id))} \cup court.validators
    /\ Len(Dispute(id).evidence) < MAX_EVIDENCE_COUNT
    /\ court' = Save(court, id, [Dispute(id) EXCEPT !.evidence = Append(@, evidence)])

select_jury(id, jury) ==
    /\ Dispute(id).status = "Open"
    /\ Dispute(id).evidence # <<>>
    /\ IsInjective(jury)
    /\ Range(jury) \subseteq court.validators \ {accused(Dispute(id)), Dispute(id).raised_by}
    /\ Len(jury) >= MIN_JURY_SIZE
    /\ court' = Save(court, id,
           [Dispute(id) EXCEPT !.status = "Deliberating", !.jury_members = jury,
                               !.deliberation_deadline = current_block + DELIBERATION_PERIOD])

submit_jury_vote(id, juror, verdict) ==
    /\ Dispute(id).status = "Deliberating"
    /\ current_block <= Dispute(id).deliberation_deadline
    /\ juror \in Range(Dispute(id).jury_members)
    /\ juror \notin DOMAIN Dispute(id).jury_votes
    /\ court' = Save(court, id, [Dispute(id) EXCEPT !.jury_votes = (juror :> verdict) @@ @])

Votes(d, verdict) == Cardinality({a \in DOMAIN d.jury_votes : d.jury_votes[a] = verdict})

Majority(d) == IF Votes(d, "Guilty") > Votes(d, "NotGuilty") THEN "Guilty" ELSE "NotGuilty"

\* The jurors before the first one without a record get their credit; then the
\* loop, and with it tally_votes, fails.
reward_jury_members(c, jury) ==
    LET unknown == {i \in DOMAIN jury : jury[i] \notin DOMAIN c.credits}
        paid == {jury[i] : i \in {j \in DOMAIN jury : \A u \in unknown : j < u}}
    IN  [c EXCEPT !.credits = [a \in DOMAIN @ |->
            IF a \in paid /\ @[a] < MAX_ARBITRATIONS_PER_YEAR THEN @[a] + 1 ELSE @[a]]]

Decided(id) ==
    reward_jury_members(
        Save(court, id,
             [Dispute(id) EXCEPT !.decision = [verdict |-> Majority(Dispute(id)), enforced |-> FALSE],
                                 !.status = "Resolved"]),
        Dispute(id).jury_members)


tally_votes(id) ==
    /\ Dispute(id).status = "Deliberating"
    /\ \/ Cardinality(DOMAIN Dispute(id).jury_votes) >= Len(Dispute(id).jury_members)
       \/ current_block >= Dispute(id).deliberation_deadline
    /\ DOMAIN Dispute(id).jury_votes # {}
    /\ court' = Decided(id)

\* Mutant: the enforcement is not written to the database.
enforce_in_memory(id, caller) ==
    /\ caller \in court.validators
    /\ Dispute(id).status = "Resolved" /\ ~Dispute(id).decision.enforced
    /\ court' = [court EXCEPT !.disputes[id].decision.enforced = TRUE]

enforce_verdict(id, caller) ==
    /\ caller \in court.validators
    /\ Dispute(id).status = "Resolved"
    /\ ~Dispute(id).decision.enforced
    /\ court' = Save(court, id, [Dispute(id) EXCEPT !.decision.enforced = TRUE])

\* A failure of raise_dispute leaves the original as it is.
appeal_decision(id, appealed_by, jurisdiction) ==
    /\ Dispute(id).status = "Resolved"
    /\ jurisdiction > Dispute(id).jurisdiction
    /\ CanRaise
    /\ court' = Save(Raised(appealed_by, jurisdiction, Dispute(id).evidence), id,
                     [Dispute(id) EXCEPT !.status = "Appealed"])

expire_stale_disputes ==
    LET expired == [id \in {i \in DOMAIN court.disputes : is_stale(Dispute(i))} |->
                        [Dispute(id) EXCEPT !.status = "Expired"]]
    IN  court' = [court EXCEPT !.disputes = expired @@ @, !.db = expired @@ @]

dismiss_dispute(id, caller) ==
    /\ caller \in court.validators
    /\ Dispute(id).status = "Open"
    /\ court' = Save(court, id, [Dispute(id) EXCEPT !.status = "Dismissed"])

\* The process stops and `new` is called on the same database.
restart ==
    court' = [court EXCEPT !.disputes = <<>>, !.validators = {}, !.next_dispute_id = 1]

load_dispute(id) ==
    court' = [court EXCEPT !.disputes = (id :> court.db[id]) @@ @]

load_all_disputes ==
    court' = [court EXCEPT !.disputes = court.db @@ @]

ArbitrationStep ==
    \/ \E a \in Account : register_validator(a)
    \/ \E a \in Account, j \in Jurisdiction, e \in {<<>>} \cup {<<x>> : x \in Evidence} :
          raise_dispute(a, j, e)
    \/ \E id \in DOMAIN court.disputes :
          \/ \E e \in Evidence, a \in Account : submit_evidence(id, e, a)
          \/ \E n \in 1..Cardinality(Account) :
                \E jury \in [1..n -> Account] : select_jury(id, jury)
          \/ \E a \in Account, v \in Verdict : submit_jury_vote(id, a, v)
          \/ tally_votes(id)
          \/ \E a \in Account : enforce_verdict(id, a)
          \/ \E a \in Account, j \in Jurisdiction : appeal_decision(id, a, j)
          \/ \E a \in Account : dismiss_dispute(id, a)
    \/ expire_stale_disputes
    \/ restart
    \/ \E id \in DOMAIN court.db : load_dispute(id)
    \/ load_all_disputes

-----------------------------------------------------------------------------
(* Properties.                                                             *)

\* Disputes keep their types; votes are those of jurors, and evidence and the
\* yearly credits of a validator stay within their limits.
ArbitrationTypeOK ==
    /\ \A id \in DOMAIN court.db :
          LET d == court.db[id]
          IN  /\ d.status \in DisputeStatus /\ d.raised_by \in Account
              /\ d.jurisdiction \in Jurisdiction
              /\ Range(d.evidence) \subseteq Evidence
              /\ Len(d.evidence) <= Max({1, MAX_EVIDENCE_COUNT})
              /\ DOMAIN d.jury_votes \subseteq Range(d.jury_members)
    /\ \A a \in DOMAIN court.credits : court.credits[a] <= MAX_ARBITRATIONS_PER_YEAR

\* persist_dispute: what memory holds of a dispute is what the database holds, also
\* after appeals, which change two disputes, failed rewards and restarts that load
\* some of the disputes.
DisputesPersisted ==
    /\ DOMAIN court.disputes \subseteq DOMAIN court.db
    /\ \A id \in DOMAIN court.disputes : Dispute(id) = court.db[id]

\* select_jury, submit_evidence: neither the raiser of a dispute nor the validator
\* it accuses judges it.  The accused is read off the evidence when the jury is
\* selected, so this needs that no evidence is accepted afterwards.
JuryIsImpartial ==
    \A id \in DOMAIN court.disputes :
        /\ Range(Dispute(id).jury_members) \cap {Dispute(id).raised_by, accused(Dispute(id))} = {}
        /\ Dispute(id).decision # NoDecision => Len(Dispute(id).jury_members) >= MIN_JURY_SIZE

\* tally_votes, enforce_verdict: a decision is taken once and enforced once.  No
\* step on a dispute held in memory replaces its verdict or forgets that it was
\* enforced, whatever the order of tallies, appeals, expiries and reloads.
DecisionStands ==
    [][\A id \in DOMAIN court.disputes \cap DOMAIN court'.disputes :
          Dispute(id).decision # NoDecision =>
              /\ court'.disputes[id].decision.verdict = Dispute(id).decision.verdict
              /\ Dispute(id).decision.enforced => court'.disputes[id].decision.enforced]_court
=============================================================================
