---------------------------- MODULE LedgerRules ----------------------------
(***************************************************************************)
(* The rules of packages/timebank-ledger as operators on transfers and on  *)
(* sets of transfers: what one transfer must satisfy to be read, what a    *)
(* batch must satisfy to be applied, the postings of a transfer and the    *)
(* credit boundary of ordinary settlements.                                *)
(*                                                                         *)
(* A transfer is a record.  Its id is an integer because the code sorts    *)
(* ids; attestedBy is the set of members whose attestation verifies over   *)
(* the transfer's exact terms, so a missing, duplicate, unrelated or       *)
(* unverifiable attestation is an attestedBy other than the participants.  *)
(***************************************************************************)
EXTENDS Integers, FiniteSets, FiniteSetsExt

CONSTANTS
    Member,          \* member ids
    Proposal,        \* ids of accepted proposals
    TransferId,      \* transfer ids, ordered as localeCompare orders them
    Community,       \* the community whose ledger is derived
    NoId,            \* an absent sourceProposalId or reversesTransferId
    MinimumBalance   \* policy.minimumBalanceMinutes

ASSUME LedgerConstants ==
    /\ TransferId \subseteq Int
    /\ NoId \notin TransferId
    /\ NoId \notin Proposal
    /\ MinimumBalance \in Int
    /\ MinimumBalance <= 0
    /\ IsFiniteSet(Member)

Transfer ==
    [id : TransferId, community : {Community, NoId}, source : Proposal \cup {NoId},
     provider : Member, recipient : Member, minutes : Int,
     reverses : TransferId \cup {NoId}, attestedBy : SUBSET Member]

IsReversal(t) == t.reverses # NoId

Ordinary(T) == {t \in T : ~IsReversal(t)}

\* createTransferTerms: what makes the immutable terms of one transfer acceptable.
TermsOK(t) ==
    /\ t.minutes > 0
    /\ t.provider # t.recipient
    /\ IF IsReversal(t) THEN t.reverses # t.id ELSE t.source # NoId

\* normalizeAttestations and verifyTransfer: one verified attestation per participant.
Attested(t) == t.attestedBy = {t.provider, t.recipient}

\* The checks applyTransfers makes on each transfer before it keeps it.
Readable(t) == TermsOK(t) /\ t.community = Community /\ Attested(t)

\* assertUniqueSettlements: one accepted proposal settles at most once.
UniqueSettlements(T) ==
    \A t, u \in Ordinary(T) : t.source = u.source => t = u

\* assertValidReversals: a correction swaps the participants and keeps the minutes.
Undoes(t, o) ==
    /\ t.reverses = o.id
    /\ t.provider = o.recipient
    /\ t.recipient = o.provider
    /\ t.minutes = o.minutes

ValidReversals(T) ==
    \A t \in T : IsReversal(t) => \E o \in T : Undoes(t, o)

\* Faulty variant: the recipient is never debited.
PostingCreditOnly(t, m) == IF m = t.provider THEN t.minutes ELSE 0

\* derivePostings and applyPostings: the provider gains what the recipient loses.
Posting(t, m) ==
    IF m = t.provider THEN t.minutes ELSE IF m = t.recipient THEN -t.minutes ELSE 0

Post(balances, t) == [m \in Member |-> balances[m] + Posting(t, m)]

\* Faulty variant: compares the balance before the debit.
CrossesMinimumLate(t, balances) == balances[t.recipient] < MinimumBalance

\* wouldCrossMinimumBalance
CrossesMinimum(t, balances) == balances[t.recipient] - t.minutes < MinimumBalance

----------------------------------------------------------------------------
(***************************************************************************)
(* The outcome stated without the loops: the balance of a set of accepted  *)
(* transfers is the sum of its postings, and the ordinary settlements that *)
(* are accepted are the one subset in which every settlement is admitted   *)
(* exactly when the accepted ones with smaller ids leave its recipient at  *)
(* or above the boundary.                                                  *)
(***************************************************************************)
Balance(A, m) == MapThenSumSet(LAMBDA t : Posting(t, m), A)

Below(A, t) == {u \in A : u.id < t.id}

AdmittedInIdOrder(T, A) ==
    \A t \in T : t \in A <=> Balance(Below(A, t), t.recipient) - t.minutes >= MinimumBalance

Admitted(T) == CHOOSE A \in SUBSET Ordinary(T) : AdmittedInIdOrder(Ordinary(T), A)

\* A correction applies when the chain of transfers it undoes ends in an admitted one.
Applied(T) ==
    LET after[n \in 0 .. Cardinality(T)] ==
            IF n = 0
            THEN Admitted(T)
            ELSE LET earlier == after[n - 1]
                     ids == {o.id : o \in earlier}
                 IN  earlier \cup {t \in T : t.reverses \in ids}
    IN  after[Cardinality(T)]

=============================================================================
