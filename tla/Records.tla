------------------------------ MODULE Records ------------------------------
(***************************************************************************)
(* The immutable records of one community and how a set of them resolves:  *)
(* packages/timebank-records (envelope.ts, timebank-records.ts,            *)
(* resolve.ts) with the rules it takes from packages/timebank-settlement,  *)
(* packages/timebank-domain and packages/timebank-ledger.                  *)
(*                                                                         *)
(* Resolution is all or nothing: one record that breaks a rule throws, and *)
(* the caller gets no state at all.  Every record here was written by the  *)
(* owner of its feed, so author stands for the envelope's author, for the  *)
(* owner the payload names and for the member whose key signed it.         *)
(***************************************************************************)
EXTENDS Integers, FiniteSets

CONSTANTS
    Member,          \* member ids
    Listing,         \* listing ids
    Proposal,        \* proposal ids; settlement ids sort as these do
    Community,       \* the one community of the records
    NoId,            \* an absent id
    NoTerms,         \* the terms of a listing closure
    MinimumBalance   \* DEFAULT_PEER_HOURS_LEDGER_POLICY

ASSUME RecordConstants ==
    /\ Proposal \subseteq Int
    /\ Listing \cap Proposal = {}
    /\ NoId \notin Proposal
    /\ MinimumBalance \in Int
    /\ MinimumBalance <= 0

L == INSTANCE LedgerRules WITH TransferId <- Proposal

ListingTerms == [side : {"offer", "request"}, minutes : Nat]

ProposalTerms ==
    [offer : Listing, request : Listing, provider : Member, recipient : Member,
     creator : Member, minutes : Nat]

Kinds == {"listing", "closure", "proposed", "accepted", "ack", "attestation", "transfer"}

(***************************************************************************)
(* at is the occurredAt of the envelope, abstracted to the position the    *)
(* record was appended at: two appends of one feed never share it.  by is  *)
(* the set of members whose attestations a transfer carries.               *)
(***************************************************************************)
Record ==
    [kind : Kinds, subject : Listing \cup Proposal, author : Member, at : Nat,
     terms : ListingTerms \cup ProposalTerms \cup {NoTerms}, by : SUBSET Member]

\* The id of a record's envelope.  Acknowledgements and attestations name their author;
\* a settlement transfer is named by its proposal alone.
RecordId(r) ==
    <<r.kind, r.subject, IF r.kind \in {"ack", "attestation"} THEN r.author ELSE NoId>>

OfKind(rs, kind) == {r \in rs : r.kind = kind}

About(rs, kind, x) == {r \in rs : r.kind = kind /\ r.subject = x}

Participants(terms) == {terms.provider, terms.recipient}

\* The participant who did not create the proposal, and alone may accept it.
Counterparty(terms) ==
    IF terms.creator = terms.provider THEN terms.recipient ELSE terms.provider

----------------------------------------------------------------------------
\* reduceRecordEnvelopes: one id never carries two contents.
NoConflict(rs) == \A r, s \in rs : RecordId(r) = RecordId(s) => r = s

ClosuresLinked(rs) ==
    \A c \in OfKind(rs, "closure") :
        \E l \in About(rs, "listing", c.subject) : l.author = c.author

\* normalizeProposedProposal and normalizeAcceptedProposal
ProposalsWellFormed(rs) ==
    /\ \A q \in OfKind(rs, "proposed") \cup OfKind(rs, "accepted") :
          /\ q.terms.minutes > 0
          /\ q.terms.provider # q.terms.recipient
          /\ q.terms.creator \in Participants(q.terms)
    /\ \A q \in OfKind(rs, "proposed") : q.author = q.terms.creator
    /\ \A a \in OfKind(rs, "accepted") : a.author = Counterparty(a.terms)

\* assertAcceptedProposalsPreservePublishedTerms
TermsPreserved(rs) ==
    \A a \in OfKind(rs, "accepted") :
        \A q \in About(rs, "proposed", a.subject) : q.terms = a.terms

\* resolveSettlementAcknowledgements: the members who acknowledged a proposal.
Acknowledged(rs, p) == {k.author : k \in About(rs, "ack", p)}

Attested(rs, p) == {k.author : k \in About(rs, "attestation", p)}

\* A record about a proposal is by a participant and keeps the terms of its acceptance.
BackedByAcceptance(rs, r) ==
    \E a \in About(rs, "accepted", r.subject) :
        r.terms = a.terms /\ r.author \in Participants(a.terms)

DualConfirmed(rs, p, terms) == Participants(terms) \subseteq Acknowledged(rs, p)

AcknowledgementsBacked(rs) ==
    \A k \in OfKind(rs, "ack") : BackedByAcceptance(rs, k)

\* validateSettlementTransferAttestation
AttestationsBacked(rs) ==
    \A k \in OfKind(rs, "attestation") :
        BackedByAcceptance(rs, k) /\ DualConfirmed(rs, k.subject, k.terms)

\* validateAuthorizedDualConfirmedSettlementTransfer
TransfersBacked(rs) ==
    \A t \in OfKind(rs, "transfer") :
        /\ BackedByAcceptance(rs, t)
        /\ DualConfirmed(rs, t.subject, t.terms)
        /\ t.by = Participants(t.terms)

\* resolveTimebankRecords returns a state instead of throwing.
Resolves(rs) ==
    /\ NoConflict(rs)
    /\ ClosuresLinked(rs)
    /\ ProposalsWellFormed(rs)
    /\ TermsPreserved(rs)
    /\ AcknowledgementsBacked(rs)
    /\ AttestationsBacked(rs)
    /\ TransfersBacked(rs)

----------------------------------------------------------------------------
\* The parts of the resolved state the handlers read.
PublishedListings(rs) ==
    {l \in OfKind(rs, "listing") : About(rs, "closure", l.subject) = {}}

\* The settlement transfer a record carries, as the ledger sees it.
LedgerTransfer(r) ==
    [id |-> r.subject, community |-> Community, source |-> r.subject,
     provider |-> r.terms.provider, recipient |-> r.terms.recipient,
     minutes |-> r.terms.minutes, reverses |-> NoId, attestedBy |-> r.by]

\* resolved.ledger.transfers names the proposal: settled and not refused for the boundary.
Settled(rs, p) ==
    \E t \in L!Admitted({LedgerTransfer(r) : r \in OfKind(rs, "transfer")}) : t.source = p

=============================================================================
