------------------------------ MODULE Exchange ------------------------------
(***************************************************************************)
(* Members of one community exchanging time from their own desktops: the   *)
(* IPC handlers of apps/desktop/src/electron/main.ts and the               *)
(* MemberIdentityService they call (member-identity.ts), over append-only  *)
(* member feeds that replicate at their own pace.                          *)
(*                                                                         *)
(* A handler resolves the records its desktop has, checks them, and then   *)
(* awaits several times before it appends: reading the stored identity,    *)
(* reading its own feed again, appending.  Each await is a step, so calls  *)
(* of one desktop interleave with one another and with every other member. *)
(* Guarded operations keep an in-progress set while they run.              *)
(***************************************************************************)
EXTENDS Records, Sequences

CONSTANTS
    MaxMinutes,  \* bound: the longest listing
    Catalogue,   \* the listings members may publish: [id, owner, side, minutes]
    Lane,        \* names for the calls of one desktop
    Slot         \* bound: <<m, i>> lets m's desktop have one call i in flight

ASSUME CatalogueType ==
    /\ MaxMinutes \in Nat
    /\ Catalogue \subseteq [id : Listing, owner : Member, side : {"offer", "request"},
                            minutes : 1 .. MaxMinutes]

ASSUME SlotType == Slot \subseteq Member \X Lane

VARIABLES
    feed,      \* feed[m]: the records m appended, in order
    replica,   \* replica[v][m]: how many of them v's desktop has replicated
    known,     \* <<v, m>>: v's desktop holds an unexpired announcement of m's feed
    calls,     \* handler calls in flight
    busy       \* the three in-progress sets of every MemberIdentityService

vars == <<feed, replica, known, calls, busy>>

Guarded == {"close", "ack", "advance"}

Call ==
    [member : Member, slot : Lane, op : Guarded \cup {"propose", "accept"},
     subject : Listing \cup Proposal, terms : ProposalTerms \cup {NoTerms},
     attested : SUBSET Member, step : {"enter", "attest", "recheck", "append"}]

Guard ==
    [member : Member, op : {"close"}, subject : Listing]
        \cup [member : Member, op : {"ack", "advance"}, subject : Proposal]

TypeOK ==
    /\ feed \in [Member -> Seq(Record)]
    /\ replica \in [Member -> [Member -> Nat]]
    /\ \A v, m \in Member : replica[v][m] <= Len(feed[m])
    /\ known \subseteq Member \X Member
    /\ calls \subseteq Call
    /\ busy \subseteq Guard

\* Every member has set up an identity: its feed is declared, and nothing is in it yet.
Init ==
    /\ feed = [m \in Member |-> <<>>]
    /\ replica = [v \in Member |-> [m \in Member |-> 0]]
    /\ known = {}
    /\ calls = {}
    /\ busy = {}

----------------------------------------------------------------------------
\* The first n records of m's feed.
Prefix(m, n) == {feed[m][i] : i \in 1 .. n}

OwnRecords(m) == Prefix(m, Len(feed[m]))

AllRecords == UNION {OwnRecords(m) : m \in Member}

\* The histories a handler reads: its own feed and what it has of every known one.
View(v) ==
    OwnRecords(v) \cup UNION {Prefix(m, replica[v][m]) : m \in {n \in Member : <<v, n>> \in known}}

AppendRecord(m, kind, x, terms, by) ==
    feed' = [feed EXCEPT ![m] =
                Append(@, [kind |-> kind, subject |-> x, author |-> m,
                           at |-> Len(feed[m]) + 1, terms |-> terms, by |-> by])]

\* An id crypto.randomUUID has not produced before.
Fresh(x) ==
    /\ \A r \in AllRecords : r.subject # x
    /\ \A c \in calls : c.subject # x

StartCall(m, s, op, x, terms, attested, step) ==
    /\ calls' = calls \cup
         {[member |-> m, slot |-> s, op |-> op, subject |-> x, terms |-> terms,
           attested |-> attested, step |-> step]}
    /\ UNCHANGED <<feed, replica, known, busy>>

\* Faulty variant: a guard that names its member and not what it works on.
GuardOfMember(c) == [member |-> c.member, op |-> c.op, subject |-> c.member]

GuardOf(c) == [member |-> c.member, op |-> c.op, subject |-> c.subject]

GoTo(c, step) == calls' = (calls \ {c}) \cup {[c EXCEPT !.step = step]}

\* Faulty variant: no finally, the guard stays.
FinishHoldingGuard(c) ==
    /\ calls' = calls \ {c}
    /\ UNCHANGED busy

\* The call ends, normally or by throwing; finally releases its guard.
Finish(c) ==
    /\ calls' = calls \ {c}
    /\ busy' = busy \ {GuardOf(c)}

----------------------------------------------------------------------------
(***************************************************************************)
(* The handlers, up to their first append.  rs is what the desktop had     *)
(* when the handler read its histories: a snapshot from then on.           *)
(***************************************************************************)

PublishListing(m) ==
    \E input \in Catalogue :
        /\ input.owner = m
        /\ Fresh(input.id)
        /\ AppendRecord(m, "listing", input.id,
                        [side |-> input.side, minutes |-> input.minutes], {})
        /\ UNCHANGED <<replica, known, calls, busy>>

CloseListing(m, s, rs) ==
    \E l \in PublishedListings(rs) :
        /\ l.author = m
        /\ StartCall(m, s, "close", l.subject, NoTerms, {}, "enter")

\* assertMatchableListings
Matchable(o, q, minutes) ==
    /\ o.terms.side = "offer"
    /\ q.terms.side = "request"
    /\ o.author # q.author
    /\ minutes > 0
    /\ minutes <= o.terms.minutes
    /\ minutes <= q.terms.minutes

CreateProposal(m, s, rs) ==
    \E p \in Proposal, o, q \in PublishedListings(rs) :
    \E minutes \in 1 .. o.terms.minutes :
        /\ Fresh(p)
        /\ Matchable(o, q, minutes)
        /\ m \in {o.author, q.author}
        /\ StartCall(m, s, "propose", p,
                     [offer |-> o.subject, request |-> q.subject, provider |-> o.author,
                      recipient |-> q.author, creator |-> m, minutes |-> minutes],
                     {}, "append")

AcceptProposal(m, s, rs) ==
    \E r \in OfKind(rs, "proposed"), o, q \in PublishedListings(rs) :
        /\ <<o.subject, q.subject>> = <<r.terms.offer, r.terms.request>>
        /\ <<o.author, q.author>> = <<r.terms.provider, r.terms.recipient>>
        /\ Matchable(o, q, r.terms.minutes)
        /\ m = Counterparty(r.terms)
        /\ StartCall(m, s, "accept", r.subject, r.terms, {}, "append")

\* Faulty variant: a proposal need not have been accepted.
AcknowledgeProposed(m, s, rs) ==
    \E a \in OfKind(rs, "proposed") :
        /\ m \notin Acknowledged(rs, a.subject)
        /\ m \in Participants(a.terms)
        /\ StartCall(m, s, "ack", a.subject, a.terms, {}, "enter")

AcknowledgeSettlement(m, s, rs) ==
    \E a \in OfKind(rs, "accepted") :
        /\ m \notin Acknowledged(rs, a.subject)
        /\ m \in Participants(a.terms)
        /\ StartCall(m, s, "ack", a.subject, a.terms, {}, "enter")

\* Faulty variant: one acknowledgement is enough to sign settlement terms.
AdvanceUnconfirmed(m, s, rs) ==
    \E a \in OfKind(rs, "accepted") :
        /\ ~Settled(rs, a.subject)
        /\ Acknowledged(rs, a.subject) # {}
        /\ m \in Participants(a.terms)
        /\ StartCall(m, s, "advance", a.subject, a.terms, Attested(rs, a.subject), "enter")

AdvanceSettlement(m, s, rs) ==
    \E a \in OfKind(rs, "accepted") :
        /\ ~Settled(rs, a.subject)
        /\ DualConfirmed(rs, a.subject, a.terms)
        /\ m \in Participants(a.terms)
        /\ StartCall(m, s, "advance", a.subject, a.terms, Attested(rs, a.subject), "enter")

\* Every handler reads and resolves the histories first, and throws if they do not resolve.
Handle(m, s) ==
    /\ \A c \in calls : <<c.member, c.slot>> # <<m, s>>
    /\ LET rs == View(m)
       IN  /\ Resolves(rs)
           /\ \/ CloseListing(m, s, rs)
              \/ CreateProposal(m, s, rs)
              \/ AcceptProposal(m, s, rs)
              \/ AcknowledgeSettlement(m, s, rs)
              \/ AdvanceSettlement(m, s, rs)

----------------------------------------------------------------------------
(***************************************************************************)
(* The rest of a call, await by await.                                     *)
(***************************************************************************)

\* Faulty variant: the member's own attestation is taken for both.
OwnIsEnough(c) == c.member \in Participants(c.terms)

\* Both participants' attestations are there once the member's own is added.
DualAttested(c) == Participants(c.terms) \subseteq c.attested \cup {c.member}

\* The member has attested and the other participant has not: nothing to do yet.
AwaitsOther(c) == c.op = "advance" /\ c.member \in c.attested /\ ~DualAttested(c)

\* "already being closed", "already acknowledging", "already being advanced", or an
\* advancement that returns before it awaits anything.
LeaveAtOnce(c) ==
    /\ c.step = "enter"
    /\ GuardOf(c) \in busy \/ AwaitsOther(c)
    /\ calls' = calls \ {c}
    /\ UNCHANGED <<feed, replica, known, busy>>

AfterEnter(c) ==
    CASE c.op = "close" -> "append"
      [] c.op = "ack" -> "recheck"
      [] c.op = "advance" -> IF c.member \in c.attested THEN "recheck" ELSE "attest"

Enter(c) ==
    /\ c.step = "enter"
    /\ GuardOf(c) \notin busy
    /\ ~AwaitsOther(c)
    /\ busy' = busy \cup {GuardOf(c)}
    /\ GoTo(c, AfterEnter(c))
    /\ UNCHANGED <<feed, replica, known>>

\* The participant's own attestation; the transfer waits for the other one.
Attest(c) ==
    /\ c.step = "attest"
    /\ AppendRecord(c.member, "attestation", c.subject, c.terms, {})
    /\ IF DualAttested(c)
       THEN GoTo(c, "recheck") /\ UNCHANGED busy
       ELSE Finish(c)
    /\ UNCHANGED <<replica, known>>

\* What a call appends last.
Written(op) ==
    CASE op = "close" -> "closure"
      [] op = "propose" -> "proposed"
      [] op = "accept" -> "accepted"
      [] op = "ack" -> "ack"
      [] op = "advance" -> "transfer"

\* Faulty variant: the snapshot is trusted and the feed is not read again.
NeverWritten(c) == FALSE

\* hasSettlementAcknowledgement, hasLedgerTransfer: the desktop's own feed, read again.
AlreadyWritten(c) == About(OwnRecords(c.member), Written(c.op), c.subject) # {}

\* Faulty variant: the early return releases nothing.
RecheckLeavingGuard(c) ==
    /\ c.step = "recheck"
    /\ IF AlreadyWritten(c)
       THEN calls' = calls \ {c}
       ELSE GoTo(c, "append")
    /\ UNCHANGED <<feed, replica, known, busy>>

Recheck(c) ==
    /\ c.step = "recheck"
    /\ IF AlreadyWritten(c)
       THEN Finish(c)
       ELSE GoTo(c, "append") /\ UNCHANGED busy
    /\ UNCHANGED <<feed, replica, known>>

\* The attestations of the snapshot with the participant's own.
Carried(c) == IF c.op = "advance" THEN c.attested \cup {c.member} ELSE {}

AppendFinal(c) ==
    /\ c.step = "append"
    /\ AppendRecord(c.member, Written(c.op), c.subject, c.terms, Carried(c))
    /\ Finish(c)
    /\ UNCHANGED <<replica, known>>

\* The feed cannot be read or written: the call throws.
FeedFails(c) ==
    /\ c.step # "enter"
    /\ Finish(c)
    /\ UNCHANGED <<feed, replica, known>>

ContinueCall(c) ==
    LeaveAtOnce(c) \/ Enter(c) \/ Attest(c) \/ Recheck(c) \/ AppendFinal(c)

----------------------------------------------------------------------------
(***************************************************************************)
(* What happens around the calls.                                          *)
(***************************************************************************)

\* The desktop process ends and starts again: feeds and replicas are on disk, calls,
\* guards and announcements are not.
Restart(m) ==
    /\ calls' = {c \in calls : c.member # m}
    /\ busy' = {g \in busy : g.member # m}
    /\ known' = {k \in known : k[1] # m}
    /\ UNCHANGED <<feed, replica>>

\* Corestore replication delivers the next record of m's feed.
Replicate(v, m) ==
    /\ v # m
    /\ replica[v][m] < Len(feed[m])
    /\ replica' = [replica EXCEPT ![v][m] = @ + 1]
    /\ UNCHANGED <<feed, known, calls, busy>>

\* receiveMemberFeedAnnouncement
Learn(v, m) ==
    /\ v # m
    /\ <<v, m>> \notin known
    /\ known' = known \cup {<<v, m>>}
    /\ UNCHANGED <<feed, replica, calls, busy>>

\* pruneExpiredMemberFeedAnnouncements
Expire(v, m) ==
    /\ <<v, m>> \in known
    /\ known' = known \ {<<v, m>>}
    /\ UNCHANGED <<feed, replica, calls, busy>>

Next ==
    \/ \E m \in Member : PublishListing(m) \/ Restart(m)
    \/ \E slot \in Slot : Handle(slot[1], slot[2])
    \/ \E c \in calls : ContinueCall(c) \/ FeedFails(c)
    \/ \E v, m \in Member : Replicate(v, m) \/ Learn(v, m) \/ Expire(v, m)

Spec == Init /\ [][Next]_vars

\* An awaited promise settles, and connected desktops replicate.
Fairness ==
    /\ \A slot \in Slot :
          WF_vars(\E c \in calls : <<c.member, c.slot>> = slot /\ ContinueCall(c))
    /\ \A v, m \in Member : WF_vars(Replicate(v, m))

FairSpec == Spec /\ Fairness
----------------------------------------------------------------------------
(***************************************************************************)
(* Properties                                                              *)
(***************************************************************************)

\* The in-progress sets hold exactly the guarded calls that are running, one call each:
\* no early return, thrown append or restart leaks a guard, and no call runs under a
\* guard that another call already released.
InProgressExact ==
    LET running == {c \in calls : c.op \in Guarded /\ c.step # "enter"}
    IN  /\ busy = {GuardOf(c) : c \in running}
        /\ \A c, d \in running : GuardOf(c) = GuardOf(d) => c = d

\* However stale the snapshot a call started from, no feed ever holds two
\* acknowledgements or two settlement transfers of one proposal: the guard and the
\* second read of the feed together make these appends happen once, restarts included.
RecheckedAppendsOnce ==
    \A m \in Member, p \in Proposal, kind \in {"ack", "transfer"} :
        Cardinality(About(OwnRecords(m), kind, p)) <= 1

\* Taken together the feeds always hold the evidence for every record in them, although
\* each was written from a partial view: the only reason a complete history may fail to
\* resolve is two records of one id.
EvidenceComplete ==
    /\ ClosuresLinked(AllRecords)
    /\ ProposalsWellFormed(AllRecords)
    /\ TermsPreserved(AllRecords)
    /\ AcknowledgementsBacked(AllRecords)
    /\ AttestationsBacked(AllRecords)
    /\ TransfersBacked(AllRecords)

\* A guarded operation never stays in progress: however its calls end, the member can
\* try again.
GuardsReleased == \A g \in Guard : g \in busy ~> g \notin busy

\* A desktop that keeps the announcements of all feeds resolves the community again and
\* again, unless two records of one id have been published.
ViewsHeal ==
    \A v \in Member :
        <>[](\A m \in Member \ {v} : <<v, m>> \in known)
            => []<>(Resolves(View(v)) \/ ~NoConflict(AllRecords))

\* The deals the proposal records of all feeds describe, and who did what about them.
DealOf(r) ==
    [id |-> r.subject, provider |-> r.terms.provider, recipient |-> r.terms.recipient,
     creator |-> r.terms.creator, minutes |-> r.terms.minutes]

Done(kind) == {<<DealOf(r), r.author>> : r \in OfKind(AllRecords, kind)}

Deals == {DealOf(r) : r \in OfKind(AllRecords, "proposed")}

A == INSTANCE Agreement WITH
        Id <- Proposal, Party <- Member, Minutes <- 1 .. MaxMinutes,
        deals <- Deals, accepted <- Done("accepted"), acknowledged <- Done("ack"),
        attested <- Done("attestation"), transferred <- Done("transfer")

\* The desktops implement Agreement: every append is one step of it, about the same deal
\* on the same terms, and nothing else a desktop or the network does is visible to it.
AgreementKept == A!Spec

----------------------------------------------------------------------------
(***************************************************************************)
(* What comments in the code say of the records, and calls can break.      *)
(***************************************************************************)

\* "independent publishers [get] the same immutable record identity instead of competing
\* alternatives": one settlement record per proposal.
OneSettlementRecord ==
    \A p \in Proposal : Cardinality(About(AllRecords, "transfer", p)) <= 1

=============================================================================
