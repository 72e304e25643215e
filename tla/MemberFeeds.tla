---------------------------- MODULE MemberFeeds ----------------------------
(***************************************************************************)
(* The feeds of the members of one community, and which keys and records a *)
(* reader admits from them: packages/timebank-identity (declarations, key  *)
(* statements, the verifier) and packages/timebank-records                 *)
(* (feed-resolution.ts, self-owned-identity-records.ts,                    *)
(* root-signed-key-lifecycle-records.ts, member-signed-record.ts and the   *)
(* identity part of resolve.ts).                                           *)
(*                                                                         *)
(* A feed is append-only and has one writer.  A reader holds some prefix   *)
(* of some feeds, so it is modelled by a cut: the number of records it     *)
(* reads of each feed.  Resolution is a function of what the cut shows,    *)
(* and all or nothing: one record that breaks a rule throws.               *)
(*                                                                         *)
(* A signature is modelled by the key that made it; who signs what is the  *)
(* writer's doing, and nobody signs with a key of somebody else.           *)
(***************************************************************************)
EXTENDS Integers, Sequences, FiniteSets

CONSTANTS
    Member,        \* member ids; the id of a member also names its root key
    Feed,          \* member feeds
    Holder,        \* the member whose root key the writer of a feed holds
    DeviceKey,     \* ids of device keys
    ListingId,     \* ids of listings
    ClockForward,  \* the wall clock of a writer never steps back
    MaxTime,       \* bound: times of key statements
    MaxLength,     \* bound: records of one feed
    MaxRecords,    \* bound: records of all feeds
    MaxCopies      \* bound: records copied into a feed of somebody else

ASSUME FeedConstants ==
    /\ Holder \in [Feed -> Member]
    /\ ClockForward \in BOOLEAN
    /\ MaxTime \in Nat /\ MaxLength \in Nat /\ MaxRecords \in Nat /\ MaxCopies \in Nat
    /\ Member \cap DeviceKey = {}
    /\ Feed \cap DeviceKey = {} /\ Feed \cap ListingId = {}

VARIABLE log       \* the records of each feed, in order

vars == log

Lifecycle == {"activate", "revoke"}

Domain == {"listing", "closure"}

(***************************************************************************)
(* subject is the feed a declaration names, the key a statement is about,  *)
(* or a listing.  key is the key that signed.  at orders the statements    *)
(* about a key: the pair of occurredAt and event id, which no two of them  *)
(* share; of any other record it is the position in its feed.  A listing   *)
(* stands for every domain record whose source feed is checked.            *)
(***************************************************************************)
Record ==
    [kind : {"declare"} \cup Lifecycle \cup Domain, author : Member,
     subject : Feed \cup DeviceKey \cup ListingId,
     key : Member \cup DeviceKey, at : Nat]

TypeOK == log \in [Feed -> Seq(Record)]

Init == log = [f \in Feed |-> <<>>]

----------------------------------------------------------------------------
(* What a reader sees. *)

Written(f) == {log[f][i] : i \in DOMAIN log[f]}

Cuts == {c \in [Feed -> 0 .. MaxLength] : \A f \in Feed : c[f] <= Len(log[f])}

\* The records of a cut, each with the feed it was read from.
View(c) == UNION {{<<f, log[f][i]>> : i \in 1 .. c[f]} : f \in Feed}

RecordsOf(v) == {p[2] : p \in v}

RecordId(r) ==
    CASE r.kind = "declare"      -> <<r.kind, r.author, r.subject>>
      [] r.kind \in Lifecycle    -> <<r.kind, r.subject, r.at>>
      [] OTHER                   -> <<r.kind, r.subject>>

\* canonicalRecordEnvelope: the signature of a domain record is not part of it.
Envelope(r) == <<r.kind, r.author, r.subject, r.at>>

Declarations(v) == {r \in RecordsOf(v) : r.kind = "declare"}

DeclaredFeeds(v, m) == {r.subject : r \in {d \in Declarations(v) : d.author = m}}

Statements(v, m, k) ==
    {r \in RecordsOf(v) : r.kind \in Lifecycle /\ r.author = m /\ r.subject = k}

----------------------------------------------------------------------------
(* What makes resolution throw. *)

\* reduceRecordEnvelopes
NoConflict(v) ==
    \A r, s \in RecordsOf(v) : RecordId(r) = RecordId(s) => Envelope(r) = Envelope(s)

\* declaredFeedKeysByMember
OneMemberPerFeed(v) ==
    \A r, s \in Declarations(v) : r.subject = s.subject => r.author = s.author

\* isMemberAuthoredRecord: a closure is not in the list.
SourceChecked(r) == r.kind \in Lifecycle \cup {"listing"}

\* Faulty variant: only key statements are checked.
FromDeclaredFeedsStatementsOnly(v) ==
    \A p \in v : p[2].kind \in Lifecycle => p[1] \in DeclaredFeeds(v, p[2].author)

\* resolveTimebankMemberFeeds
FromDeclaredFeeds(v) ==
    \A p \in v : SourceChecked(p[2]) => p[1] \in DeclaredFeeds(v, p[2].author)

\* reduceProvenRootSignedMemberSigningKeyLifecycleRecords
RootsDeclared(v) ==
    \A r \in RecordsOf(v) : r.kind \in Lifecycle => DeclaredFeeds(v, r.author) # {}

\* reduceRootSignedMemberSigningKeyLifecycles: no activation sorts after a revocation.
NoReactivation(v) ==
    \A m \in Member, k \in DeviceKey : \A r, s \in Statements(v, m, k) :
        r.kind = "revoke" /\ s.kind = "activate" => s.at < r.at

\* reduceMemberSigningKeyAuthorizationEvents: the statement that sorts last decides.
KeyActive(v, m, k) ==
    \E s \in Statements(v, m, k) :
        s.kind = "activate" /\ \A t \in Statements(v, m, k) : t.at <= s.at

\* memberFeedDeclarationsToAuthorizations gives a root key once for each declared feed.
Authorizations(v) ==
    {[member |-> d.author, key |-> d.author, source |-> d.subject, active |-> TRUE] :
        d \in Declarations(v)}
    \cup
    {[member |-> s.author, key |-> s.subject, source |-> s.subject,
      active |-> KeyActive(v, s.author, s.subject)] :
        s \in {r \in RecordsOf(v) : r.kind = "activate"}}

\* Faulty variant: a key may be authorized any number of times.
AuthorizedOnceUnchecked(v) == v = v

\* indexAuthorizedKeys: a key id is authorized once in the community, for one member.
AuthorizedOnce(v) == \A a, b \in Authorizations(v) : a.key = b.key => a = b

\* The key has one entry, of that member, and the entry is active.
ActiveKey(v, m, k) ==
    \E a \in Authorizations(v) : a.active /\ a.member = m /\ a.key = k

\* verifyMemberSignedRecord: the key that signed is an active one of the author.
Verifies(v, r) == ActiveKey(v, r.author, r.key)

\* assertMemberSignedDomainRecords
SignedByActiveKey(v) == \A r \in RecordsOf(v) : r.kind \in Domain => Verifies(v, r)

\* A closure is signed by the owner of a published listing.
ClosuresLinked(v) ==
    \A r \in RecordsOf(v) : r.kind = "closure" =>
        \E l \in RecordsOf(v) :
            l.kind = "listing" /\ l.subject = r.subject /\ l.author = r.author

\* resolveTimebankMemberFeeds returns a state.
Resolves(v) ==
    /\ OneMemberPerFeed(v)
    /\ FromDeclaredFeeds(v)
    /\ NoConflict(v)
    /\ RootsDeclared(v)
    /\ NoReactivation(v)
    /\ AuthorizedOnce(v)
    /\ SignedByActiveKey(v)
    /\ ClosuresLinked(v)

Open(v, l) ==
    /\ \E r \in RecordsOf(v) : r.kind = "listing" /\ r.subject = l
    /\ \A r \in RecordsOf(v) : ~ (r.kind = "closure" /\ r.subject = l)

----------------------------------------------------------------------------
(* What the writers do. *)

Total == LET sum[S \in SUBSET Feed] ==
                 IF S = {} THEN 0
                 ELSE LET f == CHOOSE g \in S : TRUE IN Len(log[f]) + sum[S \ {f}]
         IN  sum[Feed]

AppendRecord(f, r) ==
    /\ Len(log[f]) < MaxLength /\ Total < MaxRecords
    /\ log' = [log EXCEPT ![f] = Append(@, r)]

Position(f) == Len(log[f]) + 1

\* createMemberFeedDeclaration
Declaration(f) ==
    [kind |-> "declare", author |-> Holder[f], subject |-> f,
     key |-> Holder[f], at |-> Position(f)]

\* createRootSignedMemberSigningKeyLifecycle
KeyStatement(f, kind, k, t) ==
    [kind |-> kind, author |-> Holder[f], subject |-> k, key |-> Holder[f], at |-> t]

\* createMemberSignedRecord
MemberSignedRecord(f, kind, l, k) ==
    [kind |-> kind, author |-> Holder[f], subject |-> l, key |-> k, at |-> Position(f)]

\* What the writer itself reads of its feed.
Own(f) == {<<f, r>> : r \in Written(f)}

\* new Date() of a statement, with the event id that breaks ties.
NextTime(f, t) ==
    /\ t \in 1 .. MaxTime
    /\ \A r \in Written(f) : r.kind \in Lifecycle =>
          IF ClockForward THEN r.at < t ELSE r.at # t

\* Faulty variant: the feed is declared at every setup.
DeclareFeedAgain(f) == AppendRecord(f, Declaration(f))

\* createAndAnnounceOnce: the feed of the desktop is declared unless it is already.
DeclareFeed(f) ==
    /\ f \notin DeclaredFeeds(Own(f), Holder[f])
    /\ AppendRecord(f, Declaration(f))

\* activateDeviceSigningKeyOnce: a new key, whether or not the feed is declared.
ActivateDeviceSigningKey(f, k) ==
    /\ \A g \in Feed : \A r \in Written(g) : r.subject # k
    /\ \E t \in 1 .. MaxTime :
          NextTime(f, t) /\ AppendRecord(f, KeyStatement(f, "activate", k, t))

\* revokeDeviceSigningKey: the latest statement of the own feed says the key is active.
RevokeDeviceSigningKey(f, k) ==
    /\ KeyActive(Own(f), Holder[f], k)
    /\ \E t \in 1 .. MaxTime :
          NextTime(f, t) /\ AppendRecord(f, KeyStatement(f, "revoke", k, t))

\* publishListing signs with the root key; createMemberSignedRecord takes a device key too.
PublishListing(f, l, k) ==
    /\ \A g \in Feed : \A r \in Written(g) : r.subject # l
    /\ k = Holder[f] \/ KeyActive(Own(f), Holder[f], k)
    /\ AppendRecord(f, MemberSignedRecord(f, "listing", l, k))

\* closeListing: an open listing of the member in what its desktop resolves.
CloseListing(f, l, k) ==
    /\ k = Holder[f] \/ KeyActive(Own(f), Holder[f], k)
    /\ \E c \in Cuts :
          /\ c[f] = Len(log[f])
          /\ Resolves(View(c)) /\ Open(View(c), l)
    /\ \E g \in Feed : \E r \in Written(g) :
          r.kind = "listing" /\ r.subject = l /\ r.author = Holder[f]
    /\ AppendRecord(f, MemberSignedRecord(f, "closure", l, k))

Copied(f) == {i \in DOMAIN log[f] : log[f][i].author # Holder[f]}

\* Other software may append records of others, as they are, to its own feed.
CopyRecord(f, g) ==
    /\ Holder[f] # Holder[g]
    /\ Cardinality(Copied(f)) < MaxCopies
    /\ \E r \in Written(g) :
          /\ r.author = Holder[g] /\ r \notin Written(f)
          /\ AppendRecord(f, r)

Next ==
    \E f \in Feed :
        \/ DeclareFeed(f)
        \/ \E k \in DeviceKey :
              ActivateDeviceSigningKey(f, k) \/ RevokeDeviceSigningKey(f, k)
        \/ \E l \in ListingId, k \in {Holder[f]} \cup DeviceKey :
              PublishListing(f, l, k) \/ CloseListing(f, l, k)
        \/ \E g \in Feed : CopyRecord(f, g)

Spec == Init /\ [][Next]_vars

----------------------------------------------------------------------------
(* Properties. *)

\* A record whose feed its author has not declared in the view, as every record of a
\* feed that is written before its declaration and cut before it.
UndeclaredIn(v) ==
    \E p \in v : SourceChecked(p[2]) /\ Holder[p[1]] = p[2].author
                 /\ p[1] \notin DeclaredFeeds(v, p[2].author)

\* A record that was copied into a feed of somebody else.
CopiedIn(v) == \E p \in v : Holder[p[1]] # p[2].author

\* A revocation dated before the activation it revokes.
BackdatedIn(v) ==
    \E r, s \in RecordsOf(v) :
        /\ r.kind = "revoke" /\ s.kind = "activate"
        /\ r.subject = s.subject /\ r.at < s.at

\* Two feeds that one member has declared.
TwoFeedsIn(v) == \E m \in Member : \E f, g \in DeclaredFeeds(v, m) : f # g

\* A record signed by a device key that was revoked later.
RetiredSignerIn(v) ==
    \E r, s \in RecordsOf(v) : r.kind \in Domain /\ s.kind = "revoke" /\ r.key = s.subject

\* A closure read from a feed other than the one its listing was written to.
ForeignClosureIn(v) ==
    \E p \in v : p[2].kind = "closure"
                 /\ \A r \in Written(p[1]) : ~ (r.kind = "listing" /\ r.subject = p[2].subject)

\* Whatever members do in whatever order, a reader of any prefixes of any feeds resolves,
\* unless what it reads holds one of these six; no other check of the resolver
\* (resolve.ts:98, feed-resolution.ts:55) is ever what stops it.
OnlyTheseBlock ==
    \A c \in Cuts :
        LET v == View(c) IN
        \/ Resolves(v)
        \/ UndeclaredIn(v) \/ CopiedIn(v) \/ BackdatedIn(v)
        \/ TwoFeedsIn(v) \/ RetiredSignerIn(v) \/ ForeignClosureIn(v)

\* Three of them are final: no record that arrives later unblocks the reader, because
\* feeds are append-only and resolution has no way to set a record aside.
FinalBlocks ==
    \A c \in Cuts :
        BackdatedIn(View(c)) \/ TwoFeedsIn(View(c)) \/ RetiredSignerIn(View(c))
        => \A d \in Cuts : (\A f \in Feed : c[f] <= d[f]) => ~ Resolves(View(d))

\* What a reader resolves was written by its author: a record of a checked kind came
\* through a feed whose writer holds the author's root key, copies and all.
AuthorsSpeakForThemselves ==
    \A c \in Cuts : Resolves(View(c)) =>
        \A p \in View(c) : SourceChecked(p[2]) => Holder[p[1]] = p[2].author

=============================================================================
