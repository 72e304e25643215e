----------------------------- MODULE Discovery -----------------------------
(***************************************************************************)
(* How runtimes learn of each other's member feeds: the announcement cache *)
(* of PeerRuntime (packages/peer-runtime/src/index.ts) and the extension   *)
(* messages that fill it.  A runtime that learns an announcement opens the *)
(* feed and then sends everything it knows to every peer it is linked to.  *)
(***************************************************************************)
EXTENDS Integers, Sequences, FiniteSets, SequencesExt

CONSTANTS
    Runtime,      \* members' desktops and community nodes
    Feed,         \* member feeds
    Owner,        \* the runtime that owns a feed
    Topology,     \* the pairs of runtimes that may be linked
    MaxFeeds,     \* MAX_DISCOVERED_MEMBER_FEEDS
    Lifetime,     \* for how long an announcement is valid
    MaxTime,      \* bound: the clock
    OpeningFails  \* whether opening an announced feed may fail

ASSUME DiscoveryConstants ==
    /\ Owner \in [Feed -> Runtime]
    /\ \A p \in Topology : \E r, q \in Runtime : r # q /\ p = {r, q}
    /\ MaxFeeds \in Nat /\ Lifetime \in Nat \ {0} /\ MaxTime \in Nat
    /\ OpeningFails \in BOOLEAN

VARIABLES
    now,       \* the clock
    cache,     \* discoveredMemberFeedAnnouncements of each runtime
    opening,   \* announcements whose feed a runtime is opening
    own,       \* announcements the running process has published
    links,     \* pairs of runtimes that share the discovery core
    wire       \* announcements on their way from one runtime to another

vars == <<now, cache, opening, own, links, wire>>

Announcement == [feed : Feed, at : 0 .. MaxTime]

TypeOK ==
    /\ now \in 0 .. MaxTime
    /\ cache \in [Runtime -> SUBSET Announcement]
    /\ opening \in [Runtime -> SUBSET Announcement]
    /\ own \in [Runtime -> SUBSET Announcement]
    /\ links \subseteq Topology
    /\ wire \in [Runtime \X Runtime -> Seq(Announcement)]

Init ==
    /\ now = 0
    /\ cache = [r \in Runtime |-> {}]
    /\ opening = [r \in Runtime |-> {}]
    /\ own = [r \in Runtime |-> {}]
    /\ links = {}
    /\ wire = [p \in Runtime \X Runtime |-> <<>>]

----------------------------------------------------------------------------

Valid(a) == now < a.at + Lifetime

KnownFeeds(known) == {a.feed : a \in known}

\* Faulty variant: the limit is compared after the addition.
RemembersOneMore(known, a) ==
    a \notin known /\ (a.feed \in KnownFeeds(known) \/ Cardinality(known) <= MaxFeeds)

\* Faulty variant: duplicates are not noticed.
RemembersAgain(known, a) == a.feed \in KnownFeeds(known) \/ Cardinality(known) < MaxFeeds

\* rememberMemberFeedAnnouncement answers true: not what is known already, and within the
\* limit unless the feed has an entry.  Expired entries still count.
Remembers(known, a) ==
    a \notin known /\ (a.feed \in KnownFeeds(known) \/ Cardinality(known) < MaxFeeds)

\* The entry of a feed is replaced, whichever announcement is the older one.
Remember(known, a) == {b \in known : b.feed # a.feed} \cup {a}

\* Faulty variant: an announcement is dropped a moment after it has expired.
UnexpiredOrLast(known) == {a \in known : now <= a.at + Lifetime}

\* pruneExpiredMemberFeedAnnouncements
Unexpired(known) == {a \in known : Valid(a)}

\* The messages of s that are not among the known announcements.
Without(s, known) ==
    LET kept[i \in 0 .. Len(s)] ==
          IF i = 0 THEN <<>>
          ELSE IF s[i] \in known THEN kept[i - 1] ELSE Append(kept[i - 1], s[i])
    IN  kept[Len(s)]

\* extension.broadcast of each announcement to each linked peer.  One that is already on
\* its way there counts once, at its new place.
Sent(w, r, known, on) ==
    [p \in Runtime \X Runtime |->
        IF p[1] = r /\ {r, p[2]} \in on
        THEN Without(w[p], known) \o SetToSeq(known)
        ELSE w[p]]

\* broadcastMemberFeedAnnouncements: prune, then send the rest.
Broadcast(r, known) ==
    /\ cache' = [cache EXCEPT ![r] = Unexpired(known)]
    /\ wire' = Sent(wire, r, Unexpired(known), links)

\* publishMemberFeedAnnouncement: whether it is remembered is not looked at.  Two calls
\* never carry the same time.
Publish(f) ==
    LET r == Owner[f]
        a == [feed |-> f, at |-> now]
    IN  /\ a \notin own[r]
        /\ own' = [own EXCEPT ![r] = @ \cup {a}]
        /\ Broadcast(r, IF Remembers(cache[r], a) THEN Remember(cache[r], a) ELSE cache[r])
        /\ UNCHANGED <<now, opening, links>>

\* receiveMemberFeedAnnouncement up to its await.
Receive(r, q) ==
    LET a == Head(wire[<<r, q>>])
    IN  /\ wire[<<r, q>>] # <<>>
        /\ wire' = [wire EXCEPT ![<<r, q>>] = Tail(@)]
        /\ IF Valid(a) /\ Remembers(cache[q], a)
           THEN /\ cache' = [cache EXCEPT ![q] = Remember(@, a)]
                /\ opening' = [opening EXCEPT ![q] = @ \cup {a}]
           ELSE UNCHANGED <<cache, opening>>
        /\ UNCHANGED <<now, own, links>>

\* The feed is open: everything known is sent on.
Opened(r, a) ==
    /\ a \in opening[r]
    /\ opening' = [opening EXCEPT ![r] = @ \ {a}]
    /\ Broadcast(r, cache[r])
    /\ UNCHANGED <<now, own, links>>

\* readMemberRecordsFromFeed throws: the announcement stays and is not sent on.
OpenFails(r, a) ==
    /\ OpeningFails
    /\ a \in opening[r]
    /\ opening' = [opening EXCEPT ![r] = @ \ {a}]
    /\ UNCHANGED <<now, cache, own, links, wire>>

\* knownMemberFeeds, from status() or a handler.
Status(r) ==
    /\ Unexpired(cache[r]) # cache[r]
    /\ cache' = [cache EXCEPT ![r] = Unexpired(@)]
    /\ UNCHANGED <<now, opening, own, links, wire>>

\* Faulty variant: the new peer is told at the next broadcast.
LinkQuietly(r, q) ==
    /\ {r, q} \in Topology \ links
    /\ links' = links \cup {{r, q}}
    /\ UNCHANGED <<now, cache, opening, own, wire>>

\* peer-add at both ends: each sends what it knows to all its peers.
Link(r, q) ==
    /\ {r, q} \in Topology \ links
    /\ links' = links \cup {{r, q}}
    /\ cache' = [cache EXCEPT ![r] = Unexpired(@), ![q] = Unexpired(@)]
    /\ wire' = Sent(Sent(wire, r, cache'[r], links'), q, cache'[q], links')
    /\ UNCHANGED <<now, opening, own>>

\* The link breaks, and what is on its way is lost.
Unlink(r, q) ==
    /\ {r, q} \in links
    /\ links' = links \ {{r, q}}
    /\ wire' = [wire EXCEPT ![<<r, q>>] = <<>>, ![<<q, r>>] = <<>>]
    /\ UNCHANGED <<now, cache, opening, own>>

\* The process ends and starts again: announcements are not stored.
Restart(r) ==
    /\ cache[r] # {} \/ own[r] # {}
    /\ cache' = [cache EXCEPT ![r] = {}]
    /\ opening' = [opening EXCEPT ![r] = {}]
    /\ own' = [own EXCEPT ![r] = {}]
    /\ links' = {l \in links : r \notin l}
    /\ wire' = [p \in Runtime \X Runtime |-> IF r \in {p[1], p[2]} THEN <<>> ELSE wire[p]]
    /\ UNCHANGED now

Tick ==
    /\ now < MaxTime
    /\ now' = now + 1
    /\ UNCHANGED <<cache, opening, own, links, wire>>

Next ==
    \/ \E f \in Feed : Publish(f)
    \/ \E r, q \in Runtime : Receive(r, q) \/ Link(r, q) \/ Unlink(r, q)
    \/ \E r \in Runtime, a \in Announcement : Opened(r, a) \/ OpenFails(r, a)
    \/ \E r \in Runtime : Status(r) \/ Restart(r)
    \/ Tick

Spec == Init /\ [][Next]_vars

\* A message on a link that holds arrives, and an opening comes to an end.
FairSpec ==
    /\ Spec
    /\ \A r, q \in Runtime : WF_vars(Receive(r, q))
    /\ \A r \in Runtime, a \in Announcement : WF_vars(Opened(r, a) \/ OpenFails(r, a))

----------------------------------------------------------------------------
(* Properties. *)

\* The cache has one entry for a feed and never more than the limit, although the limit is
\* checked only for feeds without an entry (index.ts:613).
CacheBounded ==
    \A r \in Runtime :
        /\ Cardinality(cache[r]) <= MaxFeeds
        /\ \A a, b \in cache[r] : a.feed = b.feed => a = b

\* What a runtime sends has not expired at that moment, however long it has been cached
\* (index.ts:620).
NothingExpiredSent ==
    [][\A p \in Runtime \X Runtime :
         \A a \in ToSet(wire'[p]) \ ToSet(wire[p]) : now < a.at + Lifetime]_vars

InCirculation(f) ==
    {a \in Announcement :
        /\ a.feed = f /\ Valid(a)
        /\ \E r \in Runtime : \/ a \in cache[r] \cup own[r]
                              \/ \E q \in Runtime : a \in ToSet(wire[<<r, q>>])}

Unambiguous == \A f \in Feed : Cardinality(InCirculation(f)) <= 1

\* Linked runtimes come to know the same feeds, directly or through others, once links and
\* announcements are stable: the one that knows a feed has sent it, or sends it after
\* opening it (index.ts:600-604).  While two announcements of a feed are valid the older
\* may displace the newer and expire first.
LinkedPeersLearn ==
    ([]Unambiguous /\ <>[][UNCHANGED <<links, own, now>>]_vars)
        => <>[](\A r, q \in Runtime :
                  {r, q} \in links =>
                    \A a \in cache[r] : Valid(a) => a.feed \in KnownFeeds(cache[q]))

\* Runtimes that send everything they know whenever they learn something fall silent when
\* links and announcements are stable.  Two valid announcements of one feed may displace
\* each other for ever.
RelayingEnds ==
    (<>[]Unambiguous /\ <>[][links' = links /\ own' = own]_vars)
        => <>[](\A p \in Runtime \X Runtime : wire[p] = <<>>)
=============================================================================
