---------------------------- MODULE PeerRuntime ----------------------------
(***************************************************************************)
(* The lifecycle of one PeerRuntime (packages/peer-runtime/src/index.ts):  *)
(* start and stop, the bootstrap endpoints it asks and falls back to, and  *)
(* the selection of a community.  start, stop, every fetch of a manifest   *)
(* and every selection run interleaved; each step below ends at an await.  *)
(***************************************************************************)
EXTENDS Integers, Sequences, FiniteSets, SequencesExt

CONSTANTS
    Community,    \* communities; each stands for its discovery core, too
    Endpoint,     \* bootstrap endpoints
    UrlLists,     \* the endpoints a runtime may be constructed with, in order
    Pins,         \* the discovery cores it may be constructed with: None is no pinned core
    Own,          \* the network core of this runtime
    None,
    FetchId,      \* bound: manifests fetched at the same time
    SelectionId   \* bound: communities created or joined at the same time

ASSUME RuntimeConstants ==
    /\ \A l \in UrlLists : l \in Seq(Endpoint) /\ IsInjective(l)
    /\ Pins \subseteq Community \cup {None}
    /\ Own \notin Community /\ None \notin Community \cup Endpoint \cup {Own}
    /\ FetchId # {}

VARIABLES
    pinned,     \* bootstrapKey
    start,      \* where start() is
    stop,       \* where stop() is
    store,      \* the Corestore
    swarm,      \* the Hyperswarm
    timers,     \* the refresh timers are set
    ext,        \* the core the announcement extension is registered on
    core,       \* bootstrapCore
    community,  \* the selected community
    urls,       \* bootstrapUrls: configured and learned
    active,     \* activeBootstrapUrl
    bootstrap,  \* bootstrapState
    fetches,    \* fetchBootstrapKey calls in flight
    selections, \* createCommunity and joinCommunity calls in flight
    overlapped  \* history: stop was called while start was running

resources == <<store, swarm, timers, ext, stop>>
scope == <<core, community>>
endpoints == <<urls, active, bootstrap, fetches>>
given == <<pinned, overlapped>>
vars == <<given, start, resources, scope, endpoints, selections>>

Await == {"mkdir", "cores", "listen", "fetch", "ready"}
Settled == {"done", "failed"}

\* A fetch walks through the endpoints; the live array while none has answered yet.
FetchCall == [id : FetchId, byStart : BOOLEAN, list : Seq(Endpoint), live : BOOLEAN, next : Nat]

Selection == [id : SelectionId, community : Community, step : {"open", "moving"}]

TypeOK ==
    /\ start \in {"idle", "stopping"} \cup Await \cup Settled
    /\ stop \in {"none", "swarm", "store"} \cup Settled
    /\ store \in {"none", "open", "closed"}
    /\ swarm \in {"none", "up", "destroyed"}
    /\ timers \in BOOLEAN
    /\ ext \in Community \cup {Own, None}
    /\ core \in Community \cup {None}
    /\ community \in Community \cup {None}
    /\ urls \in Seq(Endpoint)
    /\ active \in Endpoint \cup {None}
    /\ bootstrap \in {"not-configured", "fetching", "fetched", "error"}
    /\ fetches \subseteq FetchCall
    /\ selections \subseteq Selection
    /\ pinned \in Pins /\ overlapped \in BOOLEAN

Init ==
    /\ pinned \in Pins /\ overlapped = FALSE
    /\ start = "idle" /\ stop = "none"
    /\ store = "none" /\ swarm = "none" /\ timers = FALSE
    /\ ext = None /\ core = None /\ community = None
    /\ urls \in UrlLists /\ active = None /\ bootstrap = "not-configured"
    /\ fetches = {} /\ selections = {}

----------------------------------------------------------------------------
(* Bootstrap. *)

\* bootstrapEndpointsInRetryOrder
RetryOrder == IF active = None THEN urls ELSE <<active>> \o SelectSeq(urls, LAMBDA u : u # active)

BeginFetch(byStart) ==
    /\ \E i \in FetchId :
         /\ \A f \in fetches : f.id # i
         /\ fetches' = fetches \cup
              {[id |-> i, byStart |-> byStart, list |-> RetryOrder, live |-> active = None, next |-> 1]}
    /\ bootstrap' = "fetching"
    /\ UNCHANGED <<urls, active>>

ListOf(f) == IF f.live THEN urls ELSE f.list

\* Faulty variant: only the pinned key is compared.
CompatiblePin(m) == pinned # None => m = pinned

\* requireCompatibleCommunityManifest, after the answer has arrived.
Compatible(m) ==
    /\ pinned # None => m = pinned
    /\ community # None => m = community

\* rememberBootstrapEndpoints
Learned(known, nodes) == known \o SelectSeq(nodes, LAMBDA u : u \notin ToSet(known))

\* Faulty variant: registering replaces the extension that is there.
RegisteredAnew(on) == on

\* registerMemberFeedAnnouncementExtension does nothing when there is one.
Registered(on) == IF ext = None THEN on ELSE ext

\* start() goes on after its fetch, or without one.
StartWithKey(k) ==
    /\ core' = k
    /\ start' = "ready"
    /\ UNCHANGED resources

StartWithoutKey ==
    /\ ext' = Registered(Own)
    /\ timers' = (urls # <<>>)
    /\ start' = "done"
    /\ UNCHANGED <<store, swarm, stop, core>>

\* Endpoints answer with the manifest of a community and further endpoints.
Answer(f, m, nodes) ==
    /\ f.next <= Len(ListOf(f)) /\ Compatible(m)
    /\ urls' = Learned(urls, nodes)
    /\ active' = ListOf(f)[f.next]
    /\ community' = m
    /\ bootstrap' = "fetched"
    /\ fetches' = fetches \ {f}
    /\ IF f.byStart THEN StartWithKey(m) ELSE UNCHANGED <<start, resources, core>>
    /\ UNCHANGED <<given, selections>>

\* A failed request, an invalid manifest or an incompatible one: the next endpoint.
NoAnswer(f) ==
    /\ f.next < Len(ListOf(f))
    /\ fetches' = (fetches \ {f}) \cup {[f EXCEPT !.next = @ + 1]}
    /\ UNCHANGED <<given, start, resources, scope, urls, active, bootstrap, selections>>

\* Faulty variant: the state is left as it was when no endpoint answers.
ExhaustedSilently(f) ==
    /\ f.next >= Len(ListOf(f))
    /\ fetches' = fetches \ {f}
    /\ IF f.byStart THEN StartWithoutKey ELSE UNCHANGED <<start, resources, core>>
    /\ UNCHANGED <<given, community, urls, active, bootstrap, selections>>

\* No endpoint is left.
Exhausted(f) ==
    /\ f.next >= Len(ListOf(f))
    /\ bootstrap' = "error"
    /\ fetches' = fetches \ {f}
    /\ IF f.byStart THEN StartWithoutKey ELSE UNCHANGED <<start, resources, core>>
    /\ UNCHANGED <<given, community, urls, active, selections>>

\* The refresh timer.  The bound on fetches is the only reason it may not fire.
Refresh ==
    /\ timers
    /\ BeginFetch(FALSE)
    /\ UNCHANGED <<given, start, resources, scope, selections>>

----------------------------------------------------------------------------
(* Start and stop. *)

Start ==
    /\ start = "idle" /\ stop = "none"
    /\ start' = "mkdir"
    /\ UNCHANGED <<given, resources, scope, endpoints, selections>>

\* new Corestore; the cores are awaited next.
OpenStore ==
    /\ start = "mkdir"
    /\ store' = "open"
    /\ start' = "cores"
    /\ UNCHANGED <<given, swarm, timers, ext, stop, scope, endpoints, selections>>

\* startNetworking
OpenSwarm ==
    /\ start = "cores"
    /\ swarm' = "up"
    /\ start' = "listen"
    /\ UNCHANGED <<given, store, timers, ext, stop, scope, endpoints, selections>>

Listening ==
    /\ start = "listen"
    /\ \/ /\ pinned # None
          /\ bootstrap' = "fetched" /\ UNCHANGED <<urls, active, fetches>>
          /\ StartWithKey(pinned)
       \/ /\ pinned = None /\ urls = <<>>
          /\ StartWithoutKey
          /\ UNCHANGED endpoints
       \/ /\ pinned = None /\ urls # <<>>
          /\ BeginFetch(TRUE)
          /\ start' = "fetch"
          /\ UNCHANGED <<resources, core>>
    /\ UNCHANGED <<given, community, selections>>

\* The bootstrap core is ready: register, join, set the timers.  With a pinned key the
\* manifest is fetched only now.
CoreReady ==
    /\ start = "ready"
    /\ ext' = Registered(core)
    /\ timers' = (urls # <<>>)
    /\ start' = "done"
    /\ IF pinned # None /\ urls # <<>> THEN BeginFetch(FALSE) ELSE UNCHANGED endpoints
    /\ UNCHANGED <<given, store, swarm, stop, scope, selections>>

\* Faulty variant: the timers are left to the garbage collector.
BeginStopTicking ==
    /\ ext' = None /\ UNCHANGED timers
    /\ stop' = IF swarm # "none" THEN "swarm" ELSE IF store # "none" THEN "store" ELSE "done"

\* The synchronous part of stop().  What does not exist yet is not waited for.
BeginStop ==
    /\ timers' = FALSE /\ ext' = None
    /\ stop' = IF swarm # "none" THEN "swarm" ELSE IF store # "none" THEN "store" ELSE "done"

\* before-quit, or a signal.  Later calls get the promise of the first.
Stop ==
    /\ stop = "none"
    /\ BeginStop
    /\ overlapped' = (start \in Await)
    /\ UNCHANGED <<pinned, start, store, swarm, scope, endpoints, selections>>

SwarmDestroyed ==
    /\ stop = "swarm"
    /\ swarm' = "destroyed"
    /\ stop' = IF store # "none" THEN "store" ELSE "done"
    /\ UNCHANGED <<given, start, store, timers, ext, scope, endpoints, selections>>

StoreClosed ==
    /\ stop = "store"
    /\ store' = "closed"
    /\ stop' = "done"
    /\ UNCHANGED <<given, start, swarm, timers, ext, scope, endpoints, selections>>

\* destroy() or close() rejects, and with it the promise every call of stop gets.
StopFails ==
    /\ stop \in {"swarm", "store"}
    /\ stop' = "failed"
    /\ UNCHANGED <<given, start, store, swarm, timers, ext, scope, endpoints, selections>>

\* An await of start() throws: it waits for stop().  A fetch never throws.
StartFails ==
    /\ start \in Await \ {"fetch"}
    /\ start' = "stopping"
    /\ IF stop = "none" THEN BeginStop ELSE UNCHANGED <<timers, ext, stop>>
    /\ UNCHANGED <<given, store, swarm, scope, endpoints, selections>>

\* Faulty variant: a failed stop is waited for again.
StartGivesUpStopped ==
    /\ start = "stopping" /\ stop = "done"
    /\ start' = "failed"
    /\ UNCHANGED <<given, resources, scope, endpoints, selections>>

StartGivesUp ==
    /\ start = "stopping" /\ stop \in Settled
    /\ start' = "failed"
    /\ UNCHANGED <<given, resources, scope, endpoints, selections>>

----------------------------------------------------------------------------
(* Selecting a community. *)

\* createCommunity and joinCommunity need a store; the genesis record is written, or
\* fetched from a peer and verified, without further changes to the runtime.
BeginSelection(i, x) ==
    /\ store # "none"
    /\ \A s \in selections : s.id # i
    /\ selections' = selections \cup {[id |-> i, community |-> x, step |-> "open"]}
    /\ UNCHANGED <<given, start, resources, scope, endpoints>>

\* selectGenesisCommunity up to its await.  Without a swarm, joining the topic has thrown.
Select(s) ==
    /\ s.step = "open" /\ swarm # "none"
    /\ core' = s.community
    /\ community' = s.community
    /\ selections' = (selections \ {s}) \cup {[s EXCEPT !.step = "moving"]}
    /\ UNCHANGED <<given, start, resources, endpoints>>

\* The topic is joined: the extension moves to the core of this selection.
Move(s) ==
    /\ s.step = "moving"
    /\ ext' = s.community
    /\ selections' = selections \ {s}
    /\ UNCHANGED <<given, start, store, swarm, timers, stop, scope, endpoints>>

\* No genesis record, or one that does not verify; a swarm that is gone.
SelectionFails(s) ==
    /\ s.step = "open" \/ swarm = "destroyed"
    /\ selections' = selections \ {s}
    /\ UNCHANGED <<given, start, resources, scope, endpoints>>

----------------------------------------------------------------------------

FetchStep(f) ==
    \/ \E m \in Community : \E nodes \in {<<>>} \cup {<<u>> : u \in Endpoint} : Answer(f, m, nodes)
    \/ NoAnswer(f)
    \/ Exhausted(f)

StartStep ==
    OpenStore \/ OpenSwarm \/ Listening \/ CoreReady \/ StartFails \/ StartGivesUp

StopStep == SwarmDestroyed \/ StoreClosed \/ StopFails

SelectionStep(s) == Select(s) \/ Move(s) \/ SelectionFails(s)

Next ==
    \/ Start \/ StartStep \/ Stop \/ StopStep
    \/ Refresh
    \/ \E f \in fetches : FetchStep(f)
    \/ \E i \in SelectionId, x \in Community : BeginSelection(i, x)
    \/ \E s \in selections : SelectionStep(s)

Spec == Init /\ [][Next]_vars

\* Awaited file, network and HTTP operations settle; requests time out.
FairSpec ==
    /\ Spec
    /\ WF_vars(StartStep) /\ WF_vars(StopStep)
    /\ \A i \in FetchId : WF_vars(\E f \in fetches : f.id = i /\ FetchStep(f))

----------------------------------------------------------------------------
(* Properties. *)

\* Bootstrap metadata never moves the runtime to another community than the selected one,
\* whatever fetches and selections overlap (index.ts:559, docs/runtime-observability.md).
BootstrapKeepsScope ==
    [][community # None /\ community' # community =>
         \E s \in selections : s.step = "open" /\ s.community = community']_vars

\* A stop that has ended, and a start that has, leave no store, no swarm and no timer
\* behind (index.ts:764).
StopReleases ==
    stop = "done" /\ start \in {"idle"} \cup Settled =>
        store # "open" /\ swarm # "up" /\ ~timers

\* The same for a stop that was not called while start was running; it may be called by a
\* start that fails, at any of its awaits.
OrderlyStopReleases == ~overlapped => StopReleases

\* Announcements are exchanged on the discovery core of the selected community
\* (index.ts:418, docs/network-architecture.md:231).
DiscoveryFollowsCommunity ==
    start = "done" /\ stop = "none" /\ selections = {} /\ community # None => ext = community

ScopeAgreed ==
    /\ community # None /\ ext = community
    /\ \A s \in selections : s.step = "moving" => s.community = community

\* Once announcements are exchanged on the core of the selected community, only the
\* selection of another community, or a stop, takes them off it: not a start that ends
\* after the selection, not a manifest that arrives late, not a selection that fails and
\* not a second one of the same community (index.ts:353-357, 427-429, 559).
ScopeKept ==
    [][ScopeAgreed /\ stop' = "none" =>
         ScopeAgreed' \/ \E s \in selections : Select(s) /\ s.community # community]_vars

\* Every start comes to an end, also when a stop overlaps it and when it fails itself.
StartSettles == (start \in Await \cup {"stopping"}) ~> (start \in Settled)

\* The bootstrap state does not stay at fetching, whichever rounds overlap.
FetchingEnds == []<>(bootstrap # "fetching")
=============================================================================
