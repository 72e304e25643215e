# Peer Hours: a TLA+ model of the time bank

Peer Hours is a time bank without a server: every member's desktop owns an append-only
feed of signed records, reads the feeds of the others as they replicate, and derives
listings, proposals, settlements and balances from whatever it has. Nothing is ever
deleted, so an append that should not have happened is there for good. These modules
state what keeps such a history usable and check that the code keeps to it.

## Inventory

| component | source (under `src/`) | state | operations |
|---|---|---|---|
| ledger | `packages/timebank-ledger` | none between calls; within one call the transfers by id, accepted and rejected ones, balances, pending corrections | `applyTransfers` |
| records, resolution | `packages/timebank-records` | none; all-or-nothing function of a set of records | `reduceRecordEnvelopes`, `resolveTimebankRecords`, `resolveTimebankMemberFeeds` |
| settlement | `packages/timebank-settlement` | none | acknowledgements, attestations, transfers: create, validate, resolve |
| domain | `packages/timebank-domain` | none | listings and proposals: create, publish, close, propose, accept |
| desktop handlers | `apps/desktop/src/electron/main.ts`, `member-identity.ts` | in-progress sets, stored identity | publish, close, propose, accept, acknowledge, advance; identity setup; device keys |
| record store | `packages/peer-runtime/src/record-store.ts` | one Hypercore, append queue | `append`, `read`, `readAll` |
| discovery | `packages/peer-runtime/src/index.ts` | cached announcements | publish, receive, relay, prune |
| peer runtime | `packages/peer-runtime/src/index.ts` | started/stopped, bootstrap state, peers | `start`, `stop`, `fetchBootstrapKey`, `refreshCommunityPeers` |
| identity | `packages/timebank-identity`, identity files of `timebank-records` | none | keys activated and revoked, signatures verified, feeds declared |
| community genesis | `peer-runtime/src/community-genesis.ts`, `community-registry.ts` | remembered communities | create, join |
| receipts | `peer-runtime/src/replication-receipt.ts`, `apps/node/src/receipt-*.ts`, `settlement-durability.ts` | the node's receipt key | issue, verify, count |
| community node | `apps/node/src` | a data directory, an identity file, an HTTP server over a runtime | start, shutdown, status, health, receipts |
| backup | `apps/node/src/backup.ts`, `backup-cli.ts` | staging and backup directories | create, verify, preflight, restore |
| bootstrap, renderer, web, dev-peers | `apps/*` | none, or presentation | serve a manifest, show state |

How they meet: a handler of `main.ts` reads the desktop's own feed and every feed it has
an unexpired announcement of, resolves them (`resolveTimebankMemberFeeds` →
`resolveTimebankRecords` → the settlement rules → `applyTransfers`), checks the result
and calls `MemberIdentityService`, which reads the stored identity, takes an in-progress
guard, possibly reads its own feed again, and appends. Replication carries the append to
other desktops whenever it does.

What is hard here: a handler awaits several times between the state it checked and the
record it appends; calls of one desktop interleave; members act on different prefixes of
each other's feeds; announcements expire; a process ends between two appends; an append
throws; and the derivation must not depend on any of it.

What makes each component correct:

- ledger: same set, same result; nobody below the boundary by an ordinary settlement;
  corrections only on top of what they undo; credit conserved; it ends;
- resolution: every record in the published history has its evidence there, so that a
  desktop that has everything can resolve it;
- handlers: each guarded operation runs once at a time and becomes available again; each
  settlement step is taken by the right party, after the right steps, on the same terms;
- feeds: a reader has a prefix of what was written; restarts lose nothing published;
- discovery: announcements reach everyone linked, never expired ones; the cache keeps its
  limit; relaying dies down;
- runtime: stop releases what start opened; bootstrap metadata does not change the selected
  community; announcements are exchanged on that community's core;
- identity and provenance: a revoked key stays revoked; what a reader admits was written by
  its author; a reader is stopped only for causes one can name;
- node: a backup is whole and of one moment, a restore is all or nothing, nothing existing
  is replaced, and the key a node signs with is on disk;
- receipts: a count is of nodes that each signed for this very transfer, and collecting
  ends.

## Modules

| module | models |
|---|---|
| `LedgerRules` | the rules of the ledger as operators on transfers and sets of transfers, and the outcome stated without loops (`Admitted`, `Applied`, `Balance`) |
| `Ledger` | `applyTransfers`, one action per loop body or loop exit |
| `LedgerProofs` | theorems about `Ledger` |
| `Records` | records of one community, and when a set of them resolves; uses `LedgerRules` for the settled ones |
| `Exchange` | desktops, handlers, guards, feeds, replication, announcements, restarts; extends `Records` |
| `Agreement` | abstract: what the parties of one deal may rely on |
| `ExchangeProofs` | theorems about `Exchange`, and that it implements `Agreement` |
| `DesktopIdentity` | the root identity and device keys of one desktop: the identity file, the declarations and key statements in its feed, overlapping calls, restarts |
| `DesktopIdentityProofs` | theorems about `DesktopIdentity` |
| `Discovery` | the announcement caches of several runtimes and the messages between them |
| `DiscoveryProofs` | theorems about `Discovery` |
| `PeerRuntime` | start, stop, bootstrap endpoints and community selection of one runtime |
| `PeerRuntimeProofs` | theorems about `PeerRuntime` |
| `MemberFeeds` | the feeds of several members, and which keys and records a reader of some prefixes admits |
| `NodeVolume` | the directories of a community node: its store, its receipt key, backups and restores |
| `Receipts` | nodes that sign retention receipts and a desktop that collects and counts them |
| `MemberFeedsProofs`, `NodeVolumeProofs`, `ReceiptsProofs` | theorems about these three |
| `MCLedger`, `MCExchange`, `MCDesktopIdentity`, `MCDiscovery`, `MCPeerRuntime`, `MCMemberFeeds`, `MCNodeVolume`, `MCReceipts` | the instances TLC checks |

**Ledger.** `todo` is the part of the input not read yet; any order of reading is any order
of delivery. `byId` is `transfersById`, `accepted`, `rejected`, `balances` are the arrays
and record of the same names, `visiting`, `deferred`, `known`, `progressed` the locals of
one round over pending corrections. A thrown `LedgerRuleError` is the stage `failed`.
Ids are integers since the code sorts them. `attestedBy` is the set of members whose
attestation verifies; an attestation is otherwise opaque. Feeding an identical transfer
twice changes nothing (`sameTransfer`), so the input is a set. The `postings` array is a
function of the accepted transfers and not kept.

**Records.** A record has a kind, the listing or proposal it is about, an author, `at`, and
its terms. `at` stands for `occurredAt`: the position in the feed, so that two appends
never have it in common. This matters because `reduceRecordEnvelopes` treats a second
record of one id as a replay only if everything in it is the same. `Resolves` is the
conjunction of the checks whose failure throws.

**Exchange.** A call is a record in `calls` with the `step` it is at. `Handle` is everything
up to the first await of the service (the histories are read, resolved, checked); `Enter`
and `LeaveAtOnce` take or find the guard; `Attest`, `Recheck`, `AppendFinal` are one
append or one feed read each; `FeedFails` is the rejected promise at any of these.
`Finish` is the `finally` block. Proposals and acceptances have no guard and go from
`Handle` to `AppendFinal`. `publishListing` checks nothing that can change and is one
step. `Restart` drops calls, guards and announcements and keeps feeds and replicas.

Abstractions to know of:

- every feed starts with the declaration of its owner, so identity setup is done and
  provenance holds; signatures verify;
- the histories of one handler are read in one step. The code captures the length of the
  own feed first and of the others a little later. A record of this desktop appended in
  between, and answered by another member before the later read, leaves that answer in
  the snapshot without what it answers: a missing acceptance or acknowledgement does not
  resolve and the call throws; the other cases give snapshots a single read also gives;
- the announcements a handler uses are those of its community, and there is one community.

**DesktopIdentity.** `file` is `identity.json`: absent, unreadable (`Torn`), or a root with
the device keys whose private halves it stores. `log` is the declarations and key
statements of the own feed, in feed order. `calls` are the operations in flight, each with
the community it captured when it began, the identity it read and the await it is at;
`inProgress` is `identitySetupInProgress` and `deviceKeyActivationInProgress`. A request
that arrives while one of these promises is pending gets that promise and changes nothing,
so it is no action. `CreateStoredIdentity`, `ReadIdentity` and `RefuseIdentity` are the
three outcomes of reading the file; `Truncate` and `Write` are the two halves of
`writeFile`; `FindDeclaration`, `ReadStatuses`, `AppendStatement`, `Announce` and
`SignGenesis` are one await each; `Fail` is a rejected promise at any of them; `Restart`
keeps the file, the feed and the keys generated.

- The community a call captures is any one: the runtime may select another between any two
  calls, and only the captured one is used.
- Encryption is available and a community is connected; otherwise every operation throws
  before it changes anything.
- The statuses read back after an announcement only give the return value and are folded
  into it.
- Two statements of one feed never carry the same millisecond; otherwise the wall clock is
  arbitrary, forward or back.
- A generated key has not been used before; which of the unused ones it is makes no
  difference, so `Generated` takes one.
- A text written over a longer one that another writer put there meanwhile leaves the tail
  of the longer one and does not parse; identities differ in length by their device keys.
- Each operation that signs verifies with the root it read, so an announcement whose
  stored root is not the declared one is refused.

**Discovery.** `cache` is `discoveredMemberFeedAnnouncements` of each runtime, `wire` the
extension messages on their way, `links` the pairs of runtimes that see each other as peers
of the discovery core, `own` what the running process has published. `Receive` is
`receiveMemberFeedAnnouncement` up to its await, `Opened` and `OpenFails` are what follows;
`Broadcast` is used by everything that ends in `broadcastMemberFeedAnnouncements`.

- An announcement is its feed and the time it was made; all have the same lifetime, as
  `createAnnouncement` gives them one hour. Announcements that do not verify change nothing
  and are left out; there is one community.
- A runtime sends an announcement again whenever it broadcasts. One that is still on its
  way on the same link counts once, at its last place: the receiver drops duplicates of
  what it has, so only the order of different announcements of one feed matters.
- A second opening that starts while one of the same announcement runs is the same one.
- Both ends of a link notice it at once; each runtime has registered its extension.
- The clock may stop: an announcement is then valid for longer than anything else takes.

**PeerRuntime.** `start`, `stop`, each member of `fetches` and of `selections` is a call
with the await it is at; `store`, `swarm`, `timers` and `ext` are what is open. A community
stands for its id and for its discovery core, which manifests and genesis records name
together. A fetch that began before any endpoint had answered iterates over the live
`bootstrapUrls` array (`live`), later ones over a copy. `pinned`, the configured core key, is
chosen at the start and never changes; `overlapped` is no state of the code: it records that
stop was called while start was running.

- A request that fails or times out, a manifest that does not parse and one that is not
  compatible all lead to the next endpoint (`NoAnswer`).
- Creating and joining a community differ only in how the genesis record is obtained, which
  changes nothing else in the runtime: both are the step `open`, which may fail. Both need a
  swarm, since the modelled runtimes have networking enabled.
- `flushed()` settles or, once the swarm is destroyed, may reject.
- `statusTimer` and `bootstrapRefreshTimer` are set and cleared together. The roster of
  peers, which only the first one refreshes, and the counters of the status are left out.

**MemberFeeds.** `log` is the only state: the records of each feed. A reader is a cut, a
length for each feed, and every property quantifies over the cuts, so that no replication
has to be modelled: whatever has arrived, in whatever order, is some cut. `Resolves` is the
conjunction of the checks of `resolveTimebankMemberFeeds` and of the identity part of
`resolveTimebankRecords` that throw. The actions are what a desktop appends
(`DeclareFeed`, `ActivateDeviceSigningKey`, `RevokeDeviceSigningKey`, `PublishListing`,
`CloseListing`) under the checks it makes, and `CopyRecord`, by which other software puts a
record of somebody else into its own feed.

- A signature is the key that made it, and nobody has a key of somebody else. Nobody
  declares the feed of somebody else as its own; the rule against it is in `Resolves`.
- Key statements are ordered by the pair of `occurredAt` and event id, which is one number
  here; `ClockForward` says whether a desktop's clock may step back. It may in the run.
- A listing stands for each of the six domain kinds whose source feed is checked; a closure
  is the seventh, whose source is not.
- The desktop signs domain records with the root key. `createMemberSignedRecord` and the
  verifier take device keys as well, so the model writes both.
- A member with two feeds is one root key in two data directories, as after a copy of the
  identity file; the identity itself does not name a feed.

**NodeVolume.** `dir` is what each path holds: nothing, or files and possibly the manifest of
a backup. `node` are node processes between their awaits in `loadOrCreateReceiptIdentity`;
`lane` are backup commands with what they have copied so far. The store is two files that are
written one after the other: enough for a copy to miss a write. `StartNode` opens the store
and repairs what a crash left (external), then the identity is read, or generated, opened
with `wx` and written, each a step. A command copies file by file into a staging directory
with a random name, writes the manifest of what it copied (`WriteManifest`), renames
(`Rename`), and verifies (`VerifyPublished`, which changes nothing). `CommandFails` is a
rejected promise, after which the staging directory is removed; `CrashCommand` leaves it.

- `--node-stopped` is the operator's word. It is true when the command begins
  (`RequireStopped`); `OperatorWaits` says that no node is started there before it ends.
- `Damage` is a backup file that is lost on its medium (no file changes its content there); `DamageWhileRead` says whether that
  may happen while a command reads it.
- `rename` replaces a missing or an empty directory, as POSIX has it, and fails otherwise.
- A file is one value; a nested path is another file. Links and nested destinations are
  refused by the commands before they change anything.

**Receipts.** `signed` are the receipts that exist; `index`, `answer`, `results` and
`nextIndex` are the locals of `mapWithConcurrency` and of the mapping function. What a node
of this repository retains when it is asked is chosen freely (`admitted`), which covers every
state of its replicas. The other pinned nodes answer with any receipt they can sign, with any
that was ever signed, or with one that names a node whose key they do not have.

- `Claim` limits what the other nodes sign to the right claim and one wrong one each, of
  other terms or for another community.
- Worker counts above the number of transfers are covered: `Array.from` starts fewer
  workers, the model starts all and some find nothing.

## Runs

| run | shows | states |
|---|---|---|
| `ledger` | all subsets of 12 transfers in all orders, under fairness of the (synchronous) call | 514,678 |
| `exchange` | the history always carries its evidence; `Exchange` implements `Agreement`; guards are released, views heal | 52,712 |
| `exchange_concurrent` | guards and once-only appends with two calls on one desktop | 1,079,948 |
| `settlement_race` | violated: two settlement records of one proposal | |
| `identity` | two overlapping identity operations and an arbitrary clock: one declaration, final revocations, an established root and established device keys are kept, setup and activation available again | 1,029,096 |
| `discovery` | two runtimes, two feeds, room for one: the cache keeps its limit, nothing expired is sent | 376,422 |
| `discovery_spread` | a feed, announced more than once, is learned through a community node, and relaying ends | 271,484 |
| `runtime` | start, stop, two fetches and two selections in every order, with and without endpoints and a pinned core | 532,892 |
| `member_feeds` | three feeds of two members, every prefix: six causes and no other stop a reader, three of them for good; records are from their authors | 41,939 |
| `node_volume` | two nodes, two commands, three directories, one fault: whole backups, all-or-nothing restores, nothing overwritten, durable keys | 1,200,000 |
| `receipts` | two workers, three pinned nodes, two lookups: counts are of signers, results complete, lookups once, the collection ends | 129,412 |
| `receipts_refused` | violated: a node has no receipt for a settlement it has admitted | |

Bounds. The candidates of `MCLedger` were chosen for the cases the rules tell apart: a
boundary hit exactly and missed by one, a settlement admitted only because of another, a
correction that sorts before the one it undoes, two corrections of one transfer, two that
undo each other, a correction of a refused settlement, and one transfer for each way a
batch is refused. `MCExchange` has two members, one offer, one request and one proposal:
each record kind has one author or the two participants, so a second deal adds nothing to
guards or evidence. `MaxMinutes` is 1. `Slot` bounds the calls in flight: one per desktop,
or two on one of them where calls of a desktop race. The feeds need no bound: a desktop
whose own history conflicts starts no further call. `MinimumBalance` is 0 in
`exchange_concurrent`, so that settlements are refused and advanced again, and -1 elsewhere,
so that they settle.
`MCDesktopIdentity` has two roots, so that one can replace the other; two device keys, so
that one call can write back a file without the key of another; two operations at a time
(`Lane`), since the races are between two operations on one file; one community, which
the proofs do not assume; and `MaxTime` 2, which holds a declaration and an activation, or an
activation and its revocation in either order of time. Statements are by key and community, so
more of them repeat these cases; the theorems hold for every bound.
`MCDiscovery` has two feeds and `MaxFeeds` 1, so that the limit is reached, and three
instants for a lifetime of two, so that announcements overlap and expire;
`discovery_spread` has three runtimes in a row, the shortest path with a relay, one feed and
two announcements of it that are valid together. `MCPeerRuntime` has two communities, since
every rule compares the selected one with another, one configured and one learned endpoint
or none, a pinned core or none, two fetches (start's and a refresh) and two selections.
`MCMemberFeeds` has two members, of whom one writes two feeds, one device key, one listing
and one copy; six records, four in one feed, hold a declaration, an activation, a listing by
that key, the revocation and a closure at once, with a declaration elsewhere. Two instants
suffice for a backdated revocation, since only the order of statements matters.
`MCNodeVolume` has a data directory, a backup and a place to restore to, three commands so
that a backup can be made, restored and raced, one write to the store and one fault anywhere;
the two lanes are interchangeable (`LaneSymmetry`; no property names a lane). `MCReceipts`
has one settlement more than `MaxLookups` and a correction between them, and two workers for
two lookups.
`CHECK_DEADLOCK FALSE` is said because a feed may be at its bound, a node may be off for good and
a collection may have ended; and because a desktop may have used all keys and times, because a
derivation ends, because a runtime that has stopped stays so, and because a community whose
records are all published and replicated may have nothing left to do.

Fairness. `Ledger`: the call is synchronous. `Exchange`: weak fairness of every call's
next step (an awaited file read or Hypercore append settles one way or the other) and of
replication of each feed to each reader. `DesktopIdentity`: weak fairness of the running
operation of each lane, whose awaited file access or append settles. `Discovery`: weak
fairness of delivery on each link that holds and of each opening. `PeerRuntime`: weak
fairness of start, of stop and of each fetch; requests have a timeout of ten seconds, the
rest is local. `Receipts`: weak fairness of the workers' own steps and of the timeout of five
seconds that ends each request (`LookupFails`); a node that never answers is allowed. None is assumed of members, of announcements
being learned (`ViewsHeal` has it as a hypothesis), or of expiry and restarts.

### What the violated runs show

- `settlement_race`: `hasLedgerTransfer` looks at the member's own feed only. Both
  participants can publish `<proposal>/settlement`, with different authors and times, and
  no desktop that has both feeds ever resolves again.
- `receipts_refused`: the id of a settlement transfer is `<proposal>/settlement`
  (`timebank-settlement/src/index.ts:280`), the desktop looks up settlements only
  (`settlement-durability.ts:44`), and `validTransferId` refuses an id with a slash
  (`receipt-issuer.ts:60`). So `receiptFor` answers null, and the server 404, for every
  transfer a desktop asks for. `apps/node/README.md:32` says that a node which has "locally
  resolved, locally ledger-admitted, and retained the named transfer" returns a "fresh signed
  `peer-hours/replication-receipt/v1` receipt"; `receipt-issuer.ts:20` ("Returns a receipt for
  one locally admitted transfer") and `docs/pilot-operating-policy.md:18` say so too. The tests
  of the route replace the issuer and use an id without a slash. The theorem
  `ThisServerIsNeverCounted` gives the extent: a count rests on other software alone.

### What other instances show

The passing runs leave these cases out by a constant or a hypothesis. Each was seen with TLC
in the instance named here, or by changing it as named:

- `exchange` (`Slot <- OneEach`): a proposal is accepted twice.
  `resolved.proposedProposals` keeps accepted proposals, and `acceptProposal` neither guards
  nor rechecks (`member-identity.ts:237`). The second acceptance makes the member's own feed
  conflict, although `timebank-domain/src/index.ts:172` says "Only proposed exchanges can be
  accepted."
- `identity` with the invariant `RootKept`: it fails, in ten states. `communityGenesisSigner`
  creates a root outside the shared setup promise (`member-identity.ts:80`). With
  `createAndAnnounce`, or another `community:create`, in flight, both find no file; the later
  write replaces a root that may already have signed. The comment at `:54` says that the
  shared promise means that "repeated renderer clicks cannot create competing root
  identities". `EstablishedRootKept` says that this window is the only one: once the file
  exists and no call holds another root, the root is kept for good.
- `runtime` with the invariant `DiscoveryFollowsCommunity`: it fails in two ways. When the
  first fetch fails, announcements stay on the runtime's own core; a refresh that succeeds
  sets the community and drops the key (`peer-runtime/src/index.ts:360`), against the comment
  at `:354`. And of two overlapping selections the one that flushes last wins the extension,
  the one that began last the community, since `community` is set before the flush is awaited
  and the extension moves after it (`:414`). `ScopeKept` says that these two windows are the
  only ones: nothing else takes announcements off the core of the selected community.
- `exchange_concurrent` (`Slot <- TwoForAna`): a listing gets two closure records. The guard of `closeListing` is released
  before a second request, which resolved earlier, reaches it, and there is no second read
  of the feed (`member-identity.ts:207`). Attestations are appended twice in the same way.
- `identity` with the invariant `ActiveKeysHeld`: it fails, in sixteen states. Activation and
  revocation share no promise, and each writes back the identity it read; a key stored in
  between is lost although its activation is published (`member-identity.ts:155`).
  `EstablishedKeyKept` says that a key which every call in flight has read is not lost so.
- `identity` without the alternative `Backdated` in `RevocationsFinal`: it fails. Key
  statements are ordered by the desktop's wall clock; if it is set back between an activation
  and the revocation, the key still counts as active here and no reader can reduce the feed's
  lifecycle. With it the property holds under every clock: no other step back does harm.
- `discovery_spread` with `OpeningFails = TRUE`: `LinkedPeersLearn` fails. An announcement
  whose feed cannot be opened stays in the cache without having been relayed; when it comes
  again it is a duplicate (`peer-runtime/src/index.ts:601`). Those behind the runtime do not
  learn it until something else makes it broadcast. An opening that never ends has the same
  effect: `core.get` has no timeout (`record-store.ts:110`).
- `discovery` (`MaxFeeds = 1`): a full cache refuses the runtime's own announcement too; `publishMemberFeedAnnouncement`
  does not look at the answer and sends the rest (`:486`). Expired entries count until the
  next prune.
- `node_volume` with `OperatorWaits = FALSE`: `BackupsOfOneMoment` fails. The command asks
  whether the node is stopped when it begins and never again; a node started while it copies
  gives a backup whose files are of different moments, and whose inventory, made of the copy,
  confirms it.
- `node_volume` with `DamageWhileRead = TRUE`: `RestoredWhole` fails. Restore verifies the
  backup and then copies it; the copy is not verified (`backup.ts:98`, `:109`).
- `StopReleases` without `~overlapped` fails. A stop releases what exists when it is called,
  and start does not notice that it has been stopped (`:335`, `:358`).

Where the code and a document differ, as met while modelling:

- Backups are verified after they are published, against the inventory of the copy, while
  `apps/node/README.md:58` and `docs/pilot-operating-policy.md:83` say before. With the
  operator's word kept the difference does not show: `BackupsOfOneMoment` holds in between.
- `receipt-identity.ts:13` says that the identity is created "atomically". A process that ends
  between `open` and `writeFile` leaves an empty file, and no later start gets past it. The
  file is never replaced, so that `RunningKeyDurable` holds.
- `docs/education/20-replication.md:35` says that a record which breaks a rule is "discarded
  from the resolved view"; resolution throws and there is no view. `OnlyTheseBlock` names the
  six causes that members can bring about; `FinalBlocks` says of which no replication helps:
  a backdated revocation, two declared feeds of one root, a record by a key revoked later.

`LinkedPeersLearn` and `RelayingEnds` have the hypothesis `Unambiguous`. Without it both
fail (the first once the clock reaches the expiry of the older of two announcements, which
takes `MaxTime` 2), and no document says otherwise: an announcement of a feed replaces any other of it,
the older of two as well. A runtime may so lose the newer one and then, when the older
expires, the feed; and two runtimes with different announcements of one feed send them to
each other for as long as both are valid, which is at most an hour.

`ViewsHeal` therefore promises resolution only as long as no id has two contents, and
`EvidenceComplete` says that this is the only way a complete history can fail.

## Proofs

The proofs hold for every set of members, listings, proposals, slots and transfers and
every boundary that satisfies the modules' `ASSUME`s, which the runs evaluate:
`LedgerConstants`, `CandidatesAreTransfers`, `RecordConstants`, `CatalogueType`,
`SlotType`, `IdentityConstants`, `FileStatesDiffer`, `DiscoveryConstants`,
`RuntimeConstants`, `FeedConstants`, `VolumeConstants`, `NoneIsNothing`, `ReceiptConstants`.
They give types, keep a placeholder apart from the ids, and ask that the boundary is not
above zero, where every member starts, that members and pinned nodes are finitely many and
that there is a worker. They put no bound on how many.

**Ledger** (`LedgerProofs`). `LedgerInv` is inductive. The three properties are not by
themselves: the reason a derivation gives for a refusal rests on the snapshot `known` being
all that is accepted until the round applies a correction and on no deferred correction
undoing a member of it (`SnapshotSound`), and on every transfer being accepted, refused,
waiting or deferred and only one of these (`ScanDecided`, `PassDecided`). From it follow
`BoundaryAlwaysHonoured`, `CorrectionsAlwaysFollowOriginals` and
`FinishedDerivationDecidesAll`.

That the ledger is a function of the set of transfers (`OutcomeAlwaysIndependent`) rests on a
second invariant, `OutcomeInv`, which says of each loop what it has computed so far:

- the balances are the sums of the accepted postings (`BalancesSummed`);
- the settlements scanned are those with the smallest ids, and the accepted ones among them
  satisfy the rule of `LedgerRules` that has no loop (`ScanAdmits`). Two sets that satisfy it are
  equal: the settlement with the smallest id on which they differ sees the same smaller ones in
  both (`AdmissionUnique`). So `Admitted`, which chooses one, is what the scan accepts;
- what the rounds accept is contained in every set that holds the admitted settlements and
  every correction of a member (`PassApplies`). When the rounds stop, the accepted
  transfers are such a set. So they are the least one, and `Applied` is the least one too
  (`AppliedIs`);
- a batch is refused for what is in it, read or not (`FailsForAll`).

Sums and rounds are recursive functions over finite sets and numbers. What is needed of them is
proved from a least counterexample, with the library's theorem that well-founded orders have
minimal elements (`MinimalSet`, `LeastNumber`): that the recursion has a solution, that it is
unique, and what one more element adds. `CreditAlwaysConserved` uses the same lemmas for the
sum over the members; it is where members must be finitely many.

`EveryStepGetsCloser` is the part of `DerivationEnds` that needs no fairness. Each step either
enters a later stage or leaves less to read or to scan; in the rounds it leaves fewer pending
corrections, or it begins a new round for one that was applied, or it visits one more. On a finite batch this
order cannot descend for ever.

**Guards and feeds** (`ExchangeProofs`). `TypeInv` adds to `TypeOK` the shape of a call:
which steps a call of each operation may be at, and the kind of terms it copies from a
record it read into the one it appends. `GuardsAlwaysExact` needs only `TypeInv`:
entering adds the id and requires it absent, every way out of the try block removes it.
`SettlementAppendsOnce` is the property the guards are for. Its invariant says, besides
the property, that a call which has read its feed again and is about to append still finds
no record of the kind there (`RecheckStillTrue`). That stays true because the only other
call that could append one would hold the same id in the same in-progress set.

**Agreement** (`ExchangeProofs`, second part). What a handler checked, it checked against a partial
view, possibly long before it appends. The invariant `EvidenceInv` carries the check over:
the published records carry their `Evidence`, and each running call is `Grounded`: what
it read in its view is published. Being grounded only asks for records that are there, and
feeds only grow, so no step of another member can undo it. From the call's ground follows
that the record it appends is `Justified`, and a justified record keeps the evidence
complete. What could be undone is that a proposal id has one set of terms:
`FreshProposals` says that a call about to propose is the only one with its id.
`ExchangeImplementsAgreement` then maps each step to the publication of one justified record,
or to a stutter. `SettlementsAlwaysAgree` bounds the damage of what `settlement_race` shows:
the two settlement records that both parties may append for one proposal always carry the same
ledger transfer, so that they conflict as records and never as settlements.

**Identity** (`DesktopIdentityProofs`). `TypeInv` adds to `TypeOK` the shape of a call
(`Shaped`): past its read it has an identity, and the steps it may be at follow from its
operation. `FeedDeclaredOnce` holds for any number of overlapping calls: the shared promise
means one setup at a time (`SharedHeld`), and a setup about to append still finds no
declaration in the community it captured (`NotYetDeclared`), because only a setup declares.
None of the theorems assumes that calls do not overlap or that the clock goes forward.
`RevocationsAreFinal` rests on `RevokeInv`: a key is activated by the one call that generated
it, so that no activation is under way for a key that has a statement (`KeysTracked`); in the
feed an activation stands before every revocation of its key (`ActivatedFirst`); and statements
differ in time (`TimesDiffer`). A revocation that is not later in time than the activation is
then a backdated one. `RootStaysEstablished` and `KeyStaysEstablished` are action properties:
from a state in which the file and every call agree on a root, or on the possession of a
device key, no step of any call leaves it, but the revocation of that key. A step writes the
identity its call holds or one with a key more (`FileChanges`), signs with the root its call
holds (`RootsUsed`), and creates a root only where there is no file. That a revocation removes a
key only when the feed already has its statement is the invariant `RevokedBeforeWrite`. The
instances above show that the agreement they start from cannot be dropped.

**Discovery** (`DiscoveryProofs`). `CacheAlwaysBounded` holds for every number of runtimes,
feeds and links. The limit is an invariant only together with the uniqueness of entries:
replacing the entry of a feed keeps the number of entries because there was exactly one to
remove (`RememberKept`). The invariant adds that caches are finite. `NothingExpiredIsSent` is
an action property: what a step adds to a link was in the cache after pruning at the current
time. It needs what the operators of a broadcast return, that `Without` keeps messages of its
sequence and that `SetToSeq` lists the members of a finite set (`WithoutKeeps`, `SetSequence`);
the same lemmas give the types of the links (`DiscoveryTypeCorrect`).

**Runtime** (`PeerRuntimeProofs`). `BootstrapAlwaysKeepsScope` is an action property and
needs no invariant: the comparison with the selected community is made after the answer has
arrived, in the step that assigns it. `StopAlwaysReleases` is about every stop that was not
called while start was running. `OpenInv` says how far start has come from what is open, and
that a stop in progress has passed what it has closed; it needs that the fetch start waits
for is the only one that can move it (`FetchInv`). `ScopeAlwaysKept` is an action property too, for every number of overlapping
selections: `ScopeAgreed` says that the extension is on the core of the selected community and
that no selection of another one is still to move it, and each step keeps this, but the
selection of another community or a stop.

**Feeds** (`MemberFeedsProofs`). The theorems are about every cut of every reachable state,
so that what is needed of a prefix must be an invariant of the whole feeds. `FeedInv` says
three things: where a record belongs (a declaration names a feed of its author, a key
statement or a listing has its original in one feed of its author, to which copies refer);
that originals are unique as far as resolution asks (one declaration of a feed, one activation
of a key, statements of a key at different times, one listing of an id, one closure of it in a
feed); and what comes earlier in a feed than what depends on it (`SignerEarlier`,
`ListingEarlier`), which is what makes prefixes safe. From it follow
`AuthorsAlwaysSpeakForThemselves`, `BlocksAreFinal`, where each final cause contradicts one
condition of `Resolves` in every larger view, and `NothingElseBlocks`, where each condition
of `Resolves` is derived from the absence of the six causes.

**Node volume** (`NodeVolumeProofs`). `TypeInv` adds to `TypeOK` that a running node has its
directory and a command its source and staging area. `ExistingNeverReplaced` needs no more:
the publishing rename fails on anything but an empty directory, however old the check for a
missing destination is. `RunningKeyAlwaysDurable` assumes `OperatorWaits`: nodes and commands
are then apart (`Apart`), and of the nodes at one directory at most one has created the
identity file and not yet written it (`Identities`). The two theorems about backups also assume
that no backup is damaged while a command reads it. `BackupInv` carries the state of a copy:
what a command has copied is what its source still holds (`Faithful`), for no node writes
there and no command replaces it. One case escapes: the source of a backup may be an empty
directory, which another command may replace; the copy is then empty as well, and empty is
a store of one moment. `DamageShows` is why verification before a restore is enough: damage
of a backup contradicts its inventory.

**Receipts** (`ReceiptsProofs`). `CountInv` says that an answer which counts is that of the
node asked and rests on a receipt it signed for the very transfer its worker asks about;
receipts stay signed, so that a count once stored remains justified, and
`CountedAlwaysSigned` holds whatever the nodes answer. `LookupInv` adds who is at which
lookup: indexes taken are below `nextIndex` and distinct, and what is below it has its result
or a worker (`LookupsTaken`, `LookupsDone`). `EachAlwaysLookedUpOnce` and
`ThisServerIsNeverCounted` also need that what is looked up are settlements. `LookupsTyped`
proves it of the filter and the slice, for every history and every limit. The second of them
is no property of a run: it says how far what `receipts_refused` shows goes.

Only model-checked:

- liveness (`DerivationEnds`, `GuardsReleased`, `ViewsHeal`, `SharedReleased`,
  `LinkedPeersLearn`, `RelayingEnds`, `StartSettles`, `FetchingEnds`, `CollectionEnds`):
  fairness and `ENABLED` are outside the prover's reach. For `DerivationEnds` the descent is
  proved (`EveryStepGetsCloser`), and that a derivation is not stuck before its end is checked;
- the properties that `settlement_race` and `receipts_refused` violate.

Every other property of the runs is stated by a theorem.

## Not modelled, and why

- Signatures, hashes and canonical JSON: a signature is the key that made it, a digest a value.
- Unsigned legacy key records (`identity-records.ts`): no desktop writes them.
- The node's status and health pages, HTTP limits, configuration parsing: input and output
  without state of their own. The bootstrap service serves one manifest and never changes.
- The renderer and the website show derived state; the development peers are a tool.
- Hypercore and Hyperswarm: external, modelled as what the code uses of them (an
  append-only sequence, readers that hold a prefix, appends that may reject).
- The roster of peers a runtime shows: diagnostics that nothing else reads.
- Text rules of profiles and listings (lengths, categories, trimming).

## Plan

What is left, in this order:

1. Proofs: the types of `PeerRuntime` and `Receipts`; descent, as for the ledger, of a running
   collection and of a start.
2. `Community`: invitations and the registry of remembered communities, of which
   `PeerRuntime` has only the selection.
3. `RecordStore`: the append queue of one core under overlapping and failing appends,
   refining the atomic append of `Exchange` and `MemberFeeds`.
4. A statement about two derivations of growing histories of the ledger.
