-------------------------- MODULE DesktopIdentity --------------------------
(***************************************************************************)
(* The root identity and the device keys of one desktop: the identity part *)
(* of MemberIdentityService (apps/desktop/src/electron/member-identity.ts) *)
(* over the identity file and the member's own feed.                       *)
(*                                                                         *)
(* Every operation reads the whole file, awaits, and later writes the      *)
(* whole file back, so operations that overlap may undo one another.  A    *)
(* write truncates the file first; a process that ends in between leaves   *)
(* it unreadable.  Setup and activation are shared: a request that comes   *)
(* while one runs gets the result of the running one.                      *)
(***************************************************************************)
EXTENDS Integers, Sequences, FiniteSets

CONSTANTS
    Root,        \* root keys that can be generated
    DeviceKey,   \* device keys that can be generated
    Community,   \* communities the desktop may select
    Lane,        \* bound: operations that run at the same time
    Operation,   \* the operations the renderer requests
    MaxTime,     \* bound: timestamps, and so records in the feed
    NoFile,      \* the identity file does not exist
    Torn,        \* the identity file does not parse
    NoKey        \* the key of a declaration, or of a call that has none

Shared == {"setup", "activate"}

ASSUME IdentityConstants ==
    /\ Operation \subseteq Shared \cup {"genesis", "revoke"}
    /\ MaxTime \in Nat
    /\ NoKey \notin DeviceKey
    /\ IsFiniteSet(DeviceKey)

StoredIdentity == [root : Root, devices : SUBSET DeviceKey]

ASSUME FileStatesDiffer == NoFile # Torn /\ {NoFile, Torn} \cap StoredIdentity = {}

VARIABLES
    file,        \* the identity file
    log,         \* declarations and key statements in the member's feed, in order
    used,        \* keys generated so far
    genesis,     \* roots that have signed the genesis of a community
    announced,   \* <<community, root>> announced by the running process
    calls,       \* operations in flight
    inProgress   \* the shared operations that others may join

vars == <<file, log, used, genesis, announced, calls, inProgress>>

Step == {"read", "statuses", "find", "truncate", "write", "append", "announce", "sign"}

Call ==
    [lane : Lane, op : Operation, step : Step, community : Community,
     stored : StoredIdentity \cup {NoFile}, key : DeviceKey \cup {NoKey}]

Statement ==
    [kind : {"declare", "activate", "revoke"}, community : Community, root : Root,
     key : DeviceKey \cup {NoKey}, at : 1 .. MaxTime]

TypeOK ==
    /\ file \in StoredIdentity \cup {NoFile, Torn}
    /\ log \in Seq(Statement)
    /\ used \subseteq Root \cup DeviceKey
    /\ genesis \subseteq Root
    /\ announced \subseteq Community \X Root
    /\ calls \subseteq Call
    /\ inProgress \subseteq Shared

\* First start of the desktop.
Init ==
    /\ file = NoFile
    /\ log = <<>>
    /\ used = {} /\ genesis = {} /\ announced = {}
    /\ calls = {} /\ inProgress = {}

----------------------------------------------------------------------------
(* What the feed says. *)

Statements == {log[i] : i \in DOMAIN log}

\* existingDeclaration: whoever signed it.
Declarations(x) == {s \in Statements : s.kind = "declare" /\ s.community = x}

Lifecycle(x, k) ==
    {s \in Statements : s.kind \in {"activate", "revoke"} /\ s.community = x /\ s.key = k}

\* deviceSigningKeyStatuses: the latest statement of this root decides.
KeyActive(x, root, k) ==
    \E s \in Lifecycle(x, k) :
        /\ s.root = root /\ s.kind = "activate"
        /\ \A t \in Lifecycle(x, k) : t.root = root => t.at <= s.at

\* reduceRootSignedMemberSigningKeyLifecycles: sorted by time, no activation of a key
\* may follow its revocation; otherwise no reader resolves the feed.
Reduces(x, k) ==
    \A s, t \in Lifecycle(x, k) : s.kind = "revoke" /\ t.kind = "activate" => t.at < s.at

\* The time new Date() gives for the next statement: the wall clock may step back.
NextTime(t) == t \in 1 .. MaxTime /\ \A s \in Statements : s.at # t

----------------------------------------------------------------------------
(* The calls. *)

\* Faulty variant: every request starts an operation of its own.
MayBeginAlways(op) == op \in Operation

\* A shared operation is joined, not started, while it is in progress.
MayBegin(op) == op \in Shared => op \notin inProgress

\* The synchronous part up to the first await.  A call captures the community x that is
\* selected when it begins; any one may have been selected, or left again, since the last.
Begin(l, op, k, x) ==
    /\ \A c \in calls : c.lane # l
    /\ op \in Operation /\ MayBegin(op)
    /\ (op = "revoke") = (k # NoKey)
    /\ calls' = calls \cup {[lane |-> l, op |-> op, step |-> "read",
                             community |-> x, stored |-> NoFile, key |-> k]}
    /\ inProgress' = inProgress \cup ({op} \cap Shared)
    /\ UNCHANGED <<file, log, used, genesis, announced>>

GoTo(c, step, stored, k) ==
    /\ calls' = (calls \ {c}) \cup {[c EXCEPT !.step = step, !.stored = stored, !.key = k]}
    /\ UNCHANGED inProgress

\* Faulty variant: the shared promise is not cleared.
EndHoldingShare(c) == calls' = calls \ {c} /\ UNCHANGED inProgress

\* The promise settles: finally clears what others may join.
End(c) ==
    /\ calls' = calls \ {c}
    /\ inProgress' = inProgress \ ({c.op} \cap Shared)

\* Faulty variant: every failure to read counts as a missing file.
MissingOrTorn == file \in {NoFile, Torn}

\* identityStore.read() gives null: only a file that does not exist.
Missing == file = NoFile

\* Faulty variant: the key is stored without its id.
WithDeviceNamed(stored, k) == [stored EXCEPT !.devices = @ \cup {NoKey}]

WithDevice(stored, k) == [stored EXCEPT !.devices = @ \cup {k}]

\* Faulty variant: the filter keeps the revoked key and drops the others.
WithoutDevices(stored, k) == [stored EXCEPT !.devices = @ \cap {k}]

WithoutDevice(stored, k) == [stored EXCEPT !.devices = @ \ {k}]

\* generateKeyPairSync: a key that is new.  Keys are only labels, so one of them stands for all.
Generated(keys) == {k \in keys \ used : k = CHOOSE n \in keys \ used : TRUE}

\* createStoredIdentity: a new root, written before anything else happens.
CreateStoredIdentity(c) ==
    /\ c.step = "read" /\ c.op \in {"setup", "genesis"} /\ Missing
    /\ \E r \in Generated(Root) :
         /\ used' = used \cup {r}
         /\ GoTo(c, "truncate", [root |-> r, devices |-> {}], NoKey)
    /\ UNCHANGED <<file, log, genesis, announced>>

\* The file holds an identity; activation generates its key at once.
ReadIdentity(c) ==
    /\ c.step = "read" /\ file \in StoredIdentity
    /\ CASE c.op = "setup" -> GoTo(c, "find", file, NoKey) /\ UNCHANGED used
         [] c.op = "genesis" -> GoTo(c, "sign", file, NoKey) /\ UNCHANGED used
         [] c.op = "revoke" -> GoTo(c, "statuses", file, c.key) /\ UNCHANGED used
         [] c.op = "activate" ->
              \E k \in Generated(DeviceKey) :
                 /\ used' = used \cup {k}
                 /\ GoTo(c, "truncate", WithDevice(file, k), k)
    /\ UNCHANGED <<file, log, genesis, announced>>

\* requireProtectedIdentity without a file, or a file that does not parse.
RefuseIdentity(c) ==
    /\ c.step = "read"
    /\ \/ c.op \in {"activate", "revoke"} /\ Missing
       \/ file = Torn
    /\ End(c)
    /\ UNCHANGED <<file, log, used, genesis, announced>>

\* writeFile opens the file with truncation and then writes.
Truncate(c) ==
    /\ c.step = "truncate"
    /\ file' = Torn
    /\ GoTo(c, "write", c.stored, c.key)
    /\ UNCHANGED <<log, used, genesis, announced>>

\* Another writer may have filled the file in the meantime: a shorter text leaves the
\* rest of the longer one behind it.  Identities differ in length by their device keys.
Overwritten(old, new) ==
    IF old \in StoredIdentity /\ Cardinality(old.devices) > Cardinality(new.devices)
    THEN Torn ELSE new

Write(c) ==
    /\ c.step = "write"
    /\ file' = Overwritten(file, c.stored)
    /\ CASE c.op = "setup" -> GoTo(c, "find", c.stored, c.key)
         [] c.op = "genesis" -> GoTo(c, "sign", c.stored, c.key)
         [] c.op = "activate" -> GoTo(c, "append", c.stored, c.key)
         [] c.op = "revoke" -> End(c)
    /\ UNCHANGED <<log, used, genesis, announced>>

\* createAndAnnounceOnce looks for an earlier declaration of this feed.
FindDeclaration(c) ==
    /\ c.step = "find"
    /\ GoTo(c, IF Declarations(c.community) = {} THEN "append" ELSE "announce",
            c.stored, c.key)
    /\ UNCHANGED <<file, log, used, genesis, announced>>

\* Faulty variant: a key that the identity file holds is taken for an active one.
ReadStoredKeys(c) ==
    /\ c.step = "statuses"
    /\ IF c.key \in c.stored.devices
       THEN GoTo(c, "append", WithoutDevice(c.stored, c.key), c.key)
       ELSE End(c)
    /\ UNCHANGED <<file, log, used, genesis, announced>>

\* revokeDeviceSigningKey wants an active key.
ReadStatuses(c) ==
    /\ c.step = "statuses"
    /\ IF KeyActive(c.community, c.stored.root, c.key)
       THEN GoTo(c, "append", WithoutDevice(c.stored, c.key), c.key)
       ELSE End(c)
    /\ UNCHANGED <<file, log, used, genesis, announced>>

StatementKind(op) ==
    CASE op = "setup" -> "declare" [] op = "activate" -> "activate" [] op = "revoke" -> "revoke"

AppendStatement(c) ==
    /\ c.step = "append"
    /\ \E t \in 1 .. MaxTime :
         /\ NextTime(t)
         /\ log' = Append(log, [kind |-> StatementKind(c.op), community |-> c.community,
                                root |-> c.stored.root, key |-> c.key, at |-> t])
    /\ CASE c.op = "setup" -> GoTo(c, "announce", c.stored, c.key)
         [] c.op = "activate" -> End(c)
         [] c.op = "revoke" -> GoTo(c, "truncate", c.stored, c.key)
    /\ UNCHANGED <<file, used, genesis, announced>>

\* The announcement is signed by the stored root and verified against the root of the
\* declaration: it is refused when they differ.
Announce(c) ==
    /\ c.step = "announce"
    /\ announced' = announced \cup
         {<<c.community, d.root>> : d \in {e \in Declarations(c.community) : e.root = c.stored.root}}
    /\ End(c)
    /\ UNCHANGED <<file, log, used, genesis>>

\* createCommunity: the root signs a genesis.
SignGenesis(c) ==
    /\ c.step = "sign"
    /\ genesis' = genesis \cup {c.stored.root}
    /\ End(c)
    /\ UNCHANGED <<file, log, used, announced>>

\* A file access or an append rejects: the call ends where it is.
Fail(c) ==
    /\ End(c)
    /\ UNCHANGED <<file, log, used, genesis, announced>>

StepOf(c) ==
    \/ CreateStoredIdentity(c) \/ ReadIdentity(c) \/ RefuseIdentity(c)
    \/ Truncate(c) \/ Write(c) \/ FindDeclaration(c) \/ ReadStatuses(c)
    \/ AppendStatement(c) \/ Announce(c) \/ SignGenesis(c)
    \/ Fail(c)

\* The process ends and starts again: the file and the feed are what is left.
Restart ==
    /\ calls # {} \/ announced # {}
    /\ calls' = {} /\ inProgress' = {} /\ announced' = {}
    /\ UNCHANGED <<file, log, used, genesis>>

Next ==
    \/ \E l \in Lane, op \in Operation, k \in DeviceKey \cup {NoKey}, x \in Community :
          Begin(l, op, k, x)
    \/ \E c \in calls : StepOf(c)
    \/ Restart

LaneStep(l) == \E c \in calls : c.lane = l /\ StepOf(c)

Spec == Init /\ [][Next]_vars

\* An awaited file access or append settles one way or the other.
FairSpec == Spec /\ \A l \in Lane : WF_vars(LaneStep(l))

----------------------------------------------------------------------------
(* Properties. *)

\* A feed is declared once in a community, whoever asks for it and whenever the process
\* ends: with two declarations by different roots no reader would resolve the feed.
DeclaredOnce ==
    \A i, j \in DOMAIN log :
        /\ log[i].kind = "declare" /\ log[j].kind = "declare"
        /\ log[i].community = log[j].community
        => i = j

\* A revocation that the feed holds behind the activation of its key, with an earlier time.
Backdated(x, k) ==
    \E i, j \in DOMAIN log :
        /\ i < j
        /\ log[i].kind = "activate" /\ log[i].community = x /\ log[i].key = k
        /\ log[j].kind = "revoke" /\ log[j].community = x /\ log[j].key = k
        /\ log[j].at < log[i].at

\* A revocation is final, and the feed stays readable, whatever the clock does and however
\* calls overlap, unless the clock stood before the activation of that very key when it was
\* revoked (member-identity.ts:135-155, 379): no other step of the clock, no check made
\* before an await and no restart puts an activation behind a revocation.
RevocationsFinal ==
    \A x \in Community, k \in DeviceKey :
        \/ Backdated(x, k)
        \/ /\ Reduces(x, k)
           /\ \A s \in Lifecycle(x, k) : s.kind = "revoke" => ~KeyActive(x, s.root, k)

UsedRoots == {s.root : s \in Statements} \cup genesis

\* The identity file exists, and it and every call in flight hold root r, as far as they
\* hold one.
Established(r) ==
    /\ file # NoFile /\ (file \in StoredIdentity => file.root = r)
    /\ \A c \in calls : c.stored # NoFile => c.stored.root = r

\* An established root is never replaced and no other root signs from then on, whatever
\* calls overlap, whatever fails, and when the process ends inside a write that leaves the
\* file unreadable (member-identity.ts:80, 390; only a missing file is created anew).
EstablishedRootKept ==
    [][\A r \in Root : Established(r) =>
          Established(r)' /\ UsedRoots' \subseteq UsedRoots \cup {r}]_vars

\* As far as they hold an identity, the file and every call in flight have the private key
\* of k, except a call that revokes it.
KeyEstablished(k) ==
    /\ file # NoFile /\ (file \in StoredIdentity => k \in file.devices)
    /\ \A c \in calls :
         c.stored # NoFile => k \in c.stored.devices \/ (c.op = "revoke" /\ c.key = k)

Revoked(k) == \E s \in Statements : s.kind = "revoke" /\ s.key = k

\* The private key of an established device key is never lost before the feed revokes it:
\* whole-file writes of setup, activation and the revocation of other keys keep it, and its
\* own revocation removes it only after the append (member-identity.ts:122, 155).
EstablishedKeyKept ==
    [][\A k \in DeviceKey : KeyEstablished(k) => KeyEstablished(k)' \/ Revoked(k)']_vars

\* What the comments promise without these hypotheses, and overlapping calls can break.

\* The identity file, when it can be read, holds the root key that has signed records of
\* this member: an established identity is never replaced (member-identity.ts:158, 391).
RootKept == file \in StoredIdentity => UsedRoots \subseteq {file.root}

\* The private key of every device key that the feed calls active is in the identity file
\* (member-identity.ts:113): it was stored first, and only its revocation removes it.
ActiveKeysHeld ==
    file \in StoredIdentity =>
        \A x \in Community, k \in DeviceKey : KeyActive(x, file.root, k) => k \in file.devices

\* Setup and activation can be asked for again and again: a failed one is not joined for
\* ever.
SharedReleased == \A op \in Shared : []<>(op \notin inProgress)
=============================================================================
