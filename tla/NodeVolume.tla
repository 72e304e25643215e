----------------------------- MODULE NodeVolume -----------------------------
(***************************************************************************)
(* The directories of a community node on disk: its data directory with    *)
(* the receipt identity (apps/node/src/receipt-identity.ts, index.ts), and *)
(* the commands that back it up and restore it (backup.ts, backup-cli.ts). *)
(*                                                                         *)
(* A directory is absent or holds files.  The store is two files that it   *)
(* writes one after the other, so that a copy made file by file can miss a *)
(* write between them.  Commands are processes of their own, which copy    *)
(* into a staging directory that has a random name, and rename it.         *)
(* Processes end at any step.  verify and restore-preflight only read:     *)
(* they are the operators Verified and Preflight.                          *)
(***************************************************************************)
EXTENDS Integers, FiniteSets

CONSTANTS
    Dir,               \* paths, none of them inside another
    Node,              \* node processes
    Home,              \* the node that keeps its store in these directories; the others
                       \* share a receipt identity through RECEIPT_IDENTITY_PATH
    DataDir,           \* the paths each node may be configured with
    Lane,              \* backup commands running at the same time
    None,
    OperatorWaits,     \* no node is started where a command reads or will publish
    DamageWhileRead,   \* a backup may be damaged while a command reads it
    MaxVersion,        \* bound: writes to the store
    MaxKeys,           \* bound: receipt keys generated
    MaxCommands,       \* bound: commands started
    MaxFaults          \* bound: processes that end, operations that fail, damage

ASSUME VolumeConstants ==
    /\ Home \in Node
    /\ DataDir \in [Node -> SUBSET Dir]
    /\ OperatorWaits \in BOOLEAN /\ DamageWhileRead \in BOOLEAN
    /\ MaxVersion \in Nat /\ MaxKeys \in Nat /\ MaxCommands \in Nat /\ MaxFaults \in Nat
    /\ None \notin Nat /\ None \notin Dir

VARIABLES
    dir,       \* what each path holds: None, or files and the manifest of a backup
    node,      \* node processes
    lane,      \* backup commands
    keys,      \* receipt keys generated so far
    started,   \* commands started so far
    faults,    \* faults so far
    damaged    \* paths whose contents were changed by nobody

vars == <<dir, node, lane, keys, started, faults, damaged>>

File == {"identity", "blocks", "tree"}

\* The content of a file: 0 of an identity file is the empty file.
Files == [File -> Nat \cup {None}]

Contents == [files : Files, manifest : Files \cup {None}]

ASSUME NoneIsNothing == None \notin Files /\ None \notin Contents

NodeStep == {"off", "reading", "creating", "writing", "rereading", "running"}

Command ==
    [op : {"idle", "create", "restore", "crashed"},
     step : {"copy", "publish", "verify"},
     src : Dir \cup {None}, dst : Dir \cup {None},
     todo : SUBSET File, staging : Contents \cup {None}]

TypeOK ==
    /\ dir \in [Dir -> Contents \cup {None}]
    /\ node \in [Node -> [step : NodeStep, at : Dir \cup {None}, key : Nat]]
    /\ lane \in [Lane -> Command]
    /\ keys \in Nat /\ started \in Nat /\ faults \in Nat
    /\ damaged \in SUBSET Dir

NoFiles == [f \in File |-> None]

EmptyDirectory == [files |-> NoFiles, manifest |-> None]

Off == [step |-> "off", at |-> None, key |-> 0]

Idle ==
    [op |-> "idle", step |-> "copy", src |-> None, dst |-> None,
     todo |-> {}, staging |-> None]

Init ==
    /\ dir = [d \in Dir |-> None]
    /\ node = [n \in Node |-> Off]
    /\ lane = [l \in Lane |-> Idle]
    /\ keys = 0 /\ started = 0 /\ faults = 0 /\ damaged = {}

----------------------------------------------------------------------------
(* The node. *)

Busy(l) == lane[l].op \in {"create", "restore"}

UsedBy(l, d) == Busy(l) /\ d \in {lane[l].src, lane[l].dst}

IdentityAt(n) == dir[node[n].at].files["identity"]

WriteFile(d, f, v) == dir' = [dir EXCEPT ![d].files[f] = v]

\* The store opens and repairs what a crash left; a node creates its directory.
Opened(n, c) ==
    LET b == IF c = None THEN EmptyDirectory ELSE c
        v == IF b.files["blocks"] = None THEN 0 ELSE b.files["blocks"]
    IN  IF n = Home THEN [b EXCEPT !.files["blocks"] = v, !.files["tree"] = v] ELSE b

\* runtime.start, then the directory of the identity file; backups are not used as data.
StartNode(n, d) ==
    /\ node[n] = Off
    /\ OperatorWaits => \A l \in Lane : ~ UsedBy(l, d)
    /\ dir[d] # None => dir[d].manifest = None
    /\ dir' = [dir EXCEPT ![d] = Opened(n, @)]
    /\ node' = [node EXCEPT ![n] = [step |-> "reading", at |-> d, key |-> 0]]
    /\ UNCHANGED <<lane, keys, started, faults, damaged>>

\* receiptIdentityFromPem: a key that parses, or an error that ends the process.
Parse(n) ==
    /\ IdentityAt(n) # None
    /\ node' = [node EXCEPT ![n] =
                 IF IdentityAt(n) = 0 THEN Off
                 ELSE [@ EXCEPT !.step = "running", !.key = IdentityAt(n)]]
    /\ UNCHANGED <<dir, lane, keys, started, faults, damaged>>

ReadIdentity(n) == node[n].step = "reading" /\ Parse(n)

\* ENOENT: a key is generated.
GenerateIdentity(n) ==
    /\ node[n].step = "reading" /\ IdentityAt(n) = None
    /\ keys < MaxKeys
    /\ keys' = keys + 1
    /\ node' = [node EXCEPT ![n].step = "creating", ![n].key = keys + 1]
    /\ UNCHANGED <<dir, lane, started, faults, damaged>>

\* Faulty variant: open with "w", which truncates a file that exists.
OpenIdentityTruncating(n) ==
    /\ node[n].step = "creating"
    /\ WriteFile(node[n].at, "identity", 0)
    /\ node' = [node EXCEPT ![n].step = "writing"]
    /\ UNCHANGED <<lane, keys, started, faults, damaged>>

\* open with "wx" creates an empty file, or fails with EEXIST.
OpenIdentity(n) ==
    /\ node[n].step = "creating"
    /\ \/ /\ IdentityAt(n) = None
          /\ WriteFile(node[n].at, "identity", 0)
          /\ node' = [node EXCEPT ![n].step = "writing"]
       \/ /\ IdentityAt(n) # None
          /\ node' = [node EXCEPT ![n].step = "rereading", ![n].key = 0]
          /\ dir' = dir
    /\ UNCHANGED <<lane, keys, started, faults, damaged>>

WriteIdentity(n) ==
    /\ node[n].step = "writing"
    /\ WriteFile(node[n].at, "identity", node[n].key)
    /\ node' = [node EXCEPT ![n].step = "running"]
    /\ UNCHANGED <<lane, keys, started, faults, damaged>>

RereadIdentity(n) == node[n].step = "rereading" /\ Parse(n)

\* Replication writes to the store from the moment it is open: blocks, then the tree.
WriteBlocks ==
    LET d == node[Home].at IN
    /\ node[Home].step # "off"
    /\ dir[d].files["blocks"] = dir[d].files["tree"]
    /\ dir[d].files["blocks"] < MaxVersion
    /\ WriteFile(d, "blocks", dir[d].files["blocks"] + 1)
    /\ UNCHANGED <<node, lane, keys, started, faults, damaged>>

WriteTree ==
    LET d == node[Home].at IN
    /\ node[Home].step # "off"
    /\ dir[d].files["blocks"] # dir[d].files["tree"]
    /\ WriteFile(d, "tree", dir[d].files["blocks"])
    /\ UNCHANGED <<node, lane, keys, started, faults, damaged>>

\* shutdown closes the store, which finishes its writes.
StopNode(n) ==
    /\ node[n].step = "running"
    /\ n = Home => dir[node[n].at].files["blocks"] = dir[node[n].at].files["tree"]
    /\ node' = [node EXCEPT ![n] = Off]
    /\ UNCHANGED <<dir, lane, keys, started, faults, damaged>>

Fault ==
    /\ faults < MaxFaults
    /\ faults' = faults + 1

CrashNode(n) ==
    /\ node[n] # Off
    /\ Fault
    /\ node' = [node EXCEPT ![n] = Off]
    /\ UNCHANGED <<dir, lane, keys, started, damaged>>

----------------------------------------------------------------------------
(* The commands. *)

\* Faulty variant: the acknowledgement of the operator is not asked for.
RequireStoppedNever(d) == d \in Dir

\* requireStoppedNode: the operator says so only of a directory no node runs in.
RequireStopped(d) == \A n \in Node : node[n].at # d

\* verifyNodeBackup: no file is missing, changed or added.
Verified(c) == c # None /\ c.manifest # None /\ c.manifest = c.files

\* Faulty variant: any backup with a manifest will do.
PreflightUnverified(b, d) ==
    dir[b] # None /\ dir[b].manifest # None /\ b # d /\ dir[d] = None

\* preflightNodeRestore
Preflight(b, d) == Verified(dir[b]) /\ b # d /\ dir[d] = None

Present(c) == {f \in File : c.files[f] # None}

Begin(l, op, s, d) ==
    /\ lane[l].op = "idle"
    /\ started < MaxCommands
    /\ started' = started + 1
    /\ lane' = [lane EXCEPT ![l] =
                 [op |-> op, step |-> "copy", src |-> s, dst |-> d,
                  todo |-> Present(dir[s]), staging |-> EmptyDirectory]]
    /\ UNCHANGED <<dir, node, keys, faults, damaged>>

\* createNodeBackup up to the copy.
BeginCreate(l, s, d) ==
    /\ RequireStopped(s)
    /\ dir[s] # None /\ s # d /\ dir[d] = None
    /\ Begin(l, "create", s, d)

\* restoreNodeBackup up to the copy.
BeginRestore(l, b, d) ==
    /\ RequireStopped(d)
    /\ Preflight(b, d)
    /\ Begin(l, "restore", b, d)

\* cp: one file after the other, in no particular order.
CopyFile(l, f) ==
    /\ Busy(l) /\ lane[l].step = "copy" /\ f \in lane[l].todo
    /\ lane' = [lane EXCEPT ![l].todo = @ \ {f},
                            ![l].staging.files[f] = dir[lane[l].src].files[f]]
    /\ UNCHANGED <<dir, node, keys, started, faults, damaged>>

\* The staging directory is removed when the command fails, and renamed when it does not.
End(l) == lane' = [lane EXCEPT ![l] = Idle]

\* inventoryFiles and the manifest.  The copy of a backup already has one, which "wx" refuses.
WriteManifest(l) ==
    /\ lane[l].op = "create" /\ lane[l].step = "copy" /\ lane[l].todo = {}
    /\ IF dir[lane[l].src].manifest # None
       THEN End(l)
       ELSE lane' = [lane EXCEPT ![l].step = "publish",
                                 ![l].staging.manifest = lane[l].staging.files]
    /\ UNCHANGED <<dir, node, keys, started, faults, damaged>>

\* A restore leaves the manifest out.
FinishRestoreCopy(l) ==
    /\ lane[l].op = "restore" /\ lane[l].step = "copy" /\ lane[l].todo = {}
    /\ lane' = [lane EXCEPT ![l].step = "publish"]
    /\ UNCHANGED <<dir, node, keys, started, faults, damaged>>

\* Faulty variant: what was checked before the copy is taken to hold still.
ReplaceableAlways(d) == d \in Dir

\* rename replaces nothing but an empty directory.
Replaceable(d) == dir[d] = None \/ dir[d] = EmptyDirectory

Rename(l) ==
    /\ Busy(l) /\ lane[l].step = "publish" /\ Replaceable(lane[l].dst)
    /\ dir' = [dir EXCEPT ![lane[l].dst] = lane[l].staging]
    /\ IF lane[l].op = "restore"
       THEN End(l)
       ELSE lane' = [lane EXCEPT ![l].step = "verify", ![l].staging = None]
    /\ UNCHANGED <<node, keys, started, faults, damaged>>

RenameFails(l) ==
    /\ Busy(l) /\ lane[l].step = "publish" /\ ~ Replaceable(lane[l].dst)
    /\ End(l)
    /\ UNCHANGED <<dir, node, keys, started, faults, damaged>>

\* createNodeBackup verifies what it has published, and reports the outcome.
VerifyPublished(l) ==
    /\ Busy(l) /\ lane[l].step = "verify"
    /\ End(l)
    /\ UNCHANGED <<dir, node, keys, started, faults, damaged>>

\* An operation on the staging directory fails.
CommandFails(l) ==
    /\ Busy(l) /\ lane[l].step # "verify"
    /\ Fault
    /\ End(l)
    /\ UNCHANGED <<dir, node, keys, started, damaged>>

\* The process ends and its staging directory stays.
CrashCommand(l) ==
    /\ Busy(l)
    /\ Fault
    /\ lane' = [lane EXCEPT ![l].op = "crashed"]
    /\ UNCHANGED <<dir, node, keys, started, damaged>>

\* A file of a backup changes on the medium.
Damage(d, f) ==
    /\ dir[d] # None /\ dir[d].manifest # None /\ dir[d].files[f] # None
    /\ DamageWhileRead \/ \A l \in Lane : ~ UsedBy(l, d)
    /\ Fault
    /\ WriteFile(d, f, None)
    /\ damaged' = damaged \cup {d}
    /\ UNCHANGED <<node, lane, keys, started>>

NodeNext(n) ==
    \/ \E d \in DataDir[n] : StartNode(n, d)
    \/ ReadIdentity(n) \/ GenerateIdentity(n)
    \/ OpenIdentity(n) \/ WriteIdentity(n) \/ RereadIdentity(n)
    \/ StopNode(n) \/ CrashNode(n)

LaneNext(l) ==
    \/ \E s, d \in Dir : BeginCreate(l, s, d) \/ BeginRestore(l, s, d)
    \/ \E f \in File : CopyFile(l, f)
    \/ WriteManifest(l) \/ FinishRestoreCopy(l)
    \/ Rename(l) \/ RenameFails(l) \/ VerifyPublished(l)
    \/ CommandFails(l) \/ CrashCommand(l)

Next ==
    \/ \E n \in Node : NodeNext(n)
    \/ WriteBlocks \/ WriteTree
    \/ \E l \in Lane : LaneNext(l)
    \/ \E d \in Dir, f \in File : Damage(d, f)

Spec == Init /\ [][Next]_vars

----------------------------------------------------------------------------
(* Properties. *)

\* The two files of a store as they are at one moment: the tree is behind by one write.
OneMoment(c) ==
    \/ c.files["blocks"] = None /\ c.files["tree"] = None
    \/ /\ c.files["blocks"] \in Nat /\ c.files["tree"] \in Nat
       /\ c.files["blocks"] - c.files["tree"] \in {0, 1}

\* A backup, whenever it is there, is complete, passes its own verification and holds a
\* store of one moment, also when the node or the command has crashed at any step, unless
\* the medium damaged it (createNodeBackup, backup.ts:37).
BackupsOfOneMoment ==
    \A d \in Dir :
        dir[d] # None /\ d \notin damaged =>
            (dir[d].manifest # None => Verified(dir[d]) /\ OneMoment(dir[d]))

\* A data directory appears because a node is started in it, or all at once with the very
\* files an undamaged backup was made of (restoreNodeBackup, backup.ts:92).
RestoredWhole ==
    [][\A d \in Dir :
         dir[d] = None /\ dir'[d] # None /\ dir'[d].manifest = None =>
            \/ \E n \in Node : node[n] = Off /\ node'[n].at = d
            \/ \E b \in Dir : b \notin damaged /\ dir[b] # None
                              /\ dir[b].manifest = dir'[d].files]_vars

\* No step of a backup or restore command changes a directory that holds something, two
\* commands with one destination included (assertMissing, backup.ts:168).
ExistingNeverOverwritten ==
    [][\A d \in Dir :
         lane' # lane /\ dir[d] # None /\ dir[d] # EmptyDirectory => dir'[d] = dir[d]]_vars

\* A running node signs receipts with the key its identity file holds, so that it is still
\* the pinned node after a restart (loadOrCreateReceiptIdentity, receipt-identity.ts:14).
RunningKeyDurable ==
    \A n \in Node : node[n].step = "running" => IdentityAt(n) = node[n].key

=============================================================================
