-------------------------- MODULE NodeVolumeProofs --------------------------
(***************************************************************************)
(* Theorems about NodeVolume, for any number of directories, nodes,        *)
(* commands and faults.                                                    *)
(***************************************************************************)
EXTENDS NodeVolume, TLAPS

NodeState == [step : NodeStep, at : Dir \cup {None}, key : Nat]

\* A node that runs has a directory, and the home node has a store in it.
NodeAt ==
    /\ \A n \in Node : node[n].step = "off" => node[n] = Off
    /\ \A n \in Node : node[n].step # "off" => node[n].at \in Dir /\ dir[node[n].at] # None
    /\ node[Home].step # "off" =>
          /\ dir[node[Home].at].files["blocks"] \in Nat
          /\ dir[node[Home].at].files["tree"] \in Nat
          /\ dir[node[Home].at].manifest = None

\* A command has a source that exists, and a staging directory until it is renamed.
LaneAt ==
    \A l \in Lane : Busy(l) =>
        /\ lane[l].src \in Dir /\ lane[l].dst \in Dir /\ dir[lane[l].src] # None
        /\ lane[l].step # "verify" => lane[l].staging \in Contents

TypeInv == TypeOK /\ NodeAt /\ LaneAt

----------------------------------------------------------------------------
(* What the steps write. *)

LEMMA Constants == Home \in Node /\ (\A n \in Node : DataDir[n] \subseteq Dir) /\ None \notin Nat
BY VolumeConstants

LEMMA EmptyTyped ==
    EmptyDirectory \in Contents /\ EmptyDirectory # None /\ NoFiles \in Files
    /\ EmptyDirectory.files = NoFiles /\ EmptyDirectory.manifest = None
    /\ \A f \in File : NoFiles[f] = None
BY NoneIsNothing DEF EmptyDirectory, NoFiles, Contents, Files

\* One file of one directory changes.
LEMMA FileWritten ==
    ASSUME dir \in [Dir -> Contents \cup {None}], NEW d \in Dir, dir[d] # None,
           NEW f \in File, NEW v \in Nat \cup {None}, WriteFile(d, f, v)
    PROVE  /\ dir' \in [Dir -> Contents \cup {None}]
           /\ \A e \in Dir \ {d} : dir'[e] = dir[e]
           /\ dir'[d] \in Contents /\ dir'[d] # None
           /\ dir'[d].manifest = dir[d].manifest
           /\ dir'[d].files[f] = v
           /\ \A g \in File \ {f} : dir'[d].files[g] = dir[d].files[g]
<1> DEFINE c == [dir[d] EXCEPT !.files = [@ EXCEPT ![f] = v]]
<1>1. dir[d] \in Contents
  OBVIOUS
<1>2. dir[d].files \in [File -> Nat \cup {None}]
  BY <1>1 DEF Contents, Files
<1>3. [dir[d].files EXCEPT ![f] = v] \in Files
  BY <1>2 DEF Files
<1>4. /\ c \in Contents /\ c.manifest = dir[d].manifest
      /\ c.files[f] = v /\ \A g \in File \ {f} : c.files[g] = dir[d].files[g]
  BY <1>1, <1>2, <1>3 DEF Contents
<1>5. dir' = [dir EXCEPT ![d] = c]
  BY DEF WriteFile
<1> HIDE DEF c
<1>6. dir'[d] = c /\ \A e \in Dir \ {d} : dir'[e] = dir[e]
  BY <1>5
<1>7. dir' \in [Dir -> Contents \cup {None}]
  BY <1>4, <1>5
<1> QED  BY <1>4, <1>6, <1>7, NoneIsNothing

\* The state of one node changes.
LEMMA NodeMoved ==
    ASSUME node \in [Node -> NodeState], NEW n \in Node, NEW x \in NodeState,
           node' = [node EXCEPT ![n] = x]
    PROVE  /\ node' \in [Node -> NodeState]
           /\ node'[n] = x /\ \A m \in Node \ {n} : node'[m] = node[m]
OBVIOUS

\* The state of one command changes.
LEMMA LaneMoved ==
    ASSUME lane \in [Lane -> Command], NEW l \in Lane, NEW x \in Command,
           lane' = [lane EXCEPT ![l] = x]
    PROVE  /\ lane' \in [Lane -> Command]
           /\ lane'[l] = x /\ \A k \in Lane \ {l} : lane'[k] = lane[k]
OBVIOUS

LEMMA OffTyped == Off \in NodeState /\ Off.step = "off" /\ Off.at = None
BY DEF Off, NodeState, NodeStep

LEMMA IdleTyped == Idle \in Command /\ Idle.op = "idle"
BY DEF Idle, Command

\* runtime.start leaves the identity and the manifest alone, and repairs the store.
LEMMA OpenedTyped ==
    ASSUME NEW n \in Node, NEW c \in Contents \cup {None}
    PROVE  /\ Opened(n, c) \in Contents /\ Opened(n, c) # None
           /\ n # Home /\ c # None => Opened(n, c) = c
           /\ n # Home /\ c = None => Opened(n, c) = EmptyDirectory
           /\ c # None => /\ Opened(n, c).manifest = c.manifest
                          /\ Opened(n, c).files["identity"] = c.files["identity"]
           /\ c = None => Opened(n, c).manifest = None
           /\ n = Home => /\ Opened(n, c).files["blocks"] \in Nat
                          /\ Opened(n, c).files["tree"] = Opened(n, c).files["blocks"]
<1> DEFINE b == IF c = None THEN EmptyDirectory ELSE c
           v == IF b.files["blocks"] = None THEN 0 ELSE b.files["blocks"]
           o == [b EXCEPT !.files = [[@ EXCEPT !["blocks"] = v] EXCEPT !["tree"] = v]]
<1>1. b \in Contents
  BY EmptyTyped
<1>2. b.files \in [File -> Nat \cup {None}] /\ b.manifest \in Files \cup {None}
  BY <1>1 DEF Contents, Files
<1>3. v \in Nat
  BY <1>2 DEF File
<1> DEFINE w == [[b.files EXCEPT !["blocks"] = v] EXCEPT !["tree"] = v]
<1>4. /\ w \in Files /\ w["blocks"] = v /\ w["tree"] = v
      /\ w["identity"] = b.files["identity"]
  BY <1>2, <1>3 DEF Files, File
<1>5. /\ o \in Contents /\ o.files = w /\ o.manifest = b.manifest
  BY <1>1, <1>2, <1>4 DEF Contents
<1>6. Opened(n, c) = IF n = Home THEN o ELSE b
  BY DEF Opened
<1>7. b.manifest = IF c = None THEN None ELSE c.manifest
  BY EmptyTyped
<1> QED
  <2> HIDE DEF o, w, v
  <2> QED  BY <1>1, <1>3, <1>4, <1>5, <1>6, <1>7, NoneIsNothing

----------------------------------------------------------------------------
(* Types. *)

\* No path that is there disappears, and what commands know of theirs stays true.
LEMMA LaneAtKept ==
    ASSUME LaneAt, UNCHANGED lane, \A d \in Dir : dir[d] # None => dir'[d] # None
    PROVE  LaneAt'
BY DEF LaneAt, Busy

\* One node takes a step that leaves directories as they are.
LEMMA NodeAtMoved ==
    ASSUME TypeInv, NEW n \in Node, NEW x \in NodeState, node' = [node EXCEPT ![n] = x],
           dir' = dir, x = Off \/ (x.step # "off" /\ x.at = node[n].at /\ node[n].step # "off")
    PROVE  NodeAt' /\ node' \in [Node -> NodeState]
<1>1. /\ node' \in [Node -> NodeState]
      /\ node'[n] = x /\ \A m \in Node \ {n} : node'[m] = node[m]
  BY NodeMoved DEF TypeInv, TypeOK, NodeState
<1> QED  BY <1>1, OffTyped, Constants DEF NodeAt, TypeInv

LEMMA NodeNextTyped ==
    ASSUME TypeInv, NEW n \in Node, NodeNext(n)
    PROVE  TypeInv'
<1>0. /\ node \in [Node -> NodeState] /\ node[n] \in NodeState
      /\ dir \in [Dir -> Contents \cup {None}]
  BY DEF TypeInv, TypeOK, NodeState
<1>1. ASSUME NEW d \in DataDir[n], StartNode(n, d) PROVE TypeInv'
  <2> DEFINE x == [step |-> "reading", at |-> d, key |-> 0]
  <2>1. d \in Dir /\ x \in NodeState /\ x.step = "reading" /\ x.at = d
    BY <1>1, Constants DEF NodeState, NodeStep
  <2>2. /\ node' \in [Node -> NodeState]
        /\ node'[n] = x /\ \A m \in Node \ {n} : node'[m] = node[m]
    BY <1>0, <1>1, <2>1, NodeMoved DEF StartNode
  <2>3. dir' = [dir EXCEPT ![d] = Opened(n, dir[d])]
    BY <1>1 DEF StartNode
  <2>4. /\ Opened(n, dir[d]) \in Contents /\ Opened(n, dir[d]) # None
        /\ n # Home /\ dir[d] # None => Opened(n, dir[d]) = dir[d]
        /\ n = Home => /\ Opened(n, dir[d]).files["blocks"] \in Nat
                       /\ Opened(n, dir[d]).files["tree"] = Opened(n, dir[d]).files["blocks"]
        /\ Opened(n, dir[d]).manifest = None
    BY <1>0, <1>1, <2>1, OpenedTyped DEF StartNode
  <2>5. /\ dir' \in [Dir -> Contents \cup {None}] /\ dir'[d] = Opened(n, dir[d])
        /\ \A e \in Dir \ {d} : dir'[e] = dir[e]
    BY <1>0, <2>1, <2>3, <2>4
  <2> HIDE DEF x
  <2>6. NodeAt'
    <3>1. \A m \in Node : node'[m].step = "off" => node'[m] = Off
      BY <2>1, <2>2 DEF TypeInv, NodeAt
    <3>2. \A m \in Node : node'[m].step # "off" => node'[m].at \in Dir /\ dir'[node'[m].at] # None
      BY <2>1, <2>2, <2>4, <2>5 DEF TypeInv, NodeAt
    <3>3. CASE n = Home
      BY <3>1, <3>2, <3>3, <2>1, <2>2, <2>4, <2>5 DEF NodeAt
    <3>4. CASE n # Home
      <4>1. node'[Home] = node[Home]
        BY <3>4, <2>2, Constants
      <4>2. node[Home].step # "off" => node[Home].at \in Dir /\ dir'[node[Home].at] = dir[node[Home].at]
        BY <3>4, <2>4, <2>5, Constants DEF TypeInv, NodeAt
      <4> QED  BY <3>1, <3>2, <4>1, <4>2 DEF TypeInv, NodeAt
    <3> QED  BY <3>3, <3>4
  <2>7. LaneAt'
    BY <1>1, <2>4, <2>5, LaneAtKept DEF StartNode, TypeInv
  <2>8. TypeOK'
    BY <1>1, <2>2, <2>5 DEF StartNode, TypeInv, TypeOK, NodeState
  <2> QED  BY <2>6, <2>7, <2>8 DEF TypeInv
<1>2. ASSUME node[n].step \in {"reading", "rereading"}, Parse(n) PROVE TypeInv'
  <2> DEFINE i == IdentityAt(n)
             x == IF i = 0 THEN Off ELSE [node[n] EXCEPT !.step = "running", !.key = i]
  <2>1. i \in Nat
    <3>1. dir[node[n].at] \in Contents
      BY <1>0, <1>2 DEF TypeInv, NodeAt
    <3> QED  BY <1>2, <3>1 DEF Parse, IdentityAt, Contents, Files, File
  <2>2. x \in NodeState /\ (x = Off \/ (x.step # "off" /\ x.at = node[n].at))
    BY <1>0, <2>1, OffTyped DEF NodeState, NodeStep
  <2>3. node' = [node EXCEPT ![n] = x] /\ dir' = dir
    BY <1>2 DEF Parse
  <2> HIDE DEF x
  <2>4. NodeAt' /\ node' \in [Node -> NodeState]
    BY <1>2, <2>2, <2>3, NodeAtMoved
  <2> QED  BY <1>2, <2>4, LaneAtKept DEF Parse, TypeInv, TypeOK, NodeState
<1>3. CASE GenerateIdentity(n)
  <2> DEFINE x == [node[n] EXCEPT !.step = "creating", !.key = keys + 1]
  <2>1. x \in NodeState /\ x.step = "creating" /\ x.at = node[n].at
    <3>1. keys + 1 \in Nat
      BY DEF TypeInv, TypeOK
    <3> QED  BY <1>0, <3>1 DEF NodeState, NodeStep
  <2>2. node' = [node EXCEPT ![n] = x] /\ dir' = dir /\ node[n].step = "reading"
    BY <1>0, <1>3 DEF GenerateIdentity
  <2> HIDE DEF x
  <2>3. NodeAt' /\ node' \in [Node -> NodeState]
    BY <2>1, <2>2, NodeAtMoved
  <2> QED  BY <1>3, <2>3, LaneAtKept DEF GenerateIdentity, TypeInv, TypeOK, NodeState
<1>4. ASSUME NEW f \in {"identity"}, NEW v \in Nat, NEW st \in NodeStep \ {"off"},
             node[n].step # "off", WriteFile(node[n].at, f, v),
             node' = [node EXCEPT ![n].step = st],
             UNCHANGED <<lane, keys, started, faults, damaged>>
      PROVE  TypeInv'
  <2> DEFINE d == node[n].at
             x == [node[n] EXCEPT !.step = st]
  <2>1. x \in NodeState /\ x.step = st /\ x.at = d /\ node' = [node EXCEPT ![n] = x]
    BY <1>0, <1>4 DEF NodeState
  <2>2. d \in Dir /\ dir[d] # None
    BY <1>4 DEF TypeInv, NodeAt
  <2> HIDE DEF x, d
  <2>3. /\ node' \in [Node -> NodeState]
        /\ node'[n] = x /\ \A m \in Node \ {n} : node'[m] = node[m]
    BY <1>0, <2>1, NodeMoved
  <2>4. /\ dir' \in [Dir -> Contents \cup {None}]
        /\ \A e \in Dir \ {d} : dir'[e] = dir[e]
        /\ dir'[d] # None /\ dir'[d].manifest = dir[d].manifest
        /\ dir'[d].files["blocks"] = dir[d].files["blocks"]
        /\ dir'[d].files["tree"] = dir[d].files["tree"]
    <3>1. WriteFile(d, "identity", v) /\ "identity" \in File /\ v \in Nat \cup {None}
      BY <1>4 DEF d, File
    <3>2. "blocks" \in File \ {"identity"} /\ "tree" \in File \ {"identity"}
      BY DEF File
    <3> QED  BY <1>0, <2>2, <3>1, <3>2, FileWritten
  <2>5. NodeAt'
    <3>1. \A m \in Node : node'[m].step = "off" => node'[m] = Off
      BY <1>4, <2>1, <2>3 DEF TypeInv, NodeAt
    <3>2. \A m \in Node : node'[m].at = node[m].at /\ (node'[m].step = "off" <=> node[m].step = "off")
      BY <1>4, <2>1, <2>3 DEF d
    <3>3. \A e \in Dir : dir[e] # None =>
             /\ dir'[e] # None /\ dir'[e].files["blocks"] = dir[e].files["blocks"]
             /\ dir'[e].files["tree"] = dir[e].files["tree"]
             /\ dir'[e].manifest = dir[e].manifest
      BY <2>4
    <3> QED  BY <3>1, <3>2, <3>3, Constants DEF TypeInv, NodeAt
  <2>6. LaneAt'
    BY <1>4, <2>4, LaneAtKept DEF TypeInv
  <2> QED  BY <1>4, <2>3, <2>4, <2>5, <2>6 DEF TypeInv, TypeOK, NodeState
<1>5. CASE OpenIdentity(n)
  <2>1. CASE IdentityAt(n) = None
    BY <1>4, <1>5, <2>1 DEF OpenIdentity, NodeStep
  <2>2. CASE IdentityAt(n) # None
    <3> DEFINE x == [node[n] EXCEPT !.step = "rereading", !.key = 0]
    <3>1. x \in NodeState /\ x.step = "rereading" /\ x.at = node[n].at
      BY <1>0 DEF NodeState, NodeStep
    <3>2. node' = [node EXCEPT ![n] = x] /\ dir' = dir /\ node[n].step = "creating"
      BY <1>0, <1>5, <2>2 DEF OpenIdentity
    <3> HIDE DEF x
    <3>3. NodeAt' /\ node' \in [Node -> NodeState]
      BY <3>1, <3>2, NodeAtMoved
    <3> QED  BY <1>5, <3>2, <3>3, LaneAtKept DEF OpenIdentity, TypeInv, TypeOK, NodeState
  <2> QED  BY <2>1, <2>2
<1>6. CASE WriteIdentity(n)
  <2>1. node[n].key \in Nat
    BY <1>0 DEF NodeState
  <2> QED  BY <1>4, <1>6, <2>1 DEF WriteIdentity, NodeStep
<1>7. ASSUME node' = [node EXCEPT ![n] = Off], dir' = dir, UNCHANGED <<lane, keys, started, damaged>>,
             faults' \in Nat
      PROVE  TypeInv'
  <2>1. NodeAt' /\ node' \in [Node -> NodeState]
    BY <1>7, OffTyped, NodeAtMoved
  <2> QED  BY <1>7, <2>1, LaneAtKept DEF TypeInv, TypeOK, NodeState
<1>8. faults \in Nat
  BY DEF TypeInv, TypeOK
<1> QED
  BY <1>1, <1>2, <1>3, <1>5, <1>6, <1>7, <1>8
     DEF NodeNext, ReadIdentity, RereadIdentity, StopNode, CrashNode, Fault

LEMMA StoreTyped ==
    ASSUME TypeInv, WriteBlocks \/ WriteTree
    PROVE  TypeInv'
<1> DEFINE d == node[Home].at
<1>1. node[Home].step # "off" /\ UNCHANGED <<node, lane, keys, started, faults, damaged>>
  BY DEF WriteBlocks, WriteTree
<1>2. /\ d \in Dir /\ dir[d] # None /\ dir[d].files["blocks"] \in Nat
      /\ dir[d].files["tree"] \in Nat /\ dir[d].manifest = None
      /\ dir \in [Dir -> Contents \cup {None}]
  BY <1>1, Constants DEF TypeInv, NodeAt, TypeOK
<1>3. PICK f \in {"blocks", "tree"}, v \in Nat : WriteFile(d, f, v)
  <2>1. WriteBlocks => WriteFile(d, "blocks", dir[d].files["blocks"] + 1)
    BY DEF WriteBlocks
  <2>2. WriteTree => WriteFile(d, "tree", dir[d].files["blocks"])
    BY DEF WriteTree
  <2>3. dir[d].files["blocks"] + 1 \in Nat
    BY <1>2
  <2> QED  BY <1>2, <2>1, <2>2, <2>3
<1> HIDE DEF d
<1>4. /\ dir' \in [Dir -> Contents \cup {None}]
      /\ \A e \in Dir \ {d} : dir'[e] = dir[e]
      /\ dir'[d] # None /\ dir'[d].manifest = None
      /\ dir'[d].files["blocks"] \in Nat /\ dir'[d].files["tree"] \in Nat
  <2>1. f \in File /\ v \in Nat \cup {None} /\ {"blocks", "tree"} \subseteq File
    BY DEF File
  <2> QED  BY <1>2, <1>3, <2>1, FileWritten
<1>5. NodeAt'
  <2>1. \A n \in Node : node'[n] = node[n]
    BY <1>1
  <2>2. \A e \in Dir : dir[e] # None => dir'[e] # None
    BY <1>4
  <2>3. node'[Home].at = d
    BY <1>1 DEF d
  <2>4. \A n \in Node : /\ node'[n].step = "off" => node'[n] = Off
                        /\ node'[n].step # "off" => node'[n].at \in Dir /\ dir'[node'[n].at] # None
    BY <2>1, <2>2 DEF TypeInv, NodeAt
  <2> QED  BY <1>4, <2>3, <2>4 DEF NodeAt
<1>6. LaneAt'
  BY <1>1, <1>4, LaneAtKept DEF TypeInv
<1> QED  BY <1>1, <1>4, <1>5, <1>6 DEF TypeInv, TypeOK

LEMMA DamageTyped ==
    ASSUME TypeInv, NEW d \in Dir, NEW f \in File, Damage(d, f)
    PROVE  TypeInv'
<1>1. /\ UNCHANGED <<node, lane, keys, started>> /\ faults' \in Nat
      /\ damaged' \in SUBSET Dir /\ dir[d].manifest # None
  BY DEF Damage, Fault, TypeInv, TypeOK
<1>2. /\ dir' \in [Dir -> Contents \cup {None}]
      /\ \A e \in Dir \ {d} : dir'[e] = dir[e]
      /\ dir'[d] # None
  BY FileWritten DEF Damage, TypeInv, TypeOK
<1>3. NodeAt'
  <2>1. node[Home].step # "off" => node[Home].at \in Dir \ {d}
    BY <1>1, Constants DEF TypeInv, NodeAt
  <2>2. \A n \in Node : node'[n] = node[n]
    BY <1>1
  <2>3. \A n \in Node : /\ node'[n].step = "off" => node'[n] = Off
                        /\ node'[n].step # "off" => node'[n].at \in Dir /\ dir'[node'[n].at] # None
    BY <1>2, <2>2 DEF TypeInv, NodeAt
  <2> QED  BY <1>2, <2>1, <2>2, <2>3, Constants DEF TypeInv, NodeAt
<1>4. LaneAt'
  BY <1>1, <1>2, LaneAtKept DEF TypeInv
<1> QED  BY <1>1, <1>2, <1>3, <1>4 DEF TypeInv, TypeOK

----------------------------------------------------------------------------
(* What the steps of a command do to it. *)

LaneKept(l) == lane' \in [Lane -> Command] /\ \A k \in Lane \ {l} : lane'[k] = lane[k]

LEMMA PresentTyped == ASSUME NEW c PROVE Present(c) \in SUBSET File
BY DEF Present

LEMMA Begun ==
    ASSUME TypeInv, NEW l \in Lane, NEW op \in {"create", "restore"},
           NEW s \in Dir, NEW d \in Dir, Begin(l, op, s, d)
    PROVE  /\ LaneKept(l)
           /\ lane'[l].op = op /\ lane'[l].step = "copy" /\ lane'[l].src = s /\ lane'[l].dst = d
           /\ lane'[l].todo = Present(dir[s]) /\ lane'[l].staging = EmptyDirectory
           /\ started' \in Nat /\ UNCHANGED <<dir, node, keys, faults, damaged>>
<1> DEFINE x == [op |-> op, step |-> "copy", src |-> s, dst |-> d,
                 todo |-> Present(dir[s]), staging |-> EmptyDirectory]
<1>1. x \in Command
  BY EmptyTyped, PresentTyped DEF Command
<1>2. /\ x.op = op /\ x.step = "copy" /\ x.src = s /\ x.dst = d
      /\ x.todo = Present(dir[s]) /\ x.staging = EmptyDirectory
  OBVIOUS
<1>3. lane' = [lane EXCEPT ![l] = x]
  BY DEF Begin
<1> HIDE DEF x
<1>4. LaneKept(l) /\ lane'[l] = x
  BY <1>1, <1>3, LaneMoved DEF TypeInv, TypeOK, LaneKept
<1>5. started' \in Nat /\ UNCHANGED <<dir, node, keys, faults, damaged>>
  BY DEF Begin, TypeInv, TypeOK
<1> QED  BY <1>2, <1>4, <1>5

LEMMA FileCopied ==
    ASSUME TypeInv, NEW l \in Lane, NEW f \in File, CopyFile(l, f)
    PROVE  /\ LaneKept(l)
           /\ lane'[l].op = lane[l].op /\ lane'[l].step = "copy"
           /\ lane'[l].src = lane[l].src /\ lane'[l].dst = lane[l].dst
           /\ lane'[l].todo = lane[l].todo \ {f}
           /\ lane'[l].staging \in Contents
           /\ lane'[l].staging.manifest = lane[l].staging.manifest
           /\ lane'[l].staging.files[f] = dir[lane[l].src].files[f]
           /\ \A g \in File \ {f} : lane'[l].staging.files[g] = lane[l].staging.files[g]
           /\ UNCHANGED <<dir, node, keys, started, faults, damaged>>
<1> DEFINE c == lane[l]
           v == dir[c.src].files[f]
           w == [c.staging.files EXCEPT ![f] = v]
           st == [c.staging EXCEPT !.files = w]
           x == [c EXCEPT !.todo = c.todo \ {f}, !.staging = st]
<1>1. /\ c \in Command /\ c.staging \in Contents /\ c.step = "copy"
      /\ dir[c.src] \in Contents
  BY DEF CopyFile, TypeInv, TypeOK, LaneAt
<1>2. v \in Nat \cup {None}
  BY <1>1 DEF Contents, Files
<1>3. c.staging.files \in [File -> Nat \cup {None}]
  BY <1>1 DEF Contents, Files
<1>4. w \in Files /\ w[f] = v /\ \A g \in File \ {f} : w[g] = c.staging.files[g]
  BY <1>2, <1>3 DEF Files
<1>5. st \in Contents /\ st.files = w /\ st.manifest = c.staging.manifest
  BY <1>1, <1>4 DEF Contents
<1>6. lane' = [lane EXCEPT ![l] = x] /\ UNCHANGED <<dir, node, keys, started, faults, damaged>>
  BY <1>1 DEF CopyFile, TypeInv, TypeOK, Command
<1> HIDE DEF st, w, v
<1>7. /\ x \in Command /\ x.op = c.op /\ x.step = "copy" /\ x.src = c.src /\ x.dst = c.dst
      /\ x.todo = c.todo \ {f} /\ x.staging = st
  BY <1>1, <1>5 DEF Command
<1> HIDE DEF x
<1>8. LaneKept(l) /\ lane'[l] = x
  BY <1>6, <1>7, LaneMoved DEF TypeInv, TypeOK, LaneKept
<1> QED  BY <1>4, <1>5, <1>6, <1>7, <1>8 DEF v

LEMMA Published ==
    ASSUME TypeInv, NEW l \in Lane, WriteManifest(l) \/ FinishRestoreCopy(l), lane'[l] # Idle
    PROVE  /\ LaneKept(l) /\ Busy(l) /\ lane[l].step = "copy" /\ lane[l].todo = {}
           /\ lane'[l].op = lane[l].op /\ lane'[l].step = "publish"
           /\ lane'[l].src = lane[l].src /\ lane'[l].dst = lane[l].dst
           /\ lane'[l].todo = {}
           /\ lane'[l].staging \in Contents
           /\ lane'[l].staging.files = lane[l].staging.files
           /\ lane[l].op = "create" => /\ lane'[l].staging.manifest = lane[l].staging.files
                                      /\ dir[lane[l].src].manifest = None
           /\ lane[l].op = "restore" => lane'[l].staging = lane[l].staging
           /\ UNCHANGED <<dir, node, keys, started, faults, damaged>>
<1> DEFINE c == lane[l]
<1>1. Busy(l) /\ c.step = "copy" /\ c.todo = {} /\ UNCHANGED <<dir, node, keys, started, faults, damaged>>
  BY DEF WriteManifest, FinishRestoreCopy, Busy
<1>2. c \in Command /\ c.staging \in Contents /\ lane \in [Lane -> Command]
  BY <1>1 DEF TypeInv, TypeOK, LaneAt
<1>3. CASE WriteManifest(l)
  <2> DEFINE st == [c.staging EXCEPT !.manifest = c.staging.files]
             x == [c EXCEPT !.step = "publish", !.staging = st]
  <2>1. st \in Contents /\ st.files = c.staging.files /\ st.manifest = c.staging.files
    BY <1>2 DEF Contents
  <2>2. c.op = "create"
    BY <1>3 DEF WriteManifest
  <2>3. dir[c.src].manifest = None
    <3>1. ASSUME dir[c.src].manifest # None PROVE FALSE
      <4>1. lane' = [lane EXCEPT ![l] = Idle]
        BY <1>3, <3>1 DEF WriteManifest, End
      <4> QED  BY <1>2, <4>1
    <3> QED  BY <3>1
  <2>4. lane' = [lane EXCEPT ![l] = x]
    BY <1>2, <1>3, <2>3 DEF WriteManifest, Command
  <2> HIDE DEF st
  <2>5. /\ x \in Command /\ x.op = c.op /\ x.step = "publish" /\ x.src = c.src /\ x.dst = c.dst
        /\ x.todo = c.todo /\ x.staging = st
    BY <1>2, <2>1 DEF Command
  <2> HIDE DEF x
  <2>6. LaneKept(l) /\ lane'[l] = x
    BY <1>2, <2>4, <2>5, LaneMoved DEF LaneKept
  <2> QED  BY <1>1, <2>1, <2>2, <2>3, <2>5, <2>6
<1>4. CASE FinishRestoreCopy(l)
  <2> DEFINE x == [c EXCEPT !.step = "publish"]
  <2>1. c.op = "restore" /\ lane' = [lane EXCEPT ![l] = x]
    BY <1>4 DEF FinishRestoreCopy
  <2>2. /\ x \in Command /\ x.op = c.op /\ x.step = "publish" /\ x.src = c.src /\ x.dst = c.dst
        /\ x.todo = c.todo /\ x.staging = c.staging
    BY <1>2 DEF Command
  <2> HIDE DEF x
  <2>3. LaneKept(l) /\ lane'[l] = x
    BY <1>2, <2>1, <2>2, LaneMoved DEF LaneKept
  <2> QED  BY <1>1, <1>2, <2>1, <2>2, <2>3
<1> QED  BY <1>3, <1>4

LEMMA Renamed ==
    ASSUME TypeInv, NEW l \in Lane, Rename(l)
    PROVE  /\ LaneKept(l) /\ Busy(l) /\ lane[l].step = "publish"
           /\ Replaceable(lane[l].dst) /\ lane[l].dst \in Dir
           /\ lane[l].staging \in Contents
           /\ dir' \in [Dir -> Contents \cup {None}]
           /\ dir'[lane[l].dst] = lane[l].staging
           /\ \A e \in Dir \ {lane[l].dst} : dir'[e] = dir[e]
           /\ \/ lane'[l] = Idle
              \/ /\ lane'[l].op = "create" /\ lane'[l].step = "verify"
                 /\ lane'[l].src = lane[l].src /\ lane'[l].dst = lane[l].dst
           /\ UNCHANGED <<node, keys, started, faults, damaged>>
<1> DEFINE c == lane[l]
<1>1. /\ Busy(l) /\ c.step = "publish" /\ Replaceable(c.dst)
      /\ UNCHANGED <<node, keys, started, faults, damaged>>
      /\ dir' = [dir EXCEPT ![c.dst] = c.staging]
  BY DEF Rename
<1>2. /\ c \in Command /\ c.staging \in Contents /\ lane \in [Lane -> Command] /\ c.dst \in Dir
      /\ dir \in [Dir -> Contents \cup {None}]
  BY <1>1 DEF TypeInv, TypeOK, LaneAt
<1>3. /\ dir' \in [Dir -> Contents \cup {None}] /\ dir'[c.dst] = c.staging
      /\ \A e \in Dir \ {c.dst} : dir'[e] = dir[e]
  BY <1>1, <1>2
<1>4. CASE c.op = "restore"
  <2>1. lane' = [lane EXCEPT ![l] = Idle]
    BY <1>4 DEF Rename, End
  <2>2. LaneKept(l) /\ lane'[l] = Idle
    BY <1>2, <2>1, IdleTyped, LaneMoved DEF LaneKept
  <2> QED  BY <1>1, <1>2, <1>3, <2>2
<1>5. CASE c.op = "create"
  <2> DEFINE x == [c EXCEPT !.step = "verify", !.staging = None]
  <2>1. lane' = [lane EXCEPT ![l] = x]
    BY <1>2, <1>5 DEF Rename, Command
  <2>2. x \in Command /\ x.op = "create" /\ x.step = "verify" /\ x.src = c.src /\ x.dst = c.dst
    BY <1>2, <1>5 DEF Command
  <2> HIDE DEF x
  <2>3. LaneKept(l) /\ lane'[l] = x
    BY <1>2, <2>1, <2>2, LaneMoved DEF LaneKept
  <2> QED  BY <1>1, <1>2, <1>3, <2>2, <2>3
<1> QED  BY <1>1, <1>4, <1>5 DEF Busy

\* The other steps end the command.
LEMMA Ended ==
    ASSUME TypeInv, NEW l \in Lane,
           \/ (WriteManifest(l) /\ lane'[l] = Idle)
           \/ RenameFails(l) \/ VerifyPublished(l) \/ CommandFails(l) \/ CrashCommand(l)
    PROVE  /\ LaneKept(l) /\ lane'[l].op \notin {"create", "restore"} /\ lane' # lane
           /\ faults' \in Nat /\ UNCHANGED <<dir, node, keys, started, damaged>>
<1>1. Busy(l) /\ faults' \in Nat /\ UNCHANGED <<dir, node, keys, started, damaged>>
  BY DEF WriteManifest, RenameFails, VerifyPublished, CommandFails, CrashCommand, Busy, Fault,
         TypeInv, TypeOK
<1>2. lane[l] \in Command /\ lane \in [Lane -> Command]
  BY DEF TypeInv, TypeOK
<1>3. CASE CrashCommand(l)
  <2> DEFINE x == [lane[l] EXCEPT !.op = "crashed"]
  <2>1. lane' = [lane EXCEPT ![l] = x] /\ x \in Command /\ x.op = "crashed"
    BY <1>2, <1>3 DEF CrashCommand, Command
  <2> HIDE DEF x
  <2> QED  BY <1>1, <1>2, <2>1, LaneMoved DEF LaneKept, Busy
<1>4. CASE WriteManifest(l) /\ lane'[l] = Idle
  <2>1. lane' = [lane EXCEPT ![l] = lane'[l]]
    BY <1>2, <1>4 DEF WriteManifest, End
  <2> QED  BY <1>1, <1>2, <1>4, <2>1, IdleTyped, LaneMoved DEF LaneKept, Busy
<1>5. CASE RenameFails(l) \/ VerifyPublished(l) \/ CommandFails(l)
  <2>1. lane' = [lane EXCEPT ![l] = Idle]
    BY <1>5 DEF RenameFails, VerifyPublished, CommandFails, End
  <2> QED  BY <1>1, <1>2, <2>1, IdleTyped, LaneMoved DEF LaneKept, Busy
<1> QED  BY <1>3, <1>4, <1>5

\* The steps of a command, by what they do to it.
LEMMA LaneCases ==
    ASSUME TypeInv, NEW l \in Lane, LaneNext(l)
    PROVE  \/ \E s, d \in Dir : BeginCreate(l, s, d) \/ BeginRestore(l, s, d)
           \/ \E f \in File : CopyFile(l, f)
           \/ (WriteManifest(l) \/ FinishRestoreCopy(l)) /\ lane'[l] # Idle
           \/ Rename(l)
           \/ \/ (WriteManifest(l) /\ lane'[l] = Idle)
              \/ RenameFails(l) \/ VerifyPublished(l) \/ CommandFails(l) \/ CrashCommand(l)
<1>1. lane \in [Lane -> Command] /\ lane[l] \in Command
  BY DEF TypeInv, TypeOK
<1>2. ASSUME FinishRestoreCopy(l) PROVE lane'[l] # Idle
  <2>1. lane'[l].op = "restore"
    BY <1>1, <1>2 DEF FinishRestoreCopy, Command
  <2> QED  BY <2>1, IdleTyped
<1> QED  BY <1>2 DEF LaneNext

LEMMA LaneNextTyped ==
    ASSUME TypeInv, NEW l \in Lane, LaneNext(l)
    PROVE  TypeInv'
<1>0. TypeOK /\ NodeAt /\ LaneAt /\ dir \in [Dir -> Contents \cup {None}]
  BY DEF TypeInv, TypeOK
<1>1. ASSUME NEW s \in Dir, NEW d \in Dir, BeginCreate(l, s, d) \/ BeginRestore(l, s, d)
      PROVE  TypeInv'
  <2>1. PICK op \in {"create", "restore"} : Begin(l, op, s, d) /\ dir[s] # None
    BY <1>1 DEF BeginCreate, BeginRestore, Preflight, Verified
  <2>2. /\ LaneKept(l)
        /\ lane'[l].src = s /\ lane'[l].dst = d /\ lane'[l].staging = EmptyDirectory
        /\ started' \in Nat /\ UNCHANGED <<dir, node, keys, faults, damaged>>
    BY <2>1, Begun
  <2>3. LaneAt'
    BY <1>0, <2>1, <2>2, EmptyTyped DEF LaneAt, Busy, LaneKept
  <2> QED  BY <1>0, <2>2, <2>3 DEF TypeInv, TypeOK, NodeAt, LaneKept
<1>2. ASSUME NEW f \in File, CopyFile(l, f) PROVE TypeInv'
  <2>1. /\ LaneKept(l) /\ lane'[l].src = lane[l].src /\ lane'[l].dst = lane[l].dst
        /\ lane'[l].staging \in Contents
        /\ UNCHANGED <<dir, node, keys, started, faults, damaged>>
    BY <1>2, FileCopied
  <2>2. Busy(l)
    BY <1>2 DEF CopyFile
  <2>3. LaneAt'
    BY <1>0, <2>1, <2>2 DEF LaneAt, Busy, LaneKept
  <2> QED  BY <1>0, <2>1, <2>3 DEF TypeInv, TypeOK, NodeAt, LaneKept
<1>3. ASSUME WriteManifest(l) \/ FinishRestoreCopy(l), lane'[l] # Idle PROVE TypeInv'
  <2>1. /\ LaneKept(l) /\ Busy(l)
        /\ lane'[l].src = lane[l].src /\ lane'[l].dst = lane[l].dst
        /\ lane'[l].staging \in Contents
        /\ UNCHANGED <<dir, node, keys, started, faults, damaged>>
    BY <1>3, Published
  <2>2. LaneAt'
    BY <1>0, <2>1 DEF LaneAt, Busy, LaneKept
  <2> QED  BY <1>0, <2>1, <2>2 DEF TypeInv, TypeOK, NodeAt, LaneKept
<1>4. CASE Rename(l)
  <2> DEFINE d == lane[l].dst
  <2>1. /\ LaneKept(l) /\ Busy(l) /\ Replaceable(d) /\ d \in Dir /\ lane[l].staging \in Contents
        /\ dir' \in [Dir -> Contents \cup {None}] /\ dir'[d] = lane[l].staging
        /\ \A e \in Dir \ {d} : dir'[e] = dir[e]
        /\ \/ lane'[l] = Idle
           \/ /\ lane'[l].step = "verify"
              /\ lane'[l].src = lane[l].src /\ lane'[l].dst = d
        /\ UNCHANGED <<node, keys, started, faults, damaged>>
    BY <1>4, Renamed
  <2> HIDE DEF d
  <2>2. \A e \in Dir : dir[e] # None => dir'[e] # None
    BY <2>1, NoneIsNothing
  <2>3. LaneAt'
    <3>1. \A k \in Lane \ {l} : lane'[k] = lane[k]
      BY <2>1 DEF LaneKept
    <3>2. lane[l].src \in Dir /\ dir[lane[l].src] # None
      BY <1>0, <2>1 DEF LaneAt
    <3> QED  BY <1>0, <2>1, <2>2, <3>1, <3>2, IdleTyped DEF LaneAt, Busy
  <2>4. NodeAt'
    <3>1. node[Home].step # "off" => node[Home].at \in Dir \ {d}
      <4>1. EmptyDirectory.files["blocks"] = None
        BY EmptyTyped DEF File
      <4> QED  BY <1>0, <2>1, <4>1, Constants DEF NodeAt, Replaceable
    <3>2. \A n \in Node : node'[n] = node[n]
      BY <2>1
    <3>3. \A n \in Node : /\ node'[n].step = "off" => node'[n] = Off
                          /\ node'[n].step # "off" => node'[n].at \in Dir /\ dir'[node'[n].at] # None
      BY <1>0, <2>2, <3>2 DEF NodeAt
    <3> QED  BY <1>0, <2>1, <3>1, <3>2, <3>3, Constants DEF NodeAt
  <2> QED  BY <1>0, <2>1, <2>3, <2>4 DEF TypeInv, TypeOK, LaneKept
<1>5. ASSUME \/ (WriteManifest(l) /\ lane'[l] = Idle)
             \/ RenameFails(l) \/ VerifyPublished(l) \/ CommandFails(l) \/ CrashCommand(l)
      PROVE  TypeInv'
  <2>1. /\ LaneKept(l) /\ lane'[l].op \notin {"create", "restore"}
        /\ faults' \in Nat /\ UNCHANGED <<dir, node, keys, started, damaged>>
    BY <1>5, Ended
  <2>2. LaneAt'
    BY <1>0, <2>1 DEF LaneAt, Busy, LaneKept
  <2> QED  BY <1>0, <2>1, <2>2 DEF TypeInv, TypeOK, NodeAt, LaneKept
<1> QED  BY <1>1, <1>2, <1>3, <1>4, <1>5, LaneCases

LEMMA TypeInvInit == Init => TypeInv
<1> SUFFICES ASSUME Init PROVE TypeInv
  OBVIOUS
<1>1. TypeOK
  BY OffTyped, IdleTyped DEF Init, TypeOK, NodeState
<1>2. \A n \in Node : node[n] = Off
  BY DEF Init
<1>3. \A l \in Lane : lane[l] = Idle
  BY DEF Init
<1> QED  BY <1>1, <1>2, <1>3, OffTyped, IdleTyped, Constants DEF TypeInv, NodeAt, LaneAt, Busy

LEMMA TypeInvNext == TypeInv /\ [Next]_vars => TypeInv'
<1> SUFFICES ASSUME TypeInv, [Next]_vars PROVE TypeInv'
  OBVIOUS
<1>1. CASE UNCHANGED vars
  BY <1>1 DEF vars, TypeInv, TypeOK, NodeAt, LaneAt, Busy
<1> QED  BY <1>1, NodeNextTyped, StoreTyped, LaneNextTyped, DamageTyped DEF Next

\* A node that runs has its directory, a command its source, and every value its type.
THEOREM VolumeTypeCorrect == Spec => []TypeInv
BY TypeInvInit, TypeInvNext, PTL DEF Spec

\* A command, alone or with others that have the same destination, changes no directory
\* that holds something (assertMissing and rename of backup.ts).
THEOREM ExistingNeverReplaced == Spec => ExistingNeverOverwritten
<1> DEFINE Kept == \A d \in Dir :
              lane' # lane /\ dir[d] # None /\ dir[d] # EmptyDirectory => dir'[d] = dir[d]
<1>1. TypeInv /\ [Next]_vars => [Kept]_vars
  <2> SUFFICES ASSUME TypeInv, Next, lane' # lane PROVE Kept
    OBVIOUS
  <2>1. PICK l \in Lane : LaneNext(l)
    BY DEF Next, NodeNext, StartNode, ReadIdentity, RereadIdentity, Parse, GenerateIdentity,
       OpenIdentity, WriteIdentity, StopNode, CrashNode, WriteBlocks, WriteTree, Damage
  <2>2. CASE Rename(l)
    <3>1. /\ Replaceable(lane[l].dst)
          /\ \A e \in Dir \ {lane[l].dst} : dir'[e] = dir[e]
      BY <2>2, Renamed
    <3> QED  BY <3>1 DEF Replaceable
  <2>3. CASE ~ Rename(l)
    <3>1. dir' = dir
      BY <2>1, <2>3 DEF LaneNext, BeginCreate, BeginRestore, Begin, CopyFile, WriteManifest,
         FinishRestoreCopy, RenameFails, VerifyPublished, CommandFails, CrashCommand
    <3> QED  BY <3>1
  <2> QED  BY <2>2, <2>3
<1>2. Spec => [][Kept]_vars
  BY <1>1, VolumeTypeCorrect, PTL DEF Spec
<1> QED  BY <1>2 DEF ExistingNeverOverwritten

----------------------------------------------------------------------------
(***************************************************************************)
(* The receipt identity.  Nodes and commands stay out of each other's      *)
(* directories when the operator waits, and then only nodes touch an       *)
(* identity file: one creates it, and writes it before anyone signs.       *)
(***************************************************************************)

Runs(n) == node[n].step # "off"

Apart ==
    \A n \in Node, l \in Lane : Runs(n) /\ Busy(l) => node[n].at \notin {lane[l].src, lane[l].dst}

NoBackup == \A n \in Node : Runs(n) => dir[node[n].at].manifest = None

Identities ==
    /\ \A n \in Node : node[n].step \in {"creating", "writing", "running"} => node[n].key # 0
    /\ \A n \in Node : node[n].step = "writing" => IdentityAt(n) = 0
    /\ \A n \in Node : node[n].step = "running" => IdentityAt(n) = node[n].key
    /\ \A n, m \in Node :
          node[n].step = "writing" /\ node[m].step = "writing" /\ node[n].at = node[m].at => n = m

KeyInv == TypeInv /\ Apart /\ NoBackup /\ Identities

\* Steps that change neither a directory nor a command, and start no node.
LEMMA NodeOnly ==
    ASSUME KeyInv, NEW n \in Node, NEW x \in NodeState, node' = [node EXCEPT ![n] = x],
           UNCHANGED <<dir, lane>>,
           x = Off \/ (x.step # "off" /\ x.at = node[n].at /\ Runs(n)),
           x.step # "writing",
           x.step \in {"creating", "running"} => x.key # 0,
           x.step = "running" => dir[x.at].files["identity"] = x.key
    PROVE  Apart' /\ NoBackup' /\ Identities'
<1>1. node'[n] = x /\ \A m \in Node \ {n} : node'[m] = node[m]
  BY NodeMoved DEF KeyInv, TypeInv, TypeOK, NodeState
<1>2. \A m \in Node : Runs(m)' => Runs(m) /\ node'[m].at = node[m].at
  BY <1>1, OffTyped DEF Runs
<1>3. Apart'
  BY <1>2 DEF KeyInv, Apart, Busy
<1>4. NoBackup'
  BY <1>2 DEF KeyInv, NoBackup
<1>5. Identities'
  BY <1>1, OffTyped DEF KeyInv, Identities, IdentityAt
<1> QED  BY <1>3, <1>4, <1>5

LEMMA KeyStart ==
    ASSUME OperatorWaits, KeyInv, NEW n \in Node, NEW d \in DataDir[n], StartNode(n, d)
    PROVE  Apart' /\ NoBackup' /\ Identities'
<1> DEFINE x == [step |-> "reading", at |-> d, key |-> 0]
           o == Opened(n, dir[d])
<1>1. d \in Dir /\ x \in NodeState /\ x.step = "reading" /\ x.at = d
  BY Constants DEF NodeState, NodeStep
<1>2. node'[n] = x /\ \A m \in Node \ {n} : node'[m] = node[m]
  BY <1>1, NodeMoved DEF StartNode, KeyInv, TypeInv, TypeOK, NodeState
<1>3. dir[d] \in Contents \cup {None} /\ dir \in [Dir -> Contents \cup {None}]
  BY <1>1 DEF KeyInv, TypeInv, TypeOK
<1>4. /\ o.manifest = None
      /\ dir[d] # None => o.files["identity"] = dir[d].files["identity"]
  BY <1>3, OpenedTyped DEF StartNode
<1>5. dir'[d] = o /\ \A e \in Dir \ {d} : dir'[e] = dir[e]
  BY <1>1, <1>3 DEF StartNode
<1>6. UNCHANGED lane /\ \A l \in Lane : ~ UsedBy(l, d)
  BY DEF StartNode
<1> HIDE DEF x, o
<1>7. Apart'
  BY <1>1, <1>2, <1>6 DEF KeyInv, Apart, Runs, Busy, UsedBy
<1>8. NoBackup'
  BY <1>1, <1>2, <1>4, <1>5 DEF KeyInv, NoBackup, Runs, TypeInv, NodeAt
<1>9. \A m \in Node \ {n} : Runs(m) =>
         dir'[node[m].at].files["identity"] = dir[node[m].at].files["identity"]
  BY <1>4, <1>5 DEF KeyInv, TypeInv, NodeAt, Runs
<1>10. Identities'
  BY <1>1, <1>2, <1>9 DEF KeyInv, Identities, IdentityAt, Runs
<1> QED  BY <1>7, <1>8, <1>10

\* A node writes its identity file: nobody else is writing it, or signs with another key.
LEMMA KeyWritten ==
    ASSUME KeyInv, NEW n \in Node, Runs(n), NEW v \in Nat, NEW st \in {"writing", "running"},
           WriteFile(node[n].at, "identity", v), node' = [node EXCEPT ![n].step = st],
           UNCHANGED lane, node[n].key # 0,
           \/ st = "writing" /\ v = 0 /\ IdentityAt(n) = None
           \/ st = "running" /\ v = node[n].key /\ node[n].step = "writing"
    PROVE  Apart' /\ NoBackup' /\ Identities'
<1> DEFINE d == node[n].at
           x == [node[n] EXCEPT !.step = st]
<1>1. node \in [Node -> NodeState] /\ node[n] \in NodeState /\ dir \in [Dir -> Contents \cup {None}]
  BY DEF KeyInv, TypeInv, TypeOK, NodeState
<1>2. x \in NodeState /\ x.step = st /\ x.at = d /\ x.key = node[n].key /\ node' = [node EXCEPT ![n] = x]
  BY <1>1 DEF NodeState, NodeStep
<1>3. d \in Dir /\ dir[d] # None
  BY DEF KeyInv, TypeInv, NodeAt, Runs
<1>4. WriteFile(d, "identity", v) /\ "identity" \in File
  BY DEF File
<1>5. IdentityAt(n) = dir[d].files["identity"]
  BY DEF IdentityAt
<1>6. node[n].step = "writing" => dir[d].files["identity"] = 0
  BY <1>5 DEF KeyInv, Identities
<1> HIDE DEF x, d
<1>7. node'[n] = x /\ \A m \in Node \ {n} : node'[m] = node[m]
  BY <1>1, <1>2, NodeMoved
<1>8. /\ \A e \in Dir \ {d} : dir'[e] = dir[e]
      /\ dir'[d].manifest = dir[d].manifest /\ dir'[d].files["identity"] = v
  BY <1>1, <1>3, <1>4, FileWritten
<1>9. \A m \in Node : Runs(m)' => Runs(m) /\ node'[m].at = node[m].at
  BY <1>2, <1>7 DEF Runs, d
<1>10. Apart'
  BY <1>9 DEF KeyInv, Apart, Busy
<1>11. NoBackup'
  BY <1>8, <1>9 DEF KeyInv, NoBackup, TypeInv, NodeAt, Runs
<1>12. dir[d].files["identity"] \in {0, None}
  BY <1>5, <1>6
<1>13. ASSUME NEW m \in Node \ {n}, node[m].step \in {"writing", "running"} PROVE node[m].at \in Dir \ {d}
  <2>1. node[m].at \in Dir
    BY <1>13 DEF KeyInv, TypeInv, NodeAt
  <2>2. ASSUME node[m].at = d PROVE FALSE
    <3>1. CASE node[m].step = "running"
      <4>1. dir[d].files["identity"] = node[m].key /\ node[m].key # 0 /\ node[m].key \in Nat
        BY <1>1, <1>13, <2>2, <3>1 DEF KeyInv, Identities, IdentityAt, NodeState
      <4> QED  BY <4>1, <1>12, Constants
    <3>2. CASE node[m].step = "writing"
      <4>1. dir[d].files["identity"] = 0
        BY <1>13, <2>2, <3>2 DEF KeyInv, Identities, IdentityAt
      <4>2. node[n].step = "writing"
        BY <4>1, <1>5, Constants
      <4> QED  BY <1>13, <2>2, <3>2, <4>2 DEF KeyInv, Identities, d
    <3> QED  BY <1>13, <3>1, <3>2
  <2> QED  BY <2>1, <2>2
<1>14. Identities'
  <2>1. IdentityAt(n)' = v
    BY <1>2, <1>7, <1>8 DEF IdentityAt
  <2>2. \A m \in Node \ {n} : node[m].step \in {"writing", "running"} => IdentityAt(m)' = IdentityAt(m)
    BY <1>7, <1>8, <1>13 DEF IdentityAt
  <2> QED  BY <1>2, <1>7, <1>13, <2>1, <2>2 DEF KeyInv, Identities, d
<1> QED  BY <1>10, <1>11, <1>14

LEMMA KeyNodeNext ==
    ASSUME OperatorWaits, KeyInv, NEW n \in Node, NodeNext(n)
    PROVE  Apart' /\ NoBackup' /\ Identities'
<1>0. node \in [Node -> NodeState] /\ node[n] \in NodeState /\ dir \in [Dir -> Contents \cup {None}]
  BY DEF KeyInv, TypeInv, TypeOK, NodeState
<1>1. ASSUME NEW d \in DataDir[n], StartNode(n, d) PROVE Apart' /\ NoBackup' /\ Identities'
  BY <1>1, KeyStart
<1>2. ASSUME node[n].step \in {"reading", "rereading"}, Parse(n)
      PROVE  Apart' /\ NoBackup' /\ Identities'
  <2> DEFINE i == IdentityAt(n)
             x == IF i = 0 THEN Off ELSE [node[n] EXCEPT !.step = "running", !.key = i]
  <2>1. i \in Nat
    <3>1. dir[node[n].at] \in Contents
      BY <1>0, <1>2 DEF KeyInv, TypeInv, NodeAt
    <3> QED  BY <1>2, <3>1 DEF Parse, IdentityAt, Contents, Files, File
  <2>2. i = dir[node[n].at].files["identity"]
    BY DEF IdentityAt
  <2>3. node' = [node EXCEPT ![n] = x] /\ UNCHANGED <<dir, lane>>
    BY <1>2 DEF Parse
  <2>4. /\ x \in NodeState
        /\ \/ x = Off
           \/ i # 0 /\ x.step = "running" /\ x.at = node[n].at /\ x.key = i
    <3> HIDE DEF i
    <3> QED  BY <1>0, <2>1, OffTyped DEF NodeState, NodeStep
  <2> HIDE DEF x, i
  <2> QED  BY <1>2, <2>2, <2>3, <2>4, NodeOnly, OffTyped DEF Runs
<1>3. CASE GenerateIdentity(n)
  <2> DEFINE x == [node[n] EXCEPT !.step = "creating", !.key = keys + 1]
  <2>1. keys + 1 \in Nat /\ keys + 1 # 0
    BY DEF KeyInv, TypeInv, TypeOK
  <2>2. /\ x \in NodeState /\ x.step = "creating" /\ x.at = node[n].at
        /\ x.key # 0
    <3> DEFINE k == keys + 1
    <3>1. k \in Nat /\ k # 0
      BY <2>1
    <3> HIDE DEF k
    <3>2. x = [node[n] EXCEPT !.step = "creating", !.key = k]
      BY DEF k
    <3> QED  BY <1>0, <3>1, <3>2 DEF NodeState, NodeStep
  <2>3. node' = [node EXCEPT ![n] = x] /\ UNCHANGED <<dir, lane>> /\ Runs(n)
    BY <1>0, <1>3 DEF GenerateIdentity, Runs
  <2> HIDE DEF x
  <2> QED  BY <2>2, <2>3, NodeOnly
<1>4. CASE OpenIdentity(n)
  <2>1. node[n].step = "creating" /\ Runs(n) /\ UNCHANGED lane
    BY <1>4 DEF OpenIdentity, Runs
  <2>2. node[n].key # 0
    BY <2>1 DEF KeyInv, Identities
  <2>3. CASE IdentityAt(n) = None
    <3>1. WriteFile(node[n].at, "identity", 0) /\ node' = [node EXCEPT ![n].step = "writing"]
      BY <1>4, <2>3 DEF OpenIdentity
    <3> QED  BY <2>1, <2>2, <2>3, <3>1, KeyWritten
  <2>4. CASE IdentityAt(n) # None
    <3> DEFINE x == [node[n] EXCEPT !.step = "rereading", !.key = 0]
    <3>1. x \in NodeState /\ x.step = "rereading" /\ x.at = node[n].at
      BY <1>0 DEF NodeState, NodeStep
    <3>2. node' = [node EXCEPT ![n] = x] /\ dir' = dir
      BY <1>0, <1>4, <2>4 DEF OpenIdentity
    <3> HIDE DEF x
    <3> QED  BY <2>1, <3>1, <3>2, NodeOnly
  <2> QED  BY <2>3, <2>4
<1>5. CASE WriteIdentity(n)
  <2>1. node[n].step = "writing" /\ Runs(n) /\ UNCHANGED lane
    BY <1>5 DEF WriteIdentity, Runs
  <2>2. node[n].key # 0 /\ node[n].key \in Nat
    BY <1>0, <2>1 DEF KeyInv, Identities, NodeState
  <2>3. WriteFile(node[n].at, "identity", node[n].key) /\ node' = [node EXCEPT ![n].step = "running"]
    BY <1>5 DEF WriteIdentity
  <2> QED  BY <2>1, <2>2, <2>3, KeyWritten
<1>6. CASE StopNode(n) \/ CrashNode(n)
  <2>1. node' = [node EXCEPT ![n] = Off] /\ UNCHANGED <<dir, lane>>
    BY <1>6 DEF StopNode, CrashNode
  <2> QED  BY <2>1, NodeOnly, OffTyped
<1> QED  BY <1>1, <1>2, <1>3, <1>4, <1>5, <1>6 DEF NodeNext, ReadIdentity, RereadIdentity

\* Steps that move no node, and leave the directories of those that run as they are, apart
\* from files of the store.
LEMMA NodesKept ==
    ASSUME KeyInv, UNCHANGED node,
           \A n \in Node : Runs(n) =>
              /\ dir'[node[n].at].manifest = dir[node[n].at].manifest
              /\ dir'[node[n].at].files["identity"] = dir[node[n].at].files["identity"]
    PROVE  NoBackup' /\ Identities'
<1>1. NoBackup'
  BY DEF KeyInv, NoBackup, Runs
<1>2. Identities'
  BY DEF KeyInv, Identities, IdentityAt, Runs
<1> QED  BY <1>1, <1>2

LEMMA KeyStore ==
    ASSUME KeyInv, WriteBlocks \/ WriteTree
    PROVE  Apart' /\ NoBackup' /\ Identities'
<1> DEFINE d == node[Home].at
<1>1. node[Home].step # "off" /\ UNCHANGED <<node, lane>>
  BY DEF WriteBlocks, WriteTree
<1>2. /\ d \in Dir /\ dir[d] # None /\ dir[d].files["blocks"] \in Nat
      /\ dir \in [Dir -> Contents \cup {None}]
  BY <1>1, Constants DEF KeyInv, TypeInv, NodeAt, TypeOK
<1>3. PICK f \in {"blocks", "tree"}, v \in Nat : WriteFile(d, f, v)
  <2>1. WriteBlocks => WriteFile(d, "blocks", dir[d].files["blocks"] + 1)
    BY DEF WriteBlocks
  <2>2. WriteTree => WriteFile(d, "tree", dir[d].files["blocks"])
    BY DEF WriteTree
  <2>3. dir[d].files["blocks"] + 1 \in Nat
    BY <1>2
  <2> QED  BY <1>2, <2>1, <2>2, <2>3
<1> HIDE DEF d
<1>4. /\ \A e \in Dir \ {d} : dir'[e] = dir[e]
      /\ dir'[d].manifest = dir[d].manifest
      /\ dir'[d].files["identity"] = dir[d].files["identity"]
  <2>1. f \in File /\ v \in Nat \cup {None} /\ "identity" \in File \ {f}
    BY DEF File
  <2> QED  BY <1>2, <1>3, <2>1, FileWritten
<1>5. NoBackup' /\ Identities'
  BY <1>1, <1>4, NodesKept DEF KeyInv, TypeInv, NodeAt, Runs
<1>6. Apart'
  BY <1>1 DEF KeyInv, Apart, Runs, Busy
<1> QED  BY <1>5, <1>6

LEMMA KeyDamage ==
    ASSUME KeyInv, NEW d \in Dir, NEW f \in File, Damage(d, f)
    PROVE  Apart' /\ NoBackup' /\ Identities'
<1>1. UNCHANGED <<node, lane>> /\ dir[d].manifest # None
  BY DEF Damage
<1>2. \A e \in Dir \ {d} : dir'[e] = dir[e]
  BY FileWritten DEF Damage, KeyInv, TypeInv, TypeOK
<1>3. \A n \in Node : Runs(n) => node[n].at \in Dir \ {d}
  BY <1>1 DEF KeyInv, NoBackup, TypeInv, NodeAt, Runs
<1>4. NoBackup' /\ Identities'
  BY <1>1, <1>2, <1>3, NodesKept
<1>5. Apart'
  BY <1>1 DEF KeyInv, Apart, Runs, Busy
<1> QED  BY <1>4, <1>5

LEMMA KeyLaneNext ==
    ASSUME OperatorWaits, KeyInv, NEW l \in Lane, LaneNext(l)
    PROVE  Apart' /\ NoBackup' /\ Identities'
<1>0. TypeInv
  BY DEF KeyInv
<1>1. ASSUME NEW s \in Dir, NEW d \in Dir, BeginCreate(l, s, d) \/ BeginRestore(l, s, d)
      PROVE  Apart' /\ NoBackup' /\ Identities'
  <2>1. PICK op \in {"create", "restore"} : Begin(l, op, s, d)
    BY <1>1 DEF BeginCreate, BeginRestore
  <2>2. LaneKept(l) /\ lane'[l].src = s /\ lane'[l].dst = d /\ UNCHANGED <<dir, node>>
    BY <1>0, <2>1, Begun
  <2>3. \A n \in Node : Runs(n) => node[n].at \notin {s, d}
    <3>1. \A n \in Node : Runs(n) => dir[node[n].at] # None /\ dir[node[n].at].manifest = None
      BY DEF KeyInv, NoBackup, TypeInv, NodeAt, Runs
    <3>2. CASE BeginCreate(l, s, d)
      BY <3>1, <3>2 DEF BeginCreate, RequireStopped
    <3>3. CASE BeginRestore(l, s, d)
      BY <3>1, <3>3 DEF BeginRestore, RequireStopped, Preflight, Verified
    <3> QED  BY <1>1, <3>2, <3>3
  <2>4. Apart'
    BY <2>2, <2>3 DEF KeyInv, Apart, Runs, Busy, LaneKept
  <2> QED  BY <2>2, <2>4, NodesKept
<1>2. ASSUME LaneKept(l), UNCHANGED node, Busy(l)' => Busy(l),
             Busy(l)' => lane'[l].src = lane[l].src /\ lane'[l].dst = lane[l].dst
      PROVE  Apart'
  BY <1>2 DEF KeyInv, Apart, Runs, Busy, LaneKept
<1>3. ASSUME NEW f \in File, CopyFile(l, f) PROVE Apart' /\ NoBackup' /\ Identities'
  <2>1. /\ LaneKept(l) /\ lane'[l].src = lane[l].src /\ lane'[l].dst = lane[l].dst
        /\ UNCHANGED <<dir, node>>
    BY <1>0, <1>3, FileCopied
  <2>2. Busy(l)
    BY <1>3 DEF CopyFile
  <2> QED  BY <1>2, <2>1, <2>2, NodesKept
<1>4. ASSUME WriteManifest(l) \/ FinishRestoreCopy(l), lane'[l] # Idle
      PROVE  Apart' /\ NoBackup' /\ Identities'
  <2>1. /\ LaneKept(l) /\ lane'[l].src = lane[l].src /\ lane'[l].dst = lane[l].dst
        /\ UNCHANGED <<dir, node>> /\ Busy(l)
    BY <1>0, <1>4, Published
  <2> QED  BY <1>2, <2>1, NodesKept
<1>5. CASE Rename(l)
  <2>1. /\ LaneKept(l) /\ Busy(l) /\ UNCHANGED node
        /\ \A e \in Dir \ {lane[l].dst} : dir'[e] = dir[e]
        /\ \/ lane'[l] = Idle
           \/ lane'[l].src = lane[l].src /\ lane'[l].dst = lane[l].dst
    BY <1>0, <1>5, Renamed
  <2>2. Apart'
    BY <1>2, <2>1, IdleTyped DEF Busy
  <2>3. \A n \in Node : Runs(n) => node[n].at \in Dir \ {lane[l].dst}
    BY <2>1 DEF KeyInv, Apart, TypeInv, NodeAt, Runs
  <2> QED  BY <2>1, <2>2, <2>3, NodesKept
<1>6. ASSUME \/ (WriteManifest(l) /\ lane'[l] = Idle)
             \/ RenameFails(l) \/ VerifyPublished(l) \/ CommandFails(l) \/ CrashCommand(l)
      PROVE  Apart' /\ NoBackup' /\ Identities'
  <2>1. LaneKept(l) /\ lane'[l].op \notin {"create", "restore"} /\ UNCHANGED <<dir, node>>
    BY <1>0, <1>6, Ended
  <2> QED  BY <1>2, <2>1, NodesKept DEF Busy
<1> QED  BY <1>0, <1>1, <1>3, <1>4, <1>5, <1>6, LaneCases

LEMMA KeyInvInit == Init => KeyInv
<1> SUFFICES ASSUME Init PROVE KeyInv
  OBVIOUS
<1>1. \A n \in Node : node[n].step = "off"
  BY OffTyped DEF Init
<1> QED  BY <1>1, TypeInvInit DEF KeyInv, Apart, NoBackup, Identities, Runs

LEMMA KeyInvNext == OperatorWaits /\ KeyInv /\ [Next]_vars => KeyInv'
<1> SUFFICES ASSUME OperatorWaits, KeyInv, [Next]_vars PROVE KeyInv'
  OBVIOUS
<1>1. TypeInv'
  BY TypeInvNext DEF KeyInv
<1>2. CASE UNCHANGED vars
  BY <1>1, <1>2 DEF vars, KeyInv, Apart, NoBackup, Identities, Runs, Busy, IdentityAt
<1>3. CASE Next
  BY <1>1, <1>3, KeyNodeNext, KeyStore, KeyLaneNext, KeyDamage DEF Next, KeyInv
<1> QED  BY <1>2, <1>3

\* A node that signs receipts has its key in its identity file, whichever node created the
\* file, whoever crashed and whatever was backed up or restored, if no node is started
\* where a command reads or will publish (loadOrCreateReceiptIdentity).
THEOREM RunningKeyAlwaysDurable == OperatorWaits => (Spec => []RunningKeyDurable)
<1> SUFFICES ASSUME OperatorWaits PROVE Spec => []RunningKeyDurable
  OBVIOUS
<1>1. KeyInv /\ [Next]_vars => KeyInv'
  BY KeyInvNext
<1>2. KeyInv => RunningKeyDurable
  BY DEF KeyInv, Identities, RunningKeyDurable
<1> QED  BY <1>1, <1>2, KeyInvInit, PTL DEF Spec

----------------------------------------------------------------------------
(***************************************************************************)
(* Backups.  Every directory that is not damaged holds a store of one      *)
(* moment, a data directory too; damage shows against the manifest; and    *)
(* what a command has copied is what its source still holds, or nothing,   *)
(* when the source was an empty directory that another command replaced.   *)
(***************************************************************************)

Intact ==
    \A d \in Dir : dir[d] # None /\ d \notin damaged =>
        OneMoment(dir[d]) /\ (dir[d].manifest # None => dir[d].manifest = dir[d].files)

DamageShows ==
    \A d \in damaged :
        /\ dir[d] # None /\ dir[d].manifest # None
        /\ \E f \in File : dir[d].files[f] = None /\ dir[d].manifest[f] # None

Faithful(c) ==
    \/ \A f \in File :
          /\ f \in c.todo => dir[c.src].files[f] # None
          /\ f \notin c.todo => c.staging.files[f] = dir[c.src].files[f]
    \/ c.op = "create" /\ c.todo = {} /\ c.staging.files = NoFiles

FromBackup(c) ==
    /\ c.src \notin damaged /\ c.staging.manifest = None
    /\ dir[c.src].manifest # None /\ dir[c.src].manifest = dir[c.src].files

Ready(c) ==
    /\ c.todo = {} /\ OneMoment(c.staging)
    /\ c.op = "create" => c.staging.manifest = c.staging.files

Copying ==
    \A l \in Lane : Busy(l) /\ lane[l].step # "verify" =>
        /\ Faithful(lane[l])
        /\ lane[l].op = "restore" => FromBackup(lane[l])
        /\ lane[l].step = "publish" => Ready(lane[l])

BackupInv == KeyInv /\ Intact /\ DamageShows /\ Copying

\* A step that changes one directory, of a node, in which no command works.
LEMMA DataWritten ==
    ASSUME BackupInv, UNCHANGED <<lane, damaged>>, NEW d \in Dir,
           \A e \in Dir \ {d} : dir'[e] = dir[e],
           d \notin damaged, \A l \in Lane : ~ UsedBy(l, d),
           OneMoment(dir'[d]), dir'[d].manifest = None
    PROVE  Intact' /\ DamageShows' /\ Copying'
<1>1. OneMoment(dir'[d]) /\ \A e \in Dir \ {d} : OneMoment(dir[e]) <=> OneMoment(dir'[e])
  OBVIOUS
<1>2. Intact'
  <2> SUFFICES ASSUME NEW e \in Dir, dir'[e] # None, e \notin damaged
               PROVE  /\ OneMoment(dir'[e])
                      /\ dir'[e].manifest # None => dir'[e].manifest = dir'[e].files
    BY DEF Intact, OneMoment
  <2>1. CASE e = d
    BY <2>1
  <2>2. CASE e # d
    BY <2>2 DEF BackupInv, Intact
  <2> QED  BY <2>1, <2>2
<1>3. DamageShows'
  <2>1. damaged \in SUBSET Dir
    BY DEF BackupInv, KeyInv, TypeInv, TypeOK
  <2> QED  BY <2>1 DEF BackupInv, DamageShows
<1>4. Copying'
  <2> SUFFICES ASSUME NEW l \in Lane, Busy(l), lane[l].step # "verify"
               PROVE  /\ Faithful(lane[l])'
                      /\ lane[l].op = "restore" => FromBackup(lane[l])'
                      /\ lane[l].step = "publish" => Ready(lane[l])'
    BY DEF Copying, Busy, Faithful, FromBackup, Ready, OneMoment
  <2>1. dir'[lane[l].src] = dir[lane[l].src]
    BY DEF UsedBy, BackupInv, KeyInv, TypeInv, LaneAt
  <2>2. /\ Faithful(lane[l])
        /\ lane[l].op = "restore" => FromBackup(lane[l])
        /\ lane[l].step = "publish" => Ready(lane[l])
    BY DEF BackupInv, Copying
  <2> QED  BY <2>1, <2>2 DEF Faithful, FromBackup, Ready, OneMoment
<1> QED  BY <1>2, <1>3, <1>4

\* Where a node runs nothing is damaged, and no command works.
LEMMA NodesAlone ==
    ASSUME BackupInv, NEW n \in Node, Runs(n)
    PROVE  /\ node[n].at \in Dir /\ dir[node[n].at] # None /\ dir[node[n].at].manifest = None
           /\ node[n].at \notin damaged /\ \A l \in Lane : ~ UsedBy(l, node[n].at)
           /\ OneMoment(dir[node[n].at]) /\ dir \in [Dir -> Contents \cup {None}]
<1>1. /\ node[n].at \in Dir /\ dir[node[n].at] # None /\ dir[node[n].at].manifest = None
      /\ dir \in [Dir -> Contents \cup {None}]
  BY DEF BackupInv, KeyInv, TypeInv, TypeOK, NodeAt, NoBackup, Runs
<1>2. node[n].at \notin damaged
  BY <1>1 DEF BackupInv, DamageShows
<1>3. \A l \in Lane : ~ UsedBy(l, node[n].at)
  BY DEF BackupInv, KeyInv, Apart, UsedBy
<1> QED  BY <1>1, <1>2, <1>3 DEF BackupInv, Intact

LEMMA BackupStart ==
    ASSUME OperatorWaits, BackupInv, NEW n \in Node, NEW d \in DataDir[n], StartNode(n, d)
    PROVE  Intact' /\ DamageShows' /\ Copying'
<1> DEFINE o == Opened(n, dir[d])
<1>1. d \in Dir /\ dir[d] \in Contents \cup {None} /\ dir \in [Dir -> Contents \cup {None}]
  BY Constants DEF BackupInv, KeyInv, TypeInv, TypeOK
<1>2. /\ UNCHANGED <<lane, damaged>> /\ (\A l \in Lane : ~ UsedBy(l, d))
      /\ dir[d] # None => dir[d].manifest = None
      /\ dir' = [dir EXCEPT ![d] = o]
  BY DEF StartNode
<1>3. dir'[d] = o /\ \A e \in Dir \ {d} : dir'[e] = dir[e]
  BY <1>1, <1>2
<1>4. d \notin damaged
  BY <1>2 DEF BackupInv, DamageShows
<1>5. /\ o.manifest = None
      /\ n # Home /\ dir[d] # None => o = dir[d]
      /\ n # Home /\ dir[d] = None => o = EmptyDirectory
      /\ n = Home => o.files["blocks"] \in Nat /\ o.files["tree"] = o.files["blocks"]
  BY <1>1, <1>2, OpenedTyped
<1> HIDE DEF o
<1>6. OneMoment(o)
  <2>1. CASE n = Home
    BY <1>5, <2>1 DEF OneMoment
  <2>2. CASE n # Home /\ dir[d] # None
    BY <1>1, <1>4, <1>5, <2>2 DEF BackupInv, Intact
  <2>3. CASE n # Home /\ dir[d] = None
    BY <1>5, <2>3, EmptyTyped DEF OneMoment, File
  <2> QED  BY <2>1, <2>2, <2>3
<1> QED  BY <1>1, <1>2, <1>3, <1>4, <1>5, <1>6, DataWritten

LEMMA BackupNothing ==
    ASSUME BackupInv, UNCHANGED <<dir, lane, damaged>>
    PROVE  Intact' /\ DamageShows' /\ Copying'
BY DEF BackupInv, Intact, DamageShows, Copying, Faithful, FromBackup, Ready, OneMoment, Busy

LEMMA BackupNodeNext ==
    ASSUME OperatorWaits, BackupInv, NEW n \in Node, NodeNext(n)
    PROVE  Intact' /\ DamageShows' /\ Copying'
<1>1. ASSUME NEW v \in Nat, Runs(n), WriteFile(node[n].at, "identity", v), UNCHANGED <<lane, damaged>>
      PROVE  Intact' /\ DamageShows' /\ Copying'
  <2> DEFINE d == node[n].at
  <2>1. /\ d \in Dir /\ dir[d] # None /\ dir[d].manifest = None
        /\ d \notin damaged /\ (\A l \in Lane : ~ UsedBy(l, d))
        /\ OneMoment(dir[d]) /\ dir \in [Dir -> Contents \cup {None}]
    BY <1>1, NodesAlone
  <2>2. WriteFile(d, "identity", v) /\ "identity" \in File /\ v \in Nat \cup {None}
        /\ "blocks" \in File \ {"identity"} /\ "tree" \in File \ {"identity"}
    BY <1>1 DEF File
  <2> HIDE DEF d
  <2>3. /\ \A e \in Dir \ {d} : dir'[e] = dir[e]
        /\ dir'[d].manifest = None
        /\ dir'[d].files["blocks"] = dir[d].files["blocks"]
        /\ dir'[d].files["tree"] = dir[d].files["tree"]
    BY <2>1, <2>2, FileWritten
  <2>4. OneMoment(dir'[d])
    BY <2>1, <2>3 DEF OneMoment
  <2> QED  BY <1>1, <2>1, <2>3, <2>4, DataWritten
<1>2. ASSUME NEW d \in DataDir[n], StartNode(n, d) PROVE Intact' /\ DamageShows' /\ Copying'
  BY <1>2, BackupStart
<1>3. CASE OpenIdentity(n)
  <2>1. CASE IdentityAt(n) = None
    BY <1>1, <1>3, <2>1 DEF OpenIdentity, Runs
  <2>2. CASE IdentityAt(n) # None
    BY <1>3, <2>2, BackupNothing DEF OpenIdentity
  <2> QED  BY <2>1, <2>2
<1>4. CASE WriteIdentity(n)
  <2>1. node[n].key \in Nat
    BY DEF BackupInv, KeyInv, TypeInv, TypeOK
  <2> QED  BY <1>1, <1>4, <2>1 DEF WriteIdentity, Runs
<1>5. CASE \/ ReadIdentity(n) \/ GenerateIdentity(n) \/ RereadIdentity(n)
           \/ StopNode(n) \/ CrashNode(n)
  BY <1>5, BackupNothing DEF ReadIdentity, RereadIdentity, Parse, GenerateIdentity, StopNode, CrashNode
<1> QED  BY <1>2, <1>3, <1>4, <1>5 DEF NodeNext

LEMMA BackupStore ==
    ASSUME BackupInv, WriteBlocks \/ WriteTree
    PROVE  Intact' /\ DamageShows' /\ Copying'
<1> DEFINE d == node[Home].at
           b == dir[d].files["blocks"]
           t == dir[d].files["tree"]
<1>1. Home \in Node /\ Runs(Home) /\ UNCHANGED <<lane, damaged>>
  BY Constants DEF WriteBlocks, WriteTree, Runs
<1>2. /\ d \in Dir /\ dir[d] # None /\ dir[d].manifest = None
      /\ d \notin damaged /\ (\A l \in Lane : ~ UsedBy(l, d))
      /\ OneMoment(dir[d]) /\ dir \in [Dir -> Contents \cup {None}]
  BY <1>1, NodesAlone
<1>3. b \in Nat /\ t \in Nat
  BY <1>1 DEF BackupInv, KeyInv, TypeInv, NodeAt, Runs
<1>4. PICK f \in {"blocks", "tree"}, v \in Nat :
         /\ WriteFile(d, f, v)
         /\ (f = "blocks" /\ v = t + 1) \/ (f = "tree" /\ v = b)
  <2>1. WriteBlocks => WriteFile(d, "blocks", b + 1) /\ b = t
    BY DEF WriteBlocks
  <2>2. WriteTree => WriteFile(d, "tree", b)
    BY DEF WriteTree
  <2>3. b + 1 \in Nat
    BY <1>3
  <2> QED  BY <1>3, <2>1, <2>2, <2>3
<1> HIDE DEF d
<1>5. /\ \A e \in Dir \ {d} : dir'[e] = dir[e]
      /\ dir'[d].manifest = None /\ dir'[d].files[f] = v
      /\ \A g \in File \ {f} : dir'[d].files[g] = dir[d].files[g]
  <2>1. f \in File /\ v \in Nat \cup {None}
    BY DEF File
  <2> QED  BY <1>2, <1>4, <2>1, FileWritten
<1>6. OneMoment(dir'[d])
  <2>1. CASE f = "blocks"
    <3>1. dir'[d].files["blocks"] = t + 1 /\ dir'[d].files["tree"] = t
      BY <1>4, <1>5, <2>1 DEF File
    <3> HIDE DEF t
    <3>2. t + 1 \in Nat /\ (t + 1) - t = 1
      BY <1>3
    <3> QED  BY <1>3, <3>1, <3>2 DEF OneMoment
  <2>2. CASE f = "tree"
    <3>1. dir'[d].files["blocks"] = b /\ dir'[d].files["tree"] = b
      BY <1>4, <1>5, <2>2 DEF File
    <3> HIDE DEF b
    <3>2. b - b = 0
      BY <1>3
    <3> QED  BY <1>3, <3>1, <3>2 DEF OneMoment
  <2> QED  BY <2>1, <2>2
<1> QED  BY <1>1, <1>2, <1>5, <1>6, DataWritten

\* A command that another step leaves alone, with its source, is as faithful as it was.
LEMMA LaneUntouched ==
    ASSUME BackupInv, NEW k \in Lane, lane'[k] = lane[k],
           Busy(k) => /\ dir'[lane[k].src] = dir[lane[k].src]
                      /\ lane[k].src \in damaged' => lane[k].src \in damaged,
           Busy(k)', lane'[k].step # "verify"
    PROVE  /\ Faithful(lane[k])'
           /\ lane'[k].op = "restore" => FromBackup(lane[k])'
           /\ lane'[k].step = "publish" => Ready(lane[k])'
<1>1. Busy(k) /\ lane[k].step # "verify"
  BY DEF Busy
<1>2. /\ Faithful(lane[k])
      /\ lane[k].op = "restore" => FromBackup(lane[k])
      /\ lane[k].step = "publish" => Ready(lane[k])
  BY <1>1 DEF BackupInv, Copying
<1> QED  BY <1>1, <1>2 DEF Faithful, FromBackup, Ready, OneMoment

LEMMA BackupDamage ==
    ASSUME ~ DamageWhileRead, BackupInv, NEW d \in Dir, NEW f \in File, Damage(d, f)
    PROVE  Intact' /\ DamageShows' /\ Copying'
<1>1. /\ UNCHANGED lane /\ damaged' = damaged \cup {d} /\ (\A l \in Lane : ~ UsedBy(l, d))
      /\ dir[d] # None /\ dir[d].manifest # None /\ dir[d].files[f] # None
  BY DEF Damage
<1>2. /\ \A e \in Dir \ {d} : dir'[e] = dir[e]
      /\ dir'[d] # None /\ dir'[d].manifest = dir[d].manifest /\ dir'[d].files[f] = None
      /\ \A g \in File \ {f} : dir'[d].files[g] = dir[d].files[g]
  BY FileWritten DEF Damage, BackupInv, KeyInv, TypeInv, TypeOK
<1>3. damaged \in SUBSET Dir
  BY DEF BackupInv, KeyInv, TypeInv, TypeOK
<1>4. Intact'
  <2> SUFFICES ASSUME NEW e \in Dir \ {d}, dir'[e] # None, e \notin damaged
               PROVE  /\ OneMoment(dir[e])
                      /\ dir'[e].manifest # None => dir'[e].manifest = dir'[e].files
    BY <1>1, <1>2 DEF Intact, OneMoment
  <2> QED  BY <1>2 DEF BackupInv, Intact
<1>5. DamageShows'
  <2>1. \E g \in File : dir'[d].files[g] = None /\ dir'[d].manifest[g] # None
    <3>1. CASE d \in damaged
      BY <1>1, <1>2, <3>1 DEF BackupInv, DamageShows
    <3>2. CASE d \notin damaged
      <4>1. dir[d].manifest = dir[d].files
        BY <1>1, <3>2 DEF BackupInv, Intact
      <4> QED  BY <1>1, <1>2, <4>1
    <3> QED  BY <3>1, <3>2
  <2>2. ASSUME NEW e \in damaged, e # d
        PROVE  /\ dir'[e] # None /\ dir'[e].manifest # None
               /\ \E g \in File : dir'[e].files[g] = None /\ dir'[e].manifest[g] # None
    BY <1>2, <1>3, <2>2 DEF BackupInv, DamageShows
  <2> QED  BY <1>1, <1>2, <2>1, <2>2 DEF DamageShows
<1>6. Copying'
  <2>1. \A k \in Lane : Busy(k) => lane[k].src \in Dir \ {d}
    BY <1>1 DEF UsedBy, BackupInv, KeyInv, TypeInv, LaneAt
  <2> QED  BY <1>1, <1>2, <2>1, LaneUntouched DEF Copying
<1> QED  BY <1>4, <1>5, <1>6

\* Steps of a command that leave directories alone.
LEMMA LaneOnly ==
    ASSUME BackupInv, NEW l \in Lane, LaneKept(l), UNCHANGED <<dir, damaged>>,
           Busy(l)' /\ lane'[l].step # "verify" =>
              /\ Faithful(lane[l])'
              /\ lane'[l].op = "restore" => FromBackup(lane[l])'
              /\ lane'[l].step = "publish" => Ready(lane[l])'
    PROVE  Intact' /\ DamageShows' /\ Copying'
<1>1. Intact' /\ DamageShows'
  BY DEF BackupInv, Intact, DamageShows, OneMoment
<1>2. \A k \in Lane \ {l} : lane'[k] = lane[k]
  BY DEF LaneKept
<1>3. Copying'
  BY <1>2, LaneUntouched DEF Copying
<1> QED  BY <1>1, <1>3

LEMMA BackupBegin ==
    ASSUME BackupInv, NEW l \in Lane, NEW s \in Dir, NEW d \in Dir,
           BeginCreate(l, s, d) \/ BeginRestore(l, s, d)
    PROVE  Intact' /\ DamageShows' /\ Copying'
<1>0. TypeInv
  BY DEF BackupInv, KeyInv
<1>1. PICK op \in {"create", "restore"} :
         /\ Begin(l, op, s, d) /\ dir[s] # None
         /\ op = "restore" => Verified(dir[s])
  BY DEF BeginCreate, BeginRestore, Preflight, Verified
<1>2. /\ LaneKept(l)
      /\ lane'[l].op = op /\ lane'[l].step = "copy" /\ lane'[l].src = s
      /\ lane'[l].todo = Present(dir[s]) /\ lane'[l].staging = EmptyDirectory
      /\ UNCHANGED <<dir, damaged>>
  BY <1>0, <1>1, Begun
<1>3. \A f \in File : /\ f \in Present(dir[s]) => dir[s].files[f] # None
                      /\ f \notin Present(dir[s]) => dir[s].files[f] = None
  BY DEF Present
<1>4. Faithful(lane[l])'
  BY <1>2, <1>3, EmptyTyped DEF Faithful
<1>5. op = "restore" => FromBackup(lane[l])'
  <2>1. ASSUME op = "restore" PROVE s \notin damaged
    <3>1. dir[s].manifest = dir[s].files /\ dir[s].manifest # None
      BY <1>1, <2>1 DEF Verified
    <3> QED  BY <3>1 DEF BackupInv, DamageShows
  <2> QED  BY <1>1, <1>2, <2>1, EmptyTyped DEF FromBackup, Verified
<1> QED  BY <1>2, <1>4, <1>5, LaneOnly

LEMMA BackupCopy ==
    ASSUME BackupInv, NEW l \in Lane, NEW f \in File, CopyFile(l, f)
    PROVE  Intact' /\ DamageShows' /\ Copying'
<1>1. Busy(l) /\ lane[l].step = "copy" /\ f \in lane[l].todo
  BY DEF CopyFile
<1>2. /\ LaneKept(l)
      /\ lane'[l].op = lane[l].op /\ lane'[l].step = "copy" /\ lane'[l].src = lane[l].src
      /\ lane'[l].todo = lane[l].todo \ {f}
      /\ lane'[l].staging.manifest = lane[l].staging.manifest
      /\ lane'[l].staging.files[f] = dir[lane[l].src].files[f]
      /\ \A g \in File \ {f} : lane'[l].staging.files[g] = lane[l].staging.files[g]
      /\ UNCHANGED <<dir, damaged>>
  BY FileCopied DEF BackupInv, KeyInv
<1>3. Faithful(lane[l]) /\ (lane[l].op = "restore" => FromBackup(lane[l]))
  BY <1>1 DEF BackupInv, Copying
<1>4. \A g \in File : /\ g \in lane[l].todo => dir[lane[l].src].files[g] # None
                      /\ g \notin lane[l].todo =>
                            lane[l].staging.files[g] = dir[lane[l].src].files[g]
  BY <1>1, <1>3 DEF Faithful
<1>5. Faithful(lane[l])'
  BY <1>2, <1>4 DEF Faithful
<1>6. lane'[l].op = "restore" => FromBackup(lane[l])'
  BY <1>2, <1>3 DEF FromBackup
<1> QED  BY <1>2, <1>5, <1>6, LaneOnly

LEMMA BackupPublish ==
    ASSUME BackupInv, NEW l \in Lane, WriteManifest(l) \/ FinishRestoreCopy(l), lane'[l] # Idle
    PROVE  Intact' /\ DamageShows' /\ Copying'
<1>1. /\ LaneKept(l) /\ Busy(l) /\ lane[l].step = "copy" /\ lane[l].todo = {}
      /\ lane'[l].op = lane[l].op /\ lane'[l].step = "publish" /\ lane'[l].src = lane[l].src
      /\ lane'[l].todo = {} /\ lane'[l].staging.files = lane[l].staging.files
      /\ lane[l].op = "create" => /\ lane'[l].staging.manifest = lane[l].staging.files
                                 /\ dir[lane[l].src].manifest = None
      /\ lane[l].op = "restore" => lane'[l].staging = lane[l].staging
      /\ UNCHANGED <<dir, damaged>>
  BY Published DEF BackupInv, KeyInv
<1>2. Faithful(lane[l]) /\ (lane[l].op = "restore" => FromBackup(lane[l]))
  BY <1>1 DEF BackupInv, Copying
<1>3. lane[l].src \in Dir /\ dir[lane[l].src] # None /\ lane[l].op \in {"create", "restore"}
  BY <1>1 DEF BackupInv, KeyInv, TypeInv, LaneAt, Busy
<1>4. Faithful(lane[l])'
  BY <1>1, <1>2 DEF Faithful
<1>5. lane'[l].op = "restore" => FromBackup(lane[l])'
  BY <1>1, <1>2 DEF FromBackup
<1>6. OneMoment(lane[l].staging)
  <2>1. "blocks" \in File /\ "tree" \in File
    BY DEF File
  <2>2. CASE \A g \in File : lane[l].staging.files[g] = dir[lane[l].src].files[g]
    <3>1. lane[l].src \notin damaged
      BY <1>1, <1>2, <1>3 DEF FromBackup, BackupInv, DamageShows
    <3>2. OneMoment(dir[lane[l].src])
      BY <1>3, <3>1 DEF BackupInv, Intact
    <3> QED  BY <2>1, <2>2, <3>2 DEF OneMoment
  <2>3. CASE lane[l].staging.files = NoFiles
    BY <2>1, <2>3, EmptyTyped DEF OneMoment
  <2> QED  BY <1>1, <1>2, <2>2, <2>3 DEF Faithful
<1>7. Ready(lane[l])'
  <2>1. OneMoment(lane'[l].staging)
    BY <1>1, <1>6 DEF OneMoment
  <2> QED  BY <1>1, <2>1 DEF Ready, OneMoment
<1> QED  BY <1>1, <1>4, <1>5, <1>7, LaneOnly

LEMMA BackupRename ==
    ASSUME BackupInv, NEW l \in Lane, Rename(l)
    PROVE  Intact' /\ DamageShows' /\ Copying'
<1> DEFINE d == lane[l].dst
<1>1. /\ LaneKept(l) /\ Busy(l) /\ lane[l].step = "publish" /\ Replaceable(d) /\ d \in Dir
      /\ dir'[d] = lane[l].staging /\ (\A e \in Dir \ {d} : dir'[e] = dir[e])
      /\ lane'[l] = Idle \/ lane'[l].step = "verify"
      /\ UNCHANGED damaged
  BY Renamed DEF BackupInv, KeyInv
<1>2. Ready(lane[l]) /\ (lane[l].op = "restore" => FromBackup(lane[l]))
  BY <1>1 DEF BackupInv, Copying
<1>3. lane[l].op \in {"create", "restore"}
  BY <1>1 DEF Busy
<1>4. damaged \in SUBSET Dir /\ d \notin damaged
  BY <1>1, EmptyTyped DEF BackupInv, KeyInv, TypeInv, TypeOK, DamageShows, Replaceable
<1> HIDE DEF d
<1>5. Intact'
  <2> SUFFICES ASSUME NEW e \in Dir, dir'[e] # None, e \notin damaged
               PROVE  /\ OneMoment(dir'[e])
                      /\ dir'[e].manifest # None => dir'[e].manifest = dir'[e].files
    BY <1>1 DEF Intact, OneMoment
  <2>1. CASE e = d
    BY <1>1, <1>2, <1>3, <2>1 DEF Ready, FromBackup
  <2>2. CASE e # d
    BY <1>1, <2>2 DEF BackupInv, Intact
  <2> QED  BY <2>1, <2>2
<1>6. DamageShows'
  BY <1>1, <1>4 DEF BackupInv, DamageShows
<1>7. ASSUME NEW k \in Lane, Busy(k)', lane'[k].step # "verify"
      PROVE  /\ Faithful(lane[k])'
             /\ lane'[k].op = "restore" => FromBackup(lane[k])'
             /\ lane'[k].step = "publish" => Ready(lane[k])'
  <2>1. k # l /\ lane'[k] = lane[k] /\ Busy(k)
    BY <1>1, <1>7, IdleTyped DEF Busy, LaneKept
  <2>2. lane[k].src \in Dir /\ dir[lane[k].src] # None
    BY <2>1 DEF BackupInv, KeyInv, TypeInv, LaneAt
  <2>3. CASE lane[k].src # d
    BY <1>1, <1>7, <2>1, <2>2, <2>3, LaneUntouched
  <2>4. CASE lane[k].src = d
    <3>1. dir[lane[k].src] = EmptyDirectory
      BY <1>1, <2>2, <2>4 DEF Replaceable
    <3>2. /\ Faithful(lane[k]) /\ (lane[k].op = "restore" => FromBackup(lane[k]))
          /\ lane[k].step = "publish" => Ready(lane[k])
      BY <1>7, <2>1 DEF BackupInv, Copying
    <3>3. lane[k].op = "create"
      BY <2>1, <3>1, <3>2, EmptyTyped DEF FromBackup, Busy
    <3>4. lane[k].todo = {} /\ lane[k].staging.files = NoFiles
      <4>1. CASE \A f \in File : /\ f \in lane[k].todo => dir[lane[k].src].files[f] # None
                                 /\ f \notin lane[k].todo =>
                                       lane[k].staging.files[f] = dir[lane[k].src].files[f]
        <5>1. \A f \in File : f \notin lane[k].todo /\ lane[k].staging.files[f] = None
          BY <3>1, <4>1, EmptyTyped
        <5>2. lane[k].todo \in SUBSET File /\ lane[k].staging.files \in [File -> Nat \cup {None}]
          <6>1. lane[k] \in Command /\ lane[k].staging \in Contents
            BY <1>7, <2>1 DEF BackupInv, KeyInv, TypeInv, TypeOK, LaneAt
          <6> QED  BY <6>1 DEF Command, Contents, Files
        <5> QED  BY <5>1, <5>2 DEF NoFiles
      <4> QED  BY <3>2, <4>1 DEF Faithful
    <3>5. Faithful(lane[k])'
      BY <2>1, <3>3, <3>4 DEF Faithful
    <3> QED  BY <2>1, <3>2, <3>3, <3>5 DEF Ready, OneMoment
  <2> QED  BY <2>3, <2>4
<1> QED  BY <1>5, <1>6, <1>7 DEF Copying

LEMMA BackupLaneNext ==
    ASSUME BackupInv, NEW l \in Lane, LaneNext(l)
    PROVE  Intact' /\ DamageShows' /\ Copying'
<1>0. TypeInv
  BY DEF BackupInv, KeyInv
<1>1. ASSUME \/ (WriteManifest(l) /\ lane'[l] = Idle)
             \/ RenameFails(l) \/ VerifyPublished(l) \/ CommandFails(l) \/ CrashCommand(l)
      PROVE  Intact' /\ DamageShows' /\ Copying'
  <2>1. LaneKept(l) /\ lane'[l].op \notin {"create", "restore"} /\ UNCHANGED <<dir, damaged>>
    BY <1>0, <1>1, Ended
  <2>2. ~ Busy(l)'
    BY <2>1 DEF Busy
  <2> QED  BY <2>1, <2>2, LaneOnly
<1> QED
  BY <1>0, <1>1, LaneCases, BackupBegin, BackupCopy, BackupPublish, BackupRename

LEMMA BackupInvInit == Init => BackupInv
<1> SUFFICES ASSUME Init PROVE BackupInv
  OBVIOUS
<1>1. (\A d \in Dir : dir[d] = None) /\ damaged = {} /\ \A l \in Lane : lane[l].op = "idle"
  BY IdleTyped DEF Init
<1> QED  BY <1>1, KeyInvInit DEF BackupInv, Intact, DamageShows, Copying, Busy

LEMMA BackupInvNext ==
    OperatorWaits /\ ~ DamageWhileRead /\ BackupInv /\ [Next]_vars => BackupInv'
<1> SUFFICES ASSUME OperatorWaits, ~ DamageWhileRead, BackupInv, [Next]_vars PROVE BackupInv'
  OBVIOUS
<1>1. KeyInv'
  BY KeyInvNext DEF BackupInv
<1>2. CASE UNCHANGED vars
  BY <1>1, <1>2, BackupNothing DEF vars, BackupInv
<1>3. CASE Next
  <2>1. Intact' /\ DamageShows' /\ Copying'
    BY <1>3, BackupNodeNext, BackupStore, BackupLaneNext, BackupDamage DEF Next
  <2> QED  BY <1>1, <2>1 DEF BackupInv
<1> QED  BY <1>2, <1>3

\* A backup that is there is complete, verifies and holds a store of one moment, whatever
\* crashed at whatever step, if no node is started where a command reads or will publish
\* and backups are not damaged while they are read (createNodeBackup).
THEOREM BackupsAlwaysOfOneMoment ==
    OperatorWaits /\ ~ DamageWhileRead => (Spec => []BackupsOfOneMoment)
<1> SUFFICES ASSUME OperatorWaits, ~ DamageWhileRead PROVE Spec => []BackupsOfOneMoment
  OBVIOUS
<1>1. BackupInv /\ [Next]_vars => BackupInv'
  BY BackupInvNext
<1>2. BackupInv => BackupsOfOneMoment
  BY DEF BackupInv, Intact, BackupsOfOneMoment, Verified
<1> QED  BY <1>1, <1>2, BackupInvInit, PTL DEF Spec

\* What a node starts from after a restore is what some undamaged backup was made of, all
\* of it and at once: no crash leaves a part of it (restoreNodeBackup).
THEOREM RestoredAlwaysWhole ==
    OperatorWaits /\ ~ DamageWhileRead => (Spec => RestoredWhole)
<1> SUFFICES ASSUME OperatorWaits, ~ DamageWhileRead PROVE Spec => RestoredWhole
  OBVIOUS
<1> DEFINE Source(d) == \/ \E n \in Node : node[n] = Off /\ node'[n].at = d
                        \/ \E b \in Dir : b \notin damaged /\ dir[b] # None
                                          /\ dir[b].manifest = dir'[d].files
           Whole == \A d \in Dir :
              dir[d] = None /\ dir'[d] # None /\ dir'[d].manifest = None => Source(d)
<1>1. BackupInv /\ [Next]_vars => [Whole]_vars
  <2> SUFFICES ASSUME BackupInv, Next, NEW d \in Dir,
                      dir[d] = None, dir'[d] # None, dir'[d].manifest = None
               PROVE  Source(d)
    OBVIOUS
  <2>0. TypeInv /\ TypeOK
    BY DEF BackupInv, KeyInv, TypeInv
  <2>1. ASSUME NEW e \in Dir, dir[e] # None, NEW f, NEW v, WriteFile(e, f, v) PROVE FALSE
    <3>1. dir'[d] = dir[d]
      BY <2>0, <2>1 DEF WriteFile, TypeOK
    <3> QED  BY <3>1
  <2>2. ASSUME NEW n \in Node, NodeNext(n) PROVE Source(d)
    <3>1. ASSUME NEW e \in DataDir[n], StartNode(n, e) PROVE Source(d)
      <4>1. e \in Dir /\ node[n] = Off /\ dir' = [dir EXCEPT ![e] = Opened(n, dir[e])]
        BY <3>1, Constants DEF StartNode
      <4>2. node'[n].at = e
        BY <2>0, <3>1 DEF StartNode, TypeOK
      <4>3. d = e
        BY <2>0, <4>1 DEF TypeOK
      <4> QED  BY <4>1, <4>2, <4>3
    <3>2. Runs(n) => node[n].at \in Dir /\ dir[node[n].at] # None
      BY <2>0 DEF TypeInv, NodeAt, Runs
    <3>3. ~ OpenIdentity(n)
      BY <2>1, <3>2 DEF OpenIdentity, Runs
    <3>4. ~ WriteIdentity(n)
      BY <2>1, <3>2 DEF WriteIdentity, Runs
    <3> QED
      BY <2>2, <3>1, <3>3, <3>4 DEF NodeNext, ReadIdentity, RereadIdentity, Parse,
         GenerateIdentity, StopNode, CrashNode
  <2>3. ~ WriteBlocks /\ ~ WriteTree
    <3>1. Runs(Home) => node[Home].at \in Dir /\ dir[node[Home].at] # None
      BY <2>0, Constants DEF TypeInv, NodeAt, Runs
    <3> QED  BY <2>1, <3>1 DEF WriteBlocks, WriteTree, Runs
  <2>4. \A e \in Dir, f \in File : ~ Damage(e, f)
    BY <2>1 DEF Damage
  <2>5. ASSUME NEW l \in Lane, LaneNext(l) PROVE Source(d)
    <3>1. Rename(l)
      BY <2>5 DEF LaneNext, BeginCreate, BeginRestore, Begin, CopyFile, WriteManifest,
         FinishRestoreCopy, RenameFails, VerifyPublished, CommandFails, CrashCommand
    <3> DEFINE c == lane[l]
    <3>2. /\ Busy(l) /\ c.step = "publish" /\ c.staging \in Contents
          /\ dir'[c.dst] = c.staging /\ \A e \in Dir \ {c.dst} : dir'[e] = dir[e]
      BY <2>0, <3>1, Renamed
    <3>3. dir'[d] = c.staging
      BY <3>2
    <3>4. Ready(c) /\ Faithful(c) /\ (c.op = "restore" => FromBackup(c))
      BY <3>2 DEF BackupInv, Copying
    <3>5. c.src \in Dir /\ dir[c.src] # None /\ dir[c.src] \in Contents
      BY <2>0, <3>2 DEF TypeInv, LaneAt, TypeOK
    <3>6. c.op = "restore"
      <4>1. c.staging.files # None
        BY <3>2, NoneIsNothing DEF Contents
      <4> QED  BY <3>2, <3>3, <3>4, <4>1 DEF Ready, Busy
    <3>7. \A f \in File : c.staging.files[f] = dir[c.src].files[f]
      BY <3>4, <3>6 DEF Faithful, Ready
    <3>8. c.staging.files = dir[c.src].files
      BY <3>2, <3>5, <3>7 DEF Contents, Files
    <3> QED  BY <3>3, <3>4, <3>5, <3>6, <3>8 DEF FromBackup
  <2> QED  BY <2>2, <2>3, <2>4, <2>5 DEF Next
<1>2. BackupInv /\ [Next]_vars => BackupInv'
  BY BackupInvNext
<1>3. Spec => [][Whole]_vars
  BY <1>1, <1>2, BackupInvInit, PTL DEF Spec
<1> QED  BY <1>3 DEF RestoredWhole

=============================================================================
