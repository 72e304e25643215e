----------------------- MODULE DesktopIdentityProofs -----------------------
(***************************************************************************)
(* Proofs about DesktopIdentity: types, the one declaration of a feed, the *)
(* finality of revocations, and the keeping of an established root key and *)
(* of established device keys.                                             *)
(***************************************************************************)
EXTENDS DesktopIdentity, TLAPS

----------------------------------------------------------------------------
(***************************************************************************)
(* Types.  What a call has at hand depends on how far it is: from the read *)
(* on it holds an identity, and activation and revocation hold a key.      *)
(***************************************************************************)

Shaped(c) ==
    /\ c.step # "read" => c.stored \in StoredIdentity
    /\ c.step \in {"find", "announce"} => c.op = "setup"
    /\ c.step = "statuses" => c.op = "revoke"
    /\ c.step = "sign" => c.op = "genesis"
    /\ c.step = "append" => c.op # "genesis"
    /\ c.op = "revoke" => c.key \in DeviceKey
    /\ c.op = "activate" /\ c.step # "read" => c.key \in DeviceKey

TypeInv == TypeOK /\ \A c \in calls : Shaped(c)

\* A generated key is one of its kind that no call has generated before.
LEMMA GeneratedNew == \A keys : Generated(keys) \subseteq keys \ used
BY DEF Generated

\* Moving on changes the step, the identity and the key of a call and nothing else.
LEMMA GoToMoves ==
    ASSUME NEW c \in calls, calls \subseteq Call, NEW s \in Step,
           NEW i \in StoredIdentity, NEW k \in DeviceKey \cup {NoKey},
           GoTo(c, s, i, k)
    PROVE  \E d \in Call :
             /\ calls' = (calls \ {c}) \cup {d}
             /\ d.step = s /\ d.stored = i /\ d.key = k
             /\ d.lane = c.lane /\ d.op = c.op /\ d.community = c.community
             /\ inProgress' = inProgress
<1> DEFINE d == [c EXCEPT !.step = s, !.stored = i, !.key = k]
<1>1. c \in Call
  OBVIOUS
<1>3. d \in Call
  BY <1>1 DEF Call
<1>4. /\ d.step = s /\ d.stored = i /\ d.key = k
      /\ d.lane = c.lane /\ d.op = c.op /\ d.community = c.community
  BY <1>1 DEF Call
<1>5. calls' = (calls \ {c}) \cup {d} /\ inProgress' = inProgress
  BY DEF GoTo
<1> QED
  BY <1>3, <1>4, <1>5

\* A call that moves on to a well-shaped one keeps all calls well typed and well shaped.
LEMMA MoveTyped ==
    ASSUME TypeInv, NEW c \in calls, NEW d \in Call, Shaped(d),
           calls' = (calls \ {c}) \cup {d}, inProgress' = inProgress
    PROVE  /\ calls' \subseteq Call
           /\ \A e \in calls' : Shaped(e)
           /\ inProgress' \subseteq Shared
BY DEF TypeInv, TypeOK, Shaped

LEMMA EndTyped ==
    ASSUME TypeInv, NEW c \in calls, End(c)
    PROVE  /\ calls' \subseteq Call
           /\ \A e \in calls' : Shaped(e)
           /\ inProgress' \subseteq Shared
BY DEF TypeInv, TypeOK, Shaped, End

\* The identities an operation writes.
LEMMA DevicesTyped ==
    ASSUME NEW i \in StoredIdentity, NEW k \in DeviceKey
    PROVE  /\ WithDevice(i, k) \in StoredIdentity /\ WithDevice(i, k).root = i.root
           /\ WithoutDevice(i, k) \in StoredIdentity /\ WithoutDevice(i, k).root = i.root
<1>1. WithDevice(i, k) = [root |-> i.root, devices |-> i.devices \cup {k}]
  BY DEF WithDevice, StoredIdentity
<1>2. WithoutDevice(i, k) = [root |-> i.root, devices |-> i.devices \ {k}]
  BY DEF WithoutDevice, StoredIdentity
<1> QED
  BY <1>1, <1>2 DEF StoredIdentity

\* What a call that moves on looks like, for each step of the code.  Every other step of
\* a call ends it.
Moves(c) ==
    \E d \in Call :
        /\ calls' = (calls \ {c}) \cup {d} /\ inProgress' = inProgress
        /\ d.lane = c.lane /\ d.op = c.op /\ d.community = c.community
        /\ Shaped(d) /\ d.step # "read"
        /\ c.step # "read" => d.stored.root = c.stored.root
        /\ c.step # "read" => d.key = c.key

LEMMA StepMovesOrEnds ==
    ASSUME TypeInv, NEW c \in calls, StepOf(c)
    PROVE  Moves(c) \/ End(c)
<1> USE DEF Step
<1>1. c \in Call /\ Shaped(c) /\ calls \subseteq Call
  BY DEF TypeInv, TypeOK
<1>2. /\ c.op \in Operation /\ c.key \in DeviceKey \cup {NoKey} /\ c.step \in Step
      /\ c.op \in {"setup", "activate", "genesis", "revoke"}
  BY <1>1, IdentityConstants DEF Call, Shared
<1>3. ASSUME NEW s \in Step, NEW i \in StoredIdentity, NEW k \in DeviceKey \cup {NoKey},
             GoTo(c, s, i, k), s # "read",
             s \in {"find", "announce"} => c.op = "setup",
             s = "statuses" => c.op = "revoke",
             s = "sign" => c.op = "genesis",
             s = "append" => c.op # "genesis",
             c.op \in {"revoke", "activate"} => k \in DeviceKey,
             c.step # "read" => i.root = c.stored.root,
             c.step # "read" => k = c.key
      PROVE  Moves(c)
  <2>1. PICK d \in Call :
             /\ calls' = (calls \ {c}) \cup {d}
             /\ d.step = s /\ d.stored = i /\ d.key = k
             /\ d.lane = c.lane /\ d.op = c.op /\ d.community = c.community
             /\ inProgress' = inProgress
    BY <1>1, <1>3, GoToMoves
  <2>2. Shaped(d)
    BY <1>3, <2>1 DEF Shaped
  <2> QED
    BY <1>3, <2>1, <2>2 DEF Moves
<1>4. CASE CreateStoredIdentity(c)
  <2>1. PICK r \in Root : GoTo(c, "truncate", [root |-> r, devices |-> {}], NoKey)
    BY <1>4, GeneratedNew DEF CreateStoredIdentity
  <2>2. [root |-> r, devices |-> {}] \in StoredIdentity
    BY DEF StoredIdentity
  <2>3. c.op \in {"setup", "genesis"} /\ c.step = "read"
    BY <1>4 DEF CreateStoredIdentity
  <2> QED
    BY <1>3, <2>1, <2>2, <2>3
<1>5. CASE ReadIdentity(c)
  <2>1. c.step = "read" /\ file \in StoredIdentity
    BY <1>5 DEF ReadIdentity
  <2>2. CASE c.op = "setup"
    BY <1>3, <1>5, <2>1, <2>2 DEF ReadIdentity
  <2>3. CASE c.op = "genesis"
    BY <1>3, <1>5, <2>1, <2>3 DEF ReadIdentity
  <2>4. CASE c.op = "revoke"
    BY <1>1, <1>3, <1>5, <2>1, <2>4 DEF ReadIdentity, Shaped
  <2>5. CASE c.op = "activate"
    <3>1. PICK k \in DeviceKey \ used : GoTo(c, "truncate", WithDevice(file, k), k)
      BY <1>5, <2>5, GeneratedNew DEF ReadIdentity
    <3>2. WithDevice(file, k) \in StoredIdentity
      BY <2>1, DevicesTyped
    <3> QED
      BY <1>3, <2>1, <2>5, <3>1, <3>2
  <2> QED
    BY <1>2, <2>2, <2>3, <2>4, <2>5
<1>6. CASE RefuseIdentity(c)
  BY <1>6 DEF RefuseIdentity
<1>7. CASE Truncate(c)
  <2>1. c.step = "truncate" /\ GoTo(c, "write", c.stored, c.key)
    BY <1>7 DEF Truncate
  <2> QED
    BY <1>1, <1>2, <1>3, <2>1 DEF Shaped
<1>8. CASE Write(c)
  <2>1. c.step = "write" /\ c.stored \in StoredIdentity
    BY <1>1, <1>8 DEF Write, Shaped
  <2>2. CASE c.op = "setup"
    BY <1>2, <1>3, <1>8, <2>1, <2>2 DEF Write
  <2>3. CASE c.op = "genesis"
    BY <1>2, <1>3, <1>8, <2>1, <2>3 DEF Write
  <2>4. CASE c.op = "activate"
    BY <1>1, <1>2, <1>3, <1>8, <2>1, <2>4 DEF Write, Shaped
  <2>5. CASE c.op = "revoke"
    BY <1>8, <2>5 DEF Write
  <2> QED
    BY <1>2, <2>2, <2>3, <2>4, <2>5
<1>9. CASE FindDeclaration(c)
  <2>1. c.step = "find" /\ c.stored \in StoredIdentity /\ c.op = "setup"
    BY <1>1, <1>9 DEF FindDeclaration, Shaped
  <2>2. \/ GoTo(c, "append", c.stored, c.key)
        \/ GoTo(c, "announce", c.stored, c.key)
    BY <1>9 DEF FindDeclaration
  <2> QED
    BY <1>2, <1>3, <2>1, <2>2
<1>10. CASE ReadStatuses(c)
  <2>1. c.step = "statuses" /\ c.stored \in StoredIdentity /\ c.op = "revoke" /\ c.key \in DeviceKey
    BY <1>1, <1>10 DEF ReadStatuses, Shaped
  <2>2. \/ GoTo(c, "append", WithoutDevice(c.stored, c.key), c.key)
        \/ End(c)
    BY <1>10 DEF ReadStatuses
  <2>3. /\ WithoutDevice(c.stored, c.key) \in StoredIdentity
        /\ WithoutDevice(c.stored, c.key).root = c.stored.root
    BY <2>1, DevicesTyped
  <2> QED
    BY <1>2, <1>3, <2>1, <2>2, <2>3
<1>11. CASE AppendStatement(c)
  <2>1. c.step = "append" /\ c.stored \in StoredIdentity /\ c.op # "genesis"
    BY <1>1, <1>11 DEF AppendStatement, Shaped
  <2>2. CASE c.op = "setup"
    BY <1>2, <1>3, <1>11, <2>1, <2>2 DEF AppendStatement
  <2>3. CASE c.op = "activate"
    BY <1>11, <2>3 DEF AppendStatement
  <2>4. CASE c.op = "revoke"
    BY <1>1, <1>2, <1>3, <1>11, <2>1, <2>4 DEF AppendStatement, Shaped
  <2> QED
    BY <1>2, <2>1, <2>2, <2>3, <2>4
<1>12. CASE Announce(c) \/ SignGenesis(c) \/ Fail(c)
  BY <1>12 DEF Announce, SignGenesis, Fail
<1> QED
  BY <1>4, <1>5, <1>6, <1>7, <1>8, <1>9, <1>10, <1>11, <1>12 DEF StepOf

\* The statement an append adds, and to what.
Appends(c, s) ==
    /\ log' = Append(log, s)
    /\ s.kind = StatementKind(c.op) /\ s.community = c.community
    /\ s.root = c.stored.root /\ s.key = c.key /\ NextTime(s.at)

LEMMA AppendAdds ==
    ASSUME TypeInv, NEW c \in calls, AppendStatement(c)
    PROVE  \E s \in Statement : Appends(c, s) /\ Statements' = Statements \cup {s}
<1>1. /\ c \in Call /\ Shaped(c) /\ log \in Seq(Statement) /\ c.step = "append"
      /\ c.stored \in StoredIdentity
  BY DEF TypeInv, TypeOK, AppendStatement, Shaped
<1>2. PICK t \in 1 .. MaxTime :
         /\ NextTime(t)
         /\ log' = Append(log, [kind |-> StatementKind(c.op), community |-> c.community,
                                root |-> c.stored.root, key |-> c.key, at |-> t])
  BY DEF AppendStatement
<1> DEFINE s == [kind |-> StatementKind(c.op), community |-> c.community,
                 root |-> c.stored.root, key |-> c.key, at |-> t]
<1>3. StatementKind(c.op) \in {"declare", "activate", "revoke"}
  <2>1. c.op \in {"setup", "activate", "revoke"}
    BY <1>1, IdentityConstants DEF Call, Shaped, Shared
  <2> QED
    BY <2>1 DEF StatementKind
<1>4. s \in Statement
  BY <1>1, <1>2, <1>3 DEF Statement, Call, StoredIdentity
<1>5. Appends(c, s)
  BY <1>2 DEF Appends
<1> HIDE DEF s
<1>6. DOMAIN log' = DOMAIN log \cup {Len(log) + 1}
  BY <1>1, <1>4, <1>5 DEF Appends
<1>7. /\ \A i \in DOMAIN log : log'[i] = log[i]
      /\ log'[Len(log) + 1] = s
  BY <1>1, <1>4, <1>5 DEF Appends
<1>8. Statements' = Statements \cup {s}
  BY <1>6, <1>7 DEF Statements
<1> QED
  BY <1>4, <1>5, <1>8

\* Only an append changes the feed, and the feed decides what its statements are.
LEMMA LogChanges ==
    ASSUME NEW c \in calls, StepOf(c), ~AppendStatement(c)
    PROVE  log' = log
BY DEF StepOf, CreateStoredIdentity, ReadIdentity, RefuseIdentity, Truncate, Write,
       FindDeclaration, ReadStatuses, Announce, SignGenesis, Fail

\* Every step keeps types and shapes.
LEMMA TypeStep ==
    TypeInv /\ [Next]_vars => TypeInv'
<1> SUFFICES ASSUME TypeInv, [Next]_vars
             PROVE  TypeInv'
  OBVIOUS
<1>1. ASSUME NEW l \in Lane, NEW op \in Operation, NEW k \in DeviceKey \cup {NoKey},
             NEW x \in Community, Begin(l, op, k, x)
      PROVE  TypeInv'
  <2> DEFINE d == [lane |-> l, op |-> op, step |-> "read", community |-> x,
                   stored |-> NoFile, key |-> k]
  <2>1. d \in Call
    BY DEF TypeInv, TypeOK, Call, Step
  <2>2. Shaped(d)
    BY <1>1 DEF Shaped, Begin
  <2>3. calls' = calls \cup {d} /\ inProgress' \subseteq Shared
    BY <1>1 DEF Begin, TypeInv, TypeOK
  <2> HIDE DEF d
  <2>4. calls' \subseteq Call /\ \A e \in calls' : Shaped(e)
    BY <2>1, <2>2, <2>3 DEF TypeInv, TypeOK, Shaped
  <2> QED
    BY <1>1, <2>3, <2>4 DEF Begin, TypeInv, TypeOK
<1>2. ASSUME NEW c \in calls, StepOf(c)
      PROVE  TypeInv'
  <2>1. c \in Call /\ Shaped(c)
    BY DEF TypeInv, TypeOK
  <2>2. /\ calls' \subseteq Call
        /\ \A e \in calls' : Shaped(e)
        /\ inProgress' \subseteq Shared
    <3>1. CASE Moves(c)
      BY <3>1, MoveTyped DEF Moves
    <3>2. CASE End(c)
      BY <3>2, EndTyped
    <3> QED
      BY <1>2, <3>1, <3>2, StepMovesOrEnds
  <2>3. log' \in Seq(Statement)
    <3>1. CASE AppendStatement(c)
      BY <3>1, AppendAdds DEF Appends, TypeInv, TypeOK
    <3>2. CASE ~AppendStatement(c)
      BY <1>2, <3>2, LogChanges DEF TypeInv, TypeOK
    <3> QED
      BY <3>1, <3>2
  <2>4. file' \in StoredIdentity \cup {NoFile, Torn}
    <3>1. CASE Write(c)
      BY <2>1, <3>1 DEF Write, Shaped, Overwritten
    <3>2. CASE ~Write(c)
      BY <1>2, <3>2 DEF TypeInv, TypeOK, StepOf, CreateStoredIdentity, ReadIdentity,
         RefuseIdentity, Truncate, FindDeclaration, ReadStatuses, AppendStatement, Announce,
         SignGenesis, Fail
    <3> QED
      BY <3>1, <3>2
  <2>5. used' \subseteq Root \cup DeviceKey
    <3>1. CASE CreateStoredIdentity(c)
      BY <3>1, GeneratedNew DEF CreateStoredIdentity, TypeInv, TypeOK
    <3>2. CASE ReadIdentity(c)
      <4>1. c.op \in {"setup", "genesis", "revoke", "activate"}
        BY <2>1, IdentityConstants DEF Call, Shared
      <4>2. CASE c.op = "activate"
        <5>1. PICK k \in DeviceKey : used' = used \cup {k}
          BY <3>2, <4>2, GeneratedNew DEF ReadIdentity
        <5> QED
          BY <5>1 DEF TypeInv, TypeOK
      <4>3. CASE c.op # "activate"
        BY <3>2, <4>1, <4>3 DEF ReadIdentity, TypeInv, TypeOK
      <4> QED
        BY <4>2, <4>3
    <3>3. CASE ~CreateStoredIdentity(c) /\ ~ReadIdentity(c)
      BY <1>2, <3>3 DEF TypeInv, TypeOK, StepOf, RefuseIdentity, Truncate, Write,
         FindDeclaration, ReadStatuses, AppendStatement, Announce, SignGenesis, Fail
    <3> QED
      BY <3>1, <3>2, <3>3
  <2>6. genesis' \subseteq Root
    <3>1. CASE SignGenesis(c)
      BY <2>1, <3>1 DEF SignGenesis, Shaped, StoredIdentity, TypeInv, TypeOK
    <3>2. CASE ~SignGenesis(c)
      BY <1>2, <3>2 DEF TypeInv, TypeOK, StepOf, CreateStoredIdentity, ReadIdentity,
         RefuseIdentity, Truncate, Write, FindDeclaration, ReadStatuses, AppendStatement,
         Announce, Fail
    <3> QED
      BY <3>1, <3>2
  <2>7. announced' \subseteq Community \X Root
    <3>1. CASE Announce(c)
      <4>1. \A d \in Declarations(c.community) : d \in Statement
        BY DEF Declarations, Statements, TypeInv, TypeOK
      <4>2. c.community \in Community /\ \A d \in Declarations(c.community) : d.root \in Root
        BY <2>1, <4>1 DEF Call, Statement
      <4> QED
        BY <3>1, <4>2 DEF Announce, TypeInv, TypeOK
    <3>2. CASE ~Announce(c)
      BY <1>2, <3>2 DEF TypeInv, TypeOK, StepOf, CreateStoredIdentity, ReadIdentity,
         RefuseIdentity, Truncate, Write, FindDeclaration, ReadStatuses, AppendStatement,
         SignGenesis, Fail
    <3> QED
      BY <3>1, <3>2
  <2> QED
    BY <2>2, <2>3, <2>4, <2>5, <2>6, <2>7 DEF TypeInv, TypeOK
<1>3. CASE Restart
  BY <1>3 DEF Restart, TypeInv, TypeOK, Shaped
<1>4. CASE UNCHANGED vars
  BY <1>4 DEF vars, TypeInv, TypeOK, Shaped
<1> QED
  BY <1>1, <1>2, <1>3, <1>4 DEF Next

\* Every state of the desktop has the declared types and every call the shape of its step.
LEMMA TypeInvariant == Spec => []TypeInv
<1>1. Init => TypeInv
  BY DEF Init, TypeInv, TypeOK
<1> QED
  BY <1>1, TypeStep, PTL DEF Spec

\* The identity file, the feed and the calls keep their types through failures, overlapping
\* writes and restarts (member-identity.ts, the identity operations).
THEOREM IdentityTypeCorrect == Spec => []TypeOK
<1>1. TypeInv => TypeOK
  BY DEF TypeInv
<1> QED
  BY <1>1, TypeInvariant, PTL

----------------------------------------------------------------------------
(***************************************************************************)
(* One declaration.  Setup is shared, so the call that found no            *)
(* declaration is the only one that could have appended one since.         *)
(***************************************************************************)

SharedHeld ==
    /\ \A c, d \in calls : c.op \in Shared /\ c.op = d.op => c = d
    /\ \A c \in calls : c.op \in Shared => c.op \in inProgress

NotYetDeclared ==
    \A c \in calls : c.op = "setup" /\ c.step = "append" => Declarations(c.community) = {}

DeclareInv == SharedHeld /\ NotYetDeclared /\ DeclaredOnce

\* Sharing survives every step: a shared operation starts when none is in progress, and
\* gives up its place when it ends.
LEMMA SharedStep ==
    TypeInv /\ SharedHeld /\ [Next]_vars => SharedHeld'
<1> SUFFICES ASSUME TypeInv, SharedHeld, [Next]_vars
             PROVE  SharedHeld'
  OBVIOUS
<1>1. ASSUME NEW l \in Lane, NEW op \in Operation, NEW k \in DeviceKey \cup {NoKey},
             NEW x \in Community, Begin(l, op, k, x)
      PROVE  SharedHeld'
  <2> DEFINE d == [lane |-> l, op |-> op, step |-> "read", community |-> x,
                   stored |-> NoFile, key |-> k]
  <2>1. /\ calls' = calls \cup {d} /\ d.op = op
        /\ inProgress' = inProgress \cup ({op} \cap Shared)
        /\ op \in Shared => op \notin inProgress
    BY <1>1 DEF Begin, MayBegin
  <2> HIDE DEF d
  <2> QED
    BY <2>1 DEF SharedHeld
<1>2. ASSUME NEW c \in calls, StepOf(c)
      PROVE  SharedHeld'
  <2>1. CASE Moves(c)
    <3>1. PICK d \in Call : /\ calls' = (calls \ {c}) \cup {d} /\ inProgress' = inProgress
                            /\ d.op = c.op
      BY <2>1 DEF Moves
    <3> QED
      BY <3>1 DEF SharedHeld
  <2>2. CASE End(c)
    BY <2>2 DEF End, SharedHeld
  <2> QED
    BY <1>2, <2>1, <2>2, StepMovesOrEnds
<1>3. CASE Restart \/ UNCHANGED vars
  BY <1>3 DEF Restart, vars, SharedHeld
<1> QED
  BY <1>1, <1>2, <1>3 DEF Next

LEMMA DeclareStep ==
    TypeInv /\ DeclareInv /\ [Next]_vars => DeclareInv'
<1> SUFFICES ASSUME TypeInv, DeclareInv, [Next]_vars
             PROVE  DeclareInv'
  OBVIOUS
<1>1. SharedHeld'
  BY SharedStep DEF DeclareInv
<1>2. ASSUME NEW l \in Lane, NEW op \in Operation, NEW k \in DeviceKey \cup {NoKey},
             NEW x \in Community, Begin(l, op, k, x)
      PROVE  NotYetDeclared' /\ DeclaredOnce'
  <2> DEFINE d == [lane |-> l, op |-> op, step |-> "read", community |-> x,
                   stored |-> NoFile, key |-> k]
  <2>1. calls' = calls \cup {d} /\ d.step = "read" /\ log' = log
    BY <1>2 DEF Begin
  <2> HIDE DEF d
  <2> QED
    BY <2>1 DEF DeclareInv, NotYetDeclared, DeclaredOnce, Declarations, Statements
<1>3. ASSUME NEW c \in calls, StepOf(c), ~AppendStatement(c)
      PROVE  NotYetDeclared' /\ DeclaredOnce'
  <2>1. log' = log
    BY <1>3, LogChanges
  <2>2. DeclaredOnce' /\ \A x : Declarations(x)' = Declarations(x)
    BY <2>1 DEF DeclareInv, DeclaredOnce, Declarations, Statements
  <2>3. CASE End(c)
    BY <2>2, <2>3 DEF End, DeclareInv, NotYetDeclared
  <2>4. CASE Moves(c)
    <3>1. PICK d \in Call : /\ calls' = (calls \ {c}) \cup {d}
                            /\ d.op = c.op /\ d.community = c.community
      BY <2>4 DEF Moves
    <3>2. CASE FindDeclaration(c)
      <4>1. \/ Declarations(c.community) = {}
            \/ /\ calls' = (calls \ {c}) \cup {[c EXCEPT !.step = "announce",
                                                   !.stored = c.stored, !.key = c.key]}
               /\ c \in Call
        BY <3>2 DEF FindDeclaration, GoTo, TypeInv, TypeOK
      <4>2. CASE Declarations(c.community) = {}
        BY <2>2, <3>1, <4>2 DEF DeclareInv, NotYetDeclared
      <4>3. CASE /\ calls' = (calls \ {c}) \cup {[c EXCEPT !.step = "announce",
                                                   !.stored = c.stored, !.key = c.key]}
                 /\ c \in Call
        <5>1. [c EXCEPT !.step = "announce", !.stored = c.stored, !.key = c.key].step = "announce"
          BY <4>3 DEF Call
        <5> QED
          BY <2>2, <4>3, <5>1 DEF DeclareInv, NotYetDeclared
      <4> QED
        BY <4>1, <4>2, <4>3
    <3>3. CASE ~FindDeclaration(c)
      <4>1. ASSUME c.op = "setup"
            PROVE  \A e \in calls' : e \notin calls => e.step # "append"
        <5>1. c \in Call
          BY DEF TypeInv, TypeOK
        <5>2. ASSUME NEW s, NEW i, NEW k, GoTo(c, s, i, k), s # "append"
              PROVE  \A e \in calls' : e \notin calls => e.step # "append"
          BY <5>1, <5>2 DEF GoTo, Call
        <5>3. CASE CreateStoredIdentity(c)
          BY <5>2, <5>3 DEF CreateStoredIdentity
        <5>4. CASE ReadIdentity(c)
          BY <4>1, <5>2, <5>4 DEF ReadIdentity
        <5>5. CASE Truncate(c)
          BY <5>2, <5>5 DEF Truncate
        <5>6. CASE Write(c)
          BY <4>1, <5>2, <5>6 DEF Write
        <5>7. CASE ReadStatuses(c)
          BY <4>1, <5>7 DEF ReadStatuses, TypeInv, Shaped
        <5>8. CASE RefuseIdentity(c) \/ Announce(c) \/ SignGenesis(c) \/ Fail(c)
          BY <5>8 DEF RefuseIdentity, Announce, SignGenesis, Fail, End
        <5> QED
          BY <1>3, <3>3, <5>3, <5>4, <5>5, <5>6, <5>7, <5>8 DEF StepOf
      <4> QED
        BY <2>2, <3>1, <4>1 DEF DeclareInv, NotYetDeclared
    <3> QED
      BY <3>2, <3>3
  <2> QED
    BY <1>3, <2>2, <2>3, <2>4, StepMovesOrEnds
<1>4. ASSUME NEW c \in calls, AppendStatement(c)
      PROVE  NotYetDeclared' /\ DeclaredOnce'
  <2>1. PICK s \in Statement : Appends(c, s) /\ Statements' = Statements \cup {s}
    BY <1>4, AppendAdds
  <2>2. c.op \in {"setup", "activate", "revoke"} /\ c.step = "append"
    BY <1>4, IdentityConstants DEF AppendStatement, TypeInv, TypeOK, Call, Shaped, Shared
  <2>3. s.kind = "declare" => c.op = "setup"
    BY <2>1, <2>2 DEF Appends, StatementKind
  <2>4. \A e \in calls' : e.step = "append" => e \in calls /\ e # c
    <3>1. c \in Call
      BY DEF TypeInv, TypeOK
    <3>2. ASSUME NEW t, NEW i, NEW k, GoTo(c, t, i, k), t # "append"
          PROVE  \A e \in calls' : e.step = "append" => e \in calls /\ e # c
      BY <2>2, <3>1, <3>2 DEF GoTo, Call
    <3>3. CASE c.op = "setup"
      BY <1>4, <3>2, <3>3 DEF AppendStatement
    <3>4. CASE c.op = "activate"
      BY <1>4, <3>4 DEF AppendStatement, End
    <3>5. CASE c.op = "revoke"
      BY <1>4, <3>2, <3>5 DEF AppendStatement
    <3> QED
      BY <2>2, <3>3, <3>4, <3>5
  <2>5. NotYetDeclared'
    <3> SUFFICES ASSUME NEW e \in calls', e.op = "setup", e.step = "append"
                 PROVE  Declarations(e.community)' = {}
      BY DEF NotYetDeclared
    <3>1. e \in calls /\ e # c
      BY <2>4
    <3>2. c.op # "setup"
      BY <3>1 DEF DeclareInv, SharedHeld, Shared
    <3> QED
      BY <2>1, <2>3, <3>1, <3>2 DEF Declarations, DeclareInv, NotYetDeclared
  <2>6. DeclaredOnce'
    <3>1. /\ log \in Seq(Statement) /\ log' = Append(log, s)
          /\ s.community = c.community
      BY <2>1 DEF TypeInv, TypeOK, Appends
    <3>2. /\ DOMAIN log' = DOMAIN log \cup {Len(log) + 1}
          /\ \A i \in DOMAIN log : log'[i] = log[i]
          /\ log'[Len(log) + 1] = s
      BY <3>1
    <3>3. s.kind = "declare" =>
            \A i \in DOMAIN log : ~(log[i].kind = "declare" /\ log[i].community = s.community)
      BY <2>2, <2>3, <3>1 DEF DeclareInv, NotYetDeclared, Declarations, Statements
    <3> QED
      BY <3>2, <3>3 DEF DeclareInv, DeclaredOnce
  <2> QED
    BY <2>5, <2>6
<1>5. CASE Restart \/ UNCHANGED vars
  <2>1. log' = log /\ calls' \subseteq calls
    BY <1>5 DEF Restart, vars
  <2>2. NotYetDeclared' /\ DeclaredOnce'
    BY <2>1 DEF DeclareInv, NotYetDeclared, DeclaredOnce, Declarations, Statements
  <2> QED
    BY <1>1, <2>2 DEF DeclareInv
<1> QED
  BY <1>1, <1>2, <1>3, <1>4, <1>5 DEF Next, DeclareInv

LEMMA DeclareInvariant == Spec => []DeclareInv
<1>1. Init => DeclareInv
  BY DEF Init, DeclareInv, SharedHeld, NotYetDeclared, DeclaredOnce
<1> QED
  BY <1>1, DeclareStep, TypeInvariant, PTL DEF Spec

\* A feed is declared at most once in a community, however many setups, communities,
\* failures and restarts there are (member-identity.ts, createAndAnnounceOnce).
THEOREM FeedDeclaredOnce == Spec => []DeclaredOnce
<1>1. DeclareInv => DeclaredOnce
  BY DEF DeclareInv
<1> QED
  BY <1>1, DeclareInvariant, PTL

----------------------------------------------------------------------------
(***************************************************************************)
(* Final revocations.  A key is generated once and activated by the call   *)
(* that generated it, and it is revoked only after the feed shows it: in   *)
(* the order of the feed every activation comes first.  Only its time can  *)
(* put a revocation in front.                                              *)
(***************************************************************************)

OfKey(k) == {s \in Statements : s.kind \in {"activate", "revoke"} /\ s.key = k}

KeysTracked ==
    /\ \A k : OfKey(k) # {} => k \in used \cap DeviceKey
    /\ \A c \in calls : c.op = "activate" /\ c.step # "read" => c.key \in used /\ OfKey(c.key) = {}
    /\ \A c \in calls : c.op = "revoke" /\ c.step = "append" => OfKey(c.key) # {}

ActivatedFirst ==
    \A i, j \in DOMAIN log :
        log[i].kind = "revoke" /\ log[j].kind = "activate" /\ log[i].key = log[j].key => j < i

TimesDiffer == \A i, j \in DOMAIN log : log[i].at = log[j].at => i = j

RevokeInv == KeysTracked /\ ActivatedFirst /\ TimesDiffer

\* Whatever step leaves the feed alone, keys stay tracked if a call that activates a
\* newly generated key, or revokes an active one, is tracked itself.
LEMMA TrackedUnlessAppended ==
    ASSUME KeysTracked, log' = log, used \subseteq used',
           \A e \in calls' : e \in calls \/
               /\ e.op = "activate" /\ e.step # "read" => e.key \in used' /\ OfKey(e.key) = {}
               /\ e.op = "revoke" /\ e.step = "append" => OfKey(e.key) # {}
    PROVE  KeysTracked'
<1>1. \A k : OfKey(k)' = OfKey(k)
  BY DEF OfKey, Statements
<1> QED
  BY <1>1 DEF KeysTracked

LEMMA RevokeStep ==
    TypeInv /\ SharedHeld /\ RevokeInv /\ [Next]_vars => RevokeInv'
<1> SUFFICES ASSUME TypeInv, SharedHeld, RevokeInv, [Next]_vars
             PROVE  RevokeInv'
  OBVIOUS
<1> USE DEF RevokeInv
<1>1. ASSUME log' = log
      PROVE  ActivatedFirst' /\ TimesDiffer'
  BY <1>1 DEF ActivatedFirst, TimesDiffer
<1>2. ASSUME NEW l \in Lane, NEW op \in Operation, NEW k \in DeviceKey \cup {NoKey},
             NEW x \in Community, Begin(l, op, k, x)
      PROVE  RevokeInv'
  <2> DEFINE d == [lane |-> l, op |-> op, step |-> "read", community |-> x,
                   stored |-> NoFile, key |-> k]
  <2>1. calls' = calls \cup {d} /\ d.step = "read" /\ log' = log /\ used' = used
    BY <1>2 DEF Begin
  <2> HIDE DEF d
  <2>2. KeysTracked'
    BY <2>1, TrackedUnlessAppended
  <2> QED
    BY <1>1, <2>1, <2>2
<1>3. ASSUME NEW c \in calls, StepOf(c), ~AppendStatement(c)
      PROVE  RevokeInv'
  <2>1. log' = log
    BY <1>3, LogChanges
  <2>2. c \in Call /\ Shaped(c)
    BY DEF TypeInv, TypeOK
  <2>3. c.op \in {"setup", "genesis", "revoke", "activate"}
    BY <2>2, IdentityConstants DEF Call, Shared
  <2>4. KeysTracked'
    <3>1. CASE ReadIdentity(c) /\ c.op = "activate"
      <4>1. PICK k \in DeviceKey \ used :
               /\ used' = used \cup {k}
               /\ GoTo(c, "truncate", WithDevice(file, k), k)
        BY <3>1, GeneratedNew DEF ReadIdentity
      <4>2. OfKey(k) = {}
        BY DEF KeysTracked
      <4>3. \A e \in calls' : e \in calls \/ (e.key = k /\ e.op = "activate")
        BY <2>2, <3>1, <4>1 DEF GoTo, Call
      <4> QED
        BY <2>1, <4>1, <4>2, <4>3, TrackedUnlessAppended
    <3>2. CASE ReadStatuses(c)
      <4>1. c.op = "revoke" /\ used' = used
        BY <2>2, <3>2 DEF ReadStatuses, Shaped
      <4>2. CASE KeyActive(c.community, c.stored.root, c.key)
        <5>1. OfKey(c.key) # {}
          BY <4>2 DEF KeyActive, Lifecycle, OfKey
        <5>2. \A e \in calls' : e \in calls \/ (e.key = c.key /\ e.op = "revoke")
          <6>1. GoTo(c, "append", WithoutDevice(c.stored, c.key), c.key)
            BY <3>2, <4>2 DEF ReadStatuses
          <6> QED
            BY <2>2, <4>1, <6>1 DEF GoTo, Call
        <5> QED
          BY <2>1, <4>1, <5>1, <5>2, TrackedUnlessAppended
      <4>3. CASE ~KeyActive(c.community, c.stored.root, c.key)
        <5>1. calls' \subseteq calls
          BY <3>2, <4>3 DEF ReadStatuses, End
        <5> QED
          BY <2>1, <4>1, <5>1, TrackedUnlessAppended
      <4> QED
        BY <4>2, <4>3
    <3>3. CASE ~ReadStatuses(c) /\ ~(ReadIdentity(c) /\ c.op = "activate")
      <4>1. used \subseteq used'
        BY <1>3, <2>3, <3>3 DEF StepOf, CreateStoredIdentity, ReadIdentity, RefuseIdentity,
           Truncate, Write, FindDeclaration, AppendStatement, Announce, SignGenesis, Fail
      <4>2. CASE End(c)
        BY <2>1, <4>1, <4>2, TrackedUnlessAppended DEF End
      <4>3. CASE Moves(c)
        <5>1. PICK d \in Call : /\ calls' = (calls \ {c}) \cup {d}
                                /\ d.op = c.op
                                /\ c.step # "read" => d.key = c.key
          BY <4>3 DEF Moves
        <5>2. CASE c.op \in {"setup", "genesis"}
          BY <2>1, <4>1, <5>1, <5>2, TrackedUnlessAppended
        <5>3. CASE c.op = "activate"
          <6>1. c.step # "read" \/ calls' \subseteq calls
            BY <1>3, <3>3, <5>3 DEF StepOf, CreateStoredIdentity, RefuseIdentity, Truncate,
               Write, FindDeclaration, AppendStatement, Announce, SignGenesis, Fail, End
          <6>2. c.step # "read" => c.key \in used' /\ OfKey(c.key) = {}
            BY <4>1, <5>3 DEF KeysTracked
          <6> QED
            BY <2>1, <4>1, <5>1, <5>3, <6>1, <6>2, TrackedUnlessAppended
        <5>4. CASE c.op = "revoke"
          <6>1. \A e \in calls' : e \in calls \/ e.step # "append"
            <7>1. ASSUME NEW s, NEW i, NEW k, GoTo(c, s, i, k), s # "append"
                  PROVE  \A e \in calls' : e \in calls \/ e.step # "append"
              BY <2>2, <7>1 DEF GoTo, Call
            <7>2. CASE CreateStoredIdentity(c) \/ FindDeclaration(c)
              BY <2>2, <5>4, <7>2 DEF CreateStoredIdentity, FindDeclaration, Shaped
            <7>3. CASE ReadIdentity(c)
              BY <5>4, <7>1, <7>3 DEF ReadIdentity
            <7>4. CASE Truncate(c)
              BY <7>1, <7>4 DEF Truncate
            <7>5. CASE Write(c)
              BY <5>4, <7>5 DEF Write, End
            <7>6. CASE RefuseIdentity(c) \/ Announce(c) \/ SignGenesis(c) \/ Fail(c)
              BY <7>6 DEF RefuseIdentity, Announce, SignGenesis, Fail, End
            <7> QED
              BY <1>3, <3>3, <7>2, <7>3, <7>4, <7>5, <7>6 DEF StepOf
          <6>2. \A e \in calls' : e \in calls \/ e.op = "revoke"
            BY <5>1, <5>4
          <6> QED
            BY <2>1, <4>1, <6>1, <6>2, TrackedUnlessAppended
        <5> QED
          BY <2>3, <5>2, <5>3, <5>4
      <4> QED
        BY <1>3, <4>2, <4>3, StepMovesOrEnds
    <3> QED
      BY <3>1, <3>2, <3>3
  <2> QED
    BY <1>1, <2>1, <2>4
<1>4. ASSUME NEW c \in calls, AppendStatement(c)
      PROVE  RevokeInv'
  <2>1. PICK s \in Statement : Appends(c, s) /\ Statements' = Statements \cup {s}
    BY <1>4, AppendAdds
  <2>2. /\ c \in Call /\ Shaped(c) /\ c.step = "append" /\ used' = used
        /\ c.op \in {"setup", "activate", "revoke"}
    BY <1>4, IdentityConstants DEF AppendStatement, TypeInv, TypeOK, Call, Shaped, Shared
  <2>3. /\ s.key = c.key /\ s.community = c.community
        /\ c.op = "setup" => s.kind = "declare"
        /\ c.op = "activate" => s.kind = "activate"
        /\ c.op = "revoke" => s.kind = "revoke"
    BY <2>1, <2>2 DEF Appends, StatementKind
  <2>4. /\ DOMAIN log = 1 .. Len(log) /\ Len(log) \in Nat
        /\ DOMAIN log' = DOMAIN log \cup {Len(log) + 1}
        /\ \A i \in DOMAIN log : log'[i] = log[i]
        /\ log'[Len(log) + 1] = s
    BY <2>1 DEF TypeInv, TypeOK, Appends
  <2>5. c.op = "activate" => OfKey(c.key) = {} /\ c.key \in used
    BY <2>2 DEF KeysTracked
  <2>6. c.op = "revoke" => OfKey(c.key) # {} /\ c.key \in used
    BY <2>2 DEF KeysTracked
  <2>7. \A k : OfKey(k)' = IF c.op # "setup" /\ k = c.key THEN OfKey(k) \cup {s} ELSE OfKey(k)
    <3>1. \A k : OfKey(k)' = {t \in Statements' : t.kind \in {"activate", "revoke"} /\ t.key = k}
      BY DEF OfKey
    <3> QED
      BY <2>1, <2>2, <2>3, <3>1 DEF OfKey
  <2>8. \A e \in calls' : \/ e \in calls /\ e # c
                          \/ e.op = c.op /\ e.op \in {"setup", "revoke"} /\ e.step # "append"
    <3>1. ASSUME NEW t, NEW i, NEW k, GoTo(c, t, i, k), t # "append"
          PROVE  \A e \in calls' : (e \in calls /\ e # c) \/ (e.op = c.op /\ e.step # "append")
      BY <2>2, <3>1 DEF GoTo, Call
    <3>2. CASE c.op = "setup"
      BY <1>4, <3>1, <3>2 DEF AppendStatement
    <3>3. CASE c.op = "activate"
      BY <1>4, <3>3 DEF AppendStatement, End
    <3>4. CASE c.op = "revoke"
      BY <1>4, <3>1, <3>4 DEF AppendStatement
    <3> QED
      BY <2>2, <3>2, <3>3, <3>4
  <2>9. KeysTracked'
    <3>1. \A k : OfKey(k)' # {} => k \in used' \cap DeviceKey
      BY <2>2, <2>5, <2>6, <2>7 DEF KeysTracked, Shaped
    <3>2. ASSUME NEW e \in calls', e.op = "activate", e.step # "read"
          PROVE  e.key \in used' /\ OfKey(e.key)' = {}
      <4>1. e \in calls /\ e # c
        BY <2>8, <3>2
      <4>2. e.key \in used /\ OfKey(e.key) = {}
        BY <3>2, <4>1 DEF KeysTracked
      <4>3. c.op # "activate"
        BY <3>2, <4>1 DEF SharedHeld, Shared
      <4>4. c.op = "revoke" => e.key # c.key
        BY <2>6, <4>2
      <4> QED
        BY <2>2, <2>7, <4>2, <4>3, <4>4
    <3>3. ASSUME NEW e \in calls', e.op = "revoke", e.step = "append"
          PROVE  OfKey(e.key)' # {}
      <4>1. e \in calls
        BY <2>8, <3>3
      <4>2. OfKey(e.key) # {}
        BY <3>3, <4>1 DEF KeysTracked
      <4> QED
        BY <2>7, <4>2
    <3> QED
      BY <3>1, <3>2, <3>3 DEF KeysTracked
  <2>10. ActivatedFirst'
    <3>1. s.kind = "activate" =>
            \A i \in DOMAIN log : ~(log[i].kind = "revoke" /\ log[i].key = s.key)
      BY <2>2, <2>3, <2>5 DEF OfKey, Statements
    <3>2. ASSUME NEW i \in DOMAIN log', NEW j \in DOMAIN log',
                 log'[i].kind = "revoke", log'[j].kind = "activate", log'[i].key = log'[j].key
          PROVE  j < i
      <4>1. CASE i \in DOMAIN log /\ j \in DOMAIN log
        BY <2>4, <3>2, <4>1 DEF ActivatedFirst
      <4>2. CASE i \in DOMAIN log /\ j = Len(log) + 1
        BY <2>4, <3>1, <3>2, <4>2
      <4>3. CASE i = Len(log) + 1 /\ j \in DOMAIN log
        BY <2>4, <4>3
      <4>4. CASE i = Len(log) + 1 /\ j = Len(log) + 1
        BY <3>2, <4>4
      <4> QED
        BY <2>4, <4>1, <4>2, <4>3, <4>4
    <3> QED
      BY <3>2 DEF ActivatedFirst
  <2>11. TimesDiffer'
    <3>1. \A i \in DOMAIN log : log[i].at # s.at
      BY <2>1 DEF Appends, NextTime, Statements
    <3> QED
      BY <2>4, <3>1 DEF TimesDiffer
  <2> QED
    BY <2>9, <2>10, <2>11
<1>5. CASE Restart \/ UNCHANGED vars
  <2>1. log' = log /\ used' = used /\ calls' \subseteq calls
    BY <1>5 DEF Restart, vars
  <2> QED
    BY <1>1, <2>1, TrackedUnlessAppended
<1> QED
  BY <1>2, <1>3, <1>4, <1>5 DEF Next

\* In a feed where activations come first, a revocation that is not backdated is the later
\* statement, and its key is not active.
LEMMA RevokedInactive ==
    ASSUME TypeInv, RevokeInv
    PROVE  RevocationsFinal
<1> SUFFICES ASSUME NEW x \in Community, NEW k \in DeviceKey, ~Backdated(x, k)
             PROVE  /\ Reduces(x, k)
                    /\ \A s \in Lifecycle(x, k) : s.kind = "revoke" => ~KeyActive(x, s.root, k)
  BY DEF RevocationsFinal
<1>1. \A s \in Lifecycle(x, k) : s.at \in Int
  <2>1. \A s \in Lifecycle(x, k) : s \in Statement
    BY DEF Lifecycle, Statements, TypeInv, TypeOK
  <2> QED
    BY <2>1 DEF Statement
<1>2. ASSUME NEW s \in Lifecycle(x, k), NEW t \in Lifecycle(x, k),
             s.kind = "revoke", t.kind = "activate"
      PROVE  t.at < s.at
  <2>1. PICK i \in DOMAIN log : log[i] = s
    BY DEF Lifecycle, Statements
  <2>2. PICK j \in DOMAIN log : log[j] = t
    BY DEF Lifecycle, Statements
  <2>3. s.community = x /\ s.key = k /\ t.community = x /\ t.key = k
    BY DEF Lifecycle
  <2>4. j < i
    BY <1>2, <2>1, <2>2, <2>3 DEF RevokeInv, ActivatedFirst
  <2>5. ~(s.at < t.at)
    BY <1>2, <2>1, <2>2, <2>3, <2>4 DEF Backdated
  <2>6. s.at # t.at
    <3>1. i \in Int /\ j \in Int
      BY DEF TypeInv, TypeOK
    <3> QED
      BY <2>1, <2>2, <2>4, <3>1 DEF RevokeInv, TimesDiffer
  <2> QED
    BY <1>1, <2>5, <2>6
<1>3. Reduces(x, k)
  BY <1>2 DEF Reduces
<1>4. ASSUME NEW s \in Lifecycle(x, k), s.kind = "revoke", KeyActive(x, s.root, k)
      PROVE  FALSE
  <2>1. PICK a \in Lifecycle(x, k) :
           /\ a.kind = "activate"
           /\ \A t \in Lifecycle(x, k) : t.root = s.root => t.at <= a.at
    BY <1>4 DEF KeyActive
  <2> QED
    BY <1>1, <1>2, <1>4, <2>1
<1> QED
  BY <1>3, <1>4

LEMMA RevokeInvariant == Spec => []RevokeInv
<1>1. Init => RevokeInv
  BY DEF Init, RevokeInv, KeysTracked, ActivatedFirst, TimesDiffer, OfKey, Statements
<1>2. DeclareInv => SharedHeld
  BY DEF DeclareInv
<1> QED
  BY <1>1, <1>2, RevokeStep, TypeInvariant, DeclareInvariant, PTL DEF Spec

\* Whatever the clock does, a revoked device key is never active again and every reader can
\* reduce the statements about it, unless that revocation is dated before the activation it
\* ends (member-identity.ts, activation, revocation and deviceSigningKeyStatuses).
THEOREM RevocationsAreFinal == Spec => []RevocationsFinal
<1>1. TypeInv /\ RevokeInv => RevocationsFinal
  BY RevokedInactive
<1> QED
  BY <1>1, TypeInvariant, RevokeInvariant, PTL

----------------------------------------------------------------------------
(***************************************************************************)
(* Established keys.  Only a missing file is created anew, so once the     *)
(* file exists every call gets its identity from it, and what all of them  *)
(* hold is what they write back.                                           *)
(***************************************************************************)

\* Where the identity of a call in flight comes from, and what becomes of its devices.
Holds(c, d) ==
    /\ d.op = c.op
    /\ d.stored \in StoredIdentity
    /\ \/ /\ c.step = "read" /\ file = NoFile
       \/ /\ c.step = "read" /\ file \in StoredIdentity
          /\ d.stored.root = file.root /\ file.devices \subseteq d.stored.devices
       \/ /\ c.step # "read" /\ d.key = c.key
          /\ d.stored.root = c.stored.root
          /\ \/ c.stored.devices \subseteq d.stored.devices
             \/ c.op = "revoke" /\ c.stored.devices \subseteq d.stored.devices \cup {c.key}

\* A call in flight moves on with such an identity, or ends.
LEMMA CallHolds ==
    ASSUME TypeInv, NEW c \in calls, StepOf(c)
    PROVE  \/ calls' = calls \ {c}
           \/ \E d \in Call : calls' = (calls \ {c}) \cup {d} /\ Holds(c, d)
<1>1. c \in Call /\ Shaped(c) /\ calls \subseteq Call
  BY DEF TypeInv, TypeOK
<1>2. /\ c.op \in {"setup", "activate", "genesis", "revoke"}
      /\ c.key \in DeviceKey \cup {NoKey}
      /\ c.step # "read" => c.stored \in StoredIdentity
  BY <1>1, IdentityConstants DEF Call, Shared, Shaped
<1>3. ASSUME NEW s \in Step, NEW i \in StoredIdentity, NEW k \in DeviceKey \cup {NoKey},
             GoTo(c, s, i, k),
             \/ c.step = "read" /\ file = NoFile
             \/ /\ c.step = "read" /\ file \in StoredIdentity
                /\ i.root = file.root /\ file.devices \subseteq i.devices
             \/ /\ c.step # "read" /\ k = c.key /\ i.root = c.stored.root
                /\ \/ c.stored.devices \subseteq i.devices
                   \/ c.op = "revoke" /\ c.stored.devices \subseteq i.devices \cup {c.key}
      PROVE  \E d \in Call : calls' = (calls \ {c}) \cup {d} /\ Holds(c, d)
  <2>1. PICK d \in Call :
           /\ calls' = (calls \ {c}) \cup {d}
           /\ d.step = s /\ d.stored = i /\ d.key = k /\ d.op = c.op
    BY <1>1, <1>3, GoToMoves
  <2>2. Holds(c, d)
    BY <1>3, <2>1 DEF Holds
  <2> QED
    BY <2>1, <2>2
<1>4. ASSUME c.step # "read", NEW s \in Step, GoTo(c, s, c.stored, c.key)
      PROVE  \E d \in Call : calls' = (calls \ {c}) \cup {d} /\ Holds(c, d)
  BY <1>2, <1>3, <1>4
<1> USE DEF Step
<1>5. CASE CreateStoredIdentity(c)
  <2>1. PICK r \in Root : GoTo(c, "truncate", [root |-> r, devices |-> {}], NoKey)
    BY <1>5, GeneratedNew DEF CreateStoredIdentity
  <2>2. [root |-> r, devices |-> {}] \in StoredIdentity
    BY DEF StoredIdentity
  <2> QED
    BY <1>3, <1>5, <2>1, <2>2 DEF CreateStoredIdentity, Missing
<1>6. CASE ReadIdentity(c)
  <2>1. c.step = "read" /\ file \in StoredIdentity
    BY <1>6 DEF ReadIdentity
  <2>2. CASE c.op # "activate"
    <3>1. PICK s \in {"find", "sign", "statuses"}, k \in {NoKey, c.key} : GoTo(c, s, file, k)
      BY <1>2, <1>6, <2>2 DEF ReadIdentity
    <3> QED
      BY <1>2, <1>3, <2>1, <3>1
  <2>3. CASE c.op = "activate"
    <3>1. PICK k \in DeviceKey : GoTo(c, "truncate", WithDevice(file, k), k)
      BY <1>6, <2>3, GeneratedNew DEF ReadIdentity
    <3>2. /\ WithDevice(file, k) \in StoredIdentity /\ WithDevice(file, k).root = file.root
          /\ file.devices \subseteq WithDevice(file, k).devices
      BY <2>1, DevicesTyped DEF WithDevice, StoredIdentity
    <3> QED
      BY <1>3, <2>1, <3>1, <3>2
  <2> QED
    BY <2>2, <2>3
<1>7. CASE Truncate(c)
  BY <1>4, <1>7 DEF Truncate
<1>8. CASE Write(c)
  <2>1. c.step = "write"
    BY <1>8 DEF Write
  <2>2. CASE c.op = "revoke"
    BY <1>8, <2>2 DEF Write, End
  <2>3. CASE c.op # "revoke"
    <3>1. PICK s \in {"find", "sign", "append"} : GoTo(c, s, c.stored, c.key)
      BY <1>2, <1>8, <2>3 DEF Write
    <3> QED
      BY <1>4, <2>1, <3>1
  <2> QED
    BY <2>2, <2>3
<1>9. CASE FindDeclaration(c)
  <2>1. PICK s \in {"append", "announce"} : GoTo(c, s, c.stored, c.key)
    BY <1>9 DEF FindDeclaration
  <2> QED
    BY <1>4, <1>9, <2>1 DEF FindDeclaration
<1>10. CASE ReadStatuses(c)
  <2>1. c.step = "statuses" /\ c.stored \in StoredIdentity /\ c.op = "revoke" /\ c.key \in DeviceKey
    BY <1>1, <1>10 DEF ReadStatuses, Shaped
  <2>2. /\ WithoutDevice(c.stored, c.key) \in StoredIdentity
        /\ WithoutDevice(c.stored, c.key).root = c.stored.root
        /\ c.stored.devices \subseteq WithoutDevice(c.stored, c.key).devices \cup {c.key}
    BY <2>1, DevicesTyped DEF WithoutDevice, StoredIdentity
  <2>3. \/ GoTo(c, "append", WithoutDevice(c.stored, c.key), c.key)
        \/ End(c)
    BY <1>10 DEF ReadStatuses
  <2>4. CASE GoTo(c, "append", WithoutDevice(c.stored, c.key), c.key)
    BY <1>3, <2>1, <2>2, <2>4
  <2>5. CASE End(c)
    BY <2>5 DEF End
  <2> QED
    BY <2>3, <2>4, <2>5
<1>11. CASE AppendStatement(c)
  <2>1. c.step = "append" /\ c.op # "genesis"
    BY <1>1, <1>11 DEF AppendStatement, Shaped
  <2>2. CASE c.op = "activate"
    BY <1>11, <2>2 DEF AppendStatement, End
  <2>3. CASE c.op # "activate"
    <3>1. PICK s \in {"announce", "truncate"} : GoTo(c, s, c.stored, c.key)
      BY <1>2, <1>11, <2>1, <2>3 DEF AppendStatement
    <3> QED
      BY <1>4, <2>1, <3>1
  <2> QED
    BY <2>2, <2>3
<1>12. CASE RefuseIdentity(c) \/ Announce(c) \/ SignGenesis(c) \/ Fail(c)
  BY <1>12 DEF RefuseIdentity, Announce, SignGenesis, Fail, End
<1> QED
  BY <1>5, <1>6, <1>7, <1>8, <1>9, <1>10, <1>11, <1>12 DEF StepOf

\* What a call does to the file: nothing, or it leaves it torn, or it writes what it holds.
LEMMA FileChanges ==
    ASSUME TypeInv, NEW c \in calls, StepOf(c)
    PROVE  \/ file' = file
           \/ file' = Torn
           \/ file' = c.stored /\ c.step = "write" /\ c.stored \in StoredIdentity
<1>1. CASE Write(c)
  BY <1>1 DEF Write, Overwritten, TypeInv, Shaped
<1>2. CASE Truncate(c)
  BY <1>2 DEF Truncate
<1>3. CASE ~Write(c) /\ ~Truncate(c)
  BY <1>3 DEF StepOf, CreateStoredIdentity, ReadIdentity, RefuseIdentity, FindDeclaration,
     ReadStatuses, AppendStatement, Announce, SignGenesis, Fail
<1> QED
  BY <1>1, <1>2, <1>3

\* Which roots sign: those of calls in flight.
LEMMA RootsUsed ==
    ASSUME TypeInv, NEW c \in calls, StepOf(c)
    PROVE  \/ UsedRoots' = UsedRoots
           \/ UsedRoots' = UsedRoots \cup {c.stored.root} /\ c.stored \in StoredIdentity
<1>1. CASE AppendStatement(c)
  <2>1. PICK s \in Statement : Appends(c, s) /\ Statements' = Statements \cup {s}
    BY <1>1, AppendAdds
  <2>2. genesis' = genesis /\ c.stored \in StoredIdentity /\ s.root = c.stored.root
    BY <1>1, <2>1 DEF AppendStatement, Appends, TypeInv, Shaped
  <2> QED
    BY <2>1, <2>2 DEF UsedRoots
<1>2. CASE SignGenesis(c)
  <2>1. c.stored \in StoredIdentity /\ genesis' = genesis \cup {c.stored.root} /\ log' = log
    BY <1>2 DEF SignGenesis, TypeInv, Shaped
  <2> QED
    BY <2>1 DEF UsedRoots, Statements
<1>3. CASE ~AppendStatement(c) /\ ~SignGenesis(c)
  <2>1. log' = log /\ genesis' = genesis
    BY <1>3 DEF StepOf, CreateStoredIdentity, ReadIdentity, RefuseIdentity, Truncate, Write,
       FindDeclaration, ReadStatuses, Announce, Fail
  <2> QED
    BY <2>1 DEF UsedRoots, Statements
<1> QED
  BY <1>1, <1>2, <1>3

\* An established root stays through every step, and only it signs.
LEMMA RootStep ==
    ASSUME TypeInv, [Next]_vars, NEW r \in Root, Established(r)
    PROVE  Established(r)' /\ UsedRoots' \subseteq UsedRoots \cup {r}
<1> USE DEF Established
<1>0. NoFile \notin StoredIdentity /\ Torn \notin StoredIdentity /\ Torn # NoFile
  BY FileStatesDiffer
<1>1. ASSUME NEW c \in calls, StepOf(c)
      PROVE  Established(r)' /\ UsedRoots' \subseteq UsedRoots \cup {r}
  <2>1. c.stored \in StoredIdentity => c.stored.root = r
    BY <1>0
  <2>2. UsedRoots' \subseteq UsedRoots \cup {r}
    BY <1>1, <2>1, RootsUsed
  <2>3. file' # NoFile /\ (file' \in StoredIdentity => file'.root = r)
    BY <1>0, <1>1, <2>1, FileChanges
  <2>4. \A e \in calls' : e.stored # NoFile => e.stored.root = r
    <3>1. CASE calls' = calls \ {c}
      BY <3>1
    <3>2. ASSUME NEW d \in Call, calls' = (calls \ {c}) \cup {d}, Holds(c, d)
          PROVE  \A e \in calls' : e.stored # NoFile => e.stored.root = r
      <4>1. d.stored.root = r
        <5>1. c.step # "read" => c.stored \in StoredIdentity
          BY DEF TypeInv, Shaped
        <5> QED
          BY <2>1, <3>2, <5>1 DEF Holds
      <4> QED
        BY <3>2, <4>1
    <3> QED
      BY <1>1, <3>1, <3>2, CallHolds
  <2> QED
    BY <2>2, <2>3, <2>4
<1>2. ASSUME NEW l \in Lane, NEW op \in Operation, NEW k \in DeviceKey \cup {NoKey},
             NEW x \in Community, Begin(l, op, k, x)
      PROVE  Established(r)' /\ UsedRoots' \subseteq UsedRoots \cup {r}
  BY <1>2 DEF Begin, UsedRoots, Statements
<1>3. CASE Restart \/ UNCHANGED vars
  BY <1>3 DEF Restart, vars, UsedRoots, Statements
<1> QED
  BY <1>1, <1>2, <1>3 DEF Next

\* However calls overlap, fail and are cut off by restarts, a root that the file and the calls
\* agree on is never replaced, and no other root signs a record or a genesis after that
\* (member-identity.ts, createStoredIdentity only for a missing file).
THEOREM RootStaysEstablished == Spec => EstablishedRootKept
<1>1. TypeInv /\ [Next]_vars =>
        [\A r \in Root : Established(r) =>
            Established(r)' /\ UsedRoots' \subseteq UsedRoots \cup {r}]_vars
  BY RootStep
<1> QED
  BY <1>1, TypeInvariant, PTL DEF Spec, EstablishedRootKept

\* A revocation writes the file only after the feed has it.
RevokedBeforeWrite ==
    \A c \in calls : c.op = "revoke" /\ c.step \in {"truncate", "write"} => Revoked(c.key)

\* What the feed has revoked stays revoked.
LEMMA RevokedStays ==
    ASSUME TypeInv, [Next]_vars, NEW k, Revoked(k)
    PROVE  Revoked(k)'
<1>1. Statements \subseteq Statements'
  <2>1. CASE log' = log
    BY <2>1 DEF Statements
  <2>2. ASSUME NEW c \in calls, AppendStatement(c)
        PROVE  Statements \subseteq Statements'
    BY <2>2, AppendAdds
  <2>3. CASE ~\E c \in calls : AppendStatement(c)
    <3>1. log' = log
      BY <2>3, LogChanges DEF Next, Begin, Restart, vars
    <3> QED
      BY <2>1, <3>1
  <2> QED
    BY <2>2, <2>3
<1> QED
  BY <1>1 DEF Revoked

LEMMA RevokedBeforeWriteStep ==
    TypeInv /\ RevokedBeforeWrite /\ [Next]_vars => RevokedBeforeWrite'
<1> SUFFICES ASSUME TypeInv, RevokedBeforeWrite, [Next]_vars,
                    NEW e \in calls', e.op = "revoke", e.step \in {"truncate", "write"}
             PROVE  Revoked(e.key)'
  BY DEF RevokedBeforeWrite
<1>1. CASE e \in calls
  BY <1>1, RevokedStays DEF RevokedBeforeWrite
<1>2. CASE e \notin calls
  <2>1. ASSUME NEW l \in Lane, NEW op \in Operation, NEW k \in DeviceKey \cup {NoKey},
               NEW x \in Community, Begin(l, op, k, x)
        PROVE  FALSE
    BY <1>2, <2>1 DEF Begin
  <2>2. ASSUME NEW c \in calls, StepOf(c)
        PROVE  Revoked(e.key)'
    <3>1. c \in Call /\ Shaped(c)
      BY DEF TypeInv, TypeOK
    <3>2. ASSUME NEW s, NEW i, NEW k, GoTo(c, s, i, k)
          PROVE  e.step = s /\ e.key = k /\ e.op = c.op
      BY <1>2, <3>1, <3>2 DEF GoTo, Call
    <3>3. c.op = "revoke"
      <4>1. CASE Moves(c)
        BY <1>2, <4>1 DEF Moves
      <4>2. CASE End(c)
        BY <1>2, <4>2 DEF End
      <4> QED
        BY <2>2, <4>1, <4>2, StepMovesOrEnds
    <3>4. CASE AppendStatement(c)
      <4>1. PICK s \in Statement : Appends(c, s) /\ Statements' = Statements \cup {s}
        BY <3>4, AppendAdds
      <4>2. s.kind = "revoke" /\ s.key = c.key
        BY <3>3, <4>1 DEF Appends, StatementKind
      <4>3. e.key = c.key
        BY <3>2, <3>3, <3>4 DEF AppendStatement
      <4> QED
        BY <4>1, <4>2, <4>3 DEF Revoked
    <3>5. CASE Truncate(c)
      <4>1. c.step = "truncate" /\ e.key = c.key
        BY <3>2, <3>5 DEF Truncate
      <4> QED
        BY <3>3, <4>1, RevokedStays DEF RevokedBeforeWrite
    <3>6. CASE ReadIdentity(c)
      BY <3>2, <3>3, <3>6 DEF ReadIdentity
    <3>7. CASE ReadStatuses(c)
      <4>1. \/ GoTo(c, "append", WithoutDevice(c.stored, c.key), c.key)
            \/ calls' = calls \ {c}
        BY <3>7 DEF ReadStatuses, End
      <4> QED
        BY <1>2, <3>2, <4>1
    <3>8. CASE CreateStoredIdentity(c) \/ FindDeclaration(c)
      BY <3>1, <3>3, <3>8 DEF CreateStoredIdentity, FindDeclaration, Shaped
    <3>9. CASE Write(c) \/ RefuseIdentity(c) \/ Announce(c) \/ SignGenesis(c) \/ Fail(c)
      BY <1>2, <3>3, <3>9 DEF Write, RefuseIdentity, Announce, SignGenesis, Fail, End
    <3> QED
      BY <2>2, <3>4, <3>5, <3>6, <3>7, <3>8, <3>9 DEF StepOf
  <2>3. CASE Restart \/ UNCHANGED vars
    BY <1>2, <2>3 DEF Restart, vars
  <2> QED
    BY <2>1, <2>2, <2>3 DEF Next
<1> QED
  BY <1>1, <1>2

\* An established device key stays through every step until the feed has its revocation.
LEMMA KeyStep ==
    ASSUME TypeInv, RevokedBeforeWrite, [Next]_vars, NEW k \in DeviceKey,
           KeyEstablished(k), ~Revoked(k)'
    PROVE  KeyEstablished(k)'
<1> USE DEF KeyEstablished
<1>0. NoFile \notin StoredIdentity /\ Torn \notin StoredIdentity /\ Torn # NoFile
  BY FileStatesDiffer
<1>1. ASSUME NEW c \in calls, StepOf(c)
      PROVE  KeyEstablished(k)'
  <2>1. /\ c.stored \in StoredIdentity => k \in c.stored.devices \/ (c.op = "revoke" /\ c.key = k)
        /\ c.step # "read" => c.stored \in StoredIdentity
    BY <1>0 DEF TypeInv, Shaped
  <2>2. ~(c.op = "revoke" /\ c.key = k /\ c.step = "write")
    BY RevokedStays DEF RevokedBeforeWrite
  <2>3. file' # NoFile /\ (file' \in StoredIdentity => k \in file'.devices)
    BY <1>0, <1>1, <2>1, <2>2, FileChanges
  <2>4. \A e \in calls' :
           e.stored # NoFile => k \in e.stored.devices \/ (e.op = "revoke" /\ e.key = k)
    <3>1. CASE calls' = calls \ {c}
      BY <3>1
    <3>2. ASSUME NEW d \in Call, calls' = (calls \ {c}) \cup {d}, Holds(c, d)
          PROVE  \A e \in calls' :
                   e.stored # NoFile => k \in e.stored.devices \/ (e.op = "revoke" /\ e.key = k)
      <4>1. k \in d.stored.devices \/ (d.op = "revoke" /\ d.key = k)
        BY <2>1, <3>2 DEF Holds
      <4> QED
        BY <3>2, <4>1
    <3> QED
      BY <1>1, <3>1, <3>2, CallHolds
  <2> QED
    BY <2>3, <2>4
<1>2. ASSUME NEW l \in Lane, NEW op \in Operation, NEW j \in DeviceKey \cup {NoKey},
             NEW x \in Community, Begin(l, op, j, x)
      PROVE  KeyEstablished(k)'
  BY <1>2 DEF Begin
<1>3. CASE Restart \/ UNCHANGED vars
  BY <1>3 DEF Restart, vars
<1> QED
  BY <1>1, <1>2, <1>3 DEF Next

\* However calls overlap and fail, the private key of a device key that the file and the
\* calls agree on is lost only after the feed has its revocation (member-identity.ts,
\* activateDeviceSigningKeyOnce, revokeDeviceSigningKey).
THEOREM KeyStaysEstablished == Spec => EstablishedKeyKept
<1>1. TypeInv /\ RevokedBeforeWrite /\ [Next]_vars =>
        [\A k \in DeviceKey : KeyEstablished(k) => KeyEstablished(k)' \/ Revoked(k)']_vars
  BY KeyStep
<1>2. Init => RevokedBeforeWrite
  BY DEF Init, RevokedBeforeWrite
<1> QED
  BY <1>1, <1>2, RevokedBeforeWriteStep, TypeInvariant, PTL DEF Spec, EstablishedKeyKept
=============================================================================
