------------------------- MODULE PeerRuntimeProofs -------------------------
(***************************************************************************)
(* Proofs about PeerRuntime: bootstrap metadata never changes the selected *)
(* community; only a selection takes announcements off its core; and a     *)
(* stop that does not overlap start releases everything.                   *)
(***************************************************************************)
EXTENDS PeerRuntime, TLAPS

\* Whatever fetches and selections overlap, only a selection replaces a community.
THEOREM BootstrapAlwaysKeepsScope == Spec => BootstrapKeepsScope
<1> DEFINE Kept == community # None /\ community' # community =>
                       \E s \in selections : s.step = "open" /\ s.community = community'
<1>1. [Next]_vars => Kept
  <2> SUFFICES ASSUME [Next]_vars, community # None, community' # community
               PROVE  \E s \in selections : s.step = "open" /\ s.community = community'
    OBVIOUS
  <2>1. ASSUME NEW f \in fetches, FetchStep(f)
        PROVE  FALSE
    BY <2>1 DEF FetchStep, Answer, Compatible, NoAnswer, Exhausted, scope
  <2>2. ASSUME NEW s \in selections, SelectionStep(s)
        PROVE  s.step = "open" /\ s.community = community'
    BY <2>2 DEF SelectionStep, Select, Move, SelectionFails, scope
  <2>3. ~(Start \/ StartStep \/ Stop \/ StopStep \/ Refresh)
    BY DEF Start, StartStep, OpenStore, OpenSwarm, Listening, CoreReady, StartFails,
           StartGivesUp, Stop, StopStep, SwarmDestroyed, StoreClosed, StopFails, Refresh, scope
  <2>4. ~\E i \in SelectionId, x \in Community : BeginSelection(i, x)
    BY DEF BeginSelection, scope
  <2>5. ~UNCHANGED vars
    BY DEF vars, scope
  <2> QED
    BY <2>1, <2>2, <2>3, <2>4, <2>5 DEF Next
<1>2. Spec => [][Kept]_vars
  <2>1. [Next]_vars => [Kept]_vars
    BY <1>1
  <2> QED
    BY <2>1, PTL DEF Spec
<1> QED
  BY <1>2 DEF BootstrapKeepsScope

\* Whatever starts, fetches and selections overlap, announcements stay on the core of the
\* selected community until another one is selected or the runtime stops.
THEOREM ScopeAlwaysKept == Spec => ScopeKept
<1> DEFINE Another == \E s \in selections : Select(s) /\ s.community # community
<1>1. [Next]_vars /\ ScopeAgreed /\ stop' = "none" => ScopeAgreed' \/ Another
  <2> SUFFICES ASSUME [Next]_vars, ScopeAgreed, stop' = "none", ~Another
               PROVE  ScopeAgreed'
    OBVIOUS
  <2>0. /\ community # None /\ ext = community /\ ext # None
        /\ \A s \in selections : s.step = "moving" => s.community = community
    BY DEF ScopeAgreed
  <2>1. ASSUME ext' = ext, community' = community, selections' \subseteq selections
        PROVE  ScopeAgreed'
    BY <2>0, <2>1 DEF ScopeAgreed
  <2>2. CASE Start \/ OpenStore \/ OpenSwarm \/ StartGivesUp \/ Refresh
    BY <2>1, <2>2 DEF Start, OpenStore, OpenSwarm, StartGivesUp, Refresh, resources, scope
  <2>3. CASE Listening
    BY <2>0, <2>1, <2>3 DEF Listening, StartWithKey, StartWithoutKey, Registered, resources
  <2>4. CASE CoreReady
    BY <2>0, <2>1, <2>4 DEF CoreReady, Registered, scope
  <2>5. CASE StartFails \/ Stop \/ StopStep
    <3>1. BeginStop => stop' # "none"
      BY DEF BeginStop
    <3>2. CASE StartFails
      <4>1. stop # "none" /\ UNCHANGED <<ext, community, selections>>
        BY <3>1, <3>2 DEF StartFails, scope
      <4> QED
        BY <2>1, <4>1
    <3>3. ~Stop
      BY <3>1 DEF Stop
    <3>4. CASE StopStep
      BY <2>1, <3>4 DEF StopStep, SwarmDestroyed, StoreClosed, StopFails, scope
    <3> QED
      BY <2>5, <3>2, <3>3, <3>4
  <2>6. ASSUME NEW f \in fetches, FetchStep(f)
        PROVE  ScopeAgreed'
    <3>1. CASE NoAnswer(f)
      BY <2>1, <3>1 DEF NoAnswer, resources, scope
    <3>2. CASE Exhausted(f)
      BY <2>0, <2>1, <3>2 DEF Exhausted, StartWithoutKey, Registered, resources
    <3>3. ASSUME NEW m \in Community, NEW nodes, Answer(f, m, nodes)
          PROVE  ScopeAgreed'
      BY <2>0, <2>1, <3>3 DEF Answer, Compatible, StartWithKey, resources
    <3> QED
      BY <2>6, <3>1, <3>2, <3>3 DEF FetchStep
  <2>7. ASSUME NEW i \in SelectionId, NEW x \in Community, BeginSelection(i, x)
        PROVE  ScopeAgreed'
    <3> DEFINE n == [id |-> i, community |-> x, step |-> "open"]
    <3>1. /\ selections' = selections \cup {n} /\ n.step = "open"
          /\ ext' = ext /\ community' = community
      BY <2>7 DEF BeginSelection, resources, scope
    <3> HIDE DEF n
    <3> QED
      BY <2>0, <3>1 DEF ScopeAgreed
  <2>8. ASSUME NEW s \in selections, SelectionStep(s)
        PROVE  ScopeAgreed'
    <3>1. CASE Select(s)
      <4> DEFINE n == [s EXCEPT !.step = "moving"]
      <4>1. s.community = community
        BY <3>1
      <4>2. /\ selections' = (selections \ {s}) \cup {n} /\ n.community = s.community
            /\ ext' = ext /\ community' = s.community
        BY <3>1 DEF Select, resources
      <4> HIDE DEF n
      <4> QED
        BY <2>0, <4>1, <4>2 DEF ScopeAgreed
    <3>2. CASE Move(s)
      BY <2>0, <3>2 DEF Move, scope, ScopeAgreed
    <3>3. CASE SelectionFails(s)
      BY <2>1, <3>3 DEF SelectionFails, resources, scope
    <3> QED
      BY <2>8, <3>1, <3>2, <3>3 DEF SelectionStep
  <2>9. CASE UNCHANGED vars
    BY <2>1, <2>9 DEF vars, resources, scope
  <2> QED
    BY <2>2, <2>3, <2>4, <2>5, <2>6, <2>7, <2>8, <2>9 DEF Next, StartStep
<1>2. [Next]_vars => [ScopeAgreed /\ stop' = "none" => ScopeAgreed' \/ Another]_vars
  BY <1>1
<1> QED
  BY <1>2, PTL DEF Spec, ScopeKept

----------------------------------------------------------------------------
(***************************************************************************)
(* What is open.  Unless the two overlap, start owns the runtime before it *)
(* settles: stop has not begun, and at most one fetch belongs to start.    *)
(***************************************************************************)

Shape(f) ==
    f = [id |-> f.id, byStart |-> f.byStart, list |-> f.list, live |-> f.live, next |-> f.next]

FetchInv ==
    /\ \A f \in fetches : Shape(f)
    /\ \A f \in fetches : f.byStart => start = "fetch"
    /\ \A f, g \in fetches : f.byStart /\ g.byStart => f = g

OpenInv ==
    /\ overlapped => stop # "none"
    /\ ~overlapped =>
           /\ start \in {"idle", "mkdir"} => store = "none"
           /\ start \in {"idle", "mkdir", "cores"} => swarm = "none"
           /\ start \in {"idle"} \cup Await => ~timers
           /\ start \in Await => stop = "none"
           /\ stop # "none" => ~timers
           /\ stop = "swarm" => swarm # "none"
           /\ stop = "store" => store # "none"
           /\ stop \in {"store", "done"} => swarm # "up"
           /\ stop = "done" => store # "open"

LEMMA FetchBegun ==
    ASSUME FetchInv, NEW b, BeginFetch(b),
           \A f \in fetches : ~f.byStart,
           b => start' = "fetch"
    PROVE  FetchInv'
<1>1. PICK i : fetches' = fetches \cup
              {[id |-> i, byStart |-> b, list |-> RetryOrder, live |-> active = None, next |-> 1]}
  BY DEF BeginFetch
<1> DEFINE n == [id |-> i, byStart |-> b, list |-> RetryOrder, live |-> active = None, next |-> 1]
<1>2. Shape(n) /\ n.byStart = b
  BY DEF Shape
<1>3. fetches' = fetches \cup {n}
  BY <1>1
<1> HIDE DEF n
<1>4. \A f \in fetches' : Shape(f)
  BY <1>2, <1>3 DEF FetchInv
<1> QED
  BY <1>2, <1>3, <1>4 DEF FetchInv, Shape

LEMMA FetchStepKeeps ==
    ASSUME FetchInv, [Next]_vars
    PROVE  FetchInv'
<1>1. ASSUME fetches' = fetches, start # "fetch" \/ start' = start
      PROVE  FetchInv'
  BY <1>1 DEF FetchInv, Shape
<1>2. ASSUME NEW f \in fetches, FetchStep(f)
      PROVE  FetchInv'
  <2>1. ASSUME fetches' = fetches \ {f}, f.byStart \/ start' = start
        PROVE  FetchInv'
    BY <2>1 DEF FetchInv, Shape
  <2>2. CASE NoAnswer(f)
    <3> DEFINE g == [f EXCEPT !.next = @ + 1]
    <3>1. Shape(f)
      BY DEF FetchInv
    <3>2. Shape(g) /\ g.byStart = f.byStart
      BY <3>1 DEF Shape
    <3>3. fetches' = (fetches \ {f}) \cup {g} /\ start' = start
      BY <2>2 DEF NoAnswer
    <3> HIDE DEF g
    <3>4. \A h \in fetches' : Shape(h)
      BY <3>2, <3>3 DEF FetchInv
    <3> QED
      BY <3>2, <3>3, <3>4 DEF FetchInv, Shape
  <2>3. CASE Exhausted(f)
    BY <2>1, <2>3 DEF Exhausted
  <2>4. ASSUME NEW m \in Community, NEW nodes, Answer(f, m, nodes)
        PROVE  FetchInv'
    BY <2>1, <2>4 DEF Answer
  <2> QED
    BY <1>2, <2>2, <2>3, <2>4 DEF FetchStep
<1>3. CASE Refresh
  <2>1. BeginFetch(FALSE) /\ start' = start
    BY <1>3 DEF Refresh
  <2>2. PICK i : fetches' = fetches \cup
              {[id |-> i, byStart |-> FALSE, list |-> RetryOrder, live |-> active = None, next |-> 1]}
    BY <2>1 DEF BeginFetch
  <2> DEFINE n == [id |-> i, byStart |-> FALSE, list |-> RetryOrder, live |-> active = None, next |-> 1]
  <2>3. Shape(n) /\ n.byStart = FALSE
    BY DEF Shape
  <2>4. fetches' = fetches \cup {n}
    BY <2>2
  <2> HIDE DEF n
  <2>5. \A f \in fetches' : Shape(f)
    BY <2>3, <2>4 DEF FetchInv
  <2> QED
    BY <2>1, <2>3, <2>4, <2>5 DEF FetchInv, Shape
<1>4. CASE Listening
  <2>1. \A f \in fetches : ~f.byStart
    BY <1>4 DEF Listening, FetchInv
  <2>2. fetches' = fetches \/ (BeginFetch(TRUE) /\ start' = "fetch")
    BY <1>4 DEF Listening, endpoints
  <2>3. start = "listen"
    BY <1>4 DEF Listening
  <2> QED
    BY <1>1, <2>1, <2>2, <2>3, FetchBegun
<1>5. CASE CoreReady
  <2>1. \A f \in fetches : ~f.byStart
    BY <1>5 DEF CoreReady, FetchInv
  <2>2. fetches' = fetches \/ BeginFetch(FALSE)
    BY <1>5 DEF CoreReady, endpoints
  <2>3. start = "ready"
    BY <1>5 DEF CoreReady
  <2> QED
    BY <1>1, <2>1, <2>2, <2>3, FetchBegun
<1>6. CASE Start \/ OpenStore \/ OpenSwarm \/ StartFails \/ StartGivesUp \/ Stop \/ StopStep
  BY <1>1, <1>6 DEF Start, OpenStore, OpenSwarm, StartFails, StartGivesUp, Stop, StopStep,
                    SwarmDestroyed, StoreClosed, StopFails, endpoints, Await
<1>7. CASE \E i \in SelectionId, x \in Community : BeginSelection(i, x)
  BY <1>1, <1>7 DEF BeginSelection, endpoints
<1>8. CASE \E s \in selections : SelectionStep(s)
  BY <1>1, <1>8 DEF SelectionStep, Select, Move, SelectionFails, endpoints
<1>9. CASE UNCHANGED vars
  BY <1>1, <1>9 DEF vars, endpoints
<1> QED
  BY <1>2, <1>3, <1>4, <1>5, <1>6, <1>7, <1>8, <1>9 DEF Next, StartStep

LEMMA OpenStepKeeps ==
    ASSUME FetchInv, OpenInv, [Next]_vars
    PROVE  OpenInv'
<1> USE DEF Await, Settled
<1>1. ASSUME UNCHANGED <<overlapped, start, store, swarm, timers, stop>>
      PROVE  OpenInv'
  BY <1>1 DEF OpenInv
<1>2. ASSUME NEW f \in fetches, FetchStep(f)
      PROVE  OpenInv'
  <2>1. f.byStart => start = "fetch"
    BY DEF FetchInv
  <2>2. CASE NoAnswer(f)
    BY <1>1, <2>2 DEF NoAnswer, resources, given
  <2>3. CASE Exhausted(f)
    BY <2>1, <2>3 DEF Exhausted, StartWithoutKey, OpenInv, resources, given
  <2>4. ASSUME NEW m \in Community, NEW nodes, Answer(f, m, nodes)
        PROVE  OpenInv'
    BY <2>1, <2>4 DEF Answer, StartWithKey, OpenInv, resources, given
  <2> QED
    BY <1>2, <2>2, <2>3, <2>4 DEF FetchStep
<1>3. CASE Start \/ OpenStore \/ OpenSwarm
  BY <1>3 DEF Start, OpenStore, OpenSwarm, OpenInv, resources, given
<1>4. CASE Listening
  <2>1. start = "listen"
    BY <1>4 DEF Listening
  <2>2. \/ start' \in {"ready", "fetch"} /\ UNCHANGED <<overlapped, store, swarm, timers, stop>>
        \/ start' = "done" /\ UNCHANGED <<overlapped, store, swarm, stop>>
    BY <1>4 DEF Listening, StartWithKey, StartWithoutKey, resources, given
  <2> QED
    BY <2>1, <2>2 DEF OpenInv
<1>5. CASE CoreReady
  BY <1>5 DEF CoreReady, OpenInv, given
<1>6. CASE StartFails \/ StartGivesUp
  BY <1>6 DEF StartFails, StartGivesUp, BeginStop, OpenInv, resources, given
<1>7. CASE Stop
  BY <1>7 DEF Stop, BeginStop, OpenInv
<1>8. CASE StopStep
  BY <1>8 DEF StopStep, SwarmDestroyed, StoreClosed, StopFails, OpenInv, given
<1>9. CASE Refresh \/ UNCHANGED vars
  BY <1>1, <1>9 DEF Refresh, vars, resources, given
<1>10. CASE \E i \in SelectionId, x \in Community : BeginSelection(i, x)
  BY <1>1, <1>10 DEF BeginSelection, resources, given
<1>11. CASE \E s \in selections : SelectionStep(s)
  BY <1>1, <1>11 DEF SelectionStep, Select, Move, SelectionFails, resources, given
<1> QED
  BY <1>2, <1>3, <1>4, <1>5, <1>6, <1>7, <1>8, <1>9, <1>10, <1>11 DEF Next, StartStep

\* When stop is not called while start is under way, what has ended leaves nothing open.
THEOREM StopAlwaysReleases == Spec => []OrderlyStopReleases
<1>1. Init => FetchInv /\ OpenInv
  BY DEF Init, FetchInv, OpenInv, Await
<1>2. FetchInv /\ OpenInv /\ [Next]_vars => (FetchInv /\ OpenInv)'
  BY FetchStepKeeps, OpenStepKeeps
<1>3. FetchInv /\ OpenInv => OrderlyStopReleases
  BY DEF OpenInv, OrderlyStopReleases, StopReleases
<1> QED
  BY <1>1, <1>2, <1>3, PTL DEF Spec
=============================================================================
