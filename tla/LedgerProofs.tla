---------------------------- MODULE LedgerProofs ----------------------------
(***************************************************************************)
(* Proofs about Ledger, for every set of members, every boundary and every *)
(* set of candidate transfers.  LedgerInv is the inductive invariant of    *)
(* the control flow; OutcomeInv, proved from it, says what the loops have  *)
(* computed so far in terms of the rules that have no loop.  The           *)
(* properties TLC checks on MCLedger follow from the two.  The recursive   *)
(* definitions (Balance, Applied) are reasoned about through a minimal     *)
(* counterexample: a set of subsets of a finite set has a minimal member.  *)
(***************************************************************************)
EXTENDS Ledger, FiniteSetTheorems, WellFoundedInduction, TLAPS

----------------------------------------------------------------------------
(***************************************************************************)
(* Type correctness.                                                       *)
(***************************************************************************)

\* Posting a transfer keeps balances a function from members to whole minutes.
LEMMA PostType ==
    ASSUME NEW b \in [Member -> Int], NEW t \in Candidates
    PROVE  Post(b, t) \in [Member -> Int]
  BY CandidatesAreTransfers DEF Post, Posting, Transfer

\* The ids of candidate transfers are transfer ids.
LEMMA IdsType ==
    ASSUME NEW T \in SUBSET Candidates
    PROVE  Ids(T) \subseteq TransferId
  BY CandidatesAreTransfers DEF Ids, Transfer

\* Every step of applyTransfers keeps its accumulators well typed.
LEMMA TypeStep == TypeOK /\ [Next]_vars => TypeOK'
<1> SUFFICES ASSUME TypeOK, [Next]_vars PROVE TypeOK'
  OBVIOUS
<1> USE DEF TypeOK, Reasons
<1>1. CASE ReadTransfer
  BY <1>1 DEF ReadTransfer
<1>2. CASE RefuseTransfer
  BY <1>2 DEF RefuseTransfer, Throw
<1>3. CASE BeginScan
  BY <1>3 DEF BeginScan
<1>4. CASE RefuseBatch
  BY <1>4 DEF RefuseBatch, Throw
<1>5. CASE ScanNext
  <2>1. PICK t \in byId \ scanned :
            /\ SetAsideReversal(t) \/ RejectOverLimit(t) \/ AdmitSettlement(t)
            /\ scanned' = scanned \cup {t}
    BY <1>5 DEF ScanNext
  <2>2. UNCHANGED <<stage, todo, byId, visiting, deferred, known, progressed>>
    BY <1>5 DEF ScanNext
  <2>3. CASE SetAsideReversal(t)
    BY <2>1, <2>2, <2>3 DEF SetAsideReversal
  <2>4. CASE RejectOverLimit(t)
    BY <2>1, <2>2, <2>4 DEF RejectOverLimit
  <2>5. CASE AdmitSettlement(t)
    BY <2>1, <2>2, <2>5, PostType DEF AdmitSettlement, Accept
  <2>6. QED
    BY <2>1, <2>3, <2>4, <2>5
<1>6. CASE FinishScan
  <2>1. Ids(accepted) \subseteq TransferId
    BY IdsType
  <2>2. QED
    BY <1>6, <2>1 DEF FinishScan, BeginPass
<1>7. CASE VisitReversal
  <2>1. PICK t \in visiting :
            /\ ApplyReversal(t) \/ DeferReversal(t)
            /\ visiting' = visiting \ {t}
    BY <1>7 DEF VisitReversal
  <2>2. UNCHANGED <<stage, todo, byId, scanned, rejected, known>>
    BY <1>7 DEF VisitReversal
  <2>3. CASE ApplyReversal(t)
    BY <2>1, <2>2, <2>3, PostType DEF ApplyReversal, Accept
  <2>4. CASE DeferReversal(t)
    BY <2>1, <2>2, <2>4 DEF DeferReversal
  <2>5. QED
    BY <2>1, <2>3, <2>4
<1>8. CASE NextPass
  <2>1. Ids(accepted) \subseteq TransferId
    BY IdsType
  <2>2. QED
    BY <1>8, <2>1 DEF NextPass, BeginPass
<1>9. CASE RejectDeferred
  BY <1>9 DEF RejectDeferred
<1>10. CASE UNCHANGED vars
  BY <1>10 DEF vars
<1>11. QED
  BY <1>1, <1>2, <1>3, <1>4, <1>5, <1>6, <1>7, <1>8, <1>9, <1>10 DEF Next

\* The accumulators of applyTransfers always have their declared types.
THEOREM LedgerTypeCorrect == Spec => []TypeOK
<1>1. ASSUME Init PROVE TypeOK
  <2>1. balances \in [Member -> Int]
    BY <1>1 DEF Init
  <2>2. todo \subseteq Candidates
    BY <1>1 DEF Init
  <2>3. QED
    BY <1>1, <2>1, <2>2 DEF Init, TypeOK
<1>2. QED
  BY <1>1, TypeStep, PTL DEF Spec

----------------------------------------------------------------------------
(***************************************************************************)
(* The inductive invariant.  The properties speak of the accepted set      *)
(* alone; to be preserved they need where every other transfer is: not yet *)
(* scanned, refused, waiting in this round or deferred to the next.        *)
(***************************************************************************)

\* Nothing is posted before the whole batch has been read and checked.
NothingPosted ==
    stage \in {"read", "failed"} =>
        /\ scanned = {} /\ accepted = {} /\ rejected = {}
        /\ balances = [m \in Member |-> 0]

\* What was read is readable and has one transfer per id, and a batch that is being
\* applied has valid corrections.
BatchChecked ==
    /\ \A t \in byId : Readable(t)
    /\ \A t, u \in byId : t.id = u.id => t = u
    /\ stage \notin {"read", "failed"} => ValidReversals(byId)

\* Refused so far: settlements, for the boundary.
RefusedSettlements ==
    \A r \in rejected : ~IsReversal(r.transfer) /\ r.reason = "minimum-balance"

\* During the scan, exactly the scanned settlements are decided.
ScanDecided ==
    stage = "scan" =>
        /\ accepted \cup RejectedTransfers = Ordinary(scanned)
        /\ accepted \cap RejectedTransfers = {}
        /\ RefusedSettlements

\* During a round, every transfer is decided, waiting or deferred, and only one of these.
PassDecided ==
    stage = "pass" =>
        /\ accepted \cup RejectedTransfers \cup visiting \cup deferred = byId
        /\ accepted \cap RejectedTransfers = {}
        /\ (accepted \cup RejectedTransfers) \cap (visiting \cup deferred) = {}
        /\ visiting \cap deferred = {}
        /\ \A t \in visiting \cup deferred : IsReversal(t)
        /\ RefusedSettlements

\* The snapshot of the round: a subset of what is accepted, all of it until the round
\* applies a correction, and no deferred correction undoes a member of it.
SnapshotSound ==
    stage = "pass" =>
        /\ known \subseteq Ids(accepted)
        /\ ~progressed => known = Ids(accepted)
        /\ \A t \in deferred : t.reverses \notin known

LedgerInv ==
    /\ TypeOK
    /\ NothingPosted
    /\ BatchChecked
    /\ ScanDecided
    /\ PassDecided
    /\ SnapshotSound
    /\ BoundaryHonoured
    /\ CorrectionsFollowOriginals
    /\ EveryTransferDecided

\* Admitting a settlement that does not cross the boundary leaves every member at or
\* above it: the recipient by the check, the provider because it gains.
LEMMA AdmitKeepsBoundary ==
    ASSUME NEW b \in [Member -> Int], NEW t \in Candidates, TermsOK(t),
           \A m \in Member : b[m] >= MinimumBalance,
           ~CrossesMinimum(t, b)
    PROVE  \A m \in Member : Post(b, t)[m] >= MinimumBalance
<1>1. t.minutes \in Int /\ t.minutes > 0 /\ t.recipient \in Member
  BY CandidatesAreTransfers DEF TermsOK, Transfer
<1>2. b[t.recipient] - t.minutes >= MinimumBalance
  BY <1>1, LedgerConstants DEF CrossesMinimum
<1>3. TAKE m \in Member
<1>4. b[m] \in Int /\ MinimumBalance \in Int
  BY LedgerConstants
<1>5. Post(b, t)[m] = b[m] + Posting(t, m)
  BY DEF Post
<1>6. QED
  BY <1>1, <1>2, <1>4, <1>5 DEF Posting

\* The refusals of a set of transfers for one reason.
Refusals(T, why) == {[transfer |-> t, reason |-> why] : t \in T}

\* Pushing those refusals onto rejectedTransfers refuses exactly those transfers.
LEMMA RefusalsUnion ==
    ASSUME NEW R, NEW T, NEW why
    PROVE  {r.transfer : r \in R \cup Refusals(T, why)} = {r.transfer : r \in R} \cup T
<1>1. \A t \in T : \E r \in Refusals(T, why) : r.transfer = t
  <2>1. TAKE t \in T
  <2>2. [transfer |-> t, reason |-> why] \in Refusals(T, why)
    BY DEF Refusals
  <2>3. [transfer |-> t, reason |-> why].transfer = t
    OBVIOUS
  <2>4. QED
    BY <2>2, <2>3
<1>2. \A r \in Refusals(T, why) : r.transfer \in T
  BY DEF Refusals
<1> DEFINE new == Refusals(T, why)
<1> HIDE DEF new
<1>3. {r.transfer : r \in new} = T
  BY <1>1, <1>2 DEF new
<1>4. {r.transfer : r \in R \cup new} = {r.transfer : r \in R} \cup {r.transfer : r \in new}
  OBVIOUS
<1>5. QED
  BY <1>3, <1>4 DEF new

\* The invariant holds when the derivation starts.
LEMMA InvInit == Init => LedgerInv
<1> SUFFICES ASSUME Init PROVE LedgerInv
  OBVIOUS
<1>1. TypeOK
  <2>1. balances \in [Member -> Int] /\ todo \subseteq Candidates
    BY DEF Init
  <2>2. QED
    BY <2>1 DEF Init, TypeOK
<1>2. QED
  BY <1>1 DEF Init, LedgerInv, NothingPosted, BatchChecked, ScanDecided, PassDecided,
     SnapshotSound, BoundaryHonoured, CorrectionsFollowOriginals, EveryTransferDecided

\* Reading one transfer.
LEMMA InvReadTransfer == LedgerInv /\ ReadTransfer => LedgerInv'
<1> SUFFICES ASSUME LedgerInv, ReadTransfer PROVE LedgerInv'
  OBVIOUS
<1>1. TypeOK'
  BY TypeStep DEF LedgerInv, Next
<1>2. PICK t \in todo : Readable(t) /\ ~Conflicting(t) /\ byId' = byId \cup {t}
  BY DEF ReadTransfer
<1>3. BatchChecked'
  BY <1>2 DEF ReadTransfer, LedgerInv, BatchChecked, Conflicting
<1>4. /\ NothingPosted' /\ ScanDecided' /\ PassDecided' /\ SnapshotSound'
      /\ BoundaryHonoured' /\ EveryTransferDecided' /\ CorrectionsFollowOriginals'
  BY DEF ReadTransfer, LedgerInv, NothingPosted, ScanDecided, PassDecided, SnapshotSound,
     BoundaryHonoured, EveryTransferDecided, CorrectionsFollowOriginals
<1>5. QED
  BY <1>1, <1>3, <1>4 DEF LedgerInv

\* A thrown error leaves every accumulator as it was.
LEMMA InvThrow == LedgerInv /\ stage = "read" /\ Throw => LedgerInv'
<1> SUFFICES ASSUME LedgerInv, stage = "read", Throw PROVE LedgerInv'
  OBVIOUS
<1>1. TypeOK'
  BY DEF LedgerInv, TypeOK, Throw
<1>2. QED
  BY <1>1 DEF Throw, LedgerInv, NothingPosted, BatchChecked, ScanDecided, PassDecided,
     SnapshotSound, BoundaryHonoured, EveryTransferDecided, CorrectionsFollowOriginals

\* The batch passed its checks and the scan begins with nothing posted.
LEMMA InvBeginScan == LedgerInv /\ BeginScan => LedgerInv'
<1> SUFFICES ASSUME LedgerInv, BeginScan PROVE LedgerInv'
  OBVIOUS
<1>1. TypeOK'
  BY TypeStep DEF LedgerInv, Next
<1>2. BatchChecked'
  BY DEF BeginScan, LedgerInv, BatchChecked
<1>3. ScanDecided'
  BY DEF BeginScan, LedgerInv, NothingPosted, ScanDecided, RejectedTransfers,
     Ordinary, RefusedSettlements
<1>4. BoundaryHonoured'
  BY LedgerConstants DEF BeginScan, LedgerInv, NothingPosted, BoundaryHonoured
<1>5. /\ NothingPosted' /\ PassDecided' /\ SnapshotSound' /\ EveryTransferDecided'
      /\ CorrectionsFollowOriginals'
  BY DEF BeginScan, LedgerInv, NothingPosted, PassDecided, SnapshotSound,
     EveryTransferDecided, CorrectionsFollowOriginals
<1>6. QED
  BY <1>1, <1>2, <1>3, <1>4, <1>5 DEF LedgerInv

\* One element of the ordinary loop.
LEMMA InvScanNext == LedgerInv /\ ScanNext => LedgerInv'
<1> SUFFICES ASSUME LedgerInv, ScanNext PROVE LedgerInv'
  OBVIOUS
<1>1. TypeOK'
  BY TypeStep DEF LedgerInv, Next
<1>2. PICK t \in byId \ scanned :
          /\ SetAsideReversal(t) \/ RejectOverLimit(t) \/ AdmitSettlement(t)
          /\ scanned' = scanned \cup {t}
  BY DEF ScanNext
<1>3. /\ stage = "scan" /\ stage' = "scan"
      /\ UNCHANGED <<todo, byId, visiting, deferred, known, progressed>>
  BY DEF ScanNext
<1>4. TypeOK /\ t \in Candidates /\ TermsOK(t)
  BY <1>2 DEF LedgerInv, TypeOK, BatchChecked, Readable
<1>5. BatchChecked'
  BY <1>3 DEF LedgerInv, BatchChecked
<1>6. ScanDecided' /\ CorrectionsFollowOriginals' /\ BoundaryHonoured'
  <2>1. CASE SetAsideReversal(t)
    <3>1. UNCHANGED RejectedTransfers
      BY <2>1 DEF SetAsideReversal, RejectedTransfers
    <3>2. Ordinary(scanned') = Ordinary(scanned)
      BY <1>2, <2>1 DEF SetAsideReversal, Ordinary
    <3>3. QED
      BY <1>3, <2>1, <3>1, <3>2 DEF SetAsideReversal, LedgerInv, ScanDecided, RefusedSettlements,
         CorrectionsFollowOriginals, BoundaryHonoured
  <2>2. CASE RejectOverLimit(t)
    <3>1. RejectedTransfers' = RejectedTransfers \cup {t}
      <4>1. rejected' = rejected \cup Refusals({t}, "minimum-balance")
        BY <2>2 DEF RejectOverLimit, Refusals
      <4>2. QED
        BY <4>1, RefusalsUnion DEF RejectedTransfers
    <3>2. Ordinary(scanned') = Ordinary(scanned) \cup {t}
      BY <1>2, <2>2 DEF RejectOverLimit, Ordinary
    <3>3. t \notin accepted
      BY <1>2, <1>3 DEF LedgerInv, ScanDecided, Ordinary
    <3>4. RefusedSettlements'
      BY <1>3, <2>2 DEF RejectOverLimit, LedgerInv, ScanDecided, RefusedSettlements
    <3>5. ScanDecided'
      BY <1>3, <2>2, <3>1, <3>2, <3>3, <3>4 DEF RejectOverLimit, LedgerInv, ScanDecided
    <3>6. QED
      BY <1>3, <2>2, <3>5 DEF RejectOverLimit, LedgerInv, CorrectionsFollowOriginals, BoundaryHonoured
  <2>3. CASE AdmitSettlement(t)
    <3>1. accepted' = accepted \cup {t} /\ UNCHANGED RejectedTransfers
      BY <2>3 DEF AdmitSettlement, Accept, RejectedTransfers
    <3>2. Ordinary(scanned') = Ordinary(scanned) \cup {t}
      BY <1>2, <2>3 DEF AdmitSettlement, Ordinary
    <3>3. t \notin RejectedTransfers
      BY <1>2, <1>3 DEF LedgerInv, ScanDecided, Ordinary
    <3>4. RefusedSettlements'
      BY <1>3, <2>3 DEF AdmitSettlement, LedgerInv, ScanDecided, RefusedSettlements
    <3>5. ScanDecided'
      BY <1>3, <3>1, <3>2, <3>3, <3>4 DEF LedgerInv, ScanDecided
    <3>6. CorrectionsFollowOriginals'
      BY <2>3, <3>1 DEF AdmitSettlement, LedgerInv, CorrectionsFollowOriginals
    <3>7. \A m \in Member : balances[m] >= MinimumBalance
      BY <1>3 DEF LedgerInv, BoundaryHonoured
    <3>8. balances' = Post(balances, t) /\ ~CrossesMinimum(t, balances)
      BY <2>3 DEF AdmitSettlement, Accept
    <3>9. BoundaryHonoured'
      BY <1>4, <3>7, <3>8, AdmitKeepsBoundary DEF TypeOK, BoundaryHonoured
    <3>10. QED
      BY <3>5, <3>6, <3>9
  <2>4. QED
    BY <1>2, <2>1, <2>2, <2>3
<1>7. NothingPosted' /\ PassDecided' /\ SnapshotSound' /\ EveryTransferDecided'
  BY <1>3 DEF NothingPosted, PassDecided, SnapshotSound, EveryTransferDecided
<1>8. QED
  BY <1>1, <1>5, <1>6, <1>7 DEF LedgerInv

\* The head of a round: from settled state, either nothing is pending or a round begins
\* with a fresh snapshot.
LEMMA InvBeginPass ==
    ASSUME LedgerInv, NEW pending, BeginPass(pending), TypeOK',
           UNCHANGED <<todo, byId, scanned, accepted, rejected, balances>>,
           stage \in {"scan", "pass"},
           accepted \cup RejectedTransfers \cup pending = byId,
           accepted \cap RejectedTransfers = {},
           (accepted \cup RejectedTransfers) \cap pending = {},
           \A t \in pending : IsReversal(t),
           RefusedSettlements
    PROVE  LedgerInv'
<1>1. stage' = IF pending = {} THEN "done" ELSE "pass"
  BY DEF BeginPass
<1>2. UNCHANGED RejectedTransfers /\ RefusedSettlements'
  BY DEF RejectedTransfers, RefusedSettlements
<1>3. NothingPosted' /\ ScanDecided' /\ BoundaryHonoured'
  BY <1>1 DEF NothingPosted, ScanDecided, BoundaryHonoured
<1>4. BatchChecked' /\ CorrectionsFollowOriginals'
  BY DEF LedgerInv, BatchChecked, CorrectionsFollowOriginals
<1>5. PassDecided'
  BY <1>2 DEF BeginPass, PassDecided
<1>6. SnapshotSound'
  BY DEF BeginPass, SnapshotSound, Ids
<1>7. EveryTransferDecided'
  BY <1>1, <1>2 DEF EveryTransferDecided, RefusedSettlements
<1>8. QED
  BY <1>3, <1>4, <1>5, <1>6, <1>7 DEF LedgerInv

\* The scan is over: what is pending is every correction of the batch.
LEMMA InvFinishScan == LedgerInv /\ FinishScan => LedgerInv'
<1> SUFFICES ASSUME LedgerInv, FinishScan PROVE LedgerInv'
  OBVIOUS
<1>1. TypeOK'
  BY TypeStep DEF LedgerInv, Next
<1>2. accepted \cup RejectedTransfers = Ordinary(byId) /\ RefusedSettlements
  BY DEF FinishScan, LedgerInv, ScanDecided
<1>3. accepted \cap RejectedTransfers = {}
  BY DEF FinishScan, LedgerInv, ScanDecided
<1>4. Ordinary(byId) \subseteq byId /\ \A t \in byId \ Ordinary(byId) : IsReversal(t)
  BY DEF Ordinary
<1>5. /\ BeginPass(byId \ Ordinary(byId)) /\ stage = "scan"
      /\ UNCHANGED <<todo, byId, scanned, accepted, rejected, balances>>
  BY DEF FinishScan
<1>6. QED
  BY <1>1, <1>2, <1>3, <1>4, <1>5, InvBeginPass

\* A round that applied a correction is followed by another over what it deferred.
LEMMA InvNextPass == LedgerInv /\ NextPass => LedgerInv'
<1> SUFFICES ASSUME LedgerInv, NextPass PROVE LedgerInv'
  OBVIOUS
<1>1. TypeOK'
  BY TypeStep DEF LedgerInv, Next
<1>2. /\ BeginPass(deferred) /\ stage = "pass" /\ visiting = {}
      /\ UNCHANGED <<todo, byId, scanned, accepted, rejected, balances>>
  BY DEF NextPass
<1>3. PassDecided
  BY DEF LedgerInv
<1>4. QED
  BY <1>1, <1>2, <1>3, InvBeginPass DEF PassDecided

\* One correction of a round.  If its original's id is in the snapshot, the original is
\* accepted, and because ids are unique it is the transfer assertValidReversals compared.
LEMMA InvVisitReversal == LedgerInv /\ VisitReversal => LedgerInv'
<1> SUFFICES ASSUME LedgerInv, VisitReversal PROVE LedgerInv'
  OBVIOUS
<1>1. TypeOK'
  BY TypeStep DEF LedgerInv, Next
<1>2. PICK t \in visiting :
          /\ ApplyReversal(t) \/ DeferReversal(t)
          /\ visiting' = visiting \ {t}
  BY DEF VisitReversal
<1>3. /\ stage = "pass" /\ stage' = "pass"
      /\ UNCHANGED <<todo, byId, scanned, rejected, known>>
  BY DEF VisitReversal
<1>4. /\ UNCHANGED RejectedTransfers
      /\ RefusedSettlements => RefusedSettlements'
  BY <1>3 DEF RejectedTransfers, RefusedSettlements
<1>5. BatchChecked'
  BY <1>3 DEF LedgerInv, BatchChecked
<1>6. PassDecided /\ SnapshotSound /\ CorrectionsFollowOriginals /\ BatchChecked /\ TypeOK
  BY DEF LedgerInv
<1>7. t \in byId /\ IsReversal(t)
  BY <1>3, <1>6 DEF PassDecided
<1>8. PassDecided' /\ SnapshotSound' /\ CorrectionsFollowOriginals'
  <2>1. CASE ApplyReversal(t)
    <3>1. /\ accepted' = accepted \cup {t} /\ progressed' /\ deferred' = deferred
          /\ t.reverses \in known
      BY <2>1 DEF ApplyReversal, Accept
    <3>2. PassDecided'
      BY <1>2, <1>3, <1>4, <1>6, <3>1 DEF PassDecided
    <3>3. SnapshotSound'
      BY <1>3, <1>6, <3>1 DEF SnapshotSound, Ids
    <3>4. PICK o \in accepted : o.id = t.reverses
      BY <1>3, <1>6, <3>1 DEF SnapshotSound, Ids
    <3>5. PICK u \in byId : Undoes(t, u)
      BY <1>3, <1>6, <1>7 DEF BatchChecked, ValidReversals
    <3>6. o = u
      BY <1>6, <3>4, <3>5 DEF BatchChecked, Undoes, TypeOK
    <3>7. CorrectionsFollowOriginals'
      BY <1>6, <3>1, <3>4, <3>5, <3>6 DEF CorrectionsFollowOriginals
    <3>8. QED
      BY <3>2, <3>3, <3>7
  <2>2. CASE DeferReversal(t)
    <3>1. /\ UNCHANGED <<accepted, progressed>> /\ deferred' = deferred \cup {t}
          /\ t.reverses \notin known
      BY <2>2 DEF DeferReversal
    <3>2. PassDecided'
      BY <1>2, <1>3, <1>4, <1>6, <1>7, <3>1 DEF PassDecided
    <3>3. SnapshotSound'
      BY <1>3, <1>6, <3>1 DEF SnapshotSound, Ids
    <3>4. CorrectionsFollowOriginals'
      BY <1>6, <3>1 DEF CorrectionsFollowOriginals
    <3>5. QED
      BY <3>2, <3>3, <3>4
  <2>3. QED
    BY <1>2, <2>1, <2>2
<1>9. NothingPosted' /\ ScanDecided' /\ BoundaryHonoured' /\ EveryTransferDecided'
  BY <1>3 DEF NothingPosted, ScanDecided, BoundaryHonoured, EveryTransferDecided
<1>10. QED
  BY <1>1, <1>5, <1>8, <1>9 DEF LedgerInv

\* A round that applied nothing saw every accepted id in its snapshot, so what it
\* deferred undoes nothing that is accepted.
LEMMA InvRejectDeferred == LedgerInv /\ RejectDeferred => LedgerInv'
<1> SUFFICES ASSUME LedgerInv, RejectDeferred PROVE LedgerInv'
  OBVIOUS
<1>1. TypeOK'
  BY TypeStep DEF LedgerInv, Next
<1>2. /\ stage = "pass" /\ stage' = "done" /\ visiting = {} /\ ~progressed
      /\ rejected' = rejected \cup Refusals(deferred, "unaccepted-reversal")
      /\ UNCHANGED <<todo, byId, scanned, accepted, balances>>
  BY DEF RejectDeferred, Refusals
<1>3. RejectedTransfers' = RejectedTransfers \cup deferred
  BY <1>2, RefusalsUnion DEF RejectedTransfers
<1>4. PassDecided /\ SnapshotSound
  BY DEF LedgerInv
<1>5. /\ accepted \cup RejectedTransfers \cup deferred = byId
      /\ accepted \cap (RejectedTransfers \cup deferred) = {}
  BY <1>2, <1>4 DEF PassDecided
<1>6. \A t \in deferred : IsReversal(t) /\ \A o \in accepted : t.reverses # o.id
  BY <1>2, <1>4 DEF PassDecided, SnapshotSound, Ids
<1>7. \A r \in rejected : ~IsReversal(r.transfer) /\ r.reason = "minimum-balance"
  BY <1>2, <1>4 DEF PassDecided, RefusedSettlements
<1>8. \A r \in Refusals(deferred, "unaccepted-reversal") :
          r.transfer \in deferred /\ r.reason = "unaccepted-reversal"
  BY DEF Refusals
<1>9. EveryTransferDecided'
  <2>1. \A r \in rejected' :
            IF IsReversal(r.transfer)
            THEN /\ r.reason = "unaccepted-reversal"
                 /\ \A o \in accepted' : r.transfer.reverses # o.id
            ELSE r.reason = "minimum-balance"
    BY <1>2, <1>6, <1>7, <1>8
  <2>2. QED
    BY <1>2, <1>3, <1>5, <2>1 DEF EveryTransferDecided
<1>10. BatchChecked' /\ CorrectionsFollowOriginals'
  BY <1>2 DEF LedgerInv, BatchChecked, CorrectionsFollowOriginals
<1>11. NothingPosted' /\ ScanDecided' /\ BoundaryHonoured' /\ PassDecided' /\ SnapshotSound'
  BY <1>2 DEF NothingPosted, ScanDecided, BoundaryHonoured, PassDecided, SnapshotSound
<1>12. QED
  BY <1>1, <1>9, <1>10, <1>11 DEF LedgerInv

\* A step that changes nothing.
LEMMA InvStutter == LedgerInv /\ UNCHANGED vars => LedgerInv'
  BY DEF vars, LedgerInv, TypeOK, NothingPosted, BatchChecked, ScanDecided, PassDecided,
     SnapshotSound, RefusedSettlements, RejectedTransfers, BoundaryHonoured,
     CorrectionsFollowOriginals, EveryTransferDecided

\* LedgerInv is inductive: it holds in every state of every derivation.
THEOREM LedgerInvariant == Spec => []LedgerInv
<1>1. LedgerInv /\ [Next]_vars => LedgerInv'
  <2> SUFFICES ASSUME LedgerInv, [Next]_vars PROVE LedgerInv'
    OBVIOUS
  <2>1. CASE RefuseTransfer \/ RefuseBatch
    BY <2>1, InvThrow DEF RefuseTransfer, RefuseBatch
  <2>2. QED
    BY <2>1, InvReadTransfer, InvBeginScan, InvScanNext, InvFinishScan, InvVisitReversal,
       InvNextPass, InvRejectDeferred, InvStutter DEF Next
<1>2. QED
  BY InvInit, <1>1, PTL DEF Spec

\* wouldCrossMinimumBalance, which looks at one member and one transfer at a time,
\* keeps every member at or above the boundary for as long as settlements are admitted.
THEOREM BoundaryAlwaysHonoured == Spec => []BoundaryHonoured
<1>1. LedgerInv => BoundaryHonoured
  BY DEF LedgerInv
<1>2. QED
  BY LedgerInvariant, <1>1, PTL

\* No correction is ever applied without the accepted transfer it exactly undoes, although
\* assertValidReversals looked at the batch before anything was accepted.
THEOREM CorrectionsAlwaysFollowOriginals == Spec => []CorrectionsFollowOriginals
<1>1. LedgerInv => CorrectionsFollowOriginals
  BY DEF LedgerInv
<1>2. QED
  BY LedgerInvariant, <1>1, PTL

\* A finished derivation has decided every transfer once, and stopped at the fixpoint.
THEOREM FinishedDerivationDecidesAll == Spec => []EveryTransferDecided
<1>1. LedgerInv => EveryTransferDecided
  BY DEF LedgerInv
<1>2. QED
  BY LedgerInvariant, <1>1, PTL

----------------------------------------------------------------------------
(***************************************************************************)
(* Induction over finite sets and over numbers, as minimal                 *)
(* counterexamples.                                                        *)
(***************************************************************************)

\* A non-empty set of subsets of a finite set has a minimal member.
LEMMA MinimalSet ==
    ASSUME NEW S, IsFiniteSet(S), NEW C, C \subseteq SUBSET S, C # {}
    PROVE  \E T \in C : \A U \in C : U \subseteq T => U = T
<1>1. IsWellFoundedOn(StrictSubsetOrdering(S), SUBSET S)
  BY FS_StrictSubsetOrderingWellFounded, FS_FiniteSubsetsOfFinite
<1>2. PICK T \in C : \A U \in C : ~ (<<U, T>> \in StrictSubsetOrdering(S))
  BY <1>1, WFMin
<1> QED  BY <1>2 DEF StrictSubsetOrdering

\* A non-empty set of natural numbers has a least member.
LEMMA LeastNumber ==
    ASSUME NEW C, C \subseteq Nat, C # {}
    PROVE  \E n \in C : \A m \in C : n <= m
<1>1. PICK n \in C : \A m \in C : ~ (<<m, n>> \in OpToRel(<, Nat))
  BY NatLessThanWellFounded, WFMin
<1>2. \A p \in Nat \X Nat : p[1] < p[2] => p \in OpToRel(<, Nat)
  BY DEF OpToRel
<1>3. \A m \in C : <<m, n>> \in Nat \X Nat /\ <<m, n>>[1] = m /\ <<m, n>>[2] = n
  BY <1>1
<1>4. \A m \in C : ~ (m < n)
  BY <1>1, <1>2, <1>3
<1> QED  BY <1>4

----------------------------------------------------------------------------
(***************************************************************************)
(* Sums over a finite set, as the folds of the community modules compute   *)
(* them.                                                                   *)
(***************************************************************************)

\* The element that a fold takes from a set first.
Some(s) == CHOOSE x \in s : TRUE

\* F gives the sum of g over every set of D.
SumsOver(F, g, D) ==
    F = [s \in D |-> IF s = {} THEN 0 ELSE g[Some(s)] + F[s \ {Some(s)}]]

\* F gives the sum of g over every subset of A.
SumsTo(F, g, A) == SumsOver(F, g, SUBSET A)

\* The same, with everything a whole number.
SumTable(F, g, A) ==
    g \in [A -> Int] /\ F \in [SUBSET A -> Int] /\ SumsTo(F, g, A)

\* What a fold takes from a set is in it.
LEMMA SomeIn == \A s : s # {} => Some(s) \in s
BY DEF Some

\* The sums of the sets of one size follow from those of the smaller sets.
LEMMA SumsExist ==
    ASSUME NEW A, IsFiniteSet(A), NEW g, g \in [A -> Int]
    PROVE  \E F : SumTable(F, g, A)
<1> DEFINE Level(n) == {s \in SUBSET A : Cardinality(s) <= n}
           Has(n) == \E F \in [Level(n) -> Int] : SumsOver(F, g, Level(n))
           Bad == {n \in Nat : ~ Has(n)}
<1>1. \A s \in SUBSET A : IsFiniteSet(s) /\ Cardinality(s) \in Nat /\ Cardinality(s) <= Cardinality(A)
  BY FS_Subset, FS_CardinalityType
<1>2. \A s \in SUBSET A : s # {} =>
         /\ Some(s) \in A /\ s \ {Some(s)} \in SUBSET A
         /\ Cardinality(s \ {Some(s)}) = Cardinality(s) - 1
  BY <1>1, SomeIn, FS_RemoveElement
<1>3. Has(0)
  <2>1. \A s \in Level(0) : s = {}
    BY <1>1, FS_EmptySet
  <2>2. [s \in Level(0) |-> 0] \in [Level(0) -> Int]
    OBVIOUS
  <2>3. SumsOver([s \in Level(0) |-> 0], g, Level(0))
    BY <2>1 DEF SumsOver
  <2> QED  BY <2>2, <2>3
<1>4. ASSUME NEW n \in Nat, Has(n) PROVE Has(n + 1)
  <2>1. PICK F \in [Level(n) -> Int] : SumsOver(F, g, Level(n))
    BY <1>4
  <2> DEFINE G == [s \in Level(n + 1) |-> IF s = {} THEN 0 ELSE g[Some(s)] + F[s \ {Some(s)}]]
  <2>2. \A s \in Level(n + 1) : s # {} => s \ {Some(s)} \in Level(n) /\ Some(s) \in A
    BY <1>1, <1>2
  <2>3. Level(n) \subseteq Level(n + 1)
    BY <1>1
  <2> HIDE DEF Level
  <2>4. G \in [Level(n + 1) -> Int]
    BY <2>2
  <2>5. \A s \in Level(n) : G[s] = F[s]
    BY <2>1, <2>3 DEF SumsOver
  <2>6. SumsOver(G, g, Level(n + 1))
    BY <2>2, <2>5 DEF SumsOver
  <2> QED  BY <2>4, <2>6
<1> HIDE DEF Has
<1>5. Bad = {}
  <2> SUFFICES ASSUME Bad # {} PROVE FALSE
    OBVIOUS
  <2>1. PICK n \in Bad : \A k \in Bad : n <= k
    BY LeastNumber
  <2>2. n # 0 /\ n \in Nat
    BY <1>3, <2>1
  <2>3. n - 1 \in Nat /\ Has(n - 1)
    BY <2>1, <2>2
  <2>4. Has((n - 1) + 1)
    BY <1>4, <2>3
  <2>5. (n - 1) + 1 = n
    BY <2>2
  <2> QED  BY <2>1, <2>4, <2>5
<1>6. Cardinality(A) \in Nat /\ Level(Cardinality(A)) = SUBSET A
  BY <1>1
<1>7. Has(Cardinality(A))
  BY <1>5, <1>6
<1> QED  BY <1>6, <1>7 DEF Has, SumsTo, SumTable

\* The sum over A is a whole number, and the sum of nothing is 0.
LEMMA SumsTyped ==
    ASSUME NEW A, NEW g, NEW F, SumTable(F, g, A)
    PROVE  SumsTo(F, g, A) /\ F[A] \in Int /\ F[{}] = 0
<1>1. A \in SUBSET A /\ {} \in SUBSET A
  OBVIOUS
<1> QED  BY <1>1 DEF SumTable, SumsTo, SumsOver

\* It does not matter which element is added last.
LEMMA SumsStep ==
    ASSUME NEW A, IsFiniteSet(A), NEW g, NEW F, SumTable(F, g, A)
    PROVE  \A s, x : s \subseteq A /\ x \in s =>
              /\ F[s] = g[x] + F[s \ {x}]
              /\ g[x] \in Int /\ F[s \ {x}] \in Int
<1>0. g \in [A -> Int] /\ F \in [SUBSET A -> Int] /\ SumsTo(F, g, A)
  BY DEF SumTable
<1> DEFINE Bad == {s \in SUBSET A : \E x \in s : F[s] # g[x] + F[s \ {x}]}
<1> SUFFICES ASSUME Bad # {} PROVE FALSE
  BY <1>0
<1>1. PICK s \in Bad : \A u \in Bad : u \subseteq s => u = s
  <2>1. Bad \subseteq SUBSET A
    OBVIOUS
  <2> HIDE DEF Bad
  <2> QED  BY <2>1, MinimalSet
<1>2. PICK x \in s : F[s] # g[x] + F[s \ {x}]
  BY <1>1
<1> DEFINE y == Some(s)
<1>3. y \in s /\ s \in SUBSET A /\ F[s] = g[y] + F[s \ {y}]
  BY <1>0, <1>1, <1>2, SomeIn DEF SumsTo, SumsOver
<1> HIDE DEF y
<1>4. x # y
  BY <1>2, <1>3
<1>5. s \ {x} \notin Bad /\ s \ {y} \notin Bad
  BY <1>1, <1>2, <1>3
<1>6. F[s \ {y}] = g[x] + F[(s \ {y}) \ {x}]
  BY <1>2, <1>3, <1>4, <1>5
<1>7. F[s \ {x}] = g[y] + F[(s \ {y}) \ {x}]
  <2>1. (s \ {y}) \ {x} = (s \ {x}) \ {y}
    OBVIOUS
  <2> QED  BY <1>2, <1>3, <1>4, <1>5, <2>1
<1> DEFINE rest == F[(s \ {y}) \ {x}]
<1>8. /\ g[x] \in Int /\ g[y] \in Int /\ rest \in Int
      /\ F[s] \in Int /\ F[s \ {x}] \in Int /\ F[s \ {y}] \in Int
  <2>1. (s \ {y}) \ {x} \in SUBSET A /\ s \ {x} \in SUBSET A /\ s \ {y} \in SUBSET A /\ x \in A /\ y \in A
    BY <1>2, <1>3
  <2> QED  BY <1>0, <1>3, <2>1
<1>9. F[s] = g[y] + F[s \ {y}] /\ F[s \ {y}] = g[x] + rest /\ F[s \ {x}] = g[y] + rest
  BY <1>3, <1>6, <1>7
<1> HIDE DEF rest, Bad
<1>10. F[s] = g[x] + F[s \ {x}]
  BY <1>8, <1>9
<1> QED  BY <1>2, <1>10

\* The sum over a set depends on the values in the set alone.
LEMMA SumsAgree ==
    ASSUME NEW A, IsFiniteSet(A), NEW g, NEW F, SumsTo(F, g, A),
           NEW B, NEW h, NEW G, SumsTo(G, h, B),
           NEW D, D \subseteq A, D \subseteq B, \A x \in D : g[x] = h[x]
    PROVE  F[D] = G[D]
<1> DEFINE Bad == {s \in SUBSET D : F[s] # G[s]}
<1>1. IsFiniteSet(D)
  BY FS_Subset
<1>2. Bad = {}
  <2> SUFFICES ASSUME Bad # {} PROVE FALSE
    OBVIOUS
  <2>1. PICK s \in Bad : \A u \in Bad : u \subseteq s => u = s
    <3>1. Bad \subseteq SUBSET D
      OBVIOUS
    <3> HIDE DEF Bad
    <3> QED  BY <1>1, <3>1, MinimalSet
  <2>2. s \in SUBSET A /\ s \in SUBSET B /\ s \in SUBSET D
    BY <2>1
  <2>3. s # {}
    BY <2>1, <2>2 DEF SumsTo, SumsOver
  <2> DEFINE y == Some(s)
  <2>4. y \in s
    BY <2>3, SomeIn
  <2>5. F[s] = g[y] + F[s \ {y}] /\ G[s] = h[y] + G[s \ {y}]
    BY <2>2, <2>3 DEF SumsTo, SumsOver
  <2> HIDE DEF y
  <2>6. F[s \ {y}] = G[s \ {y}]
    BY <2>1, <2>2, <2>4
  <2>7. g[y] = h[y]
    BY <2>2, <2>4
  <2> QED  BY <2>1, <2>5, <2>6, <2>7
<1> QED  BY <1>2

----------------------------------------------------------------------------
(***************************************************************************)
(* The balance of a member: the sum of the postings of the accepted        *)
(* transfers.                                                              *)
(***************************************************************************)

\* What each transfer of A posts to the account of m.
PostingsTo(m, A) == [t \in A |-> Posting(t, m)]

\* A posting is a whole number of minutes.
LEMMA PostingType ==
    ASSUME NEW t \in Transfer, NEW m
    PROVE  Posting(t, m) \in Int
BY DEF Posting, Transfer

\* The recursion of MapThenSumSet, once it is known to have a solution.
LEMMA BalanceSums ==
    ASSUME NEW A, IsFiniteSet(A), A \subseteq Transfer, NEW m
    PROVE  \E F : SumTable(F, PostingsTo(m, A), A) /\ Balance(A, m) = F[A]
<1> DEFINE g == PostingsTo(m, A)
           Rec(F) == F = [s \in SUBSET A |->
                            IF s = {} THEN 0 ELSE Posting(Some(s), m) + F[s \ {Some(s)}]]
           G == CHOOSE F : Rec(F)
<1>1. g \in [A -> Int]
  BY PostingType DEF PostingsTo
<1>2. \A s \in SUBSET A : s # {} => g[Some(s)] = Posting(Some(s), m)
  BY SomeIn DEF PostingsTo
<1> HIDE DEF g
<1>3. PICK F : SumTable(F, g, A)
  BY <1>1, SumsExist
<1>4. SumsTo(F, g, A)
  BY <1>3, SumsTyped
<1>5. Rec(F)
  BY <1>2, <1>4 DEF SumsTo, SumsOver
<1>6. Rec(G)
  <2> HIDE DEF Rec
  <2> QED  BY <1>5
<1>7. SumsTo(G, g, A)
  <2> HIDE DEF G
  <2> QED  BY <1>2, <1>6 DEF SumsTo, SumsOver
<1>8. Balance(A, m) = G[A]
  BY DEF Balance, MapThenSumSet, MapThenFoldSet, Some
<1> HIDE DEF G
<1>9. F[A] = G[A]
  BY <1>4, <1>7, SumsAgree
<1> QED  BY <1>3, <1>8, <1>9 DEF g

\* The balance of a member is a whole number of minutes.
LEMMA BalanceType ==
    ASSUME NEW A, IsFiniteSet(A), A \subseteq Transfer, NEW m
    PROVE  Balance(A, m) \in Int
BY BalanceSums, SumsTyped

\* Before anything is accepted every account is empty.
LEMMA BalanceOfNone == \A m : Balance({}, m) = 0
<1> SUFFICES ASSUME NEW m PROVE Balance({}, m) = 0
  OBVIOUS
<1>1. PICK F : SumTable(F, PostingsTo(m, {}), {}) /\ Balance({}, m) = F[{}]
  BY FS_EmptySet, BalanceSums
<1> QED  BY <1>1, SumsTyped

\* A transfer adds its posting to a balance, whatever was accepted before it.
LEMMA BalanceWithOneMore ==
    ASSUME NEW A, IsFiniteSet(A), A \subseteq Transfer, NEW t \in Transfer, t \notin A, NEW m
    PROVE  Balance(A \cup {t}, m) = Balance(A, m) + Posting(t, m)
<1> DEFINE B == A \cup {t}
           g == PostingsTo(m, A)
           h == PostingsTo(m, B)
<1>1. IsFiniteSet(B) /\ B \subseteq Transfer
  BY FS_AddElement
<1>2. /\ \A x \in A : g[x] = h[x]
      /\ h[t] = Posting(t, m) /\ t \in B /\ B \ {t} = A /\ A \subseteq B
  BY DEF PostingsTo
<1>3. PICK F : SumTable(F, g, A) /\ Balance(A, m) = F[A]
  BY BalanceSums
<1> HIDE DEF B
<1>4. PICK G : SumTable(G, h, B) /\ Balance(B, m) = G[B]
  BY <1>1, BalanceSums
<1> HIDE DEF g, h
<1>5. G[B] = h[t] + G[B \ {t}] /\ h[t] \in Int /\ G[B \ {t}] \in Int
  BY <1>1, <1>2, <1>4, SumsStep
<1>6. F[A] = G[A]
  BY <1>2, <1>3, <1>4, SumsAgree, SumsTyped
<1>7. Balance(B, m) = Posting(t, m) + Balance(A, m) /\ Balance(A, m) \in Int /\ Posting(t, m) \in Int
  BY <1>2, <1>3, <1>4, <1>5, <1>6
<1> QED  BY <1>7 DEF B

----------------------------------------------------------------------------
(***************************************************************************)
(* The balances of all members: what applyTransfers creates and destroys.  *)
(***************************************************************************)

\* What all accounts hold together.
CreditOf(b) == MapThenSumSet(LAMBDA m : b[m], Member)

\* The recursion of MapThenSumSet over the members.
LEMMA CreditSums ==
    ASSUME NEW b, b \in [Member -> Int]
    PROVE  \E F : SumTable(F, b, Member) /\ CreditOf(b) = F[Member]
<1> DEFINE G == CHOOSE F : SumsTo(F, b, Member)
<1>1. IsFiniteSet(Member)
  BY LedgerConstants
<1>2. PICK F : SumTable(F, b, Member)
  BY <1>1, SumsExist
<1>3. SumsTo(F, b, Member)
  BY <1>2, SumsTyped
<1>4. SumsTo(G, b, Member)
  BY <1>3
<1>5. CreditOf(b) = G[Member]
  BY DEF CreditOf, MapThenSumSet, MapThenFoldSet, Some, SumsTo, SumsOver
<1> HIDE DEF G
<1>6. F[Member] = G[Member]
  BY <1>1, <1>3, <1>4, SumsAgree
<1> QED  BY <1>2, <1>5, <1>6

\* Empty accounts hold nothing together.
LEMMA NoCredit ==
    ASSUME NEW b, b = [m \in Member |-> 0]
    PROVE  CreditOf(b) = 0
<1> DEFINE Z == [s \in SUBSET Member |-> 0]
<1>1. b \in [Member -> Int] /\ IsFiniteSet(Member)
  BY LedgerConstants
<1>2. PICK F : SumTable(F, b, Member) /\ CreditOf(b) = F[Member]
  BY <1>1, CreditSums
<1>3. SumsTo(Z, b, Member)
  <2>1. \A s \in SUBSET Member : s # {} => b[Some(s)] = 0 /\ s \ {Some(s)} \in SUBSET Member
    BY SomeIn
  <2> DEFINE Y == [s \in SUBSET Member |-> IF s = {} THEN 0 ELSE b[Some(s)] + Z[s \ {Some(s)}]]
  <2>2. ASSUME NEW s \in SUBSET Member PROVE Y[s] = 0
    <3>1. CASE s = {}
      BY <3>1
    <3>2. CASE s # {}
      <4>1. b[Some(s)] = 0 /\ Z[s \ {Some(s)}] = 0
        BY <2>1, <3>2
      <4> QED  BY <3>2, <4>1
    <3> QED  BY <3>1, <3>2
  <2>3. Z = Y
    BY <2>2
  <2> QED  BY <2>3 DEF SumsTo, SumsOver
<1>4. Z[Member] = 0
  OBVIOUS
<1> HIDE DEF Z
<1>5. F[Member] = Z[Member]
  BY <1>1, <1>2, <1>3, SumsAgree, SumsTyped
<1> QED  BY <1>2, <1>4, <1>5

\* A sum with two of its terms taken out.
LEMMA SumsOfTwo ==
    ASSUME NEW A, IsFiniteSet(A), NEW g, NEW F, SumTable(F, g, A),
           NEW p \in A, NEW r \in A, p # r
    PROVE  /\ F[A] = (g[p] + g[r]) + F[(A \ {p}) \ {r}]
           /\ g[p] \in Int /\ g[r] \in Int /\ F[(A \ {p}) \ {r}] \in Int
<1> DEFINE B == A \ {p}
<1>1. A \subseteq A /\ B \subseteq A /\ r \in B
  OBVIOUS
<1>2. F[A] = g[p] + F[A \ {p}] /\ g[p] \in Int
  BY <1>1, SumsStep
<1>3. F[B] = g[r] + F[B \ {r}] /\ g[r] \in Int /\ F[B \ {r}] \in Int
  <2> HIDE DEF B
  <2> QED  BY <1>1, SumsStep
<1> QED  BY <1>2, <1>3

\* What the provider gains the recipient loses.
LEMMA PostConserves ==
    ASSUME NEW b \in [Member -> Int], NEW t \in Transfer, t.provider # t.recipient
    PROVE  CreditOf(Post(b, t)) = CreditOf(b)
<1> DEFINE c == Post(b, t)
           p == t.provider
           r == t.recipient
           Others == (Member \ {p}) \ {r}
<1>1. /\ p \in Member /\ r \in Member /\ p # r /\ t.minutes \in Int
      /\ c \in [Member -> Int] /\ c[p] = b[p] + t.minutes /\ c[r] = b[r] - t.minutes
      /\ \A m \in Others : b[m] = c[m]
  BY DEF Post, Posting, Transfer
<1>2. IsFiniteSet(Member)
  BY LedgerConstants
<1> HIDE DEF c, p, r
<1>3. Others \subseteq Member
  BY <1>1
<1>4. PICK F : SumTable(F, b, Member) /\ CreditOf(b) = F[Member]
  BY CreditSums
<1>5. PICK G : SumTable(G, c, Member) /\ CreditOf(c) = G[Member]
  BY <1>1, CreditSums
<1>6. /\ F[Member] = (b[p] + b[r]) + F[Others]
      /\ b[p] \in Int /\ b[r] \in Int /\ F[Others] \in Int
  BY <1>1, <1>2, <1>4, SumsOfTwo
<1>7. G[Member] = (c[p] + c[r]) + G[Others]
  BY <1>1, <1>2, <1>5, SumsOfTwo
<1> HIDE DEF Others
<1>8. F[Others] = G[Others]
  BY <1>1, <1>2, <1>3, <1>4, <1>5, SumsAgree, SumsTyped
<1>9. F[Member] = G[Member]
  BY <1>1, <1>6, <1>7, <1>8
<1> QED  BY <1>4, <1>5, <1>9 DEF c

----------------------------------------------------------------------------
(***************************************************************************)
(* The rule without a loop: settlements are admitted in the order of their *)
(* ids, and the corrections of what is applied are applied.                *)
(***************************************************************************)

\* There is one way to admit settlements in the order of their ids.
LEMMA AdmissionUnique ==
    ASSUME NEW T, IsFiniteSet(T), T \subseteq Transfer,
           NEW A, A \subseteq T, AdmittedInIdOrder(T, A),
           NEW B, B \subseteq T, AdmittedInIdOrder(T, B)
    PROVE  A = B
<1> DEFINE Differ == {t \in T : ~ (t \in A <=> t \in B)}
           Belows == {Below(T, t) : t \in Differ}
<1> SUFFICES ASSUME Differ # {} PROVE FALSE
  OBVIOUS
<1>1. Belows \subseteq SUBSET T /\ Belows # {}
  BY DEF Below
<1> HIDE DEF Belows
<1>2. PICK low \in Belows : \A u \in Belows : u \subseteq low => u = low
  BY <1>1, MinimalSet
<1>3. PICK t \in Differ : low = Below(T, t)
  BY <1>2 DEF Belows
<1>4. \A u \in T : u.id \in Int
  BY LedgerConstants DEF Transfer
<1>5. ASSUME NEW u \in Differ, u.id < t.id PROVE FALSE
  <2>1. Below(T, u) \subseteq Below(T, t)
    BY <1>3, <1>4, <1>5 DEF Below
  <2>2. u \in Below(T, t) /\ u \notin Below(T, u)
    BY <1>4, <1>5 DEF Below
  <2>3. Below(T, u) \in Belows
    BY <1>5 DEF Belows
  <2> QED  BY <1>2, <1>3, <2>1, <2>2, <2>3
<1>6. Below(A, t) = Below(B, t)
  BY <1>5 DEF Below
<1>7. t \in A <=> t \in B
  BY <1>3, <1>6 DEF AdmittedInIdOrder
<1> QED  BY <1>3, <1>7

\* Admitted, which chooses such a set, chooses the one that was found.
LEMMA AdmittedIs ==
    ASSUME NEW T, IsFiniteSet(T), T \subseteq Transfer,
           NEW A, A \subseteq Ordinary(T), AdmittedInIdOrder(Ordinary(T), A)
    PROVE  Admitted(T) = A
<1> DEFINE O == Ordinary(T)
<1>1. IsFiniteSet(O) /\ O \subseteq Transfer
  BY FS_Subset DEF Ordinary
<1>2. Admitted(T) \in SUBSET O /\ AdmittedInIdOrder(O, Admitted(T))
  <2> HIDE DEF O
  <2>1. \E C \in SUBSET O : AdmittedInIdOrder(O, C)
    BY DEF O
  <2>2. Admitted(T) = CHOOSE C \in SUBSET O : AdmittedInIdOrder(O, C)
    BY DEF Admitted, O
  <2> QED  BY <2>1, <2>2
<1> HIDE DEF O
<1>3. A \subseteq O /\ AdmittedInIdOrder(O, A) /\ Admitted(T) \subseteq O
  BY <1>2 DEF O
<1> QED  BY <1>1, <1>2, <1>3, AdmissionUnique

\* A set of transfers of T that every correction of one of them is in.
Closed(C, T) == \A t \in T : t.reverses \in Ids(C) => t \in C

\* One round over the corrections: those of what is already applied are applied.
Round(C, T) == C \cup {t \in T : t.reverses \in Ids(C)}

\* F gives what is applied after each number of rounds.
RoundsTo(F, T, n) ==
    F = [i \in 0 .. n |-> IF i = 0 THEN Admitted(T) ELSE Round(F[i - 1], T)]

\* The recursion of Applied has a solution.
LEMMA RoundsExist ==
    ASSUME NEW T
    PROVE  \A n \in Nat : \E F : RoundsTo(F, T, n)
<1> DEFINE Has(n) == \E F : RoundsTo(F, T, n)
           Bad == {n \in Nat : ~ Has(n)}
<1>1. Has(0)
  <2>1. RoundsTo([i \in 0 .. 0 |-> Admitted(T)], T, 0)
    BY DEF RoundsTo
  <2> QED  BY <2>1
<1>2. ASSUME NEW n \in Nat, Has(n) PROVE Has(n + 1)
  <2>1. PICK F : RoundsTo(F, T, n)
    BY <1>2
  <2> DEFINE G == [i \in 0 .. n + 1 |-> IF i = 0 THEN Admitted(T) ELSE Round(F[i - 1], T)]
  <2>2. \A i \in 0 .. n : G[i] = F[i]
    BY <2>1 DEF RoundsTo
  <2>3. \A i \in 1 .. n + 1 : G[i - 1] = F[i - 1]
    <3>1. \A i \in 1 .. n + 1 : i - 1 \in 0 .. n
      OBVIOUS
    <3> HIDE DEF G
    <3> QED  BY <2>2, <3>1
  <2> DEFINE H == [i \in 0 .. n + 1 |-> IF i = 0 THEN Admitted(T) ELSE Round(G[i - 1], T)]
  <2>4. \A i \in 0 .. n + 1 : G[i] = H[i]
    <3>1. \A i \in 0 .. n + 1 : i # 0 => i \in 1 .. n + 1
      OBVIOUS
    <3>2. \A i \in 0 .. n + 1 : G[i] = IF i = 0 THEN Admitted(T) ELSE Round(F[i - 1], T)
      OBVIOUS
    <3>3. \A i \in 0 .. n + 1 : H[i] = IF i = 0 THEN Admitted(T) ELSE Round(G[i - 1], T)
      OBVIOUS
    <3> HIDE DEF G, H
    <3> QED  BY <2>3, <3>1, <3>2, <3>3
  <2>5. G = H
    BY <2>4
  <2>6. RoundsTo(G, T, n + 1)
    BY <2>5 DEF RoundsTo
  <2> QED  BY <2>6
<1> HIDE DEF Has
<1>3. Bad = {}
  <2> SUFFICES ASSUME Bad # {} PROVE FALSE
    OBVIOUS
  <2>1. PICK n \in Bad : \A k \in Bad : n <= k
    BY LeastNumber
  <2>2. n # 0 /\ n \in Nat
    BY <1>1, <2>1
  <2>3. n - 1 \in Nat /\ Has(n - 1)
    BY <2>1, <2>2
  <2>4. Has((n - 1) + 1)
    BY <1>2, <2>3
  <2>5. (n - 1) + 1 = n
    BY <2>2
  <2> QED  BY <2>1, <2>4, <2>5
<1> QED  BY <1>3 DEF Has

\* The rounds end with the least closed set that has the admitted settlements.
LEMMA RoundsClose ==
    ASSUME NEW T, IsFiniteSet(T), Admitted(T) \subseteq T,
           NEW F, RoundsTo(F, T, Cardinality(T))
    PROVE  LET L == F[Cardinality(T)]
           IN  /\ Admitted(T) \subseteq L /\ L \subseteq T /\ Closed(L, T)
               /\ \A C : Admitted(T) \subseteq C /\ Closed(C, T) => L \subseteq C
<1> DEFINE N == Cardinality(T)
<1>1. N \in Nat
  BY FS_CardinalityType
<1>2. F[0] = Admitted(T) /\ \A i \in 0 .. N : i # 0 => F[i] = Round(F[i - 1], T)
  BY <1>1 DEF RoundsTo
<1> DEFINE Good(i) ==
             /\ Admitted(T) \subseteq F[i] /\ F[i] \subseteq T
             /\ \A C : Admitted(T) \subseteq C /\ Closed(C, T) => F[i] \subseteq C
             /\ Closed(F[i], T) \/ Cardinality(F[i]) >= i
           Bad == {i \in 0 .. N : ~ Good(i)}
<1>3. Good(0)
  <2>1. IsFiniteSet(Admitted(T))
    BY FS_Subset
  <2>2. Cardinality(Admitted(T)) \in Nat
    BY <2>1, FS_CardinalityType
  <2> QED  BY <1>2, <2>2
<1>4. ASSUME NEW i \in 0 .. N, i # 0, Good(i - 1) PROVE Good(i)
  <2> DEFINE D == F[i - 1]
  <2>1. F[i] = Round(D, T)
    BY <1>2, <1>4
  <2>2. Admitted(T) \subseteq D /\ D \subseteq T
    BY <1>4
  <2>3. \A C : Admitted(T) \subseteq C /\ Closed(C, T) => D \subseteq C
    BY <1>4
  <2>4. Closed(D, T) \/ Cardinality(D) >= i - 1
    BY <1>4
  <2> HIDE DEF D
  <2>5. Admitted(T) \subseteq F[i] /\ F[i] \subseteq T /\ D \subseteq F[i]
    BY <2>1, <2>2 DEF Round
  <2>6. ASSUME NEW C, Admitted(T) \subseteq C, Closed(C, T) PROVE F[i] \subseteq C
    <3>1. D \subseteq C
      BY <2>3, <2>6
    <3>2. Ids(D) \subseteq Ids(C)
      BY <3>1 DEF Ids
    <3> QED  BY <2>1, <2>6, <3>1, <3>2 DEF Round, Closed
  <2>7. Closed(F[i], T) \/ Cardinality(F[i]) >= i
    <3>1. CASE Closed(D, T)
      <4>1. F[i] = D
        BY <2>1, <3>1 DEF Round, Closed
      <4> QED  BY <3>1, <4>1
    <3>2. CASE ~ Closed(D, T)
      <4>1. PICK t \in T : t.reverses \in Ids(D) /\ t \notin D
        BY <3>2 DEF Closed
      <4>2. t \in F[i]
        BY <2>1, <4>1 DEF Round
      <4>3. IsFiniteSet(D) /\ IsFiniteSet(F[i])
        BY <2>2, <2>5, FS_Subset
      <4>4. D \cup {t} \subseteq F[i]
        BY <2>5, <4>2
      <4>5. Cardinality(D \cup {t}) = Cardinality(D) + 1 /\ Cardinality(D) \in Nat
        BY <4>1, <4>3, FS_AddElement, FS_CardinalityType
      <4>6. Cardinality(D \cup {t}) <= Cardinality(F[i]) /\ Cardinality(F[i]) \in Nat
        BY <4>3, <4>4, FS_Subset, FS_CardinalityType
      <4>7. Cardinality(D) >= i - 1
        BY <2>4, <3>2
      <4> QED  BY <1>1, <4>5, <4>6, <4>7
    <3> QED  BY <3>1, <3>2
  <2> QED  BY <2>5, <2>6, <2>7
<1> HIDE DEF Good
<1>5. Bad = {}
  <2> SUFFICES ASSUME Bad # {} PROVE FALSE
    OBVIOUS
  <2>0. Bad \subseteq Nat
    BY <1>1
  <2>1. PICK n \in Bad : \A k \in Bad : n <= k
    <3> HIDE DEF Bad
    <3> QED  BY <2>0, LeastNumber
  <2>2. n # 0 /\ n \in 0 .. N
    BY <1>3, <2>1
  <2>3. n - 1 \in 0 .. N /\ n - 1 < n
    BY <1>1, <2>2
  <2>4. Good(n - 1)
    BY <2>1, <2>3
  <2> QED  BY <1>4, <2>1, <2>2, <2>4
<1>6. Good(N)
  BY <1>1, <1>5
<1>7. Closed(F[N], T)
  <2>1. CASE Cardinality(F[N]) >= N
    <3>1. F[N] \subseteq T
      BY <1>6 DEF Good
    <3>2. Cardinality(F[N]) <= N /\ Cardinality(F[N]) \in Nat /\ (N = Cardinality(F[N]) => T = F[N])
      BY <3>1, FS_Subset, FS_CardinalityType
    <3>3. F[N] = T
      BY <1>1, <2>1, <3>2
    <3> QED  BY <3>3 DEF Closed
  <2> QED  BY <1>6, <2>1 DEF Good
<1> QED  BY <1>6, <1>7 DEF Good

\* Applied is the least closed set, so whoever computes one by other steps has computed it.
LEMMA AppliedIs ==
    ASSUME NEW T, IsFiniteSet(T), Admitted(T) \subseteq T,
           NEW A, Admitted(T) \subseteq A, A \subseteq T, Closed(A, T),
           \A C \in SUBSET T : Admitted(T) \subseteq C /\ Closed(C, T) => A \subseteq C
    PROVE  A = Applied(T)
<1> DEFINE N == Cardinality(T)
           G == CHOOSE F : RoundsTo(F, T, N)
<1>1. N \in Nat
  BY FS_CardinalityType
<1>2. \E F : RoundsTo(F, T, N)
  BY <1>1, RoundsExist
<1>3. RoundsTo(G, T, N)
  BY <1>2
<1>4. Applied(T) = G[N]
  BY DEF Applied, RoundsTo, Round, Ids
<1> HIDE DEF G
<1>5. /\ Admitted(T) \subseteq G[N] /\ G[N] \subseteq T /\ Closed(G[N], T)
      /\ \A C : Admitted(T) \subseteq C /\ Closed(C, T) => G[N] \subseteq C
  BY <1>3, RoundsClose
<1>6. A \subseteq G[N]
  BY <1>5
<1>7. G[N] \subseteq A
  BY <1>5
<1> QED  BY <1>4, <1>6, <1>7

----------------------------------------------------------------------------
(***************************************************************************)
(* What the loops have computed so far.                                    *)
(***************************************************************************)

\* The batch is finite, and checked for double settlement once it is scanned.
BatchFinite ==
    /\ IsFiniteSet(byId)
    /\ stage \notin {"read", "failed"} => UniqueSettlements(byId)

\* The balances are what the accepted transfers sum to.
BalancesSummed == balances = [m \in Member |-> Balance(accepted, m)]

\* The scan has admitted what it passed by the rule that has no loop.
ScanAdmits ==
    stage = "scan" =>
        /\ \A t \in scanned, u \in byId \ scanned : t.id < u.id
        /\ AdmittedInIdOrder(Ordinary(scanned), accepted)

\* The rounds apply nothing but what the admitted settlements bring with them.
PassApplies ==
    stage \in {"pass", "done"} =>
        /\ Admitted(byId) \subseteq accepted
        /\ \A C \in SUBSET byId : Admitted(byId) \subseteq C /\ Closed(C, byId) => accepted \subseteq C

\* A batch was refused for a reason that is in the transfers and not in their order.
FailsForAll == stage = "failed" => ~Coherent(byId \cup todo)

\* What the loops of applyTransfers have computed, at every step of them.
OutcomeInv == BatchFinite /\ BalancesSummed /\ ScanAdmits /\ PassApplies /\ FailsForAll

\* What the batch and the accumulators are made of.
LEMMA BatchTyped ==
    ASSUME LedgerInv, IsFiniteSet(byId)
    PROVE  /\ byId \subseteq Transfer /\ accepted \subseteq Transfer /\ accepted \subseteq byId
           /\ IsFiniteSet(accepted)
           /\ balances \in [Member -> Int]
           /\ \A t \in byId : t.id \in Int /\ t.recipient \in Member /\ t.minutes \in Int
                              /\ t.provider # t.recipient
<1>1. byId \subseteq Transfer /\ accepted \subseteq byId /\ balances \in [Member -> Int]
  BY CandidatesAreTransfers DEF LedgerInv, TypeOK
<1>2. \A t \in byId : t.provider # t.recipient
  BY DEF LedgerInv, BatchChecked, Readable, TermsOK
<1>3. \A t \in byId : t.id \in Int /\ t.recipient \in Member /\ t.minutes \in Int
  BY <1>1, LedgerConstants DEF Transfer
<1>4. IsFiniteSet(accepted)
  BY <1>1, FS_Subset
<1> QED  BY <1>1, <1>2, <1>3, <1>4

\* acceptTransfer posts what it accepts.
LEMMA AcceptSums ==
    ASSUME LedgerInv, IsFiniteSet(byId), BalancesSummed, NEW t \in byId, t \notin accepted, Accept(t)
    PROVE  BalancesSummed'
<1>1. /\ accepted \subseteq Transfer /\ IsFiniteSet(accepted) /\ t \in Transfer
  BY BatchTyped
<1>2. \A m \in Member : Balance(accepted \cup {t}, m) = Balance(accepted, m) + Posting(t, m)
  BY <1>1, BalanceWithOneMore
<1>3. accepted' = accepted \cup {t} /\ balances' = Post(balances, t)
  BY DEF Accept
<1>4. \A m \in Member : balances[m] = Balance(accepted, m)
  BY DEF BalancesSummed
<1>5. balances' = [m \in Member |-> balances[m] + Posting(t, m)]
  BY <1>3 DEF Post
<1>6. balances' = [m \in Member |-> Balance(accepted \cup {t}, m)]
  BY <1>2, <1>4, <1>5
<1> QED  BY <1>3, <1>6 DEF BalancesSummed

\* An empty derivation has computed nothing.
LEMMA OutcomeInit == Init => OutcomeInv
<1> SUFFICES ASSUME Init PROVE OutcomeInv
  OBVIOUS
<1>1. BatchFinite
  BY FS_EmptySet DEF Init, BatchFinite
<1>2. BalancesSummed
  BY BalanceOfNone DEF Init, BalancesSummed
<1>3. ScanAdmits /\ PassApplies /\ FailsForAll
  BY DEF Init, ScanAdmits, PassApplies, FailsForAll
<1> QED  BY <1>1, <1>2, <1>3 DEF OutcomeInv

\* Reading one more transfer keeps the batch finite and posts nothing.
LEMMA OutcomeRead == LedgerInv /\ OutcomeInv /\ ReadTransfer => OutcomeInv'
<1> SUFFICES ASSUME LedgerInv, OutcomeInv, ReadTransfer PROVE OutcomeInv'
  OBVIOUS
<1>1. PICK t \in todo : byId' = byId \cup {t}
  BY DEF ReadTransfer
<1>2. stage = "read" /\ stage' = "read" /\ UNCHANGED <<accepted, balances>>
  BY DEF ReadTransfer
<1>3. IsFiniteSet(byId \cup {t})
  BY FS_AddElement DEF OutcomeInv, BatchFinite
<1>4. BatchFinite'
  BY <1>1, <1>2, <1>3 DEF BatchFinite
<1>5. BalancesSummed'
  BY <1>2 DEF OutcomeInv, BalancesSummed
<1>6. ScanAdmits' /\ PassApplies' /\ FailsForAll'
  BY <1>2 DEF ScanAdmits, PassApplies, FailsForAll
<1> QED  BY <1>4, <1>5, <1>6 DEF OutcomeInv

\* What one order of delivery refuses is refused in every order.
LEMMA OutcomeThrow == LedgerInv /\ OutcomeInv /\ (RefuseTransfer \/ RefuseBatch) => OutcomeInv'
<1> SUFFICES ASSUME LedgerInv, OutcomeInv, RefuseTransfer \/ RefuseBatch PROVE OutcomeInv'
  OBVIOUS
<1>1. stage' = "failed" /\ UNCHANGED <<todo, byId, accepted, balances>>
  BY DEF RefuseTransfer, RefuseBatch, Throw
<1>2. BatchFinite' /\ BalancesSummed'
  BY <1>1 DEF OutcomeInv, BatchFinite, BalancesSummed
<1>3. ScanAdmits' /\ PassApplies'
  BY <1>1 DEF ScanAdmits, PassApplies
<1>4. ~ Coherent(byId \cup todo)
  <2>1. CASE RefuseTransfer
    <3>1. PICK t \in todo : ~ Readable(t) \/ Conflicting(t)
      BY <2>1 DEF RefuseTransfer
    <3>2. t \in byId \cup todo /\ (Conflicting(t) => \E u \in byId \cup todo : u.id = t.id /\ u # t)
      BY <3>1 DEF Conflicting
    <3> QED  BY <3>1, <3>2 DEF Coherent
  <2>2. CASE RefuseBatch
    <3>1. byId \cup todo = byId /\ ~ (UniqueSettlements(byId) /\ ValidReversals(byId))
      BY <2>2 DEF RefuseBatch
    <3> QED  BY <3>1 DEF Coherent
  <2> QED  BY <2>1, <2>2
<1>5. FailsForAll'
  BY <1>1, <1>4 DEF FailsForAll
<1> QED  BY <1>2, <1>3, <1>5 DEF OutcomeInv

\* The scan begins with nothing admitted.
LEMMA OutcomeBeginScan == LedgerInv /\ OutcomeInv /\ BeginScan => OutcomeInv'
<1> SUFFICES ASSUME LedgerInv, OutcomeInv, BeginScan PROVE OutcomeInv'
  OBVIOUS
<1>1. /\ stage = "read" /\ stage' = "scan" /\ UniqueSettlements(byId)
      /\ UNCHANGED <<byId, scanned, accepted, balances>>
  BY DEF BeginScan
<1>2. scanned = {} /\ accepted = {}
  BY <1>1 DEF LedgerInv, NothingPosted
<1>3. BatchFinite' /\ BalancesSummed'
  BY <1>1 DEF OutcomeInv, BatchFinite, BalancesSummed
<1>4. ScanAdmits'
  BY <1>1, <1>2 DEF ScanAdmits, AdmittedInIdOrder, Ordinary
<1>5. PassApplies' /\ FailsForAll'
  BY <1>1 DEF PassApplies, FailsForAll
<1> QED  BY <1>3, <1>4, <1>5 DEF OutcomeInv

\* The loop compares with the balances of what it has accepted so far, which are all the
\* accepted settlements of smaller ids.
LEMMA OutcomeScanNext == LedgerInv /\ OutcomeInv /\ ScanNext => OutcomeInv'
<1> SUFFICES ASSUME LedgerInv, OutcomeInv, ScanNext PROVE OutcomeInv'
  OBVIOUS
<1>1. PICK t \in byId \ scanned :
         /\ IsFirst(t, byId \ scanned)
         /\ SetAsideReversal(t) \/ RejectOverLimit(t) \/ AdmitSettlement(t)
         /\ scanned' = scanned \cup {t}
  BY DEF ScanNext
<1>2. stage = "scan" /\ stage' = "scan" /\ UNCHANGED byId
  BY DEF ScanNext
<1>3. IsFiniteSet(byId) /\ UniqueSettlements(byId) /\ BalancesSummed
  BY <1>2 DEF OutcomeInv, BatchFinite
<1>4. /\ scanned \subseteq byId /\ accepted \subseteq byId /\ accepted \subseteq Ordinary(scanned)
      /\ \A u \in byId : u.id \in Int /\ u.recipient \in Member /\ u.minutes \in Int
  BY <1>2, <1>3, BatchTyped DEF LedgerInv, TypeOK, ScanDecided
<1>5. \A u \in scanned : u.id < t.id
  BY <1>1, <1>2 DEF OutcomeInv, ScanAdmits
<1>6. t \notin accepted /\ \A u \in accepted : u.id < t.id
  BY <1>1, <1>4, <1>5 DEF Ordinary
<1>7. Below(accepted, t) = accepted
  BY <1>6 DEF Below
<1>8. balances[t.recipient] = Balance(accepted, t.recipient) /\ balances[t.recipient] \in Int
  BY <1>1, <1>3, <1>4, BatchTyped DEF BalancesSummed
<1>9. MinimumBalance \in Int
  BY LedgerConstants
<1>10. \A u \in scanned', v \in byId' \ scanned' : u.id < v.id
  <2>1. \A v \in byId \ scanned : v # t => t.id < v.id
    <3>1. \A v \in byId \ scanned : t.id <= v.id
      BY <1>1 DEF IsFirst
    <3>2. \A v \in byId : v.id = t.id => v = t
      BY <1>1 DEF LedgerInv, BatchChecked
    <3> QED  BY <1>1, <1>4, <3>1, <3>2
  <2>2. \A u \in scanned, v \in byId \ scanned : u.id < v.id
    BY <1>2 DEF OutcomeInv, ScanAdmits
  <2> QED  BY <1>1, <1>2, <2>1, <2>2
<1>11. AdmittedInIdOrder(Ordinary(scanned), accepted)
  BY <1>2 DEF OutcomeInv, ScanAdmits
<1>12. AdmittedInIdOrder(Ordinary(scanned'), accepted') /\ BalancesSummed'
  <2>1. CASE SetAsideReversal(t)
    <3>1. Ordinary(scanned') = Ordinary(scanned) /\ UNCHANGED <<accepted, balances>>
      BY <1>1, <2>1 DEF SetAsideReversal, Ordinary
    <3> QED  BY <1>3, <1>11, <3>1 DEF BalancesSummed
  <2>2. CASE RejectOverLimit(t)
    <3>1. Ordinary(scanned') = Ordinary(scanned) \cup {t} /\ UNCHANGED <<accepted, balances>>
      BY <1>1, <2>2 DEF RejectOverLimit, Ordinary
    <3>2. ~ (Balance(Below(accepted, t), t.recipient) - t.minutes >= MinimumBalance)
      BY <1>1, <1>4, <1>7, <1>8, <1>9, <2>2 DEF RejectOverLimit, CrossesMinimum
    <3>3. AdmittedInIdOrder(Ordinary(scanned) \cup {t}, accepted)
      BY <1>6, <1>11, <3>2 DEF AdmittedInIdOrder
    <3> QED  BY <1>3, <3>1, <3>3 DEF BalancesSummed
  <2>3. CASE AdmitSettlement(t)
    <3>1. Ordinary(scanned') = Ordinary(scanned) \cup {t} /\ accepted' = accepted \cup {t}
      BY <1>1, <2>3 DEF AdmitSettlement, Accept, Ordinary
    <3>2. Balance(Below(accepted, t), t.recipient) - t.minutes >= MinimumBalance
      BY <1>1, <1>4, <1>7, <1>8, <1>9, <2>3 DEF AdmitSettlement, CrossesMinimum
    <3>3. \A u \in Ordinary(scanned) \cup {t} : Below(accepted \cup {t}, u) = Below(accepted, u)
      <4>1. \A u \in Ordinary(scanned) \cup {t} : ~ (t.id < u.id)
        BY <1>1, <1>4, <1>5 DEF Ordinary
      <4> QED  BY <4>1 DEF Below
    <3>4. AdmittedInIdOrder(Ordinary(scanned) \cup {t}, accepted \cup {t})
      <4> SUFFICES ASSUME NEW u \in Ordinary(scanned) \cup {t}
                   PROVE  u \in accepted \cup {t} <=>
                            Balance(Below(accepted \cup {t}, u), u.recipient) - u.minutes >= MinimumBalance
        BY DEF AdmittedInIdOrder
      <4>1. Below(accepted \cup {t}, u) = Below(accepted, u)
        BY <3>3
      <4>2. CASE u = t
        BY <3>2, <4>1, <4>2
      <4>3. CASE u # t
        <5>1. u \in accepted <=> Balance(Below(accepted, u), u.recipient) - u.minutes >= MinimumBalance
          BY <1>11, <4>3 DEF AdmittedInIdOrder
        <5> QED  BY <4>1, <4>3, <5>1
      <4> QED  BY <4>2, <4>3
    <3>5. BalancesSummed'
      BY <1>1, <1>3, <1>6, <2>3, AcceptSums DEF AdmitSettlement
    <3> QED  BY <3>1, <3>4, <3>5
  <2> QED  BY <1>1, <2>1, <2>2, <2>3
<1>13. ScanAdmits'
  BY <1>10, <1>12 DEF ScanAdmits
<1>14. BatchFinite' /\ PassApplies' /\ FailsForAll'
  BY <1>2, <1>3 DEF BatchFinite, PassApplies, FailsForAll
<1> QED  BY <1>12, <1>13, <1>14 DEF OutcomeInv

\* At the end of the scan the accepted settlements are the admitted ones.
LEMMA OutcomeFinishScan == LedgerInv /\ OutcomeInv /\ FinishScan => OutcomeInv'
<1> SUFFICES ASSUME LedgerInv, OutcomeInv, FinishScan PROVE OutcomeInv'
  OBVIOUS
<1>1. /\ stage = "scan" /\ scanned = byId /\ stage' \in {"pass", "done"}
      /\ UNCHANGED <<byId, accepted, balances>>
  BY DEF FinishScan, BeginPass
<1>2. IsFiniteSet(byId) /\ UniqueSettlements(byId) /\ BalancesSummed
  BY <1>1 DEF OutcomeInv, BatchFinite
<1>3. accepted \subseteq Ordinary(byId) /\ AdmittedInIdOrder(Ordinary(byId), accepted)
  BY <1>1 DEF LedgerInv, ScanDecided, OutcomeInv, ScanAdmits
<1>4. Admitted(byId) = accepted
  BY <1>2, <1>3, BatchTyped, AdmittedIs
<1>5. PassApplies'
  BY <1>1, <1>4 DEF PassApplies
<1>6. BatchFinite' /\ BalancesSummed' /\ ScanAdmits' /\ FailsForAll'
  BY <1>1, <1>2 DEF BatchFinite, BalancesSummed, ScanAdmits, FailsForAll
<1> QED  BY <1>5, <1>6 DEF OutcomeInv

\* A round applies a correction only where every closed set would.
LEMMA OutcomeVisit == LedgerInv /\ OutcomeInv /\ VisitReversal => OutcomeInv'
<1> SUFFICES ASSUME LedgerInv, OutcomeInv, VisitReversal PROVE OutcomeInv'
  OBVIOUS
<1>1. PICK t \in visiting : ApplyReversal(t) \/ DeferReversal(t)
  BY DEF VisitReversal
<1>2. stage = "pass" /\ stage' = "pass" /\ UNCHANGED byId
  BY DEF VisitReversal
<1>3. IsFiniteSet(byId) /\ UniqueSettlements(byId) /\ BalancesSummed /\ PassApplies
  BY <1>2 DEF OutcomeInv, BatchFinite
<1>4. t \in byId /\ t \notin accepted /\ known \subseteq Ids(accepted)
  BY <1>2 DEF LedgerInv, PassDecided, SnapshotSound
<1>5. BalancesSummed' /\ PassApplies'
  <2>1. CASE DeferReversal(t)
    BY <1>2, <1>3, <2>1 DEF DeferReversal, BalancesSummed, PassApplies
  <2>2. CASE ApplyReversal(t)
    <3>1. Accept(t) /\ t.reverses \in known
      BY <2>2 DEF ApplyReversal
    <3>2. BalancesSummed'
      BY <1>3, <1>4, <3>1, AcceptSums
    <3>3. accepted' = accepted \cup {t}
      BY <3>1 DEF Accept
    <3>4. ASSUME NEW C \in SUBSET byId, Admitted(byId) \subseteq C, Closed(C, byId)
          PROVE  accepted \cup {t} \subseteq C
      <4>1. accepted \subseteq C
        BY <1>2, <1>3, <3>4 DEF PassApplies
      <4>2. Ids(accepted) \subseteq Ids(C)
        BY <4>1 DEF Ids
      <4>3. t \in C
        BY <1>4, <3>1, <3>4, <4>2 DEF Closed
      <4> QED  BY <4>1, <4>3
    <3>5. PassApplies'
      BY <1>2, <1>3, <3>3, <3>4 DEF PassApplies
    <3> QED  BY <3>2, <3>5
  <2> QED  BY <1>1, <2>1, <2>2
<1>6. BatchFinite' /\ ScanAdmits' /\ FailsForAll'
  BY <1>2, <1>3 DEF BatchFinite, ScanAdmits, FailsForAll
<1> QED  BY <1>5, <1>6 DEF OutcomeInv

\* Between two rounds, and after the last, nothing is posted.
LEMMA OutcomeEndPass == LedgerInv /\ OutcomeInv /\ (NextPass \/ RejectDeferred) => OutcomeInv'
<1> SUFFICES ASSUME LedgerInv, OutcomeInv, NextPass \/ RejectDeferred PROVE OutcomeInv'
  OBVIOUS
<1>1. /\ stage = "pass" /\ stage' \in {"pass", "done"}
      /\ UNCHANGED <<byId, accepted, balances>>
  BY DEF NextPass, BeginPass, RejectDeferred
<1>2. BatchFinite' /\ BalancesSummed' /\ PassApplies'
  BY <1>1 DEF OutcomeInv, BatchFinite, BalancesSummed, PassApplies
<1>3. ScanAdmits' /\ FailsForAll'
  BY <1>1 DEF ScanAdmits, FailsForAll
<1> QED  BY <1>2, <1>3 DEF OutcomeInv

\* A step that changes nothing.
LEMMA OutcomeStutter == OutcomeInv /\ UNCHANGED vars => OutcomeInv'
BY DEF vars, OutcomeInv, BatchFinite, BalancesSummed, ScanAdmits, PassApplies, FailsForAll

\* The scan of applyTransfers computes the admission rule and its rounds of corrections
\* nothing beyond the least closed set, at every step of every derivation.
THEOREM OutcomeInvariant == Spec => [](LedgerInv /\ OutcomeInv)
<1>1. LedgerInv /\ OutcomeInv /\ [Next]_vars => OutcomeInv'
  BY OutcomeRead, OutcomeThrow, OutcomeBeginScan, OutcomeScanNext, OutcomeFinishScan,
     OutcomeVisit, OutcomeEndPass, OutcomeStutter DEF Next
<1> QED  BY <1>1, OutcomeInit, LedgerInvariant, PTL DEF Spec

\* However a finite batch was delivered, ordered and repeated, applyTransfers ends with the
\* transfers and the balances that the loop-free rule gives for the batch, and refuses a batch
\* only if every delivery of it is refused.
THEOREM OutcomeAlwaysIndependent == Spec => []OutcomeIndependentOfDelivery
<1>1. ASSUME LedgerInv, OutcomeInv PROVE OutcomeIndependentOfDelivery
  <2>1. ASSUME stage = "done"
        PROVE  /\ Coherent(byId) /\ accepted = Applied(byId)
               /\ balances = [m \in Member |-> Balance(accepted, m)]
    <3>1. Coherent(byId)
      BY <1>1, <2>1 DEF LedgerInv, BatchChecked, OutcomeInv, BatchFinite, Coherent
    <3>2. IsFiniteSet(byId) /\ accepted \subseteq byId
      BY <1>1, BatchTyped DEF OutcomeInv, BatchFinite
    <3>3. /\ Admitted(byId) \subseteq accepted
          /\ \A C \in SUBSET byId : Admitted(byId) \subseteq C /\ Closed(C, byId) => accepted \subseteq C
      BY <1>1, <2>1 DEF OutcomeInv, PassApplies
    <3>4. Closed(accepted, byId)
      <4>1. EveryTransferDecided
        BY <1>1 DEF LedgerInv
      <4> SUFFICES ASSUME NEW t \in byId, t \notin accepted, t.reverses \in Ids(accepted)
                   PROVE  FALSE
        BY DEF Closed
      <4>2. PICK r \in rejected : r.transfer = t
        BY <2>1, <4>1 DEF EveryTransferDecided, RejectedTransfers
      <4>3. PICK o \in accepted : t.reverses = o.id
        BY DEF Ids
      <4>4. IsReversal(t)
        <5>1. o.id \in TransferId
          BY <1>1, <3>2, CandidatesAreTransfers DEF LedgerInv, TypeOK, Transfer
        <5> QED  BY <4>3, <5>1, LedgerConstants DEF IsReversal
      <4> QED  BY <2>1, <4>1, <4>2, <4>3, <4>4 DEF EveryTransferDecided
    <3>5. accepted = Applied(byId)
      BY <3>2, <3>3, <3>4, AppliedIs
    <3> QED  BY <1>1, <3>1, <3>5 DEF OutcomeInv, BalancesSummed
  <2>2. ASSUME stage = "failed" PROVE ~ Coherent(byId \cup todo)
    BY <1>1, <2>2 DEF OutcomeInv, FailsForAll
  <2> QED  BY <2>1, <2>2 DEF OutcomeIndependentOfDelivery
<1> QED  BY <1>1, OutcomeInvariant, PTL

\* acceptTransfer posts what one member gains as another one's loss, so the balances of all
\* members add up to nothing at every step of applyTransfers.
THEOREM CreditAlwaysConserved == Spec => []CreditConserved
<1>1. Init => CreditConserved
  <2>1. ASSUME Init PROVE CreditOf(balances) = 0
    BY <2>1, NoCredit DEF Init
  <2> QED  BY <2>1 DEF CreditConserved, CreditOf, MapThenSumSet, MapThenFoldSet
<1>2. ASSUME LedgerInv, CreditConserved, [Next]_vars PROVE CreditConserved'
  <2>1. CASE UNCHANGED balances
    BY <1>2, <2>1 DEF CreditConserved, MapThenSumSet, MapThenFoldSet
  <2>2. ASSUME NEW t \in byId, Accept(t) PROVE CreditConserved'
    <3>1. balances \in [Member -> Int] /\ t \in Transfer
      BY <1>2, CandidatesAreTransfers DEF LedgerInv, TypeOK
    <3>2. t.provider # t.recipient
      BY <1>2 DEF LedgerInv, BatchChecked, Readable, TermsOK
    <3>3. CreditOf(Post(balances, t)) = CreditOf(balances)
      BY <3>1, <3>2, PostConserves
    <3>4. balances' = Post(balances, t)
      BY <2>2 DEF Accept
    <3>5. CreditOf(balances) = 0
      BY <1>2 DEF CreditConserved, CreditOf, MapThenSumSet, MapThenFoldSet
    <3>6. CreditOf(balances') = 0
      BY <3>3, <3>4, <3>5
    <3> QED  BY <3>6 DEF CreditConserved, CreditOf, MapThenSumSet, MapThenFoldSet
  <2>3. UNCHANGED balances \/ \E t \in byId : Accept(t)
    <3>1. CASE ScanNext
      BY <3>1 DEF ScanNext, SetAsideReversal, RejectOverLimit, AdmitSettlement
    <3>2. CASE VisitReversal
      <4>1. visiting \subseteq byId
        BY <1>2 DEF LedgerInv, TypeOK
      <4> QED  BY <3>2, <4>1 DEF VisitReversal, ApplyReversal, DeferReversal
    <3> QED
      BY <1>2, <3>1, <3>2 DEF Next, vars, ReadTransfer, RefuseTransfer, RefuseBatch, Throw,
         BeginScan, FinishScan, NextPass, RejectDeferred
  <2> QED  BY <2>1, <2>2, <2>3
<1> QED  BY <1>1, <1>2, LedgerInvariant, PTL DEF Spec

----------------------------------------------------------------------------
(***************************************************************************)
(* Progress.  Stages come in order, and within a stage something finite    *)
(* becomes smaller: what is left to read, what is left to scan, and in the *)
(* rounds the pending corrections; while they stay as they are, a round is *)
(* begun anew only once for a correction that was applied.                 *)
(***************************************************************************)

Later ==
    \/ stage = "read" /\ stage' \in {"scan", "failed"}
    \/ stage = "scan" /\ stage' \in {"pass", "done"}
    \/ stage = "pass" /\ stage' = "done"

Shrinks(new, old) == new \subseteq old /\ new # old

PendingReversals == visiting \cup deferred

RoundCloser ==
    \/ Shrinks(PendingReversals', PendingReversals)
    \/ PendingReversals' = PendingReversals /\ progressed /\ ~progressed'
    \/ PendingReversals' = PendingReversals /\ progressed' = progressed /\ Shrinks(visiting', visiting)

Closer ==
    \/ Later
    \/ stage' = stage /\ stage = "read" /\ Shrinks(todo', todo)
    \/ stage' = stage /\ stage = "scan" /\ Shrinks((byId \ scanned)', byId \ scanned)
    \/ stage' = stage /\ stage = "pass" /\ RoundCloser

\* Every step of applyTransfers brings the derivation closer to its end, in an order that
\* does not descend for ever on a finite batch: the while loop over the corrections cannot
\* repeat a round that changed nothing, also when corrections undo each other.
THEOREM EveryStepGetsCloser == Spec => [][Closer]_vars
<1>1. LedgerInv /\ [Next]_vars => [Closer]_vars
  <2> SUFFICES ASSUME LedgerInv, Next PROVE Closer
    OBVIOUS
  <2>1. CASE ReadTransfer
    BY <2>1 DEF ReadTransfer, Closer, Shrinks
  <2>2. CASE RefuseTransfer \/ BeginScan \/ RefuseBatch
    BY <2>2 DEF RefuseTransfer, BeginScan, RefuseBatch, Throw, Closer, Later
  <2>3. CASE ScanNext
    <3>1. PICK t \in byId \ scanned : scanned' = scanned \cup {t}
      BY <2>3 DEF ScanNext
    <3>2. stage = "scan" /\ stage' = stage /\ byId' = byId
      BY <2>3 DEF ScanNext
    <3>3. t \in byId \ scanned /\ t \notin (byId \ scanned)'
      BY <3>1, <3>2
    <3> QED
      BY <3>1, <3>2, <3>3 DEF Closer, Shrinks
  <2>4. CASE FinishScan
    BY <2>4 DEF FinishScan, BeginPass, Closer, Later
  <2>5. CASE VisitReversal
    <3>1. PICK t \in visiting : /\ ApplyReversal(t) \/ DeferReversal(t)
                               /\ visiting' = visiting \ {t}
      BY <2>5 DEF VisitReversal
    <3>2. /\ stage = "pass" /\ stage' = stage /\ visiting \cap deferred = {}
          /\ progressed \in BOOLEAN
      BY <2>5 DEF VisitReversal, LedgerInv, PassDecided, TypeOK
    <3>3. CASE ApplyReversal(t)
      <4>1. deferred' = deferred
        BY <3>3 DEF ApplyReversal
      <4>2. t \in PendingReversals /\ t \notin PendingReversals'
        BY <3>1, <3>2, <4>1 DEF PendingReversals
      <4>3. PendingReversals' \subseteq PendingReversals
        BY <3>1, <4>1 DEF PendingReversals
      <4> QED
        BY <3>2, <4>2, <4>3 DEF Closer, RoundCloser, Shrinks
    <3>4. CASE DeferReversal(t)
      <4>1. deferred' = deferred \cup {t} /\ progressed' = progressed
        BY <3>4 DEF DeferReversal
      <4>2. PendingReversals' = PendingReversals
        BY <3>1, <4>1 DEF PendingReversals
      <4>3. Shrinks(visiting', visiting)
        BY <3>1 DEF Shrinks
      <4> QED
        BY <3>2, <4>1, <4>2, <4>3 DEF Closer, RoundCloser
    <3> QED
      BY <3>1, <3>3, <3>4
  <2>6. CASE NextPass
    BY <2>6 DEF NextPass, BeginPass, Closer, Later, RoundCloser, PendingReversals, Shrinks
  <2>7. CASE RejectDeferred
    BY <2>7 DEF RejectDeferred, Closer, Later
  <2> QED
    BY <2>1, <2>2, <2>3, <2>4, <2>5, <2>6, <2>7 DEF Next
<1> QED
  BY <1>1, LedgerInvariant, PTL DEF Spec

=============================================================================
