------------------------------- MODULE Ledger -------------------------------
(***************************************************************************)
(* One derivation of a community ledger: applyTransfers of                 *)
(* packages/timebank-ledger/src/index.ts, loop by loop.                    *)
(*                                                                         *)
(*   read   the input is read one transfer at a time, in whatever order    *)
(*          replication delivered it;                                      *)
(*   scan   ordinary settlements are admitted or rejected in id order;     *)
(*   pass   corrections are applied in rounds, each against the transfers  *)
(*          accepted when the round began, until a round applies none;     *)
(*   done   the frozen result;  failed  a thrown LedgerRuleError.          *)
(***************************************************************************)
EXTENDS LedgerRules

CONSTANT Candidates  \* the transfers a replicated history may contain

ASSUME CandidatesAreTransfers == Candidates \subseteq Transfer

VARIABLES
    stage,      \* which loop is running
    todo,       \* input transfers not yet read
    byId,       \* transfersById
    scanned,    \* transfers the ordinary loop has passed
    accepted,   \* acceptedTransfers
    rejected,   \* rejectedTransfers: [transfer, reason]
    balances,   \* balances, 0 for a member without postings
    visiting,   \* corrections this round has still to look at
    deferred,   \* nextPendingReversals
    known,      \* acceptedTransferIds, computed as the round begins
    progressed  \* acceptedReversal

vars == <<stage, todo, byId, scanned, accepted, rejected, balances,
          visiting, deferred, known, progressed>>

Reasons == {"minimum-balance", "unaccepted-reversal"}

TypeOK ==
    /\ stage \in {"read", "scan", "pass", "done", "failed"}
    /\ todo \subseteq Candidates
    /\ byId \subseteq Candidates
    /\ scanned \subseteq byId
    /\ accepted \subseteq byId
    /\ rejected \subseteq [transfer : byId, reason : Reasons]
    /\ balances \in [Member -> Int]
    /\ visiting \subseteq byId
    /\ deferred \subseteq byId
    /\ known \subseteq TransferId
    /\ progressed \in BOOLEAN

Init ==
    /\ stage = "read"
    /\ todo \in SUBSET Candidates
    /\ byId = {}
    /\ scanned = {}
    /\ accepted = {}
    /\ rejected = {}
    /\ balances = [m \in Member |-> 0]
    /\ visiting = {}
    /\ deferred = {}
    /\ known = {}
    /\ progressed = FALSE

Ids(T) == {t.id : t \in T}

\* Faulty variant: the arrays are used in the order they arrived.
IsAny(t, T) == t \in T

\* The next element of an array sorted by id.
IsFirst(t, T) == t \in T /\ \A u \in T : t.id <= u.id

RejectedTransfers == {r.transfer : r \in rejected}

\* acceptTransfer
Accept(t) ==
    /\ accepted' = accepted \cup {t}
    /\ balances' = Post(balances, t)

\* A thrown LedgerRuleError: the caller gets no ledger at all.
Throw ==
    /\ stage' = "failed"
    /\ UNCHANGED <<todo, byId, scanned, accepted, rejected, balances,
                   visiting, deferred, known, progressed>>

Conflicting(t) == \E u \in byId : u.id = t.id /\ u # t

ReadTransfer ==
    /\ stage = "read"
    /\ \E t \in todo :
         /\ Readable(t)
         /\ ~Conflicting(t)
         /\ todo' = todo \ {t}
         /\ byId' = byId \cup {t}
    /\ UNCHANGED <<stage, scanned, accepted, rejected, balances,
                   visiting, deferred, known, progressed>>

RefuseTransfer ==
    /\ stage = "read"
    /\ \E t \in todo : ~Readable(t) \/ Conflicting(t)
    /\ Throw

BeginScan ==
    /\ stage = "read"
    /\ todo = {}
    /\ UniqueSettlements(byId)
    /\ ValidReversals(byId)
    /\ stage' = "scan"
    /\ UNCHANGED <<todo, byId, scanned, accepted, rejected, balances,
                   visiting, deferred, known, progressed>>

RefuseBatch ==
    /\ stage = "read"
    /\ todo = {}
    /\ ~(UniqueSettlements(byId) /\ ValidReversals(byId))
    /\ Throw

SetAsideReversal(t) ==
    /\ IsReversal(t)
    /\ UNCHANGED <<accepted, rejected, balances>>

RejectOverLimit(t) ==
    /\ ~IsReversal(t)
    /\ CrossesMinimum(t, balances)
    /\ rejected' = rejected \cup {[transfer |-> t, reason |-> "minimum-balance"]}
    /\ UNCHANGED <<accepted, balances>>

AdmitSettlement(t) ==
    /\ ~IsReversal(t)
    /\ ~CrossesMinimum(t, balances)
    /\ Accept(t)
    /\ UNCHANGED rejected

ScanNext ==
    /\ stage = "scan"
    /\ \E t \in byId \ scanned :
         /\ IsFirst(t, byId \ scanned)
         /\ SetAsideReversal(t) \/ RejectOverLimit(t) \/ AdmitSettlement(t)
         /\ scanned' = scanned \cup {t}
    /\ UNCHANGED <<stage, todo, byId, visiting, deferred, known, progressed>>

\* Faulty variant: the snapshot maps accepted transfers to what they undo.
BeginPassUndone(pending) ==
    /\ visiting' = pending
    /\ deferred' = {}
    /\ known' = {t.reverses : t \in accepted}
    /\ progressed' = FALSE
    /\ stage' = IF pending = {} THEN "done" ELSE "pass"

\* The head of the while loop, entered with the corrections still pending.
BeginPass(pending) ==
    /\ visiting' = pending
    /\ deferred' = {}
    /\ known' = Ids(accepted)
    /\ progressed' = FALSE
    /\ stage' = IF pending = {} THEN "done" ELSE "pass"

FinishScan ==
    /\ stage = "scan"
    /\ scanned = byId
    /\ BeginPass(byId \ Ordinary(byId))
    /\ UNCHANGED <<todo, byId, scanned, accepted, rejected, balances>>

\* Faulty variant: any transfer of the batch may be undone, refused ones too.
ApplyReversalOfAny(t) ==
    /\ t.reverses \in Ids(byId)
    /\ Accept(t)
    /\ progressed' = TRUE
    /\ UNCHANGED deferred

ApplyReversal(t) ==
    /\ t.reverses \in known
    /\ Accept(t)
    /\ progressed' = TRUE
    /\ UNCHANGED deferred

\* Faulty variant: a deferred correction counts as progress.
DeferReversalAsProgress(t) ==
    /\ t.reverses \notin known
    /\ deferred' = deferred \cup {t}
    /\ progressed' = TRUE
    /\ UNCHANGED <<accepted, balances>>

DeferReversal(t) ==
    /\ t.reverses \notin known
    /\ deferred' = deferred \cup {t}
    /\ UNCHANGED <<accepted, balances, progressed>>

VisitReversal ==
    /\ stage = "pass"
    /\ \E t \in visiting :
         /\ IsFirst(t, visiting)
         /\ ApplyReversal(t) \/ DeferReversal(t)
         /\ visiting' = visiting \ {t}
    /\ UNCHANGED <<stage, todo, byId, scanned, rejected, known>>

NextPass ==
    /\ stage = "pass"
    /\ visiting = {}
    /\ progressed
    /\ BeginPass(deferred)
    /\ UNCHANGED <<todo, byId, scanned, accepted, rejected, balances>>

\* Faulty variant: the loop breaks without reporting what it could not apply.
BreakSilently ==
    /\ stage = "pass"
    /\ visiting = {}
    /\ ~progressed
    /\ stage' = "done"
    /\ UNCHANGED <<todo, byId, scanned, accepted, rejected, balances, visiting, deferred,
                   known, progressed>>

RejectDeferred ==
    /\ stage = "pass"
    /\ visiting = {}
    /\ ~progressed
    /\ rejected' = rejected \cup
          {[transfer |-> t, reason |-> "unaccepted-reversal"] : t \in deferred}
    /\ stage' = "done"
    /\ UNCHANGED <<todo, byId, scanned, accepted, balances, visiting, deferred,
                   known, progressed>>

Next ==
    \/ ReadTransfer \/ RefuseTransfer \/ BeginScan \/ RefuseBatch
    \/ ScanNext \/ FinishScan \/ VisitReversal \/ NextPass \/ RejectDeferred

Spec == Init /\ [][Next]_vars

\* applyTransfers is synchronous: once called it runs to its end.
FairSpec == Spec /\ WF_vars(Next)
----------------------------------------------------------------------------
(***************************************************************************)
(* Properties                                                              *)
(***************************************************************************)

\* While ordinary settlements are being admitted no member is below the credit
\* boundary: wouldCrossMinimumBalance looks at the recipient alone, so this is also
\* that crediting the provider and posting in id order never undercuts anyone.
BoundaryHonoured ==
    stage = "scan" => \A m \in Member : balances[m] >= MinimumBalance

\* A correction is applied only on top of the applied transfer it exactly undoes,
\* whatever the chain of corrections and whatever order their ids sort in.
CorrectionsFollowOriginals ==
    \A t \in accepted : IsReversal(t) => \E o \in accepted : Undoes(t, o)

\* When the derivation ends every transfer it read has exactly one outcome, ordinary
\* settlements are refused only for the boundary, and a correction is refused only
\* when the transfer it undoes is itself refused: the rounds stopped at the fixpoint.
EveryTransferDecided ==
    stage = "done" =>
        /\ accepted \cup RejectedTransfers = byId
        /\ accepted \cap RejectedTransfers = {}
        /\ \A r \in rejected :
              IF IsReversal(r.transfer)
              THEN /\ r.reason = "unaccepted-reversal"
                   /\ \A o \in accepted : r.transfer.reverses # o.id
              ELSE r.reason = "minimum-balance"

\* A batch every order of delivery accepts.
Coherent(T) ==
    /\ \A t \in T : Readable(t)
    /\ \A t, u \in T : t.id = u.id => t = u
    /\ UniqueSettlements(T)
    /\ ValidReversals(T)

\* "Derives verified transfers, balanced postings, and member balances independent of
\* input order": the result is the function of the set read that LedgerRules states
\* without loops, and a derivation throws only for a batch every order throws for.
OutcomeIndependentOfDelivery ==
    /\ stage = "done" =>
          /\ Coherent(byId)
          /\ accepted = Applied(byId)
          /\ balances = [m \in Member |-> Balance(accepted, m)]
    /\ stage = "failed" => ~Coherent(byId \cup todo)

\* Time credit is neither created nor destroyed, at no point of the derivation.
CreditConserved == MapThenSumSet(LAMBDA m : balances[m], Member) = 0

\* The derivation ends for every batch, corrections of each other included.
DerivationEnds == <>(stage \in {"done", "failed"})
=============================================================================
