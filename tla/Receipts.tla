------------------------------ MODULE Receipts ------------------------------
(***************************************************************************)
(* Retention receipts: a community node signs that it retains a transfer   *)
(* (apps/node/src/receipt-issuer.ts behind the route of server.ts), and a  *)
(* desktop counts the receipts of the nodes pinned in the bootstrap        *)
(* manifest (apps/desktop/src/electron/settlement-durability.ts), several  *)
(* transfers at a time and all nodes of a transfer at once.                *)
(*                                                                         *)
(* Some of the pinned nodes run this repository's server.  What they hold  *)
(* when they are asked is whatever has replicated to them.  The others may *)
(* answer with anything they can sign or have seen signed, as late as they *)
(* like or not at all.  A signature is modelled by the key that made it.   *)
(***************************************************************************)
EXTENDS Integers, Sequences, FiniteSets

CONSTANTS
    Pin,           \* pinned nodes; a node id is the digest of a public key
    ThisServer,    \* the pinned nodes that run this repository's server
    Community,     \* the community of the manifest
    History,       \* the transfers of the desktop's ledger, in order
    Settlements,   \* those of them that settle a proposal
    Digest,        \* the digest of each transfer as the desktop holds it
    Digests,       \* digests of transfers, as anyone may hold them
    Claim,         \* what each of the other nodes signs: communities, transfers, digests
    Worker,        \* RECEIPT_TRANSFER_LOOKUP_CONCURRENCY
    MaxLookups,    \* MAX_RECEIPT_LOOKUPS
    None

Transfer == {History[i] : i \in DOMAIN History}

ASSUME ReceiptConstants ==
    /\ ThisServer \subseteq Pin
    /\ History \in Seq(Transfer) /\ Settlements \subseteq Transfer
    /\ Digest \in [Transfer -> Digests]
    /\ \A n \in Pin : \A c \in Claim[n] : c.transfer \in Transfer /\ c.digest \in Digests
    /\ MaxLookups \in Nat
    /\ IsFiniteSet(Pin) /\ None \notin Pin /\ "pending" \notin Pin /\ None \notin Digests
    /\ Worker # {} /\ None \notin Nat \cup {"pending"}
    /\ None \notin [transfer : Transfer, count : Nat]

VARIABLES
    signed,     \* receipts signed so far, by the key of the node they name
    phase,      \* the collection of the desktop
    nextIndex,  \* shared by its workers
    index,      \* the lookup each worker is at; 0 before, None after the last one
    answer,     \* of each worker and node: "pending", None, or the node that is counted
    results     \* one entry for each lookup that has ended

vars == <<signed, phase, nextIndex, index, answer, results>>

\* filter of collectVerifiedSettlementDurability: the settlements of s, in their order.
SettlementsOf(s) ==
    LET kept[i \in 0 .. Len(s)] ==
          IF i = 0 THEN <<>>
          ELSE IF s[i] \in Settlements THEN Append(kept[i - 1], s[i]) ELSE kept[i - 1]
    IN  kept[Len(s)]

\* Its slice: the first MaxLookups of them.
Lookups ==
    LET all == SettlementsOf(History)
    IN  SubSeq(all, 1, IF Len(all) < MaxLookups THEN Len(all) ELSE MaxLookups)

Receipt(n, c, t, d) == [node |-> n, community |-> c, transfer |-> t, digest |-> d]

SignedBy(n) == {Receipt(n, c.community, c.transfer, c.digest) : c \in Claim[n]}

Expected(n, t) == Receipt(n, Community, t, Digest[t])

TypeOK ==
    /\ \A r \in signed : r.node \in Pin /\ r.transfer \in Transfer /\ r.digest \in Digests
    /\ phase \in {"idle", "running", "done"}
    /\ nextIndex \in Nat
    /\ index \in [Worker -> Nat \cup {None}]
    /\ answer \in [Worker -> [Pin -> Pin \cup {None, "pending"}]]
    /\ results \in [1 .. Len(Lookups) -> [transfer : Transfer, count : Nat] \cup {None}]

NoAnswers == [n \in Pin |-> None]

NoResults == [i \in 1 .. Len(Lookups) |-> None]

Init ==
    /\ signed = {}
    /\ phase = "idle" /\ nextIndex = 1
    /\ index = [w \in Worker |-> 0]
    /\ answer = [w \in Worker |-> NoAnswers]
    /\ results = NoResults

----------------------------------------------------------------------------
(* The node. *)

\* settlementTransferId is <proposal>/settlement; other ids are plain text.
HasSlash(t) == t \in Settlements

\* validTransferId
ValidTransferId(t) == ~ HasSlash(t)

\* receiptFor: the transfer as the ledger of the node admits it now; None when the id is
\* refused, the community unknown, its records unresolvable or the transfer not admitted.
ReceiptFor(n, t, admitted) ==
    IF ValidTransferId(t) /\ admitted # None
    THEN Receipt(n, Community, t, admitted)
    ELSE None

\* Someone else asks a node of this repository.
AskNode(n, t) ==
    \E admitted \in Digests \cup {None} :
        LET r == ReceiptFor(n, t, admitted) IN
        /\ r # None
        /\ signed' = signed \cup {r}
        /\ UNCHANGED <<phase, nextIndex, index, answer, results>>

----------------------------------------------------------------------------
(* The desktop. *)

\* The next lookup of a worker, which asks every node; the index is taken and advanced
\* without an await in between.
Taken(w, next, pending) ==
    IF next <= Len(Lookups)
    THEN /\ index' = [index EXCEPT ![w] = next]
         /\ answer' = [answer EXCEPT ![w] = pending]
    ELSE /\ index' = [index EXCEPT ![w] = None]
         /\ answer' = [answer EXCEPT ![w] = NoAnswers]

Pending == [n \in Pin |-> "pending"]

\* Faulty variant: the index is advanced when the lookup has ended.
TakeLate(w) ==
    /\ Taken(w, nextIndex, Pending)
    /\ nextIndex' = IF index[w] = 0 THEN nextIndex ELSE nextIndex + 1

Take(w) == Taken(w, nextIndex, Pending) /\ nextIndex' = nextIndex + 1

\* Without a manifest, or without pinned nodes in it, there is nothing to ask.
Collect ==
    /\ phase # "running"
    /\ phase' \in {"running", "done"}
    /\ nextIndex' = 1
    /\ index' = [w \in Worker |-> IF phase' = "running" THEN 0 ELSE None]
    /\ answer' = [w \in Worker |-> NoAnswers]
    /\ results' = NoResults
    /\ UNCHANGED signed

StartWorker(w) ==
    /\ phase = "running" /\ index[w] = 0
    /\ Take(w)
    /\ UNCHANGED <<signed, phase, results>>

\* Faulty variant: a receipt that verifies counts for the node that was asked.
ClaimsPinnedNodeAny(r, n) == n \in Pin

\* receiptClaimsPinnedNode: the endpoint answers for itself.
ClaimsPinnedNode(r, n) == r.node = n

\* verifyReplicationReceipt against the pinned nodes; by is the key of the signature.
VerifyReceipt(r, by, t) ==
    /\ r.community = Community /\ r.transfer = t /\ r.digest = Digest[t]
    /\ r.node \in Pin /\ by = r.node

\* The node that is counted for an answer, or None.
Counted(r, by, n, t) ==
    IF ClaimsPinnedNode(r, n) /\ VerifyReceipt(r, by, t) THEN n ELSE None

Asked(w) == Lookups[index[w]]

Answered(w, n, a) ==
    /\ answer[w][n] = "pending"
    /\ answer' = [answer EXCEPT ![w][n] = a]
    /\ UNCHANGED <<phase, nextIndex, index, results>>

\* A node of this repository answers with its receipt, or with 404.
ServerAnswers(w, n) ==
    /\ n \in ThisServer
    /\ \E admitted \in Digests \cup {None} :
          LET r == ReceiptFor(n, Asked(w), admitted) IN
          IF r = None
          THEN Answered(w, n, None) /\ UNCHANGED signed
          ELSE Answered(w, n, Counted(r, n, n, Asked(w))) /\ signed' = signed \cup {r}

\* Another node answers with a receipt of its own or one it has seen, or names in its own
\* receipt a node whose key it does not have.
OtherAnswers(w, n) ==
    /\ n \notin ThisServer
    /\ \/ \E r \in SignedBy(n) :
             Answered(w, n, Counted(r, n, n, Asked(w))) /\ signed' = signed \cup {r}
       \/ \E r \in signed :
             Answered(w, n, Counted(r, r.node, n, Asked(w))) /\ UNCHANGED signed
       \/ \E m \in Pin \ {n} : \E r \in SignedBy(m) :
             Answered(w, n, Counted(r, n, n, Asked(w))) /\ UNCHANGED signed

\* Faulty variant: the request has no timeout, so that only an answer ends it.
LookupFailsNever(w, n) ==
    /\ n \in ThisServer
    /\ Answered(w, n, None) /\ UNCHANGED signed

\* The timeout, a refused connection, a body that is too long or not JSON.
LookupFails(w, n) == Answered(w, n, None) /\ UNCHANGED signed

\* The number of distinct nodes that are counted.
Count(w) == Cardinality({answer[w][n] : n \in Pin} \ {None})

\* All nodes have been heard: the result is stored and the next lookup taken.
FinishLookup(w) ==
    /\ phase = "running" /\ index[w] \notin {0, None}
    /\ \A n \in Pin : answer[w][n] # "pending"
    /\ results' = [results EXCEPT ![index[w]] = [transfer |-> Asked(w), count |-> Count(w)]]
    /\ Take(w)
    /\ UNCHANGED <<signed, phase>>

Return ==
    /\ phase = "running" /\ \A w \in Worker : index[w] = None
    /\ phase' = "done"
    /\ UNCHANGED <<signed, nextIndex, index, answer, results>>

Looking(w) == phase = "running" /\ index[w] \notin {0, None}

Next ==
    \/ \E n \in ThisServer, t \in Transfer : AskNode(n, t)
    \/ Collect \/ Return
    \/ \E w \in Worker :
          \/ StartWorker(w) \/ FinishLookup(w)
          \/ /\ Looking(w)
             /\ \E n \in Pin : ServerAnswers(w, n) \/ OtherAnswers(w, n) \/ LookupFails(w, n)

\* Timers fire and the event loop runs what they resolve; nodes need not answer.
Spec ==
    /\ Init /\ [][Next]_vars
    /\ WF_vars(Return)
    /\ \A w \in Worker :
          /\ WF_vars(StartWorker(w)) /\ WF_vars(FinishLookup(w))
          /\ \A n \in Pin : WF_vars(Looking(w) /\ LookupFails(w, n))

----------------------------------------------------------------------------
(* Properties. *)

\* The count shown for a settlement is of distinct pinned nodes that each signed a receipt
\* for this transfer, as this desktop holds it, in this community: answers that are late,
\* replayed or name another node add nothing (settlement-durability.ts:36).
CountedWereSigned ==
    \A i \in DOMAIN results : results[i] # None =>
        results[i].count
            <= Cardinality({n \in Pin : Expected(n, results[i].transfer) \in signed})

\* However the workers share the work, no transfer is looked up by two of them or again,
\* and a collection that has ended has one result for each of the first MaxLookups
\* settlements, its own, in the order of the ledger (mapWithConcurrency,
\* settlement-durability.ts:70).
EachLookedUpOnce ==
    /\ \A w \in Worker : Looking(w) =>
          /\ results[index[w]] = None
          /\ \A v \in Worker \ {w} : Looking(v) => index[v] # index[w]
    /\ phase = "done" =>
          \/ results = NoResults
          \/ \A i \in DOMAIN results :
                results[i] # None /\ results[i].transfer = Lookups[i]

\* Asked for the settlement that a worker looks up, a node of this repository that has
\* admitted the transfer has a receipt for it (receipt-issuer.ts:20, apps/node/README.md:32).
AdmittedIsReceipted ==
    \A w \in Worker : Looking(w) =>
        \A n \in ThisServer, admitted \in Digests : ReceiptFor(n, Asked(w), admitted) # None

\* A collection ends although nodes may never answer.
CollectionEnds == phase = "running" ~> phase = "done"

=============================================================================
