--------------------------- MODULE AidDisbursement ---------------------------
(***************************************************************************)
(* Aid requests from their creation to the payment of the beneficiary:     *)
(* backend/app/api/v1/aid_requests.py, proofs.py, progress.py and          *)
(* beneficiaries.py.                                                       *)
(*                                                                         *)
(* As in DonationLedger a call is a coroutine and one action is one        *)
(* stretch of it, up to the next database call or commit.  A call writes   *)
(* from the row it read first: status, proof_count, total_received and     *)
(* cached_risk_level may have changed since.  A handler that writes after  *)
(* its only read, and whose read nobody can undo, is one action.           *)
(*                                                                         *)
(* send_payment blocks the event loop, so reading the beneficiary's row    *)
(* and paying is one stretch.                                              *)
(*                                                                         *)
(* The variants no action uses (StatusKept, CountKept, ...) each stand     *)
(* before the definition they break, as in DonationVault.                  *)
(***************************************************************************)
EXTENDS Integers, FiniteSets

CONSTANTS
    AidRequests,          \* the aid requests that may be created
    Beneficiaries,
    BeneficiaryOf,        \* per aid request
    Amount,               \* requested_amount, per aid request
    Wallets,              \* the beneficiaries with a stellar_public_key
    Proofs,               \* the proof_artifacts rows that may be inserted
    RequestOf,            \* per proof: its aid request
    FileOf,               \* per proof: the sha256 of its file
    Slots,                \* calls in flight at the same time
    ENFORCE_PROOF_GATE,
    MIN_PROOFS_FOR_DISBURSE,
    EnforcesForeignKeys,  \* PostgreSQL does, the tests' SQLite does not
    MaxPayments,          \* bound: payments per aid request
    MaxFaults,            \* bound: calls that die, answers that are lost
    NoProof,
    Idle                  \* a free slot

ASSUME AidAssumption ==
    /\ BeneficiaryOf \in [AidRequests -> Beneficiaries]
    /\ Amount \in [AidRequests -> Nat \ {0}]
    /\ RequestOf \in [Proofs -> AidRequests]
    /\ NoProof \notin Proofs
    /\ IsFiniteSet(Proofs)
    /\ IsFiniteSet(Slots)
    /\ ENFORCE_PROOF_GATE \in BOOLEAN
    /\ MIN_PROOFS_FOR_DISBURSE \in Nat
    /\ EnforcesForeignKeys \in BOOLEAN
    /\ MaxPayments \in Nat
    /\ MaxFaults \in Nat

VARIABLES
    verified,    \* the beneficiaries an admin verified
    status,      \* per aid request
    approved,    \* the aid requests with an approved_by
    critical,    \* the aid requests with cached_risk_level = critical
    progress,    \* the aid requests with a progress update
    decisions,   \* per aid request: the verifiers' decisions on its progress
    uploaded,    \* the proof_artifacts rows
    live,        \* those without a deleted_at
    proofCount,  \* aid_requests.proof_count
    received,    \* beneficiaries.total_received
    provenance,  \* how many provenance_records rows an aid request has
    payments,    \* payments made for an aid request on Stellar
    sent,        \* what they moved, per beneficiary
    call,        \* what each slot is doing
    overlapped,  \* history: beneficiaries with two calls in flight at once
    faults

rows    == <<verified, status, approved, critical, progress, decisions>>
proofs  == <<uploaded, live, proofCount>>
books   == <<received, provenance>>
stellar == <<payments, sent>>
vars    == <<rows, proofs, books, stellar, call, overlapped, faults>>

Status    == {"absent", "pending", "approved", "disbursed", "rejected"}
Decisions == {"confirmed", "disputed"}

DisburseSteps == {"proofs", "confirmations", "pay", "record"}
ProofSteps    == {"duplicate", "store", "mark", "erase"}
Steps         == {"approve", "reject"} \cup DisburseSteps \cup ProofSteps

\* A call: seen is the proof_count or total_received it will add to, cleared
\* is what it read of the risk level, or an override.
Call == [step : Steps, req : AidRequests, proof : Proofs \cup {NoProof},
         seen : Nat, cleared : BOOLEAN]

\* A free slot is told from every call.
ASSUME IdleAssumption == Idle \notin Call

Init ==
    /\ verified = {}
    /\ status = [q \in AidRequests |-> "absent"]
    /\ approved = {}
    /\ critical = {}
    /\ progress = {}
    /\ decisions = [q \in AidRequests |-> {}]
    /\ uploaded = {}
    /\ live = {}
    /\ proofCount = [q \in AidRequests |-> 0]
    /\ received = [b \in Beneficiaries |-> 0]
    /\ provenance = [q \in AidRequests |-> 0]
    /\ payments = [q \in AidRequests |-> 0]
    /\ sent = [b \in Beneficiaries |-> 0]
    /\ call = [k \in Slots |-> Idle]
    /\ overlapped = {}
    /\ faults = 0

-----------------------------------------------------------------------------
(* Calls. *)

At(k, step) == call[k] # Idle /\ call[k].step = step

BusyWith(b) == {k \in Slots : call[k] # Idle /\ BeneficiaryOf[call[k].req] = b}

\* A call has read the row of its aid request.
Begin(k, c) ==
    /\ call[k] = Idle
    /\ call' = [call EXCEPT ![k] = c]
    /\ overlapped' = IF BusyWith(BeneficiaryOf[c.req]) = {}
                     THEN overlapped
                     ELSE overlapped \cup {BeneficiaryOf[c.req]}
    /\ UNCHANGED faults

Request(step, q) ==
    [step |-> step, req |-> q, proof |-> NoProof, seen |-> 0, cleared |-> FALSE]

Goto(k, step) ==
    /\ call' = [call EXCEPT ![k].step = step]
    /\ UNCHANGED <<overlapped, faults>>

\* The response is sent, a refusal included.
Return(k) ==
    /\ call' = [call EXCEPT ![k] = Idle]
    /\ UNCHANGED <<overlapped, faults>>

\* The process dies, or a database call raises: nothing more is written.
Abort(k) ==
    /\ call[k] # Idle
    /\ faults < MaxFaults
    /\ faults' = faults + 1
    /\ call' = [call EXCEPT ![k] = Idle]
    /\ UNCHANGED <<rows, proofs, books, stellar, overlapped>>

-----------------------------------------------------------------------------
(* Beneficiaries, aid requests, risk. *)

VerifyBeneficiary(b) ==
    /\ verified' = verified \cup {b}
    /\ UNCHANGED <<status, approved, critical, progress, decisions, proofs,
                   books, stellar, call, overlapped, faults>>

MayRequest(q) ==
    /\ status[q] = "absent"
    /\ BeneficiaryOf[q] \in verified

CreateAidRequest(q) ==
    /\ MayRequest(q)
    /\ status' = [status EXCEPT ![q] = "pending"]
    /\ UNCHANGED <<verified, approved, critical, progress, decisions, proofs,
                   books, stellar, call, overlapped, faults>>

\* A risk scan, in the background or asked for, caches its level.
AssessRisk(q) ==
    /\ status[q] # "absent"
    /\ \/ critical' = critical \cup {q}
       \/ critical' = critical \ {q}
    /\ UNCHANGED <<verified, status, approved, progress, decisions, proofs,
                   books, stellar, call, overlapped, faults>>

-----------------------------------------------------------------------------
(* PATCH /approve and /reject. *)

ReadForApproval(k, q) ==
    /\ status[q] = "pending"
    /\ Begin(k, Request("approve", q))
    /\ UNCHANGED <<rows, proofs, books, stellar>>

Approve(k) ==
    /\ At(k, "approve")
    /\ status' = [status EXCEPT ![call[k].req] = "approved"]
    /\ approved' = approved \cup {call[k].req}
    /\ Return(k)
    /\ UNCHANGED <<verified, critical, progress, decisions, proofs, books, stellar>>

\* Whatever the status is.
ReadForRejection(k, q) ==
    /\ status[q] # "absent"
    /\ Begin(k, Request("reject", q))
    /\ UNCHANGED <<rows, proofs, books, stellar>>

Reject(k) ==
    /\ At(k, "reject")
    /\ status' = [status EXCEPT ![call[k].req] = "rejected"]
    /\ Return(k)
    /\ UNCHANGED <<verified, approved, critical, progress, decisions, proofs,
                   books, stellar>>

-----------------------------------------------------------------------------
(* PATCH /disburse. *)

LiveProofs(q) == {p \in live : RequestOf[p] = q}

DisbursableUnlessPaid(q) == status[q] \in {"pending", "approved"}

DisbursableOnceReviewed(q) == status[q] \in {"approved", "rejected"}

Disbursable(q) == status[q] = "approved"

ReadForDisbursement(k, q, override) ==
    /\ Disbursable(q)
    /\ Begin(k, [Request(IF ENFORCE_PROOF_GATE THEN "proofs" ELSE "pay", q)
                    EXCEPT !.cleared = override \/ q \notin critical])
    /\ UNCHANGED <<rows, proofs, books, stellar>>

CountProofs(k) ==
    /\ At(k, "proofs")
    /\ IF Cardinality(LiveProofs(call[k].req)) >= MIN_PROOFS_FOR_DISBURSE
       THEN Goto(k, "confirmations")
       ELSE Return(k)
    /\ UNCHANGED <<rows, proofs, books, stellar>>

ConfirmedByAnyDecision(q) == decisions[q] # {}

Confirmed(q) == "confirmed" \in decisions[q]

CountConfirmations(k) ==
    /\ At(k, "confirmations")
    /\ IF Confirmed(call[k].req) /\ call[k].cleared
       THEN Goto(k, "pay")
       ELSE Return(k)
    /\ UNCHANGED <<rows, proofs, books, stellar>>

Moved(q) ==
    /\ payments' = [payments EXCEPT ![q] = @ + 1]
    /\ sent' = [sent EXCEPT ![BeneficiaryOf[q]] = @ + Amount[q]]

AfterRefusalRecord(k) == Goto(k, "record")

\* An exception of send_payment ends the call.
AfterRefusal(k) == Return(k)

\* The beneficiary's row is read and the payment submitted: it is made; it is
\* refused, as it is if there is no stellar_public_key; or it is made and
\* Horizon's answer never comes.
PayBeneficiary(k) ==
    LET q == call[k].req
        b == BeneficiaryOf[call[k].req]
    IN
    /\ At(k, "pay")
    /\ \/ /\ b \in Wallets
          /\ payments[q] < MaxPayments
          /\ Moved(q)
          /\ call' = [call EXCEPT ![k].step = "record", ![k].seen = received[b]]
          /\ UNCHANGED <<overlapped, faults>>
       \/ /\ AfterRefusal(k)
          /\ UNCHANGED stellar
       \/ /\ b \in Wallets
          /\ payments[q] < MaxPayments
          /\ faults < MaxFaults
          /\ Moved(q)
          /\ faults' = faults + 1
          /\ call' = [call EXCEPT ![k] = Idle]
          /\ UNCHANGED overlapped
    /\ UNCHANGED <<rows, proofs, books>>

StatusKept(q) == status

StatusDisbursed(q) == [status EXCEPT ![q] = "disbursed"]

\* What total_received becomes: what the call read, plus its own payment.
ReceivedAfter(k) == call[k].seen + Amount[call[k].req]

\* The provenance row refers to a donation that does not exist.  Where foreign
\* keys are enforced the commit fails, and with it everything the call wrote.
RecordDisbursement(k) ==
    LET q == call[k].req IN
    /\ At(k, "record")
    /\ IF EnforcesForeignKeys
       THEN UNCHANGED <<status, books>>
       ELSE /\ status' = StatusDisbursed(q)
            /\ received' = [received EXCEPT ![BeneficiaryOf[q]] = ReceivedAfter(k)]
            /\ provenance' = [provenance EXCEPT ![q] = @ + 1]
    /\ Return(k)
    /\ UNCHANGED <<verified, approved, critical, progress, decisions, proofs, stellar>>

-----------------------------------------------------------------------------
(* Proofs and progress. *)

ReadForUpload(k, p) ==
    /\ status[RequestOf[p]] \in {"pending", "approved"}
    /\ p \notin uploaded
    /\ \A j \in Slots : call[j] # Idle => call[j].proof # p
    /\ Begin(k, [Request("duplicate", RequestOf[p])
                    EXCEPT !.proof = p, !.seen = proofCount[RequestOf[p]]])
    /\ UNCHANGED <<rows, proofs, books, stellar>>

SameFile(p) == {o \in LiveProofs(RequestOf[p]) : FileOf[o] = FileOf[p]}

CheckDuplicate(k) ==
    /\ At(k, "duplicate")
    /\ IF SameFile(call[k].proof) = {} THEN Goto(k, "store") ELSE Return(k)
    /\ UNCHANGED <<rows, proofs, books, stellar>>

StoreProof(k) ==
    /\ At(k, "store")
    /\ uploaded' = uploaded \cup {call[k].proof}
    /\ live' = live \cup {call[k].proof}
    /\ proofCount' = [proofCount EXCEPT ![call[k].req] = call[k].seen + 1]
    /\ Return(k)
    /\ UNCHANGED <<rows, books, stellar>>

ReadForDeletion(k, p) ==
    /\ p \in live
    /\ Begin(k, [Request("mark", RequestOf[p]) EXCEPT !.proof = p])
    /\ UNCHANGED <<rows, proofs, books, stellar>>

\* Reading the aid request first flushes deleted_at: the proof's row is locked
\* until the commit.
MarkDeleted(k) ==
    /\ At(k, "mark")
    /\ \A j \in Slots : At(j, "erase") => call[j].proof # call[k].proof
    /\ call' = [call EXCEPT ![k].step = "erase", ![k].seen = proofCount[call[k].req]]
    /\ UNCHANGED <<rows, proofs, books, stellar, overlapped, faults>>

CountKept(n) == n

CountBelowZero(n) == n - 1

CountAfterDeletion(n) == IF n > 0 THEN n - 1 ELSE 0

EraseProof(k) ==
    /\ At(k, "erase")
    /\ live' = live \ {call[k].proof}
    /\ proofCount' = [proofCount EXCEPT ![call[k].req] = CountAfterDeletion(call[k].seen)]
    /\ Return(k)
    /\ UNCHANGED <<rows, uploaded, books, stellar>>

CreateProgress(q) ==
    /\ status[q] # "absent"
    /\ progress' = progress \cup {q}
    /\ UNCHANGED <<verified, status, approved, critical, decisions, proofs,
                   books, stellar, call, overlapped, faults>>

VerifyProgress(q, decision) ==
    /\ q \in progress
    /\ decisions' = [decisions EXCEPT ![q] = @ \cup {decision}]
    /\ UNCHANGED <<verified, status, approved, critical, progress, proofs,
                   books, stellar, call, overlapped, faults>>

-----------------------------------------------------------------------------

Step(k) ==
    \/ Approve(k)
    \/ Reject(k)
    \/ CountProofs(k)
    \/ CountConfirmations(k)
    \/ PayBeneficiary(k)
    \/ RecordDisbursement(k)
    \/ CheckDuplicate(k)
    \/ StoreProof(k)
    \/ MarkDeleted(k)
    \/ EraseProof(k)
    \/ Abort(k)

Arrive(k) ==
    \/ \E q \in AidRequests :
          \/ ReadForApproval(k, q)
          \/ ReadForRejection(k, q)
          \/ \E override \in BOOLEAN : ReadForDisbursement(k, q, override)
    \/ \E p \in Proofs : ReadForUpload(k, p) \/ ReadForDeletion(k, p)

Next ==
    \/ \E b \in Beneficiaries : VerifyBeneficiary(b)
    \/ \E q \in AidRequests :
          \/ CreateAidRequest(q)
          \/ AssessRisk(q)
          \/ CreateProgress(q)
          \/ \E decision \in Decisions : VerifyProgress(q, decision)
    \/ \E k \in Slots : Arrive(k) \/ Step(k)

Spec == Init /\ [][Next]_vars

-----------------------------------------------------------------------------
(* Properties. *)

\* Every column and call has its declared shape.
TypeOK ==
    /\ verified \subseteq Beneficiaries
    /\ status \in [AidRequests -> Status]
    /\ approved \subseteq AidRequests
    /\ critical \subseteq AidRequests
    /\ progress \subseteq AidRequests
    /\ decisions \in [AidRequests -> SUBSET Decisions]
    /\ uploaded \subseteq Proofs
    /\ live \subseteq uploaded
    /\ proofCount \in [AidRequests -> Nat]
    /\ received \in [Beneficiaries -> Nat]
    /\ provenance \in [AidRequests -> Nat]
    /\ payments \in [AidRequests -> Nat]
    /\ sent \in [Beneficiaries -> Nat]
    /\ call \in [Slots -> Call \cup {Idle}]
    /\ overlapped \subseteq Beneficiaries
    /\ faults \in 0 .. MaxFaults

\* Money goes only to verified beneficiaries, for aid requests an admin has
\* approved, whatever was approved, rejected or paid at the same time.
PaidOnApproval ==
    \A q \in AidRequests : payments[q] > 0 =>
        q \in approved /\ BeneficiaryOf[q] \in verified

\* Behind the proof gate nothing is paid for an aid request that never had the
\* proofs or whose progress no verifier confirmed, even though a proof may be
\* deleted while the call that counted it goes on.
GateEvidence ==
    ENFORCE_PROOF_GATE =>
        \A q \in AidRequests : payments[q] > 0 =>
            /\ "confirmed" \in decisions[q]
            /\ Cardinality({p \in uploaded : RequestOf[p] = q})
                  >= MIN_PROOFS_FOR_DISBURSE

\* A beneficiary's total_received never exceeds what was really sent, and no
\* aid request has more provenance records than payments: two calls may lose
\* an update, never invent one.
BooksNotInflated ==
    /\ \A b \in Beneficiaries : received[b] <= sent[b]
    /\ \A q \in AidRequests : provenance[q] <= payments[q]

\* A disbursement that overlaps no other call on its beneficiary pays only
\* while the aid request is approved and LINGAP has no record of a payment for
\* it, and what it records is the first record and adds this very amount to
\* total_received: whichever database it is, whatever was lost before (an
\* answer, a call, a commit) and however often it was tried again.
LoneDisbursementExact ==
    [][\A q \in AidRequests : BeneficiaryOf[q] \notin overlapped =>
          /\ payments'[q] > payments[q] =>
                status[q] = "approved" /\ provenance[q] = 0
          /\ provenance'[q] > provenance[q] =>
                /\ provenance[q] = 0
                /\ received'[BeneficiaryOf[q]] = received[BeneficiaryOf[q]] + Amount[q]]_vars

\* proof_count is the number of live proofs, and no file is there twice, as
\* long as calls never overlap, wherever one dies.
ProofsCounted ==
    \A q \in AidRequests : BeneficiaryOf[q] \notin overlapped =>
        /\ proofCount[q] = Cardinality(LiveProofs(q))
        /\ \A o, p \in LiveProofs(q) : FileOf[o] = FileOf[p] => o = p

\* A rejected aid request stays rejected unless another call was under way.
RejectionStays ==
    [][\A q \in AidRequests :
          status[q] = "rejected" /\ BeneficiaryOf[q] \notin overlapped
             => status'[q] = "rejected"]_vars

\* "every peso donated is tracked": a payment made for an aid request has its
\* provenance record once no call is at work, as long as no call died or lost
\* its answer.
PaymentsAreTracked ==
    \A q \in AidRequests :
        BusyWith(BeneficiaryOf[q]) = {} /\ faults = 0 => provenance[q] = payments[q]

\* An aid request is paid once, as long as no call died or lost its answer.
PaidOnce == \A q \in AidRequests : faults = 0 => payments[q] <= 1
=============================================================================
