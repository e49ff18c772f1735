------------------------ MODULE AidDisbursementProofs ------------------------
(***************************************************************************)
(* What holds of aid requests for any beneficiaries, requests, proofs and  *)
(* number of calls in flight, with foreign keys enforced or not.           *)
(*                                                                         *)
(* A call carries what it established: one that disburses belongs to an    *)
(* approved request (DisbursingApproved), one that passed a part of the    *)
(* proof gate has that part's evidence (CountedProofs, PayCleared), one    *)
(* about to record owns a payment nobody recorded (RecordsOwn, SeenBacked).*)
(* Nothing these facts are about is ever taken back, which is why they     *)
(* outlive the awaits.                                                     *)
(*                                                                         *)
(* SoloInv adds what holds of calls that never overlap another on their    *)
(* beneficiary, whatever the calls on others do: such a call is alone      *)
(* (Alone), what it read still stands (ReadsStand), and the total it is    *)
(* about to write is of the books as they are (BooksStand).                *)
(***************************************************************************)
EXTENDS AidDisbursement, FiniteSetTheorems, TLAPS

Requested ==
    \A q \in AidRequests : status[q] # "absent" => BeneficiaryOf[q] \in verified

CallsRequested ==
    \A k \in Slots : call[k] # Idle /\ call[k].step \notin ProofSteps
        => status[call[k].req] # "absent"

ApprovedRows ==
    \A q \in AidRequests : status[q] \in {"approved", "disbursed"} => q \in approved

ApprovedRequested == \A q \in approved : status[q] # "absent"

DisbursingApproved ==
    \A k \in Slots : call[k] # Idle /\ call[k].step \in DisburseSteps
        => call[k].req \in approved

\* The aid requests with enough proofs uploaded, deleted since or not.
Evidenced ==
    {q \in AidRequests :
        Cardinality({p \in uploaded : RequestOf[p] = q}) >= MIN_PROOFS_FOR_DISBURSE}

CountedProofs ==
    ENFORCE_PROOF_GATE =>
        \A k \in Slots : At(k, "confirmations") => call[k].req \in Evidenced

PayCleared ==
    ENFORCE_PROOF_GATE =>
        \A k \in Slots : At(k, "pay") =>
            "confirmed" \in decisions[call[k].req] /\ call[k].req \in Evidenced

Recording(q) == {k \in Slots : At(k, "record") /\ call[k].req = q}

RecordsOwn ==
    \A q \in AidRequests : provenance[q] + Cardinality(Recording(q)) <= payments[q]

SeenBacked ==
    \A k \in Slots : At(k, "record") =>
        call[k].seen + Amount[call[k].req] <= sent[BeneficiaryOf[call[k].req]]

ReceivedSent == \A b \in Beneficiaries : received[b] <= sent[b]

UploadsHold ==
    \A k \in Slots : At(k, "duplicate") \/ At(k, "store") => call[k].proof \in Proofs

ApprovalInv ==
    /\ Requested /\ CallsRequested /\ ApprovedRows /\ ApprovedRequested
    /\ DisbursingApproved
    /\ \A q \in AidRequests : payments[q] > 0 => q \in approved

GateInv == CountedProofs /\ PayCleared /\ GateEvidence

BooksInv == RecordsOwn /\ SeenBacked /\ ReceivedSent

-----------------------------------------------------------------------------
(* Types. *)

LEMMA RequestType ==
    ASSUME NEW step \in Steps, NEW q \in AidRequests
    PROVE  Request(step, q) \in Call
  BY DEF Request, Call

LEMMA CallType ==
    ASSUME TypeOK, NEW k \in Slots, call[k] # Idle
    PROVE  call[k] \in Call
  BY DEF TypeOK

LEMMA InitType == Init => TypeOK
  BY AidAssumption DEF Init, TypeOK, Status

LEMMA BeginType ==
    ASSUME TypeOK, NEW k \in Slots, NEW c \in Call, Begin(k, c)
    PROVE  /\ call' \in [Slots -> Call \cup {Idle}]
           /\ overlapped' \subseteq Beneficiaries
           /\ faults' = faults
<1>1. BeneficiaryOf[c.req] \in Beneficiaries
  BY AidAssumption DEF Call
<1> QED
  BY <1>1 DEF TypeOK, Begin

LEMMA MoveType ==
    ASSUME TypeOK, NEW k \in Slots, NEW step \in Steps, call[k] # Idle,
           Goto(k, step) \/ Return(k)
    PROVE  /\ call' \in [Slots -> Call \cup {Idle}]
           /\ overlapped' \subseteq Beneficiaries
           /\ faults' = faults
<1>1. call[k] \in Call
  BY CallType
<1>2. [call[k] EXCEPT !.step = step] \in Call
  BY <1>1 DEF Call
<1> QED
  BY <1>2 DEF TypeOK, Goto, Return

\* A step that only moves a call keeps the types of everything else.
LEMMA QuietType ==
    ASSUME TypeOK, UNCHANGED <<rows, proofs, books, stellar>>,
           call' \in [Slots -> Call \cup {Idle}],
           overlapped' \subseteq Beneficiaries,
           faults' \in 0 .. MaxFaults
    PROVE  TypeOK'
  BY DEF TypeOK, rows, proofs, books, stellar

LEMMA NextType == TypeOK /\ UploadsHold /\ [Next]_vars => TypeOK'
<1> SUFFICES ASSUME TypeOK, UploadsHold, [Next]_vars PROVE TypeOK'
  OBVIOUS
<1>f. faults \in 0 .. MaxFaults
  BY DEF TypeOK
<1>s. /\ {"approve", "reject", "proofs", "confirmations", "pay", "record",
          "duplicate", "store", "mark", "erase"} \subseteq Steps
      /\ {"pending", "approved", "disbursed", "rejected"} \subseteq Status
  BY DEF Steps, DisburseSteps, ProofSteps, Status
<1>1. ASSUME NEW b \in Beneficiaries, VerifyBeneficiary(b) PROVE TypeOK'
  BY <1>1 DEF VerifyBeneficiary, TypeOK, proofs, books, stellar
<1>2. ASSUME NEW q \in AidRequests, CreateAidRequest(q) PROVE TypeOK'
  BY <1>2, <1>s DEF CreateAidRequest, TypeOK, proofs, books, stellar
<1>3. ASSUME NEW q \in AidRequests, AssessRisk(q) PROVE TypeOK'
  BY <1>3 DEF AssessRisk, TypeOK, proofs, books, stellar
<1>4. ASSUME NEW q \in AidRequests, CreateProgress(q) PROVE TypeOK'
  BY <1>4 DEF CreateProgress, TypeOK, proofs, books, stellar
<1>5. ASSUME NEW q \in AidRequests, NEW decision \in Decisions,
             VerifyProgress(q, decision)
      PROVE  TypeOK'
  <2>1. decisions' \in [AidRequests -> SUBSET Decisions]
    BY <1>5 DEF VerifyProgress, TypeOK
  <2> QED
    BY <1>5, <2>1 DEF VerifyProgress, TypeOK, proofs, books, stellar
<1>6. ASSUME NEW k \in Slots, NEW q \in AidRequests,
             ReadForApproval(k, q) \/ ReadForRejection(k, q)
      PROVE  TypeOK'
  <2>1. Request("approve", q) \in Call /\ Request("reject", q) \in Call
    BY <1>s, RequestType
  <2> QED
    BY <1>6, <1>f, <2>1, BeginType, QuietType DEF ReadForApproval, ReadForRejection
<1>7. ASSUME NEW k \in Slots, NEW q \in AidRequests, NEW override \in BOOLEAN,
             ReadForDisbursement(k, q, override)
      PROVE  TypeOK'
  <2> DEFINE c == [Request(IF ENFORCE_PROOF_GATE THEN "proofs" ELSE "pay", q)
                      EXCEPT !.cleared = override \/ q \notin critical]
  <2>1. c \in Call
    <3>1. (override \/ q \notin critical) \in BOOLEAN
      OBVIOUS
    <3> QED
      BY <1>s, <3>1 DEF Request, Call
  <2> QED
    BY <1>7, <1>f, <2>1, BeginType, QuietType DEF ReadForDisbursement
<1>8. ASSUME NEW k \in Slots, NEW p \in Proofs, ReadForUpload(k, p)
      PROVE  TypeOK'
  <2> DEFINE c == [Request("duplicate", RequestOf[p])
                      EXCEPT !.proof = p, !.seen = proofCount[RequestOf[p]]]
  <2>1. c \in Call
    BY <1>s, AidAssumption DEF Request, Call, TypeOK
  <2> QED
    BY <1>8, <1>f, <2>1, BeginType, QuietType DEF ReadForUpload
<1>9. ASSUME NEW k \in Slots, NEW p \in Proofs, ReadForDeletion(k, p)
      PROVE  TypeOK'
  <2> DEFINE c == [Request("mark", RequestOf[p]) EXCEPT !.proof = p]
  <2>1. c \in Call
    BY <1>s, AidAssumption DEF Request, Call
  <2> QED
    BY <1>9, <1>f, <2>1, BeginType, QuietType DEF ReadForDeletion
<1>10. ASSUME NEW k \in Slots, Approve(k) \/ Reject(k) PROVE TypeOK'
  <2>1. call[k] # Idle /\ call[k] \in Call
    BY <1>10, CallType DEF Approve, Reject, At
  <2>2. call[k].req \in AidRequests
    BY <2>1 DEF Call
  <2>3. /\ call' \in [Slots -> Call \cup {Idle}]
        /\ overlapped' \subseteq Beneficiaries
        /\ faults' = faults
    BY <1>10, <1>s, <2>1, MoveType DEF Approve, Reject
  <2> QED
    BY <1>10, <1>s, <2>2, <2>3
       DEF Approve, Reject, TypeOK, proofs, books, stellar
<1>11. ASSUME NEW k \in Slots,
              CountProofs(k) \/ CountConfirmations(k) \/ CheckDuplicate(k)
       PROVE  TypeOK'
  <2>1. call[k] # Idle
    BY <1>11 DEF CountProofs, CountConfirmations, CheckDuplicate, At
  <2> QED
    BY <1>11, <1>s, <1>f, <2>1, MoveType, QuietType
       DEF CountProofs, CountConfirmations, CheckDuplicate
<1>12. ASSUME NEW k \in Slots, PayBeneficiary(k) PROVE TypeOK'
  <2>1. call[k] # Idle /\ call[k] \in Call
    BY <1>12, CallType DEF PayBeneficiary, At
  <2> DEFINE q == call[k].req
             b == BeneficiaryOf[q]
  <2>2. q \in AidRequests /\ b \in Beneficiaries /\ Amount[q] \in Nat
    BY <2>1, AidAssumption DEF Call
  <2>3. CASE AfterRefusal(k) /\ UNCHANGED stellar
    BY <1>12, <1>s, <1>f, <2>1, <2>3, MoveType, QuietType
       DEF PayBeneficiary, AfterRefusal
  <2>4. CASE Moved(q)
    <3>1. /\ payments' \in [AidRequests -> Nat]
          /\ sent' \in [Beneficiaries -> Nat]
      BY <2>2, <2>4 DEF Moved, TypeOK
    <3>2. received[b] \in Nat
      BY <2>2 DEF TypeOK
    <3>3. [call[k] EXCEPT !.step = "record", !.seen = received[b]] \in Call
      BY <1>s, <2>1, <3>2 DEF Call
    <3>4. call' \in [Slots -> Call \cup {Idle}]
      BY <1>12, <3>3, <1>s, <2>1, MoveType DEF PayBeneficiary, AfterRefusal, TypeOK
    <3>5. overlapped' = overlapped /\ faults' \in 0 .. MaxFaults
      BY <1>12, <1>f, AidAssumption DEF PayBeneficiary, AfterRefusal, Return
    <3> QED
      BY <1>12, <3>1, <3>4, <3>5 DEF PayBeneficiary, TypeOK, rows, proofs, books
  <2> QED
    BY <1>12, <2>3, <2>4 DEF PayBeneficiary
<1>13. ASSUME NEW k \in Slots, RecordDisbursement(k) PROVE TypeOK'
  <2>1. call[k] # Idle /\ call[k] \in Call
    BY <1>13, CallType DEF RecordDisbursement, At
  <2>2. /\ call[k].req \in AidRequests
        /\ BeneficiaryOf[call[k].req] \in Beneficiaries
        /\ ReceivedAfter(k) \in Nat
    BY <2>1, AidAssumption DEF Call, ReceivedAfter
  <2>3. /\ call' \in [Slots -> Call \cup {Idle}]
        /\ overlapped' \subseteq Beneficiaries
        /\ faults' = faults
    BY <1>13, <1>s, <2>1, MoveType DEF RecordDisbursement
  <2>4. /\ status' \in [AidRequests -> Status]
        /\ received' \in [Beneficiaries -> Nat]
        /\ provenance' \in [AidRequests -> Nat]
    <3>1. CASE EnforcesForeignKeys
      BY <1>13, <3>1 DEF RecordDisbursement, TypeOK, books
    <3>2. CASE ~EnforcesForeignKeys
      BY <1>13, <1>s, <2>2, <3>2 DEF RecordDisbursement, StatusDisbursed, TypeOK
    <3> QED
      BY <3>1, <3>2
  <2> QED
    BY <1>13, <2>3, <2>4 DEF RecordDisbursement, TypeOK, proofs, stellar
<1>14. ASSUME NEW k \in Slots, StoreProof(k) PROVE TypeOK'
  <2>1. call[k] # Idle /\ call[k] \in Call
    BY <1>14, CallType DEF StoreProof, At
  <2>2. /\ call[k].req \in AidRequests
        /\ call[k].seen + 1 \in Nat
        /\ call[k].proof \in Proofs
    BY <1>14, <2>1 DEF Call, StoreProof, UploadsHold
  <2>3. /\ call' \in [Slots -> Call \cup {Idle}]
        /\ overlapped' \subseteq Beneficiaries
        /\ faults' = faults
    BY <1>14, <1>s, <2>1, MoveType DEF StoreProof
  <2> QED
    BY <1>14, <2>2, <2>3 DEF StoreProof, TypeOK, rows, books, stellar
<1>15. ASSUME NEW k \in Slots, EraseProof(k) PROVE TypeOK'
  <2>1. call[k] # Idle /\ call[k] \in Call
    BY <1>15, CallType DEF EraseProof, At
  <2>2. call[k].req \in AidRequests /\ CountAfterDeletion(call[k].seen) \in Nat
    BY <2>1 DEF Call, CountAfterDeletion
  <2>3. /\ call' \in [Slots -> Call \cup {Idle}]
        /\ overlapped' \subseteq Beneficiaries
        /\ faults' = faults
    BY <1>15, <1>s, <2>1, MoveType DEF EraseProof
  <2> QED
    BY <1>15, <2>2, <2>3 DEF EraseProof, TypeOK, rows, books, stellar
<1>16. ASSUME NEW k \in Slots, MarkDeleted(k) PROVE TypeOK'
  <2>1. call[k] # Idle /\ call[k] \in Call
    BY <1>16, CallType DEF MarkDeleted, At
  <2>2. proofCount[call[k].req] \in Nat
    BY <2>1 DEF Call, TypeOK
  <2>3. [call[k] EXCEPT !.step = "erase", !.seen = proofCount[call[k].req]] \in Call
    BY <1>s, <2>1, <2>2 DEF Call
  <2>4. call' \in [Slots -> Call \cup {Idle}]
    BY <1>16, <2>3 DEF MarkDeleted, TypeOK
  <2>5. overlapped' \subseteq Beneficiaries /\ faults' = faults
    BY <1>16 DEF MarkDeleted, TypeOK
  <2> QED
    BY <1>16, <1>f, <2>4, <2>5, QuietType DEF MarkDeleted
<1>17. ASSUME NEW k \in Slots, Abort(k) PROVE TypeOK'
  <2>1. call' \in [Slots -> Call \cup {Idle}] /\ overlapped' \subseteq Beneficiaries
    BY <1>17 DEF Abort, TypeOK
  <2>2. faults' \in 0 .. MaxFaults
    BY <1>17, <1>f, AidAssumption DEF Abort
  <2> QED
    BY <1>17, <2>1, <2>2, QuietType DEF Abort
<1>18. CASE UNCHANGED vars
  BY <1>18, <1>f, QuietType DEF vars, TypeOK
<1> QED
  BY <1>1, <1>2, <1>3, <1>4, <1>5, <1>6, <1>7, <1>8, <1>9, <1>10, <1>11, <1>12,
     <1>13, <1>14, <1>15, <1>16, <1>17, <1>18 DEF Next, Arrive, Step

-----------------------------------------------------------------------------
(* What moving a call keeps. *)

AidInv == TypeOK /\ UploadsHold /\ ApprovalInv /\ GateInv /\ BooksInv

LEMMA InitAid == Init => AidInv
<1> SUFFICES ASSUME Init PROVE AidInv
  OBVIOUS
<1>1. TypeOK
  BY InitType
<1>2. UploadsHold /\ ApprovalInv
  BY AidAssumption
     DEF Init, UploadsHold, ApprovalInv, Requested, CallsRequested, ApprovedRows,
         ApprovedRequested, DisbursingApproved, At
<1>3. GateInv
  BY DEF Init, GateInv, CountedProofs, PayCleared, GateEvidence, At
<1>4. BooksInv
  <2>1. \A q \in AidRequests : Recording(q) = {}
    BY DEF Init, Recording, At
  <2> QED
    BY <2>1, FS_EmptySet
       DEF Init, BooksInv, RecordsOwn, SeenBacked, ReceivedSent, At
<1> QED
  BY <1>1, <1>2, <1>3, <1>4 DEF AidInv

\* How many calls are about to record a payment is a number, and it falls by
\* one when one of them ends.
LEMMA RecordingCount ==
    ASSUME NEW q
    PROVE  IsFiniteSet(Recording(q)) /\ Cardinality(Recording(q)) \in Nat
  BY AidAssumption, FS_Subset, FS_CardinalityType DEF Recording

\* A call that ends or moves on without touching a row may only take with it
\* what it established.
LEMMA CallStep ==
    ASSUME AidInv, TypeOK', NEW k \in Slots,
           UNCHANGED <<rows, proofs, books, stellar>>,
           \A j \in Slots \ {k} : call'[j] = call[j],
           \/ call'[k] = Idle
           \/ /\ call'[k].step \notin ProofSteps => status[call'[k].req] # "absent"
              /\ call'[k].step \in DisburseSteps => call'[k].req \in approved
              /\ call'[k].step \in {"duplicate", "store"} => call'[k].proof \in Proofs
              /\ call'[k].step = "confirmations" /\ ENFORCE_PROOF_GATE
                    => call'[k].req \in Evidenced
              /\ call'[k].step = "pay" /\ ENFORCE_PROOF_GATE
                    => "confirmed" \in decisions[call'[k].req] /\ call'[k].req \in Evidenced
              /\ call'[k].step # "record"
    PROVE  AidInv'
<1>1. UploadsHold' /\ ApprovalInv'
  <2>1. UploadsHold'
    BY DEF AidInv, UploadsHold, At
  <2>2. CallsRequested' /\ DisbursingApproved'
    BY DEF AidInv, ApprovalInv, CallsRequested, DisbursingApproved, rows
  <2> QED
    BY <2>1, <2>2
       DEF AidInv, ApprovalInv, Requested, ApprovedRows, ApprovedRequested, rows, stellar
<1>2. Evidenced' = Evidenced
  BY DEF Evidenced, proofs
<1>3. GateInv'
  <2>1. CountedProofs'
    BY <1>2 DEF AidInv, GateInv, CountedProofs, At
  <2>2. PayCleared'
    BY <1>2 DEF AidInv, GateInv, PayCleared, At, rows
  <2>3. GateEvidence'
    BY DEF AidInv, GateInv, GateEvidence, rows, proofs, stellar
  <2> QED
    BY <2>1, <2>2, <2>3 DEF GateInv
<1>4. RecordsOwn'
  <2> SUFFICES ASSUME NEW q \in AidRequests
               PROVE  provenance[q] + Cardinality(Recording(q)') <= payments[q]
    BY DEF RecordsOwn, books, stellar
  <2>1. Recording(q)' \subseteq Recording(q)
    BY DEF Recording, At
  <2>2. /\ Cardinality(Recording(q)') \in Nat
        /\ Cardinality(Recording(q)') <= Cardinality(Recording(q))
    BY <2>1, RecordingCount, FS_Subset, FS_CardinalityType
  <2>3. provenance[q] \in Nat /\ payments[q] \in Nat /\ Cardinality(Recording(q)) \in Nat
    BY RecordingCount DEF AidInv, TypeOK
  <2>4. provenance[q] + Cardinality(Recording(q)) <= payments[q]
    BY DEF AidInv, BooksInv, RecordsOwn
  <2> QED
    BY <2>2, <2>3, <2>4
<1>5. SeenBacked' /\ ReceivedSent'
  BY DEF AidInv, BooksInv, SeenBacked, ReceivedSent, At, books, stellar
<1> QED
  BY <1>1, <1>3, <1>4, <1>5 DEF AidInv, BooksInv

\* The invariant's other half: a step of a row that leaves every call alone.
LEMMA RowStep ==
    ASSUME AidInv, TypeOK', UNCHANGED <<call, uploaded, books, stellar>>,
           verified \subseteq verified',
           \A q \in AidRequests : decisions[q] \subseteq decisions'[q],
           UNCHANGED approved,
           \A q \in AidRequests :
              \/ status'[q] = status[q]
              \/ status'[q] = "pending" /\ BeneficiaryOf[q] \in verified
    PROVE  AidInv'
<1>1. UploadsHold' /\ ApprovalInv'
  <2>1. \A k \in Slots : call[k] # Idle => call[k].req \in AidRequests
    BY CallType DEF AidInv, Call
  <2>2. \A q \in approved : q \in AidRequests
    BY DEF AidInv, TypeOK
  <2> QED
    BY <2>1, <2>2
       DEF AidInv, UploadsHold, ApprovalInv, Requested, CallsRequested, ApprovedRows,
           ApprovedRequested, DisbursingApproved, At, stellar
<1>2. GateInv'
  <2>1. \A k \in Slots : call[k] # Idle => call[k].req \in AidRequests
    BY CallType DEF AidInv, Call
  <2>2. Evidenced' = Evidenced
    BY DEF Evidenced
  <2>3. CountedProofs'
    BY <2>2 DEF AidInv, GateInv, CountedProofs, At
  <2>4. PayCleared'
    BY <2>1, <2>2 DEF AidInv, GateInv, PayCleared, At
  <2>5. GateEvidence'
    BY DEF AidInv, GateInv, GateEvidence, stellar
  <2> QED
    BY <2>3, <2>4, <2>5 DEF GateInv
<1>3. BooksInv'
  BY DEF AidInv, BooksInv, RecordsOwn, Recording, SeenBacked, ReceivedSent, At, books,
         stellar
<1> QED
  BY <1>1, <1>2, <1>3 DEF AidInv
-----------------------------------------------------------------------------
(* Steps that only move a call. *)

LEMMA ReadStep ==
    ASSUME AidInv, TypeOK', NEW k \in Slots, NEW q \in AidRequests,
           \/ ReadForApproval(k, q)
           \/ ReadForRejection(k, q)
           \/ \E override \in BOOLEAN : ReadForDisbursement(k, q, override)
    PROVE  AidInv'
<1> DEFINE c == call'[k]
<1>1. /\ UNCHANGED <<rows, proofs, books, stellar>>
      /\ status[q] # "absent"
      /\ \A j \in Slots \ {k} : call'[j] = call[j]
  BY DEF ReadForApproval, ReadForRejection, ReadForDisbursement, Disbursable, Begin,
         AidInv, TypeOK
<1>2. CASE ReadForApproval(k, q) \/ ReadForRejection(k, q)
  <2>1. c = Request("approve", q) \/ c = Request("reject", q)
    BY <1>2 DEF ReadForApproval, ReadForRejection, Begin, AidInv, TypeOK
  <2>2. c.req = q /\ c.step \in {"approve", "reject"}
    BY <2>1 DEF Request
  <2> QED
    BY <1>1, <2>2, CallStep DEF DisburseSteps, ProofSteps
<1>3. ASSUME NEW override \in BOOLEAN, ReadForDisbursement(k, q, override)
      PROVE  AidInv'
  <2> DEFINE step == IF ENFORCE_PROOF_GATE THEN "proofs" ELSE "pay"
             cleared == override \/ q \notin critical
  <2>1. c = [Request(step, q) EXCEPT !.cleared = cleared]
    BY <1>3 DEF ReadForDisbursement, Begin, AidInv, TypeOK
  <2>2. /\ c.req = q
        /\ ENFORCE_PROOF_GATE => c.step = "proofs"
        /\ c.step \in {"proofs", "pay"}
    BY <2>1 DEF Request
  <2>3. q \in approved
    BY <1>3 DEF ReadForDisbursement, Disbursable, AidInv, ApprovalInv, ApprovedRows
  <2> QED
    BY <1>1, <2>2, <2>3, CallStep DEF ProofSteps
<1> QED
  BY <1>2, <1>3

LEMMA ReadProofStep ==
    ASSUME AidInv, TypeOK', NEW k \in Slots, NEW p \in Proofs,
           ReadForUpload(k, p) \/ ReadForDeletion(k, p)
    PROVE  AidInv'
<1> DEFINE c == call'[k]
<1>1. /\ UNCHANGED <<rows, proofs, books, stellar>>
      /\ \A j \in Slots \ {k} : call'[j] = call[j]
  BY DEF ReadForUpload, ReadForDeletion, Begin, AidInv, TypeOK
<1>2. c.req = RequestOf[p] /\ c.proof = p /\ c.step \in {"duplicate", "mark"}
  BY DEF ReadForUpload, ReadForDeletion, Begin, Request, AidInv, TypeOK
<1> QED
  BY <1>1, <1>2, CallStep DEF ProofSteps, DisburseSteps

LEMMA GateStep ==
    ASSUME AidInv, TypeOK', NEW k \in Slots,
           CountProofs(k) \/ CountConfirmations(k)
    PROVE  AidInv'
<1> DEFINE q == call[k].req
<1>1. /\ UNCHANGED <<rows, proofs, books, stellar>>
      /\ \A j \in Slots \ {k} : call'[j] = call[j]
      /\ call[k] # Idle
      /\ call[k].step \in {"proofs", "confirmations"}
  BY DEF CountProofs, CountConfirmations, At, Goto, Return, AidInv, TypeOK
<1>2. call[k] \in Call /\ q \in AidRequests
  BY <1>1, CallType DEF AidInv, Call
<1>3. q \in approved /\ status[q] # "absent"
  BY <1>1, <1>2
     DEF AidInv, ApprovalInv, DisbursingApproved, ApprovedRequested, DisburseSteps
<1>4. CASE call'[k] = Idle
  BY <1>1, <1>4, CallStep
<1>5. CASE CountProofs(k) /\ Cardinality(LiveProofs(q)) >= MIN_PROOFS_FOR_DISBURSE
  <2>1. call'[k].req = q /\ call'[k].step = "confirmations"
    BY <1>2, <1>5 DEF CountProofs, Goto, AidInv, TypeOK, Call
  <2>2. q \in Evidenced
    <3> DEFINE there == {p \in uploaded : RequestOf[p] = q}
    <3>1. LiveProofs(q) \subseteq there /\ there \subseteq Proofs
      BY DEF LiveProofs, AidInv, TypeOK
    <3>2. IsFiniteSet(there)
      BY <3>1, AidAssumption, FS_Subset
    <3>3. /\ Cardinality(LiveProofs(q)) \in Nat
          /\ Cardinality(there) \in Nat
          /\ Cardinality(LiveProofs(q)) <= Cardinality(there)
      BY <3>1, <3>2, FS_Subset, FS_CardinalityType
    <3>4. Cardinality(there) >= MIN_PROOFS_FOR_DISBURSE
      BY <1>5, <3>3, AidAssumption
    <3> QED
      BY <1>2, <3>4 DEF Evidenced
  <2> QED
    BY <1>1, <1>3, <2>1, <2>2, CallStep
<1>6. CASE CountConfirmations(k) /\ Confirmed(q) /\ call[k].cleared
  <2>1. call'[k].req = q /\ call'[k].step = "pay"
    BY <1>2, <1>6 DEF CountConfirmations, Goto, AidInv, TypeOK, Call
  <2>2. ENFORCE_PROOF_GATE => q \in Evidenced /\ "confirmed" \in decisions[q]
    BY <1>6 DEF CountConfirmations, Confirmed, AidInv, GateInv, CountedProofs
  <2> QED
    BY <1>1, <1>3, <2>1, <2>2, CallStep
<1> QED
  BY <1>4, <1>5, <1>6 DEF CountProofs, CountConfirmations, Return, AidInv, TypeOK

LEMMA ProofCallStep ==
    ASSUME AidInv, TypeOK', NEW k \in Slots, CheckDuplicate(k) \/ MarkDeleted(k)
    PROVE  AidInv'
<1>1. /\ UNCHANGED <<rows, proofs, books, stellar>>
      /\ \A j \in Slots \ {k} : call'[j] = call[j]
      /\ call[k] # Idle
      /\ call[k].step \in {"duplicate", "mark"}
  BY DEF CheckDuplicate, MarkDeleted, At, Goto, Return, AidInv, TypeOK
<1>2. call[k] \in Call
  BY <1>1, CallType DEF AidInv
<1>3. CASE call'[k] = Idle
  BY <1>1, <1>3, CallStep
<1>4. CASE call'[k].step = "erase"
  BY <1>1, <1>4, CallStep DEF ProofSteps, DisburseSteps
<1>5. CASE CheckDuplicate(k) /\ Goto(k, "store")
  <2>1. call'[k].step = "store" /\ call'[k].proof = call[k].proof
    BY <1>2, <1>5 DEF Goto, AidInv, TypeOK, Call
  <2>2. call[k].proof \in Proofs
    BY <1>5 DEF CheckDuplicate, AidInv, UploadsHold
  <2> QED
    BY <1>1, <2>1, <2>2, CallStep DEF ProofSteps, DisburseSteps
<1>6. MarkDeleted(k) => call'[k].step = "erase"
  BY <1>2 DEF MarkDeleted, AidInv, TypeOK, Call
<1> QED
  BY <1>3, <1>4, <1>5, <1>6 DEF CheckDuplicate, Return, AidInv, TypeOK

\* A call that ends without a word, at whatever step.
LEMMA EndStep ==
    ASSUME AidInv, TypeOK', NEW k \in Slots,
           UNCHANGED <<rows, proofs, books, stellar>>,
           call' = [call EXCEPT ![k] = Idle]
    PROVE  AidInv'
<1>1. call'[k] = Idle /\ \A j \in Slots \ {k} : call'[j] = call[j]
  BY DEF AidInv, TypeOK
<1> QED
  BY <1>1, CallStep

-----------------------------------------------------------------------------
(* Steps that change rows. *)

LEMMA RowActions ==
    ASSUME AidInv, TypeOK',
           \/ \E b \in Beneficiaries : VerifyBeneficiary(b)
           \/ \E q \in AidRequests :
                 \/ CreateAidRequest(q)
                 \/ AssessRisk(q)
                 \/ CreateProgress(q)
                 \/ \E decision \in Decisions : VerifyProgress(q, decision)
    PROVE  AidInv'
<1>1. UNCHANGED <<call, uploaded, books, stellar, approved>>
  BY DEF VerifyBeneficiary, CreateAidRequest, AssessRisk, CreateProgress,
         VerifyProgress, proofs
<1>2. verified \subseteq verified'
  BY DEF VerifyBeneficiary, CreateAidRequest, AssessRisk, CreateProgress, VerifyProgress
<1>3. \A q \in AidRequests : decisions[q] \subseteq decisions'[q]
  BY DEF VerifyBeneficiary, CreateAidRequest, AssessRisk, CreateProgress,
         VerifyProgress, AidInv, TypeOK
<1>4. \A q \in AidRequests :
         \/ status'[q] = status[q]
         \/ status'[q] = "pending" /\ BeneficiaryOf[q] \in verified
  BY DEF VerifyBeneficiary, CreateAidRequest, MayRequest, AssessRisk, CreateProgress,
         VerifyProgress, AidInv, TypeOK
<1> QED
  BY <1>1, <1>2, <1>3, <1>4, RowStep

\* When a call ends nobody else comes to own a payment.
LEMMA RecordingShrinks ==
    ASSUME NEW q, \A j \in Slots : At(j, "record")' => call'[j] = call[j]
    PROVE  /\ IsFiniteSet(Recording(q)')
           /\ Cardinality(Recording(q)') \in Nat
           /\ Cardinality(Recording(q)') <= Cardinality(Recording(q))
<1>1. Recording(q)' \subseteq Recording(q)
  BY DEF Recording, At
<1> QED
  BY <1>1, RecordingCount, FS_Subset, FS_CardinalityType

LEMMA EndedBooks ==
    ASSUME AidInv, TypeOK', NEW k \in Slots, UNCHANGED <<books, stellar>>,
           \A j \in Slots \ {k} : call'[j] = call[j],
           call'[k] = Idle
    PROVE  BooksInv'
<1>1. RecordsOwn'
  <2> SUFFICES ASSUME NEW q \in AidRequests
               PROVE  provenance[q] + Cardinality(Recording(q)') <= payments[q]
    BY DEF RecordsOwn, books, stellar
  <2>1. /\ Cardinality(Recording(q)') \in Nat
        /\ Cardinality(Recording(q)') <= Cardinality(Recording(q))
    BY RecordingShrinks DEF At
  <2>2. provenance[q] \in Nat /\ payments[q] \in Nat /\ Cardinality(Recording(q)) \in Nat
    BY RecordingCount DEF AidInv, TypeOK
  <2>3. provenance[q] + Cardinality(Recording(q)) <= payments[q]
    BY DEF AidInv, BooksInv, RecordsOwn
  <2> QED
    BY <2>1, <2>2, <2>3
<1>2. SeenBacked' /\ ReceivedSent'
  BY DEF AidInv, BooksInv, SeenBacked, ReceivedSent, At, books, stellar
<1> QED
  BY <1>1, <1>2 DEF BooksInv

\* Uploading a proof takes nobody's evidence away.
LEMMA EvidenceGrows ==
    ASSUME TypeOK', uploaded \subseteq uploaded'
    PROVE  Evidenced \subseteq Evidenced'
<1> SUFFICES ASSUME NEW q \in Evidenced PROVE q \in Evidenced'
  OBVIOUS
<1> DEFINE before == {p \in uploaded : RequestOf[p] = q}
<1>1. PICK after : after = {p \in uploaded' : RequestOf[p] = q}
  OBVIOUS
<1>2. before \subseteq after /\ after \subseteq Proofs
  BY <1>1 DEF TypeOK
<1>3. IsFiniteSet(after)
  BY <1>2, AidAssumption, FS_Subset
<1>4. /\ Cardinality(before) \in Nat
      /\ Cardinality(after) \in Nat
      /\ Cardinality(before) <= Cardinality(after)
  BY <1>2, <1>3, FS_Subset, FS_CardinalityType
<1>5. Cardinality(after) >= MIN_PROOFS_FOR_DISBURSE
  BY <1>4, AidAssumption DEF Evidenced
<1> QED
  BY <1>1, <1>5 DEF Evidenced

LEMMA ReviewStep ==
    ASSUME AidInv, TypeOK', NEW k \in Slots, Approve(k) \/ Reject(k)
    PROVE  AidInv'
<1> DEFINE q == call[k].req
<1>1. /\ UNCHANGED <<verified, decisions, proofs, books, stellar>>
      /\ \A j \in Slots \ {k} : call'[j] = call[j]
      /\ call'[k] = Idle
      /\ call[k] # Idle
      /\ call[k].step \in {"approve", "reject"}
  BY DEF Approve, Reject, At, Return, AidInv, TypeOK
<1>2. q \in AidRequests
  BY <1>1, CallType DEF AidInv, Call
<1>3. /\ status[q] # "absent"
      /\ BeneficiaryOf[q] \in verified
  BY <1>1, <1>2 DEF AidInv, ApprovalInv, CallsRequested, Requested, ProofSteps
<1>4. /\ approved \subseteq approved'
      /\ \A r \in approved' : r = q \/ r \in approved
      /\ \A r \in AidRequests : r # q => status'[r] = status[r]
      /\ status'[q] \in {"approved", "rejected"}
      /\ status'[q] = "approved" => q \in approved'
  BY <1>2 DEF Approve, Reject, AidInv, TypeOK
<1>5. UploadsHold'
  BY <1>1 DEF AidInv, UploadsHold, At
<1>6. ApprovalInv'
  <2>1. Requested'
    BY <1>1, <1>3, <1>4 DEF AidInv, ApprovalInv, Requested
  <2>2. CallsRequested'
    <3> SUFFICES ASSUME NEW j \in Slots, call'[j] # Idle, call'[j].step \notin ProofSteps
                 PROVE  status'[call'[j].req] # "absent"
      BY DEF CallsRequested
    <3>1. call'[j] = call[j]
      BY <1>1
    <3>2. call[j].req \in AidRequests /\ status[call[j].req] # "absent"
      BY <3>1, CallType DEF AidInv, Call, ApprovalInv, CallsRequested
    <3> QED
      BY <1>4, <3>1, <3>2
  <2>3. ApprovedRows'
    BY <1>4 DEF AidInv, ApprovalInv, ApprovedRows
  <2>4. ApprovedRequested'
    BY <1>4 DEF AidInv, ApprovalInv, ApprovedRequested, TypeOK
  <2>5. DisbursingApproved'
    BY <1>1, <1>4 DEF AidInv, ApprovalInv, DisbursingApproved
  <2>6. (\A r \in AidRequests : payments[r] > 0 => r \in approved)'
    BY <1>1, <1>4 DEF AidInv, ApprovalInv, stellar
  <2> QED
    BY <2>1, <2>2, <2>3, <2>4, <2>5, <2>6 DEF ApprovalInv
<1>7. GateInv'
  <2>1. Evidenced' = Evidenced
    BY <1>1 DEF Evidenced, proofs
  <2>2. CountedProofs'
    BY <1>1, <2>1 DEF AidInv, GateInv, CountedProofs, At
  <2>3. PayCleared'
    BY <1>1, <2>1 DEF AidInv, GateInv, PayCleared, At
  <2>4. GateEvidence'
    BY <1>1 DEF AidInv, GateInv, GateEvidence, proofs, stellar
  <2> QED
    BY <2>2, <2>3, <2>4 DEF GateInv
<1>8. BooksInv'
  BY <1>1, EndedBooks
<1> QED
  BY <1>5, <1>6, <1>7, <1>8 DEF AidInv

LEMMA ProofRowStep ==
    ASSUME AidInv, TypeOK', NEW k \in Slots, StoreProof(k) \/ EraseProof(k)
    PROVE  AidInv'
<1>1. /\ UNCHANGED <<rows, books, stellar>>
      /\ \A j \in Slots \ {k} : call'[j] = call[j]
      /\ call'[k] = Idle
      /\ uploaded \subseteq uploaded'
  BY DEF StoreProof, EraseProof, At, Return, AidInv, TypeOK
<1>2. UploadsHold'
  BY <1>1 DEF AidInv, UploadsHold, At
<1>3. ApprovalInv'
  <2>1. CallsRequested'
    BY <1>1 DEF AidInv, ApprovalInv, CallsRequested, rows
  <2>2. DisbursingApproved'
    BY <1>1 DEF AidInv, ApprovalInv, DisbursingApproved, rows
  <2> QED
    BY <1>1, <2>1, <2>2
       DEF AidInv, ApprovalInv, Requested, ApprovedRows, ApprovedRequested, rows, stellar
<1>4. GateInv'
  <2>1. Evidenced \subseteq Evidenced'
    BY <1>1, EvidenceGrows DEF AidInv
  <2>2. CountedProofs'
    BY <1>1, <2>1 DEF AidInv, GateInv, CountedProofs, At
  <2>3. PayCleared'
    BY <1>1, <2>1 DEF AidInv, GateInv, PayCleared, At, rows
  <2>4. GateEvidence'
    BY <1>1, <2>1 DEF AidInv, GateInv, GateEvidence, Evidenced, rows, stellar
  <2> QED
    BY <2>2, <2>3, <2>4 DEF GateInv
<1>5. BooksInv'
  BY <1>1, EndedBooks
<1> QED
  BY <1>2, <1>3, <1>4, <1>5 DEF AidInv

-----------------------------------------------------------------------------
(* Money. *)

\* A payment is made for q, and call k goes on to record it or is lost.
LEMMA PaidBooks ==
    ASSUME AidInv, TypeOK', NEW k \in Slots, NEW q \in AidRequests,
           UNCHANGED books, Moved(q),
           \A j \in Slots \ {k} : call'[j] = call[j],
           \/ call'[k] = Idle
           \/ call'[k].req = q /\ call'[k].seen = received[BeneficiaryOf[q]]
    PROVE  BooksInv'
<1> DEFINE b == BeneficiaryOf[q]
<1>1. b \in Beneficiaries /\ Amount[q] \in Nat
  BY AidAssumption
<1>2. /\ payments'[q] = payments[q] + 1
      /\ \A r \in AidRequests : r # q => payments'[r] = payments[r]
      /\ sent'[b] = sent[b] + Amount[q]
      /\ \A c \in Beneficiaries : c # b => sent'[c] = sent[c]
  BY <1>1 DEF Moved, AidInv, TypeOK
<1>3. \A c \in Beneficiaries : sent[c] \in Nat /\ received[c] \in Nat
  BY DEF AidInv, TypeOK
<1>4. \A c \in Beneficiaries : sent[c] <= sent'[c]
  <2> SUFFICES ASSUME NEW c \in Beneficiaries PROVE sent[c] <= sent'[c]
    OBVIOUS
  <2>1. CASE c = b
    BY <1>1, <1>2, <1>3, <2>1
  <2>2. CASE c # b
    BY <1>2, <1>3, <2>2
  <2> QED
    BY <2>1, <2>2
<1>5. RecordsOwn'
  <2> SUFFICES ASSUME NEW r \in AidRequests
               PROVE  provenance[r] + Cardinality(Recording(r)') <= payments'[r]
    BY DEF RecordsOwn, books
  <2>1. /\ provenance[r] \in Nat /\ payments[r] \in Nat
        /\ IsFiniteSet(Recording(r)) /\ Cardinality(Recording(r)) \in Nat
    BY RecordingCount DEF AidInv, TypeOK
  <2>2. provenance[r] + Cardinality(Recording(r)) <= payments[r]
    BY DEF AidInv, BooksInv, RecordsOwn
  <2>3. CASE r = q
    <3>1. Recording(r)' \subseteq Recording(r) \cup {k}
      BY DEF Recording, At
    <3>2. /\ IsFiniteSet(Recording(r) \cup {k})
          /\ Cardinality(Recording(r) \cup {k}) \in Nat
          /\ Cardinality(Recording(r) \cup {k}) <= Cardinality(Recording(r)) + 1
      <4>1. /\ IsFiniteSet(Recording(r) \cup {k})
            /\ \/ Cardinality(Recording(r) \cup {k}) = Cardinality(Recording(r))
               \/ Cardinality(Recording(r) \cup {k}) = Cardinality(Recording(r)) + 1
        BY <2>1, FS_AddElement
      <4> QED
        BY <2>1, <4>1
    <3>3. /\ Cardinality(Recording(r)') \in Nat
          /\ Cardinality(Recording(r)') <= Cardinality(Recording(r) \cup {k})
      BY <3>1, <3>2, FS_Subset, FS_CardinalityType
    <3> QED
      BY <1>2, <2>1, <2>2, <2>3, <3>2, <3>3
  <2>4. CASE r # q
    <3>1. Recording(r)' \subseteq Recording(r)
      BY <2>4 DEF Recording, At
    <3>2. /\ Cardinality(Recording(r)') \in Nat
          /\ Cardinality(Recording(r)') <= Cardinality(Recording(r))
      BY <2>1, <3>1, FS_Subset, FS_CardinalityType
    <3> QED
      BY <1>2, <2>1, <2>2, <2>4, <3>2
  <2> QED
    BY <2>3, <2>4
<1>6. SeenBacked'
  <2> SUFFICES ASSUME NEW j \in Slots, call'[j] # Idle, call'[j].step = "record"
               PROVE  call'[j].seen + Amount[call'[j].req]
                         <= sent'[BeneficiaryOf[call'[j].req]]
    BY DEF SeenBacked, At
  <2>1. CASE j = k
    <3>1. received[b] <= sent[b]
      BY <1>1 DEF AidInv, BooksInv, ReceivedSent
    <3> QED
      BY <1>1, <1>2, <1>3, <2>1, <3>1
  <2>2. CASE j # k
    <3>1. call'[j] = call[j]
      BY <2>2
    <3>2. call[j] \in Call
      BY <3>1, CallType DEF AidInv
    <3>3. /\ call[j].seen \in Nat
          /\ Amount[call[j].req] \in Nat
          /\ BeneficiaryOf[call[j].req] \in Beneficiaries
      BY <3>2, AidAssumption DEF Call
    <3>4. call[j].seen + Amount[call[j].req] <= sent[BeneficiaryOf[call[j].req]]
      BY <3>1 DEF AidInv, BooksInv, SeenBacked, At
    <3>5. sent'[BeneficiaryOf[call[j].req]] \in Nat
      BY <3>3 DEF TypeOK
    <3> QED
      BY <1>3, <1>4, <3>1, <3>3, <3>4, <3>5
  <2> QED
    BY <2>1, <2>2
<1>7. ReceivedSent'
  <2>1. \A c \in Beneficiaries : sent'[c] \in Nat /\ received[c] <= sent[c]
    BY DEF TypeOK, AidInv, BooksInv, ReceivedSent
  <2> QED
    BY <1>3, <1>4, <2>1 DEF ReceivedSent, books
<1> QED
  BY <1>5, <1>6, <1>7 DEF BooksInv

LEMMA PayStep ==
    ASSUME AidInv, TypeOK', NEW k \in Slots, PayBeneficiary(k)
    PROVE  AidInv'
<1> DEFINE q == call[k].req
<1>1. call[k] # Idle /\ call[k].step = "pay" /\ UNCHANGED <<rows, proofs, books>>
  BY DEF PayBeneficiary, At
<1>2. call[k] \in Call /\ q \in AidRequests
  BY <1>1, CallType DEF AidInv, Call
<1>3. CASE AfterRefusal(k) /\ UNCHANGED stellar
  BY <1>1, <1>3, EndStep DEF AfterRefusal, Return
<1>4. CASE Moved(q)
  <2>1. /\ \A j \in Slots \ {k} : call'[j] = call[j]
        /\ \/ call'[k] = Idle
           \/ /\ call'[k].req = q
              /\ call'[k].step = "record"
              /\ call'[k].seen = received[BeneficiaryOf[q]]
    BY <1>2 DEF PayBeneficiary, AfterRefusal, Return, AidInv, TypeOK, Call
  <2>2. q \in approved /\ status[q] # "absent"
    BY <1>1, <1>2
       DEF AidInv, ApprovalInv, DisbursingApproved, ApprovedRequested, DisburseSteps
  <2>3. UploadsHold'
    BY <2>1 DEF AidInv, UploadsHold, At
  <2>4. \A r \in AidRequests : r # q => payments'[r] = payments[r]
    BY <1>4 DEF Moved, AidInv, TypeOK
  <2>5. ApprovalInv'
    <3>1. CallsRequested'
      BY <1>1, <2>1, <2>2 DEF AidInv, ApprovalInv, CallsRequested, rows
    <3>2. DisbursingApproved'
      BY <1>1, <2>1, <2>2 DEF AidInv, ApprovalInv, DisbursingApproved, rows
    <3>3. (\A r \in AidRequests : payments[r] > 0 => r \in approved)'
      BY <1>1, <2>2, <2>4 DEF AidInv, ApprovalInv, rows
    <3> QED
      BY <1>1, <3>1, <3>2, <3>3
         DEF AidInv, ApprovalInv, Requested, ApprovedRows, ApprovedRequested, rows
  <2>6. GateInv'
    <3>1. Evidenced' = Evidenced
      BY <1>1 DEF Evidenced, proofs
    <3>2. CountedProofs'
      BY <2>1, <3>1 DEF AidInv, GateInv, CountedProofs, At
    <3>3. PayCleared'
      BY <1>1, <2>1, <3>1 DEF AidInv, GateInv, PayCleared, At, rows
    <3>4. ENFORCE_PROOF_GATE => "confirmed" \in decisions[q] /\ q \in Evidenced
      BY <1>1 DEF AidInv, GateInv, PayCleared, At
    <3>5. GateEvidence'
      BY <1>1, <2>4, <3>4 DEF AidInv, GateInv, GateEvidence, Evidenced, rows, proofs
    <3> QED
      BY <3>2, <3>3, <3>5 DEF GateInv
  <2>7. BooksInv'
    BY <1>1, <1>2, <1>4, <2>1, PaidBooks
  <2> QED
    BY <2>3, <2>5, <2>6, <2>7 DEF AidInv
<1> QED
  BY <1>3, <1>4 DEF PayBeneficiary

LEMMA RecordStep ==
    ASSUME AidInv, TypeOK', NEW k \in Slots, RecordDisbursement(k)
    PROVE  AidInv'
<1> DEFINE q == call[k].req
           b == BeneficiaryOf[q]
<1>1. /\ UNCHANGED <<verified, approved, critical, progress, decisions, proofs, stellar>>
      /\ call' = [call EXCEPT ![k] = Idle]
      /\ At(k, "record")
  BY DEF RecordDisbursement, Return
<1>2. /\ call'[k] = Idle
      /\ \A j \in Slots \ {k} : call'[j] = call[j]
      /\ call[k] # Idle /\ call[k].step = "record"
  BY <1>1 DEF AidInv, TypeOK, At
<1>3. q \in AidRequests /\ b \in Beneficiaries
  BY <1>2, CallType, AidAssumption DEF AidInv, Call
<1>4. CASE EnforcesForeignKeys
  <2>1. UNCHANGED <<rows, proofs, books, stellar>>
    BY <1>1, <1>4 DEF RecordDisbursement, rows, books
  <2> QED
    BY <1>1, <2>1, EndStep
<1>5. CASE ~EnforcesForeignKeys
  <2>1. /\ status' = [status EXCEPT ![q] = "disbursed"]
        /\ received' = [received EXCEPT ![b] = ReceivedAfter(k)]
        /\ provenance' = [provenance EXCEPT ![q] = @ + 1]
    BY <1>5 DEF RecordDisbursement, StatusDisbursed
  <2>2. /\ status'[q] = "disbursed"
        /\ \A r \in AidRequests : r # q => status'[r] = status[r]
    BY <1>3, <2>1 DEF AidInv, TypeOK
  <2>3. q \in approved /\ status[q] # "absent" /\ b \in verified
    BY <1>2, <1>3
       DEF AidInv, ApprovalInv, DisbursingApproved, ApprovedRequested, Requested,
           DisburseSteps
  <2>4. UploadsHold'
    BY <1>2 DEF AidInv, UploadsHold, At
  <2>5. ApprovalInv'
    <3>1. Requested'
      BY <1>1, <2>2, <2>3 DEF AidInv, ApprovalInv, Requested
    <3>2. CallsRequested'
      <4> SUFFICES ASSUME NEW j \in Slots, call'[j] # Idle,
                          call'[j].step \notin ProofSteps
                   PROVE  status'[call'[j].req] # "absent"
        BY DEF CallsRequested
      <4>1. call'[j] = call[j]
        BY <1>2
      <4>2. call[j].req \in AidRequests /\ status[call[j].req] # "absent"
        BY <4>1, CallType DEF AidInv, Call, ApprovalInv, CallsRequested
      <4> QED
        BY <2>2, <4>1, <4>2
    <3>3. ApprovedRows'
      BY <1>1, <2>2, <2>3 DEF AidInv, ApprovalInv, ApprovedRows
    <3>4. ApprovedRequested'
      BY <1>1, <2>2 DEF AidInv, ApprovalInv, ApprovedRequested, TypeOK
    <3>5. DisbursingApproved'
      BY <1>1, <1>2 DEF AidInv, ApprovalInv, DisbursingApproved
    <3>6. (\A r \in AidRequests : payments[r] > 0 => r \in approved)'
      BY <1>1 DEF AidInv, ApprovalInv, stellar
    <3> QED
      BY <3>1, <3>2, <3>3, <3>4, <3>5, <3>6 DEF ApprovalInv
  <2>6. GateInv'
    <3>1. Evidenced' = Evidenced
      BY <1>1 DEF Evidenced, proofs
    <3>2. CountedProofs'
      BY <1>2, <3>1 DEF AidInv, GateInv, CountedProofs, At
    <3>3. PayCleared'
      BY <1>1, <1>2, <3>1 DEF AidInv, GateInv, PayCleared, At
    <3>4. GateEvidence'
      BY <1>1 DEF AidInv, GateInv, GateEvidence, proofs, stellar
    <3> QED
      BY <3>2, <3>3, <3>4 DEF GateInv
  <2>7. RecordsOwn'
    <3> SUFFICES ASSUME NEW r \in AidRequests
                 PROVE  provenance'[r] + Cardinality(Recording(r)') <= payments[r]
      BY <1>1 DEF RecordsOwn, stellar
    <3>1. /\ provenance[r] \in Nat /\ payments[r] \in Nat
          /\ IsFiniteSet(Recording(r)) /\ Cardinality(Recording(r)) \in Nat
      BY RecordingCount DEF AidInv, TypeOK
    <3>2. provenance[r] + Cardinality(Recording(r)) <= payments[r]
      BY DEF AidInv, BooksInv, RecordsOwn
    <3>3. CASE r = q
      <4>1. provenance'[r] = provenance[r] + 1
        BY <1>3, <2>1, <3>3 DEF AidInv, TypeOK
      <4>2. k \in Recording(r) /\ Recording(r)' \subseteq Recording(r) \ {k}
        BY <1>1, <1>2, <3>3 DEF Recording, At
      <4>3. /\ IsFiniteSet(Recording(r) \ {k})
            /\ Cardinality(Recording(r) \ {k}) = Cardinality(Recording(r)) - 1
        BY <3>1, <4>2, FS_RemoveElement
      <4>4. /\ Cardinality(Recording(r)') \in Nat
            /\ Cardinality(Recording(r)') <= Cardinality(Recording(r) \ {k})
        BY <4>2, <4>3, FS_Subset, FS_CardinalityType
      <4> QED
        BY <3>1, <3>2, <4>1, <4>3, <4>4
    <3>4. CASE r # q
      <4>1. provenance'[r] = provenance[r]
        BY <2>1, <3>4 DEF AidInv, TypeOK
      <4>2. /\ Cardinality(Recording(r)') \in Nat
            /\ Cardinality(Recording(r)') <= Cardinality(Recording(r))
        BY <1>2, RecordingShrinks DEF At
      <4> QED
        BY <3>1, <3>2, <4>1, <4>2
    <3> QED
      BY <3>3, <3>4
  <2>8. SeenBacked'
    BY <1>1, <1>2 DEF AidInv, BooksInv, SeenBacked, At, stellar
  <2>9. ReceivedSent'
    <3>1. ReceivedAfter(k) <= sent[b]
      BY <1>1 DEF AidInv, BooksInv, SeenBacked, ReceivedAfter
    <3>2. \A c \in Beneficiaries : received'[c] = IF c = b THEN ReceivedAfter(k)
                                                            ELSE received[c]
      BY <2>1 DEF AidInv, TypeOK
    <3> QED
      BY <1>1, <3>1, <3>2 DEF AidInv, BooksInv, ReceivedSent, stellar
  <2> QED
    BY <2>4, <2>5, <2>6, <2>7, <2>8, <2>9 DEF AidInv, BooksInv
<1> QED
  BY <1>4, <1>5

-----------------------------------------------------------------------------
(* The invariant. *)

LEMMA NextAid == AidInv /\ [Next]_vars => AidInv'
<1> SUFFICES ASSUME AidInv, [Next]_vars PROVE AidInv'
  OBVIOUS
<1>1. TypeOK'
  BY NextType DEF AidInv
<1>2. ASSUME NEW k \in Slots, Abort(k) PROVE AidInv'
  BY <1>1, <1>2, EndStep DEF Abort
<1>3. CASE UNCHANGED vars
  BY <1>1, <1>3 DEF vars, AidInv, TypeOK, UploadsHold, ApprovalInv, Requested,
     CallsRequested, ApprovedRows, ApprovedRequested, DisbursingApproved, GateInv,
     CountedProofs, PayCleared, GateEvidence, Evidenced, BooksInv, RecordsOwn,
     Recording, SeenBacked, ReceivedSent, At, rows, proofs, books, stellar
<1> QED
  BY <1>1, <1>2, <1>3, ReadStep, ReadProofStep, GateStep, ProofCallStep, RowActions,
     ReviewStep, ProofRowStep, PayStep, RecordStep DEF Next, Arrive, Step

LEMMA AidInvariant == Spec => []AidInv
<1>1. Init => AidInv
  BY InitAid
<1>2. AidInv /\ [Next]_vars => AidInv'
  BY NextAid
<1> QED
  BY <1>1, <1>2, PTL DEF Spec

\* The shapes of the rows and calls, for any number of calls in flight: among
\* them that proof_count and total_received never fall below zero.
THEOREM AidTypeCorrect == Spec => []TypeOK
<1>1. AidInv => TypeOK
  BY DEF AidInv
<1> QED
  BY <1>1, AidInvariant, PTL

\* Money goes only to verified beneficiaries of approved aid requests: what
\* PATCH /disburse read of the status before its awaits may be stale, but an
\* approval is a fact nobody removes.
THEOREM ApprovalBeforePayment == Spec => []PaidOnApproval
<1>1. AidInv => PaidOnApproval
  BY DEF AidInv, ApprovalInv, Requested, ApprovedRequested, PaidOnApproval
<1> QED
  BY <1>1, AidInvariant, PTL

\* Behind the proof gate every payment had its proofs and its confirmation,
\* whatever was deleted or decided between the gate and the payment.
THEOREM EvidenceBeforePayment == Spec => []GateEvidence
<1>1. AidInv => GateEvidence
  BY DEF AidInv, GateInv
<1> QED
  BY <1>1, AidInvariant, PTL

\* However many calls disburse at once, total_received and the provenance
\* records never claim more than was sent.
THEOREM BooksNeverInflated == Spec => []BooksNotInflated
<1>1. AidInv => BooksNotInflated
  <2> SUFFICES ASSUME AidInv, NEW q \in AidRequests PROVE provenance[q] <= payments[q]
    BY DEF AidInv, BooksInv, ReceivedSent, BooksNotInflated
  <2>1. /\ provenance[q] \in Nat /\ payments[q] \in Nat
        /\ Cardinality(Recording(q)) \in Nat
    BY RecordingCount DEF AidInv, TypeOK
  <2>2. provenance[q] + Cardinality(Recording(q)) <= payments[q]
    BY DEF AidInv, BooksInv, RecordsOwn
  <2> QED
    BY <2>1, <2>2
<1> QED
  BY <1>1, AidInvariant, PTL

-----------------------------------------------------------------------------
(* Calls that never overlap. *)

\* A call whose beneficiary never had two at once.
SoloCall(k) == call[k] # Idle /\ BeneficiaryOf[call[k].req] \notin overlapped

\* Such a call is the only one of its beneficiary.
Alone ==
    \A j, k \in Slots :
        /\ SoloCall(j)
        /\ call[k] # Idle
        /\ BeneficiaryOf[call[k].req] = BeneficiaryOf[call[j].req]
        => j = k

\* A call about a proof is about the aid request of that proof.
ProofCalls ==
    \A k \in Slots : call[k] # Idle /\ call[k].step \in ProofSteps
        => call[k].proof \in Proofs /\ RequestOf[call[k].proof] = call[k].req

\* What a call read still stands.
Fits(c) ==
    /\ c.step = "approve" => status[c.req] = "pending"
    /\ c.step \in DisburseSteps => status[c.req] = "approved"
    /\ c.step \in {"duplicate", "store", "erase"} => c.seen = proofCount[c.req]
    /\ c.step \in {"mark", "erase"} => c.proof \in live
    /\ c.step = "store" => SameFile(c.proof) = {}

ReadsStand == \A k \in Slots : SoloCall(k) => Fits(call[k])

\* The statuses from which an aid request may still be paid.
Undone == {"absent", "pending", "approved"}

\* The total a call will add to is still the total, and what may still be paid
\* has no record yet.
BooksStand ==
    /\ \A k \in Slots : SoloCall(k) /\ call[k].step = "record"
          => call[k].seen = received[BeneficiaryOf[call[k].req]]
    /\ \A q \in AidRequests :
          BeneficiaryOf[q] \notin overlapped /\ status[q] \in Undone
             => provenance[q] = 0

SoloInv == Alone /\ ProofCalls /\ ReadsStand /\ BooksStand /\ ProofsCounted

\* The request of a call is an aid request, and its beneficiary one of them.
LEMMA CallFields ==
    ASSUME TypeOK, NEW k \in Slots, call[k] # Idle
    PROVE  /\ call[k] \in Call
           /\ call[k].req \in AidRequests
           /\ BeneficiaryOf[call[k].req] \in Beneficiaries
           /\ call[k].seen \in Nat
  BY CallType, AidAssumption DEF Call

LEMMA InitSolo == Init => SoloInv
<1> SUFFICES ASSUME Init PROVE SoloInv
  OBVIOUS
<1>1. Alone /\ ProofCalls /\ ReadsStand
  BY DEF Init, Alone, ProofCalls, ReadsStand, SoloCall
<1>2. BooksStand
  BY DEF Init, BooksStand, SoloCall
<1>3. ProofsCounted
  <2>1. \A q \in AidRequests : LiveProofs(q) = {}
    BY DEF Init, LiveProofs
  <2> QED
    BY <2>1, FS_EmptySet DEF Init, ProofsCounted
<1> QED
  BY <1>1, <1>2, <1>3 DEF SoloInv

-----------------------------------------------------------------------------
(* What each part of the invariant survives. *)

\* Calls that end or move on leave the others as alone as they were.
LEMMA AloneKept ==
    ASSUME Alone, UNCHANGED overlapped,
           \A j \in Slots : call'[j] # Idle => call[j] # Idle /\ call'[j].req = call[j].req
    PROVE  Alone'
  BY DEF Alone, SoloCall

\* A call that begins beside another of its beneficiary is seen to.
LEMMA AloneBegin ==
    ASSUME TypeOK, Alone, NEW k \in Slots, NEW c \in Call, Begin(k, c)
    PROVE  /\ Alone'
           /\ overlapped \subseteq overlapped'
           /\ call'[k] = c
           /\ call[k] = Idle
           /\ \A j \in Slots \ {k} : call'[j] = call[j]
           /\ faults' = faults
<1>1. /\ overlapped \subseteq overlapped'
      /\ call'[k] = c
      /\ call[k] = Idle
      /\ \A j \in Slots \ {k} : call'[j] = call[j]
      /\ faults' = faults
  BY DEF Begin, TypeOK
<1>2. ASSUME NEW j \in Slots \ {k}, call[j] # Idle,
             BeneficiaryOf[call[j].req] = BeneficiaryOf[c.req]
      PROVE  BeneficiaryOf[c.req] \in overlapped'
  <2>1. j \in BusyWith(BeneficiaryOf[c.req])
    BY <1>2 DEF BusyWith
  <2> QED
    BY <2>1 DEF Begin
<1>3. Alone'
  BY <1>1, <1>2 DEF Alone, SoloCall
<1> QED
  BY <1>1, <1>3

\* A call that is alone has its own aid request and beneficiary.
LEMMA Apart ==
    ASSUME Alone, NEW j \in Slots, NEW k \in Slots, j # k,
           SoloCall(j), call[k] # Idle
    PROVE  /\ BeneficiaryOf[call[j].req] # BeneficiaryOf[call[k].req]
           /\ call[j].req # call[k].req
  BY DEF Alone

\* What a call read stands as long as its own aid request is left alone.
LEMMA FitsKept ==
    ASSUME TypeOK, ProofCalls, ReadsStand, NEW j \in Slots, NEW q \in AidRequests,
           call[j] # Idle, call[j].req = q, call'[j] = call[j],
           SoloCall(j)', overlapped \subseteq overlapped',
           status'[q] = status[q] \/ status[q] = "absent",
           proofCount'[q] = proofCount[q],
           LiveProofs(q)' = LiveProofs(q)
    PROVE  Fits(call[j])'
<1>1. SoloCall(j)
  BY DEF SoloCall
<1>2. Fits(call[j])
  BY <1>1 DEF ReadsStand
<1>3. CASE call[j].step \in ProofSteps
  <2>1. call[j].proof \in Proofs /\ RequestOf[call[j].proof] = q
    BY <1>3 DEF ProofCalls
  <2>2. SameFile(call[j].proof)' = SameFile(call[j].proof)
    BY <2>1 DEF SameFile
  <2>3. call[j].proof \in live <=> call[j].proof \in live'
    <3>1. call[j].proof \in live <=> call[j].proof \in LiveProofs(q)
      BY <2>1 DEF LiveProofs
    <3>2. call[j].proof \in live' <=> call[j].proof \in LiveProofs(q)'
      BY <2>1 DEF LiveProofs
    <3> QED
      BY <3>1, <3>2
  <2> QED
    BY <1>2, <1>3, <2>2, <2>3 DEF Fits, ProofSteps, DisburseSteps
<1>4. CASE call[j].step \notin ProofSteps
  BY <1>2, <1>4 DEF Fits, ProofSteps
<1> QED
  BY <1>3, <1>4

\* A call that touches only its own aid request disturbs no other that is
\* alone.
LEMMA ReadsKept ==
    ASSUME TypeOK, Alone, ProofCalls, ReadsStand, NEW k \in Slots,
           call[k] # Idle, UNCHANGED overlapped,
           \A j \in Slots \ {k} : call'[j] = call[j],
           \A q \in AidRequests : q # call[k].req =>
              /\ status'[q] = status[q]
              /\ proofCount'[q] = proofCount[q]
              /\ LiveProofs(q)' = LiveProofs(q),
           SoloCall(k)' => Fits(call[k])'
    PROVE  ReadsStand'
<1> SUFFICES ASSUME NEW j \in Slots, SoloCall(j)'
             PROVE  Fits(call[j])'
  BY DEF ReadsStand
<1>1. CASE j # k
  <2>1. call'[j] = call[j] /\ call[j] # Idle
    BY <1>1 DEF SoloCall
  <2>2. SoloCall(j)
    BY <2>1 DEF SoloCall
  <2>3. PICK q \in AidRequests : q = call[j].req
    BY <2>1, CallFields
  <2>4. q # call[k].req
    BY <1>1, <2>2, <2>3, Apart
  <2> QED
    BY <2>1, <2>3, <2>4, FitsKept
<1> QED
  BY <1>1

\* The books stand as long as nobody writes them, and no call gets to record.
LEMMA BooksKept ==
    ASSUME TypeOK, BooksStand, UNCHANGED books,
           overlapped \subseteq overlapped',
           \A j \in Slots : At(j, "record")' => call'[j] = call[j],
           \A q \in AidRequests : BeneficiaryOf[q] \notin overlapped'
              => (status'[q] \in Undone => status[q] \in Undone)
    PROVE  BooksStand'
<1>1. ASSUME NEW k \in Slots, SoloCall(k)', call'[k].step = "record"
      PROVE  call'[k].seen = received'[BeneficiaryOf[call'[k].req]]
  <2>1. call'[k] = call[k] /\ SoloCall(k) /\ call[k].step = "record"
    BY <1>1 DEF SoloCall, At
  <2> QED
    BY <2>1 DEF BooksStand, books
<1>2. ASSUME NEW q \in AidRequests, BeneficiaryOf[q] \notin overlapped',
             status'[q] \in Undone
      PROVE  provenance'[q] = 0
  BY <1>2 DEF BooksStand, books
<1> QED
  BY <1>1, <1>2 DEF BooksStand

LEMMA CountsKept ==
    ASSUME ProofsCounted, UNCHANGED proofs, overlapped \subseteq overlapped'
    PROVE  ProofsCounted'
  BY DEF ProofsCounted, proofs, LiveProofs

-----------------------------------------------------------------------------
(* The steps. *)

\* A call that begins has just read what it relies on.
LEMMA SoloBegin ==
    ASSUME AidInv, TypeOK', SoloInv, NEW k \in Slots, NEW c \in Call, Begin(k, c),
           UNCHANGED <<rows, proofs, books, stellar>>,
           c.step # "record",
           c.step \in ProofSteps => c.proof \in Proofs /\ RequestOf[c.proof] = c.req,
           Fits(c)'
    PROVE  SoloInv'
<1>1. /\ TypeOK /\ Alone /\ ProofCalls /\ ReadsStand /\ BooksStand /\ ProofsCounted
  BY DEF AidInv, SoloInv
<1>2. /\ Alone'
      /\ overlapped \subseteq overlapped'
      /\ call'[k] = c
      /\ call[k] = Idle
      /\ \A j \in Slots \ {k} : call'[j] = call[j]
      /\ faults' = faults
  BY <1>1, AloneBegin
<1>3. ProofCalls'
  BY <1>1, <1>2 DEF ProofCalls
<1>4. ReadsStand'
  <2> SUFFICES ASSUME NEW j \in Slots, SoloCall(j)'
               PROVE  Fits(call[j])'
    BY DEF ReadsStand
  <2>1. CASE j = k
    BY <1>2, <2>1 DEF Fits, SameFile, LiveProofs
  <2>2. CASE j # k
    <3>1. call'[j] = call[j] /\ call[j] # Idle
      BY <1>2, <2>2 DEF SoloCall
    <3>2. PICK q \in AidRequests : q = call[j].req
      BY <1>1, <3>1, CallFields
    <3> QED
      BY <1>1, <1>2, <3>1, <3>2, FitsKept DEF rows, proofs, LiveProofs
  <2> QED
    BY <2>1, <2>2
<1>5. BooksStand'
  <2>1. \A j \in Slots : At(j, "record")' => call'[j] = call[j]
    BY <1>2 DEF At
  <2> QED
    BY <1>1, <1>2, <2>1, BooksKept DEF rows
<1>6. ProofsCounted'
  BY <1>1, <1>2, CountsKept
<1> QED
  BY <1>2, <1>3, <1>4, <1>5, <1>6 DEF SoloInv

LEMMA SoloRead ==
    ASSUME AidInv, TypeOK', SoloInv, NEW k \in Slots, Arrive(k)
    PROVE  SoloInv'
<1>t. /\ TypeOK
      /\ {"approve", "reject", "proofs", "pay", "duplicate", "mark"} \subseteq Steps
  BY DEF AidInv, Steps, DisburseSteps, ProofSteps
<1>1. ASSUME NEW q \in AidRequests, ReadForApproval(k, q) \/ ReadForRejection(k, q)
      PROVE  SoloInv'
  <2>1. PICK step \in {"approve", "reject"} :
           /\ Begin(k, Request(step, q))
           /\ UNCHANGED <<rows, proofs, books, stellar>>
           /\ step = "approve" => status[q] = "pending"
    BY <1>1 DEF ReadForApproval, ReadForRejection
  <2>2. Request(step, q) \in Call
    BY <1>t, RequestType
  <2>3. Request(step, q).step = step /\ Request(step, q).req = q
    BY DEF Request
  <2>4. status' = status
    BY <2>1 DEF rows
  <2>5. Fits(Request(step, q))'
    BY <2>1, <2>3, <2>4 DEF Fits, DisburseSteps
  <2> QED
    BY <2>1, <2>2, <2>3, <2>5, SoloBegin DEF ProofSteps
<1>2. ASSUME NEW q \in AidRequests, NEW override \in BOOLEAN,
             ReadForDisbursement(k, q, override)
      PROVE  SoloInv'
  <2> DEFINE c == [Request(IF ENFORCE_PROOF_GATE THEN "proofs" ELSE "pay", q)
                      EXCEPT !.cleared = override \/ q \notin critical]
             d == [Request(IF ENFORCE_PROOF_GATE THEN "proofs" ELSE "pay", q)
                      EXCEPT !.cleared = TRUE]
             e == [Request(IF ENFORCE_PROOF_GATE THEN "proofs" ELSE "pay", q)
                      EXCEPT !.cleared = FALSE]
  <2>1. PICK step \in {"proofs", "pay"}, cleared \in BOOLEAN :
           Begin(k, [Request(step, q) EXCEPT !.cleared = cleared])
    BY <1>2 DEF ReadForDisbursement
  <2>2. status'[q] = "approved" /\ UNCHANGED <<rows, proofs, books, stellar>>
    BY <1>2 DEF ReadForDisbursement, Disbursable, rows
  <2>3. PICK f : f = [Request(step, q) EXCEPT !.cleared = cleared]
    OBVIOUS
  <2>4. f \in Call /\ f.step = step /\ f.req = q
    BY <1>t, <2>3 DEF Request, Call
  <2>5. Fits(f)'
    BY <2>2, <2>4 DEF Fits
  <2> QED
    BY <2>1, <2>2, <2>3, <2>4, <2>5, SoloBegin DEF ProofSteps
<1>3. ASSUME NEW p \in Proofs, ReadForUpload(k, p)
      PROVE  SoloInv'
  <2>1. PICK q \in AidRequests : q = RequestOf[p]
    BY AidAssumption
  <2>2. PICK f : f = [Request("duplicate", q) EXCEPT !.proof = p, !.seen = proofCount[q]]
    OBVIOUS
  <2>3. Begin(k, f) /\ UNCHANGED <<rows, proofs, books, stellar>>
    BY <1>3, <2>1, <2>2 DEF ReadForUpload
  <2>4. f \in Call /\ f.step = "duplicate" /\ f.req = q /\ f.proof = p
           /\ f.seen = proofCount[q]
    BY <1>t, <2>2 DEF Request, Call, TypeOK
  <2>5. Fits(f)'
    BY <2>3, <2>4 DEF Fits, DisburseSteps, proofs
  <2> QED
    BY <2>1, <2>3, <2>4, <2>5, SoloBegin
<1>4. ASSUME NEW p \in Proofs, ReadForDeletion(k, p)
      PROVE  SoloInv'
  <2>1. PICK q \in AidRequests : q = RequestOf[p]
    BY AidAssumption
  <2>2. PICK f : f = [Request("mark", q) EXCEPT !.proof = p]
    OBVIOUS
  <2>3. Begin(k, f) /\ UNCHANGED <<rows, proofs, books, stellar>> /\ p \in live'
    BY <1>4, <2>1, <2>2 DEF ReadForDeletion, proofs
  <2>4. f \in Call /\ f.step = "mark" /\ f.req = q /\ f.proof = p
    BY <1>t, <2>2 DEF Request, Call
  <2>5. Fits(f)'
    BY <2>3, <2>4 DEF Fits, DisburseSteps
  <2> QED
    BY <2>1, <2>3, <2>4, <2>5, SoloBegin
<1> QED
  BY <1>1, <1>2, <1>3, <1>4 DEF Arrive

\* A call that moves on or ends without writing a row.
LEMMA SoloMove ==
    ASSUME AidInv, TypeOK', SoloInv, NEW k \in Slots, call[k] # Idle,
           UNCHANGED <<rows, proofs, books, stellar, overlapped>>,
           \A j \in Slots \ {k} : call'[j] = call[j],
           \/ call'[k] = Idle
           \/ /\ call'[k].req = call[k].req
              /\ call'[k].proof = call[k].proof
              /\ call'[k].step \in ProofSteps => call[k].step \in ProofSteps
              /\ call'[k].step # "record"
              /\ SoloCall(k) => Fits(call[k])'
    PROVE  SoloInv'
<1>1. /\ TypeOK /\ Alone /\ ProofCalls /\ ReadsStand /\ BooksStand /\ ProofsCounted
  BY DEF AidInv, SoloInv
<1>2. Alone'
  BY <1>1, AloneKept
<1>3. ProofCalls'
  BY <1>1 DEF ProofCalls
<1>4. ReadsStand'
  <2>1. \A q \in AidRequests : /\ status'[q] = status[q]
                               /\ proofCount'[q] = proofCount[q]
                               /\ LiveProofs(q)' = LiveProofs(q)
    BY DEF rows, proofs, LiveProofs
  <2>2. SoloCall(k)' => Fits(call[k])'
    BY DEF SoloCall
  <2> QED
    BY <1>1, <2>1, <2>2, ReadsKept
<1>5. BooksStand'
  <2>1. \A j \in Slots : At(j, "record")' => call'[j] = call[j]
    BY DEF At
  <2> QED
    BY <1>1, <2>1, BooksKept DEF rows
<1>6. ProofsCounted'
  BY <1>1, CountsKept
<1> QED
  BY <1>2, <1>3, <1>4, <1>5, <1>6 DEF SoloInv

LEMMA SoloMoves ==
    ASSUME AidInv, TypeOK', SoloInv, NEW k \in Slots,
           \/ CountProofs(k) \/ CountConfirmations(k)
           \/ CheckDuplicate(k) \/ MarkDeleted(k) \/ Abort(k)
    PROVE  SoloInv'
<1>1. /\ call[k] # Idle
      /\ UNCHANGED <<rows, proofs, books, stellar, overlapped>>
      /\ \A j \in Slots \ {k} : call'[j] = call[j]
      /\ TypeOK
  BY DEF CountProofs, CountConfirmations, CheckDuplicate, MarkDeleted, Abort, At, Goto,
         Return, AidInv, TypeOK
<1>2. call[k] \in Call
  BY <1>1, CallType
<1>3. SoloCall(k) => Fits(call[k])
  BY DEF SoloInv, ReadsStand
<1>4. CASE Abort(k)
  <2>1. call'[k] = Idle
    BY <1>1, <1>4 DEF Abort, TypeOK
  <2> QED
    BY <1>1, <2>1, SoloMove
<1>5. CASE (CountProofs(k) \/ CountConfirmations(k) \/ CheckDuplicate(k)) /\ Return(k)
  <2>1. call'[k] = Idle
    BY <1>1, <1>5 DEF Return, CountProofs, CountConfirmations, CheckDuplicate, At, TypeOK
  <2> QED
    BY <1>1, <2>1, SoloMove
<1>6. ASSUME NEW step \in {"confirmations", "pay"}, Goto(k, step),
             CountProofs(k) \/ CountConfirmations(k)
      PROVE  SoloInv'
  <2>1. /\ call'[k].step = step /\ call'[k].req = call[k].req
        /\ call'[k].proof = call[k].proof
    BY <1>1, <1>2, <1>6 DEF Goto, TypeOK, Call
  <2>2. call[k].step \in {"proofs", "confirmations"}
    BY <1>6 DEF CountProofs, CountConfirmations, At
  <2>3. SoloCall(k) => Fits(call[k])'
    BY <1>1, <1>3, <2>1, <2>2 DEF Fits, DisburseSteps, rows
  <2> QED
    BY <1>1, <2>1, <2>2, <2>3, SoloMove DEF ProofSteps
<1>7. CASE CheckDuplicate(k) /\ SameFile(call[k].proof) = {} /\ Goto(k, "store")
  <2>1. /\ call'[k].step = "store" /\ call'[k].req = call[k].req
        /\ call'[k].proof = call[k].proof
        /\ call'[k].seen = call[k].seen
    BY <1>1, <1>2, <1>7 DEF Goto, TypeOK, Call
  <2>2. call[k].step = "duplicate"
    BY <1>7 DEF CheckDuplicate, At
  <2>3. SoloCall(k) => Fits(call[k])'
    BY <1>1, <1>3, <1>7, <2>1, <2>2 DEF Fits, DisburseSteps, proofs, SameFile, LiveProofs
  <2> QED
    BY <1>1, <2>1, <2>2, <2>3, SoloMove DEF ProofSteps
<1>8. CASE MarkDeleted(k)
  <2>1. /\ call'[k].step = "erase" /\ call'[k].req = call[k].req
        /\ call'[k].proof = call[k].proof
        /\ call'[k].seen = proofCount[call[k].req]
    BY <1>1, <1>2, <1>8 DEF MarkDeleted, TypeOK, Call
  <2>2. call[k].step = "mark"
    BY <1>8 DEF MarkDeleted, At
  <2>3. SoloCall(k) => Fits(call[k])'
    BY <1>1, <1>3, <2>1, <2>2 DEF Fits, DisburseSteps, proofs
  <2> QED
    BY <1>1, <2>1, <2>2, <2>3, SoloMove DEF ProofSteps
<1> QED
  BY <1>4, <1>5, <1>6, <1>7, <1>8 DEF CountProofs, CountConfirmations, CheckDuplicate

LEMMA SoloRows ==
    ASSUME AidInv, TypeOK', SoloInv,
           \/ \E b \in Beneficiaries : VerifyBeneficiary(b)
           \/ \E q \in AidRequests :
                 \/ CreateAidRequest(q)
                 \/ AssessRisk(q)
                 \/ CreateProgress(q)
                 \/ \E decision \in Decisions : VerifyProgress(q, decision)
    PROVE  SoloInv'
<1>1. /\ TypeOK /\ Alone /\ ProofCalls /\ ReadsStand /\ BooksStand /\ ProofsCounted
  BY DEF AidInv, SoloInv
<1>2. UNCHANGED <<proofs, books, stellar, call, overlapped, faults>>
  BY DEF VerifyBeneficiary, CreateAidRequest, AssessRisk, CreateProgress, VerifyProgress
<1>3. \A q \in AidRequests : status'[q] = status[q] \/ status[q] = "absent"
  BY <1>1 DEF VerifyBeneficiary, CreateAidRequest, MayRequest, AssessRisk, CreateProgress,
              VerifyProgress, TypeOK
<1>4. Alone' /\ ProofCalls'
  BY <1>1, <1>2, AloneKept DEF ProofCalls
<1>5. ReadsStand'
  <2> SUFFICES ASSUME NEW j \in Slots, SoloCall(j)'
               PROVE  Fits(call[j])'
    BY DEF ReadsStand
  <2>1. call'[j] = call[j] /\ call[j] # Idle
    BY <1>2 DEF SoloCall
  <2>2. PICK q \in AidRequests : q = call[j].req
    BY <1>1, <2>1, CallFields
  <2> QED
    BY <1>1, <1>2, <1>3, <2>1, <2>2, FitsKept DEF proofs, LiveProofs
<1>6. BooksStand'
  <2>1. \A q \in AidRequests : status'[q] \in Undone => status[q] \in Undone
    BY <1>3 DEF Undone
  <2>2. \A j \in Slots : At(j, "record")' => call'[j] = call[j]
    BY <1>2 DEF At
  <2> QED
    BY <1>1, <1>2, <2>1, <2>2, BooksKept
<1>7. ProofsCounted'
  BY <1>1, <1>2, CountsKept
<1> QED
  BY <1>4, <1>5, <1>6, <1>7 DEF SoloInv

\* A verdict is passed on what the call read, or beside another call.
LEMMA SoloReview ==
    ASSUME AidInv, TypeOK', SoloInv, NEW k \in Slots, Approve(k) \/ Reject(k)
    PROVE  SoloInv'
<1>1. /\ TypeOK /\ Alone /\ ProofCalls /\ ReadsStand /\ BooksStand /\ ProofsCounted
  BY DEF AidInv, SoloInv
<1>2. /\ call[k] # Idle /\ call[k].step \in {"approve", "reject"}
      /\ UNCHANGED <<proofs, books, stellar, overlapped, faults>>
      /\ call'[k] = Idle
      /\ \A j \in Slots \ {k} : call'[j] = call[j]
  BY <1>1 DEF Approve, Reject, At, Return, TypeOK
<1>3. PICK q \in AidRequests : q = call[k].req
  BY <1>1, <1>2, CallFields
<1>4. /\ \A r \in AidRequests : r # q => status'[r] = status[r]
      /\ status'[q] = "approved" => call[k].step = "approve"
      /\ status'[q] \in {"approved", "rejected"}
  BY <1>1, <1>2, <1>3 DEF Approve, Reject, At, TypeOK
<1>5. Alone' /\ ProofCalls'
  <2>1. ProofCalls'
    BY <1>1, <1>2 DEF ProofCalls
  <2> QED
    BY <1>1, <1>2, <2>1, AloneKept
<1>6. ReadsStand'
  <2>1. ~SoloCall(k)'
    BY <1>2 DEF SoloCall
  <2> QED
    BY <1>1, <1>2, <1>3, <1>4, <2>1, ReadsKept DEF proofs, LiveProofs
<1>7. BooksStand'
  <2>1. ASSUME BeneficiaryOf[q] \notin overlapped, status'[q] = "approved"
        PROVE  status[q] = "pending"
    BY <1>1, <1>2, <1>3, <1>4, <2>1 DEF ReadsStand, SoloCall, Fits
  <2>2. \A r \in AidRequests : BeneficiaryOf[r] \notin overlapped'
           => (status'[r] \in Undone => status[r] \in Undone)
    BY <1>2, <1>3, <1>4, <2>1 DEF Undone
  <2>3. \A j \in Slots : At(j, "record")' => call'[j] = call[j]
    BY <1>2 DEF At
  <2> QED
    BY <1>1, <1>2, <2>2, <2>3, BooksKept
<1>8. ProofsCounted'
  BY <1>1, <1>2, CountsKept
<1> QED
  BY <1>5, <1>6, <1>7, <1>8 DEF SoloInv

-----------------------------------------------------------------------------
(* Disbursements. *)

\* The call that has paid is still a call.
LEMMA RecordCall ==
    ASSUME TypeOK, NEW c \in Call, NEW b \in Beneficiaries
    PROVE  [c EXCEPT !.step = "record", !.seen = received[b]] \in Call
<1>1. received[b] \in Nat
  BY DEF TypeOK
<1> QED
  BY <1>1 DEF Call, Steps, DisburseSteps

\* The call that pays reads the total it will add to.
LEMMA SoloPay ==
    ASSUME AidInv, TypeOK', SoloInv, NEW k \in Slots, PayBeneficiary(k)
    PROVE  SoloInv'
<1>1. /\ TypeOK /\ Alone /\ ProofCalls /\ ReadsStand /\ BooksStand /\ ProofsCounted
  BY DEF AidInv, SoloInv
<1>2. /\ call[k] # Idle /\ call[k].step = "pay"
      /\ UNCHANGED <<rows, proofs, books, overlapped>>
      /\ \A j \in Slots \ {k} : call'[j] = call[j]
  BY <1>1 DEF PayBeneficiary, At, AfterRefusal, Return, TypeOK
<1>3. PICK q \in AidRequests : q = call[k].req
  BY <1>1, <1>2, CallFields
<1>4. PICK b \in Beneficiaries : b = BeneficiaryOf[q]
  BY <1>1, <1>2, <1>3, CallFields
<1>5. call[k] \in Call
  BY <1>1, <1>2, CallType
<1>6. CASE AfterRefusal(k) /\ UNCHANGED stellar
  <2>1. call'[k] = Idle
    BY <1>1, <1>2, <1>6 DEF AfterRefusal, Return, TypeOK
  <2> QED
    BY <1>2, <1>6, <2>1, SoloMove
<1>7. CASE Moved(q)
  <2>1. \/ call'[k] = Idle
        \/ call'[k] = [call[k] EXCEPT !.step = "record", !.seen = received[b]]
        \/ AfterRefusal(k) /\ UNCHANGED stellar
    <3>1. CASE call' = [call EXCEPT ![k].step = "record", ![k].seen = received[b]]
      BY <1>1, <3>1 DEF TypeOK
    <3>2. CASE call' = [call EXCEPT ![k] = Idle]
      BY <1>1, <3>2 DEF TypeOK
    <3> QED
      BY <1>3, <1>4, <3>1, <3>2 DEF PayBeneficiary
  <2>2. CASE AfterRefusal(k) /\ UNCHANGED stellar
    BY <1>6, <2>2
  <2>3. CASE call'[k] = Idle \/ call'[k] = [call[k] EXCEPT !.step = "record", !.seen = received[b]]
    <3>1. Alone'
      BY <1>1, <1>2, <1>5, <2>3, AloneKept DEF Call
    <3>2. ProofCalls'
      BY <1>1, <1>2, <1>5, <2>3 DEF ProofCalls, ProofSteps, Call
    <3>3. SoloCall(k)' => Fits(call[k])'
      <4> SUFFICES ASSUME SoloCall(k)'
                   PROVE  Fits(call[k])'
        OBVIOUS
      <4>1. call'[k].step = "record" /\ call'[k].req = q
        BY <1>3, <1>5, <2>3 DEF SoloCall, Call
      <4>2. SoloCall(k)
        BY <1>2, <1>3, <4>1 DEF SoloCall
      <4>3. status[q] = "approved"
        BY <1>1, <1>2, <1>3, <4>2 DEF ReadsStand, Fits, DisburseSteps
      <4> QED
        BY <1>2, <4>1, <4>3 DEF Fits, rows
    <3>4. ReadsStand'
      BY <1>1, <1>2, <3>3, ReadsKept DEF rows, proofs, LiveProofs
    <3>5. ProofsCounted'
      BY <1>1, <1>2, CountsKept
    <3>6. BooksStand'
      <4>1. ASSUME NEW j \in Slots, SoloCall(j)', call'[j].step = "record"
            PROVE  call'[j].seen = received'[BeneficiaryOf[call'[j].req]]
        <5>1. CASE j = k
          BY <1>2, <1>3, <1>4, <1>5, <2>3, <4>1, <5>1 DEF SoloCall, Call, books
        <5>2. CASE j # k
          BY <1>1, <1>2, <4>1, <5>2 DEF BooksStand, SoloCall, books
        <5> QED
          BY <5>1, <5>2
      <4>2. ASSUME NEW r \in AidRequests, BeneficiaryOf[r] \notin overlapped',
                   status'[r] \in Undone
            PROVE  provenance'[r] = 0
        BY <1>1, <1>2, <4>2 DEF BooksStand, books, rows
      <4> QED
        BY <4>1, <4>2 DEF BooksStand
    <3> QED
      BY <3>1, <3>2, <3>4, <3>5, <3>6 DEF SoloInv
  <2> QED
    BY <2>1, <2>2, <2>3
<1> QED
  BY <1>3, <1>6, <1>7 DEF PayBeneficiary

\* What a call records ends what may still be paid, or is not recorded at all.
LEMMA SoloRecord ==
    ASSUME AidInv, TypeOK', SoloInv, NEW k \in Slots, RecordDisbursement(k)
    PROVE  SoloInv'
<1>1. /\ TypeOK /\ Alone /\ ProofCalls /\ ReadsStand /\ BooksStand /\ ProofsCounted
  BY DEF AidInv, SoloInv
<1>2. /\ call[k] # Idle /\ call[k].step = "record"
      /\ UNCHANGED <<proofs, stellar, overlapped, faults>>
      /\ call'[k] = Idle
      /\ \A j \in Slots \ {k} : call'[j] = call[j]
  BY <1>1 DEF RecordDisbursement, At, Return, TypeOK
<1>3. PICK q \in AidRequests : q = call[k].req
  BY <1>1, <1>2, CallFields
<1>4. PICK b \in Beneficiaries : b = BeneficiaryOf[q]
  BY <1>1, <1>2, <1>3, CallFields
<1>5. \A r \in AidRequests : r # q => status'[r] = status[r]
  BY <1>1, <1>3 DEF RecordDisbursement, StatusDisbursed, TypeOK
<1>6. Alone'
  BY <1>1, <1>2, AloneKept
<1>7. ProofCalls'
  BY <1>1, <1>2 DEF ProofCalls
<1>8. ReadsStand'
  <2>1. ~SoloCall(k)'
    BY <1>2 DEF SoloCall
  <2> QED
    BY <1>1, <1>2, <1>3, <1>5, <2>1, ReadsKept DEF proofs, LiveProofs
<1>9. ProofsCounted'
  BY <1>1, <1>2, CountsKept
<1>10. BooksStand'
  <2>1. /\ \A c \in Beneficiaries : c # b => received'[c] = received[c]
        /\ \A r \in AidRequests : r # q => provenance'[r] = provenance[r]
        /\ status'[q] \in Undone => UNCHANGED <<status, books>>
    BY <1>1, <1>3, <1>4
       DEF RecordDisbursement, StatusDisbursed, Undone, books, TypeOK
  <2>2. ASSUME NEW j \in Slots, SoloCall(j)', call'[j].step = "record"
        PROVE  call'[j].seen = received'[BeneficiaryOf[call'[j].req]]
    <3>1. j # k /\ call'[j] = call[j] /\ SoloCall(j)
      BY <1>2, <2>2 DEF SoloCall
    <3>2. /\ BeneficiaryOf[call[j].req] \in Beneficiaries
          /\ BeneficiaryOf[call[j].req] # b
      BY <1>1, <1>2, <1>3, <1>4, <3>1, Apart, CallFields DEF SoloCall
    <3> QED
      BY <1>1, <2>1, <2>2, <3>1, <3>2 DEF BooksStand
  <2>3. ASSUME NEW r \in AidRequests, BeneficiaryOf[r] \notin overlapped',
               status'[r] \in Undone
        PROVE  provenance'[r] = 0
    <3>1. status'[r] = status[r] /\ provenance'[r] = provenance[r]
      BY <1>5, <2>1, <2>3 DEF books
    <3> QED
      BY <1>1, <1>2, <2>3, <3>1 DEF BooksStand
  <2> QED
    BY <2>2, <2>3 DEF BooksStand
<1> QED
  BY <1>6, <1>7, <1>8, <1>9, <1>10 DEF SoloInv

\* A proof is added to, or taken from, the proofs the call counted.
LEMMA SoloProofRow ==
    ASSUME AidInv, TypeOK', SoloInv, NEW k \in Slots, StoreProof(k) \/ EraseProof(k)
    PROVE  SoloInv'
<1>1. /\ TypeOK /\ Alone /\ ProofCalls /\ ReadsStand /\ BooksStand /\ ProofsCounted
  BY DEF AidInv, SoloInv
<1>2. /\ call[k] # Idle /\ call[k].step \in {"store", "erase"}
      /\ UNCHANGED <<rows, books, stellar, overlapped, faults>>
      /\ call'[k] = Idle
      /\ \A j \in Slots \ {k} : call'[j] = call[j]
  BY <1>1 DEF StoreProof, EraseProof, At, Return, TypeOK
<1>3. PICK q \in AidRequests : q = call[k].req
  BY <1>1, <1>2, CallFields
<1>4. PICK p \in Proofs : p = call[k].proof /\ RequestOf[p] = q
  BY <1>1, <1>2, <1>3 DEF ProofCalls, ProofSteps
<1>5. \A r \in AidRequests : r # q => /\ proofCount'[r] = proofCount[r]
                                      /\ LiveProofs(r)' = LiveProofs(r)
  <2>1. \A r \in AidRequests : r # q => proofCount'[r] = proofCount[r]
    BY <1>1, <1>3 DEF StoreProof, EraseProof, TypeOK
  <2>2. live' = live \cup {p} \/ live' = live \ {p}
    BY <1>4 DEF StoreProof, EraseProof
  <2> QED
    BY <1>4, <2>1, <2>2 DEF LiveProofs
<1>6. Alone'
  BY <1>1, <1>2, AloneKept
<1>7. ProofCalls'
  BY <1>1, <1>2 DEF ProofCalls
<1>8. ReadsStand'
  <2>1. ~SoloCall(k)'
    BY <1>2 DEF SoloCall
  <2>2. \A r \in AidRequests : status'[r] = status[r]
    BY <1>2 DEF rows
  <2> QED
    BY <1>1, <1>2, <1>3, <1>5, <2>1, <2>2, ReadsKept
<1>9. BooksStand'
  <2>1. \A j \in Slots : At(j, "record")' => call'[j] = call[j]
    BY <1>2 DEF At
  <2> QED
    BY <1>1, <1>2, <2>1, BooksKept DEF rows
<1>10. ASSUME BeneficiaryOf[q] \notin overlapped
       PROVE  /\ proofCount'[q] = Cardinality(LiveProofs(q)')
              /\ \A o, s \in LiveProofs(q)' : FileOf[o] = FileOf[s] => o = s
  <2>1. Fits(call[k])
    BY <1>1, <1>2, <1>3, <1>10 DEF ReadsStand, SoloCall
  <2>2. call[k].seen = Cardinality(LiveProofs(q))
    BY <1>1, <1>2, <1>3, <1>10, <2>1 DEF Fits, ProofsCounted
  <2>3. IsFiniteSet(LiveProofs(q)) /\ Cardinality(LiveProofs(q)) \in Nat
    <3>1. LiveProofs(q) \subseteq Proofs
      BY <1>1 DEF LiveProofs, TypeOK
    <3> QED
      BY <3>1, AidAssumption, FS_Subset, FS_CardinalityType
  <2>4. CASE StoreProof(k)
    <3>1. call[k].step = "store"
      BY <2>4 DEF StoreProof, At
    <3>2. SameFile(p) = {}
      BY <1>4, <2>1, <3>1 DEF Fits
    <3>3. p \notin LiveProofs(q) /\ \A o \in LiveProofs(q) : FileOf[o] # FileOf[p]
      BY <1>4, <3>2 DEF SameFile
    <3>4. LiveProofs(q)' = LiveProofs(q) \cup {p}
      BY <1>4, <2>4 DEF StoreProof, LiveProofs
    <3>5. proofCount'[q] = call[k].seen + 1
      BY <1>1, <1>3, <2>4 DEF StoreProof, TypeOK
    <3>6. Cardinality(LiveProofs(q) \cup {p}) = Cardinality(LiveProofs(q)) + 1
      BY <2>3, <3>3, FS_AddElement
    <3>7. \A o, s \in LiveProofs(q) \cup {p} : FileOf[o] = FileOf[s] => o = s
      BY <1>1, <1>10, <3>3 DEF ProofsCounted
    <3> QED
      BY <2>2, <3>4, <3>5, <3>6, <3>7
  <2>5. CASE EraseProof(k)
    <3>1. call[k].step = "erase"
      BY <2>5 DEF EraseProof, At
    <3>2. p \in LiveProofs(q)
      BY <1>4, <2>1, <3>1 DEF Fits, LiveProofs
    <3>3. LiveProofs(q)' = LiveProofs(q) \ {p}
      BY <1>4, <2>5 DEF EraseProof, LiveProofs
    <3>4. proofCount'[q] = CountAfterDeletion(call[k].seen)
      BY <1>1, <1>3, <2>5 DEF EraseProof, TypeOK
    <3>5. /\ Cardinality(LiveProofs(q) \ {p}) = Cardinality(LiveProofs(q)) - 1
          /\ Cardinality(LiveProofs(q)) # 0
      BY <2>3, <3>2, FS_RemoveElement, FS_EmptySet
    <3>6. \A o, s \in LiveProofs(q) \ {p} : FileOf[o] = FileOf[s] => o = s
      BY <1>1, <1>10 DEF ProofsCounted
    <3>7. proofCount'[q] = Cardinality(LiveProofs(q)) - 1
      BY <2>2, <2>3, <3>4, <3>5 DEF CountAfterDeletion
    <3> QED
      BY <3>3, <3>5, <3>6, <3>7
  <2> QED
    BY <2>4, <2>5
<1>11. ProofsCounted'
  <2> SUFFICES ASSUME NEW r \in AidRequests, BeneficiaryOf[r] \notin overlapped
               PROVE  /\ proofCount'[r] = Cardinality(LiveProofs(r)')
                      /\ \A o, s \in LiveProofs(r)' : FileOf[o] = FileOf[s] => o = s
    BY <1>2 DEF ProofsCounted
  <2>1. CASE r = q
    BY <1>10, <2>1
  <2>2. CASE r # q
    BY <1>1, <1>5, <2>2 DEF ProofsCounted
  <2> QED
    BY <2>1, <2>2
<1> QED
  BY <1>6, <1>7, <1>8, <1>9, <1>11 DEF SoloInv

LEMMA NextSolo == AidInv /\ SoloInv /\ [Next]_vars => SoloInv'
<1> SUFFICES ASSUME AidInv, SoloInv, [Next]_vars PROVE SoloInv'
  OBVIOUS
<1>1. TypeOK'
  BY NextType DEF AidInv
<1>2. CASE UNCHANGED vars
  BY <1>2 DEF vars, SoloInv, Alone, ProofCalls, ReadsStand, Fits, SameFile, BooksStand,
     SoloCall, At, ProofsCounted,
     LiveProofs, rows, proofs, books, stellar
<1> QED
  BY <1>1, <1>2, SoloRead, SoloMoves, SoloRows, SoloReview, SoloPay, SoloRecord,
     SoloProofRow DEF Next, Step

\* The two invariants together.
LEMMA SoloInvariant == Spec => [](AidInv /\ SoloInv)
<1>1. Init => AidInv /\ SoloInv
  BY InitAid, InitSolo
<1>2. AidInv /\ SoloInv /\ [Next]_vars => (AidInv /\ SoloInv)'
  BY NextAid, NextSolo
<1> QED
  BY <1>1, <1>2, PTL DEF Spec

\* disburse_request, when it overlaps no other call on its beneficiary, pays
\* only for an approved aid request without a record of a payment, and records
\* once and exactly what it paid: on either database, and whatever was lost on
\* the way or tried again.
THEOREM DisbursesExactly == Spec => LoneDisbursementExact
<1>1. AidInv /\ SoloInv /\ [Next]_vars =>
        [\A q \in AidRequests : BeneficiaryOf[q] \notin overlapped =>
          /\ payments'[q] > payments[q] =>
                status[q] = "approved" /\ provenance[q] = 0
          /\ provenance'[q] > provenance[q] =>
                /\ provenance[q] = 0
                /\ received'[BeneficiaryOf[q]] = received[BeneficiaryOf[q]] + Amount[q]]_vars
  <2> SUFFICES ASSUME AidInv, SoloInv, Next, NEW q \in AidRequests,
                      BeneficiaryOf[q] \notin overlapped
               PROVE  /\ payments'[q] > payments[q] =>
                            status[q] = "approved" /\ provenance[q] = 0
                      /\ provenance'[q] > provenance[q] =>
                            /\ provenance[q] = 0
                            /\ received'[BeneficiaryOf[q]]
                                  = received[BeneficiaryOf[q]] + Amount[q]
    OBVIOUS
  <2>1. TypeOK /\ ReadsStand /\ BooksStand
    BY DEF AidInv, SoloInv
  <2>2. payments[q] \in Nat /\ provenance[q] \in Nat
    BY <2>1 DEF TypeOK
  <2>3. ASSUME NEW k \in Slots, call[k] # Idle, call[k].req = q,
               call[k].step \in {"pay", "record"}
        PROVE  status[q] = "approved" /\ provenance[q] = 0
    BY <2>1, <2>3 DEF ReadsStand, BooksStand, SoloCall, Fits, DisburseSteps, Undone
  <2>4. ASSUME NEW k \in Slots, PayBeneficiary(k)
        PROVE  /\ payments'[q] > payments[q] =>
                     status[q] = "approved" /\ provenance[q] = 0
               /\ UNCHANGED provenance
    <3>1. call[k] # Idle /\ call[k].step = "pay"
      BY <2>4 DEF PayBeneficiary, At
    <3>2. CASE call[k].req = q
      BY <2>3, <2>4, <3>1, <3>2 DEF PayBeneficiary, books
    <3>3. CASE call[k].req # q
      <4>1. payments'[q] = payments[q]
        BY <2>1, <2>4, <3>3 DEF PayBeneficiary, Moved, stellar, TypeOK
      <4> QED
        BY <2>2, <2>4, <4>1 DEF PayBeneficiary, books
    <3> QED
      BY <3>2, <3>3
  <2>5. ASSUME NEW k \in Slots, RecordDisbursement(k)
        PROVE  /\ UNCHANGED payments
               /\ provenance'[q] > provenance[q] =>
                     /\ provenance[q] = 0
                     /\ received'[BeneficiaryOf[q]] = received[BeneficiaryOf[q]] + Amount[q]
    <3>1. /\ call[k] # Idle /\ call[k].step = "record"
          /\ UNCHANGED payments
      BY <2>5 DEF RecordDisbursement, At, stellar
    <3>2. CASE call[k].req = q
      <4>1. provenance[q] = 0
        BY <2>3, <3>1, <3>2
      <4>2. call[k].seen = received[BeneficiaryOf[q]]
        BY <2>1, <3>1, <3>2 DEF BooksStand, SoloCall
      <4>3. CASE EnforcesForeignKeys
        BY <2>2, <2>5, <3>1, <4>3 DEF RecordDisbursement, books
      <4>4. CASE ~EnforcesForeignKeys
        <5>1. BeneficiaryOf[q] \in Beneficiaries
          BY AidAssumption
        <5>2. received'[BeneficiaryOf[q]] = received[BeneficiaryOf[q]] + Amount[q]
          BY <2>1, <2>5, <3>2, <4>2, <4>4, <5>1
             DEF RecordDisbursement, ReceivedAfter, TypeOK
        <5> QED
          BY <3>1, <4>1, <5>2
      <4> QED
        BY <4>3, <4>4
    <3>3. CASE call[k].req # q
      <4>1. provenance'[q] = provenance[q]
        BY <2>1, <2>5, <3>3 DEF RecordDisbursement, books, TypeOK
      <4> QED
        BY <2>2, <3>1, <4>1
    <3> QED
      BY <3>2, <3>3
  <2>6. CASE UNCHANGED <<payments, provenance>>
    BY <2>2, <2>6
  <2>7. ASSUME NEW k \in Slots,
               \/ Arrive(k) \/ Approve(k) \/ Reject(k)
               \/ CountProofs(k) \/ CountConfirmations(k) \/ CheckDuplicate(k)
               \/ StoreProof(k) \/ MarkDeleted(k) \/ EraseProof(k) \/ Abort(k)
        PROVE  UNCHANGED <<payments, provenance>>
    <3>1. Arrive(k) => UNCHANGED <<payments, provenance>>
      BY DEF Arrive, ReadForApproval, ReadForRejection, ReadForDisbursement,
         ReadForUpload, ReadForDeletion, books, stellar
    <3> QED
      BY <2>7, <3>1 DEF Approve, Reject, CountProofs, CountConfirmations,
         CheckDuplicate, StoreProof, MarkDeleted, EraseProof, Abort, books, stellar
  <2>8. ASSUME \/ \E b \in Beneficiaries : VerifyBeneficiary(b)
               \/ \E r \in AidRequests :
                     \/ CreateAidRequest(r) \/ AssessRisk(r) \/ CreateProgress(r)
                     \/ \E decision \in Decisions : VerifyProgress(r, decision)
        PROVE  UNCHANGED <<payments, provenance>>
    BY <2>8 DEF VerifyBeneficiary, CreateAidRequest, AssessRisk, CreateProgress,
       VerifyProgress, books, stellar
  <2> QED
    BY <2>2, <2>4, <2>5, <2>6, <2>7, <2>8 DEF Next, Step
<1> QED
  BY <1>1, SoloInvariant, PTL DEF Spec, LoneDisbursementExact

\* proof_count is the number of live proofs, and no file counts twice, as long
\* as no two calls on the beneficiary overlap, wherever one of them dies.
THEOREM CountIsExact == Spec => []ProofsCounted
<1>1. SoloInv => ProofsCounted
  BY DEF SoloInv
<1> QED
  BY <1>1, SoloInvariant, PTL

\* Only a call that overlaps another can take an aid request out of rejected:
\* one that is alone writes from a status that still stands.
THEOREM RejectedStays == Spec => RejectionStays
<1>1. AidInv /\ SoloInv /\ [Next]_vars =>
        [\A q \in AidRequests :
          status[q] = "rejected" /\ BeneficiaryOf[q] \notin overlapped
             => status'[q] = "rejected"]_vars
  <2> SUFFICES ASSUME AidInv, SoloInv, Next, NEW q \in AidRequests,
                      status[q] = "rejected", BeneficiaryOf[q] \notin overlapped
               PROVE  status'[q] = "rejected"
    OBVIOUS
  <2>1. TypeOK /\ ReadsStand
    BY DEF AidInv, SoloInv
  <2>2. ASSUME NEW k \in Slots, call[k] # Idle, call[k].req = q,
               call[k].step \in {"approve", "record"}
        PROVE  FALSE
    BY <2>1, <2>2 DEF ReadsStand, SoloCall, Fits, DisburseSteps
  <2>3. ASSUME NEW k \in Slots, Approve(k) \/ Reject(k) \/ RecordDisbursement(k)
        PROVE  status'[q] = "rejected"
    <3>1. call[k] # Idle /\ call[k].req \in AidRequests
      BY <2>1, <2>3, CallFields DEF Approve, Reject, RecordDisbursement, At
    <3>2. CASE call[k].req = q
      BY <2>1, <2>2, <2>3, <3>1, <3>2 DEF Approve, Reject, RecordDisbursement, At, TypeOK
    <3>3. CASE call[k].req # q
      BY <2>1, <2>3, <3>1, <3>3
         DEF Approve, Reject, RecordDisbursement, StatusDisbursed, TypeOK
    <3> QED
      BY <3>2, <3>3
  <2>4. ASSUME NEW r \in AidRequests, CreateAidRequest(r)
        PROVE  status'[q] = "rejected"
    BY <2>1, <2>4 DEF CreateAidRequest, MayRequest, TypeOK
  <2>5. CASE UNCHANGED status
    BY <2>5
  <2>6. ASSUME NEW k \in Slots, Arrive(k)
        PROVE  UNCHANGED status
    BY <2>6 DEF Arrive, ReadForApproval, ReadForRejection, ReadForDisbursement,
       ReadForUpload, ReadForDeletion, rows
  <2>7. ASSUME NEW k \in Slots,
               \/ CountProofs(k) \/ CountConfirmations(k) \/ PayBeneficiary(k)
               \/ CheckDuplicate(k) \/ StoreProof(k) \/ MarkDeleted(k)
               \/ EraseProof(k) \/ Abort(k)
        PROVE  UNCHANGED status
    <3>1. PayBeneficiary(k) => UNCHANGED status
      BY DEF PayBeneficiary, rows
    <3> QED
      BY <2>7, <3>1 DEF CountProofs, CountConfirmations, CheckDuplicate, StoreProof,
         MarkDeleted, EraseProof, Abort, rows
  <2>8. ASSUME NEW r \in AidRequests,
               \/ AssessRisk(r) \/ CreateProgress(r)
               \/ \E decision \in Decisions : VerifyProgress(r, decision)
        PROVE  UNCHANGED status
    BY <2>8 DEF AssessRisk, CreateProgress, VerifyProgress
  <2>9. ASSUME NEW b \in Beneficiaries, VerifyBeneficiary(b)
        PROVE  UNCHANGED status
    BY <2>9 DEF VerifyBeneficiary
  <2> QED
    BY <2>3, <2>4, <2>5, <2>6, <2>7, <2>8, <2>9 DEF Next, Step
<1> QED
  BY <1>1, SoloInvariant, PTL DEF Spec, RejectionStays
=============================================================================
