------------------------ MODULE DonationLedgerProofs ------------------------
(***************************************************************************)
(* What the ledger keeps for any users, hashes, amounts and number of      *)
(* requests in flight.                                                     *)
(*                                                                         *)
(* A request about to charge a donation owns that donation: the row is     *)
(* there, confirmed and uncharged, and no other request is about to charge *)
(* it (PendingCharge, OneChargePerHash).  The UNIQUE column gives it that  *)
(* ownership, and with it a donation is charged at most once.              *)
(***************************************************************************)
EXTENDS DonationLedger, TLAPS

RowOf(b) ==
    [donor |-> b.user, amount |-> b.amount, hash |-> b.hash, confirmed |-> TRUE]

PendingCharge ==
    \A r \in Requests : pc[r] = "debit" =>
        /\ body[r].hash \in Keys
        /\ RowOf(body[r]) \in donations
        /\ \A e \in Entry :
              e.kind = "donation" /\ e.hash = body[r].hash => posted[e] = 0

OneChargePerHash ==
    \A q, r \in Requests :
        pc[q] = "debit" /\ pc[r] = "debit" /\ body[q].hash = body[r].hash => q = r

PendingCredit ==
    \A r \in Requests : pc[r] \in {"payment", "credit"} => body[r].hash \in Hashes

CreditVerified ==
    \A r \in Requests : pc[r] = "credit" =>
        body[r].hash \in successful /\ paid[body[r].hash] = body[r].amount

LedgerInv ==
    /\ TypeOK
    /\ DebitsMatchDonations
    /\ PendingCharge
    /\ OneChargePerHash
    /\ PendingCredit
    /\ CreditVerified
    /\ ConfirmedIsBacked
    /\ CreditsArePayments

LEMMA InitLedger == Init => LedgerInv
<1> SUFFICES ASSUME Init PROVE LedgerInv
  OBVIOUS
<1>1. TypeOK
  BY LedgerAssumption DEF Init, TypeOK, Steps
<1>2. DebitsMatchDonations /\ CreditsArePayments
  BY DEF Init, DebitsMatchDonations, CreditsArePayments
<1>3. PendingCharge /\ OneChargePerHash /\ PendingCredit /\ CreditVerified
  BY DEF Init, PendingCharge, OneChargePerHash, PendingCredit, CreditVerified
<1>4. ConfirmedIsBacked
  BY DEF Init, ConfirmedIsBacked
<1> QED
  BY <1>1, <1>2, <1>3, <1>4 DEF LedgerInv

-----------------------------------------------------------------------------
(* Types. *)

\* What a request holds while it is at work, and after it moved or answered.
LEMMA BodyType ==
    ASSUME TypeOK, NEW r \in Requests, pc[r] # "idle"
    PROVE  body[r] \in Body
  BY DEF TypeOK

\* The requests part of TypeOK after a request moved on or answered.
RequestsOK ==
    /\ pc \in [Requests -> Steps]
    /\ body \in [Requests -> Body \cup {NoBody}]
    /\ \A r \in Requests : pc[r] # "idle" => body[r] \in Body

LEMMA GotoType ==
    ASSUME TypeOK, NEW r \in Requests, NEW step \in Steps, pc[r] # "idle",
           Goto(r, step)
    PROVE  RequestsOK'
  BY DEF TypeOK, Goto, RequestsOK

LEMMA AnswerType ==
    ASSUME TypeOK, NEW r \in Requests, Answer(r)
    PROVE  RequestsOK'
  BY DEF TypeOK, Answer, RequestsOK, Steps

LEMMA EntryOfType ==
    ASSUME NEW b \in Body, b.hash \in Keys, NEW kind \in {"top_up", "donation"}
    PROVE  EntryOf(kind, b) \in Entry
  BY DEF Body, Entry, EntryOf

LEMMA NextType == LedgerInv /\ [Next]_vars => TypeOK'
<1> SUFFICES ASSUME LedgerInv, [Next]_vars PROVE TypeOK'
  OBVIOUS
<1>a. TypeOK
  BY DEF LedgerInv
<1>1. ASSUME NEW h \in Hashes, NEW amount \in Amounts \cup {0},
             TransactionLands(h, amount)
      PROVE  TypeOK'
  BY <1>1, <1>a DEF TransactionLands, TypeOK, deaths
<1>2. ASSUME NEW r \in Requests, NEW b \in Body, StartDonation(r, b)
      PROVE  TypeOK'
  BY <1>2, <1>a DEF StartDonation, TypeOK, Steps, DonationSteps, stellar, deaths
<1>3. ASSUME NEW r \in Requests, NEW b \in Body, StartTopUp(r, b)
      PROVE  TypeOK'
  BY <1>3, <1>a DEF StartTopUp, TypeOK, Steps, TopUpSteps, stellar, deaths
<1>4. ASSUME NEW r \in Requests, LookupDonation(r)
      PROVE  TypeOK'
  <2>1. RequestsOK'
    <3>1. "balance" \in Steps /\ "insert" \in Steps
      BY DEF Steps, DonationSteps
    <3> QED
      BY <1>4, <1>a, <3>1, GotoType, AnswerType DEF LookupDonation
  <2> QED
    BY <1>4, <1>a, <2>1 DEF LookupDonation, TypeOK, RequestsOK, stellar, deaths
<1>5. ASSUME NEW r \in Requests, ReadBalance(r)
      PROVE  TypeOK'
  <2>1. RequestsOK'
    <3>1. "insert" \in Steps
      BY DEF Steps, DonationSteps
    <3> QED
      BY <1>5, <1>a, <3>1, GotoType, AnswerType DEF ReadBalance
  <2> QED
    BY <1>5, <1>a, <2>1 DEF ReadBalance, TypeOK, RequestsOK, stellar, deaths
<1>6. ASSUME NEW r \in Requests, InsertDonation(r)
      PROVE  TypeOK'
  <2>1. body[r] \in Body
    BY <1>6, <1>a, BodyType DEF InsertDonation
  <2>2. PICK h \in RowHash(body[r]) :
           IF CanInsert(h)
           THEN /\ donations' = donations \cup
                      {[donor |-> body[r].user, amount |-> body[r].amount,
                        hash |-> h, confirmed |-> body[r].spend]}
                /\ pc' = [pc EXCEPT ![r] = AfterInsert(body[r])]
                /\ body' = [body EXCEPT ![r].hash = h]
           ELSE Answer(r) /\ UNCHANGED donations
    BY <1>6 DEF InsertDonation
  <2>3. h \in Keys
    BY <2>1, <2>2 DEF RowHash, FreeReferences, Keys, Body
  <2>4. UNCHANGED <<stellar, posted, certified, deaths>>
    BY <1>6 DEF InsertDonation
  <2>5. CASE CanInsert(h)
    <3>1. AfterInsert(body[r]) \in Steps
      BY DEF AfterInsert, Steps, DonationSteps
    <3>2. [body[r] EXCEPT !.hash = h] \in Body
      BY <2>1, <2>3 DEF Body
    <3>3. [donor |-> body[r].user, amount |-> body[r].amount,
           hash |-> h, confirmed |-> body[r].spend] \in Donation
      BY <2>1, <2>3 DEF Body, Donation
    <3>4. RequestsOK'
      BY <1>a, <2>2, <2>5, <3>1, <3>2 DEF TypeOK, RequestsOK, stellar, deaths
    <3> QED
      BY <1>a, <2>2, <2>4, <2>5, <3>3, <3>4 DEF TypeOK, RequestsOK, stellar, deaths
  <2>6. CASE ~CanInsert(h)
    BY <1>a, <2>2, <2>4, <2>6, AnswerType DEF TypeOK, RequestsOK, stellar, deaths
  <2> QED
    BY <2>5, <2>6
<1>7. ASSUME NEW r \in Requests, DebitBalance(r)
      PROVE  TypeOK'
  <2>1. EntryOf("donation", body[r]) \in Entry
    BY <1>7, <1>a, BodyType, EntryOfType DEF DebitBalance, LedgerInv, PendingCharge
  <2>2. RequestsOK'
    BY <1>7, <1>a, GotoType DEF DebitBalance, Steps, DonationSteps
  <2> QED
    BY <1>7, <1>a, <2>1, <2>2 DEF DebitBalance, TypeOK, RequestsOK, stellar, deaths
<1>8. ASSUME NEW r \in Requests, VerifyDonation(r)
      PROVE  TypeOK'
  <2>1. RequestsOK'
    BY <1>8, <1>a, GotoType DEF VerifyDonation, Steps, DonationSteps
  <2>2. Confirmed(body[r].hash) \subseteq Donation
    BY <1>a DEF Confirmed, TypeOK, Donation
  <2> QED
    BY <1>8, <1>a, <2>1, <2>2 DEF VerifyDonation, TypeOK, RequestsOK, stellar, deaths
<1>9. ASSUME NEW r \in Requests, CertifyDonation(r)
      PROVE  TypeOK'
  <2>1. RequestsOK'
    BY <1>9, <1>a, AnswerType DEF CertifyDonation
  <2>2. certified' \subseteq Keys
    BY <1>9, <1>a DEF CertifyDonation, TypeOK, Donation
  <2> QED
    BY <1>9, <1>a, <2>1, <2>2
       DEF CertifyDonation, TypeOK, RequestsOK, stellar, deaths
<1>10. ASSUME NEW r \in Requests, VerifyPayment(r)
       PROVE  TypeOK'
  <2>1. RequestsOK'
    BY <1>10, <1>a, GotoType, AnswerType DEF VerifyPayment, Steps, TopUpSteps
  <2> QED
    BY <1>10, <1>a, <2>1 DEF VerifyPayment, TypeOK, RequestsOK, stellar, deaths
<1>11. ASSUME NEW r \in Requests, CreditTopUp(r)
       PROVE  TypeOK'
  <2>1. EntryOf("top_up", body[r]) \in Entry
    BY <1>11, <1>a, BodyType, EntryOfType
       DEF CreditTopUp, LedgerInv, PendingCredit, Keys
  <2>2. RequestsOK'
    BY <1>11, <1>a, AnswerType DEF CreditTopUp
  <2> QED
    BY <1>11, <1>a, <2>1, <2>2 DEF CreditTopUp, TypeOK, RequestsOK, stellar, deaths
<1>12. ASSUME NEW r \in Requests, Abort(r)
       PROVE  TypeOK'
  <2>1. RequestsOK'
    BY <1>12, <1>a, AnswerType DEF Abort
  <2>2. aborts' \in 0 .. MaxAborts
    BY <1>12, <1>a, LedgerAssumption DEF Abort, TypeOK
  <2>3. stranded' \subseteq Keys
    BY <1>12, <1>a DEF Abort, TypeOK, LedgerInv, PendingCharge
  <2> QED
    BY <1>12, <1>a, <2>1, <2>2, <2>3 DEF Abort, TypeOK, RequestsOK, stellar, deaths
<1>13. CASE UNCHANGED vars
  BY <1>13, <1>a DEF vars, TypeOK, stellar, deaths
<1> QED
  BY <1>1, <1>2, <1>3, <1>4, <1>5, <1>6, <1>7, <1>8, <1>9, <1>10, <1>11, <1>12,
     <1>13 DEF Next, Step

-----------------------------------------------------------------------------
(* The invariant. *)

\* A step that writes no donation and no entry: a request arrives, moves on,
\* answers or dies.
LEMMA QuietStep ==
    ASSUME LedgerInv, TypeOK', NEW r \in Requests,
           UNCHANGED <<stellar, donations, posted>>,
           \A q \in Requests \ {r} : pc'[q] = pc[q] /\ body'[q] = body[q],
           pc'[r] # "debit",
           stranded \subseteq stranded',
           pc[r] = "debit" => body[r].hash \in stranded',
           pc'[r] \in {"payment", "credit"} => body'[r].hash \in Hashes,
           pc'[r] = "credit" =>
               body'[r].hash \in successful /\ paid[body'[r].hash] = body'[r].amount
    PROVE  LedgerInv'
<1>1. DebitsMatchDonations' /\ CreditsArePayments'
  BY DEF LedgerInv, DebitsMatchDonations, CreditsArePayments, stellar
<1>2. PendingCharge'
  BY DEF LedgerInv, PendingCharge
<1>3. OneChargePerHash'
  BY DEF LedgerInv, OneChargePerHash
<1>4. PendingCredit' /\ CreditVerified'
  BY DEF LedgerInv, PendingCredit, CreditVerified, stellar
<1>5. ConfirmedIsBacked'
  <2> SUFFICES ASSUME NEW d \in donations, d.confirmed
               PROVE  \/ d.hash \in successful \/ Charged(d) \/ BeingCharged(d)'
                      \/ d.hash \in stranded'
    BY DEF ConfirmedIsBacked, Charged, stellar
  <2> QED
    BY DEF LedgerInv, ConfirmedIsBacked, BeingCharged
<1> QED
  BY <1>1, <1>2, <1>3, <1>4, <1>5 DEF LedgerInv

\* Stellar applies what it had not applied: nothing verified is touched.
LEMMA TransactionKeeps ==
    ASSUME LedgerInv, TypeOK', NEW h \in Hashes, NEW amount \in Amounts \cup {0},
           TransactionLands(h, amount)
    PROVE  LedgerInv'
<1>1. /\ paid \in [Hashes -> Amounts \cup {0}]
      /\ h \notin successful
      /\ successful \subseteq Hashes
      /\ successful' = successful \cup {h}
      /\ paid' = [paid EXCEPT ![h] = amount]
      /\ UNCHANGED <<donations, posted, certified, pc, body, stranded, aborts>>
  BY DEF LedgerInv, TypeOK, TransactionLands, deaths
<1>2. \A g \in successful : paid'[g] = paid[g] /\ g \in successful'
  BY <1>1
<1>3. DebitsMatchDonations' /\ PendingCharge' /\ OneChargePerHash' /\ PendingCredit'
  BY <1>1 DEF LedgerInv, DebitsMatchDonations, PendingCharge, OneChargePerHash,
              PendingCredit, RowOf
<1>4. CreditVerified' /\ CreditsArePayments'
  BY <1>1, <1>2 DEF LedgerInv, CreditVerified, CreditsArePayments
<1>5. ConfirmedIsBacked'
  <2> SUFFICES ASSUME NEW d \in donations, d.confirmed
               PROVE  \/ d.hash \in successful' \/ Charged(d)' \/ BeingCharged(d)'
                      \/ d.hash \in stranded'
    BY <1>1 DEF ConfirmedIsBacked
  <2>1. Charged(d)' = Charged(d)
    BY <1>1 DEF Charged
  <2>2. BeingCharged(d)' = BeingCharged(d)
    BY <1>1 DEF BeingCharged
  <2> QED
    BY <1>1, <2>1, <2>2 DEF LedgerInv, ConfirmedIsBacked
<1> QED
  BY <1>3, <1>4, <1>5 DEF LedgerInv

\* The UNIQUE column: a new row gets a hash no row has, so no entry and no
\* request about to charge has it either.
LEMMA InsertKeeps ==
    ASSUME LedgerInv, TypeOK', NEW r \in Requests, InsertDonation(r)
    PROVE  LedgerInv'
<1>1. /\ pc[r] = "insert"
      /\ body[r] \in Body
      /\ UNCHANGED <<successful, paid, posted, certified, stranded, aborts>>
      /\ pc \in [Requests -> Steps]
      /\ body \in [Requests -> Body \cup {NoBody}]
  BY DEF InsertDonation, LedgerInv, TypeOK, stellar, deaths
<1>2. PICK h \in RowHash(body[r]) :
         IF CanInsert(h)
         THEN /\ donations' = donations \cup
                    {[donor |-> body[r].user, amount |-> body[r].amount,
                      hash |-> h, confirmed |-> body[r].spend]}
              /\ pc' = [pc EXCEPT ![r] = AfterInsert(body[r])]
              /\ body' = [body EXCEPT ![r].hash = h]
         ELSE Answer(r) /\ UNCHANGED donations
  BY DEF InsertDonation
<1>3. h \in Keys
  BY <1>1, <1>2 DEF RowHash, FreeReferences, Keys, Body
<1>4. CASE ~CanInsert(h)
  BY <1>1, <1>2, <1>4, QuietStep DEF Answer, LedgerInv, TypeOK, stellar
<1>5. CASE CanInsert(h)
  <2> DEFINE row == [donor |-> body[r].user, amount |-> body[r].amount,
                     hash |-> h, confirmed |-> body[r].spend]
  <2>1. /\ donations' = donations \cup {row}
        /\ pc' = [pc EXCEPT ![r] = AfterInsert(body[r])]
        /\ body' = [body EXCEPT ![r].hash = h]
        /\ \A d \in donations : d.hash # h
    BY <1>2, <1>5 DEF CanInsert, Recorded
  <2>2. /\ body'[r] = [body[r] EXCEPT !.hash = h]
        /\ body'[r].hash = h
        /\ body'[r].user = body[r].user
        /\ body'[r].amount = body[r].amount
        /\ \A q \in Requests \ {r} : pc'[q] = pc[q] /\ body'[q] = body[q]
    BY <1>1, <2>1 DEF Body
  <2>3. pc'[r] = "debit" <=> body[r].spend = TRUE
    BY <1>1, <2>1 DEF AfterInsert, Body
  <2>4. pc'[r] \in {"debit", "verify", "certify"}
    BY <1>1, <2>1 DEF AfterInsert
  <2>5. \A e \in Entry : e.kind = "donation" /\ e.hash = h => posted[e] = 0
    <3>1. \A e \in Entry : e.kind = "donation" /\ posted[e] > 0 => e.hash # h
      BY <2>1 DEF LedgerInv, DebitsMatchDonations
    <3>2. \A e \in Entry : posted[e] \in Nat
      BY DEF LedgerInv, TypeOK
    <3> QED
      BY <3>1, <3>2
  <2>6. DebitsMatchDonations'
    BY <1>1, <2>1 DEF LedgerInv, DebitsMatchDonations
  <2>7. PendingCharge'
    <3> SUFFICES ASSUME NEW q \in Requests, pc'[q] = "debit"
                 PROVE  /\ body'[q].hash \in Keys
                        /\ RowOf(body'[q]) \in donations'
                        /\ \A e \in Entry :
                              e.kind = "donation" /\ e.hash = body'[q].hash
                                 => posted'[e] = 0
      BY DEF PendingCharge, RowOf
    <3>1. CASE q = r
      <4>1. RowOf(body'[r]) = row
        BY <2>2, <2>3, <3>1 DEF RowOf
      <4> QED
        BY <1>1, <1>3, <2>1, <2>2, <2>5, <3>1, <4>1
    <3>2. CASE q # r
      BY <1>1, <2>1, <2>2, <3>2 DEF LedgerInv, PendingCharge
    <3> QED
      BY <3>1, <3>2
  <2>8. OneChargePerHash'
    <3>1. \A q \in Requests \ {r} : pc[q] = "debit" => body[q].hash # h
      BY <2>1 DEF LedgerInv, PendingCharge, RowOf
    <3> SUFFICES ASSUME NEW p \in Requests, NEW q \in Requests,
                        pc'[p] = "debit", pc'[q] = "debit",
                        body'[p].hash = body'[q].hash
                 PROVE  p = q
      BY DEF OneChargePerHash
    <3>2. CASE p # r /\ q # r
      BY <2>2, <3>2 DEF LedgerInv, OneChargePerHash
    <3>3. CASE p = r /\ q # r
      BY <2>2, <3>1, <3>3
    <3>4. CASE p # r /\ q = r
      BY <2>2, <3>1, <3>4
    <3> QED
      BY <3>2, <3>3, <3>4
  <2>9. PendingCredit' /\ CreditVerified'
    BY <1>1, <2>2, <2>4 DEF LedgerInv, PendingCredit, CreditVerified
  <2>10. ConfirmedIsBacked'
    <3> SUFFICES ASSUME NEW d \in donations', d.confirmed
                 PROVE  \/ d.hash \in successful \/ Charged(d) \/ BeingCharged(d)'
                        \/ d.hash \in stranded
      BY <1>1 DEF ConfirmedIsBacked, Charged, stellar, deaths
    <3>1. CASE d = row
      BY <2>2, <2>3, <3>1, <1>1 DEF Body, BeingCharged
    <3>2. CASE d \in donations
      BY <1>1, <2>2, <3>2 DEF LedgerInv, ConfirmedIsBacked, BeingCharged
    <3> QED
      BY <2>1, <3>1, <3>2
  <2>11. CreditsArePayments'
    BY <1>1 DEF LedgerInv, CreditsArePayments
  <2> QED
    BY <2>6, <2>7, <2>8, <2>9, <2>10, <2>11 DEF LedgerInv
<1> QED
  BY <1>4, <1>5

\* A charge: the row is its own, uncharged until now.
LEMMA ChargeKeeps ==
    ASSUME LedgerInv, TypeOK', NEW r \in Requests, DebitBalance(r)
    PROVE  LedgerInv'
<1> DEFINE entry == EntryOf("donation", body[r])
<1>1. /\ pc[r] = "debit"
      /\ body[r] \in Body
      /\ body[r].hash \in Keys
      /\ RowOf(body[r]) \in donations
      /\ UNCHANGED <<successful, paid, donations, certified, body, stranded, aborts>>
      /\ posted \in [Entry -> Nat]
      /\ pc \in [Requests -> Steps]
  BY DEF DebitBalance, Goto, LedgerInv, TypeOK, PendingCharge, stellar, deaths
<1>2. /\ entry \in Entry
      /\ entry.kind = "donation"
      /\ entry.user = body[r].user
      /\ entry.amount = body[r].amount
      /\ entry.hash = body[r].hash
  BY <1>1, EntryOfType DEF EntryOf
<1>3. /\ posted[entry] = 0
      /\ posted' = [posted EXCEPT ![entry] = posted[entry] + 1]
      /\ pc' = [pc EXCEPT ![r] = "certify"]
  BY <1>1, <1>2 DEF DebitBalance, Goto, LedgerInv, PendingCharge
<1>4. /\ posted'[entry] = 1
      /\ \A e \in Entry \ {entry} : posted'[e] = posted[e]
      /\ pc'[r] = "certify"
      /\ \A q \in Requests \ {r} : pc'[q] = pc[q]
  BY <1>1, <1>2, <1>3
<1>5. DebitsMatchDonations'
  <2>1. RowOf(body[r]) = [donor |-> entry.user, amount |-> entry.amount,
                          hash |-> entry.hash, confirmed |-> TRUE]
    BY <1>2 DEF RowOf
  <2> QED
    BY <1>1, <1>2, <1>4, <2>1 DEF LedgerInv, DebitsMatchDonations
<1>6. PendingCharge'
  <2> SUFFICES ASSUME NEW q \in Requests, q # r, pc[q] = "debit"
               PROVE  /\ body[q].hash \in Keys
                      /\ RowOf(body[q]) \in donations
                      /\ \A e \in Entry :
                            e.kind = "donation" /\ e.hash = body[q].hash
                               => posted'[e] = 0
    BY <1>1, <1>4 DEF PendingCharge, RowOf
  <2>1. body[q].hash # entry.hash
    BY <1>1, <1>2 DEF LedgerInv, OneChargePerHash
  <2> QED
    BY <1>4, <2>1 DEF LedgerInv, PendingCharge
<1>7. OneChargePerHash' /\ PendingCredit' /\ CreditVerified'
  BY <1>1, <1>4
     DEF LedgerInv, OneChargePerHash, PendingCredit, CreditVerified
<1>8. ConfirmedIsBacked'
  <2> SUFFICES ASSUME NEW d \in donations, d.confirmed,
                      d.hash \notin successful, d.hash \notin stranded
               PROVE  Charged(d)' \/ BeingCharged(d)'
    BY <1>1 DEF ConfirmedIsBacked, stellar, deaths
  <2>1. d \in Donation
    BY DEF LedgerInv, TypeOK
  <2> DEFINE own == [kind |-> "donation", user |-> d.donor,
                     amount |-> d.amount, hash |-> d.hash]
  <2>2. own \in Entry
    BY <2>1 DEF Donation, Entry
  <2>3. CASE Charged(d)
    <3>1. posted[own] > 0
      BY <2>3 DEF Charged
    <3>2. posted'[own] > 0
      BY <1>4, <2>2, <3>1
    <3> QED
      BY <3>2 DEF Charged
  <2>4. CASE d.hash = body[r].hash
    <3>1. d = RowOf(body[r])
      BY <1>1, <2>4 DEF LedgerInv, DebitsMatchDonations, RowOf
    <3>2. own = entry
      BY <3>1 DEF RowOf, EntryOf
    <3>3. posted'[own] > 0
      BY <1>4, <3>2
    <3> QED
      BY <3>3 DEF Charged
  <2>5. CASE ~Charged(d) /\ d.hash # body[r].hash
    BY <1>1, <1>4, <2>5 DEF LedgerInv, ConfirmedIsBacked, BeingCharged
  <2> QED
    BY <2>3, <2>4, <2>5
<1>9. CreditsArePayments'
  BY <1>1, <1>2, <1>4 DEF LedgerInv, CreditsArePayments
<1> QED
  BY <1>5, <1>6, <1>7, <1>8, <1>9 DEF LedgerInv

\* A credit: for a payment that was verified.
LEMMA CreditKeeps ==
    ASSUME LedgerInv, TypeOK', NEW r \in Requests, CreditTopUp(r)
    PROVE  LedgerInv'
<1> DEFINE entry == EntryOf("top_up", body[r])
<1>1. /\ pc[r] = "credit"
      /\ body[r] \in Body
      /\ body[r].hash \in Hashes
      /\ body[r].hash \in successful
      /\ paid[body[r].hash] = body[r].amount
      /\ UNCHANGED <<successful, paid, donations, certified, stranded, aborts>>
      /\ posted \in [Entry -> Nat]
      /\ pc' = [pc EXCEPT ![r] = "idle"]
      /\ pc \in [Requests -> Steps]
      /\ body' = [body EXCEPT ![r] = NoBody]
      /\ body \in [Requests -> Body \cup {NoBody}]
  BY DEF CreditTopUp, Answer, LedgerInv, TypeOK, PendingCredit, CreditVerified,
         stellar, deaths
<1>2. /\ entry \in Entry
      /\ entry.kind = "top_up"
      /\ entry.amount = body[r].amount
      /\ entry.hash = body[r].hash
  BY <1>1, EntryOfType DEF EntryOf, Keys
<1>3. \A e \in Entry \ {entry} : posted'[e] = posted[e]
  BY <1>1, <1>2 DEF CreditTopUp
<1>4. pc'[r] = "idle" /\ \A q \in Requests \ {r} : pc'[q] = pc[q] /\ body'[q] = body[q]
  BY <1>1
<1>5. \A e \in Entry : e.kind = "donation" => posted'[e] = posted[e]
  BY <1>2, <1>3
<1>6. DebitsMatchDonations' /\ PendingCharge'
  BY <1>1, <1>4, <1>5 DEF LedgerInv, DebitsMatchDonations, PendingCharge, RowOf
<1>7. OneChargePerHash' /\ PendingCredit' /\ CreditVerified'
  BY <1>1, <1>4 DEF LedgerInv, OneChargePerHash, PendingCredit, CreditVerified
<1>8. ConfirmedIsBacked'
  <2> SUFFICES ASSUME NEW d \in donations, d.confirmed
               PROVE  \/ d.hash \in successful \/ Charged(d)' \/ BeingCharged(d)'
                      \/ d.hash \in stranded
    BY <1>1 DEF ConfirmedIsBacked, stellar, deaths
  <2>1. [kind |-> "donation", user |-> d.donor, amount |-> d.amount,
         hash |-> d.hash] \in Entry
    BY DEF LedgerInv, TypeOK, Donation, Entry
  <2>2. Charged(d) => Charged(d)'
    BY <1>5, <2>1 DEF Charged
  <2> QED
    BY <1>1, <1>4, <2>2 DEF LedgerInv, ConfirmedIsBacked, BeingCharged
<1>9. CreditsArePayments'
  BY <1>1, <1>2, <1>3 DEF LedgerInv, CreditsArePayments
<1> QED
  BY <1>6, <1>7, <1>8, <1>9 DEF LedgerInv

\* A verification confirms the row of a transaction that Stellar has applied,
\* or leaves the rows alone.
LEMMA VerifyKeeps ==
    ASSUME LedgerInv, TypeOK', NEW r \in Requests, VerifyDonation(r)
    PROVE  LedgerInv'
<1>1. /\ pc[r] = "verify"
      /\ pc' = [pc EXCEPT ![r] = "certify"]
      /\ pc \in [Requests -> Steps]
      /\ UNCHANGED <<successful, paid, posted, certified, stranded, aborts, body>>
  BY DEF VerifyDonation, Goto, LedgerInv, TypeOK, stellar, deaths
<1>2. pc'[r] = "certify" /\ \A q \in Requests \ {r} : pc'[q] = pc[q]
  BY <1>1
<1>3. CASE UNCHANGED donations
  BY <1>1, <1>2, <1>3, QuietStep DEF LedgerInv, TypeOK, stellar
<1>4. CASE /\ body[r].hash \in successful
           /\ donations' = Confirmed(body[r].hash)
  <2>1. PICK h \in successful : donations' = Confirmed(h)
    BY <1>4
  <2>2. \A d \in donations : d \in Donation
    BY DEF LedgerInv, TypeOK
  <2>3. \A d \in donations : d.confirmed = TRUE => d \in donations'
    <3> SUFFICES ASSUME NEW d \in donations, d.confirmed = TRUE
                 PROVE  d \in donations'
      OBVIOUS
    <3>1. [d EXCEPT !.confirmed = TRUE] = d
      BY <2>2 DEF Donation
    <3> QED
      BY <2>1, <3>1 DEF Confirmed
  <2>4. \A d \in donations' : \E c \in donations :
           /\ c.hash = d.hash
           /\ d = c \/ (d.hash = h /\ d = [c EXCEPT !.confirmed = TRUE])
    BY <2>1, <2>2 DEF Confirmed, Donation
  <2>5. DebitsMatchDonations'
    <3>1. \A e \in Entry : e.kind = "donation" /\ posted[e] > 0 =>
             /\ posted[e] = 1
             /\ [donor |-> e.user, amount |-> e.amount, hash |-> e.hash,
                 confirmed |-> TRUE] \in donations'
      BY <2>3 DEF LedgerInv, DebitsMatchDonations
    <3>2. ASSUME NEW c \in donations', NEW d \in donations', c.hash = d.hash
          PROVE  c = d
      <4>1. PICK b \in donations : d.hash = b.hash
                 /\ d = (IF b.hash = h THEN [b EXCEPT !.confirmed = TRUE] ELSE b)
        BY <2>1, <2>2 DEF Confirmed, Donation
      <4>2. PICK a \in donations : c.hash = a.hash
                 /\ c = (IF a.hash = h THEN [a EXCEPT !.confirmed = TRUE] ELSE a)
        BY <2>1, <2>2 DEF Confirmed, Donation
      <4>3. a = b
        BY <3>2, <4>1, <4>2 DEF LedgerInv, DebitsMatchDonations
      <4> QED
        BY <4>1, <4>2, <4>3
    <3> QED
      BY <1>1, <3>1, <3>2 DEF DebitsMatchDonations
  <2>6. PendingCharge'
    <3>1. \A b : RowOf(b).confirmed = TRUE
      BY DEF RowOf
    <3>2. \A q \in Requests : pc[q] = "debit" => RowOf(body[q]) \in donations'
      BY <2>3, <3>1 DEF LedgerInv, PendingCharge
    <3> QED
      BY <1>1, <1>2, <3>2 DEF LedgerInv, PendingCharge, RowOf
  <2>7. OneChargePerHash' /\ PendingCredit' /\ CreditVerified'
    BY <1>1, <1>2 DEF LedgerInv, OneChargePerHash, PendingCredit, CreditVerified
  <2>8. ConfirmedIsBacked'
    <3> SUFFICES ASSUME NEW d \in donations', d.confirmed, d.hash # h
                 PROVE  \/ d.hash \in successful \/ Charged(d) \/ BeingCharged(d)'
                        \/ d.hash \in stranded
      BY <1>1, <2>1 DEF ConfirmedIsBacked, Charged, stellar, deaths
    <3>1. d \in donations
      BY <2>4
    <3> QED
      BY <1>1, <1>2, <3>1 DEF LedgerInv, ConfirmedIsBacked, BeingCharged
  <2>9. CreditsArePayments'
    BY <1>1 DEF LedgerInv, CreditsArePayments
  <2> QED
    BY <2>5, <2>6, <2>7, <2>8, <2>9 DEF LedgerInv
<1> QED
  BY <1>3, <1>4 DEF VerifyDonation

LEMMA NextLedger == LedgerInv /\ [Next]_vars => LedgerInv'
<1> SUFFICES ASSUME LedgerInv, [Next]_vars PROVE LedgerInv'
  OBVIOUS
<1>a. TypeOK'
  BY NextType
<1>b. /\ pc \in [Requests -> Steps]
      /\ body \in [Requests -> Body \cup {NoBody}]
      /\ aborts \in Nat
  BY LedgerAssumption DEF LedgerInv, TypeOK
<1>1. ASSUME NEW h \in Hashes, NEW amount \in Amounts \cup {0},
             TransactionLands(h, amount)
      PROVE  LedgerInv'
  BY <1>1, <1>a, TransactionKeeps
<1>2. ASSUME NEW r \in Requests, NEW b \in Body, StartDonation(r, b)
      PROVE  LedgerInv'
  BY <1>2, <1>a, <1>b, QuietStep DEF StartDonation, deaths
<1>3. ASSUME NEW r \in Requests, NEW b \in Body, StartTopUp(r, b)
      PROVE  LedgerInv'
  BY <1>3, <1>a, <1>b, QuietStep DEF StartTopUp, deaths
<1>4. ASSUME NEW r \in Requests, LookupDonation(r)
      PROVE  LedgerInv'
  BY <1>4, <1>a, <1>b, QuietStep DEF LookupDonation, Goto, Answer, deaths
<1>5. ASSUME NEW r \in Requests, ReadBalance(r)
      PROVE  LedgerInv'
  BY <1>5, <1>a, <1>b, QuietStep DEF ReadBalance, Goto, Answer, deaths
<1>6. ASSUME NEW r \in Requests, CertifyDonation(r)
      PROVE  LedgerInv'
  BY <1>6, <1>a, <1>b, QuietStep DEF CertifyDonation, Answer, deaths
<1>7. ASSUME NEW r \in Requests, VerifyPayment(r)
      PROVE  LedgerInv'
  <2>1. CASE Answer(r)
    BY <2>1, <1>7, <1>a, <1>b, QuietStep DEF VerifyPayment, Answer, deaths
  <2>2. CASE Verified(body[r]) /\ Goto(r, "credit")
    <3>1. /\ UNCHANGED <<stellar, donations, posted, body, stranded>>
          /\ pc[r] = "payment" /\ pc'[r] = "credit"
          /\ \A q \in Requests \ {r} : pc'[q] = pc[q]
          /\ body[r].hash \in successful /\ paid[body[r].hash] = body[r].amount
      BY <2>2, <1>7, <1>b DEF VerifyPayment, Verified, Goto, deaths
    <3>2. body[r].hash \in Hashes
      BY <3>1 DEF LedgerInv, PendingCredit
    <3> QED
      BY <3>1, <3>2, <1>a, QuietStep
  <2> QED
    BY <1>7, <2>1, <2>2 DEF VerifyPayment
<1>8. ASSUME NEW r \in Requests, Abort(r)
      PROVE  LedgerInv'
  BY <1>8, <1>a, <1>b, QuietStep DEF Abort, Answer, deaths
<1>9. CASE UNCHANGED vars
  BY <1>9 DEF vars, LedgerInv, TypeOK, DebitsMatchDonations, PendingCharge,
     OneChargePerHash, PendingCredit, CreditVerified, ConfirmedIsBacked,
     CreditsArePayments, Charged, BeingCharged, RowOf, stellar, deaths
<1> QED
  BY <1>1, <1>2, <1>3, <1>4, <1>5, <1>6, <1>7, <1>8, <1>9, <1>a, InsertKeeps,
     ChargeKeeps, VerifyKeeps, CreditKeeps DEF Next, Step

LEMMA LedgerInvariant == Spec => []LedgerInv
  BY InitLedger, NextLedger, PTL DEF Spec

-----------------------------------------------------------------------------
(* The theorems. *)

\* Every table of the ledger keeps its declared shape, and every request at
\* work holds a body (create_donation, simulate_top_up).
THEOREM LedgerTypeCorrect == Spec => []TypeOK
<1>1. LedgerInv => TypeOK
  BY DEF LedgerInv
<1> QED
  BY <1>1, LedgerInvariant, PTL

\* However many requests carry the same hash at the same time, and wherever
\* they die, create_donation charges a donation to a balance at most once, to
\* the donor of its row and for the row's amount.
THEOREM ChargedOnce == Spec => []DebitsMatchDonations
<1>1. LedgerInv => DebitsMatchDonations
  BY DEF LedgerInv
<1> QED
  BY <1>1, LedgerInvariant, PTL

\* create_donation confirms a donation only if Stellar applied the transaction
\* it names, or its donor is charged, or the charge is the next thing its
\* request does; the only others are those whose own request died in between.
THEOREM ConfirmedBacked == Spec => []ConfirmedIsBacked
<1>1. LedgerInv => ConfirmedIsBacked
  BY DEF LedgerInv
<1> QED
  BY <1>1, LedgerInvariant, PTL

\* simulate_top_up credits only payments to LINGAP of that very amount:
\* what it verified before its await still holds when it writes.
THEOREM CreditsBacked == Spec => []CreditsArePayments
<1>1. LedgerInv => CreditsArePayments
  BY DEF LedgerInv
<1> QED
  BY <1>1, LedgerInvariant, PTL
=============================================================================
