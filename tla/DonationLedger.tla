--------------------------- MODULE DonationLedger ---------------------------
(***************************************************************************)
(* The backend's own ledger of balances and donations:                     *)
(* create_donation of backend/app/api/v1/donations.py and simulate_top_up  *)
(* of backend/app/api/v1/balance.py.                                       *)
(*                                                                         *)
(* A request is a coroutine: it runs alone up to its next await, so one    *)
(* action is one stretch that ends at a database call or a commit, and     *)
(* requests interleave between them.  Every read sees committed rows       *)
(* (PostgreSQL, READ COMMITTED) and no row is locked.  What a request has  *)
(* read is in its pc: the row it looked up and the balance it compared may *)
(* be out of date when it writes.                                          *)
(*                                                                         *)
(* An abort is the process dying, or a database call raising, between two  *)
(* of those stretches: what was committed stays, the rest never happens.   *)
(***************************************************************************)
EXTENDS Integers, FiniteSets, Functions

CONSTANTS
    Users,        \* logged-in users
    Hashes,       \* hashes of transactions sent to Stellar
    References,   \* bound: the LNGP-DON-... references the backend makes up
    Amounts,      \* the amounts paid, topped up and donated
    Requests,     \* slots for requests in flight at the same time
    MaxRows,      \* bound: top-ups are admitted while there are fewer rows
    MaxAborts,    \* bound: how many requests die half way
    NoHash,       \* the body carries no stellar_tx_hash
    NoBody        \* a free slot has no body

Keys == Hashes \cup References

ASSUME LedgerAssumption ==
    /\ Hashes \cap References = {}
    /\ NoHash \notin Keys
    /\ Amounts \subseteq Nat \ {0}
    /\ MaxRows \in Nat
    /\ MaxAborts \in Nat

VARIABLES
    successful, \* the transactions that Stellar has applied
    paid,       \* per hash: the XLM it paid to LINGAP
    donations,  \* the rows of donations
    posted,     \* how many balance_transactions rows have these columns
    certified,  \* the donations (by hash) with a donation_certificates row
    pc,         \* where each request is
    body,       \* what each request asks for
    stranded,   \* history: hashes whose request died before its charge
    aborts      \* how many requests died so far

stellar == <<successful, paid>>

deaths == <<stranded, aborts>>

vars == <<stellar, donations, posted, certified, pc, body, deaths>>

Donation == [donor : Users, amount : Amounts, hash : Keys, confirmed : BOOLEAN]

Entry == [kind : {"top_up", "donation"}, user : Users, amount : Amounts, hash : Keys]

Body == [user : Users, amount : Amounts, hash : Keys \cup {NoHash}, spend : BOOLEAN]

DonationSteps == {"lookup", "balance", "insert", "debit", "verify", "certify"}
TopUpSteps    == {"payment", "credit"}
Steps         == {"idle"} \cup DonationSteps \cup TopUpSteps

Init ==
    /\ successful = {}
    /\ paid = [h \in Hashes |-> 0]
    /\ donations = {}
    /\ posted = [e \in Entry |-> 0]
    /\ certified = {}
    /\ pc = [r \in Requests |-> "idle"]
    /\ body = [r \in Requests |-> NoBody]
    /\ stranded = {}
    /\ aborts = 0

-----------------------------------------------------------------------------
(* The rows. *)

EntryOf(kind, b) ==
    [kind |-> kind, user |-> b.user, amount |-> b.amount, hash |-> b.hash]

Recorded(h) == \E d \in donations : d.hash = h

RecordedBy(u, h) == \E d \in donations : d.donor = u /\ d.hash = h

Posted(kind, u) ==
    SumFunction([e \in {x \in Entry : x.kind = kind /\ x.user = u}
                    |-> e.amount * posted[e]])

Credited(u) == Posted("top_up", u)
Debited(u)  == Posted("donation", u)

\* What the user may spend: an overdrawn account reads as empty.
Balance(u) ==
    IF Credited(u) >= Debited(u) THEN Credited(u) - Debited(u) ELSE 0

-----------------------------------------------------------------------------
(* A request moving on. *)

Goto(r, step) ==
    /\ pc' = [pc EXCEPT ![r] = step]
    /\ UNCHANGED body

\* The response is sent, a refusal included.
Answer(r) ==
    /\ pc' = [pc EXCEPT ![r] = "idle"]
    /\ body' = [body EXCEPT ![r] = NoBody]

\* Stellar applies a transaction: a payment to LINGAP, or any other, which
\* pays it nothing.
TransactionLands(h, amount) ==
    /\ h \notin successful
    /\ successful' = successful \cup {h}
    /\ paid' = [paid EXCEPT ![h] = amount]
    /\ UNCHANGED <<donations, posted, certified, pc, body, deaths>>

Abort(r) ==
    /\ pc[r] # "idle"
    /\ aborts < MaxAborts
    /\ aborts' = aborts + 1
    /\ stranded' = IF pc[r] = "debit" THEN stranded \cup {body[r].hash} ELSE stranded
    /\ Answer(r)
    /\ UNCHANGED <<stellar, donations, posted, certified>>

-----------------------------------------------------------------------------
(* POST /donations. *)

FreeReferences == {h \in References : ~Recorded(h)}

\* The requests that will need one.
Referring == {r \in Requests : pc[r] # "idle" /\ body[r].hash = NoHash}

StartDonation(r, b) ==
    /\ pc[r] = "idle"
    /\ b.hash \notin References
    /\ b.hash = NoHash => Cardinality(Referring) < Cardinality(FreeReferences)
    /\ body' = [body EXCEPT ![r] = b]
    /\ pc' = [pc EXCEPT ![r] = "lookup"]
    /\ UNCHANGED <<stellar, donations, posted, certified, deaths>>

\* A donation this user already recorded with this hash is only returned.
LookupDonation(r) ==
    /\ pc[r] = "lookup"
    /\ IF RecordedBy(body[r].user, body[r].hash)
       THEN Answer(r)
       ELSE Goto(r, IF body[r].spend THEN "balance" ELSE "insert")
    /\ UNCHANGED <<stellar, donations, posted, certified, deaths>>

ReadBalance(r) ==
    /\ pc[r] = "balance"
    /\ IF Balance(body[r].user) < body[r].amount
       THEN Answer(r)
       ELSE Goto(r, "insert")
    /\ UNCHANGED <<stellar, donations, posted, certified, deaths>>

\* The hash the row is stored under: the one sent, or a reference made up
\* here, which no row has yet.
RowHash(b) ==
    IF b.hash # NoHash THEN {b.hash} ELSE FreeReferences

AfterInsertChargeWallet(b) ==
    IF b.spend /\ b.hash # NoHash THEN "debit"
    ELSE IF b.hash # NoHash THEN "verify"
    ELSE "certify"

AfterInsert(b) ==
    IF b.spend THEN "debit"
    ELSE IF b.hash # NoHash THEN "verify"
    ELSE "certify"

CanInsertAnyHash(h) == h \in Keys

\* stellar_tx_hash is UNIQUE: whoever commits second gets an IntegrityError.
CanInsert(h) == ~Recorded(h)

InsertDonation(r) ==
    /\ pc[r] = "insert"
    /\ \E h \in RowHash(body[r]) :
          IF CanInsert(h)
          THEN /\ donations' = donations \cup
                     {[donor     |-> body[r].user,
                       amount    |-> body[r].amount,
                       hash      |-> h,
                       confirmed |-> body[r].spend]}
               /\ pc' = [pc EXCEPT ![r] = AfterInsert(body[r])]
               /\ body' = [body EXCEPT ![r].hash = h]
          ELSE /\ Answer(r)
               /\ UNCHANGED donations
    /\ UNCHANGED <<stellar, posted, certified, deaths>>

\* The second commit of a donation paid from the balance.
DebitBalance(r) ==
    /\ pc[r] = "debit"
    /\ posted' = [posted EXCEPT ![EntryOf("donation", body[r])] = @ + 1]
    /\ Goto(r, "certify")
    /\ UNCHANGED <<stellar, donations, certified, deaths>>

Confirmed(h) ==
    {IF d.hash = h THEN [d EXCEPT !.confirmed = TRUE] ELSE d : d \in donations}

\* verify_transaction: any transaction that Stellar has applied confirms the
\* row, whomever and whatever it paid; Horizon not answering, or not knowing
\* the hash (yet), leaves the row as it is.
VerifyDonation(r) ==
    /\ pc[r] = "verify"
    /\ \/ /\ body[r].hash \in successful
          /\ donations' = Confirmed(body[r].hash)
       \/ UNCHANGED donations
    /\ Goto(r, "certify")
    /\ UNCHANGED <<stellar, posted, certified, deaths>>

\* Every failure of create_certificate_for_donation is swallowed.
CertifyDonation(r) ==
    /\ pc[r] = "certify"
    /\ \/ /\ \E d \in donations : d.hash = body[r].hash /\ d.confirmed
          /\ certified' = certified \cup {body[r].hash}
       \/ UNCHANGED certified
    /\ Answer(r)
    /\ UNCHANGED <<stellar, donations, posted, deaths>>

-----------------------------------------------------------------------------
(* POST /topups/simulate. *)

Rows == SumFunction(posted)

StartTopUp(r, b) ==
    /\ pc[r] = "idle"
    /\ b.hash \in Hashes
    /\ ~b.spend
    /\ Rows < MaxRows
    /\ body' = [body EXCEPT ![r] = b]
    /\ pc' = [pc EXCEPT ![r] = "payment"]
    /\ UNCHANGED <<stellar, donations, posted, certified, deaths>>

VerifiedByHash(b) == b.hash \in successful

\* verify_native_payment: the transaction was applied and paid this very
\* amount to LINGAP.
Verified(b) == b.hash \in successful /\ paid[b.hash] = b.amount

VerifyPayment(r) ==
    /\ pc[r] = "payment"
    /\ \/ /\ Verified(body[r])
          /\ Goto(r, "credit")
       \/ Answer(r)
    /\ UNCHANGED <<stellar, donations, posted, certified, deaths>>

\* Nothing looks for an earlier top-up with the same hash.
CreditTopUp(r) ==
    /\ pc[r] = "credit"
    /\ posted' = [posted EXCEPT ![EntryOf("top_up", body[r])] = @ + 1]
    /\ Answer(r)
    /\ UNCHANGED <<stellar, donations, certified, deaths>>

-----------------------------------------------------------------------------

Step(r) ==
    \/ LookupDonation(r)
    \/ ReadBalance(r)
    \/ InsertDonation(r)
    \/ DebitBalance(r)
    \/ VerifyDonation(r)
    \/ CertifyDonation(r)
    \/ VerifyPayment(r)
    \/ CreditTopUp(r)

Next ==
    \/ \E h \in Hashes, amount \in Amounts \cup {0} : TransactionLands(h, amount)
    \/ \E r \in Requests :
          \/ \E b \in Body : StartDonation(r, b) \/ StartTopUp(r, b)
          \/ Step(r)
          \/ Abort(r)

Spec == Init /\ [][Next]_vars

\* The event loop runs every coroutine that is ready.
FairSpec == Spec /\ \A r \in Requests : WF_vars(Step(r))

-----------------------------------------------------------------------------
(* Properties. *)

\* Every table has its declared shape.
TypeOK ==
    /\ successful \subseteq Hashes
    /\ paid \in [Hashes -> Amounts \cup {0}]
    /\ donations \subseteq Donation
    /\ posted \in [Entry -> Nat]
    /\ certified \subseteq Keys
    /\ pc \in [Requests -> Steps]
    /\ body \in [Requests -> Body \cup {NoBody}]
    /\ \A r \in Requests : pc[r] # "idle" => body[r] \in Body
    /\ stranded \subseteq Keys
    /\ aborts \in 0 .. MaxAborts

\* A donation is charged to a balance at most once, to its own donor and for
\* its own amount, however many requests carry the same hash at the same time
\* and however often one is retried.
DebitsMatchDonations ==
    /\ \A e \in Entry : e.kind = "donation" /\ posted[e] > 0 =>
          /\ posted[e] = 1
          /\ [donor |-> e.user, amount |-> e.amount, hash |-> e.hash,
              confirmed |-> TRUE] \in donations
    /\ \A c, d \in donations : c.hash = d.hash => c = d

Charged(d) ==
    posted[[kind |-> "donation", user |-> d.donor,
            amount |-> d.amount, hash |-> d.hash]] > 0

\* The charge is the next thing the donation's own request does.
BeingCharged(d) == \E r \in Requests : pc[r] = "debit" /\ body[r].hash = d.hash

\* A donation counts as confirmed only if Stellar applied the transaction it
\* names, or it is charged to its donor's balance, or is about to be.  The one
\* exception is the donation whose own request died between the commit of the
\* row and that of the charge: no retry, and no other request, adds another.
ConfirmedIsBacked ==
    \A d \in donations : d.confirmed =>
        d.hash \in successful \/ Charged(d) \/ BeingCharged(d) \/ d.hash \in stranded

\* What a user is credited are payments to LINGAP of that very amount.
CreditsArePayments ==
    \A e \in Entry : e.kind = "top_up" /\ posted[e] > 0 =>
        e.hash \in successful /\ paid[e.hash] = e.amount

\* "You do not have enough XLM balance to complete this donation. Please top
\* up first.": nobody's donations exceed their top-ups.
NeverOverdrawn == \A u \in Users : Debited(u) <= Credited(u)

\* A donation that is not charged to a balance counts as confirmed only if
\* LINGAP was paid its amount.
ConfirmedIsPaid ==
    \A d \in donations : d.confirmed =>
        \/ Charged(d) \/ BeingCharged(d)
        \/ d.hash \in successful /\ paid[d.hash] = d.amount

\* A donation confirmed without a transaction on Stellar is charged to its
\* donor's balance in the end, unless its request dies before.
UnpaidIsCharged ==
    \A d \in Donation :
        (d \in donations /\ d.confirmed)
            ~> (Charged(d) \/ d.hash \in successful \cup stranded)

\* "All methods now require a real Stellar tx signed via Freighter. Verify
\* the payment landed on-chain before crediting the balance.": what users are
\* credited for a payment is at most what it moved.
CreditedWithinPaid ==
    \A h \in Hashes :
        SumFunction([e \in {x \in Entry : x.kind = "top_up" /\ x.hash = h}
                        |-> e.amount * posted[e]]) <= paid[h]
=============================================================================
