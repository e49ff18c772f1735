----------------------------- MODULE DonorWallet -----------------------------
(***************************************************************************)
(* A donor's browser, paying: the donation cards of detail/[slug] and      *)
(* detail, the top-up modal, the Freighter hook each of them uses, and the *)
(* dashboard's replay of donations that an earlier version of the client   *)
(* left in localStorage.                                                   *)
(*                                                                         *)
(* A page pays on Stellar first and tells LINGAP afterwards, through four  *)
(* parties that answer when they like: Freighter, Horizon, LINGAP, and the *)
(* donor, who may close the tab.  All amounts are one unit, and an amount  *)
(* that is not positive is not tried.  LINGAP takes a call in one step     *)
(* (DonationLedger has its interleavings).                                 *)
(***************************************************************************)
EXTENDS Integers, FiniteSets

CONSTANTS
    Pages,      \* mounted pages: each has its own state and its own hook
    Via,        \* per page: "stellar" (detail/[slug]), "balance" (detail),
                \* "topup" (the modal)
    Attempts,   \* bound: the donations and top-ups that are tried
    Old,        \* hashes that may be waiting in localStorage
    None        \* no attempt

ASSUME WalletAssumption ==
    /\ Via \in [Pages -> {"stellar", "balance", "topup"}]
    /\ None \notin Attempts \cup Pages
    /\ Attempts \cap Old = {}
    /\ IsFiniteSet(Attempts)

VARIABLES
    allowed,     \* Freighter gives this site the donor's address
    linked,      \* the pages whose hook is connected and has a public key
    step,        \* per page: how far its handler is
    attempt,     \* per page: what that handler is about
    owner,       \* per attempt: the page it was started on, or None
    sequence,    \* per attempt: the sequence number of its transaction
    horizon,     \* submitted and not yet applied or expired
    landed,      \* applied: the payment has moved
    inbox,       \* calls to LINGAP that are on their way
    donations,   \* rows in donations
    credited,    \* top-ups in balance_transactions
    told,        \* attempts the donor saw an error for
    closed,      \* attempts whose tab was closed
    pending,     \* localStorage: lingap_pending_donations
    replaying    \* the dashboard's loop: the items still to be sent

hook  == <<allowed, linked>>
page  == <<step, attempt, owner>>
chain == <<sequence, horizon, landed>>
rows  == <<donations, credited>>
local == <<pending, replaying>>
vars  == <<hook, page, chain, inbox, rows, told, closed, local>>

Steps == {"idle", "connecting", "building", "signing", "submitting",
          "recording", "refreshing"}

Init ==
    /\ allowed \in BOOLEAN
    /\ linked = {}
    /\ step = [p \in Pages |-> "idle"]
    /\ attempt = [p \in Pages |-> None]
    /\ owner = [k \in Attempts |-> None]
    /\ sequence = [k \in Attempts |-> 0]
    /\ horizon = {}
    /\ landed = {}
    /\ inbox = {}
    /\ donations = {}
    /\ credited = {}
    /\ told = {}
    /\ closed = {}
    /\ pending \in SUBSET Old
    /\ replaying = {}

-----------------------------------------------------------------------------
(* useFreighter, and the button that needs it. *)

\* On mount.  An extension that has not allowed this site leaves the hook
\* connected without a key, which a handler treats as not connected.
CheckWallet(p) ==
    /\ allowed
    /\ linked' = linked \cup {p}
    /\ UNCHANGED <<allowed, page, chain, inbox, rows, told, closed, local>>

\* A button is disabled while its handler runs.
DonateOffered(p) == Via[p] # "topup" /\ step[p] = "idle"
TopUpOffered(p)  == Via[p] = "topup" /\ step[p] = "idle"
Offered(p) == DonateOffered(p) \/ TopUpOffered(p)

GrantAccess(p) ==
    /\ allowed' = TRUE
    /\ linked' = linked \cup {p}

\* The card's click only connects; donating is not set meanwhile, so that the
\* button stays as it was, and a refusal leaves nothing behind.
ConnectCard(p) ==
    /\ DonateOffered(p)
    /\ p \notin linked
    /\ GrantAccess(p)
    /\ UNCHANGED <<page, chain, inbox, rows, told, closed, local>>

\* The modal has set submitting before it looks at the wallet.
ConnectModal(p) ==
    /\ TopUpOffered(p)
    /\ p \notin linked
    /\ step' = [step EXCEPT ![p] = "connecting"]
    /\ UNCHANGED <<hook, attempt, owner, chain, inbox, rows, told, closed, local>>

AnswerModal(p) ==
    /\ step[p] = "connecting"
    /\ \/ GrantAccess(p)
       \/ UNCHANGED hook
    /\ step' = [step EXCEPT ![p] = "idle"]
    /\ UNCHANGED <<attempt, owner, chain, inbox, rows, told, closed, local>>

-----------------------------------------------------------------------------
(* The handlers: handleDonate of both detail pages, handleConfirm. *)

Goto(p, s) ==
    /\ step' = [step EXCEPT ![p] = s]
    /\ UNCHANGED <<hook, attempt, owner, rows, closed, local>>

Start(p, k) ==
    /\ Offered(p)
    /\ p \in linked
    /\ owner[k] = None
    /\ owner' = [owner EXCEPT ![k] = p]
    /\ attempt' = [attempt EXCEPT ![p] = k]
    /\ UNCHANGED <<hook, chain, rows, told, closed, local>>

\* The wallet pays before LINGAP is asked whether the balance allows it.
StartPayment(p, k) ==
    /\ Via[p] # "balance"
    /\ Start(p, k)
    /\ step' = [step EXCEPT ![p] = "building"]
    /\ UNCHANGED inbox

\* The card also compares the amount with the balance it shows, which may be
\* of any age: that never keeps LINGAP from seeing the call, and is left out.
DonateFromBalance(p, k) ==
    /\ Via[p] = "balance"
    /\ Start(p, k)
    /\ step' = [step EXCEPT ![p] = "recording"]
    /\ inbox' = inbox \cup {k}

\* loadAccount reads the sequence number the transaction will use.
BuildPayment(p) ==
    /\ step[p] = "building"
    /\ sequence' = [sequence EXCEPT ![attempt[p]] = Cardinality(landed) + 1]
    /\ Goto(p, "signing")
    /\ UNCHANGED <<horizon, landed, inbox, told>>

SignAndSubmit(p) ==
    /\ step[p] = "signing"
    /\ horizon' = horizon \cup {attempt[p]}
    /\ Goto(p, "submitting")
    /\ UNCHANGED <<sequence, landed, inbox, told>>

\* What a catch shows; the finally makes the button usable again.
Fail(p) ==
    /\ Goto(p, "idle")
    /\ told' = told \cup {attempt[p]}
    /\ UNCHANGED <<chain, inbox>>

\* The donor declines, or the account cannot be loaded: nothing was sent.
NotSent(p) ==
    /\ step[p] \in {"building", "signing"}
    /\ Fail(p)

\* LINGAP told before Horizon has answered: no action uses this.
RecordAtOnce(p) ==
    /\ step[p] = "submitting"
    /\ inbox' = inbox \cup {attempt[p]}
    /\ Goto(p, "recording")
    /\ UNCHANGED <<chain, told>>

\* Horizon has answered with the hash.
RecordPayment(p) ==
    /\ step[p] = "submitting"
    /\ attempt[p] \in landed
    /\ inbox' = inbox \cup {attempt[p]}
    /\ Goto(p, "recording")
    /\ UNCHANGED <<chain, told>>

\* A catch that shows nothing: no action uses this.
FailSilently(p) ==
    /\ step[p] \in {"submitting", "recording"}
    /\ Goto(p, "idle")
    /\ UNCHANGED <<chain, inbox, told>>

\* Horizon refused the transaction or its answer was lost; LINGAP refused the
\* call or its answer was lost.  The page cannot tell, and the hash is gone.
NoAnswer(p) ==
    /\ step[p] \in {"submitting", "recording"}
    /\ Fail(p)

Known(k) == k \in donations \cup credited

\* A card fetches its totals once more before its button is free.
Confirmed(p) ==
    /\ step[p] = "recording"
    /\ Known(attempt[p])
    /\ Goto(p, IF Via[p] = "topup" THEN "idle" ELSE "refreshing")
    /\ UNCHANGED <<chain, inbox, told>>

\* Whether they came or not.
Refresh(p) ==
    /\ step[p] = "refreshing"
    /\ Goto(p, "idle")
    /\ UNCHANGED <<chain, inbox, told>>

\* The tab is closed, whatever its handler was doing, and opened again.  What
\* it has sent goes on without it.
CloseTab(p) ==
    /\ linked' = linked \ {p}
    /\ step' = [step EXCEPT ![p] = "idle"]
    /\ attempt' = [attempt EXCEPT ![p] = None]
    /\ closed' = IF step[p] \in {"idle", "connecting"} THEN closed
                 ELSE closed \cup {attempt[p]}
    /\ UNCHANGED <<allowed, owner, chain, inbox, rows, told, local>>

-----------------------------------------------------------------------------
(* Stellar and LINGAP. *)

browser == <<hook, page, told, closed, local>>

\* Only the next sequence number of the account is taken.
Apply(k) ==
    /\ k \in horizon
    /\ sequence[k] = Cardinality(landed) + 1
    /\ landed' = landed \cup {k}
    /\ horizon' = horizon \ {k}
    /\ UNCHANGED <<browser, sequence, inbox, rows>>

\* Its sequence number is used up, or 180 s have passed.
Expire(k) ==
    /\ k \in horizon
    /\ horizon' = horizon \ {k}
    /\ UNCHANGED <<browser, sequence, landed, inbox, rows>>

\* Every donation a page asks for is charged to the balance, also the one the
\* wallet has just paid for; a replayed one is not.
Balance == Cardinality(credited) - Cardinality(donations \ Old)

AcceptDonation(k) ==
    /\ k \in inbox
    /\ Via[owner[k]] # "topup"
    /\ Balance >= 1
    /\ donations' = donations \cup {k}
    /\ inbox' = inbox \ {k}
    /\ UNCHANGED <<browser, chain, credited>>

\* The payment is looked up on Stellar first.
AcceptTopUp(k) ==
    /\ k \in inbox
    /\ Via[owner[k]] = "topup"
    /\ k \in landed
    /\ credited' = credited \cup {k}
    /\ inbox' = inbox \ {k}
    /\ UNCHANGED <<browser, chain, donations>>

\* Too little balance, a payment Horizon does not show yet, a session that
\* has expired, or a call that never arrived.
Refuse(k) ==
    /\ k \in inbox
    /\ inbox' = inbox \ {k}
    /\ UNCHANGED <<browser, chain, rows>>

-----------------------------------------------------------------------------
(* The dashboard: loadImpactData sends what localStorage still holds. *)

elsewhere == <<hook, page, chain, inbox, credited, told, closed>>

OpenDashboard ==
    /\ replaying' = replaying \cup pending
    /\ UNCHANGED <<elsewhere, donations, pending>>

\* donationsApi.create without spendBalance; one that LINGAP has already is
\* answered like a new one.
Replay(h) ==
    /\ h \in replaying
    /\ donations' = donations \cup {h}
    /\ pending' = pending \ {h}
    /\ replaying' = replaying \ {h}
    /\ UNCHANGED elsewhere

\* Dropped whatever came of the call: no action uses this.
ForgetAnyway(h) ==
    /\ h \in replaying
    /\ donations' \in {donations, donations \cup {h}}
    /\ pending' = pending \ {h}
    /\ replaying' = replaying \ {h}
    /\ UNCHANGED elsewhere

\* Refused, or the answer was lost: kept, and tried on the next visit.
ReplayFails(h) ==
    /\ h \in replaying
    /\ donations' \in {donations, donations \cup {h}}
    /\ replaying' = replaying \ {h}
    /\ UNCHANGED <<elsewhere, pending>>

-----------------------------------------------------------------------------

Handler(p) ==
    \/ AnswerModal(p)
    \/ BuildPayment(p)
    \/ SignAndSubmit(p)
    \/ NotSent(p)
    \/ RecordPayment(p)
    \/ NoAnswer(p)
    \/ Confirmed(p)
    \/ Refresh(p)

Remote(k) == Apply(k) \/ Expire(k) \/ AcceptDonation(k) \/ AcceptTopUp(k) \/ Refuse(k)

Next ==
    \/ \E p \in Pages :
          \/ CheckWallet(p) \/ ConnectCard(p) \/ ConnectModal(p)
          \/ \E k \in Attempts : StartPayment(p, k) \/ DonateFromBalance(p, k)
          \/ Handler(p)
          \/ CloseTab(p)
    \/ \E k \in Attempts : Remote(k)
    \/ OpenDashboard
    \/ \E h \in Old : Replay(h) \/ ReplayFails(h)

Spec == Init /\ [][Next]_vars

\* Every call a handler awaits answers or fails in the end.
FairSpec == Spec /\ \A p \in Pages : WF_vars(Handler(p))

-----------------------------------------------------------------------------
(* Properties. *)

\* Every part of the state has its declared shape.
TypeOK ==
    /\ allowed \in BOOLEAN
    /\ linked \subseteq Pages
    /\ step \in [Pages -> Steps]
    /\ attempt \in [Pages -> Attempts \cup {None}]
    /\ owner \in [Attempts -> Pages \cup {None}]
    /\ sequence \in [Attempts -> Nat]
    /\ horizon \subseteq Attempts
    /\ landed \subseteq Attempts
    /\ inbox \subseteq Attempts
    /\ donations \subseteq Attempts \cup Old
    /\ credited \subseteq Attempts
    /\ told \subseteq Attempts
    /\ closed \subseteq Attempts
    /\ pending \subseteq Old
    /\ replaying \subseteq Old

ByWallet(k) == owner[k] # None /\ Via[owner[k]] # "balance"

\* LINGAP confirms a donation that carries a hash without asking Stellar, so
\* it is up to the page that no row names a payment that never moved: not even
\* when the transaction expires, when its sequence number goes to another
\* page's, or when the tab is closed half way.
RecordedIsPaid ==
    \A k \in Attempts : Known(k) /\ ByWallet(k) => k \in landed

AtWork(k) ==
    \E p \in Pages : attempt[p] = k /\ step[p] \in {"submitting", "recording"}

\* Money that has left the wallet is recorded by LINGAP, or a page still works
\* on it, or the donor has seen an error or closed the tab: a payment is never
\* lost behind a page that shows nothing.
LostOnlyWhenTold ==
    \A k \in landed : Known(k) \/ AtWork(k) \/ k \in told \/ k \in closed

\* And no page works on it for ever.
PaymentsResolve ==
    \A k \in Attempts :
        k \in landed ~> (Known(k) \/ k \in told \/ k \in closed)

\* "Keep it locally and retry on the next dashboard visit.": an item leaves
\* localStorage only when LINGAP has it.
KeptUntilRecorded == [][pending \ pending' \subseteq donations']_vars

\* "every peso donated is tracked": what a donor who keeps the tab open has
\* paid is recorded.
PaidIsTracked == \A k \in landed : Known(k) \/ AtWork(k) \/ k \in closed
=============================================================================
